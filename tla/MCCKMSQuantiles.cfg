SPECIFICATION Spec
CONSTANTS
  Values = {1, 2, 3, 4}
  Scale = 4
  Targets <- MCTargets
  BufferSize = 3
  NaN = NaN
  NoAnswer = NoAnswer
  MaxInserts = 8
INVARIANTS SamplesStandForAll GetSound ExactWithoutError
