SPECIFICATION Spec
CONSTANTS
  Values = {1, 2, 3, 4, 5}
  Scale = 10
  Targets <- MCMedian
  BufferSize = 4
  NaN = NaN
  NoAnswer = NoAnswer
  MaxInserts = 6
INVARIANTS WithinError
