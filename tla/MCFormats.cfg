SPECIFICATION Spec
CONSTANTS
  Letters = {"m", "k", "count", "le", "quantile"}
  Digits = {"0"}
  Names <- MCNames
  Types <- MCTypes
  LabelNames <- MCLabelNames
  Chars <- MCChars
  Helps = {"help"}
  Doubles = {"-inf"}
  Bounds <- MCBounds
  Timestamps = {"0", "7"}
  MaxSize = 6
  PathNames <- MCPathNames
  PathBytes <- MCPathBytes
  MaxPathLabels = 2
  MaxPathBytes = 3
  User <- MCUser
  Password <- MCPassword
  Tokens <- MCTokens
  AuthBytes <- MCAuthBytes
  MaxToken = 8
  MaxAuthBytes = 5
  Null = Null
INVARIANTS ReadBack SeriesWrittenOnce LabelsRecovered CredentialsArrive OnlyWholeTokens
CHECK_DEADLOCK FALSE
