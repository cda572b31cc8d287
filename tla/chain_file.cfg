SPECIFICATION Spec
CONSTANTS
  Digest = {d1, d2}
  NoHash = NoHash
  Piece = Piece
  Missing = Missing
  MaxExecutions = 4
CHECK_DEADLOCK FALSE
INVARIANTS
  ChainTypeOK
  ChainIsLinked
  ChainIsAdded
  UntornIsReadable
  PanicsBeforeFirstBlock
