CONSTANTS
  NULL = NULL
  PageSize = 8
  ARENA_HEADER_SIZE = 4
  DEFAULT_ALIGNMENT = 1
  SizeBits = 7
  CreateArgs <- MCCreateArgsWrap
  Sizes = {1, 3, 9}
  Alignments = {2, 4}
  Positions = {2, 13, 40, 41}
  MaxLive = 3
SPECIFICATION Spec
INVARIANT HeaderCommitted
