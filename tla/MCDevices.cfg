SPECIFICATION Spec
CONSTANTS
  NULL = NULL
  KB_BUF_SIZE = 3
  MOUSE_BUF_SIZE = 2
  LateReplies = {0, 4}
  MaxTicks = 1
  MaxQueue = 1
  MaxPackets = 3
  MaxLost = 1
  Moves <- MCMoves
  CONSOLE_COLS = 4
  CONSOLE_ROWS = 2
  TAB_WIDTH = 2
  FbCols = 4
  FbRows = 3
  MaxActs = 3
  MaxText = 5
INVARIANTS
  KeysInOrder
  MouseInSync
  ScreenShowsTail

  
CHECK_DEADLOCK FALSE
