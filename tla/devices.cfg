SPECIFICATION DSpec
CONSTANTS
  SCREEN_MAX_X = 2
  SCREEN_MAX_Y = 2
  C_BUFSIZE = 4
  Codes = {30, 28, 32, 29, 157, 42, 170, 86, 224}
  MaxCalls = 4
  MaxKeys = 5
  ReadLengths = {1, 2, 3, 5}
  PLAY_W = 4
  PLAY_H = 2
  StartLength = 3
  VGA_WIDTH = 5
  VGA_HEIGHT = 5
  GLYPH = 2
  PCI_MAX_BUSES = 4
  PCI_MAX_DEVICES_PER_BUS = 2
  PCI_MAX_FUNCTIONS = 2
  UINT8_RANGE = 4
  Boards <- AllBoards
  UDP_MAX_PAYLOAD = 1472
  IPV4_MAX_PAYLOAD = 1480
  ETH_MTU = 1500
  ETH_MIN_PAYLOAD = 46
  RING_SIZE = 3
  ETH_MAX_FRAME_SIZE = 20
  ETH_MIN_FRAME_SIZE = 6
  MaxFrames = 6
  Pages = {0, 2, 5, 16}
  Codecs <- AllCodecs
  NODE_RANGE = 8
  MaxWalks = 2
INVARIANTS
  ScreenShowsPaper
  KeyboardInOrder
  ProgramsInside
  FoundAndProbed
  RingsInOrder
  WalkRight
PROPERTIES
  RegionsKept
  SearchEndsIfFound
  SentUnlessFull
CHECK_DEADLOCK FALSE
