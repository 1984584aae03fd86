SPECIFICATION LSpec
CONSTANTS
  MemSize = 12
  MaxString = 3
  Letters = {97, 98}
  MaxRadius = 12
  Reach = 2
  SZ_PAGE = 48
  N_USTKPAGES = 3
  N_ARGS = 3
  SZ_CONTEXT = 8
  DMX_SLOTS = 8
  DMX_FRAME_DATA_SIZE = 3
  VGA_WIDTH = 5
  VGA_HEIGHT = 4
  GLYPH = 2
  UDP_MAX_PAYLOAD = 6
  IPV4_MAX_PAYLOAD = 14
  ETH_MTU = 34
  ETH_MIN_PAYLOAD = 30
INVARIANTS
  MemoryRight
  ConversionsKnown
  ProgramSeesArgs
  DmxPacked
  DrawingRight
  FramesKnown
