SPECIFICATION FairSpec
CONSTANTS
  LED_COUNT = 3
  LED_TIME = 2
  Pads = {1, 5}
  LED_RESET_WAIT_TIME = 3
  PERIOD = 6
INVARIANT NoTear
PROPERTIES GapKept FramesGoOut
