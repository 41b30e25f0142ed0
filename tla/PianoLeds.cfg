SPECIFICATION FairSpec
CONSTANTS
  LED_COUNT = 1
  Velocities <- SoftAndLoud
  Chatter <- Wheel
  MaxTransit = 1
  MidiMayFail = TRUE
  LedsMayFail = TRUE
INVARIANTS TypeOK Agrees SustainFollows StruckIsShown InBoundsWhileOpen
PROPERTIES WokenByTraffic GoesDark FatalEnds
CHECK_DEADLOCK FALSE
