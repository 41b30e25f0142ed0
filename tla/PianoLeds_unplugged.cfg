SPECIFICATION Spec
CONSTANTS
  LED_COUNT = 1
  Velocities <- Soft
  Chatter <- Wheel
  MaxTransit = 0
  MidiMayFail = TRUE
  LedsMayFail = FALSE
INVARIANTS AlwaysInBounds
CHECK_DEADLOCK FALSE
