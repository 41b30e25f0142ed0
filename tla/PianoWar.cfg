SPECIFICATION Spec
CONSTANTS
  LED_COUNT = 6
  Notes <- MiddleNotes
  MaxKeys = 2
INVARIANTS Coherent ActsOnceOnEach
PROPERTIES OneUnitPerKey GoesDark
