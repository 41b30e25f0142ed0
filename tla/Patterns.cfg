SPECIFICATION Spec
CONSTANTS
  Channels = {red, blue}
  Top = top
  MAX = 7
  RAND_COLOR_THRESHOLD = 2
  NONE = NONE
  PIANO_NORMAL = PIANO_NORMAL
  PIANO_WAR = PIANO_WAR
  AMBIENT_NORMAL = AMBIENT_NORMAL
  AMBIENT_GRADIENT = AMBIENT_GRADIENT
  Uninitialised = Uninitialised
  LED_COUNT = 2
  Factors = {75, 124}
  MaxFrames = 2
INVARIANTS DataMatches OnlyItsLight GradientSmooth
PROPERTIES Remembers Gently LedsGently
