SPECIFICATION Spec
CONSTANTS
  Counts = {0, 1, 3}
  Strips = {"GBR", "BRGW"}
  Colours <- TwoColours
  Brightness = {127}
  Freqs = {400000, 800000}
INVARIANTS StreamIsFrame GapFits
