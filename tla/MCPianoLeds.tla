---------------------------- MODULE MCPianoLeds ----------------------------
(* A keyboard with a modulation wheel, played softly or not.               *)
EXTENDS PianoLeds
Soft        == {2}
SoftAndLoud == {1, 2}
Wheel       == {<<176, 7, 1>>}
=============================================================================
