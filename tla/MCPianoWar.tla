----------------------------- MODULE MCPianoWar -----------------------------
(* A short strip; 64 is the last note of the left half, 65 the first of    *)
(* the right half.                                                         *)
EXTENDS PianoWar
MiddleNotes == {64, 65}
=============================================================================
