--------------------------- MODULE MCWs2811Encode ---------------------------
(* Finite instances of Ws2811Encode for TLC. *)
EXTENDS Ws2811Encode, TLC

(* Four different bytes, and black. *)
TwoColours == {0 :> 5 @@ 8 :> 200 @@ 16 :> 66 @@ 24 :> 255,
               [s \in {0, 8, 16, 24} |-> 0]}
=============================================================================
