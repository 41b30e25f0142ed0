------------------------------- MODULE MCPipe -------------------------------
(* Finite instances of Pipe for TLC. *)
EXTENDS Pipe, TLC

CONSTANTS p1, p2, c1, c2, e1, e2

OneProducer  == {p1}
TwoProducers == {p1, p2}
OneConsumer  == {c1}
TwoConsumers == {c1, c2}
TwoElements  == {e1, e2}
OneElement   == {e1}
Everybody    == Threads
NotConsumers == Threads \ Consumers
Nobody       == {}
Powers       == {1, 2, 4, 8, 16}

Symmetry == Permutations(TwoElements) \cup Permutations(Producers) \cup Permutations(Consumers)
=============================================================================
