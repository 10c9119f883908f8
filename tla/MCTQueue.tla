------------------------------ MODULE MCTQueue ------------------------------
(* Small instances of TQueue for TLC.                                      *)
EXTENDS TQueueRefinement, TLC

CONSTANTS w1, w2, c1, c2

OneWriter    == {w1}
TwoWriters   == {w1, w2}
OneConsumer  == {c1}
TwoConsumers == {c1, c2}

\* Writers and consumers are interchangeable.
Symmetry == Permutations(Writers) \cup Permutations(Consumers)
=============================================================================
