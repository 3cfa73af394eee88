--------------------------- MODULE MCEventPipeline ---------------------------
(* Small instances of EventPipeline for TLC. *)
EXTENDS EventPipeline, TLC

CONSTANTS p1, p2, c1

OneProducer  == {p1}
TwoProducers == {p1, p2}
OneConsumer  == {c1}

\* Producer runs are interchangeable.
Symmetry == Permutations(Producers)
=============================================================================
