--------------------------- MODULE MCGroupCommit ---------------------------
(* GroupCommit for TLC: two or three producers and a handful of records.    *)
EXTENDS GroupCommit, TLC

CONSTANTS p1, p2, p3

TwoProducers == {p1, p2}
ThreeProducers == {p1, p2, p3}

(* Producers run the same code, and nothing orders them. *)
ProducerSymmetry == Permutations(Producers)
=============================================================================
