----------------------------- MODULE MCDeletion -----------------------------
(* Two executors, two serving operations and one object of old. *)
EXTENDS CommunityDeletion, TLC

CONSTANTS e1, e2, w1, w2, old

TwoExecutors == {e1, e2}
TwoWriters == {w1, w2}
OneObject == {old}
Interchangeable == Permutations(Executor) \cup Permutations(Writer)
=============================================================================
