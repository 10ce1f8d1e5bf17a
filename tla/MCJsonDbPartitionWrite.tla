----------------------- MODULE MCJsonDbPartitionWrite -----------------------
(* A small instance of JsonDbPartitionWrite for TLC. *)
EXTENDS JsonDbPartitionWrite

\* 2 is a tombstone, 3 lacks the type that makes it 1.
MCBody == 1..3
MCTombstone == {2}
MCTyped(body) == IF body = 3 THEN 1 ELSE body

MCFirst == {Absent, Bare([count |-> 1, hash |-> 1], 1)}

Symmetric == Permutations(Replica)
=============================================================================
