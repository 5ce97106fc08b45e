----------------------- MODULE MCPartitionAssignment -----------------------
(***************************************************************************)
(* Small instances of PartitionAssignment for TLC.                          *)
(***************************************************************************)
EXTENDS PartitionAssignment, TLC

(* Partition 0 is always task 0's; the messages are in the other one, which changes hands *)
MCLogEnd == [p \in Partitions |-> IF p = 0 THEN 0 ELSE MaxOffset]

(* A fault and a tuple that fails, or two tuples that fail *)
FewTroubles == fails + faults <= 2

MCSymmetry == Permutations(Hosts)
=============================================================================
