------------------------- MODULE MCPartitionManager -------------------------
(***************************************************************************)
(* Small instances of PartitionManager for TLC.                             *)
(***************************************************************************)
EXTENDS PartitionManager, TLC

(* Offset 1 holds a message the scheme turns into null; the others give a    *)
(* tuple each.                                                              *)
MCPayload == [o \in Offsets |-> IF o = 1 THEN "null" ELSE "tuple"]

(* As above, and the last message makes the scheme throw: whoever reads it   *)
(* dies.                                                                    *)
MCPoison ==
  [o \in Offsets |-> CASE o = 1 -> "null"
                       [] o = MaxOffset - 1 -> "throws"
                       [] OTHER -> "tuple"]

(* KafkaConfig's defaults, the ones TruckEventProcessorKafkaTopology uses *)
Default == [forceFromStart |-> FALSE, startAt |-> "earliest", useStart |-> TRUE]

Forced == [Default EXCEPT !.forceFromStart = TRUE]
Latest == [forceFromStart |-> TRUE, startAt |-> "latest", useStart |-> FALSE]

MCDefault == {Default}
MCConfigs == {Default, Forced, Latest}

MCSymmetry == Permutations(RootIds) \cup Permutations(Hosts)
=============================================================================
