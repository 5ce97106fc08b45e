--------------------------- MODULE MCEventPipeline ---------------------------
(* Logs of truck events for TLC: one driver's violations, or two drivers', over *)
(* one demo or two.                                                           *)
EXTENDS EventPipeline, TLC
CONSTANTS d1, d2, t1, t2
Unsafe(d, n) == [driver |-> d, unsafe |-> TRUE, demo |-> n]
Normal(d, n) == [driver |-> d, unsafe |-> FALSE, demo |-> n]
MCDrivers == {d1, d2}
MCTasks == {t1, t2}
MCLogs == {
  <<Unsafe(d1, 1), Unsafe(d1, 1)>>,
  <<Unsafe(d2, 1), Normal(d1, 2), Unsafe(d2, 2)>>,
  <<Unsafe(d1, 1), Unsafe(d2, 1)>>}
Symmetry == Permutations(MCTasks)
=============================================================================
