-------------------------------- MODULE Polling --------------------------------
(***************************************************************************)
(* poll of when: the work is done, its result verified and, unless it is accepted, the *)
(* work scheduled again after a delay; cancelable lets it be called off.          *)
(***************************************************************************)
EXTENDS Integers, FiniteSets

CONSTANT MaxVotes   \* bound: times the work is done

VARIABLES
  chain,       \* the steps on their way: each is one that was begun and is not answered
  canceled,
  settled,     \* what the deferred was settled with first
  told,        \* what the promise of the caller, the delegate, was settled with
  votes,       \* history: how often the work was begun
  late,        \* history: how often it was begun after the poll was canceled or settled
  threw        \* history: the work or the verifier threw where it was called

vars == <<chain, canceled, settled, told, votes, late, threw>>

-----------------------------------------------------------------------------
(* A vote does the work, unless the poll was canceled *)
Begun == votes' = votes + 1 /\ late' = IF settled = "none" THEN late ELSE late + 1
Voted(others) ==
  IF canceled THEN chain' = others /\ UNCHANGED <<votes, late>>
  ELSE chain' = others \cup {<<"working", votes>>} /\ Begun
Settle(how) == settled' = IF settled = "none" THEN how ELSE settled

(* The first vote may be put off; if not, and the work throws, so does poll itself *)
Init ==
  /\ canceled = FALSE /\ settled = "none" /\ told = "none" /\ late = 0 /\ threw = FALSE
  /\ \/ chain = {<<"working", 0>>} /\ votes = 1
     \/ chain = {<<"waiting", 0>>} /\ votes = 0

Without(step) == chain \ {step}
WorkDone(v) ==
  /\ <<"working", v>> \in chain /\ chain' = Without(<<"working", v>>) \cup {<<"verifying", v>>}
  /\ UNCHANGED <<canceled, settled, told, votes, late, threw>>
WorkFailed(v) ==
  /\ <<"working", v>> \in chain /\ chain' = Without(<<"working", v>>) /\ Settle("failed")
  /\ UNCHANGED <<canceled, told, votes, late, threw>>
Certify(v) ==
  /\ <<"verifying", v>> \in chain /\ chain' = Without(<<"verifying", v>>) /\ Settle("certified")
  /\ UNCHANGED <<canceled, told, votes, late, threw>>

(* Refused, or the verifier failed.  Beside the schedule, one that does not end what it follows. *)
AndAgain(v) == chain \cup {<<"waiting", v>>}
Again(v) == Without(<<"verifying", v>>) \cup {<<"waiting", v>>}
Schedule(v) ==
  /\ <<"verifying", v>> \in chain /\ chain' = Again(v)
  /\ UNCHANGED <<canceled, settled, told, votes, late, threw>>
DelayEnds(v) ==
  /\ <<"waiting", v>> \in chain /\ votes < MaxVotes /\ Voted(Without(<<"waiting", v>>))
  /\ UNCHANGED <<canceled, settled, told, threw>>
DelayFails(v) ==
  /\ <<"waiting", v>> \in chain /\ chain' = Without(<<"waiting", v>>) /\ Settle("failed")
  /\ UNCHANGED <<canceled, told, votes, late, threw>>

(* Work that throws and does not return a promise, and a verifier that does: what they throw *)
(* goes to a promise that nobody has, and neither settles the deferred nor begins a delay.   *)
WorkThrows(v) ==
  /\ <<"waiting", v>> \in chain /\ ~canceled /\ votes < MaxVotes
  /\ chain' = Without(<<"waiting", v>>) /\ Begun /\ threw' = TRUE
  /\ UNCHANGED <<canceled, settled, told>>
VerifierThrows(v) ==
  /\ <<"working", v>> \in chain /\ chain' = Without(<<"working", v>>) /\ threw' = TRUE
  /\ UNCHANGED <<canceled, settled, told, votes, late>>

Cancel ==
  /\ canceled' = TRUE /\ Settle("canceled") /\ UNCHANGED <<chain, told, votes, late, threw>>
Forward ==
  /\ settled # "none" /\ told = "none" /\ told' = settled
  /\ UNCHANGED <<chain, canceled, settled, votes, late, threw>>

Next ==
  \/ Cancel \/ Forward
  \/ \E v \in 0 .. MaxVotes :
       WorkDone(v) \/ WorkFailed(v) \/ Certify(v) \/ Schedule(v) \/ DelayEnds(v) \/ DelayFails(v)
       \/ WorkThrows(v) \/ VerifierThrows(v)

Spec == Init /\ [][Next]_vars

-----------------------------------------------------------------------------
(* A vote is not begun before the last is verified; a poll that nobody has called off     *)
(* goes on until it is settled, or until work or verifier throw, for then it stops without *)
(* being settled; and one that is settled, called off or stopped so does no more work than *)
(* it had begun.                                                                    *)
OneAtATime ==
  /\ Cardinality(chain) <= 1 /\ late = 0
  /\ chain = {} => settled # "none" \/ threw
  /\ threw => chain = {}
  /\ ~canceled /\ settled # "none" => chain = {}
  /\ told \in {"none", settled}
=============================================================================
