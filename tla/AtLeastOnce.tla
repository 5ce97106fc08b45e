----------------------------- MODULE AtLeastOnce -----------------------------
(***************************************************************************)
(* What a reader of one append-only log promises: it may process messages   *)
(* in any order and more than once, but the position it saves for its       *)
(* successor never passes a message, from the one it answers for on, that   *)
(* has not been processed.                                                  *)
(***************************************************************************)
EXTENDS Naturals

CONSTANT NoPosition  \* nothing saved: the successor starts where it is told to

VARIABLES
  published,  \* the log is 0 .. published - 1
  processed,  \* offsets processed at least once
  first,      \* the offset the reader answers for from
  saved       \* the saved position, or NoPosition

abstractVars == <<published, processed, first, saved>>

Init ==
  /\ published = 0
  /\ processed = {}
  /\ first = 0
  /\ saved = NoPosition

Publish ==
  /\ published' = published + 1
  /\ UNCHANGED <<processed, first, saved>>

(* A new reader with nothing saved is told where to start *)
Subscribe(o) ==
  /\ saved = NoPosition
  /\ o <= published
  /\ first' = o
  /\ UNCHANGED <<published, processed, saved>>

(* One step of the reader: some messages are processed, then it may save a   *)
(* position.  The position may be below an earlier one.                     *)
Process(offsets) ==
  /\ \A o \in offsets : o < published
  /\ processed' = processed \cup offsets
  /\ UNCHANGED <<published, first>>
  /\ \/ UNCHANGED saved
     \/ \E o \in 0 .. published :
          /\ \A p \in first .. o - 1 : p \in processed'
          /\ saved' = o

(* The saved position is given up: everything is to be read anew *)
Forget ==
  /\ saved' = NoPosition
  /\ UNCHANGED <<published, processed, first>>

Next ==
  \/ Publish
  \/ \E o \in 0 .. published : Subscribe(o)
  \/ \E offsets \in SUBSET (0 .. published - 1) : Process(offsets)
  \/ Forget

Spec == Init /\ [][Next]_abstractVars
=============================================================================
