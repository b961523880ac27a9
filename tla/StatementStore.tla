--------------------------- MODULE StatementStore ---------------------------
(***************************************************************************)
(* What both data stores promise a caller (domain/stores.py, DataStore:    *)
(* "crash-safe per operation"), statement by statement.  A call is one     *)
(* operation of the store, a row of statements.  They reach the disk in    *)
(* order; a call returns only when all have; none is ever taken back, and  *)
(* what a crash lost does not come later.  A call that raised may have     *)
(* written any part of its statements, and may still.                      *)
(***************************************************************************)
EXTENDS Naturals

CONSTANTS Calls, Length     \* the calls, and how many statements each has

VARIABLES
  stored,     \* how many statements of each call are on disk
  status      \* of the calls

Status == {"idle", "running", "ok", "raised", "lost"}

StoreInit == stored = [c \in Calls |-> 0] /\ status = [c \in Calls |-> "idle"]

Turn(c, from, to) == status[c] = from /\ status' = [status EXCEPT ![c] = to]

Grow ==
  /\ stored' \in [Calls -> Nat]
  /\ \A c \in Calls :
       /\ stored[c] <= stored'[c] /\ stored'[c] <= Length[c]
       /\ stored'[c] # stored[c] => status[c] \in {"running", "raised"}

Call(c)   == Turn(c, "idle", "running") /\ UNCHANGED stored
Write     == Grow /\ UNCHANGED status
Return(c) == Turn(c, "running", "ok") /\ Grow /\ stored'[c] = Length[c]
Raise(c)  == Turn(c, "running", "raised") /\ Grow
Crash ==
  /\ status' = [c \in Calls |-> IF status[c] \in {"running", "raised"} THEN "lost" ELSE status[c]]
  /\ UNCHANGED stored

StoreNext == Write \/ Crash \/ \E c \in Calls : Call(c) \/ Return(c) \/ Raise(c)

StoreSpec == StoreInit /\ [][StoreNext]_<<stored, status>>
=============================================================================
