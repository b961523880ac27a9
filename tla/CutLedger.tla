----------------------------- MODULE CutLedger -----------------------------
(***************************************************************************)
(* What live ingest promises for each run: a ledger of cuts that only      *)
(* grows.  A cut is admitted under the next index; the twin may absorb the *)
(* newest admitted cut, once; an RUL prediction may be published for the   *)
(* newest admitted cut, once, and only after the twin has absorbed it.     *)
(* Nothing is ever taken back.  A cut that was admitted need not be        *)
(* absorbed, nor one that was absorbed be published: the handler may fail  *)
(* in between, and no later request makes up for it.                       *)
(***************************************************************************)
EXTENDS Naturals, Sequences

CONSTANTS Runs, NoTwin

VARIABLES
  admitted,   \* the number of cuts with features
  posterior,  \* the cuts the twin has absorbed, in order
  published   \* the cuts with an RUL prediction

vars == <<admitted, posterior, published>>

Newest(r, i) == Len(posterior[r]) > 0 /\ posterior[r][Len(posterior[r])] = i

Init ==
  /\ admitted  = [r \in Runs |-> 0]
  /\ posterior \in [Runs -> {<<>>, NoTwin}]
  /\ published = [r \in Runs |-> {}]

Admit(r) ==
  /\ posterior[r] # NoTwin
  /\ admitted' = [admitted EXCEPT ![r] = @ + 1]
  /\ UNCHANGED <<posterior, published>>

Absorb(r) ==
  /\ posterior[r] # NoTwin
  /\ admitted[r] > 0
  /\ ~Newest(r, admitted[r])
  /\ posterior' = [posterior EXCEPT ![r] = Append(@, admitted[r])]
  /\ UNCHANGED <<admitted, published>>

Publish(r) ==
  /\ posterior[r] # NoTwin
  /\ Newest(r, admitted[r])
  /\ admitted[r] \notin published[r]
  /\ published' = [published EXCEPT ![r] = @ \cup {admitted[r]}]
  /\ UNCHANGED <<admitted, posterior>>

Next == \E r \in Runs : Admit(r) \/ Absorb(r) \/ Publish(r)

Spec == Init /\ [][Next]_vars
=============================================================================
