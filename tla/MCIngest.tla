------------------------------ MODULE MCIngest ------------------------------
(***************************************************************************)
(* Small instances of Ingest.                                              *)
(***************************************************************************)
EXTENDS Ingest, TLC

CONSTANTS alice, m1, sys, r1, r2, p1, p2, bad, none

MCUsers    == {alice}
MCMachines == {m1, sys}

\* alice owns m1; sys is a shared reference machine.
Rows == {[machine |-> m1, owner |-> alice], [machine |-> sys, owner |-> System]}
OpenRun(r) == [run |-> r, machine |-> m1, ended |-> FALSE]

\* r1 accepts cuts.  r2 is in any of the states a run can be in: absent, open,
\* ended, labeled, without a twin, on either machine.  The garbled payload is
\* sent to r1.
MCInit ==
  /\ machines = Rows
  /\ \/ runs = {OpenRun(r1)} /\ labels = {}
     \/ /\ \E m \in Machines, e \in BOOLEAN :
             runs = {OpenRun(r1), [OpenRun(r2) EXCEPT !.machine = m, !.ended = e]}
        /\ labels \in SUBSET {r2}
  /\ twin \in [Runs -> {<<>>, NoTwin}]
  /\ twin[r1] = <<>>
  /\ Init
  /\ \A u \in Garbled : req[u].run = r1 /\ req[u].machine = m1

MCSpec     == MCInit /\ [][Next]_vars
MCFairSpec == MCSpec /\ \A u \in Payloads : WF_vars(Step(u))

Alike == Permutations(Payloads \ Garbled)
=============================================================================
