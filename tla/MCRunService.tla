---------------------------- MODULE MCRunService ----------------------------
(***************************************************************************)
(* Small instances of RunService: one live upload beside two jobs.         *)
(***************************************************************************)
EXTENDS RunService, TLC

CONSTANTS alice, m1, sys, up, c1, r1, p1, p2, bad, j1, j2, JobKinds, Taken

MCUsers    == {alice}
MCMachines == {m1, sys, up}
MCUploads  == (alice :> up)
MCRuns     == {c1, r1}

\* c1 is a labeled reference run of the shared machine, with one cut.
Reference == [run |-> c1, machine |-> sys, ended |-> FALSE]
Tool      == [run |-> r1, machine |-> m1, ended |-> FALSE]
FirstCut(r, m) == [run |-> r, cut |-> 1, key |-> <<m, r, 1>>]
FirstFeatures(r) == [run |-> r, cut |-> 1, src |-> p2]

\* r1 is absent or has taken at most one cut (Taken), and may have labels.  p1 is the live upload;
\* the other payloads only come as files of analyses (as uploads they were
\* answered long ago).  Requests are for r1, but p1 may be sent to c1, c1 may be
\* replayed, some jobs are sent to a machine that is not alice's, and analyses
\* also to none: the machine of her uploads, "up", is not there at first.
MCInit ==
  /\ machines = {[machine |-> m1, owner |-> alice], [machine |-> sys, owner |-> System]}
  /\ \/ /\ runs = {Reference} /\ labels = {c1}
        /\ cuts = {FirstCut(c1, sys)} /\ features = {FirstFeatures(c1)} /\ rul = {}
        /\ twin = [r \in Runs |-> NoTwin]
     \/ /\ runs = {Reference, Tool} /\ labels \in {{c1}, {c1, r1}}
        /\ cuts = {FirstCut(c1, sys)} \cup {FirstCut(r1, m1) : i \in 1..Taken}
        /\ features = {FirstFeatures(c1)} \cup {FirstFeatures(r1) : i \in 1..Taken}
        /\ rul = {[run |-> r1, cut |-> i, post |-> <<i>>] : i \in 1..Taken}
        /\ twin = [r \in Runs |-> IF r = r1 THEN upto(Taken) ELSE NoTwin]
  /\ results = {}
  /\ blobs = {[key |-> c.key, data |-> p2] : c \in cuts}
  /\ runLock = [r \in Runs |-> Free]
  /\ pc = [u \in Payloads |-> IF u = p1 THEN "unsent" ELSE "answered"]
  /\ \E r \in Runs :
       req = [u \in Payloads |-> [user |-> alice, machine |-> m1, run |-> r,
                                  cut |-> 0, post |-> <<>>, status |-> IF u = p1 THEN 0 ELSE 400]]
  /\ job \in [Jobs -> [kind : JobKinds, user : {alice}, machine : {m1, sys, up, NoMachine},
                       run : {r1, c1}, ref : {NoRef, c1}, fresh : BOOLEAN,
                       files : {<<>>, <<p2, p2>>, <<p2, bad>>, <<p2, p2, p2>>},
                       start : {0}, todo : {{}}, post : {<<>>}, rows : {{}}, status : {0}]]
  /\ \A j \in Jobs :
       /\ job[j].ref = c1 => job[j].kind \in {"results", "replay"}
       /\ job[j].files # <<p2, p2>> => job[j].kind = "analyze"
       /\ job[j].machine = up => job[j].kind = "delete"
       /\ job[j].machine = sys => job[j].run = c1 \/ job[j].kind \in {"start", "delete"}
       /\ job[j].run = c1 => /\ job[j].machine = sys /\ job[j].kind = "replay"
                             /\ job[j].ref = NoRef
  /\ ServiceInit

\* Three requests, of which two overlap at a time.
TwoAtATime ==
  Cardinality({u \in Payloads : pc[u] \in InFlight}) + Cardinality({j \in Jobs : jpc[j] \in Doing})
    <= 2

Alike  == Permutations(Jobs)
MCSpec == MCInit /\ [][ServiceNext]_svars
=============================================================================
