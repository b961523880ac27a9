------------------------------- MODULE Ingest -------------------------------
(***************************************************************************)
(* POST /machines/{m}/runs/{r}/cuts (api/app.py, ingest_cut) and the       *)
(* IngestHandler it calls (ingest/handler.py).                             *)
(*                                                                         *)
(* Every upload is handled by a thread of its own, under the lock of its   *)
(* run.  A thread runs one statement per action, each a commit of its own, *)
(* so a crash, a storage error or another thread may come between any two. *)
(* Where a statement raises, the handler gives up and the request is       *)
(* answered with an error: nothing already written is undone.              *)
(***************************************************************************)
EXTENDS DataStore

CONSTANTS
  Garbled,    \* payloads decode_waveform or extract raises on
  Empty,      \* payloads with no bytes at all
  Free,       \* an unlocked run lock
  Faults,     \* whether a store may raise an I/O error
  Crashes     \* whether the server process may die

ASSUME PayloadAssumption == Garbled \subseteq Payloads /\ Empty \subseteq Payloads
ASSUME FreeAssumption    == Free \notin Payloads
ASSUME SwitchAssumption  == Faults \in BOOLEAN /\ Crashes \in BOOLEAN

VARIABLES
  blobs,      \* the object store: a set of [key, data]
  runLock,    \* _run_locks: the upload whose thread holds the run's lock
  pc,         \* what the thread of an upload does next
  req         \* the request and the locals of its thread

vars == <<tables, blobs, runLock, pc, req>>

Statements == {"check_machine", "check_run", "check_labels", "check_twin",
               "index", "put", "append_cut", "decode", "append_features",
               "load_twin", "save_twin", "append_rul"}
InLock     == Statements \cup {"exit"}
InFlight   == InLock \cup {"waiting"}
Phase      == InFlight \cup {"unsent", "answered", "lost"}
Status     == {0, 200, 400, 404, 409}

Request == [user : Users, machine : Machines, run : Runs,
            cut : Nat, post : Posterior, status : Status]
Blob    == [key : Key, data : Payloads]

TypeOK ==
  /\ TablesOK
  /\ blobs   \subseteq Blob
  /\ runLock \in [Runs -> Payloads \cup {Free}]
  /\ pc      \in [Payloads -> Phase]
  /\ req     \in [Payloads -> Request]

waveform_key(u) == <<req[u].machine, req[u].run, req[u].cut>>

(***************************************************************************)
(* A deployed run has a row, and a twin that has absorbed nothing.  Runs   *)
(* that are absent, ended, labeled or have no twin are initial states too. *)
(* No cut has arrived yet.                                                 *)
(***************************************************************************)
Init ==
  /\ machines \in SUBSET MachineRow
  /\ runs     \in SUBSET RunRow
  /\ \A x, y \in machines : x.machine = y.machine => x = y
  /\ \A x, y \in runs : x.run = y.run => x = y
  /\ \A row \in runs : machine_exists(row.machine)
  /\ labels   \in SUBSET {r \in Runs : run_exists(r)}
  /\ twin     \in [Runs -> {<<>>, NoTwin}]
  /\ \A r \in Runs : has_twin_state(r) => run_exists(r)
  /\ cuts = {} /\ features = {} /\ rul = {} /\ results = {} /\ blobs = {}
  /\ runLock  = [r \in Runs |-> Free]
  /\ pc       = [u \in Payloads |-> "unsent"]
  /\ req      \in [Payloads -> [user : Users, machine : Machines, run : Runs,
                               cut : {0}, post : {<<>>}, status : {0}]]

(***************************************************************************)
(* Control of one thread.                                                  *)
(*                                                                         *)
(* Definitions whose name begins with Bug are deliberate faults.  They are *)
(* no part of Next: each stands for a slip that could be made in the code  *)
(* of the definition after it, and some property below must notice.        *)
(***************************************************************************)
At(u, phase) == pc[u] = phase
Goto(u, phase) == pc' = [pc EXCEPT ![u] = phase]

\* An exception leaves the with block through "exit", carrying its status.
Raise(u, status) ==
  /\ Goto(u, "exit")
  /\ req' = [req EXCEPT ![u].status = status]

\* A write that is applied either returns or, its acknowledgement lost, raises.
Returns(u, next) ==
  \/ Goto(u, next) /\ UNCHANGED req
  \/ Faults /\ Raise(u, 400)

\* A check that fails is an HTTPException; one that passes goes on.
Check(u, test, next, status) ==
  /\ IF test THEN Goto(u, next) /\ UNCHANGED req ELSE Raise(u, status)
  /\ UNCHANGED <<tables, blobs, runLock>>

(***************************************************************************)
(* The endpoint.                                                           *)
(***************************************************************************)
\* await request.body(): an empty body is refused before any thread starts.
Receive(u) ==
  /\ At(u, "unsent")
  /\ IF u \in Empty
       THEN Goto(u, "answered") /\ req' = [req EXCEPT ![u].status = 400]
       ELSE Goto(u, "waiting") /\ UNCHANGED req
  /\ UNCHANGED <<tables, blobs, runLock>>

\* The thread does not look whether the lock is taken.
BugEnterUnlocked(u) ==
  /\ At(u, "waiting")
  /\ Goto(u, "check_machine")
  /\ UNCHANGED <<tables, blobs, runLock, req>>

EnterRunLock(u) ==
  /\ At(u, "waiting")
  /\ runLock[req[u].run] = Free
  /\ runLock' = [runLock EXCEPT ![req[u].run] = u]
  /\ Goto(u, "check_machine")
  /\ UNCHANGED <<tables, blobs, req>>

\* _writable_machine: the caller owns it.
CheckMachine(u) ==
  /\ At(u, "check_machine")
  /\ Check(u, owned_by(req[u].machine, req[u].user), "check_run", 404)

CheckRun(u) ==
  /\ At(u, "check_run")
  /\ IF run_exists(req[u].run)
       THEN Check(u, ~has_ended(req[u].run), "check_labels", 409)
       ELSE Check(u, FALSE, "check_labels", 404)

\* The labels of the run are not asked for.
BugSkipLabels(u) ==
  /\ At(u, "check_labels")
  /\ Check(u, TRUE, "check_twin", 409)

CheckLabels(u) ==
  /\ At(u, "check_labels")
  /\ Check(u, req[u].run \notin labels, "check_twin", 409)

CheckTwin(u) ==
  /\ At(u, "check_twin")
  /\ Check(u, has_twin_state(req[u].run), "index", 409)

\* The index is the number of earlier cuts: numbering starts at 0.
BugIndexFromZero(u) ==
  /\ At(u, "index")
  /\ req' = [req EXCEPT ![u].cut = count_features(req[u].run)]
  /\ Goto(u, "put")
  /\ UNCHANGED <<tables, blobs, runLock>>

\* The index is taken from the cuts table instead of the features table.
BugIndexFromCuts(u) ==
  /\ At(u, "index")
  /\ req' = [req EXCEPT ![u].cut = Cardinality(Of(cuts, req[u].run)) + 1]
  /\ Goto(u, "put")
  /\ UNCHANGED <<tables, blobs, runLock>>

AssignIndex(u) ==
  /\ At(u, "index")
  /\ req' = [req EXCEPT ![u].cut = count_features(req[u].run) + 1]
  /\ Goto(u, "put")
  /\ UNCHANGED <<tables, blobs, runLock>>

(***************************************************************************)
(* IngestHandler.ingest_cut.                                               *)
(***************************************************************************)
\* put overwrites whatever the key held.
PutBlob(u) ==
  /\ At(u, "put")
  /\ blobs' = {b \in blobs : b.key # waveform_key(u)}
                \cup {[key |-> waveform_key(u), data |-> u]}
  /\ Returns(u, "append_cut")
  /\ UNCHANGED <<tables, runLock>>

AppendCut(u) ==
  /\ At(u, "append_cut")
  /\ append_cut(req[u].run, req[u].cut, waveform_key(u))
  /\ Returns(u, "decode")
  /\ UNCHANGED <<blobs, runLock>>

\* decode_waveform and extract touch no store.
Decode(u) ==
  /\ At(u, "decode")
  /\ Check(u, u \notin Garbled, "append_features", 400)

\* The lock only covers the index and the rows, not the twin.
BugUnlockBeforeTwin(u) ==
  /\ At(u, "append_features")
  /\ append_features(req[u].run, req[u].cut, u)
  /\ Goto(u, "load_twin")
  /\ runLock' = [runLock EXCEPT ![req[u].run] = Free]
  /\ UNCHANGED <<blobs, req>>

AppendFeatures(u) ==
  /\ At(u, "append_features")
  /\ append_features(req[u].run, req[u].cut, u)
  /\ Returns(u, "load_twin")
  /\ UNCHANGED <<blobs, runLock>>

(***************************************************************************)
(* ParticleTwin.update: load the posterior, filter one cut, save it.       *)
(***************************************************************************)
\* The filter starts from a fresh prior instead of the stored posterior.
BugFreshPrior(u) ==
  /\ At(u, "load_twin")
  /\ has_twin_state(req[u].run)
  /\ req' = [req EXCEPT ![u].post = <<>>]
  /\ Goto(u, "save_twin")
  /\ UNCHANGED <<tables, blobs, runLock>>

LoadTwin(u) ==
  /\ At(u, "load_twin")
  /\ has_twin_state(req[u].run)
  /\ req' = [req EXCEPT ![u].post = twin[req[u].run]]
  /\ Goto(u, "save_twin")
  /\ UNCHANGED <<tables, blobs, runLock>>

filtered(u) == Append(req[u].post, req[u].cut)

\* The new posterior is never written back.
BugNoSave(u) ==
  /\ At(u, "save_twin")
  /\ Goto(u, "append_rul")
  /\ req' = [req EXCEPT ![u].post = filtered(u)]
  /\ UNCHANGED <<tables, blobs, runLock>>

\* An update whose acknowledgement is lost is run again from the load.
BugRetryUpdate(u) ==
  /\ At(u, "save_twin")
  /\ save_twin_state(req[u].run, filtered(u))
  /\ Goto(u, IF Faults /\ Len(req[u].post) < 2 THEN "load_twin" ELSE "append_rul")
  /\ req' = [req EXCEPT ![u].post = filtered(u)]
  /\ UNCHANGED <<blobs, runLock>>

\* The local posterior is also what the RUL row will be projected from.
SaveTwin(u) ==
  /\ At(u, "save_twin")
  /\ save_twin_state(req[u].run, filtered(u))
  /\ \/ Goto(u, "append_rul") /\ req' = [req EXCEPT ![u].post = filtered(u)]
     \/ Faults /\ Raise(u, 400)
  /\ UNCHANGED <<blobs, runLock>>

AppendRul(u) ==
  /\ At(u, "append_rul")
  /\ append_rul(req[u].run, req[u].cut, req[u].post)
  /\ \/ Goto(u, "exit") /\ req' = [req EXCEPT ![u].status = 200]
     \/ Faults /\ Raise(u, 400)
  /\ UNCHANGED <<blobs, runLock>>

(***************************************************************************)
(* Statements that raise.  A refused insert violates a constraint; any     *)
(* statement may meet an I/O error.  Neither changes a table.              *)
(***************************************************************************)
Refused(u) ==
  LET r == req[u].run  i == req[u].cut IN
  \/ At(u, "append_cut") /\ (has_cut(r, i) \/ ~run_exists(r))
  \/ At(u, "append_features") /\ (i \in IndicesOf(features, r) \/ ~has_cut(r, i))
  \/ At(u, "load_twin") /\ ~has_twin_state(r)
  \/ At(u, "save_twin") /\ ~run_exists(r)
  \/ At(u, "append_rul") /\ (i \in IndicesOf(rul, r) \/ ~has_cut(r, i))

\* The error is answered without leaving the with block.
BugErrorKeepsLock(u) ==
  /\ Refused(u) \/ (Faults /\ pc[u] \in Statements \ {"decode"})
  /\ Goto(u, "answered")
  /\ req' = [req EXCEPT ![u].status = 400]
  /\ UNCHANGED <<tables, blobs, runLock>>

StatementRaises(u) ==
  /\ Refused(u) \/ (Faults /\ pc[u] \in Statements \ {"decode"})
  /\ Raise(u, 400)
  /\ UNCHANGED <<tables, blobs, runLock>>

\* The lock is taken but never let go.
BugNeverUnlock(u) ==
  /\ At(u, "exit")
  /\ Goto(u, "answered")
  /\ UNCHANGED <<tables, blobs, runLock, req>>

\* The with block releases the lock and the client gets its answer.
ExitRunLock(u) ==
  /\ At(u, "exit")
  /\ runLock' = [runLock EXCEPT ![req[u].run] = Free]
  /\ Goto(u, "answered")
  /\ UNCHANGED <<tables, blobs, req>>

\* The process dies and is started again: the stores survive, nothing else.
Restart ==
  /\ Crashes
  /\ \E u \in Payloads : pc[u] \in InFlight
  /\ pc' = [u \in Payloads |-> IF pc[u] \in InFlight THEN "lost" ELSE pc[u]]
  /\ runLock' = [r \in Runs |-> Free]
  /\ UNCHANGED <<tables, blobs, req>>

Step(u) ==
  \/ EnterRunLock(u)
  \/ CheckMachine(u) \/ CheckRun(u) \/ CheckLabels(u) \/ CheckTwin(u)
  \/ AssignIndex(u)
  \/ PutBlob(u) \/ AppendCut(u) \/ Decode(u) \/ AppendFeatures(u)
  \/ LoadTwin(u) \/ SaveTwin(u) \/ AppendRul(u)
  \/ StatementRaises(u)
  \/ ExitRunLock(u)

Next ==
  \/ \E u \in Payloads : Receive(u) \/ Step(u)
  \/ Restart

Spec == Init /\ [][Next]_vars

\* A thread that can run is eventually scheduled; clients and crashes are not.
FairSpec == Spec /\ \A u \in Payloads : WF_vars(Step(u))
-----------------------------------------------------------------------------
(***************************************************************************)
(* Safety.                                                                 *)
(***************************************************************************)
Prefix(s, t) == Len(s) <= Len(t) /\ \A j \in 1..Len(s) : s[j] = t[j]
EndsIn(s, i) == Len(s) > 0 /\ s[Len(s)] = i

\* count_features + 1 is the next free index (app.py:353): the features of a
\* run are numbered 1..n without a gap or a repetition, whatever failed or
\* crashed before, and at most one cut row, numbered n+1, has no features.
IndicesDense ==
  \A r \in Runs :
    LET n == count_features(r) IN
    /\ IndicesOf(features, r) = 1..n
    /\ IndicesOf(cuts, r) \subseteq 1..(n + 1)

\* handler.py:33-36 stores the blob and names its key in the cut row before it
\* derives anything: whatever overwrites happen, the blob that a cut's key
\* names is the one that the features of that cut were extracted from.
BlobIsSource ==
  \A f \in features : \E c \in cuts :
    /\ c.run = f.run /\ c.cut = f.cut
    /\ [key |-> c.key, data |-> f.src] \in blobs

\* ParticleTwin.update is a load and a save (particle_twin.py:40-63).  No cut
\* is absorbed twice, none out of order, and none that has no features row.
PosteriorInOrder ==
  \A r \in Runs : has_twin_state(r) =>
    /\ \A j \in 1..Len(twin[r]) : twin[r][j] \in IndicesOf(features, r)
    /\ \A j, k \in 1..Len(twin[r]) : j < k => twin[r][j] < twin[r][k]

\* A stored prediction for cut i was projected from a posterior that ends in
\* cut i and that every later posterior of the run still extends: no update
\* was lost behind it (handler.py:44-45).
RulFromPosterior ==
  \A p \in rul :
    /\ has_twin_state(p.run)
    /\ EndsIn(p.post, p.cut)
    /\ Prefix(p.post, twin[p.run])

\* A 200 answer (app.py:362) is a promise that survives later requests, errors
\* and restarts: the cut, its features, its effect on the twin and its
\* prediction are stored, under an index no other payload has.
Durable(u) ==
  LET r == req[u].run  i == req[u].cut IN
  /\ has_cut(r, i)
  /\ {f \in Of(features, r) : f.cut = i} = {[run |-> r, cut |-> i, src |-> u]}
  /\ i \in IndicesOf(rul, r)
  /\ \E j \in 1..Len(twin[r]) : twin[r][j] = i

AckDurable == \A u \in Payloads : req[u].status = 200 => Durable(u)

(***************************************************************************)
(* The abstract ledger.                                                    *)
(***************************************************************************)
Ledger == INSTANCE CutLedger WITH
  admitted  <- [r \in Runs |-> count_features(r)],
  posterior <- twin,
  published <- [r \in Runs |-> IndicesOf(rul, r)]

\* Ingest, with its failures and crashes, implements the ledger: no step takes
\* back, repeats or reorders what an earlier step of any request recorded.
RefinesLedger == Ledger!Spec

(***************************************************************************)
(* Liveness, under FairSpec.                                               *)
(***************************************************************************)
\* "with _run_lock(run_id)" (app.py:337): whatever happens inside, the thread
\* that holds a run's lock lets it go.
LockReleased ==
  \A u \in Payloads, r \in Runs : runLock[r] = u ~> runLock[r] # u

\* A request whose body has arrived is answered, unless the process dies.
EveryRequestAnswered ==
  \A u \in Payloads : At(u, "waiting") ~> pc[u] \in {"answered", "lost"}

(***************************************************************************)
(* What the documentation says and the code does not do.                   *)
(***************************************************************************)
\* "persist the raw waveform blob (immutable record of what arrived)"
\* (handler.py:33): the blob that a committed cut row names stays as it is.
CommittedBlobImmutable ==
  [][\A c \in cuts, b \in blobs : b.key = c.key => b \in blobs']_vars

\* "ingest one cut (raw waveform bytes) -> returns RUL" (README.md:107): where
\* no store fails, a sound waveform for an open run of the caller is not
\* answered with an error.
Acceptable(u) ==
  LET q == req[u] IN
  /\ u \notin Garbled \cup Empty
  /\ owned_by(q.machine, q.user)
  /\ run_exists(q.run) /\ ~has_ended(q.run)
  /\ q.run \notin labels /\ has_twin_state(q.run)

SoundCutsAccepted ==
  \A u \in Payloads : At(u, "answered") /\ Acceptable(u) => req[u].status = 200

\* "a user sees the shared reference tools (read-only) plus their own machines"
\* (README.md:123-124): every cut that is stored is one of a run on a machine
\* of the user who sent it.
CutsOnOwnMachines ==
  \A f \in features :
    \E row \in Of(runs, f.run) : owned_by(row.machine, req[f.src].user)
=============================================================================
