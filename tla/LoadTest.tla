------------------------------ MODULE LoadTest ------------------------------
(***************************************************************************)
(* scripts/loadtest.py against the server: a sweep of concurrency levels,  *)
(* one worker for each run, which posts its cuts one after the other.  The *)
(* client gives a post up after 180 s and counts it as an error; the       *)
(* server goes on with it.  The ingest handler is reduced to the rows that *)
(* decide the index: how many cuts and features a run has.                 *)
(***************************************************************************)
EXTENDS Naturals, Sequences, FiniteSets

CONSTANTS
  Levels,       \* of --concurrency
  N,            \* --cuts-per-run
  MaxTimeouts,  \* how many posts the client gives up
  MaxFaults,    \* how many fail in the server
  MaxSweeps     \* how often the script is run

LoadAssumption ==
  /\ Levels \in Seq(Nat \ {0}) /\ Levels # <<>>
  /\ {N, MaxTimeouts, MaxFaults, MaxSweeps} \subseteq Nat

Ids   == UNION {{Levels[l]} \X (1..Levels[l]) : l \in DOMAIN Levels}   \* lt-c{c}-{i}
Posts == 1..N

VARIABLES
  account,   \* of the script's e-mail address: none, its own or of another password
  runs,      \* the runs that exist
  job,       \* [Ids -> [Posts -> where the server is with a post]]
  index,     \* the index it has given it; 0 is none
  nCuts, nFeatures,
  pc, level, todo,   \* of the sweep; todo are the runs that run_level has to create
  posted, ok, errors,
  timeouts, faults, sweeps

server == <<account, runs, job, index, nCuts, nFeatures>>
client == <<pc, level, todo, posted, ok, errors>>
vars   == <<server, client, timeouts, faults, sweeps>>

zero == [r \in Ids |-> 0]

Init ==
  /\ account \in {"none", "own", "other"}
  /\ runs = {} /\ job = [r \in Ids |-> [p \in Posts |-> "none"]]
  /\ index = [r \in Ids |-> [p \in Posts |-> 0]] /\ nCuts = zero /\ nFeatures = zero
  /\ pc = "start" /\ level = 1 /\ todo = {} /\ posted = zero /\ ok = zero /\ errors = zero
  /\ timeouts = 0 /\ faults = 0 /\ sweeps = 0

Level == {Levels[level]} \X (1..Levels[level])

\* Signup, and login when it is refused.
Authenticate ==
  /\ pc = "start" /\ sweeps < MaxSweeps
  /\ sweeps' = sweeps + 1
  /\ account' = IF account = "none" THEN "own" ELSE account
  /\ pc' = IF account = "other" THEN "exit" ELSE "create"
  /\ level' = 1 /\ todo' = {Levels[1]} \X (1..Levels[1])
  /\ UNCHANGED <<runs, job, index, nCuts, nFeatures, posted, ok, errors, timeouts, faults>>

CreateRun(r) ==
  /\ pc = "create" /\ r \in todo
  /\ IF r \in runs   \* 409
       THEN pc' = "exit" /\ UNCHANGED <<runs, todo>>
       ELSE runs' = runs \cup {r} /\ todo' = todo \ {r} /\ UNCHANGED pc
  /\ UNCHANGED <<account, job, index, nCuts, nFeatures, level, posted, ok, errors, timeouts,
                 faults, sweeps>>

Submit ==
  /\ pc = "create" /\ todo = {} /\ pc' = "drive"
  /\ UNCHANGED <<server, level, todo, posted, ok, errors, timeouts, faults, sweeps>>

waiting(r) == posted[r] > ok[r] + errors[r]

\* drive_run, one turn of its loop.
Post(r) ==
  /\ pc = "drive" /\ r \in Level /\ posted[r] < N /\ ~waiting(r)
  /\ posted' = [posted EXCEPT ![r] = @ + 1]
  /\ job' = [job EXCEPT ![r][posted[r] + 1] = "queued"]
  /\ UNCHANGED <<account, runs, index, nCuts, nFeatures, pc, level, todo, ok, errors, timeouts,
                 faults, sweeps>>

Answer(r) ==
  /\ waiting(r) /\ job[r][posted[r]] \in {"stored", "failed"}
  /\ IF job[r][posted[r]] = "stored"
       THEN ok' = [ok EXCEPT ![r] = @ + 1] /\ UNCHANGED errors
       ELSE errors' = [errors EXCEPT ![r] = @ + 1] /\ UNCHANGED ok
  /\ UNCHANGED <<server, pc, level, todo, posted, timeouts, faults, sweeps>>

Timeout(r) ==
  /\ waiting(r) /\ timeouts < MaxTimeouts
  /\ timeouts' = timeouts + 1 /\ errors' = [errors EXCEPT ![r] = @ + 1]
  /\ UNCHANGED <<server, pc, level, todo, posted, ok, faults, sweeps>>

\* All futures have their result: the next level, or the report.
NextLevel ==
  /\ pc = "drive" /\ \A r \in Level : ok[r] + errors[r] = N
  /\ IF level < Len(Levels)
       THEN /\ level' = level + 1 /\ pc' = "create"
            /\ todo' = {Levels[level + 1]} \X (1..Levels[level + 1])
       ELSE pc' = "report" /\ UNCHANGED <<level, todo>>
  /\ UNCHANGED <<server, posted, ok, errors, timeouts, faults, sweeps>>

Again ==
  /\ pc \in {"report", "exit"} /\ pc' = "start"
  /\ UNCHANGED <<server, level, todo, posted, ok, errors, timeouts, faults, sweeps>>

-----------------------------------------------------------------------------
\* The endpoint works without the lock of the run.
BugFree(r) == TRUE
Free(r) == \A p \in Posts : job[r][p] \notin {"cut", "features", "twin"}

\* _work: the lock of the run, and COUNT(features) + 1.
TakeLock(r, p) ==
  /\ job[r][p] = "queued" /\ Free(r)
  /\ job' = [job EXCEPT ![r][p] = "cut"] /\ index' = [index EXCEPT ![r][p] = nFeatures[r] + 1]
  /\ UNCHANGED <<account, runs, nCuts, nFeatures, client, timeouts, faults, sweeps>>

AppendCut(r, p) ==
  /\ job[r][p] = "cut"
  /\ IF index[r][p] <= nCuts[r]   \* the key is taken
       THEN job' = [job EXCEPT ![r][p] = "failed"] /\ UNCHANGED nCuts
       ELSE job' = [job EXCEPT ![r][p] = "features"] /\ nCuts' = [nCuts EXCEPT ![r] = @ + 1]
  /\ UNCHANGED <<account, runs, index, nFeatures, client, timeouts, faults, sweeps>>

AppendFeatures(r, p) ==
  /\ job[r][p] = "features"
  /\ job' = [job EXCEPT ![r][p] = "twin"] /\ nFeatures' = [nFeatures EXCEPT ![r] = @ + 1]
  /\ UNCHANGED <<account, runs, index, nCuts, client, timeouts, faults, sweeps>>

UpdateTwin(r, p) ==
  /\ job[r][p] = "twin" /\ job' = [job EXCEPT ![r][p] = "stored"]
  /\ UNCHANGED <<account, runs, index, nCuts, nFeatures, client, timeouts, faults, sweeps>>

Fault(r, p) ==
  /\ job[r][p] \in {"cut", "features", "twin"} /\ faults < MaxFaults
  /\ faults' = faults + 1 /\ job' = [job EXCEPT ![r][p] = "failed"]
  /\ UNCHANGED <<account, runs, index, nCuts, nFeatures, client, timeouts, sweeps>>

Next ==
  \/ Authenticate \/ Submit \/ NextLevel \/ Again
  \/ \E r \in Ids : CreateRun(r) \/ Post(r) \/ Answer(r) \/ Timeout(r)
  \/ \E r \in Ids, p \in Posts :
       \/ TakeLock(r, p) \/ AppendCut(r, p) \/ AppendFeatures(r, p) \/ UpdateTwin(r, p)
       \/ Fault(r, p)

Spec == Init /\ [][Next]_vars

-----------------------------------------------------------------------------
\* The report is of what the server has: a run has the cuts that were answered, and at
\* most one more for each error, some of which may still be on their way.
ReportAgrees ==
  \A r \in Ids :
    /\ ok[r] <= nFeatures[r]
    /\ nFeatures[r] <= ok[r] + errors[r] + (IF waiting(r) THEN 1 ELSE 0)

\* Unless the server fails, a post is refused to no worker, although a post that was
\* given up may still be at work on the same run.
NothingRefused == faults = 0 => \A r \in Ids, p \in Posts : job[r][p] # "failed"

\* Both.
LoadSafe == ReportAgrees /\ NothingRefused
=============================================================================
