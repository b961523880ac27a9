----------------------------- MODULE DemoExport -----------------------------
(***************************************************************************)
(* scripts/export_demo_db.py: the copy of the labeled reference runs that  *)
(* is committed for deployment.  The server may go on ingesting into the   *)
(* source meanwhile, and the script may be killed; what it has deleted but *)
(* not committed is then still in the copy.  A database is a record.  Left *)
(* out is the rollback journal beside the copy, which a script killed in   *)
(* its commit or VACUUM leaves, and which the copy that is put in place    *)
(* next would be rolled back with.                                         *)
(***************************************************************************)
EXTENDS Naturals, FiniteSets

CONSTANTS
  Runs,
  MaxIndex,    \* of a cut
  MaxCrashes

ExportAssumption == MaxIndex \in Nat /\ MaxCrashes \in Nat

VARIABLES
  src,       \* the source: its runs, which have ended, the last label and the last
             \* feature of each (0 is none), which have a twin
  keep,      \* the runs that are exported
  todo,      \* those that the tripwire has not looked at yet
  problems,
  work,      \* the copy as the script's connection sees it
  dst,       \* the copy as it is on disk
  pc, crashes

vars == <<src, keep, todo, problems, work, dst, pc, crashes>>

Missing == [runs |-> {}]
Database == [runs : {Runs}, ended : SUBSET Runs, label : [Runs -> {0, 1}],
             feature : [Runs -> {0, 1}], twin : SUBSET Runs]

Init ==
  /\ src \in Database
  /\ keep = {} /\ todo = {} /\ problems = {} /\ work = Missing /\ dst = Missing
  /\ pc = "idle" /\ crashes = 0

\* The server takes another cut of a run that has not ended.
Ingest(r) ==
  /\ r \notin src.ended /\ src.feature[r] < MaxIndex
  /\ src' = [src EXCEPT !.feature[r] = @ + 1]
  /\ UNCHANGED <<keep, todo, problems, work, dst, pc, crashes>>

labeled == {r \in Runs : src.label[r] > 0}

\* --runs, or all labeled ones.
Select ==
  /\ pc = "idle"
  /\ \E chosen \in SUBSET Runs :
       keep' = IF chosen # {} THEN chosen ELSE labeled
  /\ todo' = keep' /\ problems' = {}
  /\ pc' = IF keep' = {} THEN "refused" ELSE "check"
  /\ UNCHANGED <<src, work, dst, crashes>>

Stray(r) == src.feature[r] > src.label[r]

Check(r) ==
  /\ pc = "check" /\ r \in todo
  /\ todo' = todo \ {r}
  /\ IF src.label[r] = 0
       THEN pc' = "refused" /\ UNCHANGED problems
       ELSE /\ problems' = IF Stray(r) THEN problems \cup {r} ELSE problems
            /\ UNCHANGED pc
  /\ UNCHANGED <<src, keep, work, dst, crashes>>

Refuse ==
  /\ pc = "check" /\ todo = {} /\ problems # {} /\ pc' = "refused"
  /\ UNCHANGED <<src, keep, todo, problems, work, dst, crashes>>

Copy ==
  /\ pc = "check" /\ todo = {} /\ problems = {} /\ pc' = "copied"
  /\ work' = src /\ dst' = src
  /\ UNCHANGED <<src, keep, todo, problems, crashes>>

\* Every labeled run is exported.
BugPruned(db) == {r \in db.runs : db.label[r] = 0}
Pruned(db) == {r \in db.runs : r \notin keep}

none(f, S) == [r \in Runs |-> IF r \in S THEN 0 ELSE f[r]]

\* The tables of _CHILD_TABLES, and the run.  (cut_results is not among them: its rows
\* stay.  They are not modelled.)
Prune ==
  /\ pc = "copied" /\ pc' = "pruned"
  /\ LET out == Pruned(work)
     IN work' = [work EXCEPT !.twin = @ \ out, !.feature = none(@, out), !.label = none(@, out),
                             !.runs = @ \ out, !.ended = @ \ out]
  /\ UNCHANGED <<src, keep, todo, problems, dst, crashes>>

Strip ==
  /\ pc = "pruned" /\ pc' = "stripped"
  /\ work' = [work EXCEPT !.twin = {}, !.ended = work.runs]
  /\ UNCHANGED <<src, keep, todo, problems, dst, crashes>>

Commit ==
  /\ pc = "stripped" /\ pc' = "done"
  /\ dst' = work
  /\ UNCHANGED <<src, keep, todo, problems, work, crashes>>

Crash ==
  /\ pc \notin {"idle", "refused", "done"} /\ crashes < MaxCrashes
  /\ crashes' = crashes + 1 /\ pc' = "idle"
  /\ keep' = {} /\ todo' = {} /\ problems' = {} /\ work' = Missing
  /\ UNCHANGED <<src, dst>>

Again ==
  /\ pc \in {"refused", "done"} /\ pc' = "idle"
  /\ keep' = {} /\ todo' = {} /\ problems' = {} /\ work' = Missing
  /\ UNCHANGED <<src, dst, crashes>>

Next ==
  \/ Select \/ Refuse \/ Copy \/ Prune \/ Strip \/ Commit \/ Crash \/ Again
  \/ \E r \in Runs : Ingest(r) \/ Check(r)

Spec == Init /\ [][Next]_vars

-----------------------------------------------------------------------------
\* A finished export has the chosen runs and no row of another in the tables the
\* API serves, whatever an export that died left in the copy; its runs are labeled and
\* have ended, so that they are read-only, and none has a twin.  (Of features past the
\* last label it says nothing: what is ingested after the tripwire may be in the copy.)
ExportIsClean ==
  pc = "done" =>
    /\ dst.runs = keep /\ dst.ended = keep /\ dst.twin = {}
    /\ \A r \in Runs : IF r \in keep THEN dst.label[r] > 0
                       ELSE dst.label[r] = 0 /\ dst.feature[r] = 0

\* The tripwire refuses for a reason: a chosen run has no labels, or features past
\* its last one, or there is no labeled run at all.
RefusalDeserved ==
  pc = "refused" =>
    \/ \E r \in keep : src.label[r] = 0 \/ src.feature[r] > src.label[r]
    \/ keep = {} /\ \A r \in Runs : src.label[r] = 0

\* Both.
ExportSafe == ExportIsClean /\ RefusalDeserved
=============================================================================
