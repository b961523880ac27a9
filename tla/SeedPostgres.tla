---------------------------- MODULE SeedPostgres ----------------------------
(***************************************************************************)
(* scripts/seed_postgres.py: the deploy step that copies the reference     *)
(* runs, statement by statement, from a file that nobody writes.  Every    *)
(* statement commits by itself; one that a key refuses ends the script.    *)
(* Two deploys may overlap, and a deploy may be killed and repeated.       *)
(***************************************************************************)
EXTENDS Naturals, FiniteSets

CONSTANTS
  Seeders, Runs,
  N,           \* the cuts of a run, all with features and labels
  MaxCrashes

ASSUME SeedAssumption == N \in Nat /\ MaxCrashes \in Nat

VARIABLES
  machine, runs, cuts, features, labels,   \* the tables of the target
  pc, todo, run,    \* of each seeder: what is next, the runs it has left, the one at hand
  torn,             \* the runs whose seeder died
  crashes

tables == <<machine, runs, cuts, features, labels>>
vars   == <<tables, pc, todo, run, torn, crashes>>

None == "none"
Cut  == 1..N
next(S) == CHOOSE i \in S : \A j \in S : i <= j

Init ==
  /\ machine = FALSE /\ runs = {}
  /\ cuts = [r \in Runs |-> {}] /\ features = cuts /\ labels = cuts
  /\ pc = [s \in Seeders |-> "idle"] /\ todo = [s \in Seeders |-> {}]
  /\ run = [s \in Seeders |-> None]
  /\ torn = {} /\ crashes = 0

Goto(s, phase) == pc' = [pc EXCEPT ![s] = phase]

\* Again after an end, however it ended.
Deploy(s) ==
  /\ pc[s] \in {"idle", "done"}
  /\ Goto(s, "machine") /\ todo' = [todo EXCEPT ![s] = Runs]
  /\ UNCHANGED <<tables, run, torn, crashes>>

\* get_machine, then create_machine if there is none.
GetMachine(s) ==
  /\ pc[s] = "machine"
  /\ Goto(s, IF machine THEN "run" ELSE "create_machine")
  /\ UNCHANGED <<tables, todo, run, torn, crashes>>

CreateMachine(s) ==
  /\ pc[s] = "create_machine"
  /\ Goto(s, IF machine THEN "idle" ELSE "run") /\ machine' = TRUE
  /\ UNCHANGED <<runs, cuts, features, labels, todo, run, torn, crashes>>

Skipped(r) == r \in runs     \* already seeded

GetRun(s) ==
  /\ pc[s] = "run"
  /\ \/ /\ todo[s] = {} /\ Goto(s, "done")
        /\ UNCHANGED <<todo, run>>
     \/ \E r \in todo[s] :
          /\ todo' = [todo EXCEPT ![s] = @ \ {r}]
          /\ IF Skipped(r) THEN UNCHANGED <<pc, run>>
             ELSE Goto(s, "create_run") /\ run' = [run EXCEPT ![s] = r]
  /\ UNCHANGED <<tables, torn, crashes>>

\* The row is inserted unless it is there.
BugRefused(s) == FALSE
Refused(s) == run[s] \in runs

CreateRun(s) ==
  /\ pc[s] = "create_run"
  /\ IF Refused(s)
       THEN Goto(s, "idle") /\ run' = [run EXCEPT ![s] = None] /\ UNCHANGED runs
       ELSE Goto(s, "rows") /\ runs' = runs \cup {run[s]} /\ UNCHANGED run
  /\ UNCHANGED <<machine, cuts, features, labels, todo, torn, crashes>>

left(s) == Cut \ features[run[s]]

AppendCut(s) ==
  /\ pc[s] = "rows" /\ left(s) # {} /\ next(left(s)) \notin cuts[run[s]]
  /\ cuts' = [cuts EXCEPT ![run[s]] = @ \cup {next(left(s))}]
  /\ UNCHANGED <<machine, runs, features, labels, pc, todo, run, torn, crashes>>

AppendFeatures(s) ==
  /\ pc[s] = "rows" /\ left(s) # {} /\ next(left(s)) \in cuts[run[s]]
  /\ features' = [features EXCEPT ![run[s]] = @ \cup {next(left(s))}]
  /\ UNCHANGED <<machine, runs, cuts, labels, pc, todo, run, torn, crashes>>

Labelling(s) == left(s) = {}

AppendLabel(s) ==
  /\ pc[s] = "rows" /\ Labelling(s) /\ labels[run[s]] # Cut
  /\ labels' = [labels EXCEPT ![run[s]] = @ \cup {next(Cut \ @)}]
  /\ UNCHANGED <<machine, runs, cuts, features, pc, todo, run, torn, crashes>>

Seeded(s) ==
  /\ pc[s] = "rows" /\ left(s) = {} /\ labels[run[s]] = Cut
  /\ Goto(s, "run") /\ run' = [run EXCEPT ![s] = None]
  /\ UNCHANGED <<tables, todo, torn, crashes>>

Crash(s) ==
  /\ pc[s] \notin {"idle", "done"} /\ crashes < MaxCrashes /\ crashes' = crashes + 1
  /\ Goto(s, "idle") /\ run' = [run EXCEPT ![s] = None]
  /\ torn' = IF pc[s] = "rows" THEN torn \cup {run[s]} ELSE torn
  /\ UNCHANGED <<tables, todo>>

Work(s) == \/ GetMachine(s) \/ CreateMachine(s) \/ GetRun(s) \/ CreateRun(s)
           \/ AppendCut(s) \/ AppendFeatures(s) \/ AppendLabel(s) \/ Seeded(s)

Next == \E s \in Seeders : Deploy(s) \/ Work(s) \/ Crash(s)

Spec == Init /\ [][Next]_vars

-----------------------------------------------------------------------------
whole(r) == r \in runs /\ cuts[r] = Cut /\ features[r] = Cut /\ labels[r] = Cut

\* Of two deploys at once only one copies a run, so that no insert of its rows is
\* refused half-way through.
OneSeederPerRun ==
  \A s, t \in Seeders : s # t /\ pc[s] = "rows" /\ pc[t] = "rows" => run[s] # run[t]

\* A label has what a twin is fitted with beside it: a run with a label has all of its
\* features, each with its cut, also if its seeder died.  (The labels may be half there.)
LabelsComeLast ==
  \A r \in Runs : /\ features[r] \subseteq cuts[r]
                  /\ labels[r] # {} => features[r] = Cut

\* A deploy that ends has every run whole, or in the hands of another that runs,
\* or left by one that died.
DeployIsComplete ==
  \A s \in Seeders : pc[s] = "done" =>
    \A r \in Runs : \/ whole(r) \/ r \in torn
                    \/ \E t \in Seeders : pc[t] = "rows" /\ run[t] = r

\* All three.
SeedSafe == OneSeederPerRun /\ LabelsComeLast /\ DeployIsComplete
=============================================================================
