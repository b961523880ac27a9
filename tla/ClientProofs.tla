---------------------------- MODULE ClientProofs ----------------------------
(***************************************************************************)
(* Proofs about the programs that use the server or its stores from        *)
(* outside: SeedPostgres, ReplayDriver, DemoExport, LoadTest and Dashboard *)
(* as Clients puts them together, each with an inductive invariant of its  *)
(* own.  They hold for any runs, cuts, users of the page, scripts, levels  *)
(* and any number of deaths, faults, clicks and answers that are lost.     *)
(***************************************************************************)
EXTENDS Clients, FiniteSetTheorems, WellFoundedInduction, TLAPS

\* The first of some cuts is one of them, and none is before it.
LEMMA NextIsIn ==
  ASSUME NEW S \in SUBSET Cut, S # {}
  PROVE  next(S) \in S /\ \A j \in S : next(S) <= j
<1> DEFINE Before == OpToRel(<, Nat)
<1>1. S \subseteq Nat
  BY DEF Cut
<1>2. \A x, y \in Nat : y < x => <<y, x>> \in Before
  BY DEF OpToRel
<1>3. IsWellFoundedOn(Before, Nat)
  BY NatLessThanWellFounded
<1> HIDE DEF Before
<1>4. PICK i \in S : \A j \in S : <<j, i>> \notin Before
  BY <1>1, <1>3, WFMin
<1>5. ASSUME NEW j \in S PROVE i <= j
  <2>1. ~ (j < i)
    BY <1>1, <1>2, <1>4, Zenon
  <2> QED
    BY <1>1, <2>1
<1>6. \E k \in S : \A j \in S : k <= j
  BY <1>5
<1> QED
  BY <1>6 DEF next

-----------------------------------------------------------------------------
(***************************************************************************)
(* SeedPostgres.  The run that a seeder copies is its own (Owned), a run   *)
(* that exists is whole, torn or being copied (Accounted), and a seeder    *)
(* has seen to every run that it no longer has to do (Passed).             *)
(***************************************************************************)
Phases == {"idle", "machine", "create_machine", "run", "create_run", "rows", "done"}

SeedTypeOK ==
  /\ runs \subseteq Runs
  /\ cuts \in [Runs -> SUBSET Cut] /\ features \in [Runs -> SUBSET Cut]
  /\ labels \in [Runs -> SUBSET Cut]
  /\ pc \in [Seeders -> Phases] /\ todo \in [Seeders -> SUBSET Runs]
  /\ run \in [Seeders -> Runs \cup {None}]
  /\ \A s \in Seeders : pc[s] \in {"create_run", "rows"} => run[s] \in Runs

Owned == \A s \in Seeders : pc[s] = "rows" => run[s] \in runs

copied(r) == \E t \in Seeders : pc[t] = "rows" /\ run[t] = r

Accounted == \A r \in runs : whole(r) \/ r \in torn \/ copied(r)

Passed ==
  \A s \in Seeders : pc[s] # "idle" =>
    \A r \in Runs \ todo[s] : r \in runs \/ (pc[s] = "create_run" /\ run[s] = r)

Ended == \A s \in Seeders : pc[s] = "done" => todo[s] = {}

SeedInv ==
  SeedTypeOK /\ Owned /\ OneSeederPerRun /\ LabelsComeLast /\ Accounted /\ Passed /\ Ended

LEMMA InitInv == Init => SeedInv
BY DEF Init, SeedInv, SeedTypeOK, Phases, None, Owned, OneSeederPerRun, LabelsComeLast,
       Accounted, Passed, Ended

\* A step that only moves one seeder, between phases in which no rows are copied.
Moves(s, ph, left2, r2) ==
  /\ ph \in Phases \ {"rows", "create_run"}
  /\ pc' = [pc EXCEPT ![s] = ph]
  /\ todo' = [todo EXCEPT ![s] = left2] /\ left2 \in SUBSET Runs
  /\ run' = [run EXCEPT ![s] = r2] /\ r2 \in Runs \cup {None}
  /\ UNCHANGED <<runs, cuts, features, labels>> /\ torn \subseteq torn'
  /\ ph # "idle" => \A r \in Runs \ left2 : r \in runs
  /\ ph = "done" => left2 = {}
  /\ pc[s] = "rows" => whole(run[s]) \/ run[s] \in torn'

LEMMA MoveInv ==
  ASSUME SeedInv, NEW s \in Seeders, NEW ph, NEW left2, NEW r2, Moves(s, ph, left2, r2)
  PROVE  SeedInv'
<1> USE DEF SeedInv, Moves
<1>1. SeedTypeOK'
  BY DEF SeedTypeOK
<1>2. Owned' /\ OneSeederPerRun'
  BY DEF SeedTypeOK, Owned, OneSeederPerRun
<1>3. LabelsComeLast'
  BY DEF LabelsComeLast
<1>4. Accounted'
  <2> SUFFICES ASSUME NEW r \in runs PROVE whole(r) \/ r \in torn' \/ copied(r)'
    BY DEF Accounted, whole
  <2>1. CASE ~ (\E t \in Seeders \ {s} : pc[t] = "rows" /\ run[t] = r)
    BY <2>1 DEF Accounted, copied
  <2>2. ASSUME NEW t \in Seeders \ {s}, pc[t] = "rows", run[t] = r PROVE copied(r)'
    BY <2>2 DEF copied, SeedTypeOK
  <2> QED
    BY <2>1, <2>2
<1>5. Passed'
  BY DEF Passed, SeedTypeOK
<1>6. Ended'
  BY DEF Ended, SeedTypeOK
<1> QED
  BY <1>1, <1>2, <1>3, <1>4, <1>5, <1>6

LEMMA DeployInv == ASSUME SeedInv, NEW s \in Seeders, Deploy(s) PROVE SeedInv'
<1>1. pc' = [pc EXCEPT ![s] = "machine"] /\ todo' = [todo EXCEPT ![s] = Runs] /\ pc[s] # "rows"
  BY DEF Deploy, Goto
<1>2. run' = [run EXCEPT ![s] = run[s]] /\ run[s] \in Runs \cup {None}
  BY DEF Deploy, SeedInv, SeedTypeOK
<1>3. UNCHANGED <<runs, cuts, features, labels, torn>>
  BY DEF Deploy, tables
<1>4. "machine" \in Phases \ {"rows", "create_run"} /\ Runs \in SUBSET Runs
  BY DEF Phases
<1>5. torn \subseteq torn' /\ Runs \ Runs = {}
  BY <1>3
<1>6. Moves(s, "machine", Runs, run[s])
  BY <1>1, <1>2, <1>3, <1>4, <1>5 DEF Moves
<1> QED
  BY <1>6, MoveInv

LEMMA MachineInv ==
  ASSUME SeedInv, NEW s \in Seeders, GetMachine(s) \/ CreateMachine(s) PROVE SeedInv'
<1>1. PICK ph \in {"run", "create_machine", "idle"} : pc' = [pc EXCEPT ![s] = ph]
  BY DEF GetMachine, CreateMachine, Goto
<1>2. /\ pc[s] \in {"machine", "create_machine"}
      /\ UNCHANGED <<runs, cuts, features, labels, torn, todo, run>>
  BY DEF GetMachine, CreateMachine, tables
<1>3. /\ todo' = [todo EXCEPT ![s] = todo[s]] /\ todo[s] \in SUBSET Runs
      /\ run' = [run EXCEPT ![s] = run[s]] /\ run[s] \in Runs \cup {None}
  BY <1>2 DEF SeedInv, SeedTypeOK
<1>4. \A r \in Runs \ todo[s] : r \in runs
  BY <1>2 DEF SeedInv, Passed
<1>5. ph \in Phases \ {"rows", "create_run"} /\ ph # "done" /\ pc[s] # "rows"
  BY <1>1, <1>2 DEF Phases
<1>6. torn \subseteq torn'
  BY <1>2
<1>7. Moves(s, ph, todo[s], run[s])
  BY <1>1, <1>2, <1>3, <1>4, <1>5, <1>6 DEF Moves
<1> QED
  BY <1>7, MoveInv

LEMMA GetRunInv == ASSUME SeedInv, NEW s \in Seeders, GetRun(s) PROVE SeedInv'
<1> USE DEF GetRun, Goto
<1>0. pc[s] = "run" /\ UNCHANGED <<runs, cuts, features, labels, torn>>
  BY DEF tables
<1>1. run[s] \in Runs \cup {None} /\ run = [run EXCEPT ![s] = run[s]]
      /\ todo[s] \in SUBSET Runs /\ todo = [todo EXCEPT ![s] = todo[s]]
      /\ pc = [pc EXCEPT ![s] = "run"]
  BY <1>0 DEF SeedInv, SeedTypeOK
<1>2. \A r \in Runs \ todo[s] : r \in runs
  BY <1>0 DEF SeedInv, Passed
<1>3. CASE todo[s] = {} /\ pc' = [pc EXCEPT ![s] = "done"] /\ UNCHANGED <<todo, run>>
  <2>1. "done" \in Phases \ {"rows", "create_run"} /\ pc[s] # "rows" /\ torn \subseteq torn'
    BY <1>0 DEF Phases
  <2>2. run' = [run EXCEPT ![s] = run[s]] /\ todo' = [todo EXCEPT ![s] = todo[s]]
    BY <1>1, <1>3
  <2>3. Moves(s, "done", todo[s], run[s])
    BY <1>0, <1>1, <1>2, <1>3, <2>1, <2>2 DEF Moves
  <2> QED BY <2>3, MoveInv
<1>4. ASSUME NEW r \in todo[s], todo' = [todo EXCEPT ![s] = @ \ {r}], r \in runs,
             UNCHANGED <<pc, run>>
      PROVE  SeedInv'
  <2>1. todo' = [todo EXCEPT ![s] = todo[s] \ {r}] /\ todo[s] \ {r} \in SUBSET Runs
    BY <1>1, <1>4
  <2>2. \A q \in Runs \ (todo[s] \ {r}) : q \in runs
    BY <1>2, <1>4
  <2>3. pc' = [pc EXCEPT ![s] = "run"] /\ run' = [run EXCEPT ![s] = run[s]]
    BY <1>1, <1>4
  <2>4. "run" \in Phases \ {"rows", "create_run"} /\ pc[s] # "rows" /\ torn \subseteq torn'
    BY <1>0 DEF Phases
  <2>5. Moves(s, "run", todo[s] \ {r}, run[s])
    BY <1>0, <1>1, <2>1, <2>2, <2>3, <2>4 DEF Moves
  <2> QED
    BY <2>5, MoveInv
<1>5. ASSUME NEW r \in todo[s], todo' = [todo EXCEPT ![s] = @ \ {r}],
             pc' = [pc EXCEPT ![s] = "create_run"], run' = [run EXCEPT ![s] = r]
      PROVE  SeedInv'
  <2> USE <1>0, <1>5 DEF SeedInv
  <2>1. SeedTypeOK'
    BY DEF SeedTypeOK, Phases
  <2>2. Owned' /\ OneSeederPerRun' /\ LabelsComeLast'
    BY DEF SeedTypeOK, Owned, OneSeederPerRun, LabelsComeLast
  <2>3. Accounted'
    BY DEF Accounted, whole, copied, SeedTypeOK
  <2>4. Passed' /\ Ended'
    BY DEF Passed, Ended, SeedTypeOK
  <2> QED
    BY <2>1, <2>2, <2>3, <2>4
<1> QED
  BY <1>3, <1>4, <1>5 DEF Skipped

LEMMA CreateRunInv == ASSUME SeedInv, NEW s \in Seeders, CreateRun(s) PROVE SeedInv'
<1> USE DEF CreateRun, Goto
<1>0. pc[s] = "create_run" /\ UNCHANGED <<cuts, features, labels, torn, todo>>
  OBVIOUS
<1>1. CASE Refused(s)
  <2>1. /\ pc' = [pc EXCEPT ![s] = "idle"] /\ run' = [run EXCEPT ![s] = None]
        /\ runs' = runs /\ torn \subseteq torn' /\ pc[s] # "rows"
    BY <1>0, <1>1
  <2>2. todo' = [todo EXCEPT ![s] = todo[s]] /\ todo[s] \in SUBSET Runs
    BY <1>0 DEF SeedInv, SeedTypeOK
  <2>3. Moves(s, "idle", todo[s], None)
    BY <1>0, <2>1, <2>2 DEF Moves, Phases
  <2> QED
    BY <2>3, MoveInv
<1>2. CASE ~ Refused(s)
  <2> USE <1>0, <1>2 DEF SeedInv
  <2>0. /\ run[s] \in Runs /\ run[s] \notin runs
        /\ pc' = [pc EXCEPT ![s] = "rows"] /\ runs' = runs \cup {run[s]} /\ run' = run
    BY DEF SeedTypeOK, Refused
  <2>1. SeedTypeOK'
    BY <2>0 DEF SeedTypeOK, Phases
  <2>2. Owned' /\ OneSeederPerRun'
    BY <2>0 DEF SeedTypeOK, Owned, OneSeederPerRun
  <2>3. LabelsComeLast'
    BY DEF LabelsComeLast
  <2>4. Accounted'
    BY <2>0 DEF Accounted, whole, copied, SeedTypeOK
  <2>5. Passed' /\ Ended'
    BY <2>0 DEF Passed, Ended, SeedTypeOK
  <2> QED
    BY <2>1, <2>2, <2>3, <2>4, <2>5
<1> QED
  BY <1>1, <1>2

\* The inserts of the rows of one run.
LEMMA RowsInv ==
  ASSUME SeedInv, NEW s \in Seeders, AppendCut(s) \/ AppendFeatures(s) \/ AppendLabel(s)
  PROVE  SeedInv'
<1> USE DEF SeedInv
<1>0. /\ pc[s] = "rows" /\ run[s] \in Runs /\ UNCHANGED <<runs, pc, todo, run, torn>>
      /\ left(s) \subseteq Cut
  BY DEF AppendCut, AppendFeatures, AppendLabel, SeedTypeOK, left
<1>1. CASE AppendCut(s)
  <2>1. next(left(s)) \in Cut
    BY <1>0, <1>1, NextIsIn DEF AppendCut
  <2>2. cuts' = [cuts EXCEPT ![run[s]] = @ \cup {next(left(s))}] /\ UNCHANGED <<features, labels>>
    BY <1>1 DEF AppendCut
  <2>3. SeedTypeOK'
    BY <1>0, <2>1, <2>2 DEF SeedTypeOK
  <2>4. LabelsComeLast'
    BY <1>0, <2>1, <2>2 DEF LabelsComeLast, SeedTypeOK
  <2>5. Accounted'
    BY <1>0, <2>1, <2>2 DEF Accounted, whole, copied, SeedTypeOK
  <2> QED
    BY <1>0, <2>3, <2>4, <2>5 DEF Owned, OneSeederPerRun, Passed, Ended
<1>2. CASE AppendFeatures(s)
  <2>1. next(left(s)) \in Cut /\ next(left(s)) \notin features[run[s]]
    BY <1>0, <1>2, NextIsIn DEF AppendFeatures, left
  <2>2. /\ features' = [features EXCEPT ![run[s]] = @ \cup {next(left(s))}]
        /\ next(left(s)) \in cuts[run[s]] /\ UNCHANGED <<cuts, labels>>
    BY <1>2 DEF AppendFeatures
  <2>3. SeedTypeOK'
    BY <1>0, <2>1, <2>2 DEF SeedTypeOK
  <2>4. LabelsComeLast'
    BY <1>0, <2>1, <2>2 DEF LabelsComeLast, SeedTypeOK
  <2>5. Accounted'
    BY <1>0, <2>1, <2>2 DEF Accounted, whole, copied, SeedTypeOK
  <2> QED
    BY <1>0, <2>3, <2>4, <2>5 DEF Owned, OneSeederPerRun, Passed, Ended
<1>3. CASE AppendLabel(s)
  <2>1. features[run[s]] = Cut /\ labels[run[s]] # Cut /\ labels[run[s]] \subseteq Cut
    BY <1>0, <1>3 DEF AppendLabel, Labelling, left, SeedTypeOK
  <2>2. next(Cut \ labels[run[s]]) \in Cut
    BY <2>1, NextIsIn
  <2>3. /\ labels' = [labels EXCEPT ![run[s]] = @ \cup {next(Cut \ labels[run[s]])}]
        /\ UNCHANGED <<cuts, features>>
    BY <1>3 DEF AppendLabel
  <2>4. SeedTypeOK'
    BY <1>0, <2>2, <2>3 DEF SeedTypeOK
  <2>5. LabelsComeLast'
    BY <1>0, <2>1, <2>3 DEF LabelsComeLast, SeedTypeOK
  <2>6. Accounted'
    BY <1>0, <2>2, <2>3 DEF Accounted, whole, copied, SeedTypeOK
  <2> QED
    BY <1>0, <2>4, <2>5, <2>6 DEF Owned, OneSeederPerRun, Passed, Ended
<1> QED
  BY <1>1, <1>2, <1>3

LEMMA SeededInv == ASSUME SeedInv, NEW s \in Seeders, Seeded(s) PROVE SeedInv'
<1>1. /\ pc[s] = "rows" /\ pc' = [pc EXCEPT ![s] = "run"] /\ run' = [run EXCEPT ![s] = None]
      /\ UNCHANGED <<runs, cuts, features, labels, todo, torn>>
  BY DEF Seeded, Goto, tables
<1>2. run[s] \in Runs /\ run[s] \in runs
  BY <1>1 DEF SeedInv, SeedTypeOK, Owned
<1>3. whole(run[s])
  <2>1. /\ features[run[s]] \subseteq Cut /\ cuts[run[s]] \subseteq Cut
        /\ features[run[s]] \subseteq cuts[run[s]]
    BY <1>2 DEF SeedInv, SeedTypeOK, LabelsComeLast
  <2>2. Cut \subseteq features[run[s]] /\ labels[run[s]] = Cut
    BY DEF Seeded, left
  <2> QED
    BY <1>2, <2>1, <2>2 DEF whole
<1>4. todo' = [todo EXCEPT ![s] = todo[s]] /\ todo[s] \in SUBSET Runs
  BY <1>1 DEF SeedInv, SeedTypeOK
<1>5. \A r \in Runs \ todo[s] : r \in runs
  BY <1>1 DEF SeedInv, Passed
<1>6. Moves(s, "run", todo[s], None)
  BY <1>1, <1>3, <1>4, <1>5 DEF Moves, Phases
<1> QED
  BY <1>6, MoveInv

LEMMA CrashInv == ASSUME SeedInv, NEW s \in Seeders, Crash(s) PROVE SeedInv'
<1>1. /\ pc' = [pc EXCEPT ![s] = "idle"] /\ run' = [run EXCEPT ![s] = None]
      /\ UNCHANGED <<runs, cuts, features, labels, todo>> /\ torn \subseteq torn'
      /\ pc[s] = "rows" => run[s] \in torn'
  BY DEF Crash, Goto, tables
<1>2. todo' = [todo EXCEPT ![s] = todo[s]] /\ todo[s] \in SUBSET Runs
  BY <1>1 DEF SeedInv, SeedTypeOK
<1>3. Moves(s, "idle", todo[s], None)
  BY <1>1, <1>2 DEF Moves, Phases
<1> QED
  BY <1>3, MoveInv

LEMMA NextInv == ASSUME SeedInv, [Next]_vars PROVE SeedInv'
<1>1. ASSUME NEW s \in Seeders, Deploy(s) \/ Work(s) \/ Crash(s) PROVE SeedInv'
  BY <1>1, DeployInv, MachineInv, GetRunInv, CreateRunInv, RowsInv, SeededInv, CrashInv DEF Work
<1>2. CASE UNCHANGED vars
  BY <1>2 DEF vars, tables, SeedInv, SeedTypeOK, Owned, OneSeederPerRun, LabelsComeLast, Accounted,
              whole, copied, Passed, Ended
<1> QED
  BY <1>1, <1>2 DEF Next

THEOREM InvHolds == Spec => []SeedInv
BY InitInv, NextInv, PTL DEF Spec

\* However many deploys overlap, one of them copies a run.
THEOREM OneSeeder == Spec => []OneSeederPerRun
<1>1. SeedInv => OneSeederPerRun
  BY DEF SeedInv
<1> QED
  BY <1>1, InvHolds, PTL

\* A run that seed_postgres.py has begun to label has all its features and cuts,
\* whichever deploys died.
THEOREM LabelsLast == Spec => []LabelsComeLast
<1>1. SeedInv => LabelsComeLast
  BY DEF SeedInv
<1> QED
  BY <1>1, InvHolds, PTL

\* A deploy that ends leaves no run out but those another works on or died over.
THEOREM DeployComplete == Spec => []DeployIsComplete
<1>1. ASSUME SeedInv, NEW s \in Seeders, pc[s] = "done", NEW r \in Runs
      PROVE  whole(r) \/ r \in torn \/ copied(r)
  <2>1. r \in runs
    BY <1>1 DEF SeedInv, Passed, Ended
  <2> QED
    BY <1>1, <2>1 DEF SeedInv, Accounted
<1>2. SeedInv => DeployIsComplete
  BY <1>1 DEF DeployIsComplete, copied
<1> QED
  BY <1>2, InvHolds, PTL
\* What a run checks of overlapping and dying deploys, for any runs and deploys.
THEOREM SeedIsSafe == Spec => []SeedSafe
<1>1. OneSeederPerRun /\ LabelsComeLast /\ DeployIsComplete => SeedSafe
  BY DEF SeedSafe
<1> QED
  BY <1>1, OneSeeder, LabelsLast, DeployComplete, PTL

-----------------------------------------------------------------------------
(***************************************************************************)
(* ReplayDriver.  A script is where its own statements are (Routed), has   *)
(* the rows it inserts into (Present), and the cut at hand is new to the   *)
(* tables that it has not yet reached (Fresh).  Of a filter pass, what is  *)
(* absorbed and predicted is what is no longer to be done (Passing).       *)
(***************************************************************************)
Filters == {"run_filter", "validate"}

Routed ==
  /\ script = "none" => phase = "idle" /\ tasks = {}
  /\ script = "run_replay" =>
       phase \in {"machine", "run", "next", "put", "append_cut", "append_features", "append_stub"}
  /\ script = "load_labels" => phase \in {"machine", "run", "existing", "label"}
  /\ script \in Filters => phase \in {"build", "clear", "update", "append_rul"}
  /\ script = "replay_http" => phase = "post"
  /\ script # "none" => last = "none"

Predicted == {row.cut : row \in rul}

Present ==
  /\ cutRows # {} \/ labelRows # {} => hasRun
  /\ phase \in {"next", "put", "append_cut", "append_features", "append_stub", "existing", "label",
                "clear", "update", "append_rul"} => hasRun
  /\ Predicted \subseteq featureRows /\ featureRows \subseteq cutRows

Fresh ==
  /\ phase \in {"put", "append_cut", "append_features", "append_stub", "append_rul"} => tasks # {}
  /\ phase \in {"put", "append_cut"} => Replay!next \notin cutRows
  /\ phase = "append_features" => Replay!next \in cutRows /\ Replay!next \notin featureRows
  /\ phase = "append_stub" => Replay!next \in featureRows /\ Replay!next \notin Predicted
  /\ phase = "label" => tasks \cap labelRows = {}

Upto(S, i) == {k \in S : k <= i}
PassRows(S, done) == {[cut |-> i, post |-> Upto(S, i)] : i \in done}

Passing ==
  LET S == Replay!Scored(script) IN
  /\ phase = "clear" => twin = {}
  /\ phase \in {"update", "append_rul"} =>
       /\ tasks \subseteq S
       /\ \A i \in S \ tasks, j \in tasks : i < j
       /\ rul = PassRows(S, S \ tasks)
       /\ twin = IF phase = "update" THEN S \ tasks ELSE Upto(S, Replay!next)

PassEnded ==
  last \in Filters =>
    LET S == Replay!Scored(last) IN twin = S /\ rul = PassRows(S, S)

DriverInv == Replay!DriverTypeOK /\ Routed /\ Present /\ Fresh /\ Passing /\ PassEnded

LEMMA DriverInit == Replay!Init => DriverInv
<1> SUFFICES ASSUME Replay!Init PROVE DriverInv
  OBVIOUS
<1> USE DEF Replay!Init
<1>1. Replay!DriverTypeOK
  <2>1. deaths \in 0..MaxCrashes
    BY DriverAssumption DEF Replay!DriverAssumption
  <2> QED BY <2>1, Zenon DEF Replay!DriverTypeOK
<1>2. Routed /\ Fresh /\ Passing /\ PassEnded
  BY DEF Routed, Fresh, Passing, PassEnded, Filters
<1>3. Present
  BY DEF Present, Predicted
<1> QED BY <1>1, <1>2, <1>3 DEF DriverInv

\* What the run checks of the scripts.
LEMMA DriverGives == DriverInv => Replay!DriverSafe
<1> SUFFICES ASSUME DriverInv PROVE Replay!DriverSafe
  OBVIOUS
<1>1. tasks # {} => Replay!next \in tasks
  <2>1. tasks \in SUBSET Cut
    BY DEF DriverInv, Replay!DriverTypeOK, Replay!Cuts, Cut
  <2> QED BY <2>1, NextIsIn DEF Replay!next, next
<1>2. Replay!InsertsAccepted
  <2>1. phase = "append_rul" => Replay!next \in cutRows /\ Replay!next \notin Predicted
    <3> SUFFICES ASSUME phase = "append_rul"
                 PROVE  Replay!next \in cutRows /\ Replay!next \notin Predicted
      OBVIOUS
    <3>1. Replay!next \in tasks /\ tasks \subseteq featureRows
      BY <1>1 DEF DriverInv, Fresh, Passing, Replay!Scored
    <3>2. \A row \in rul : row.cut \notin tasks
      BY DEF DriverInv, Passing, PassRows
    <3> QED BY <3>1, <3>2 DEF DriverInv, Present, Predicted
  <2>2. phase = "append_stub" => Replay!next \in cutRows /\ Replay!next \notin Predicted
    BY DEF DriverInv, Fresh, Present
  <2>3. phase = "label" /\ tasks # {} => hasRun /\ Replay!next \notin labelRows
    BY <1>1 DEF DriverInv, Fresh, Present
  <2>4. /\ phase = "append_cut" => hasRun /\ Replay!next \notin cutRows
        /\ phase = "append_features" => Replay!next \in cutRows /\ Replay!next \notin featureRows
        /\ phase \in {"clear", "update"} => hasRun
    BY DEF DriverInv, Fresh, Present
  <2> QED BY <2>1, <2>2, <2>3, <2>4 DEF Replay!InsertsAccepted, Predicted
<1>3. Replay!PassIsWhole
  BY DEF DriverInv, PassEnded, PassRows, Upto, Filters, Replay!PassIsWhole
<1> QED BY <1>2, <1>3 DEF Replay!DriverSafe, DriverInv

LEMMA SmallestTask ==
  ASSUME Replay!DriverTypeOK, tasks # {}
  PROVE  Replay!next \in tasks /\ \A i \in tasks : Replay!next <= i
<1>1. tasks \in SUBSET Cut
  BY DEF Replay!DriverTypeOK, Replay!Cuts, Cut
<1> QED BY <1>1, NextIsIn DEF Replay!next, next

\* A script begins, ends or dies.
LEMMA DriverTurns ==
  ASSUME DriverInv,
         \/ \E s \in Replay!Scripts : Replay!Begin(s)
         \/ Replay!Crash \/ Replay!Post \/ Replay!Finish
  PROVE  DriverInv'
<1>0. UNCHANGED <<hasMachine, hasRun, blobs, cutRows, featureRows, labelRows, rul, twin>>
  BY DEF Replay!Begin, Replay!Crash, Replay!Post, Replay!Finish, Replay!db
<1>1. ASSUME NEW s \in Replay!Scripts, Replay!Begin(s) PROVE DriverInv'
  <2> USE <1>1 DEF Replay!Begin, Replay!Scripts
  <2>0. tasks' \subseteq Replay!Cuts
    BY DriverAssumption DEF Replay!DriverAssumption, Replay!Files, Replay!Cuts
  <2>1. Replay!DriverTypeOK'
    <3>1. deaths' = deaths
      OBVIOUS
    <3>2. script' \in Replay!Scripts /\ last' = "none"
      OBVIOUS
    <3> QED BY ONLY <1>0, <2>0, <3>1, <3>2, DriverInv DEF DriverInv, Replay!DriverTypeOK
  <2>2. Routed' /\ last' = "none" /\ phase' \in {"machine", "build", "post"}
    BY DEF Routed, Filters
  <2>3. Present' /\ Fresh' /\ Passing' /\ PassEnded'
    BY <1>0, <2>2 DEF DriverInv, Present, Predicted, Fresh, Passing, PassEnded, Filters
  <2> QED BY <2>1, <2>2, <2>3 DEF DriverInv
<1>2. CASE Replay!Crash \/ Replay!Post
  <2>1. script' = "none" /\ phase' = "idle" /\ tasks' = {} /\ last' \in {"none", "refused"}
    BY <1>2 DEF Replay!Crash, Replay!Post, Replay!End
  <2>2. deaths' \in 0..MaxCrashes
    BY <1>2, DriverAssumption
       DEF Replay!Crash, Replay!Post, DriverInv, Replay!DriverTypeOK, Replay!DriverAssumption
  <2>3. Replay!DriverTypeOK'
    BY <1>0, <2>1, <2>2 DEF DriverInv, Replay!DriverTypeOK
  <2>4. Routed' /\ Present' /\ Fresh' /\ Passing' /\ PassEnded'
    BY <1>0, <2>1 DEF DriverInv, Routed, Present, Predicted, Fresh, Passing, PassEnded, Filters
  <2> QED BY <2>3, <2>4 DEF DriverInv
<1>3. CASE Replay!Finish
  <2>1. /\ script' = "none" /\ phase' = "idle" /\ tasks' = {} /\ last' = script /\ tasks = {}
        /\ phase \in {"next", "label", "update"} /\ deaths' = deaths
    BY <1>3 DEF Replay!Finish, Replay!End
  <2>2. Replay!DriverTypeOK'
    BY <1>0, <2>1 DEF DriverInv, Replay!DriverTypeOK
  <2>3. Routed' /\ Present' /\ Fresh' /\ Passing'
    BY <1>0, <2>1 DEF DriverInv, Routed, Present, Predicted, Fresh, Passing, Filters
  <2>4. PassEnded'
    <3> SUFFICES ASSUME script \in Filters
                 PROVE  LET S == Replay!Scored(script) IN twin = S /\ rul = PassRows(S, S)
      BY <1>0, <2>1 DEF PassEnded, Replay!Scored, PassRows, Upto
    <3>1. phase = "update"
      BY <2>1 DEF DriverInv, Routed, Filters
    <3>2. Replay!Scored(script) \ tasks = Replay!Scored(script)
      BY <2>1
    <3> QED BY <3>1, <3>2 DEF DriverInv, Passing
  <2> QED BY <2>2, <2>3, <2>4 DEF DriverInv
<1> QED BY <1>1, <1>2, <1>3

LEMMA RowTyped ==
  ASSUME NEW c \in Replay!Cuts, NEW p, p \in SUBSET Replay!Cuts \/ p = Stub
  PROVE  [cut |-> c, post |-> p] \in Replay!RulRow
<1>1. p \in (SUBSET Replay!Cuts) \cup {Stub}
  OBVIOUS
<1> QED BY <1>1 DEF Replay!RulRow

LEMMA RowPredicts ==
  ASSUME NEW c, NEW p, rul' = rul \cup {[cut |-> c, post |-> p]}
  PROVE  Predicted' = Predicted \cup {c}
<1> DEFINE new == [cut |-> c, post |-> p]
<1>1. new.cut = c
  OBVIOUS
<1> HIDE DEF new
<1>2. rul' = rul \cup {new}
  BY DEF new
<1> QED BY <1>1, <1>2, Zenon DEF Predicted

\* A statement of a replay: it passes no filter, and moves where it says.
LEMMA ReplayStatements ==
  ASSUME DriverInv,
         \/ Replay!NextFile \/ Replay!Put \/ Replay!AppendCut \/ Replay!AppendFeatures
         \/ Replay!AppendStub
  PROVE  DriverInv'
<1> USE DEF Replay!Goto
<1>0. /\ UNCHANGED <<hasMachine, hasRun, labelRows, twin, script, last, deaths>>
      /\ script = "run_replay" /\ last = "none"
  BY DEF DriverInv, Routed, Filters, Replay!DriverTypeOK, Replay!Scripts, Replay!NextFile,
         Replay!Put, Replay!AppendCut, Replay!AppendFeatures, Replay!AppendStub, Replay!db
<1>1. Replay!next \in tasks /\ tasks \subseteq Replay!Cuts /\ hasRun
  <2>1. tasks # {}
    BY DEF DriverInv, Fresh, Replay!NextFile, Replay!Put, Replay!AppendCut,
           Replay!AppendFeatures, Replay!AppendStub
  <2>2. tasks \subseteq Replay!Cuts
    BY DEF DriverInv, Replay!DriverTypeOK
  <2>3. hasRun
    BY DEF DriverInv, Present, Replay!NextFile, Replay!Put, Replay!AppendCut,
           Replay!AppendFeatures, Replay!AppendStub
  <2> QED BY <2>1, <2>2, <2>3, SmallestTask DEF DriverInv
<1>2. tasks' = tasks => Replay!next' = Replay!next
  BY DEF Replay!next
<1>3. phase' \in {"next", "put", "append_cut", "append_features", "append_stub"}
  BY DEF Replay!NextFile, Replay!Put, Replay!AppendCut, Replay!AppendFeatures, Replay!AppendStub
<1>4. Routed' /\ Passing' /\ PassEnded'
  BY <1>0, <1>3 DEF Routed, Passing, PassEnded, Filters
<1> DEFINE c == Replay!next
<1>5. CASE Replay!NextFile
  <2>1. UNCHANGED <<blobs, cutRows, featureRows, rul>> /\ tasks' \subseteq tasks
    BY <1>5 DEF Replay!NextFile, Replay!db
  <2>2. Replay!DriverTypeOK'
    BY <1>0, <2>1 DEF DriverInv, Replay!DriverTypeOK
  <2>3. \/ phase' = "next"
        \/ phase' = "put" /\ tasks' = tasks /\ c \notin cutRows
    BY <1>5 DEF Replay!NextFile, Replay!Ingested
  <2>4. Present' /\ Fresh'
    BY <1>0, <1>1, <1>2, <1>3, <2>1, <2>3 DEF DriverInv, Present, Predicted, Fresh
  <2> QED BY <1>4, <2>2, <2>4 DEF DriverInv
<1>6. CASE Replay!Put
  <2>1. /\ blobs' = blobs \cup {c} /\ UNCHANGED <<cutRows, featureRows, rul, tasks>>
        /\ phase = "put" /\ phase' = "append_cut"
    BY <1>6 DEF Replay!Put
  <2>2. Replay!DriverTypeOK'
    BY <1>0, <1>1, <2>1 DEF DriverInv, Replay!DriverTypeOK
  <2>3. Present' /\ Fresh'
    BY <1>0, <1>1, <1>2, <2>1 DEF DriverInv, Present, Predicted, Fresh
  <2> QED BY <1>4, <2>2, <2>3 DEF DriverInv
<1>7. CASE Replay!AppendCut
  <2>1. /\ cutRows' = cutRows \cup {c} /\ UNCHANGED <<blobs, featureRows, rul, tasks>>
        /\ phase = "append_cut" /\ phase' = "append_features"
    BY <1>7 DEF Replay!AppendCut
  <2>2. Replay!DriverTypeOK'
    BY <1>0, <1>1, <2>1 DEF DriverInv, Replay!DriverTypeOK
  <2>3. c \notin featureRows
    BY <2>1 DEF DriverInv, Present, Fresh
  <2>4. Present' /\ Fresh'
    BY <1>0, <1>1, <1>2, <2>1, <2>3 DEF DriverInv, Present, Predicted, Fresh
  <2> QED BY <1>4, <2>2, <2>4 DEF DriverInv
<1>8. CASE Replay!AppendFeatures
  <2>1. /\ featureRows' = featureRows \cup {c} /\ UNCHANGED <<blobs, cutRows, rul, tasks>>
        /\ phase = "append_features" /\ phase' = "append_stub"
    BY <1>8 DEF Replay!AppendFeatures
  <2>2. Replay!DriverTypeOK'
    BY <1>0, <1>1, <2>1 DEF DriverInv, Replay!DriverTypeOK
  <2>3. c \in cutRows /\ c \notin Predicted /\ Predicted' = Predicted
    BY <2>1 DEF DriverInv, Present, Fresh, Predicted
  <2>4. Present' /\ Fresh'
    BY <1>0, <1>1, <1>2, <2>1, <2>3 DEF DriverInv, Present, Fresh
  <2> QED BY <1>4, <2>2, <2>4 DEF DriverInv
<1>9. CASE Replay!AppendStub
  <2>1. /\ rul' = rul \cup {[cut |-> c, post |-> Stub]} /\ tasks' = tasks \ {c}
        /\ UNCHANGED <<blobs, cutRows, featureRows>>
        /\ phase = "append_stub" /\ phase' = "next"
    BY <1>9 DEF Replay!AppendStub
  <2>5. PICK d : d = c
    OBVIOUS
  <2>6. rul' = rul \cup {[cut |-> d, post |-> Stub]} /\ d \in Replay!Cuts
    BY <1>1, <2>1, <2>5
  <2>7. rul' \subseteq Replay!RulRow
    BY <2>6, RowTyped DEF DriverInv, Replay!DriverTypeOK
  <2>2. Replay!DriverTypeOK'
    BY <1>0, <1>1, <2>1, <2>7 DEF DriverInv, Replay!DriverTypeOK
  <2>3. Predicted' = Predicted \cup {c} /\ c \in featureRows
    <3>1. Predicted' = Predicted \cup {d}
      BY <2>6, RowPredicts
    <3>2. c \in featureRows
      BY <2>1 DEF DriverInv, Fresh
    <3> QED BY <2>5, <3>1, <3>2
  <2>4. Present' /\ Fresh'
    BY <1>0, <1>1, <2>1, <2>3 DEF DriverInv, Present, Fresh
  <2> QED BY <1>4, <2>2, <2>4 DEF DriverInv
<1> QED BY <1>5, <1>6, <1>7, <1>8, <1>9

\* The two rows, and the labels.
LEMMA LabelStatements ==
  ASSUME DriverInv,
         \/ /\ Replay!Setup
            /\ UNCHANGED <<blobs, cutRows, featureRows, labelRows, rul, twin, tasks>>
         \/ Replay!ReadExisting \/ Replay!AppendLabel
  PROVE  DriverInv'
<1> USE DEF Replay!Goto
<1>0. /\ UNCHANGED <<blobs, cutRows, featureRows, rul, twin, script, last, deaths>>
      /\ phase \in {"machine", "run", "existing", "label"}
      /\ phase' \in {"run", "next", "existing", "label"}
  BY DEF Replay!Setup, Replay!ReadExisting, Replay!AppendLabel, Replay!db
<1>1. script \in {"run_replay", "load_labels"} /\ last = "none"
  BY <1>0 DEF DriverInv, Routed, Filters, Replay!DriverTypeOK, Replay!Scripts
<1>2. Routed' /\ Passing' /\ PassEnded'
  <2>1. Passing' /\ PassEnded'
    BY <1>0, <1>1 DEF Passing, PassEnded, Filters
  <2>2. Routed'
    BY <1>0, <1>1 DEF DriverInv, Routed, Filters, Replay!Setup, Replay!ReadExisting,
       Replay!AppendLabel
  <2> QED BY <2>1, <2>2
<1>3. CASE Replay!Setup /\ UNCHANGED <<labelRows, tasks>>
  <2>1. /\ hasMachine' \in BOOLEAN /\ hasRun' \in BOOLEAN /\ (hasRun => hasRun')
        /\ phase' \in {"run", "next", "existing"} /\ (phase' # "run" => hasRun')
    BY <1>3 DEF Replay!Setup, DriverInv, Replay!DriverTypeOK
  <2>2. Replay!DriverTypeOK'
    BY <1>0, <1>3, <2>1 DEF DriverInv, Replay!DriverTypeOK
  <2>3. Present' /\ Fresh'
    BY <1>0, <1>3, <2>1 DEF DriverInv, Present, Predicted, Fresh
  <2> QED BY <1>2, <2>2, <2>3 DEF DriverInv
<1>4. CASE Replay!ReadExisting
  <2>1. /\ tasks' = Replay!Cuts \ labelRows /\ UNCHANGED <<hasMachine, hasRun, labelRows>>
        /\ phase = "existing" /\ phase' = "label"
    BY <1>4 DEF Replay!ReadExisting, Replay!Missing, Replay!db
  <2>2. Replay!DriverTypeOK'
    BY <1>0, <2>1 DEF DriverInv, Replay!DriverTypeOK
  <2>3. Present' /\ Fresh'
    BY <1>0, <2>1 DEF DriverInv, Present, Predicted, Fresh
  <2> QED BY <1>2, <2>2, <2>3 DEF DriverInv
<1>5. CASE Replay!AppendLabel
  <2>1. PICK c : c = Replay!next
    OBVIOUS
  <2>2. /\ labelRows' = labelRows \cup {c} /\ tasks' = tasks \ {c} /\ tasks # {}
        /\ UNCHANGED <<hasMachine, hasRun>> /\ phase = "label" /\ phase' = "label"
    BY <1>5, <2>1 DEF Replay!AppendLabel
  <2>3. c \in Replay!Cuts
    BY <2>1, <2>2, SmallestTask DEF DriverInv, Replay!DriverTypeOK
  <2>4. Replay!DriverTypeOK'
    BY <1>0, <2>2, <2>3 DEF DriverInv, Replay!DriverTypeOK
  <2>5. Present' /\ Fresh'
    BY <1>0, <2>2 DEF DriverInv, Present, Predicted, Fresh
  <2> QED BY <1>2, <2>4, <2>5 DEF DriverInv
<1> QED BY <1>3, <1>4, <1>5

\* A filter pass over S: the cuts of S that are no longer to be done are those before c.
Divided(S, T, c) ==
  /\ S \subseteq Nat /\ T \subseteq S /\ c \in T
  /\ \A i \in S \ T, j \in T : i < j
  /\ \A j \in T : c <= j

\* The pass goes on behind c.
Advanced(S, T, c) ==
  /\ (S \ T) \cup {c} = Upto(S, c)
  /\ S \ (T \ {c}) = (S \ T) \cup {c}
  /\ \A i \in S \ (T \ {c}), j \in T \ {c} : i < j
  /\ PassRows(S, S \ (T \ {c})) = PassRows(S, S \ T) \cup {[cut |-> c, post |-> Upto(S, c)]}

LEMMA PassOn ==
  ASSUME NEW S, NEW T, NEW c, Divided(S, T, c)
  PROVE  Advanced(S, T, c)
<1> USE DEF Divided
<1>1. (S \ T) \cup {c} = Upto(S, c)
  <2>1. ASSUME NEW k \in Upto(S, c) PROVE k \in (S \ T) \cup {c}
    <3>1. k \in S /\ k <= c
      BY DEF Upto
    <3>2. k \in T => k = c
      BY <3>1
    <3> QED BY <3>1, <3>2
  <2>2. ASSUME NEW k \in (S \ T) \cup {c} PROVE k \in S /\ k <= c
    OBVIOUS
  <2>3. \A k \in (S \ T) \cup {c} : k \in Upto(S, c)
    BY <2>2 DEF Upto
  <2> QED BY <2>1, <2>3
<1>2. S \ (T \ {c}) = (S \ T) \cup {c}
  OBVIOUS
<1>3. \A i \in S \ (T \ {c}), j \in T \ {c} : i < j
  <2> SUFFICES ASSUME NEW i \in S \ (T \ {c}), NEW j \in T \ {c} PROVE i < j
    OBVIOUS
  <2>1. CASE i \notin T
    BY <2>1
  <2>2. CASE i = c
    BY <2>2
  <2> QED BY <2>1, <2>2
<1>4. PassRows(S, (S \ T) \cup {c}) = PassRows(S, S \ T) \cup {[cut |-> c, post |-> Upto(S, c)]}
  BY DEF PassRows
<1> QED BY <1>1, <1>2, <1>3, <1>4 DEF Advanced

\* A statement of a filter pass.
LEMMA FilterStatements ==
  ASSUME DriverInv,
         Replay!BuildTwin \/ Replay!ClearRul \/ Replay!Update \/ Replay!AppendRul
  PROVE  DriverInv'
<1> USE DEF Replay!Goto
<1>0. /\ UNCHANGED <<hasMachine, hasRun, blobs, cutRows, featureRows, labelRows>>
      /\ script \in Filters /\ last = "none" /\ deaths' = deaths
      /\ phase \in {"build", "clear", "update", "append_rul"}
  <2>1. phase \in {"build", "clear", "update", "append_rul"}
    BY DEF Replay!BuildTwin, Replay!ClearRul, Replay!Update, Replay!AppendRul
  <2>2. script \in Filters /\ last = "none"
    BY <2>1 DEF DriverInv, Routed, Filters, Replay!DriverTypeOK, Replay!Scripts
  <2>3. UNCHANGED <<hasMachine, hasRun, blobs, cutRows, featureRows, labelRows, deaths>>
    BY DEF Replay!BuildTwin, Replay!ClearRul, Replay!Update, Replay!AppendRul
  <2> QED BY <2>1, <2>2, <2>3
<1> DEFINE S == Replay!Scored(script)
<1>1. S \subseteq featureRows /\ featureRows \subseteq Replay!Cuts /\ S \subseteq Nat
      /\ Replay!Scored(script)' = Replay!Scored(script')
  BY <1>0 DEF Replay!Scored, DriverInv, Replay!DriverTypeOK, Replay!Cuts
<1>2. script' = script => Replay!Scored(script)' = S
  BY <1>0 DEF Replay!Scored
<1> HIDE DEF S
<1>3. CASE Replay!BuildTwin /\ phase' = "clear"
  <2>1. /\ twin' = {} /\ UNCHANGED <<rul, tasks, script, last>> /\ labelRows # {}
    BY <1>3 DEF Replay!BuildTwin, Replay!End
  <2>2. Replay!DriverTypeOK'
    BY <1>0, <2>1 DEF DriverInv, Replay!DriverTypeOK
  <2>3. Routed' /\ Fresh' /\ Passing' /\ PassEnded'
    BY <1>0, <1>3, <2>1 DEF Routed, Fresh, Passing, PassEnded, Filters
  <2>4. Present'
    BY <1>0, <2>1 DEF DriverInv, Present, Predicted
  <2> QED BY <2>2, <2>3, <2>4 DEF DriverInv
<1>4. CASE Replay!BuildTwin /\ phase' # "clear"
  <2>1. /\ UNCHANGED <<rul, twin>>
        /\ script' = "none" /\ phase' = "idle" /\ tasks' = {} /\ last' = "none"
    BY <1>4 DEF Replay!BuildTwin, Replay!End
  <2>2. Replay!DriverTypeOK'
    BY <1>0, <2>1 DEF DriverInv, Replay!DriverTypeOK
  <2>3. Routed' /\ Fresh' /\ Passing' /\ PassEnded' /\ Present'
    BY <1>0, <2>1 DEF DriverInv, Routed, Fresh, Passing, PassEnded, Filters, Present, Predicted
  <2> QED BY <2>2, <2>3 DEF DriverInv
<1>5. CASE Replay!ClearRul
  <2>1. /\ rul' = {} /\ tasks' = S /\ UNCHANGED <<twin, script, last>>
        /\ phase = "clear" /\ phase' = "update"
    BY <1>5 DEF Replay!ClearRul, Replay!Cleared, S
  <2>2. Replay!DriverTypeOK'
    BY <1>0, <1>1, <2>1 DEF DriverInv, Replay!DriverTypeOK
  <2>3. Routed' /\ Fresh' /\ PassEnded'
    BY <1>0, <2>1 DEF Routed, Fresh, PassEnded, Filters
  <2>4. Present'
    BY <1>0, <2>1 DEF DriverInv, Present, Predicted
  <2>5. Passing'
    <3>1. twin' = {} /\ S \ tasks' = {} /\ PassRows(S, {}) = {}
      BY <2>1 DEF DriverInv, Passing, PassRows
    <3> QED BY <1>2, <2>1, <3>1 DEF Passing
  <2> QED BY <2>2, <2>3, <2>4, <2>5 DEF DriverInv
<1>6. ASSUME Replay!Update \/ Replay!AppendRul
      PROVE  /\ Replay!next \in tasks /\ tasks \subseteq S
             /\ (S \ tasks) \cup {Replay!next} = Upto(S, Replay!next)
             /\ \A i \in S \ (tasks \ {Replay!next}), j \in tasks \ {Replay!next} : i < j
             /\ S \ (tasks \ {Replay!next}) = (S \ tasks) \cup {Replay!next}
             /\ PassRows(S, S \ (tasks \ {Replay!next})) =
                  PassRows(S, S \ tasks) \cup {[cut |-> Replay!next, post |-> Upto(S, Replay!next)]}
  <2>1. tasks # {} /\ phase \in {"update", "append_rul"}
    BY <1>6 DEF DriverInv, Fresh, Replay!Update, Replay!AppendRul
  <2>2. Replay!next \in tasks /\ \A j \in tasks : Replay!next <= j
    BY <2>1, SmallestTask DEF DriverInv
  <2>3. tasks \subseteq S /\ \A i \in S \ tasks, j \in tasks : i < j
    BY <2>1 DEF DriverInv, Passing, S
  <2>4. Divided(S, tasks, Replay!next)
    BY <1>1, <2>2, <2>3 DEF Divided
  <2>5. Advanced(S, tasks, Replay!next)
    BY <2>4, PassOn
  <2> QED BY <2>2, <2>3, <2>5 DEF Advanced
<1>7. CASE Replay!Update
  <2>1. /\ twin' = twin \cup {Replay!next} /\ UNCHANGED <<rul, tasks, script, last>>
        /\ phase = "update" /\ phase' = "append_rul" /\ Replay!next' = Replay!next
    BY <1>7 DEF Replay!Update, Replay!Absorb, Replay!next
  <2>2. Replay!DriverTypeOK'
    BY <1>0, <1>1, <1>6, <1>7, <2>1 DEF DriverInv, Replay!DriverTypeOK
  <2>3. Routed' /\ PassEnded'
    BY <1>0, <2>1 DEF Routed, PassEnded, Filters
  <2>4. Present' /\ Fresh'
    BY <1>0, <1>6, <1>7, <2>1 DEF DriverInv, Present, Predicted, Fresh
  <2>5. Passing'
    <3>1. /\ twin = S \ tasks /\ rul = PassRows(S, S \ tasks)
          /\ \A i \in S \ tasks, j \in tasks : i < j
      BY <2>1 DEF DriverInv, Passing, S
    <3> QED BY <1>2, <1>6, <1>7, <2>1, <3>1 DEF Passing
  <2> QED BY <2>2, <2>3, <2>4, <2>5 DEF DriverInv
<1>8. CASE Replay!AppendRul
  <2>1. /\ rul' = rul \cup {[cut |-> Replay!next, post |-> twin]}
        /\ tasks' = tasks \ {Replay!next} /\ UNCHANGED <<twin, script, last>>
        /\ phase = "append_rul" /\ phase' = "update"
    BY <1>8 DEF Replay!AppendRul
  <2>2. /\ twin = Upto(S, Replay!next) /\ rul = PassRows(S, S \ tasks)
    BY <2>1 DEF DriverInv, Passing, S
  <2>3. rul' = PassRows(S, S \ tasks') /\ twin' = S \ tasks'
    BY <1>6, <1>8, <2>1, <2>2
  <2>4. Passing'
    BY <1>2, <1>6, <1>8, <2>1, <2>3 DEF Passing
  <2>5. PICK c : c = Replay!next
    OBVIOUS
  <2>6. rul' = rul \cup {[cut |-> c, post |-> twin]} /\ c \in featureRows
    BY <1>1, <1>6, <1>8, <2>1, <2>5
  <2>7. rul' \subseteq Replay!RulRow
    BY <1>1, <2>6, RowTyped DEF DriverInv, Replay!DriverTypeOK
  <2>8. Replay!DriverTypeOK'
    BY <1>0, <1>1, <1>6, <1>8, <2>1, <2>7 DEF DriverInv, Replay!DriverTypeOK
  <2>9. Predicted' = Predicted \cup {c}
    BY <2>6, RowPredicts
  <2>10. Present'
    BY <1>0, <2>1, <2>6, <2>9 DEF DriverInv, Present
  <2>11. Routed' /\ Fresh' /\ PassEnded'
    BY <1>0, <2>1 DEF Routed, Fresh, PassEnded, Filters
  <2> QED BY <2>4, <2>8, <2>10, <2>11 DEF DriverInv
<1> QED BY <1>3, <1>4, <1>5, <1>7, <1>8

LEMMA DriverStutter ==
  ASSUME DriverInv, UNCHANGED <<phase, tasks, deaths, replayOnly>>
  PROVE  DriverInv'
<1>1. /\ Replay!DriverTypeOK' /\ Replay!next' = Replay!next
      /\ \A s : Replay!Scored(s)' = Replay!Scored(s)
  BY DEF DriverInv, Replay!DriverTypeOK, replayOnly, Replay!next, Replay!Scored
<1>2. Routed' /\ Present' /\ Fresh'
  BY <1>1 DEF DriverInv, replayOnly, Routed, Present, Predicted, Fresh
<1>3. Passing' /\ PassEnded'
  BY <1>1 DEF DriverInv, replayOnly, Passing, PassEnded
<1> QED BY <1>1, <1>2, <1>3 DEF DriverInv

\* Scripts that die anywhere and are run again in any order make no insert that a key
\* refuses, and a filter pass that ends is whole: for any number of cut files and deaths.
THEOREM DriverIsSafe == ClientsSpec => []DriverSafe
<1> DEFINE Inv == part = "replay" => DriverInv
<1>1. ClientsInit => Inv
  BY DriverInit DEF ClientsInit
<1>2. ASSUME Inv, [ClientsNext]_clientVars PROVE Inv'
  <2>1. CASE part' = part /\ UNCHANGED <<phase, tasks, deaths, replayOnly>>
    BY <1>2, <2>1, DriverStutter
  <2>2. CASE part = "replay" /\ Replay!Next
    BY <1>2, <2>2, DriverTurns, ReplayStatements, LabelStatements, FilterStatements
       DEF Replay!Next, Replay!Step
  <2>3. CASE UNCHANGED part /\ part # "replay"
    BY <2>3
  <2> QED BY <1>2, <2>1, <2>2, <2>3 DEF ClientsNext, clientVars, scripts
<1>3. Inv => DriverSafe
  BY DriverGives DEF DriverSafe
<1> QED BY <1>1, <1>2, <1>3, PTL DEF ClientsSpec

-----------------------------------------------------------------------------
(***************************************************************************)
(* DemoExport.  Runs that pass the tripwire are labeled (Looked), and the  *)
(* copy is what each statement has made of it (Worked).  The labels of the *)
(* source do not change, and features are only added.                      *)
(***************************************************************************)
Full == [runs : SUBSET Runs, ended : SUBSET Runs, label : [Runs -> Nat],
         feature : [Runs -> Nat], twin : SUBSET Runs]

ExportTypeOK ==
  /\ src \in Full /\ src.runs = Runs
  /\ keep \subseteq Runs /\ tasks \subseteq keep /\ problems \subseteq keep
  /\ phase \in {"copied", "pruned", "stripped"} => work \in Full

Looked ==
  /\ phase \in {"check", "copied", "pruned", "stripped", "done"} =>
       \A r \in keep \ tasks : src.label[r] > 0
  /\ phase \in {"copied", "pruned", "stripped", "done"} => tasks = {}
  /\ phase = "check" => \A r \in problems : src.feature[r] > src.label[r]

\* Whose labels are kept, and what is left of the others.
Reduced(db) ==
  /\ db.runs = keep /\ db.ended \subseteq keep /\ db.twin \subseteq keep
  /\ \A r \in Runs : IF r \in keep THEN db.label[r] > 0 ELSE db.label[r] = 0 /\ db.feature[r] = 0

Stripped(db) == Reduced(db) /\ db.ended = keep /\ db.twin = {}

Worked ==
  /\ phase = "copied" => work.runs = Runs /\ work.label = src.label
  /\ phase = "pruned" => Reduced(work)
  /\ phase = "stripped" => Stripped(work)
  /\ phase = "done" => Stripped(dst)

ExportInv == ExportTypeOK /\ Looked /\ Worked /\ Export!RefusalDeserved

LEMMA ExportInit == Export!Init => ExportInv
<1> SUFFICES ASSUME Export!Init PROVE ExportInv
  OBVIOUS
<1>1. src \in Full /\ src.runs = Runs
  BY DEF Export!Init, Export!Database, Full
<1>2. phase = "idle" /\ keep = {} /\ tasks = {} /\ problems = {}
  BY DEF Export!Init
<1> QED BY <1>1, <1>2 DEF ExportInv, ExportTypeOK, Looked, Worked, Export!RefusalDeserved

\* A feature more in the source.
LEMMA IngestKeeps ==
  ASSUME ExportInv, NEW r \in Runs, Export!Ingest(r)  PROVE ExportInv'
<1>1. /\ src' = [src EXCEPT !.feature = [src.feature EXCEPT ![r] = src.feature[r] + 1]]
      /\ UNCHANGED <<keep, tasks, problems, work, dst, phase>>
  BY DEF Export!Ingest
<1>2. src' \in Full /\ src'.runs = Runs /\ src'.label = src.label
      /\ src'.feature = [src.feature EXCEPT ![r] = src.feature[r] + 1]
  BY <1>1 DEF ExportInv, ExportTypeOK, Full
<1>3. \A q \in Runs : src'.feature[q] >= src.feature[q] /\ src.label[q] \in Nat
                      /\ src.feature[q] \in Nat /\ src'.feature[q] \in Nat
  BY <1>2 DEF ExportInv, ExportTypeOK, Full
<1>4. \A q \in Runs : src.feature[q] > src.label[q] => src'.feature[q] > src'.label[q]
  BY <1>2, <1>3
<1>5. ExportTypeOK' /\ Worked'
  BY <1>1, <1>2 DEF ExportInv, ExportTypeOK, Worked, Reduced, Stripped
<1>6. Looked'
  BY <1>1, <1>2, <1>4 DEF ExportInv, ExportTypeOK, Looked
<1>7. Export!RefusalDeserved'
  BY <1>1, <1>2, <1>4 DEF ExportInv, ExportTypeOK, Export!RefusalDeserved
<1> QED BY <1>5, <1>6, <1>7 DEF ExportInv

\* The tripwire.
LEMMA SelectKeeps ==
  ASSUME ExportInv, Export!Select  PROVE ExportInv'
<1>1. /\ UNCHANGED <<src, work, dst>> /\ tasks' = keep' /\ problems' = {}
      /\ phase' = IF keep' = {} THEN "refused" ELSE "check"
      /\ keep' \subseteq Runs
      /\ keep' = {} => Export!labeled = {}
  BY DEF Export!Select, Export!labeled
<1>2. Export!labeled = {} => \A r \in Runs : src.label[r] = 0
  BY DEF Export!labeled, ExportInv, ExportTypeOK, Full
<1> QED
  BY <1>1, <1>2
     DEF ExportInv, ExportTypeOK, Looked, Worked, Export!RefusalDeserved

LEMMA CheckKeeps ==
  ASSUME ExportInv, NEW r \in Runs, Export!Check(r)  PROVE ExportInv'
<1>1. /\ phase = "check" /\ r \in tasks /\ tasks' = tasks \ {r}
      /\ UNCHANGED <<src, keep, work, dst>>
      /\ src.label[r] \in Nat /\ r \in keep
  BY DEF Export!Check, ExportInv, ExportTypeOK, Full
<1>2. CASE src.label[r] = 0
  <2>1. phase' = "refused" /\ problems' = problems
    BY <1>2 DEF Export!Check
  <2> QED
    BY <1>1, <1>2, <2>1 DEF ExportInv, ExportTypeOK, Looked, Worked, Export!RefusalDeserved
<1>3. CASE src.label[r] # 0
  <2>1. /\ phase' = phase /\ problems' \subseteq problems \cup {r}
        /\ r \in problems' \ problems => src.feature[r] > src.label[r]
    BY <1>3 DEF Export!Check, Export!Stray
  <2>2. src.label[r] > 0
    BY <1>1, <1>3
  <2>3. ExportTypeOK' /\ Worked' /\ Export!RefusalDeserved'
    BY <1>1, <2>1 DEF ExportInv, ExportTypeOK, Worked, Export!RefusalDeserved
  <2>4. Looked'
    BY <1>1, <2>1, <2>2 DEF ExportInv, ExportTypeOK, Looked
  <2> QED BY <2>3, <2>4 DEF ExportInv
<1> QED BY <1>2, <1>3

LEMMA EndKeeps ==
  ASSUME ExportInv, Export!Refuse \/ Export!Crash \/ Export!Again  PROVE ExportInv'
<1>1. CASE Export!Refuse
  BY <1>1 DEF Export!Refuse, ExportInv, ExportTypeOK, Looked, Worked, Export!RefusalDeserved
<1>2. CASE Export!Crash \/ Export!Again
  <2>1. /\ UNCHANGED src /\ keep' = {} /\ tasks' = {} /\ problems' = {} /\ phase' = "idle"
    BY <1>2 DEF Export!Crash, Export!Again
  <2> QED BY <2>1 DEF ExportInv, ExportTypeOK, Looked, Worked, Export!RefusalDeserved
<1> QED BY <1>1, <1>2

\* What is deleted is what is not kept.
LEMMA PruneKeeps ==
  ASSUME ExportInv, Export!Prune  PROVE ExportInv'
<1> DEFINE out == Export!Pruned(work)
           fs  == Export!none(work.feature, out)
           ls  == Export!none(work.label, out)
<1>1. /\ phase = "copied" /\ phase' = "pruned" /\ UNCHANGED <<src, keep, tasks, problems, dst>>
      /\ work' = [work EXCEPT !.twin = @ \ out, !.feature = fs, !.label = ls, !.runs = @ \ out,
                              !.ended = @ \ out]
  BY DEF Export!Prune
<1>2. /\ work \in Full /\ work.runs = Runs /\ work.label = src.label
      /\ keep \subseteq Runs /\ \A r \in keep : src.label[r] > 0
  BY <1>1 DEF ExportInv, ExportTypeOK, Worked, Looked
<1>3. out = Runs \ keep
  BY <1>2 DEF Export!Pruned
<1>4. /\ fs \in [Runs -> Nat] /\ \A r \in Runs \ keep : fs[r] = 0
      /\ ls \in [Runs -> Nat] /\ \A r \in Runs : ls[r] = IF r \in keep THEN src.label[r] ELSE 0
  <2> HIDE DEF out
  <2> QED BY <1>2, <1>3 DEF Export!none, Full
<1> HIDE DEF fs, ls, out
<1>5. /\ work'.runs = work.runs \ out /\ work'.ended = work.ended \ out
      /\ work'.twin = work.twin \ out
      /\ work'.feature = fs /\ work'.label = ls /\ work' \in Full
  BY <1>1, <1>2, <1>3, <1>4 DEF Full
<1>6. Reduced(work')
  <2>1. work'.runs = keep /\ work'.ended \subseteq keep /\ work'.twin \subseteq keep
    BY <1>2, <1>3, <1>5 DEF Full
  <2>2. ASSUME NEW r \in Runs
        PROVE  IF r \in keep THEN work'.label[r] > 0
               ELSE work'.label[r] = 0 /\ work'.feature[r] = 0
    BY <1>2, <1>4, <1>5
  <2> QED BY <2>1, <2>2 DEF Reduced
<1>7. ExportTypeOK' /\ Looked' /\ Export!RefusalDeserved'
  BY <1>1, <1>5 DEF ExportInv, ExportTypeOK, Looked, Export!RefusalDeserved
<1>8. Worked'
  BY <1>1, <1>6 DEF Worked, Reduced
<1> QED BY <1>7, <1>8 DEF ExportInv

LEMMA StatementKeeps ==
  ASSUME ExportInv, Export!Copy \/ Export!Strip \/ Export!Commit  PROVE ExportInv'
<1>1. CASE Export!Copy
  BY <1>1 DEF Export!Copy, ExportInv, ExportTypeOK, Looked, Worked, Export!RefusalDeserved
<1>2. CASE Export!Strip
  <2>1. /\ phase = "pruned" /\ phase' = "stripped"
        /\ UNCHANGED <<src, keep, tasks, problems, dst>>
        /\ work' = [work EXCEPT !.twin = {}, !.ended = work.runs]
    BY <1>2 DEF Export!Strip
  <2>2. work \in Full /\ Reduced(work)
    BY <2>1 DEF ExportInv, ExportTypeOK, Worked
  <2>3. /\ work' \in Full /\ work'.runs = work.runs /\ work'.label = work.label
        /\ work'.feature = work.feature /\ work'.twin = {} /\ work'.ended = work.runs
    BY <2>1, <2>2 DEF Full
  <2>4. Stripped(work)'
    BY <2>1, <2>2, <2>3 DEF Reduced, Stripped
  <2> QED
    BY <2>1, <2>3, <2>4 DEF ExportInv, ExportTypeOK, Looked, Worked, Export!RefusalDeserved
<1>3. CASE Export!Commit
  BY <1>3
     DEF Export!Commit, ExportInv, ExportTypeOK, Looked, Worked, Reduced, Stripped,
         Export!RefusalDeserved
<1> QED BY <1>1, <1>2, <1>3

\* Whatever the server ingests meanwhile and whichever exports died, a finished export has
\* the chosen runs and nothing of another, and the tripwire refuses for a reason: for any
\* runs, cuts and deaths.
THEOREM ExportIsSafe == ClientsSpec => []ExportSafe
<1> DEFINE Inv == part = "export" => ExportInv
<1>1. ClientsInit => Inv
  BY ExportInit DEF ClientsInit
<1>2. ASSUME Inv, [ClientsNext]_clientVars PROVE Inv'
  <2>1. CASE part' = part /\ UNCHANGED <<phase, tasks, deaths, exportOnly>>
    BY <1>2, <2>1
       DEF exportOnly, ExportInv, ExportTypeOK, Looked, Worked, Reduced, Stripped,
           Export!RefusalDeserved
  <2>2. CASE part = "export" /\ Export!Next
    BY <1>2, <2>2, IngestKeeps, SelectKeeps, CheckKeeps, EndKeeps, PruneKeeps, StatementKeeps
       DEF Export!Next
  <2>3. CASE UNCHANGED part /\ part # "export"
    BY <2>3
  <2> QED BY <1>2, <2>1, <2>2, <2>3 DEF ClientsNext, clientVars, scripts
<1>3. Inv => ExportSafe
  BY DEF ExportSafe, ExportInv, Worked, Reduced, Stripped, Export!ExportSafe, Export!ExportIsClean
<1> QED BY <1>1, <1>2, <1>3, PTL DEF ClientsSpec

-----------------------------------------------------------------------------
(***************************************************************************)
(* LoadTest.  The client waits for at most one post of a run (Counted),    *)
(* every answer that it has taken for a success is of a post that is       *)
(* stored, and the features of a run are those of its posts (Backed).      *)
(* Without a fault the lock lets one post at a time through, so that the   *)
(* index it was given is still free when its rows are written (Numbered).  *)
(***************************************************************************)
Where == {"none", "queued", "cut", "features", "twin", "stored", "failed"}

LoadTypeOK ==
  /\ job \in [Load!Ids -> [Load!Posts -> Where]]
  /\ index \in [Load!Ids -> [Load!Posts -> Nat]]
  /\ nCuts \in [Load!Ids -> Nat] /\ nFeatures \in [Load!Ids -> Nat]
  /\ posted \in [Load!Ids -> Nat] /\ ok \in [Load!Ids -> Nat] /\ errors \in [Load!Ids -> Nat]
  /\ faults \in Nat

Answered(r, n) == {p \in Load!Posts : p <= n /\ job[r][p] = "stored"}
Written(r)     == {p \in Load!Posts : job[r][p] \in {"twin", "stored"}}
Attempted(r)   == {p \in Load!Posts : job[r][p] \in {"twin", "stored", "failed"}}

Counted ==
  \A r \in Load!Ids :
    /\ posted[r] <= CutsPerRun
    /\ ok[r] + errors[r] <= posted[r] /\ posted[r] <= ok[r] + errors[r] + 1
    /\ \A p \in Load!Posts : p > posted[r] => job[r][p] = "none"

Backed ==
  \A r \in Load!Ids :
    /\ ok[r] <= Cardinality(Answered(r, ok[r] + errors[r]))
    /\ Cardinality(Written(r)) <= nFeatures[r]
    /\ nFeatures[r] <= Cardinality(Attempted(r))

Numbered ==
  faults = 0 =>
    \A r \in Load!Ids :
      /\ \A p \in Load!Posts : job[r][p] # "failed"
      /\ \A p, q \in Load!Posts :
           {job[r][p], job[r][q]} \subseteq {"cut", "features", "twin"} => p = q
      /\ \A p \in Load!Posts : job[r][p] = "cut" => index[r][p] = nFeatures[r] + 1
      /\ nCuts[r] = IF \E p \in Load!Posts : job[r][p] = "features"
                      THEN nFeatures[r] + 1 ELSE nFeatures[r]

LoadInv == LoadTypeOK /\ Counted /\ Backed /\ Numbered

\* Some posts of a run.
LEMMA SomePosts ==
  ASSUME NEW S, S \subseteq Load!Posts
  PROVE  IsFiniteSet(S) /\ Cardinality(S) \in Nat
<1>1. CutsPerRun \in Nat
  BY LoadAssumption DEF Load!LoadAssumption
<1>2. IsFiniteSet(1..CutsPerRun)
  BY <1>1, FS_Interval
<1>3. IsFiniteSet(S)
  BY <1>2, FS_Subset DEF Load!Posts
<1> QED BY <1>3, FS_CardinalityType

LEMMA Sizes ==
  ASSUME NEW S, NEW T, S \subseteq T, T \subseteq Load!Posts
  PROVE  Cardinality(S) <= Cardinality(T)
BY SomePosts, FS_Subset

LEMMA OneMore ==
  ASSUME NEW S, S \subseteq Load!Posts, NEW p \in Load!Posts
  PROVE  Cardinality(S \cup {p}) = IF p \in S THEN Cardinality(S) ELSE Cardinality(S) + 1
BY SomePosts, FS_AddElement

\* The posts up to n are n.
LEMMA FirstPosts ==
  ASSUME NEW n \in Nat, n <= CutsPerRun, NEW S, S \subseteq Load!Posts, \A p \in S : p <= n
  PROVE  Cardinality(S) <= n
<1> DEFINE T == 1..n
<1>1. IsFiniteSet(T) /\ Cardinality(T) = n
  BY FS_Interval
<1>2. S \subseteq T
  BY DEF Load!Posts
<1> HIDE DEF T
<1>3. Cardinality(S) <= Cardinality(T)
  BY <1>1, <1>2, FS_Subset
<1> QED BY <1>1, <1>3

LEMMA LoadInit == Load!Init => LoadInv
<1> SUFFICES ASSUME Load!Init PROVE LoadInv
  OBVIOUS
<1> USE DEF Load!Init, Load!zero
<1>0. CutsPerRun \in Nat
  BY LoadAssumption DEF Load!LoadAssumption
<1>1. LoadTypeOK
  BY DEF LoadTypeOK, Where
<1>2. Counted /\ Numbered
  BY <1>0 DEF Counted, Numbered
<1>3. ASSUME NEW r \in Load!Ids
      PROVE  Answered(r, ok[r] + errors[r]) = {} /\ Written(r) = {} /\ Attempted(r) = {}
  BY DEF Answered, Written, Attempted
<1>4. Backed
  <2>1. Cardinality({}) = 0
    BY FS_EmptySet
  <2>2. \A r \in Load!Ids : ok[r] = 0 /\ nFeatures[r] = 0
    OBVIOUS
  <2> QED BY ONLY <1>3, <2>1, <2>2 DEF Backed
<1> QED BY <1>1, <1>2, <1>4 DEF LoadInv

\* What the run checks of the load test.
LEMMA LoadGives == LoadInv => Load!LoadSafe
<1> SUFFICES ASSUME LoadInv PROVE Load!LoadSafe
  OBVIOUS
<1>1. Load!NothingRefused
  BY DEF LoadInv, Numbered, Load!NothingRefused
<1>2. ASSUME NEW r \in Load!Ids
      PROVE  /\ ok[r] <= nFeatures[r]
             /\ nFeatures[r] <= ok[r] + errors[r] + (IF Load!waiting(r) THEN 1 ELSE 0)
  <2>1. /\ posted[r] \in Nat /\ ok[r] \in Nat /\ errors[r] \in Nat /\ nFeatures[r] \in Nat
        /\ posted[r] <= CutsPerRun /\ posted[r] <= ok[r] + errors[r] + 1
    BY DEF LoadInv, LoadTypeOK, Counted
  <2> DEFINE A == Answered(r, ok[r] + errors[r])
  <2>2. A \subseteq Written(r) /\ Written(r) \subseteq Load!Posts
        /\ Attempted(r) \subseteq Load!Posts
    BY DEF Answered, Written, Attempted
  <2>3. /\ Cardinality(A) <= Cardinality(Written(r))
        /\ Cardinality(A) \in Nat /\ Cardinality(Written(r)) \in Nat
        /\ Cardinality(Attempted(r)) \in Nat
    BY <2>2, Sizes, SomePosts
  <2>4. ok[r] <= Cardinality(A) /\ Cardinality(Written(r)) <= nFeatures[r]
        /\ nFeatures[r] <= Cardinality(Attempted(r))
    BY DEF LoadInv, Backed
  <2>5. Cardinality(Attempted(r)) <= posted[r]
    <3>1. \A p \in Attempted(r) : p <= posted[r]
      BY <2>1 DEF LoadInv, Counted, Attempted, Load!Posts
    <3> QED BY <2>1, <2>2, <3>1, FirstPosts
  <2> HIDE DEF A
  <2>6. ok[r] <= nFeatures[r] /\ nFeatures[r] <= posted[r]
    BY <2>1, <2>3, <2>4, <2>5
  <2> QED BY <2>1, <2>6 DEF Load!waiting
<1> QED BY <1>1, <1>2 DEF Load!LoadSafe, Load!ReportAgrees

\* The client: nothing but what it has posted and taken for an answer.
LEMMA ClientIdles ==
  ASSUME LoadInv, UNCHANGED <<job, index, nCuts, nFeatures, posted, ok, errors, faults>>
  PROVE  LoadInv'
<1>1. LoadTypeOK' /\ Numbered'
  BY DEF LoadInv, LoadTypeOK, Numbered
<1>2. Counted' /\ Backed'
  BY DEF LoadInv, Counted, Backed, Answered, Written, Attempted
<1> QED BY <1>1, <1>2 DEF LoadInv

LEMMA PostKeeps ==
  ASSUME LoadInv, NEW r \in Load!Ids, Load!Post(r)  PROVE LoadInv'
<1> DEFINE p == posted[r] + 1
<1>1. /\ posted' = [posted EXCEPT ![r] = p]
      /\ job' = [job EXCEPT ![r] = [job[r] EXCEPT ![p] = "queued"]]
      /\ UNCHANGED <<index, nCuts, nFeatures, ok, errors, faults>>
      /\ posted[r] < CutsPerRun /\ ~Load!waiting(r)
  BY DEF Load!Post
<1>2. /\ posted[r] \in Nat /\ ok[r] \in Nat /\ errors[r] \in Nat /\ CutsPerRun \in Nat
      /\ posted[r] = ok[r] + errors[r]
  <2>1. CutsPerRun \in Nat
    BY LoadAssumption DEF Load!LoadAssumption
  <2>2. posted[r] \in Nat /\ ok[r] \in Nat /\ errors[r] \in Nat
    BY DEF LoadInv, LoadTypeOK
  <2>3. ok[r] + errors[r] <= posted[r] /\ ~ (posted[r] > ok[r] + errors[r])
    BY <1>1 DEF LoadInv, Counted, Load!waiting
  <2> QED BY <2>1, <2>2, <2>3
<1>3. p \in Load!Posts /\ p <= CutsPerRun /\ p = ok[r] + errors[r] + 1 /\ p > posted[r]
  BY <1>1, <1>2 DEF Load!Posts
<1>4. job[r][p] = "none"
  BY <1>3 DEF LoadInv, Counted
<1> HIDE DEF p
<1>5. job' \in [Load!Ids -> [Load!Posts -> Where]]
  BY <1>1, <1>3 DEF LoadInv, LoadTypeOK, Where
<1>6. /\ \A s \in Load!Ids : s # r => job'[s] = job[s] /\ posted'[s] = posted[s]
      /\ \A q \in Load!Posts : q # p => job'[r][q] = job[r][q]
      /\ job'[r][p] = "queued" /\ posted'[r] = p
  BY <1>1, <1>3 DEF LoadInv, LoadTypeOK
<1>7. LoadTypeOK'
  BY <1>1, <1>2, <1>3, <1>5 DEF LoadInv, LoadTypeOK, p
<1>8. Counted'
  <2> SUFFICES ASSUME NEW s \in Load!Ids
               PROVE  /\ posted'[s] <= CutsPerRun
                      /\ ok[s] + errors[s] <= posted'[s] /\ posted'[s] <= ok[s] + errors[s] + 1
                      /\ \A q \in Load!Posts : q > posted'[s] => job'[s][q] = "none"
    BY <1>1 DEF Counted
  <2>1. CASE s # r
    BY <1>6, <2>1 DEF LoadInv, Counted
  <2>2. CASE s = r
    <3>1. \A q \in Load!Posts : q > p => q > posted[r] /\ q # p
      BY <1>2, <1>3 DEF Load!Posts
    <3> QED BY <1>2, <1>3, <1>6, <2>2, <3>1 DEF LoadInv, Counted
  <2> QED BY <2>1, <2>2
<1>9. Backed'
  <2>1. \A s \in Load!Ids : /\ \A n : Answered(s, n)' = Answered(s, n)
                            /\ Written(s)' = Written(s) /\ Attempted(s)' = Attempted(s)
    BY <1>4, <1>6 DEF Answered, Written, Attempted
  <2> QED BY <1>1, <2>1 DEF LoadInv, Backed
<1>10. Numbered'
  <2>1. \A s \in Load!Ids, q \in Load!Posts :
          job'[s][q] # job[s][q] => job[s][q] = "none" /\ job'[s][q] = "queued"
    BY <1>4, <1>6
  <2> QED BY <1>1, <2>1 DEF LoadInv, Numbered
<1> QED BY <1>7, <1>8, <1>9, <1>10 DEF LoadInv

\* A post of which the client learns how it ended, or gives up.
LEMMA AnswerKeeps ==
  ASSUME LoadInv, NEW r \in Load!Ids, Load!Answer(r) \/ Load!Timeout(r)  PROVE LoadInv'
<1> DEFINE n == ok[r] + errors[r]
<1>1. UNCHANGED <<job, index, nCuts, nFeatures, posted, faults>> /\ Load!waiting(r)
  BY DEF Load!Answer, Load!Timeout, Load!server
<1>2. /\ ok[r] \in Nat /\ errors[r] \in Nat /\ n \in Nat /\ posted[r] = n + 1
      /\ n + 1 \in Load!Posts
  <2>1. /\ posted[r] \in Nat /\ ok[r] \in Nat /\ errors[r] \in Nat
        /\ posted[r] <= ok[r] + errors[r] + 1 /\ posted[r] > ok[r] + errors[r]
        /\ posted[r] <= CutsPerRun /\ CutsPerRun \in Nat
    BY <1>1, LoadAssumption
       DEF LoadInv, LoadTypeOK, Counted, Load!waiting, Load!LoadAssumption
  <2>2. posted[r] = ok[r] + errors[r] + 1
    BY <2>1
  <2> QED BY <2>1, <2>2 DEF Load!Posts
<1>3. \/ /\ ok' = [ok EXCEPT ![r] = ok[r] + 1] /\ errors' = errors
         /\ job[r][posted[r]] = "stored"
      \/ ok' = ok /\ errors' = [errors EXCEPT ![r] = errors[r] + 1]
  BY DEF Load!Answer, Load!Timeout
<1>4. /\ ok' \in [Load!Ids -> Nat] /\ errors' \in [Load!Ids -> Nat]
      /\ \A s \in Load!Ids : s # r => ok'[s] = ok[s] /\ errors'[s] = errors[s]
      /\ ok'[r] + errors'[r] = n + 1
      /\ \/ ok'[r] = ok[r]
         \/ ok'[r] = ok[r] + 1 /\ job[r][n + 1] = "stored"
  <2>1. ok \in [Load!Ids -> Nat] /\ errors \in [Load!Ids -> Nat]
    BY DEF LoadInv, LoadTypeOK
  <2>2. CASE /\ ok' = [ok EXCEPT ![r] = ok[r] + 1] /\ errors' = errors
             /\ job[r][posted[r]] = "stored"
    <3>1. ok[r] + 1 \in Nat /\ ok'[r] = ok[r] + 1 /\ errors'[r] = errors[r]
      BY <1>2, <2>1, <2>2
    <3> QED BY <1>2, <2>1, <2>2, <3>1
  <2>3. CASE ok' = ok /\ errors' = [errors EXCEPT ![r] = errors[r] + 1]
    <3>1. errors[r] + 1 \in Nat /\ ok'[r] = ok[r] /\ errors'[r] = errors[r] + 1
      BY <1>2, <2>1, <2>3
    <3> QED BY <1>2, <2>1, <2>3, <3>1
  <2> QED BY <1>3, <2>2, <2>3
<1>0. n = ok[r] + errors[r]
  OBVIOUS
<1> HIDE DEF n
<1>5. LoadTypeOK' /\ Numbered'
  BY <1>1, <1>4 DEF LoadInv, LoadTypeOK, Numbered
<1>6. Counted'
  <2> SUFFICES ASSUME NEW s \in Load!Ids
               PROVE  ok'[s] + errors'[s] <= posted[s] /\ posted[s] <= ok'[s] + errors'[s] + 1
    BY <1>1 DEF LoadInv, Counted
  <2>1. CASE s # r
    <3>1. ok[s] + errors[s] <= posted[s] /\ posted[s] <= ok[s] + errors[s] + 1
      BY DEF LoadInv, Counted
    <3> QED BY <1>4, <2>1, <3>1
  <2>2. CASE s = r
    BY <1>2, <1>4, <2>2
  <2> QED BY <2>1, <2>2
<1>7. Backed'
  <2> SUFFICES ASSUME NEW s \in Load!Ids
               PROVE  ok'[s] <= Cardinality(Answered(s, ok'[s] + errors'[s]))
    BY <1>1 DEF LoadInv, Backed, Answered, Written, Attempted
  <2>1. CASE s # r
    <3>1. ok[s] <= Cardinality(Answered(s, ok[s] + errors[s]))
      BY DEF LoadInv, Backed
    <3> QED BY <1>4, <2>1, <3>1
  <2>2. CASE s = r
    <3>1. ok[r] <= Cardinality(Answered(r, n))
      BY <1>0 DEF LoadInv, Backed
    <3>2. Answered(r, n) \subseteq Answered(r, n + 1) /\ Answered(r, n + 1) \subseteq Load!Posts
          /\ \A q \in Answered(r, n) : q # n + 1
      BY <1>2 DEF Answered, Load!Posts
    <3>3. /\ Cardinality(Answered(r, n)) <= Cardinality(Answered(r, n + 1))
          /\ Cardinality(Answered(r, n)) \in Nat /\ Cardinality(Answered(r, n + 1)) \in Nat
      BY <3>2, Sizes, SomePosts
    <3>4. CASE ok'[r] = ok[r]
      BY <1>2, <1>4, <2>2, <3>1, <3>3, <3>4
    <3>5. CASE ok'[r] = ok[r] + 1 /\ job[r][n + 1] = "stored"
      <4>1. n + 1 \in Load!Posts
        BY <1>2
      <4>2. Answered(r, n + 1) = Answered(r, n) \cup {n + 1}
        BY <1>2, <3>5, <4>1 DEF Answered, Load!Posts
      <4>3. Cardinality(Answered(r, n + 1)) = Cardinality(Answered(r, n)) + 1
        BY <3>2, <4>1, <4>2, OneMore
      <4> QED BY <1>2, <1>4, <2>2, <3>1, <3>3, <3>5, <4>3
    <3> QED BY <1>4, <3>4, <3>5
  <2> QED BY <2>1, <2>2
<1> QED BY <1>5, <1>6, <1>7 DEF LoadInv

\* The server moves one post, which the client has sent and has no answer for.
JobMoves(r, p, w) ==
  /\ r \in Load!Ids /\ p \in Load!Posts /\ w \in Where
  /\ job[r][p] \notin {"none", "stored"} /\ w # "none"
  /\ job' = [job EXCEPT ![r][p] = w]
  /\ UNCHANGED <<posted, ok, errors>>

LEMMA MovedJobs ==
  ASSUME LoadInv, NEW r, NEW p, NEW w, JobMoves(r, p, w)
  PROVE  /\ job' \in [Load!Ids -> [Load!Posts -> Where]]
         /\ \A s \in Load!Ids : s # r => job'[s] = job[s]
         /\ \A q \in Load!Posts : q # p => job'[r][q] = job[r][q]
         /\ job'[r][p] = w
<1> DEFINE f == [job[r] EXCEPT ![p] = w]
<1>1. /\ job \in [Load!Ids -> [Load!Posts -> Where]] /\ job' = [job EXCEPT ![r] = f]
      /\ r \in Load!Ids /\ p \in Load!Posts /\ w \in Where
  BY DEF LoadInv, LoadTypeOK, JobMoves
<1>2. /\ f \in [Load!Posts -> Where] /\ f[p] = w
      /\ \A q \in Load!Posts : q # p => f[q] = job[r][q]
  BY <1>1
<1> HIDE DEF f
<1> QED BY <1>1, <1>2

LEMMA MovedCounted ==
  ASSUME LoadInv, NEW r, NEW p, NEW w, JobMoves(r, p, w)
  PROVE  Counted'
<1>1. UNCHANGED <<posted, ok, errors>> /\ p \in Load!Posts /\ job[r][p] # "none" /\ r \in Load!Ids
  BY DEF JobMoves
<1>2. ASSUME NEW s \in Load!Ids, NEW q \in Load!Posts, q > posted[s]  PROVE job'[s][q] = "none"
  <2>1. job[s][q] = "none"
    BY <1>2 DEF LoadInv, Counted
  <2>2. s # r \/ q # p
    BY <1>1, <2>1
  <2> QED BY <1>2, <2>1, <2>2, MovedJobs
<1> QED BY <1>1, <1>2 DEF LoadInv, Counted

\* A run whose post moves has the features it had, or one more.
LEMMA MovedBacked ==
  ASSUME LoadInv, NEW r, NEW p, NEW w, JobMoves(r, p, w),
         \/ /\ UNCHANGED nFeatures
            /\ w \in {"twin", "stored"} => job[r][p] = "twin"
            /\ job[r][p] \in {"twin", "failed"} => w \in {"twin", "stored", "failed"}
         \/ /\ nFeatures' = [nFeatures EXCEPT ![r] = @ + 1]
            /\ job[r][p] = "features" /\ w = "twin"
  PROVE  Backed'
<1>1. UNCHANGED <<posted, ok, errors>> /\ r \in Load!Ids /\ p \in Load!Posts
  BY DEF JobMoves
<1> SUFFICES ASSUME NEW s \in Load!Ids
             PROVE  /\ ok[s] <= Cardinality(Answered(s, ok[s] + errors[s])')
                    /\ Cardinality(Written(s)') <= nFeatures'[s]
                    /\ nFeatures'[s] <= Cardinality(Attempted(s)')
  BY <1>1 DEF Backed, Answered
<1>2. /\ ok[s] \in Nat /\ errors[s] \in Nat /\ nFeatures[s] \in Nat
      /\ ok[s] <= Cardinality(Answered(s, ok[s] + errors[s]))
      /\ Cardinality(Written(s)) <= nFeatures[s] /\ nFeatures[s] <= Cardinality(Attempted(s))
  BY DEF LoadInv, LoadTypeOK, Backed
<1>3. CASE s # r
  <2>1. job'[s] = job[s]
    BY <1>3, MovedJobs
  <2>2. /\ Answered(s, ok[s] + errors[s])' = Answered(s, ok[s] + errors[s])
        /\ Written(s)' = Written(s) /\ Attempted(s)' = Attempted(s)
    BY <1>1, <2>1 DEF Answered, Written, Attempted
  <2>3. nFeatures'[s] = nFeatures[s]
    BY <1>3 DEF LoadInv, LoadTypeOK
  <2> QED BY <1>2, <2>2, <2>3
<1>4. CASE s = r
  <2> DEFINE A == Answered(s, ok[s] + errors[s])  A2 == Answered(s, ok[s] + errors[s])'
  <2>1. /\ A \subseteq A2 /\ A2 \subseteq Load!Posts
        /\ Written(s) \subseteq Load!Posts /\ Attempted(s) \subseteq Load!Posts
        /\ Written(s)' \subseteq Load!Posts /\ Attempted(s)' \subseteq Load!Posts
    BY <1>1, <1>4, MovedJobs DEF JobMoves, Answered, Written, Attempted, Load!Posts
  <2>2. /\ Cardinality(A) <= Cardinality(A2)
        /\ Cardinality(A) \in Nat /\ Cardinality(A2) \in Nat
    BY <2>1, Sizes, SomePosts
  <2>3. ok[s] <= Cardinality(A2)
    <3> HIDE DEF A, A2
    <3>1. ok[s] <= Cardinality(A)
      BY <1>2 DEF A
    <3> QED BY <1>2, <2>2, <3>1
  <2> HIDE DEF A, A2
  <2>4. /\ Cardinality(Written(s)) \in Nat /\ Cardinality(Attempted(s)) \in Nat
        /\ Cardinality(Written(s)') \in Nat /\ Cardinality(Attempted(s)') \in Nat
    BY <2>1, SomePosts
  <2>5. CASE /\ UNCHANGED nFeatures
             /\ w \in {"twin", "stored"} => job[r][p] = "twin"
             /\ job[r][p] \in {"twin", "failed"} => w \in {"twin", "stored", "failed"}
    <3>1. Written(s)' \subseteq Written(s)
      BY <1>4, <2>5, MovedJobs DEF Written
    <3>2. Attempted(s) \subseteq Attempted(s)'
      BY <1>4, <2>5, MovedJobs DEF JobMoves, Attempted
    <3>3. /\ Cardinality(Written(s)') <= Cardinality(Written(s))
          /\ Cardinality(Attempted(s)) <= Cardinality(Attempted(s)')
      BY <2>1, <3>1, <3>2, Sizes
    <3> QED BY <1>2, <2>3, <2>4, <2>5, <3>3 DEF A2
  <2>6. CASE /\ nFeatures' = [nFeatures EXCEPT ![r] = @ + 1]
             /\ job[r][p] = "features" /\ w = "twin"
    <3>1. /\ Written(s)' = Written(s) \cup {p} /\ p \notin Written(s)
          /\ Attempted(s)' = Attempted(s) \cup {p} /\ p \notin Attempted(s)
      BY <1>1, <1>4, <2>6, MovedJobs DEF Written, Attempted
    <3>2. /\ Cardinality(Written(s)') = Cardinality(Written(s)) + 1
          /\ Cardinality(Attempted(s)') = Cardinality(Attempted(s)) + 1
      BY <1>1, <2>1, <3>1, OneMore
    <3>3. nFeatures'[s] = nFeatures[s] + 1
      BY <1>4, <2>6 DEF LoadInv, LoadTypeOK
    <3> QED BY <1>2, <2>3, <2>4, <3>2, <3>3 DEF A2
  <2> QED BY <2>5, <2>6
<1> QED BY <1>3, <1>4

LEMMA TakeLockKeeps ==
  ASSUME LoadInv, NEW r \in Load!Ids, NEW p \in Load!Posts, Load!TakeLock(r, p)  PROVE LoadInv'
<1> DEFINE n == nFeatures[r] + 1
<1>1. /\ job[r][p] = "queued" /\ Load!Free(r) /\ JobMoves(r, p, "cut")
      /\ index' = [index EXCEPT ![r] = [index[r] EXCEPT ![p] = n]]
      /\ UNCHANGED <<nCuts, nFeatures, faults>>
  BY DEF Load!TakeLock, JobMoves, Where, Load!client
<1>2. n \in Nat
  BY DEF LoadInv, LoadTypeOK
<1> HIDE DEF n
<1>3. /\ index' \in [Load!Ids -> [Load!Posts -> Nat]]
      /\ index'[r][p] = n
      /\ \A s \in Load!Ids : s # r => index'[s] = index[s]
  BY <1>1, <1>2 DEF LoadInv, LoadTypeOK
<1>4. LoadTypeOK'
  BY <1>1, <1>3, MovedJobs DEF LoadInv, LoadTypeOK, JobMoves
<1>5. Counted' /\ Backed'
  BY <1>1, MovedCounted, MovedBacked
<1>6. Numbered'
  <2> SUFFICES ASSUME faults = 0, NEW s \in Load!Ids
               PROVE  /\ \A q \in Load!Posts : job'[s][q] # "failed"
                      /\ \A q, o \in Load!Posts :
                           {job'[s][q], job'[s][o]} \subseteq {"cut", "features", "twin"} => q = o
                      /\ \A q \in Load!Posts : job'[s][q] = "cut" => index'[s][q] = nFeatures[s] + 1
                      /\ nCuts[s] = IF \E q \in Load!Posts : job'[s][q] = "features"
                                      THEN nFeatures[s] + 1 ELSE nFeatures[s]
    BY <1>1 DEF Numbered
  <2>1. /\ \A q \in Load!Posts : job[s][q] # "failed"
        /\ \A q, o \in Load!Posts :
             {job[s][q], job[s][o]} \subseteq {"cut", "features", "twin"} => q = o
        /\ \A q \in Load!Posts : job[s][q] = "cut" => index[s][q] = nFeatures[s] + 1
        /\ nCuts[s] = IF \E q \in Load!Posts : job[s][q] = "features"
                        THEN nFeatures[s] + 1 ELSE nFeatures[s]
    BY DEF LoadInv, Numbered
  <2>2. CASE s # r
    <3>1. job'[s] = job[s] /\ index'[s] = index[s]
      BY <1>1, <1>3, <2>2, MovedJobs
    <3> QED BY <2>1, <3>1
  <2>3. CASE s = r
    <3>1. /\ \A q \in Load!Posts : job[s][q] \notin {"cut", "features", "twin"}
      BY <1>1, <2>3 DEF Load!Free
    <3>2. /\ \A q \in Load!Posts : q # p => job'[s][q] = job[s][q]
          /\ job'[s][p] = "cut"
      BY <1>1, <2>3, MovedJobs
    <3>3. index'[s][p] = nFeatures[s] + 1
      BY <1>3, <2>3 DEF n
    <3> QED BY <2>1, <3>1, <3>2, <3>3
  <2> QED BY <2>2, <2>3
<1> QED BY <1>4, <1>5, <1>6 DEF LoadInv

LEMMA AppendCutKeeps ==
  ASSUME LoadInv, NEW r \in Load!Ids, NEW p \in Load!Posts, Load!AppendCut(r, p)  PROVE LoadInv'
<1>1. /\ job[r][p] = "cut" /\ UNCHANGED <<index, nFeatures, faults>>
      /\ \/ /\ index[r][p] <= nCuts[r] /\ JobMoves(r, p, "failed") /\ UNCHANGED nCuts
         \/ /\ ~ (index[r][p] <= nCuts[r]) /\ JobMoves(r, p, "features")
            /\ nCuts' = [nCuts EXCEPT ![r] = @ + 1]
  BY DEF Load!AppendCut, JobMoves, Where, Load!client
<1>2. LoadTypeOK'
  <2>1. job' \in [Load!Ids -> [Load!Posts -> Where]]
    BY <1>1, MovedJobs
  <2>2. UNCHANGED <<posted, ok, errors, index, nFeatures, faults>>
    BY <1>1 DEF JobMoves
  <2>3. nCuts' \in [Load!Ids -> Nat]
    BY <1>1 DEF LoadInv, LoadTypeOK
  <2> QED BY <2>1, <2>2, <2>3 DEF LoadInv, LoadTypeOK
<1>3. Counted' /\ Backed'
  BY <1>1, MovedCounted, MovedBacked
<1>4. Numbered'
  <2> SUFFICES ASSUME faults = 0, NEW s \in Load!Ids
               PROVE  /\ \A q \in Load!Posts : job'[s][q] # "failed"
                      /\ \A q, o \in Load!Posts :
                           {job'[s][q], job'[s][o]} \subseteq {"cut", "features", "twin"} => q = o
                      /\ \A q \in Load!Posts : job'[s][q] = "cut" => index[s][q] = nFeatures[s] + 1
                      /\ nCuts'[s] = IF \E q \in Load!Posts : job'[s][q] = "features"
                                       THEN nFeatures[s] + 1 ELSE nFeatures[s]
    BY <1>1 DEF Numbered
  <2>1. /\ \A q \in Load!Posts : job[s][q] # "failed"
        /\ \A q, o \in Load!Posts :
             {job[s][q], job[s][o]} \subseteq {"cut", "features", "twin"} => q = o
        /\ \A q \in Load!Posts : job[s][q] = "cut" => index[s][q] = nFeatures[s] + 1
        /\ nCuts[s] = IF \E q \in Load!Posts : job[s][q] = "features"
                        THEN nFeatures[s] + 1 ELSE nFeatures[s]
        /\ nCuts[s] \in Nat /\ nFeatures[s] \in Nat
    BY DEF LoadInv, LoadTypeOK, Numbered
  <2>2. CASE s # r
    <3>1. job'[s] = job[s] /\ nCuts'[s] = nCuts[s]
      BY <1>1, <2>2, MovedJobs DEF LoadInv, LoadTypeOK
    <3> QED BY <2>1, <3>1
  <2>3. CASE s = r
    <3>1. \A q \in Load!Posts : q # p => job[s][q] \notin {"cut", "features", "twin"}
      BY <1>1, <2>1, <2>3
    <3>2. index[s][p] = nFeatures[s] + 1 /\ nCuts[s] = nFeatures[s]
      BY <1>1, <2>1, <2>3, <3>1
    <3>3. JobMoves(r, p, "features") /\ nCuts' = [nCuts EXCEPT ![r] = @ + 1]
      BY <1>1, <2>1, <2>3, <3>2
    <3>4. /\ \A q \in Load!Posts : q # p => job'[s][q] = job[s][q]
          /\ job'[s][p] = "features"
      BY <2>3, <3>3, MovedJobs
    <3>5. nCuts'[s] = nFeatures[s] + 1
      BY <2>3, <3>2, <3>3 DEF LoadInv, LoadTypeOK
    <3> QED BY <2>1, <3>1, <3>4, <3>5
  <2> QED BY <2>2, <2>3
<1> QED BY <1>2, <1>3, <1>4 DEF LoadInv

LEMMA AppendFeaturesKeeps ==
  ASSUME LoadInv, NEW r \in Load!Ids, NEW p \in Load!Posts, Load!AppendFeatures(r, p)
  PROVE  LoadInv'
<1>1. /\ job[r][p] = "features" /\ UNCHANGED <<index, nCuts, faults>> /\ JobMoves(r, p, "twin")
      /\ nFeatures' = [nFeatures EXCEPT ![r] = @ + 1]
  BY DEF Load!AppendFeatures, JobMoves, Where, Load!client
<1>2. LoadTypeOK'
  BY <1>1, MovedJobs DEF LoadInv, LoadTypeOK, JobMoves
<1>3. Counted' /\ Backed'
  BY <1>1, MovedCounted, MovedBacked
<1>4. Numbered'
  <2> SUFFICES ASSUME faults = 0, NEW s \in Load!Ids
               PROVE  /\ \A q \in Load!Posts : job'[s][q] # "failed"
                      /\ \A q, o \in Load!Posts :
                           {job'[s][q], job'[s][o]} \subseteq {"cut", "features", "twin"} => q = o
                      /\ \A q \in Load!Posts : job'[s][q] = "cut" => index[s][q] = nFeatures'[s] + 1
                      /\ nCuts[s] = IF \E q \in Load!Posts : job'[s][q] = "features"
                                      THEN nFeatures'[s] + 1 ELSE nFeatures'[s]
    BY <1>1 DEF Numbered
  <2>1. /\ \A q \in Load!Posts : job[s][q] # "failed"
        /\ \A q, o \in Load!Posts :
             {job[s][q], job[s][o]} \subseteq {"cut", "features", "twin"} => q = o
        /\ \A q \in Load!Posts : job[s][q] = "cut" => index[s][q] = nFeatures[s] + 1
        /\ nCuts[s] = IF \E q \in Load!Posts : job[s][q] = "features"
                        THEN nFeatures[s] + 1 ELSE nFeatures[s]
        /\ nCuts[s] \in Nat /\ nFeatures[s] \in Nat
    BY DEF LoadInv, LoadTypeOK, Numbered
  <2>2. CASE s # r
    <3>1. job'[s] = job[s] /\ nFeatures'[s] = nFeatures[s]
      BY <1>1, <2>2, MovedJobs DEF LoadInv, LoadTypeOK
    <3> QED BY <2>1, <3>1
  <2>3. CASE s = r
    <3>1. \A q \in Load!Posts : q # p => job[s][q] \notin {"cut", "features", "twin"}
      BY <1>1, <2>1, <2>3
    <3>2. nCuts[s] = nFeatures[s] + 1
      BY <1>1, <2>1, <2>3
    <3>4. /\ \A q \in Load!Posts : q # p => job'[s][q] = job[s][q]
          /\ job'[s][p] = "twin"
      BY <1>1, <2>3, MovedJobs
    <3>5. nFeatures'[s] = nFeatures[s] + 1
      BY <1>1, <2>3 DEF LoadInv, LoadTypeOK
    <3> QED BY <2>1, <3>1, <3>2, <3>4, <3>5
  <2> QED BY <2>2, <2>3
<1> QED BY <1>2, <1>3, <1>4 DEF LoadInv

LEMMA UpdateKeeps ==
  ASSUME LoadInv, NEW r \in Load!Ids, NEW p \in Load!Posts, Load!UpdateTwin(r, p)
  PROVE  LoadInv'
<1>1. /\ job[r][p] = "twin" /\ UNCHANGED <<index, nCuts, nFeatures, faults>>
      /\ JobMoves(r, p, "stored")
  BY DEF Load!UpdateTwin, JobMoves, Where, Load!client
<1>2. LoadTypeOK'
  BY <1>1, MovedJobs DEF LoadInv, LoadTypeOK, JobMoves
<1>3. Counted' /\ Backed'
  BY <1>1, MovedCounted, MovedBacked
<1>4. \A s \in Load!Ids, q \in Load!Posts :
        \/ job'[s][q] = job[s][q]
        \/ job[s][q] = "twin" /\ job'[s][q] = "stored"
  BY <1>1, MovedJobs
<1>5. Numbered'
  BY <1>1, <1>4 DEF LoadInv, Numbered
<1> QED BY <1>2, <1>3, <1>5 DEF LoadInv

LEMMA FaultKeeps ==
  ASSUME LoadInv, NEW r \in Load!Ids, NEW p \in Load!Posts, Load!Fault(r, p)  PROVE LoadInv'
<1>1. /\ job[r][p] \in {"cut", "features", "twin"} /\ UNCHANGED <<index, nCuts, nFeatures>>
      /\ JobMoves(r, p, "failed") /\ faults' = faults + 1
  BY DEF Load!Fault, JobMoves, Where, Load!client
<1>2. faults' \in Nat /\ faults' # 0
  BY <1>1 DEF LoadInv, LoadTypeOK
<1>3. LoadTypeOK'
  BY <1>1, <1>2, MovedJobs DEF LoadInv, LoadTypeOK, JobMoves
<1>4. Counted' /\ Backed'
  BY <1>1, MovedCounted, MovedBacked
<1> QED BY <1>2, <1>3, <1>4 DEF LoadInv, Numbered

\* For any levels, cuts, sweeps, posts given up and faults: what the client has counted is
\* what the server has stored, and without a fault the server refuses no post.
THEOREM LoadIsSafe == ClientsSpec => []LoadSafe
<1> DEFINE Inv == part = "load" => LoadInv
<1>1. ClientsInit => Inv
  BY LoadInit DEF ClientsInit
<1>2. ASSUME Inv, [ClientsNext]_clientVars PROVE Inv'
  <2>1. CASE part' = part /\ UNCHANGED loadOnly
    BY <1>2, <2>1, ClientIdles DEF loadOnly
  <2>2. CASE part = "load" /\ Load!Next
    <3>1. CASE \/ Load!Authenticate \/ Load!Submit \/ Load!NextLevel \/ Load!Again
               \/ \E r \in Load!Ids : Load!CreateRun(r)
      BY <1>2, <2>2, <3>1, ClientIdles
         DEF Load!Authenticate, Load!Submit, Load!NextLevel, Load!Again, Load!CreateRun, Load!server
    <3>2. CASE \E r \in Load!Ids : Load!Post(r) \/ Load!Answer(r) \/ Load!Timeout(r)
      BY <1>2, <2>2, <3>2, PostKeeps, AnswerKeeps
    <3>3. CASE \E r \in Load!Ids, p \in Load!Posts :
                 \/ Load!TakeLock(r, p) \/ Load!AppendCut(r, p) \/ Load!AppendFeatures(r, p)
                 \/ Load!UpdateTwin(r, p) \/ Load!Fault(r, p)
      BY <1>2, <2>2, <3>3, TakeLockKeeps, AppendCutKeeps, AppendFeaturesKeeps, UpdateKeeps,
         FaultKeeps
    <3> QED BY <2>2, <3>1, <3>2, <3>3 DEF Load!Next
  <2>3. CASE UNCHANGED part /\ part # "load"
    BY <2>3
  <2> QED BY <1>2, <2>1, <2>2, <2>3 DEF ClientsNext, clientVars, loadOnly
<1>3. Inv => LoadSafe
  BY LoadGives DEF LoadSafe
<1> QED BY <1>1, <1>2, <1>3, PTL DEF ClientsSpec

-----------------------------------------------------------------------------
(***************************************************************************)
(* Dashboard.  There is one stream at most, and while the monitor is shown *)
(* it is of what is selected (Streaming): what is drawn is then what it    *)
(* has sent.  Of a run that nothing excepts the page has, or is about to   *)
(* be told, what the server has (Agree).                                   *)
(***************************************************************************)
AllRuns == Runs \cup Demo
Kinds   == {"list", "delete", "new", "rename", "upload"}
Message == [kind : Kinds, run : AllRuns \cup {None}, id : Nat, phase : {"sent", "answered"},
            ok : BOOLEAN, runs : SUBSET AllRuns]
Counters == [clicks : Nat, outside : Nat, breaks : Nat]
Point   == [run : AllRuns, model : AllRuns \cup {None}, cut : Nat]

ServerOK == DOMAIN stored \subseteq AllRuns /\ \A r \in DOMAIN stored : stored[r] \in 0..MaxCuts

NetOK ==
  /\ net \subseteq Message
  /\ \A q \in net :
       /\ q.kind # "list" => q.runs = {}
       /\ q.kind \in {"delete", "rename", "upload"} => q.run \in AllRuns
       /\ q.kind = "new" /\ q.phase = "answered" /\ q.ok => q.run \in AllRuns
       /\ q.kind = "list" /\ q.phase = "answered" => q.ok

ViewOK ==
  /\ rail \subseteq AllRuns /\ cur \in AllRuns \cup {None}
  /\ options \subseteq Demo \cup {None} /\ model \in Demo \cup {None}
  /\ shown \in BOOLEAN /\ live \in BOOLEAN
  /\ shown => cur \in AllRuns

Budget ==
  spent \in Counters /\ drift \subseteq AllRuns

Streaming ==
  /\ streams \subseteq Page!Source /\ es \in Nat
  /\ \A s \in streams : s.id = es
  /\ \A s, t \in streams : s = t
  /\ series \in Seq(Point) /\ total \in 0..MaxCuts /\ Len(series) <= total
  /\ \A s \in streams :
       /\ shown => s.run = cur /\ s.model = model
       /\ s.next = Len(series) /\ (s.open => s.n = total)
       /\ ~s.open => s.next = 0
  /\ shown => \A i \in 1..Len(series) : series[i] = [run |-> cur, model |-> model, cut |-> i]

Deleted(r) == \E q \in net : q.kind = "delete" /\ q.phase = "answered" /\ q.ok /\ q.run = r
Coming(r)  ==
  \E q \in net :
    q.kind = "list" \/ (q.kind = "new" /\ q.phase = "answered" /\ q.ok /\ q.run = r)

Told(r) ==
  \A q \in net : q.phase = "answered" =>
    /\ q.kind = "list" => (r \in q.runs <=> Page!Exists(r))
    /\ q.kind = "new" /\ q.ok /\ q.run = r => Page!Exists(r)
    /\ q.kind = "delete" /\ q.ok /\ q.run = r => ~ Page!Exists(r)

Agree(r) ==
  /\ Told(r)
  /\ r \in rail => Page!Exists(r) \/ Deleted(r)
  /\ Page!Exists(r) => r \in rail \/ Coming(r)
  /\ cur = r => r \in rail \/ Deleted(r)

PageInv ==
  /\ ServerOK /\ NetOK /\ ViewOK /\ Budget /\ Streaming
  /\ \A r \in AllRuns \ drift : Agree(r)

LEMMA NoneIsNoRun == None \notin AllRuns
BY PageAssumption DEF Page!PageAssumption, AllRuns

LEMMA SentMessage ==
  ASSUME NEW kind \in Kinds, NEW r \in AllRuns \cup {None}, NEW id \in Nat
  PROVE  /\ Page!Sent(kind, r, id) \in Message
         /\ Page!Sent(kind, r, id).kind = kind /\ Page!Sent(kind, r, id).run = r
         /\ Page!Sent(kind, r, id).phase = "sent" /\ Page!Sent(kind, r, id).runs = {}
BY DEF Page!Sent, Message

LEMMA PageInit == Page!Init => PageInv
<1> SUFFICES ASSUME Page!Init PROVE PageInv
  OBVIOUS
<1>1. PICK r \in (Runs \cup Demo) \ Demo : stored = [x \in Demo \cup {r} |-> 1]
  BY DEF Page!Init, Page!Own
<1>2. ServerOK
  BY <1>1, PageAssumption DEF Page!PageAssumption, ServerOK, AllRuns
<1>3. net = {Page!Sent("list", None, 0)} /\ NetOK
  BY SentMessage DEF Page!Init, NetOK, Kinds
<1>4. /\ rail = {} /\ cur = None /\ shown = FALSE /\ options = {} /\ model = None
      /\ streams = {} /\ es = 0 /\ live = FALSE /\ series = <<>> /\ total = 0 /\ drift = {}
      /\ spent = [clicks |-> 0, outside |-> 0, breaks |-> 0]
  BY DEF Page!Init
<1>5. ViewOK /\ Budget
  <2>1. ~shown /\ shown \in BOOLEAN /\ live \in BOOLEAN
    BY <1>4, Zenon
  <2>2. ViewOK
    BY <1>4, <2>1 DEF ViewOK
  <2> QED BY <1>4, <2>2 DEF Budget, Counters
<1>6. Streaming
  BY <1>4, PageAssumption DEF Page!PageAssumption, Streaming
<1>7. ASSUME NEW q \in AllRuns  PROVE Agree(q)
  <2>1. /\ Page!Sent("list", None, 0).kind = "list" /\ Page!Sent("list", None, 0).phase = "sent"
    BY DEF Page!Sent
  <2> QED BY <1>3, <1>4, <1>7, <2>1, NoneIsNoRun DEF Agree, Told, Coming
<1> QED BY <1>2, <1>3, <1>5, <1>6, <1>7 DEF PageInv

LEMMA PageGives == PageInv => Page!SeriesOfSelection /\ Page!RailAgrees
<1> SUFFICES ASSUME PageInv PROVE Page!SeriesOfSelection /\ Page!RailAgrees
  OBVIOUS
<1>1. Page!SeriesOfSelection
  <2>1. DOMAIN series = 1..Len(series)
    BY DEF PageInv, Streaming
  <2> QED BY <2>1 DEF PageInv, Streaming, Page!SeriesOfSelection
<1>2. Page!DashboardTypeOK
  <2>1. ASSUME NEW q \in net  PROVE q \in Page!Listed \cup Page!Asked
    BY <2>1 DEF PageInv, NetOK, Message, Kinds, Page!Listed, Page!Asked, AllRuns
  <2>2. /\ rail \subseteq Runs \cup Demo /\ cur \in Runs \cup Demo \cup {None}
        /\ drift \subseteq Runs \cup Demo /\ options \subseteq Demo \cup {None}
        /\ model \in Demo \cup {None} /\ {shown, live} \subseteq BOOLEAN
    BY DEF PageInv, ViewOK, Budget, AllRuns
  <2>3. streams \subseteq Page!Source /\ es \in Nat /\ total \in 0..MaxCuts
    BY DEF PageInv, Streaming
  <2>4. DOMAIN stored \subseteq Runs \cup Demo /\ \A r \in DOMAIN stored : stored[r] \in 0..MaxCuts
    BY DEF PageInv, ServerOK, AllRuns
  <2> QED BY <2>1, <2>2, <2>3, <2>4 DEF Page!DashboardTypeOK
<1>3. Page!ListAgrees
  BY DEF PageInv, Agree, Deleted, Coming, Page!ListAgrees, Page!Under, AllRuns
<1>4. Page!ShownIsListed
  BY DEF PageInv, ViewOK, Agree, Deleted, Page!ShownIsListed, Page!Under
<1> QED BY <1>1, <1>2, <1>3, <1>4 DEF Page!RailAgrees

-----------------------------------------------------------------------------
(* What is drawn.  A selection begins a stream of its own. *)
LEMMA PickKeeps ==
  ASSUME PageInv, NEW r \in AllRuns, NEW runs2 \in SUBSET AllRuns, Page!Select(r, runs2),
         rail' \in SUBSET AllRuns
  PROVE  ViewOK' /\ Streaming' /\ cur' = r
<1>1. /\ cur' = r /\ shown' = TRUE /\ options' \subseteq Demo \cup {None}
  BY PageAssumption DEF Page!Select, Page!modelOptions
<1>2. PICK m \in Demo \cup {None} : model' = m /\ Page!StartStream(r, m)
  BY <1>1 DEF Page!Select
<1> DEFINE s == [id |-> es + 1, run |-> r, model |-> m, open |-> FALSE, n |-> 0, next |-> 0]
<1>3. /\ Page!Closed(es) = {} /\ es \in Nat
  BY DEF PageInv, Streaming, Page!Closed
<1>4. /\ streams' = {s} /\ es' = es + 1 /\ series' = <<>> /\ total' = 0 /\ live' = TRUE
  BY <1>2, <1>3 DEF Page!StartStream
<1>5. s \in Page!Source
  BY <1>2, <1>3, PageAssumption DEF Page!Source, Page!PageAssumption, AllRuns
<1>6. s.id = es + 1 /\ s.run = r /\ s.model = m /\ ~s.open /\ s.next = 0
  OBVIOUS
<1> HIDE DEF s
<1>7. ViewOK'
  BY <1>1, <1>2, <1>4 DEF ViewOK
<1>8. Streaming'
  BY <1>1, <1>2, <1>3, <1>4, <1>5, <1>6, PageAssumption DEF Page!PageAssumption, Streaming
<1> QED BY <1>1, <1>7, <1>8

LEMMA RenderKeeps ==
  ASSUME PageInv, NEW runs2 \in SUBSET AllRuns, NEW selected \in AllRuns \cup {None}, NEW pick,
         Page!RenderRail(runs2, selected, pick)
  PROVE  ViewOK' /\ Streaming' /\ rail' = runs2 /\ cur' \in runs2 \cup {selected}
<1>1. CASE /\ Page!RenderEmpty /\ cur' = selected /\ rail' = runs2
  <2>1. shown' = FALSE /\ UNCHANGED <<options, model, streams, es, live, series, total>>
    BY <1>1 DEF Page!RenderEmpty
  <2>2. ViewOK'
    BY <1>1, <2>1 DEF PageInv, ViewOK
  <2>3. Streaming'
    BY <2>1 DEF PageInv, Streaming
  <2> QED BY <1>1, <2>2, <2>3
<1>2. CASE /\ rail' = runs2
           /\ \E r \in (runs2 \cup {selected}) \ {None} : Page!Select(r, runs2)
  BY <1>2, PickKeeps
<1>3. \/ Page!RenderEmpty /\ cur' = selected /\ rail' = runs2
      \/ rail' = runs2 /\ \E r \in (runs2 \cup {selected}) \ {None} : Page!Select(r, runs2)
  BY NoneIsNoRun DEF Page!RenderRail
<1> QED BY <1>1, <1>2, <1>3

-----------------------------------------------------------------------------
(* The user, and what happens elsewhere. *)

\* A click is one more, and another count leaves the clicks.
LEMMA SpentClicks ==
  ASSUME PageInv, spent' = [spent EXCEPT !["clicks"] = @ + 1]
  PROVE  spent' \in Counters
BY DEF PageInv, Budget, Counters

LEMMA SpentOthers ==
  ASSUME PageInv, NEW what \in {"outside", "breaks"}, spent' = [spent EXCEPT ![what] = @ + 1]
  PROVE  spent' \in Counters
BY DEF PageInv, Budget, Counters

\* A step of the page alone that leaves its list and what is under way.
LEMMA ViewMoves ==
  ASSUME PageInv, ViewOK', Streaming', UNCHANGED <<stored, net, rail, drift>>,
         cur' = cur \/ cur' \in rail \/ cur' = None, spent' \in Counters
  PROVE  PageInv'
<1>1. ServerOK' /\ NetOK' /\ Budget'
  BY DEF PageInv, ServerOK, NetOK, Budget
<1>2. ASSUME NEW r \in AllRuns \ drift  PROVE Agree(r)'
  <2>1. Agree(r) /\ r # None
    BY <1>2, NoneIsNoRun DEF PageInv
  <2>2. Page!Exists(r)' = Page!Exists(r)
    BY DEF Page!Exists
  <2> QED BY <2>1, <2>2 DEF Agree, Told, Deleted, Coming
<1> QED BY <1>1, <1>2 DEF PageInv

LEMMA ClickKeeps == ASSUME PageInv, NEW r, Page!Click(r) PROVE PageInv'
<1>1. /\ r \in rail /\ Page!Select(r, rail) /\ UNCHANGED <<stored, net, rail, drift>>
      /\ spent' = [spent EXCEPT !["clicks"] = @ + 1] /\ rail \in SUBSET AllRuns /\ r \in AllRuns
  BY DEF Page!Click, Page!Count, PageInv, ViewOK
<1>2. ViewOK' /\ Streaming' /\ cur' = r
  BY <1>1, PickKeeps
<1> QED BY <1>1, <1>2, ViewMoves, SpentClicks

LEMMA ChooseKeeps == ASSUME PageInv, NEW m, Page!Choose(m) PROVE PageInv'
<1>1. /\ shown /\ m \in options /\ model' = m /\ Page!StartStream(cur, m)
      /\ UNCHANGED <<stored, net, rail, cur, shown, options, drift>>
      /\ spent' = [spent EXCEPT !["clicks"] = @ + 1]
  BY DEF Page!Choose, Page!Count
<1> DEFINE s == [id |-> es + 1, run |-> cur, model |-> m, open |-> FALSE, n |-> 0, next |-> 0]
<1>2. /\ Page!Closed(es) = {} /\ es \in Nat /\ m \in Demo \cup {None} /\ cur \in AllRuns
  BY <1>1 DEF PageInv, Streaming, ViewOK, Page!Closed
<1>3. /\ streams' = {s} /\ es' = es + 1 /\ series' = <<>> /\ total' = 0 /\ live' = TRUE
  BY <1>1, <1>2 DEF Page!StartStream
<1>4. s \in Page!Source
  BY <1>2, PageAssumption DEF Page!Source, Page!PageAssumption, AllRuns
<1>5. s.id = es + 1 /\ s.run = cur /\ s.model = m /\ ~s.open /\ s.next = 0
  OBVIOUS
<1> HIDE DEF s
<1>6. ViewOK'
  BY <1>1, <1>2, <1>3 DEF PageInv, ViewOK
<1>7. Streaming'
  BY <1>1, <1>2, <1>3, <1>4, <1>5, PageAssumption DEF Page!PageAssumption, Streaming
<1> QED BY <1>1, <1>6, <1>7, ViewMoves, SpentClicks

\* What leaves the page as it is.
LEMMA PageStays ==
  ASSUME PageInv, UNCHANGED Page!page
  PROVE  ViewOK' /\ Streaming'
<1>1. UNCHANGED <<rail, cur, shown, options, model, streams, es, live, series, total>>
  BY DEF Page!page
<1> QED BY <1>1 DEF PageInv, ViewOK, Streaming

LEMMA AskKeeps ==
  ASSUME PageInv, NEW kind \in Kinds \ {"list"}, NEW r \in AllRuns \cup {None}, Page!Ask(kind, r)
  PROVE  PageInv'
<1> DEFINE q == Page!Sent(kind, r, spent.clicks + 1)
<1>1. /\ kind # "new" => r \in AllRuns
      /\ net' = net \cup {q} /\ UNCHANGED <<stored, rail, cur, drift>> /\ UNCHANGED Page!page
      /\ spent' = [spent EXCEPT !["clicks"] = @ + 1]
  BY DEF Page!Ask, Page!Count, Page!page, PageInv, ViewOK
<1>2. q \in Message /\ q.kind = kind /\ q.run = r /\ q.phase = "sent" /\ q.runs = {}
  BY SentMessage DEF PageInv, Budget, Counters
<1> HIDE DEF q
<1>3. ServerOK' /\ ViewOK' /\ Streaming'
  BY <1>1, PageStays DEF PageInv, ServerOK
<1>4. NetOK'
  BY <1>1, <1>2 DEF PageInv, NetOK
<1>5. Budget'
  BY <1>1, SpentClicks DEF PageInv, Budget
<1>6. ASSUME NEW x \in AllRuns \ drift  PROVE Agree(x)'
  <2>1. Agree(x) /\ Page!Exists(x)' = Page!Exists(x)
    BY <1>1, <1>6 DEF PageInv, Page!Exists
  <2> QED BY <1>1, <1>2, <2>1 DEF Agree, Told, Deleted, Coming
<1> QED BY <1>1, <1>3, <1>4, <1>5, <1>6 DEF PageInv

LEMMA ElsewhereKeeps == ASSUME PageInv, NEW r, Page!Elsewhere(r) PROVE PageInv'
<1>1. /\ r \in DOMAIN stored /\ UNCHANGED net /\ UNCHANGED Page!page
      /\ spent' = [spent EXCEPT !["outside"] = @ + 1]
      /\ \/ stored' = [x \in DOMAIN stored \ {r} |-> stored[x]] /\ drift' = drift \cup {r}
         \/ stored[r] < MaxCuts /\ stored' = [stored EXCEPT ![r] = @ + 1] /\ drift' = drift
  BY DEF Page!Elsewhere, Page!Remove, Page!Count, Page!Exists
<1>2. ViewOK' /\ Streaming' /\ NetOK'
  BY <1>1, PageStays DEF PageInv, NetOK
<1>3. ServerOK'
  BY <1>1, PageAssumption DEF PageInv, ServerOK, Page!PageAssumption
<1>4. Budget'
  BY <1>1, SpentOthers DEF PageInv, Budget, ServerOK
<1>5. ASSUME NEW x \in AllRuns \ drift'  PROVE Agree(x)'
  <2>1. Agree(x) /\ Page!Exists(x)' = Page!Exists(x) /\ UNCHANGED <<rail, cur, net>>
    BY <1>1, <1>5 DEF PageInv, Page!Exists, Page!page
  <2> QED BY <2>1 DEF Agree, Told, Deleted, Coming
<1> QED BY <1>2, <1>3, <1>4, <1>5 DEF PageInv

-----------------------------------------------------------------------------
(* The server.  Of a run that nothing excepts, an answer says what there is. *)

\* What becomes of a request that is answered.
Becomes(q, a, run2, ok2, runs2) ==
  /\ net' = (net \ {q}) \cup {a} /\ a \in Message
  /\ a.kind = q.kind /\ a.phase = "answered" /\ a.run = run2 /\ a.ok = ok2 /\ a.runs = runs2

LEMMA ReplyBecomes ==
  ASSUME PageInv, NEW q \in net, NEW run2 \in AllRuns \cup {None}, NEW ok2 \in BOOLEAN,
         NEW runs2 \in SUBSET AllRuns, Page!Reply(q, run2, ok2, runs2)
  PROVE  \E a : Becomes(q, a, run2, ok2, runs2)
<1> DEFINE a == [q EXCEPT !.phase = "answered", !.run = run2, !.ok = ok2, !.runs = runs2]
<1>1. q \in Message /\ net' = (net \ {q}) \cup {a}
  BY DEF PageInv, NetOK, Page!Reply
<1>2. /\ a \in Message /\ a.kind = q.kind /\ a.phase = "answered" /\ a.run = run2 /\ a.ok = ok2
      /\ a.runs = runs2
  BY <1>1 DEF Message
<1> HIDE DEF a
<1> QED BY <1>1, <1>2 DEF Becomes

\* An answer to what does not concern the existence of runs.
Handled(q) ==
  /\ q \in net /\ q.phase = "sent" /\ UNCHANGED Page!page /\ UNCHANGED spent

LEMMA ListKeeps == ASSUME PageInv, NEW q, Handled(q), Page!HandleList(q) PROVE PageInv'
<1>1. /\ q \in net /\ q.kind = "list" /\ UNCHANGED <<stored, drift, spent, rail, cur>>
      /\ UNCHANGED Page!page
      /\ q.run \in AllRuns \cup {None} /\ DOMAIN stored \in SUBSET AllRuns
      /\ Page!Reply(q, q.run, TRUE, DOMAIN stored)
  BY DEF Page!HandleList, Handled, PageInv, NetOK, Message, ServerOK, Page!page
<1>2. PICK a : Becomes(q, a, q.run, TRUE, DOMAIN stored)
  BY <1>1, ReplyBecomes
<1>3. ViewOK' /\ Streaming' /\ ServerOK' /\ Budget'
  BY <1>1, PageStays DEF PageInv, ServerOK, Budget
<1>4. NetOK'
  BY <1>1, <1>2 DEF Becomes, PageInv, NetOK
<1>5. ASSUME NEW x \in AllRuns \ drift'  PROVE Agree(x)'
  <2>1. Agree(x) /\ Page!Exists(x)' = Page!Exists(x)
    BY <1>1, <1>5 DEF PageInv, Page!Exists
  <2>2. Told(x)'
    BY <1>1, <1>2, <2>1 DEF Becomes, Agree, Told, Page!Exists
  <2>3. (Deleted(x) => Deleted(x)') /\ Coming(x)'
    BY <1>1, <1>2 DEF Becomes, Deleted, Coming
  <2> QED BY <1>1, <2>1, <2>2, <2>3 DEF Agree
<1> QED BY <1>3, <1>4, <1>5 DEF PageInv

\* While an answer that a change would make false is on its way, the change is excepted.
LEMMA NotBehind ==
  ASSUME NEW r, NEW d, r \notin d \cup Page!Behind(r)
  PROVE  \A q \in net : q.phase = "answered" => q.kind # "list" /\ ~ (q.kind = "new" /\ q.run = r)
BY DEF Page!Behind

LEMMA DeleteKeeps == ASSUME PageInv, NEW q, Handled(q), Page!HandleDelete(q) PROVE PageInv'
<1>1. /\ q \in net /\ q.kind = "delete" /\ UNCHANGED <<spent, rail, cur>> /\ q.phase = "sent"
      /\ UNCHANGED Page!page /\ q.run \in AllRuns
      /\ stored' = [r \in DOMAIN stored \ {q.run} |-> stored[r]]
      /\ Page!Reply(q, q.run, Page!Exists(q.run), {})
      /\ drift' = drift \cup IF Page!Exists(q.run) THEN Page!Behind(q.run) ELSE {}
  BY DEF Page!HandleDelete, Page!Remove, Handled, PageInv, NetOK, Page!page
<1>2. PICK a : Becomes(q, a, q.run, Page!Exists(q.run), {})
  <2>1. Page!Exists(q.run) \in BOOLEAN
    BY DEF Page!Exists
  <2> QED BY <1>1, <2>1, ReplyBecomes
<1>3. ViewOK' /\ Streaming' /\ ServerOK'
  BY <1>1, PageStays DEF PageInv, ServerOK
<1>4. NetOK'
  BY <1>1, <1>2 DEF Becomes, PageInv, NetOK
<1>5. Budget'
  BY <1>1 DEF PageInv, Budget, Page!Behind
<1>6. ASSUME NEW x \in AllRuns \ drift'  PROVE Agree(x)'
  <2>1. Agree(x)
    BY <1>1, <1>6 DEF PageInv
  <2>2. Page!Exists(x)' <=> Page!Exists(x) /\ x # q.run
    BY <1>1 DEF Page!Exists
  <2>3. /\ Deleted(x) => Deleted(x)'
        /\ Coming(x) => Coming(x)'
    BY <1>1, <1>2 DEF Becomes, Deleted, Coming
  <2>4. CASE x = q.run /\ Page!Exists(x)
    <3>1. \A m \in net : m.phase = "answered" => m.kind # "list" /\ ~ (m.kind = "new" /\ m.run = x)
      BY <1>1, <1>6, <2>4, NotBehind
    <3>2. Told(x)'
      BY <1>1, <1>2, <2>1, <2>2, <2>4, <3>1 DEF Becomes, Agree, Told
    <3>3. Deleted(x)'
      BY <1>1, <1>2, <2>4 DEF Becomes, Deleted
    <3> QED BY <1>1, <2>1, <2>2, <2>4, <3>2, <3>3 DEF Agree
  <2>5. CASE ~ (x = q.run /\ Page!Exists(x))
    <3>1. Page!Exists(x)' <=> Page!Exists(x)
      BY <2>2, <2>5
    <3>2. Told(x)'
      BY <1>1, <1>2, <2>1, <2>5, <3>1 DEF Becomes, Agree, Told
    <3> QED BY <1>1, <2>1, <2>3, <3>1, <3>2 DEF Agree
  <2> QED BY <2>4, <2>5
<1> QED BY <1>3, <1>4, <1>5, <1>6 DEF PageInv

LEMMA NewKeeps == ASSUME PageInv, NEW q, Handled(q), Page!HandleNew(q) PROVE PageInv'
<1>1. PICK r \in AllRuns \ (DOMAIN stored \cup rail \cup {x.run : x \in net} \cup drift) :
        /\ stored' = [x \in DOMAIN stored \cup {r} |-> IF x = r THEN 0 ELSE stored[x]]
        /\ Page!Reply(q, r, TRUE, {})
        /\ drift' = drift \cup Page!Behind(r)
  BY DEF Page!HandleNew, Page!fresh, Page!Create, Page!Own, AllRuns
<1>2. /\ q \in net /\ q.kind = "new" /\ UNCHANGED <<spent, rail, cur>> /\ UNCHANGED Page!page
      /\ q.phase = "sent" /\ \A m \in net : m.run # r
  BY <1>1 DEF Page!HandleNew, Handled, Page!page
<1>3. PICK a : Becomes(q, a, r, TRUE, {})
  BY <1>1, <1>2, ReplyBecomes
<1>4. ViewOK' /\ Streaming'
  BY <1>2, PageStays
<1>5. ServerOK'
  BY <1>1, PageAssumption DEF PageInv, ServerOK, Page!PageAssumption
<1>6. NetOK'
  BY <1>1, <1>2, <1>3 DEF Becomes, PageInv, NetOK
<1>7. Budget'
  BY <1>1, <1>2 DEF PageInv, Budget, Page!Behind
<1>8. ASSUME NEW x \in AllRuns \ drift'  PROVE Agree(x)'
  <2>1. Agree(x)
    BY <1>1, <1>8 DEF PageInv
  <2>2. Page!Exists(x)' <=> Page!Exists(x) \/ x = r
    BY <1>1 DEF Page!Exists
  <2>3. /\ Deleted(x) => Deleted(x)'
        /\ Coming(x) => Coming(x)'
    BY <1>2, <1>3 DEF Becomes, Deleted, Coming
  <2>4. CASE x = r
    <3>1. \A m \in net : m.phase = "answered" => m.kind # "list"
      BY <1>1, <1>8, <2>4, NotBehind
    <3>2. Told(x)'
      BY <1>2, <1>3, <2>2, <2>4, <3>1 DEF Becomes, Told
    <3>3. Coming(x)'
      BY <1>2, <1>3, <2>4 DEF Becomes, Coming
    <3> QED BY <1>2, <2>1, <2>2, <2>3, <2>4, <3>2, <3>3 DEF Agree
  <2>5. CASE x # r
    <3>1. Told(x)'
      BY <1>2, <1>3, <2>1, <2>2, <2>5 DEF Becomes, Agree, Told
    <3> QED BY <1>2, <2>1, <2>2, <2>3, <2>5, <3>1 DEF Agree
  <2> QED BY <2>4, <2>5
<1> QED BY <1>4, <1>5, <1>6, <1>7, <1>8 DEF PageInv

LEMMA ChangeKeeps == ASSUME PageInv, NEW q, Handled(q), Page!HandleChange(q) PROVE PageInv'
<1>1. /\ q \in net /\ q.kind \in {"rename", "upload"} /\ UNCHANGED <<drift, spent, rail, cur>>
      /\ UNCHANGED Page!page /\ q.run \in AllRuns /\ q.phase = "sent"
      /\ Page!Reply(q, q.run, Page!Exists(q.run), {})
      /\ DOMAIN stored' = DOMAIN stored
      /\ \A r \in DOMAIN stored :
           \/ stored'[r] = stored[r]
           \/ stored[r] < MaxCuts /\ stored'[r] = stored[r] + 1
  BY DEF Page!HandleChange, Handled, PageInv, NetOK, Page!page
<1>2. PICK a : Becomes(q, a, q.run, Page!Exists(q.run), {})
  <2>1. Page!Exists(q.run) \in BOOLEAN
    BY DEF Page!Exists
  <2> QED BY <1>1, <2>1, ReplyBecomes
<1>3. ViewOK' /\ Streaming' /\ Budget'
  BY <1>1, PageStays DEF PageInv, Budget
<1>4. ServerOK'
  BY <1>1, PageAssumption DEF PageInv, ServerOK, Page!PageAssumption
<1>5. NetOK'
  BY <1>1, <1>2 DEF Becomes, PageInv, NetOK
<1>6. ASSUME NEW x \in AllRuns \ drift'  PROVE Agree(x)'
  <2>1. Agree(x) /\ Page!Exists(x)' = Page!Exists(x)
    BY <1>1, <1>6 DEF PageInv, Page!Exists
  <2>2. Told(x)'
    BY <1>1, <1>2, <2>1 DEF Becomes, Agree, Told
  <2>3. (Deleted(x) => Deleted(x)') /\ (Coming(x) => Coming(x)')
    BY <1>1, <1>2 DEF Becomes, Deleted, Coming
  <2> QED BY <1>1, <2>1, <2>2, <2>3 DEF Agree
<1> QED BY <1>3, <1>4, <1>5, <1>6 DEF PageInv

\* An answer that is an error tells the page nothing: it is enough that what the server
\* has of a run did not change, or that the run is excepted.
LEMMA ErrorAgrees ==
  ASSUME PageInv, NEW q, Handled(q), q.kind # "list", Page!Reply(q, q.run, FALSE, {}),
         UNCHANGED <<rail, cur>>, drift \subseteq drift',
         NEW x \in AllRuns \ drift', Page!Exists(x)' = Page!Exists(x)
  PROVE  Agree(x)'
<1>1. q \in net /\ q.phase = "sent" /\ q.run \in AllRuns \cup {None} /\ Agree(x)
  BY DEF Handled, PageInv, NetOK, Message
<1>2. PICK a : Becomes(q, a, q.run, FALSE, {})
  BY <1>1, ReplyBecomes
<1>3. Told(x)'
  BY <1>1, <1>2 DEF Becomes, Agree, Told
<1>4. (Deleted(x) => Deleted(x)') /\ (Coming(x) => Coming(x)')
  BY <1>1, <1>2 DEF Becomes, Deleted, Coming
<1> QED BY <1>1, <1>3, <1>4 DEF Agree

\* A run that was created, or is gone, though its request is answered by an error, is
\* excepted; cuts that were added or removed are not what the list is about.
LEMMA ErrorKeeps == ASSUME PageInv, NEW q, Handled(q), Page!HandleError(q) PROVE PageInv'
<1>1. /\ q \in net /\ q.kind # "list" /\ UNCHANGED <<spent, rail, cur>> /\ UNCHANGED Page!page
      /\ q.run \in AllRuns \cup {None} /\ Page!Reply(q, q.run, FALSE, {})
  BY DEF Page!HandleError, Handled, PageInv, NetOK, Message, Page!page
<1>2. PICK a : Becomes(q, a, q.run, FALSE, {})
  BY <1>1, ReplyBecomes
<1>3. ViewOK' /\ Streaming'
  BY <1>1, PageStays
<1>4. NetOK'
  BY <1>1, <1>2 DEF Becomes, PageInv, NetOK
<1>5. MaxCuts \in Nat /\ 0 \in 0..MaxCuts
  BY PageAssumption DEF Page!PageAssumption
<1>6. /\ ServerOK' /\ drift \subseteq drift' /\ drift' \subseteq AllRuns
      /\ \A x \in AllRuns \ drift' : Page!Exists(x)' = Page!Exists(x)
  <2>1. CASE UNCHANGED <<stored, drift>>
    BY <2>1 DEF PageInv, ServerOK, Budget, Page!Exists
  <2>2. CASE \E r \in Page!fresh : Page!Create(r) /\ drift' = drift \cup {r}
    <3>1. PICK r \in AllRuns :
            /\ stored' = [x \in DOMAIN stored \cup {r} |-> IF x = r THEN 0 ELSE stored[x]]
            /\ drift' = drift \cup {r}
      BY <2>2 DEF Page!fresh, Page!Create, Page!Own, AllRuns
    <3> QED BY <1>5, <3>1 DEF PageInv, ServerOK, Budget, Page!Exists
  <2>3. CASE Page!Exists(q.run) /\ Page!Remove(q.run) /\ drift' = drift \cup {q.run}
    BY <2>3 DEF PageInv, ServerOK, Budget, Page!Exists, Page!Remove
  <2>4. CASE \E n \in 0..MaxCuts : stored' = [stored EXCEPT ![q.run] = n] /\ UNCHANGED drift
    <3>1. PICK n \in 0..MaxCuts : stored' = [stored EXCEPT ![q.run] = n] /\ UNCHANGED drift
      BY <2>4
    <3> QED BY <3>1 DEF PageInv, ServerOK, Budget, Page!Exists
  <2> QED BY <2>1, <2>2, <2>3, <2>4 DEF Page!HandleError
<1>7. Budget'
  BY <1>1, <1>6 DEF PageInv, Budget
<1>8. ASSUME NEW x \in AllRuns \ drift'  PROVE Agree(x)'
  BY <1>1, <1>6, <1>8, ErrorAgrees
<1> QED BY <1>3, <1>4, <1>6, <1>7, <1>8 DEF PageInv

-----------------------------------------------------------------------------
(* Answers that arrive, or do not. *)

\* A message less.
LEMMA OneLess ==
  ASSUME PageInv, NEW q \in net, net' = net \ {q}
  PROVE  /\ NetOK'
         /\ \A x : ~ (q.kind = "delete" /\ q.run = x) /\ Deleted(x) => Deleted(x)'
         /\ \A x : q.kind \notin {"list", "new"} /\ Coming(x) => Coming(x)'
         /\ \A x : q.kind = "new" /\ (q.run # x \/ q.phase = "sent") /\ Coming(x) => Coming(x)'
<1>1. NetOK'
  BY DEF PageInv, NetOK
<1> QED BY <1>1 DEF Deleted, Coming

\* The list of the page is drawn anew: what it needs to agree.
LEMMA RenderAgrees ==
  ASSUME PageInv, UNCHANGED <<stored, drift, spent>>, NEW q \in net, net' = net \ {q},
         ViewOK', Streaming',
         \A x \in AllRuns \ drift : Agree(x) =>
           /\ x \in rail' => Page!Exists(x) \/ Deleted(x)'
           /\ Page!Exists(x) => x \in rail' \/ Coming(x)'
           /\ cur' = x => x \in rail' \/ Deleted(x)'
  PROVE  PageInv'
<1>1. ServerOK' /\ NetOK' /\ Budget'
  BY OneLess DEF PageInv, ServerOK, Budget
<1>2. ASSUME NEW x \in AllRuns \ drift'  PROVE Agree(x)'
  <2>1. Agree(x) /\ Page!Exists(x)' = Page!Exists(x)
    BY <1>2 DEF PageInv, Page!Exists
  <2>2. Told(x)'
    BY <2>1 DEF Agree, Told
  <2> QED BY <1>2, <2>1, <2>2 DEF Agree
<1> QED BY <1>1, <1>2 DEF PageInv

Delivered(q) == q \in net /\ UNCHANGED <<stored, drift, spent>>

LEMMA LoadRailKeeps == ASSUME PageInv, NEW q, Delivered(q), Page!LoadRail(q) PROVE PageInv'
<1>1. /\ q \in net /\ q.kind = "list" /\ q.phase = "answered" /\ net' = net \ {q}
      /\ Page!RenderRail(q.runs, cur, q.run) /\ q.runs \in SUBSET AllRuns
      /\ cur \in AllRuns \cup {None} /\ UNCHANGED <<stored, drift, spent>>
  BY DEF Page!LoadRail, Page!Arrives, Delivered, PageInv, NetOK, Message, ViewOK
<1>2. ViewOK' /\ Streaming' /\ rail' = q.runs /\ cur' \in q.runs \cup {cur}
  BY <1>1, RenderKeeps
<1>3. ASSUME NEW x \in AllRuns \ drift, Agree(x)
      PROVE  /\ x \in rail' => Page!Exists(x) \/ Deleted(x)'
             /\ Page!Exists(x) => x \in rail' \/ Coming(x)'
             /\ cur' = x => x \in rail' \/ Deleted(x)'
  <2>1. x \in q.runs <=> Page!Exists(x)
    BY <1>1, <1>3 DEF Agree, Told
  <2>2. Deleted(x) => Deleted(x)'
    BY <1>1, OneLess
  <2> QED BY <1>2, <1>3, <2>1, <2>2 DEF Agree
<1> QED BY <1>1, <1>2, <1>3, RenderAgrees

LEMMA deleteRunKeeps == ASSUME PageInv, NEW q, Delivered(q), Page!deleteRun(q) PROVE PageInv'
<1> DEFINE now == IF cur = q.run THEN None ELSE cur
<1>1. /\ q \in net /\ q.kind = "delete" /\ q.phase = "answered" /\ q.ok /\ net' = net \ {q}
      /\ Page!RenderRail(rail \ {q.run}, now, None) /\ rail \ {q.run} \in SUBSET AllRuns
      /\ now \in AllRuns \cup {None} /\ UNCHANGED <<stored, drift, spent>> /\ q.run \in AllRuns
  BY DEF Page!deleteRun, Page!Arrives, Delivered, PageInv, NetOK, ViewOK
<1>2. now = None \/ (now = cur /\ cur # q.run)
  OBVIOUS
<1> HIDE DEF now
<1>3. ViewOK' /\ Streaming' /\ rail' = rail \ {q.run} /\ cur' \in (rail \ {q.run}) \cup {now}
  BY <1>1, RenderKeeps
<1>4. ASSUME NEW x \in AllRuns \ drift, Agree(x)
      PROVE  /\ x \in rail' => Page!Exists(x) \/ Deleted(x)'
             /\ Page!Exists(x) => x \in rail' \/ Coming(x)'
             /\ cur' = x => x \in rail' \/ Deleted(x)'
  <2>1. x = q.run => ~ Page!Exists(x)
    BY <1>1, <1>4 DEF Agree, Told
  <2>2. (x # q.run /\ Deleted(x) => Deleted(x)') /\ (Coming(x) => Coming(x)')
    BY <1>1, OneLess
  <2>3. x # None
    BY <1>4, NoneIsNoRun
  <2> QED BY <1>2, <1>3, <1>4, <2>1, <2>2, <2>3 DEF Agree
<1> QED BY <1>1, <1>3, <1>4, RenderAgrees

LEMMA newToolKeeps == ASSUME PageInv, NEW q, Delivered(q), Page!newTool(q) PROVE PageInv'
<1>1. /\ q \in net /\ q.kind = "new" /\ q.phase = "answered" /\ q.ok /\ net' = net \ {q}
      /\ Page!RenderRail(rail \cup {q.run}, cur, q.run) /\ rail \cup {q.run} \in SUBSET AllRuns
      /\ cur \in AllRuns \cup {None} /\ UNCHANGED <<stored, drift, spent>> /\ q.run \in AllRuns
  BY DEF Page!newTool, Page!Arrives, Delivered, PageInv, NetOK, ViewOK
<1>2. ViewOK' /\ Streaming' /\ rail' = rail \cup {q.run} /\ cur' \in rail \cup {q.run} \cup {cur}
  BY <1>1, RenderKeeps
<1>3. ASSUME NEW x \in AllRuns \ drift, Agree(x)
      PROVE  /\ x \in rail' => Page!Exists(x) \/ Deleted(x)'
             /\ Page!Exists(x) => x \in rail' \/ Coming(x)'
             /\ cur' = x => x \in rail' \/ Deleted(x)'
  <2>1. x = q.run => Page!Exists(x)
    BY <1>1, <1>3 DEF Agree, Told
  <2>2. (Deleted(x) => Deleted(x)') /\ (x # q.run /\ Coming(x) => Coming(x)')
    BY <1>1, OneLess
  <2> QED BY <1>2, <1>3, <2>1, <2>2 DEF Agree
<1> QED BY <1>1, <1>2, <1>3, RenderAgrees

LEMMA renameRunKeeps == ASSUME PageInv, NEW q, Delivered(q), Page!renameRun(q) PROVE PageInv'
<1>1. /\ q \in net /\ q.kind = "rename" /\ net' = net \ {q}
      /\ Page!RenderRail(rail, cur, cur) /\ rail \in SUBSET AllRuns
      /\ cur \in AllRuns \cup {None} /\ UNCHANGED <<stored, drift, spent>>
  BY DEF Page!renameRun, Page!Arrives, Delivered, PageInv, ViewOK
<1>2. ViewOK' /\ Streaming' /\ rail' = rail /\ cur' \in rail \cup {cur}
  BY <1>1, RenderKeeps
<1>3. \A x : (Deleted(x) => Deleted(x)') /\ (Coming(x) => Coming(x)')
  BY <1>1, OneLess
<1> QED BY <1>1, <1>2, <1>3, RenderAgrees DEF Agree

LEMMA FailedKeeps == ASSUME PageInv, NEW q, Delivered(q), Page!Failed(q) PROVE PageInv'
<1>1. /\ q \in net /\ q.phase = "answered" /\ ~q.ok /\ net' = net \ {q} /\ UNCHANGED <<rail, cur>>
      /\ UNCHANGED Page!page /\ UNCHANGED <<stored, drift, spent>>
  BY DEF Page!Failed, Page!Arrives, Delivered, Page!page
<1>2. q.kind # "list"
  BY <1>1 DEF PageInv, NetOK
<1>3. ViewOK' /\ Streaming'
  BY <1>1, PageStays
<1>4. \A x : (Deleted(x) => Deleted(x)') /\ (Coming(x) => Coming(x)')
  BY <1>1, <1>2 DEF Deleted, Coming
<1> QED BY <1>1, <1>3, <1>4, RenderAgrees DEF Agree

LEMMA uploadedKeeps == ASSUME PageInv, NEW q, Delivered(q), Page!uploaded(q) PROVE PageInv'
<1> DEFINE m == Page!Sent("list", q.run, q.id)
<1>1. /\ q \in net /\ q.kind = "upload" /\ net' = (net \ {q}) \cup {m} /\ UNCHANGED <<rail, cur>>
      /\ UNCHANGED Page!page /\ UNCHANGED <<stored, drift, spent>>
      /\ q.id \in Nat /\ q.run \in AllRuns \cup {None}
  BY DEF Page!uploaded, Delivered, Page!page, PageInv, NetOK, Message
<1>2. m \in Message /\ m.kind = "list" /\ m.phase = "sent"
  BY <1>1, SentMessage DEF Kinds
<1> HIDE DEF m
<1>3. ViewOK' /\ Streaming' /\ ServerOK' /\ Budget'
  BY <1>1, PageStays DEF PageInv, ServerOK, Budget
<1>4. NetOK'
  BY <1>1, <1>2 DEF PageInv, NetOK
<1>5. ASSUME NEW x \in AllRuns \ drift'  PROVE Agree(x)'
  <2>1. Agree(x) /\ Page!Exists(x)' = Page!Exists(x)
    BY <1>1, <1>5 DEF PageInv, Page!Exists
  <2>2. Told(x)'
    BY <1>1, <1>2, <2>1 DEF Agree, Told
  <2>3. (Deleted(x) => Deleted(x)') /\ (Coming(x) => Coming(x)')
    BY <1>1, <1>2 DEF Deleted, Coming
  <2> QED BY <1>1, <2>1, <2>2, <2>3 DEF Agree
<1> QED BY <1>3, <1>4, <1>5 DEF PageInv

LEMMA LoseKeeps == ASSUME PageInv, NEW q \in net, Page!Lose(q) PROVE PageInv'
<1>1. /\ net' = net \ {q} /\ UNCHANGED <<stored, rail, cur>> /\ UNCHANGED Page!page
      /\ spent' = [spent EXCEPT !["breaks"] = @ + 1]
      /\ drift' = drift \cup (IF q.kind = "list" THEN AllRuns
                              ELSE IF q.phase = "answered" THEN {q.run} \cap AllRuns
                              ELSE {})
  BY DEF Page!Lose, Page!Count, Page!page, AllRuns
<1>2. ViewOK' /\ Streaming' /\ ServerOK' /\ NetOK'
  BY <1>1, PageStays, OneLess DEF PageInv, ServerOK
<1>4. Budget'
  BY <1>1, SpentOthers DEF PageInv, Budget
<1>5. ASSUME NEW x \in AllRuns \ drift'  PROVE Agree(x)'
  <2>1. Agree(x) /\ Page!Exists(x)' = Page!Exists(x)
    BY <1>1, <1>5 DEF PageInv, Page!Exists
  <2>2. q.kind # "list" /\ (q.phase = "answered" => q.run # x)
    BY <1>1, <1>5
  <2>3. (Deleted(x) => Deleted(x)') /\ (Coming(x) => Coming(x)')
    BY <1>1, <2>2 DEF Deleted, Coming
  <2>4. Told(x)'
    BY <1>1, <2>1 DEF Agree, Told
  <2> QED BY <1>1, <2>1, <2>3, <2>4 DEF Agree
<1> QED BY <1>2, <1>4, <1>5 DEF PageInv

-----------------------------------------------------------------------------
(* Events.  They come from the one stream there is. *)

\* What no event touches.
Quiet == UNCHANGED <<stored, net, rail, cur, shown, options, model, drift>>

LEMMA EventLeaves ==
  ASSUME PageInv, Quiet, Streaming', live' \in BOOLEAN, spent' \in Counters  PROVE PageInv'
<1>1. ViewOK'
  BY DEF Quiet, PageInv, ViewOK
<1> QED BY <1>1, ViewMoves DEF Quiet

LEMMA MetaKeeps ==
  ASSUME PageInv, NEW s \in streams, Quiet, Page!Meta(s)  PROVE PageInv'
<1> DEFINE n == stored[s.run]  t == [s EXCEPT !.open = TRUE, !.n = n]
<1>1. /\ ~s.open /\ streams' = (streams \ {s}) \cup {t} /\ total' = n
      /\ UNCHANGED <<es, live, series, spent>> /\ n \in 0..MaxCuts /\ MaxCuts \in Nat
  BY PageAssumption DEF Page!Meta, Page!Fits, Page!Exists, PageInv, ServerOK, Page!PageAssumption
<1> HIDE DEF n
<1>2. /\ s \in Page!Source /\ s.id = es /\ s.next = Len(series) /\ s.next = 0
      /\ streams = {s} /\ (shown => s.run = cur /\ s.model = model)
      /\ series \in Seq(Point) /\ es \in Nat
  BY <1>1 DEF PageInv, Streaming
<1>3. /\ t \in Page!Source /\ t.id = s.id /\ t.next = s.next /\ t.run = s.run /\ t.model = s.model
      /\ t.open /\ t.n = n
  <2>1. n \in Nat
    BY <1>1
  <2> QED BY <1>2, <2>1 DEF Page!Source
<1> HIDE DEF t
<1>4. streams' = {t}
  BY <1>1, <1>2
<1>5. Streaming'
  BY <1>1, <1>2, <1>3, <1>4 DEF Quiet, PageInv, Streaming
<1>6. live' \in BOOLEAN /\ spent' \in Counters
  BY <1>1 DEF PageInv, ViewOK, Budget
<1> QED BY <1>5, <1>6, EventLeaves

LEMMA PushCutKeeps ==
  ASSUME PageInv, NEW s \in streams, Quiet, Page!PushCut(s)  PROVE PageInv'
<1> DEFINE k == s.next + 1  t == [s EXCEPT !.next = k]
           pt == [run |-> s.run, model |-> s.model, cut |-> k]
<1>1. /\ s.open /\ s.next < s.n /\ streams' = (streams \ {s}) \cup {t}
      /\ series' = Append(series, pt) /\ UNCHANGED <<es, live, total, spent>>
  BY DEF Page!PushCut
<1>2. /\ s \in Page!Source /\ s.id = es /\ s.next = Len(series) /\ s.n = total
      /\ streams = {s} /\ (shown => s.run = cur /\ s.model = model)
      /\ series \in Seq(Point) /\ es \in Nat /\ total \in 0..MaxCuts
  BY <1>1 DEF PageInv, Streaming
<1>3. /\ k \in Nat /\ k = Len(series) + 1 /\ k <= total
      /\ s.run \in AllRuns /\ s.model \in AllRuns \cup {None}
  BY <1>1, <1>2, PageAssumption DEF Page!Source, AllRuns, Page!PageAssumption
<1> HIDE DEF k
<1>4. /\ t \in Page!Source /\ t.id = s.id /\ t.next = k /\ t.run = s.run /\ t.model = s.model
      /\ t.open /\ t.n = s.n
  BY <1>1, <1>2, <1>3 DEF Page!Source
<1>5. pt \in Point
  BY <1>3 DEF Point
<1> HIDE DEF t
<1>6. streams' = {t}
  BY <1>1, <1>2
<1>7. shown => pt = [run |-> cur, model |-> model, cut |-> k]
  BY <1>2
<1> HIDE DEF pt
<1>8. /\ series' \in Seq(Point) /\ Len(series') = k /\ series'[k] = pt
      /\ \A i \in 1..Len(series) : series'[i] = series[i]
  BY <1>1, <1>2, <1>3, <1>5
<1>9. shown => \A i \in 1..Len(series') : series'[i] = [run |-> cur, model |-> model, cut |-> i]
  <2> SUFFICES ASSUME shown, NEW i \in 1..k
               PROVE  series'[i] = [run |-> cur, model |-> model, cut |-> i]
    BY <1>8
  <2>1. CASE i = k
    BY <1>7, <1>8, <2>1
  <2>2. CASE i # k
    <3>1. i \in 1..Len(series)
      BY <1>2, <1>3, <2>2
    <3> QED BY <1>8, <3>1 DEF PageInv, Streaming
  <2> QED BY <2>1, <2>2
<1>10. Streaming'
  BY <1>1, <1>2, <1>3, <1>4, <1>6, <1>8, <1>9 DEF Quiet, PageInv, Streaming
<1>11. live' \in BOOLEAN /\ spent' \in Counters
  BY <1>1 DEF PageInv, ViewOK, Budget
<1> QED BY <1>10, <1>11, EventLeaves

LEMMA StreamEnds ==
  ASSUME PageInv, NEW s \in streams, Quiet, Page!Done(s) \/ Page!OnError(s)  PROVE PageInv'
<1>1. Page!Closed(es) = {}
  BY DEF PageInv, Streaming, Page!Closed
<1>2. /\ streams' = {} /\ live' = FALSE /\ UNCHANGED <<es, series, total>>
      /\ UNCHANGED spent \/ spent' = [spent EXCEPT !["breaks"] = @ + 1]
  BY <1>1 DEF Page!Done, Page!OnError, Page!Count
<1>3. Streaming'
  BY <1>2 DEF Quiet, PageInv, Streaming
<1>4. spent' \in Counters
  BY <1>2, SpentOthers DEF PageInv, Budget
<1> QED BY <1>2, <1>3, <1>4, EventLeaves

LEMMA PageNext == ASSUME PageInv, Page!Next PROVE PageInv'
<1>1. CASE \E r \in Runs \cup Demo : Page!Click(r) \/ Page!Elsewhere(r)
  BY <1>1, ClickKeeps, ElsewhereKeeps
<1>2. CASE \E m \in Runs \cup Demo \cup {None} : Page!Choose(m)
  BY <1>2, ChooseKeeps
<1>3. CASE \E kind \in {"delete", "new", "rename", "upload"}, r \in Runs \cup Demo \cup {None} :
             Page!Ask(kind, r)
  BY <1>3, AskKeeps DEF Kinds, AllRuns
<1>4. ASSUME NEW q \in net, Page!Handle(q)  PROVE PageInv'
  <2>1. Handled(q)
    BY <1>4 DEF Page!Handle, Handled
  <2> QED BY <1>4, <2>1, ListKeeps, DeleteKeeps, NewKeeps, ChangeKeeps,
             ErrorKeeps DEF Page!Handle
<1>5. ASSUME NEW q \in net, Page!Deliver(q)  PROVE PageInv'
  <2>1. Delivered(q)
    BY <1>5 DEF Page!Deliver, Delivered
  <2> QED BY <1>5, <2>1, LoadRailKeeps, deleteRunKeeps, newToolKeeps, renameRunKeeps,
             uploadedKeeps, FailedKeeps DEF Page!Deliver
<1>6. ASSUME NEW q \in net, Page!Lose(q)  PROVE PageInv'
  BY <1>6, LoseKeeps
<1>7. ASSUME NEW s \in streams, Page!Event(s)  PROVE PageInv'
  <2>1. Quiet
    BY <1>7 DEF Page!Event, Quiet
  <2> QED BY <1>7, <2>1, MetaKeeps, PushCutKeeps, StreamEnds DEF Page!Event
<1> QED BY <1>1, <1>2, <1>3, <1>4, <1>5, <1>6, <1>7 DEF Page!Next

LEMMA PageStutter == ASSUME PageInv, UNCHANGED pageOnly PROVE PageInv'
<1>1. UNCHANGED <<stored, net, rail, cur, shown, options, model, streams, es, live, series, total,
                  drift, spent>>
  BY DEF pageOnly
<1>2. Streaming'
  BY <1>1 DEF PageInv, Streaming
<1> QED BY <1>1, <1>2, EventLeaves DEF Quiet, PageInv, ViewOK, Budget

LEMMA PageInvHolds == ClientsSpec => [](part = "page" => PageInv)
<1> DEFINE Inv == part = "page" => PageInv
<1>1. ClientsInit => Inv
  BY PageInit DEF ClientsInit
<1>2. ASSUME Inv, [ClientsNext]_clientVars PROVE Inv'
  <2>1. CASE UNCHANGED <<part, pageOnly>>
    BY <1>2, <2>1, PageStutter
  <2>2. CASE part = "page" /\ Page!Next
    BY <1>2, <2>2, PageNext
  <2>3. CASE UNCHANGED part /\ part # "page"
    BY <2>3
  <2> QED BY <1>2, <2>1, <2>2, <2>3 DEF ClientsNext, clientVars
<1> QED BY <1>1, <1>2, PTL DEF ClientsSpec

\* For any runs, cuts, clicks, losses and streams that break: what the page draws is of the
\* run and the model that are selected, each cut once and in order.
THEOREM SeriesIsOfSelection == ClientsSpec => []SeriesOfSelection
<1>1. (part = "page" => PageInv) => SeriesOfSelection
  BY PageGives DEF SeriesOfSelection
<1> QED BY <1>1, PageInvHolds, PTL

\* And the list and the selection agree with the server when nothing is under way and
\* nothing excepts the run, in whatever order answers arrive.
THEOREM RailIsRight == ClientsSpec => []RailAgrees
<1>1. (part = "page" => PageInv) => RailAgrees
  BY PageGives DEF RailAgrees
<1> QED BY <1>1, PageInvHolds, PTL
=============================================================================
