------------------------------- MODULE Clients -------------------------------
(***************************************************************************)
(* Those who use the server or its stores from outside: the deploy step    *)
(* that seeds Postgres, the scripts that fill the local store, the export  *)
(* of the demo data, the load test and the page (SeedPostgres,             *)
(* ReplayDriver, DemoExport, LoadTest, Dashboard).  Each works on data of  *)
(* its own: part says which one a behaviour is about.  The seeding waits   *)
(* where it begins while another runs.  The others share phase, tasks and  *)
(* deaths (their pc, todo and crashes); what one does not use is 0.        *)
(***************************************************************************)
EXTENDS SeedPostgres, Sequences

CONSTANTS MinPairs, Stub, MaxIndex, MaxKills, Levels, CutsPerRun, MaxTimeouts, MaxFaults,
          MaxSweeps, Demo, MaxCuts, MaxClicks, MaxOutside, MaxBreaks

VARIABLES
  part, phase, tasks, deaths,
  hasMachine, hasRun, blobs, cutRows, featureRows, labelRows,         \* ReplayDriver
  rul, twin, script, last,
  src, keep, problems, work, dst,                                     \* DemoExport
  account, made, job, index, nCuts, nFeatures, level,                 \* LoadTest
  posted, ok, errors, timeouts, faults, sweeps,
  stored, net, rail, cur, shown, options, model, streams, es, live,   \* Dashboard
  series, total, drift, spent

Replay ==
  INSTANCE ReplayDriver WITH
    machine <- hasMachine, run <- hasRun, cuts <- cutRows, features <- featureRows,
    labels <- labelRows, pc <- phase, todo <- tasks, crashes <- deaths
Export ==
  INSTANCE DemoExport WITH MaxCrashes <- MaxKills, pc <- phase, todo <- tasks, crashes <- deaths
Load   == INSTANCE LoadTest WITH N <- CutsPerRun, runs <- made, pc <- phase, todo <- tasks
Page   == INSTANCE Dashboard WITH Run <- Runs \cup Demo

ASSUME DriverAssumption == Replay!DriverAssumption
ASSUME ExportAssumption == Export!ExportAssumption
ASSUME LoadAssumption   == Load!LoadAssumption
ASSUME PageAssumption   == Page!PageAssumption

replayOnly ==
  <<hasMachine, hasRun, blobs, cutRows, featureRows, labelRows, rul, twin, script, last>>
exportOnly == <<src, keep, problems, work, dst>>
loadOnly   == <<account, made, job, index, nCuts, nFeatures, level, posted, ok, errors, timeouts,
                faults, sweeps>>
pageOnly   == <<stored, net, rail, cur, shown, options, model, streams, es, live, series,
                total, drift, spent>>

NoReplay ==
  /\ hasMachine = 0 /\ hasRun = 0 /\ blobs = 0 /\ cutRows = 0 /\ featureRows = 0
  /\ labelRows = 0 /\ rul = 0 /\ twin = 0 /\ script = 0 /\ last = 0
NoExport == src = 0 /\ keep = 0 /\ problems = 0 /\ work = 0 /\ dst = 0
NoLoad ==
  /\ account = 0 /\ made = 0 /\ job = 0 /\ index = 0 /\ nCuts = 0 /\ nFeatures = 0 /\ level = 0
  /\ posted = 0 /\ ok = 0 /\ errors = 0 /\ timeouts = 0 /\ faults = 0 /\ sweeps = 0
NoPage ==
  /\ stored = 0 /\ net = 0 /\ rail = 0 /\ cur = 0 /\ shown = 0 /\ options = 0 /\ model = 0
  /\ streams = 0 /\ es = 0 /\ live = 0 /\ series = 0 /\ total = 0 /\ drift = 0 /\ spent = 0
NoScript == phase = 0 /\ tasks = 0 /\ deaths = 0

ClientsInit ==
  /\ Init
  /\ \/ part = "seed" /\ NoScript /\ NoReplay /\ NoExport /\ NoLoad /\ NoPage
     \/ part = "replay" /\ Replay!Init /\ NoExport /\ NoLoad /\ NoPage
     \/ part = "export" /\ Export!Init /\ NoReplay /\ NoLoad /\ NoPage
     \/ part = "load" /\ Load!Init /\ deaths = 0 /\ NoReplay /\ NoExport /\ NoPage
     \/ part = "page" /\ Page!Init /\ NoScript /\ NoReplay /\ NoExport /\ NoLoad

scripts == <<phase, tasks, deaths>>

ClientsNext ==
  /\ UNCHANGED part
  /\ \/ part = "seed" /\ Next /\ UNCHANGED <<scripts, replayOnly, exportOnly, loadOnly, pageOnly>>
     \/ part = "replay" /\ Replay!Next /\ UNCHANGED <<vars, exportOnly, loadOnly, pageOnly>>
     \/ part = "export" /\ Export!Next /\ UNCHANGED <<vars, replayOnly, loadOnly, pageOnly>>
     \/ /\ part = "load" /\ Load!Next
        /\ UNCHANGED <<deaths, vars, replayOnly, exportOnly, pageOnly>>
     \/ /\ part = "page" /\ Page!Next
        /\ UNCHANGED <<scripts, vars, replayOnly, exportOnly, loadOnly>>

clientVars == <<part, scripts, vars, replayOnly, exportOnly, loadOnly, pageOnly>>

ClientsSpec == ClientsInit /\ [][ClientsNext]_clientVars

\* Scripts that die and are run again (replay.py, run_filter.py, validate.py,
\* load_labels.py): no key refuses an insert, and a pass that ended is whole.
DriverSafe == part = "replay" => Replay!DriverSafe

\* The copy that is deployed (export_demo_db.py), also when an export died before.
ExportSafe == part = "export" => Export!ExportSafe

\* The load test (loadtest.py): its report agrees with the server, and posts that were
\* given up get in no other's way.
LoadSafe == part = "load" => Load!LoadSafe

\* The page (index.html): what is drawn is of the run and the model selected.
SeriesOfSelection == part = "page" => Page!SeriesOfSelection

\* The page: the list of runs and the selection agree with the server.
RailAgrees == part = "page" => Page!RailAgrees
=============================================================================
