---------------------------- MODULE ReplayDriver ----------------------------
(***************************************************************************)
(* The scripts that fill and score the local store of one record: the      *)
(* replay driver (ingest/replay.py, with the stub twin), load_labels,      *)
(* run_filter, validate and replay_http.  One script runs at a time; each  *)
(* statement commits, and the process may die between any two.  The user   *)
(* runs scripts again, in any order.                                       *)
(*                                                                         *)
(* Inserts that a key refuses would end the script; InsertsAccepted says   *)
(* that none is refused, so that there is no such action.                  *)
(***************************************************************************)
EXTENDS Naturals, FiniteSets

CONSTANTS
  N,          \* how many cut files, and labels, the record has
  MinPairs,   \* how many cuts with both a fit needs (10)
  MaxCrashes, \* how often a script dies
  Stub        \* the posterior behind a prediction of the stub twin

DriverAssumption == N \in Nat \ {0} /\ MinPairs \in Nat /\ MaxCrashes \in Nat

VARIABLES
  machine, run,            \* whether the rows exist
  blobs, cuts, features,   \* the cut indices that have one
  labels, rul,             \* rul rows
  twin,                    \* the cuts that the stored posterior has absorbed
  script, pc, todo,        \* the script that runs, if any, and the cuts it has left
  last,                    \* the script that ended last, unless one began since
  crashes

db   == <<machine, run, blobs, cuts, features, labels, rul, twin>>
vars == <<db, script, pc, todo, last, crashes>>

Cuts    == 1..N
Scripts == {"run_replay", "load_labels", "run_filter", "validate", "replay_http"}
RulRow  == [cut : Cuts, post : (SUBSET Cuts) \cup {Stub}]

Init ==
  /\ machine = FALSE /\ run = FALSE
  /\ blobs = {} /\ cuts = {} /\ features = {} /\ labels = {} /\ rul = {} /\ twin = {}
  /\ script = "none" /\ pc = "idle" /\ todo = {} /\ last = "none" /\ crashes = 0

Goto(phase) == pc' = phase /\ UNCHANGED <<script, last, crashes>>
End(s)      == script' = "none" /\ pc' = "idle" /\ todo' = {} /\ last' = s
next        == CHOOSE i \in todo : \A k \in todo : i <= k

Files(n) == 1..n     \* iter_cut_files(folder)[:limit]

Begin(s) ==
  /\ script = "none"
  /\ script' = s /\ last' = "none"
  /\ pc' = CASE s \in {"run_replay", "load_labels"} -> "machine"
             [] s \in {"run_filter", "validate"} -> "build" [] OTHER -> "post"
  /\ \E n \in Cuts :   \* --limit
       todo' = IF s \in {"run_replay", "replay_http"} THEN Files(n) ELSE {}
  /\ UNCHANGED <<db, crashes>>

Crash ==
  /\ script # "none" /\ crashes < MaxCrashes
  /\ crashes' = crashes + 1
  /\ End("none")
  /\ UNCHANGED db

Setup ==
  \/ /\ pc = "machine" /\ machine' = TRUE /\ Goto("run") /\ UNCHANGED run
  \/ /\ pc = "run" /\ run' = TRUE /\ UNCHANGED machine
     /\ Goto(IF script = "run_replay" THEN "next" ELSE "existing")

(***************************************************************************)
(* replay_run and IngestHandler.ingest_cut.                                *)
(***************************************************************************)
\* The whole feature row is looked up, so that a stranded cut is tried again.
BugIngested(i) == i \in features
Ingested(i) == i \in cuts     \* get_cut(run_id, cut_index) is not None

NextFile ==
  /\ pc = "next" /\ todo # {}
  /\ IF Ingested(next) THEN todo' = todo \ {next} /\ Goto("next") ELSE Goto("put") /\ UNCHANGED todo
  /\ UNCHANGED db

Put ==
  /\ pc = "put" /\ blobs' = blobs \cup {next} /\ Goto("append_cut")
  /\ UNCHANGED <<machine, run, cuts, features, labels, rul, twin, todo>>

AppendCut ==
  /\ pc = "append_cut" /\ cuts' = cuts \cup {next} /\ Goto("append_features")
  /\ UNCHANGED <<machine, run, blobs, features, labels, rul, twin, todo>>

AppendFeatures ==
  /\ pc = "append_features" /\ features' = features \cup {next} /\ Goto("append_stub")
  /\ UNCHANGED <<machine, run, blobs, cuts, labels, rul, twin, todo>>

AppendStub ==
  /\ pc = "append_stub"
  /\ rul' = rul \cup {[cut |-> next, post |-> Stub]} /\ todo' = todo \ {next} /\ Goto("next")
  /\ UNCHANGED <<machine, run, blobs, cuts, features, labels, twin>>

(***************************************************************************)
(* load_labels.                                                            *)
(***************************************************************************)
Missing == Cuts \ labels

ReadExisting ==
  /\ pc = "existing" /\ todo' = Missing /\ Goto("label")
  /\ UNCHANGED db

AppendLabel ==
  /\ pc = "label" /\ todo # {}
  /\ labels' = labels \cup {next} /\ todo' = todo \ {next} /\ Goto("label")
  /\ UNCHANGED <<machine, run, blobs, cuts, features, rul, twin>>

(***************************************************************************)
(* run_filter and validate.                                                *)
(***************************************************************************)
\* A fit without labels, or without enough of them, raises.
BuildTwin ==
  /\ pc = "build"
  /\ IF Cardinality(features \cap labels) >= MinPairs /\ labels # {}
       THEN twin' = {} /\ Goto("clear") /\ UNCHANGED todo
       ELSE End("none") /\ UNCHANGED <<twin, crashes>>
  /\ UNCHANGED <<machine, run, blobs, cuts, features, labels, rul>>

Cleared == {}

\* validate scores labeled cuts only.
Scored(s) == IF s = "validate" THEN features \cap labels ELSE features

ClearRul ==
  /\ pc = "clear" /\ rul' = Cleared /\ todo' = Scored(script) /\ Goto("update")
  /\ UNCHANGED <<machine, run, blobs, cuts, features, labels, twin>>

Absorb == twin \cup {next}

Update ==
  /\ pc = "update" /\ todo # {}
  /\ twin' = Absorb /\ Goto("append_rul")
  /\ UNCHANGED <<machine, run, blobs, cuts, features, labels, rul, todo>>

AppendRul ==
  /\ pc = "append_rul"
  /\ rul' = rul \cup {[cut |-> next, post |-> twin]} /\ todo' = todo \ {next} /\ Goto("update")
  /\ UNCHANGED <<machine, run, blobs, cuts, features, labels, twin>>

\* replay_http sends no cookie: require_user answers 401, which urlopen raises.
Post ==
  /\ pc = "post" /\ End("refused")
  /\ UNCHANGED <<db, crashes>>

Finish ==
  /\ pc \in {"next", "label", "update"} /\ todo = {}
  /\ End(script)
  /\ UNCHANGED <<db, crashes>>

Step ==
  \/ Setup /\ UNCHANGED <<blobs, cuts, features, labels, rul, twin, todo>>
  \/ NextFile \/ Put \/ AppendCut \/ AppendFeatures \/ AppendStub
  \/ ReadExisting \/ AppendLabel
  \/ BuildTwin \/ ClearRul \/ Update \/ AppendRul
  \/ Post \/ Finish

Next == Step \/ Crash \/ \E s \in Scripts : Begin(s)

Spec == Init /\ [][Next]_vars

-----------------------------------------------------------------------------
DriverTypeOK ==
  /\ machine \in BOOLEAN /\ run \in BOOLEAN
  /\ blobs \subseteq Cuts /\ cuts \subseteq Cuts /\ features \subseteq Cuts
  /\ labels \subseteq Cuts /\ twin \subseteq Cuts /\ rul \subseteq RulRow
  /\ script \in Scripts \cup {"none"} /\ last \in Scripts \cup {"none", "refused"}
  /\ todo \subseteq Cuts /\ crashes \in 0..MaxCrashes

\* "Ingest is idempotent ... a re-run resumes rather than erroring on the
\* duplicate-cut constraint" (replay.py:5-7): wherever earlier scripts died, no
\* insert of a script is refused by a primary or a foreign key.
InsertsAccepted ==
  /\ pc = "append_cut" => run /\ next \notin cuts
  /\ pc = "append_features" => next \in cuts /\ next \notin features
  /\ pc \in {"append_stub", "append_rul"} => next \in cuts /\ next \notin {row.cut : row \in rul}
  /\ pc = "label" /\ todo # {} => run /\ next \notin labels
  /\ pc \in {"clear", "update"} => run

\* After a filter pass that ran to its end, whatever passes and replays died
\* before it: the twin has absorbed the cuts of the pass, and the prediction of
\* each of them is the pass's own, after the cuts up to it.
PassIsWhole ==
  last \in {"run_filter", "validate"} =>
    /\ twin = Scored(last)
    /\ rul = {[cut |-> i, post |-> {k \in Scored(last) : k <= i}] : i \in Scored(last)}

\* Types, and both.
DriverSafe == DriverTypeOK /\ InsertsAccepted /\ PassIsWhole
=============================================================================
