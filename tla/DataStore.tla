----------------------------- MODULE DataStore -----------------------------
(***************************************************************************)
(* The tables behind the DataStore interface (domain/stores.py) and the    *)
(* SQL statements that SQLiteDataStore and PostgresDataStore run on them.  *)
(* A table is a set of rows; twin_state, which holds at most one row per   *)
(* run, is a function.  Every operator below whose name is a method of the *)
(* store is the effect of that method's one statement and commit.  Its     *)
(* guard is the statement's constraints: where the guard is false the      *)
(* statement raises and changes nothing.  The modules that EXTEND this one *)
(* decide who runs which statement, and what happens when one raises.      *)
(*                                                                         *)
(* What a row carries is reduced to what the properties tell apart:        *)
(*   - a features row remembers which uploaded payload it was extracted    *)
(*     from ("src");                                                       *)
(*   - a posterior is the sequence of the cut indices the filter has       *)
(*     absorbed since the twin was deployed (<<>> is a fresh prior), and   *)
(*     its last element is the cut_index column of twin_state;             *)
(*   - an RUL row remembers the posterior it was projected from ("post").  *)
(***************************************************************************)
EXTENDS Naturals, Sequences, FiniteSets

CONSTANTS
  Users,      \* account ids
  System,     \* the owner_id None of the shared reference machines
  Machines,   \* machine ids
  Runs,       \* run ids
  Payloads,   \* uploaded waveforms
  Upload,     \* the first part of the keys that /analyze writes into cut rows
  NoTwin      \* no twin_state row

ASSUME SystemAssumption == System \notin Users
ASSUME NoTwinAssumption == NoTwin \notin Seq(Nat)

VARIABLES machines, runs, labels, cuts, features, rul, twin, results

tables == <<machines, runs, labels, cuts, features, rul, twin, results>>

Index     == Nat \ {0}
Posterior == Seq(Nat)
Key       == (Machines \cup {Upload}) \X Runs \X Index

MachineRow == [machine : Machines, owner : Users \cup {System}]
RunRow     == [run : Runs, machine : Machines, ended : BOOLEAN]
CutRow     == [run : Runs, cut : Index, key : Key]
FeatureRow == [run : Runs, cut : Index, src : Payloads]
RulRow     == [run : Runs, cut : Index, post : Posterior]

TablesOK ==
  /\ machines \subseteq MachineRow
  /\ runs     \subseteq RunRow
  /\ labels   \subseteq Runs          \* the runs that have wear labels
  /\ cuts     \subseteq CutRow
  /\ features \subseteq FeatureRow
  /\ rul      \subseteq RulRow
  /\ twin     \in [Runs -> Posterior \cup {NoTwin}]
  /\ results  \subseteq RulRow        \* cut_results

(***************************************************************************)
(* What the schema rules out in any database.                              *)
(***************************************************************************)
PrimaryKeys ==
  LET unique(table) == \A x, y \in table : x.run = y.run /\ x.cut = y.cut => x = y IN
  /\ \A x, y \in machines : x.machine = y.machine => x = y
  /\ \A x, y \in runs : x.run = y.run => x = y
  /\ unique(cuts) /\ unique(features) /\ unique(rul) /\ unique(results)

Of(table, r)       == {row \in table : row.run = r}
IndicesOf(table, r) == {row.cut : row \in Of(table, r)}

(***************************************************************************)
(* Queries.                                                                *)
(***************************************************************************)
owned_by(m, u)     == [machine |-> m, owner |-> u] \in machines
machine_exists(m)  == \E row \in machines : row.machine = m
run_exists(r)      == Of(runs, r) # {}
has_ended(r)       == \E row \in Of(runs, r) : row.ended
has_twin_state(r)  == twin[r] # NoTwin
count_features(r)  == Cardinality(Of(features, r))
has_cut(r, i)      == i \in IndicesOf(cuts, r)

\* cut_results has no foreign key.
ForeignKeys ==
  /\ \A row \in runs : machine_exists(row.machine)
  /\ \A row \in cuts : run_exists(row.run)
  /\ \A row \in features \cup rul : has_cut(row.run, row.cut)
  /\ \A r \in Runs : has_twin_state(r) \/ r \in labels => run_exists(r)

(***************************************************************************)
(* Inserts: a primary key, and the foreign keys runs -> machines,          *)
(* cuts -> runs, features -> cuts, rul_predictions -> cuts.                *)
(***************************************************************************)
create_machine(m, u) ==
  /\ ~machine_exists(m)
  /\ machines' = machines \cup {[machine |-> m, owner |-> u]}
  /\ UNCHANGED <<runs, labels, cuts, features, rul, twin, results>>

create_run(r, m) ==
  /\ ~run_exists(r)
  /\ machine_exists(m)
  /\ runs' = runs \cup {[run |-> r, machine |-> m, ended |-> FALSE]}
  /\ UNCHANGED <<machines, labels, cuts, features, rul, twin, results>>

append_cut(r, i, k) ==
  /\ ~has_cut(r, i)
  /\ run_exists(r)
  /\ cuts' = cuts \cup {[run |-> r, cut |-> i, key |-> k]}
  /\ UNCHANGED <<machines, runs, labels, features, rul, twin, results>>

append_features(r, i, p) ==
  /\ i \notin IndicesOf(features, r)
  /\ has_cut(r, i)
  /\ features' = features \cup {[run |-> r, cut |-> i, src |-> p]}
  /\ UNCHANGED <<machines, runs, labels, cuts, rul, twin, results>>

append_rul(r, i, post) ==
  /\ i \notin IndicesOf(rul, r)
  /\ has_cut(r, i)
  /\ rul' = rul \cup {[run |-> r, cut |-> i, post |-> post]}
  /\ UNCHANGED <<machines, runs, labels, cuts, features, twin, results>>

\* One row per run, overwritten: INSERT ... ON CONFLICT(run_id) DO UPDATE.
save_twin_state(r, post) ==
  /\ run_exists(r)
  /\ twin' = [twin EXCEPT ![r] = post]
  /\ UNCHANGED <<machines, runs, labels, cuts, features, rul, results>>

\* executemany: one insert per row.  The operators below are the whole batch.
append_cuts_bulk(r, rows) ==
  /\ run_exists(r)
  /\ \A row \in rows : ~has_cut(r, row.cut)
  /\ cuts' = cuts \cup rows
  /\ UNCHANGED <<machines, runs, labels, features, rul, twin, results>>

append_features_bulk(r, rows) ==
  /\ \A row \in rows : row.cut \notin IndicesOf(features, r) /\ has_cut(r, row.cut)
  /\ features' = features \cup rows
  /\ UNCHANGED <<machines, runs, labels, cuts, rul, twin, results>>

\* INSERT OR REPLACE.
save_cut_results(r, rows) ==
  /\ results' = {old \in results : \A row \in rows : row.run # old.run \/ row.cut # old.cut}
                  \cup rows
  /\ UNCHANGED <<machines, runs, labels, cuts, features, rul, twin>>

(***************************************************************************)
(* Deletes.  One that would leave a row without its parent is refused.     *)
(***************************************************************************)
clear_rul(r) ==
  /\ rul' = rul \ Of(rul, r)
  /\ UNCHANGED <<machines, runs, labels, cuts, features, twin, results>>

clear_cut_results(r) ==
  /\ results' = results \ Of(results, r)
  /\ UNCHANGED <<machines, runs, labels, cuts, features, rul, twin>>

clear_twin(r) ==
  /\ twin' = [twin EXCEPT ![r] = NoTwin]
  /\ UNCHANGED <<machines, runs, labels, cuts, features, rul, results>>

clear_features(r) ==
  /\ features' = features \ Of(features, r)
  /\ UNCHANGED <<machines, runs, labels, cuts, rul, twin, results>>

clear_labels(r) ==
  /\ labels' = labels \ {r}
  /\ UNCHANGED <<machines, runs, cuts, features, rul, twin, results>>

clear_cuts(r) ==
  /\ Of(features, r) = {} /\ Of(rul, r) = {}
  /\ cuts' = cuts \ Of(cuts, r)
  /\ UNCHANGED <<machines, runs, labels, features, rul, twin, results>>

clear_run(r) ==
  /\ Of(cuts, r) = {} /\ ~has_twin_state(r) /\ r \notin labels
  /\ runs' = runs \ Of(runs, r)
  /\ UNCHANGED <<machines, labels, cuts, features, rul, twin, results>>

=============================================================================
