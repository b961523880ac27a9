---------------------------- MODULE IngestProofs ----------------------------
(***************************************************************************)
(* Ingest keeps its promises for every number of uploads, runs, machines   *)
(* and users, whatever fails and whenever the process is restarted.        *)
(***************************************************************************)
EXTENDS Ingest, FiniteSetTheorems, TLAPS

(***************************************************************************)
(* Types.  TypeOK alone is not inductive: a count is a number because the  *)
(* features table is finite, and a key can be written because its thread   *)
(* has been given an index.                                                *)
(***************************************************************************)
Numbered == {"put", "append_cut", "decode", "append_features",
             "load_twin", "save_twin", "append_rul"}

TypeInv ==
  /\ TypeOK
  /\ IsFiniteSet(features)
  /\ \A u \in Payloads : pc[u] \in Numbered => req[u].cut # 0

\* count_features is a natural number.
LEMMA CountIsNat ==
  ASSUME IsFiniteSet(features), NEW r
  PROVE  /\ IsFiniteSet(Of(features, r))
         /\ count_features(r) \in Nat
<1>1. IsFiniteSet(Of(features, r))
  BY FS_Subset DEF Of
<1> QED
  BY <1>1, FS_CardinalityType DEF count_features

LEMMA TypeInvInit == Init => TypeInv
<1> SUFFICES ASSUME Init PROVE TypeInv
  OBVIOUS
<1> USE DEF Init
<1>1. TablesOK
  <2>1. machines \subseteq MachineRow /\ runs \subseteq RunRow /\ labels \subseteq Runs
    OBVIOUS
  <2>2. <<>> \in Posterior
    BY DEF Posterior
  <2>3. twin \in [Runs -> Posterior \cup {NoTwin}]
    BY <2>2
  <2> QED BY <2>1, <2>3 DEF TablesOK
<1>2. blobs \subseteq Blob /\ runLock \in [Runs -> Payloads \cup {Free}]
  OBVIOUS
<1>3. pc \in [Payloads -> Phase]
  BY DEF Phase
<1>4. req \in [Payloads -> Request]
  <2>1. [user : Users, machine : Machines, run : Runs, cut : {0}, post : {<<>>}, status : {0}]
          \subseteq Request
    <3>1. 0 \in Nat /\ <<>> \in Posterior /\ 0 \in Status
      BY DEF Posterior, Status
    <3> QED BY <3>1 DEF Request
  <2> QED BY <2>1
<1>5. IsFiniteSet(features)
  BY FS_EmptySet
<1>6. \A u \in Payloads : pc[u] \notin Numbered
  BY DEF Numbered
<1> QED BY <1>1, <1>2, <1>3, <1>4, <1>5, <1>6 DEF TypeInv, TypeOK

LEMMA TypeInvStep == TypeInv /\ [Next]_vars => TypeInv'
<1> SUFFICES ASSUME TypeInv, [Next]_vars PROVE TypeInv'
  OBVIOUS
<1> USE DEF TypeInv, TypeOK, TablesOK, tables, Request, Phase, InFlight, InLock, Statements,
            Status, Numbered, At, Goto, Raise
<1>0. CASE UNCHANGED vars
  BY <1>0 DEF vars
<1>1. ASSUME NEW u \in Payloads, Receive(u) PROVE TypeInv'
  BY <1>1 DEF Receive
<1>2. ASSUME NEW u \in Payloads, EnterRunLock(u) PROVE TypeInv'
  BY <1>2 DEF EnterRunLock
<1>3. ASSUME NEW u \in Payloads, CheckMachine(u) \/ CheckRun(u) \/ CheckLabels(u) \/ CheckTwin(u)
      PROVE TypeInv'
  BY <1>3 DEF CheckMachine, CheckRun, CheckLabels, CheckTwin, Check
<1>4. ASSUME NEW u \in Payloads, AssignIndex(u) PROVE TypeInv'
  <2>1. count_features(req[u].run) \in Nat
    BY CountIsNat
  <2> QED BY <1>4, <2>1 DEF AssignIndex
<1>5. ASSUME NEW u \in Payloads, PutBlob(u) PROVE TypeInv'
  <2>1. [key |-> waveform_key(u), data |-> u] \in Blob
    BY <1>5 DEF PutBlob, waveform_key, Blob, Key, Index
  <2>2. blobs' \subseteq Blob
    BY <1>5, <2>1 DEF PutBlob
  <2> QED BY <1>5, <2>2 DEF PutBlob, Returns
<1>6. ASSUME NEW u \in Payloads, AppendCut(u) PROVE TypeInv'
  <2>1. [run |-> req[u].run, cut |-> req[u].cut, key |-> waveform_key(u)] \in CutRow
    BY <1>6 DEF AppendCut, waveform_key, CutRow, Key, Index
  <2>2. cuts' \subseteq CutRow
    BY <1>6, <2>1 DEF AppendCut, append_cut
  <2> QED BY <1>6, <2>2 DEF AppendCut, append_cut, Returns
<1>7. ASSUME NEW u \in Payloads, Decode(u) PROVE TypeInv'
  BY <1>7 DEF Decode, Check
<1>8. ASSUME NEW u \in Payloads, AppendFeatures(u) PROVE TypeInv'
  <2>1. [run |-> req[u].run, cut |-> req[u].cut, src |-> u] \in FeatureRow
    BY <1>8 DEF AppendFeatures, FeatureRow, Index
  <2>2. features' \subseteq FeatureRow
    BY <1>8, <2>1 DEF AppendFeatures, append_features
  <2>3. IsFiniteSet(features')
    BY <1>8, FS_AddElement DEF AppendFeatures, append_features
  <2>4. pc' \in [Payloads -> Phase] /\ req' \in [Payloads -> Request]
    BY <1>8 DEF AppendFeatures, Returns
  <2>5. \A v \in Payloads : pc'[v] \in Numbered => req'[v].cut # 0
    BY <1>8 DEF AppendFeatures, Returns
  <2> QED BY <1>8, <2>2, <2>3, <2>4, <2>5 DEF AppendFeatures, append_features
<1>9. ASSUME NEW u \in Payloads, LoadTwin(u) PROVE TypeInv'
  <2>1. twin[req[u].run] \in Posterior
    BY <1>9 DEF LoadTwin, has_twin_state
  <2> QED BY <1>9, <2>1 DEF LoadTwin
<1>10. ASSUME NEW u \in Payloads, SaveTwin(u) PROVE TypeInv'
  <2>1. filtered(u) \in Posterior
    BY DEF filtered, Posterior
  <2>2. twin' \in [Runs -> Posterior \cup {NoTwin}]
    BY <1>10, <2>1 DEF SaveTwin, save_twin_state
  <2>3. pc' \in [Payloads -> Phase]
    BY <1>10 DEF SaveTwin
  <2>5. \/ \E s \in Status : req' = [req EXCEPT ![u].status = s]
        \/ \E p \in Posterior : req' = [req EXCEPT ![u].post = p]
    BY <1>10, <2>1 DEF SaveTwin
  <2>6. req' \in [Payloads -> Request]
    BY <2>5
  <2>4. \A v \in Payloads : pc'[v] \in Numbered => req'[v].cut # 0
    BY <1>10 DEF SaveTwin
  <2> QED BY <1>10, <2>2, <2>3, <2>4, <2>6 DEF SaveTwin, save_twin_state
<1>11. ASSUME NEW u \in Payloads, AppendRul(u) PROVE TypeInv'
  <2>1. [run |-> req[u].run, cut |-> req[u].cut, post |-> req[u].post] \in RulRow
    BY <1>11 DEF AppendRul, RulRow, Index
  <2>2. rul' \subseteq RulRow
    BY <1>11, <2>1 DEF AppendRul, append_rul
  <2> QED BY <1>11, <2>2 DEF AppendRul, append_rul
<1>12. ASSUME NEW u \in Payloads, StatementRaises(u) PROVE TypeInv'
  BY <1>12 DEF StatementRaises
<1>13. ASSUME NEW u \in Payloads, ExitRunLock(u) PROVE TypeInv'
  BY <1>13 DEF ExitRunLock
<1>14. CASE Restart
  BY <1>14 DEF Restart
<1> QED
  BY <1>0, <1>1, <1>2, <1>3, <1>4, <1>5, <1>6, <1>7, <1>8, <1>9, <1>10, <1>11, <1>12, <1>13,
     <1>14 DEF Next, Step

\* Every variable keeps its type: in particular no blob key and no row ever
\* gets an index of 0, and a posterior stays a sequence of indices.
THEOREM TypeCorrect == Spec => []TypeOK
<1>1. TypeInv => TypeOK
  BY DEF TypeInv
<1> QED BY TypeInvInit, TypeInvStep, <1>1, PTL DEF Spec

(***************************************************************************)
(* The inductive invariant.                                                *)
(*                                                                         *)
(* The run lock makes the handler's read of the count, its four writes and *)
(* the load and save of the twin one critical section per run, so what a   *)
(* thread knows of its run stays true while it works (Local).  Between two *)
(* holders only the tables speak: dense features, cuts at most one ahead   *)
(* of them, a posterior that lists features in order (Tables).             *)
(***************************************************************************)
\* At most one thread is inside the with block of a run.
RunLocked == \A u \in Payloads : pc[u] \in InLock => runLock[req[u].run] = u

FeatureRows ==
  \A r \in Runs :
    /\ IndicesOf(features, r) = 1..count_features(r)
    /\ \A f, g \in Of(features, r) : f.cut = g.cut => f = g

CutRows ==
  \A c \in cuts :
    /\ c.cut <= count_features(c.run) + 1
    /\ c.key[2] = c.run /\ c.key[3] = c.cut

Tables == FeatureRows /\ CutRows /\ BlobIsSource /\ PosteriorInOrder /\ RulFromPosterior

\* What the thread of u knows of its run.
Local(u) ==
  LET r == req[u].run
      i == req[u].cut
      n == count_features(r)
  IN
  /\ pc[u] \in Numbered \cup {"index"} => has_twin_state(r)
  /\ pc[u] \in {"put", "append_cut", "decode", "append_features"} => i = n + 1
  /\ pc[u] \in {"append_cut", "decode", "append_features"} =>
       [key |-> waveform_key(u), data |-> u] \in blobs
  /\ pc[u] \in {"decode", "append_features"} =>
       [run |-> r, cut |-> i, key |-> waveform_key(u)] \in cuts
  /\ pc[u] \in {"load_twin", "save_twin", "append_rul"} =>
       i = n /\ [run |-> r, cut |-> i, src |-> u] \in features
  /\ pc[u] \in {"load_twin", "save_twin"} => \A j \in 1..Len(twin[r]) : twin[r][j] < i
  /\ pc[u] \in {"save_twin", "append_rul"} => req[u].post = twin[r]
  /\ pc[u] = "append_rul" => EndsIn(twin[r], i) /\ i \notin IndicesOf(rul, r)
  /\ req[u].status = 200 => pc[u] \in {"exit", "answered", "lost"}

Locals == \A u \in Payloads : Local(u)

\* What a 200 answer rests on; the rest of AckDurable follows from Tables.
AckRows ==
  \A u \in Payloads : req[u].status = 200 =>
    /\ [run |-> req[u].run, cut |-> req[u].cut, src |-> u] \in features
    /\ req[u].cut \in IndicesOf(rul, req[u].run)

IInv == TypeInv /\ RunLocked /\ Tables /\ Locals /\ AckRows

\* What append_features does to the rows and the count of every run.
LEMMA CountAppended ==
  ASSUME IsFiniteSet(features), NEW u, AppendFeatures(u), NEW r, r = req[u].run
  PROVE  /\ Of(features', r) = Of(features, r) \cup {[run |-> r, cut |-> req[u].cut, src |-> u]}
         /\ IndicesOf(features', r) = IndicesOf(features, r) \cup {req[u].cut}
         /\ count_features(r)' = count_features(r) + 1
         /\ \A s : s # r => Of(features', s) = Of(features, s)
<1> DEFINE row == [run |-> r, cut |-> req[u].cut, src |-> u]
<1>1. features' = features \cup {row} /\ req[u].cut \notin IndicesOf(features, r)
  BY DEF AppendFeatures, append_features
<1>2. row.run = r /\ row.cut = req[u].cut
  OBVIOUS
<1> HIDE DEF row
<1>3. Of(features', r) = Of(features, r) \cup {row}
  BY <1>1, <1>2 DEF Of
<1>4. IndicesOf(features', r) = IndicesOf(features, r) \cup {req[u].cut}
  BY <1>2, <1>3 DEF IndicesOf
<1>5. row \notin Of(features, r)
  BY <1>1, <1>2 DEF IndicesOf
<1>6. Cardinality(Of(features', r)) = Cardinality(Of(features, r)) + 1
  BY <1>3, <1>5, CountIsNat, FS_AddElement
<1>7. count_features(r)' = Cardinality(Of(features', r))
  BY DEF count_features, Of
<1>8. \A s : s # r => Of(features', s) = Of(features, s)
  BY <1>1, <1>2 DEF Of
<1> QED BY <1>3, <1>4, <1>6, <1>7, <1>8 DEF row, count_features

\* A step outside the stores leaves what the tables say alone.
LEMMA TablesUnchanged ==
  ASSUME Tables, UNCHANGED <<tables, blobs>> PROVE Tables'
BY DEF Tables, tables, FeatureRows, CutRows, BlobIsSource, PosteriorInOrder, RulFromPosterior,
       IndicesOf, Of, count_features, has_twin_state, EndsIn, Prefix

LEMMA IInvInit == Init => IInv
<1> SUFFICES ASSUME Init PROVE IInv
  OBVIOUS
<1>1. TypeInv
  BY TypeInvInit
<1>2. RunLocked
  BY DEF Init, RunLocked, InLock, Statements
<1>3. \A r \in Runs : Of(features, r) = {} /\ IndicesOf(features, r) = {} /\ count_features(r) = 0
  BY FS_EmptySet DEF Init, Of, IndicesOf, count_features
<1>4. FeatureRows
  <2>1. 1..0 = {}
    OBVIOUS
  <2> QED BY <1>3, <2>1 DEF FeatureRows
<1>5. CutRows /\ BlobIsSource /\ RulFromPosterior
  BY DEF Init, CutRows, BlobIsSource, RulFromPosterior
<1>6. PosteriorInOrder
  BY DEF Init, PosteriorInOrder, has_twin_state
<1>7. Locals
  BY DEF Init, Locals, Local, Numbered
<1>8. AckRows
  BY DEF Init, AckRows
<1> QED BY <1>1, <1>2, <1>4, <1>5, <1>6, <1>7, <1>8 DEF IInv, Tables

LEMMA RunLockedStep == IInv /\ [Next]_vars => RunLocked'
<1> SUFFICES ASSUME IInv, [Next]_vars PROVE RunLocked'
  OBVIOUS
<1> USE DEF IInv, TypeInv, TypeOK, RunLocked, InLock, Statements, Request, At, Goto, Raise
<1>0. CASE UNCHANGED vars
  BY <1>0 DEF vars
<1>1. ASSUME NEW u \in Payloads, Receive(u) PROVE RunLocked'
  BY <1>1 DEF Receive
<1>2. ASSUME NEW u \in Payloads, EnterRunLock(u) PROVE RunLocked'
  BY <1>2, FreeAssumption DEF EnterRunLock
<1>3. ASSUME NEW u \in Payloads, CheckMachine(u) \/ CheckRun(u) \/ CheckLabels(u) \/ CheckTwin(u)
      PROVE RunLocked'
  BY <1>3 DEF CheckMachine, CheckRun, CheckLabels, CheckTwin, Check
<1>4. ASSUME NEW u \in Payloads, AssignIndex(u) \/ Decode(u) \/ LoadTwin(u) \/ StatementRaises(u)
      PROVE RunLocked'
  BY <1>4 DEF AssignIndex, Decode, LoadTwin, StatementRaises, Refused, Check
<1>5. ASSUME NEW u \in Payloads, PutBlob(u) \/ AppendCut(u) \/ AppendFeatures(u) PROVE RunLocked'
  BY <1>5 DEF PutBlob, AppendCut, AppendFeatures, Returns
<1>6. ASSUME NEW u \in Payloads, SaveTwin(u) \/ AppendRul(u) PROVE RunLocked'
  BY <1>6 DEF SaveTwin, AppendRul
<1>7. ASSUME NEW u \in Payloads, ExitRunLock(u) PROVE RunLocked'
  BY <1>7 DEF ExitRunLock
<1>8. CASE Restart
  BY <1>8 DEF Restart, InFlight
<1> QED
  BY <1>0, <1>1, <1>2, <1>3, <1>4, <1>5, <1>6, <1>7, <1>8 DEF Next, Step

LEMMA TablesStep == IInv /\ [Next]_vars => Tables'
<1> SUFFICES ASSUME IInv, [Next]_vars PROVE Tables'
  OBVIOUS
<1> USE DEF IInv, At, Goto
<1>types. /\ TablesOK /\ blobs \subseteq Blob /\ req \in [Payloads -> Request]
          /\ pc \in [Payloads -> Phase]
          /\ \A u \in Payloads : pc[u] \in Numbered => req[u].cut \in Index
          /\ \A r : count_features(r) \in Nat
  BY CountIsNat DEF TypeInv, TypeOK, Request, Index
<1>1. CASE UNCHANGED <<tables, blobs>>
  BY <1>1, TablesUnchanged
<1>2. ASSUME NEW u \in Payloads, PutBlob(u) PROVE Tables'
  <2> DEFINE k == waveform_key(u)
  <2>1. /\ blobs' = {b \in blobs : b.key # k} \cup {[key |-> k, data |-> u]}
        /\ UNCHANGED tables
    BY <1>2 DEF PutBlob
  <2>2. k[3] = count_features(req[u].run) + 1 /\ k[2] = req[u].run
    BY <1>2 DEF PutBlob, Locals, Local, waveform_key
  <2>3. BlobIsSource'
    <3> SUFFICES ASSUME NEW f \in features
                 PROVE \E c \in cuts : /\ c.run = f.run /\ c.cut = f.cut
                                      /\ [key |-> c.key, data |-> f.src] \in blobs'
      BY <2>1 DEF BlobIsSource, tables
    <3>1. PICK c \in cuts : /\ c.run = f.run /\ c.cut = f.cut
                            /\ [key |-> c.key, data |-> f.src] \in blobs
      BY DEF Tables, BlobIsSource
    <3>2. f \in Of(features, f.run) /\ f.run \in Runs
      BY <1>types DEF Of, TablesOK, FeatureRow
    <3>3. f.cut \in 1..count_features(f.run)
      BY <3>2 DEF Tables, FeatureRows, IndicesOf
    <3>4. c.key[2] = f.run /\ c.key[3] = f.cut
      BY <3>1 DEF Tables, CutRows
    <3>5. c.key # k
      BY <1>types, <2>2, <3>3, <3>4
    <3> QED BY <2>1, <3>1, <3>5
  <2> QED
    BY <2>1, <2>3 DEF Tables, tables, FeatureRows, CutRows, PosteriorInOrder, RulFromPosterior,
       IndicesOf, Of, count_features, has_twin_state, EndsIn, Prefix
<1>3. ASSUME NEW u \in Payloads, AppendCut(u) PROVE Tables'
  <2> DEFINE row == [run |-> req[u].run, cut |-> req[u].cut, key |-> waveform_key(u)]
  <2>1. /\ cuts' = cuts \cup {row}
        /\ UNCHANGED <<blobs, features, rul, twin>>
    BY <1>3 DEF AppendCut, append_cut
  <2>2. \A r : count_features(r)' = count_features(r)
    BY <2>1 DEF count_features, Of
  <2>3. CutRows'
    <3>1. row.cut = count_features(row.run) + 1 /\ row.key[2] = row.run /\ row.key[3] = row.cut
      BY <1>3 DEF AppendCut, Locals, Local, waveform_key
    <3> HIDE DEF row
    <3> QED BY <1>types, <2>1, <2>2, <3>1 DEF Tables, CutRows
  <2>4. BlobIsSource'
    BY <2>1 DEF Tables, BlobIsSource
  <2> QED
    BY <2>1, <2>3, <2>4 DEF Tables, FeatureRows, PosteriorInOrder, RulFromPosterior,
       IndicesOf, Of, count_features, has_twin_state, EndsIn, Prefix
<1>4. ASSUME NEW u \in Payloads, AppendFeatures(u) PROVE Tables'
  <2>0. PICK r \in Runs, i \in Nat, n \in Nat :
          r = req[u].run /\ i = req[u].cut /\ n = count_features(r)
    BY <1>types DEF Request
  <2> DEFINE row == [run |-> r, cut |-> i, src |-> u]
  <2>1. /\ features' = features \cup {row}
        /\ i \notin IndicesOf(features, r)
        /\ UNCHANGED <<blobs, cuts, rul, twin>>
    BY <1>4, <2>0 DEF AppendFeatures, append_features
  <2>2. /\ i = n + 1
        /\ [run |-> r, cut |-> i, key |-> waveform_key(u)] \in cuts
        /\ [key |-> waveform_key(u), data |-> u] \in blobs
    BY <1>4, <2>0 DEF AppendFeatures, Locals, Local, waveform_key
  <2>3. /\ Of(features', r) = Of(features, r) \cup {row}
        /\ IndicesOf(features', r) = IndicesOf(features, r) \cup {i}
        /\ count_features(r)' = n + 1
        /\ \A s : s # r => Of(features', s) = Of(features, s)
    BY <1>4, <2>0, CountAppended DEF TypeInv
  <2>4. \A s : s # r => /\ count_features(s)' = count_features(s)
                         /\ IndicesOf(features', s) = IndicesOf(features, s)
    BY <2>3 DEF count_features, IndicesOf, Of
  <2>5. FeatureRows'
    <3> SUFFICES ASSUME NEW s \in Runs
                 PROVE /\ IndicesOf(features', s) = 1..count_features(s)'
                       /\ \A f, g \in Of(features', s) : f.cut = g.cut => f = g
      BY DEF FeatureRows, IndicesOf, Of
    <3>1. CASE s # r
      BY <2>3, <2>4, <3>1 DEF Tables, FeatureRows
    <3>2. CASE s = r
      <4>1. 1..(n + 1) = (1..n) \cup {n + 1}
        BY <1>types
      <4>2. IndicesOf(features', s) = 1..count_features(s)'
        BY <2>0, <2>2, <2>3, <3>2, <4>1 DEF Tables, FeatureRows
      <4>3. \A f \in Of(features, r) : f.cut # i
        BY <2>1 DEF IndicesOf
      <4> QED BY <2>2, <2>3, <3>2, <4>2, <4>3 DEF Tables, FeatureRows
    <3> QED BY <3>1, <3>2
  <2>6. CutRows'
    <3>1. \A s : count_features(s)' >= count_features(s) /\ count_features(s)' \in Nat
      <4>1. \A s : s # r \/ s = r
        OBVIOUS
      <4> QED BY <1>types, <2>0, <2>3, <2>4
    <3> QED BY <1>types, <2>1, <3>1 DEF Tables, CutRows, TablesOK, CutRow, Index
  <2>7. BlobIsSource'
    <3> SUFFICES ASSUME NEW f \in features'
                 PROVE \E c \in cuts : /\ c.run = f.run /\ c.cut = f.cut
                                      /\ [key |-> c.key, data |-> f.src] \in blobs
      BY <2>1 DEF BlobIsSource
    <3>1. CASE f \in features
      BY <3>1 DEF Tables, BlobIsSource
    <3>2. CASE f = row
      BY <2>2, <3>2
    <3> QED BY <2>1, <3>1, <3>2
  <2>8. PosteriorInOrder'
    <3>1. \A s : IndicesOf(features, s) \subseteq IndicesOf(features', s)
      BY <2>1 DEF IndicesOf, Of
    <3> QED BY <2>1, <3>1 DEF Tables, PosteriorInOrder, has_twin_state
  <2>9. RulFromPosterior'
    BY <2>1 DEF Tables, RulFromPosterior, has_twin_state
  <2> QED BY <2>5, <2>6, <2>7, <2>8, <2>9 DEF Tables
<1>5. ASSUME NEW u \in Payloads, SaveTwin(u) PROVE Tables'
  <2> DEFINE r == req[u].run
             i == req[u].cut
             old == twin[r]
             new == Append(old, i)
  <2>1. /\ twin' = [twin EXCEPT ![r] = filtered(u)]
        /\ UNCHANGED <<blobs, cuts, features, rul>>
    BY <1>5 DEF SaveTwin, save_twin_state
  <2>2. /\ r \in Runs
        /\ has_twin_state(r)
        /\ req[u].post = old
        /\ \A j \in 1..Len(old) : old[j] < i
        /\ [run |-> r, cut |-> i, src |-> u] \in features
    BY <1>5, <1>types DEF SaveTwin, Locals, Local, Request, Numbered
  <2>3. old \in Seq(Nat) /\ i \in Nat
    BY <1>types, <2>2 DEF TablesOK, has_twin_state, Request, Posterior
  <2>4. twin'[r] = new /\ \A s \in Runs : s # r => twin'[s] = twin[s]
    BY <1>types, <2>1, <2>2 DEF filtered, TablesOK
  <2>5. /\ new \in Seq(Nat) /\ Len(new) = Len(old) + 1 /\ new[Len(new)] = i
        /\ \A j \in 1..Len(old) : new[j] = old[j]
    BY <2>3
  <2>6. new # NoTwin
    BY <2>5, NoTwinAssumption
  <2> HIDE DEF new
  <2>7. i \in IndicesOf(features, r)
    BY <2>2 DEF IndicesOf, Of
  <2>8. PosteriorInOrder'
    <3> SUFFICES ASSUME NEW s \in Runs, twin'[s] # NoTwin
                 PROVE /\ \A j \in 1..Len(twin'[s]) : twin'[s][j] \in IndicesOf(features, s)
                       /\ \A j, k \in 1..Len(twin'[s]) : j < k => twin'[s][j] < twin'[s][k]
      BY <2>1 DEF PosteriorInOrder, has_twin_state, IndicesOf, Of
    <3>1. CASE s # r
      BY <2>4, <3>1 DEF Tables, PosteriorInOrder, has_twin_state
    <3>2. CASE s = r
      <4>1. /\ \A j \in 1..Len(old) : old[j] \in IndicesOf(features, r)
            /\ \A j, k \in 1..Len(old) : j < k => old[j] < old[k]
        BY <2>2 DEF Tables, PosteriorInOrder
      <4>2. \A j \in 1..Len(new) : j \in 1..Len(old) \/ j = Len(new)
        BY <2>3, <2>5
      <4>3. \A j \in 1..Len(new) : new[j] \in IndicesOf(features, r)
        BY <2>5, <2>7, <4>1, <4>2
      <4>4. ASSUME NEW j \in 1..Len(new), NEW k \in 1..Len(new), j < k
            PROVE new[j] < new[k]
        <5>1. j \in 1..Len(old)
          BY <2>3, <2>5, <4>2, <4>4
        <5>2. CASE k \in 1..Len(old)
          BY <2>5, <4>1, <4>4, <5>1, <5>2
        <5>3. CASE k = Len(new)
          BY <2>2, <2>5, <5>1, <5>3
        <5> QED BY <4>2, <5>2, <5>3
      <4> QED BY <2>4, <3>2, <4>3, <4>4
    <3> QED BY <3>1, <3>2
  <2>9. RulFromPosterior'
    <3> SUFFICES ASSUME NEW p \in rul
                 PROVE twin'[p.run] # NoTwin /\ EndsIn(p.post, p.cut) /\ Prefix(p.post, twin'[p.run])
      BY <2>1 DEF RulFromPosterior, has_twin_state, EndsIn, Prefix
    <3>1. p.run \in Runs /\ p.post \in Seq(Nat)
      BY <1>types DEF TablesOK, RulRow, Posterior
    <3>2. twin[p.run] # NoTwin /\ EndsIn(p.post, p.cut) /\ Prefix(p.post, twin[p.run])
      BY DEF Tables, RulFromPosterior, has_twin_state
    <3>3. CASE p.run # r
      BY <2>4, <3>1, <3>2, <3>3
    <3>4. CASE p.run = r
      <4>1. Prefix(p.post, old)
        BY <2>2, <3>2, <3>4
      <4>2. Len(p.post) \in Nat /\ Len(old) \in Nat /\ Len(p.post) <= Len(old)
        BY <2>3, <3>1, <4>1 DEF Prefix
      <4>3. Prefix(p.post, new)
        <5>1. Len(p.post) <= Len(new)
          BY <2>5, <4>2
        <5>2. ASSUME NEW j \in 1..Len(p.post) PROVE p.post[j] = new[j]
          <6>1. j \in 1..Len(old) /\ p.post[j] = old[j]
            BY <4>1, <4>2 DEF Prefix
          <6> QED BY <2>5, <6>1
        <5> QED BY <5>1, <5>2 DEF Prefix
      <4> QED BY <2>4, <2>6, <3>2, <3>4, <4>3
    <3> QED BY <3>3, <3>4
  <2> QED
    BY <2>1, <2>8, <2>9 DEF Tables, FeatureRows, CutRows, BlobIsSource, IndicesOf, Of, count_features
<1>6. ASSUME NEW u \in Payloads, AppendRul(u) PROVE Tables'
  <2> DEFINE row == [run |-> req[u].run, cut |-> req[u].cut, post |-> req[u].post]
  <2>1. /\ rul' = rul \cup {row}
        /\ UNCHANGED <<blobs, cuts, features, twin>>
    BY <1>6 DEF AppendRul, append_rul
  <2>2. /\ twin[row.run] # NoTwin
        /\ row.post = twin[row.run]
        /\ EndsIn(row.post, row.cut)
    BY <1>6 DEF AppendRul, Locals, Local, Numbered, has_twin_state
  <2>3. row.run \in Runs /\ row.post \in Seq(Nat)
    BY <1>types DEF Request, Posterior
  <2>4. Prefix(row.post, twin[row.run])
    BY <2>2, <2>3 DEF Prefix
  <2> HIDE DEF row
  <2>5. RulFromPosterior'
    BY <2>1, <2>2, <2>4 DEF Tables, RulFromPosterior, has_twin_state, EndsIn, Prefix
  <2> QED
    BY <2>1, <2>5 DEF Tables, FeatureRows, CutRows, BlobIsSource, PosteriorInOrder,
       IndicesOf, Of, count_features, has_twin_state
<1>7. CASE \E u \in Payloads :
           \/ Receive(u) \/ EnterRunLock(u)
           \/ CheckMachine(u) \/ CheckRun(u) \/ CheckLabels(u) \/ CheckTwin(u)
           \/ AssignIndex(u) \/ Decode(u) \/ LoadTwin(u) \/ StatementRaises(u) \/ ExitRunLock(u)
  BY <1>7, <1>1 DEF Receive, EnterRunLock, CheckMachine, CheckRun, CheckLabels, CheckTwin, Check,
                    AssignIndex, Decode, LoadTwin, StatementRaises, ExitRunLock
<1>8. CASE Restart
  BY <1>8, <1>1 DEF Restart
<1>9. CASE UNCHANGED vars
  BY <1>9, <1>1 DEF vars
<1> QED
  BY <1>2, <1>3, <1>4, <1>5, <1>6, <1>7, <1>8, <1>9 DEF Next, Step

\* Two threads inside with blocks are in different runs.
LEMMA Exclusion ==
  ASSUME IInv, NEW u \in Payloads, NEW v \in Payloads, u # v,
         pc[u] \in InLock, pc[v] \in InLock
  PROVE  req[u].run # req[v].run
BY DEF IInv, RunLocked

\* What a thread knows stays true under any step that leaves it, and the rows
\* of its run, alone.
LEMMA LocalFrame ==
  ASSUME NEW v \in Payloads, Local(v), pc'[v] = pc[v], req'[v] = req[v],
         pc[v] \in Numbered \cup {"index"} =>
           /\ twin'[req[v].run] = twin[req[v].run]
           /\ Of(features', req[v].run) = Of(features, req[v].run)
           /\ IndicesOf(rul', req[v].run) = IndicesOf(rul, req[v].run)
           /\ cuts \subseteq cuts' /\ features \subseteq features'
           /\ \A b \in blobs : b.key = waveform_key(v) => b \in blobs'
  PROVE  Local(v)'
<1>1. waveform_key(v)' = waveform_key(v)
  BY DEF waveform_key
<1>2. pc[v] \in Numbered \cup {"index"} => count_features(req[v].run)' = count_features(req[v].run)
  BY DEF count_features, Of
<1>3. CASE pc[v] \notin Numbered \cup {"index"}
  BY <1>3 DEF Local, Numbered
<1>4. CASE pc[v] \in Numbered \cup {"index"}
  <2>1. IndicesOf(rul, req[v].run)' = IndicesOf(rul, req[v].run)
    BY <1>4 DEF IndicesOf, Of
  <2>2. [key |-> waveform_key(v), data |-> v] \in blobs => [key |-> waveform_key(v), data |-> v] \in blobs'
    BY <1>4
  <2> QED BY <1>1, <1>2, <1>4, <2>1, <2>2 DEF Local, has_twin_state, EndsIn
<1> QED BY <1>3, <1>4

\* A thread that has left its with block claims nothing.
LEMMA LocalOutside ==
  ASSUME NEW v \in Payloads, pc'[v] \in {"exit", "answered", "lost"}
  PROVE  Local(v)'
BY DEF Local, Numbered

\* The rows of a run are counted the same when the features table is.
LEMMA CountUnchanged ==
  ASSUME NEW v \in Payloads, UNCHANGED features, req'[v].run = req[v].run
  PROVE  count_features(req[v].run)' = count_features(req[v].run)
BY DEF count_features, Of

LEMMA LocalsStep == IInv /\ [Next]_vars => Locals'
<1> SUFFICES ASSUME IInv, [Next]_vars, NEW v \in Payloads PROVE Local(v)'
  BY DEF Locals
<1> USE DEF At, Goto, Raise
<1>types. /\ TablesOK /\ blobs \subseteq Blob /\ req \in [Payloads -> Request]
          /\ pc \in [Payloads -> Phase]
          /\ \A r : count_features(r) \in Nat
  BY CountIsNat DEF IInv, TypeInv, TypeOK
<1>local. Local(v)
  BY DEF IInv, Locals
<1>apart. ASSUME NEW u \in Payloads, u # v, pc[u] \in Numbered, pc[v] \in Numbered \cup {"index"}
          PROVE  req[u].run # req[v].run
  BY <1>apart, Exclusion DEF Numbered, InLock, Statements
<1>0. CASE UNCHANGED vars
  BY <1>0, <1>local, LocalFrame DEF vars, tables
<1>1. ASSUME NEW u \in Payloads,
             \/ Receive(u) \/ EnterRunLock(u)
             \/ CheckMachine(u) \/ CheckRun(u) \/ CheckLabels(u) \/ CheckTwin(u)
             \/ AssignIndex(u) \/ Decode(u) \/ LoadTwin(u) \/ StatementRaises(u) \/ ExitRunLock(u)
      PROVE  Local(v)'
  <2>1. UNCHANGED <<tables, blobs>>
    BY <1>1 DEF Receive, EnterRunLock, CheckMachine, CheckRun, CheckLabels, CheckTwin, Check,
                AssignIndex, Decode, LoadTwin, StatementRaises, ExitRunLock
  <2>2. CASE u # v
    <3>1. pc'[v] = pc[v] /\ req'[v] = req[v]
      BY <1>1, <1>types, <2>2
         DEF Receive, EnterRunLock, CheckMachine, CheckRun, CheckLabels, CheckTwin, Check,
             AssignIndex, Decode, LoadTwin, StatementRaises, ExitRunLock
    <3> QED BY <2>1, <3>1, <1>local, LocalFrame DEF tables
  <2>3. CASE u = v
    <3> USE <2>1, <2>3, <1>types DEF tables, Request, Numbered
    <3>1. CASE Receive(v) \/ EnterRunLock(v) \/ CheckMachine(v) \/ CheckRun(v) \/ CheckLabels(v)
               \/ StatementRaises(v) \/ ExitRunLock(v)
      BY <3>1, <1>local DEF Receive, EnterRunLock, CheckMachine, CheckRun, CheckLabels, Check,
                            StatementRaises, Refused, Statements, ExitRunLock, Local
    <3>2. CASE CheckTwin(v)
      BY <3>2, <1>local DEF CheckTwin, Check, Local, has_twin_state
    <3>3. CASE AssignIndex(v)
      BY <3>3, <1>local DEF AssignIndex, Local, has_twin_state, count_features, Of
    <3>4. CASE Decode(v) /\ pc'[v] = "append_features"
      <4>1. pc[v] = "decode" /\ req' = req
        BY <3>4 DEF Decode, Check
      <4>2. count_features(req[v].run)' = count_features(req[v].run)
        BY <4>1, CountUnchanged
      <4>3. waveform_key(v)' = waveform_key(v)
        BY <4>1 DEF waveform_key
      <4> QED BY <3>4, <4>1, <4>2, <4>3, <1>local DEF Local, has_twin_state
    <3>6. Decode(v) => pc'[v] \in {"append_features", "exit"}
      BY DEF Decode, Check
    <3>5. CASE LoadTwin(v)
      <4>1. /\ pc[v] = "load_twin" /\ pc'[v] = "save_twin"
            /\ req'[v] = [req[v] EXCEPT !.post = twin[req[v].run]]
        BY <3>5 DEF LoadTwin
      <4>2. /\ req'[v].run = req[v].run /\ req'[v].cut = req[v].cut
            /\ req'[v].post = twin[req[v].run] /\ req'[v].status = req[v].status
        BY <4>1
      <4>3. count_features(req[v].run)' = count_features(req[v].run)
        BY <4>2, CountUnchanged
      <4> QED BY <4>1, <4>2, <4>3, <1>local DEF Local, has_twin_state
    <3> QED BY <1>1, <3>1, <3>2, <3>3, <3>4, <3>5, <3>6, LocalOutside
  <2> QED BY <2>2, <2>3
<1>2. ASSUME NEW u \in Payloads, PutBlob(u) PROVE Local(v)'
  <2>1. /\ UNCHANGED tables
        /\ blobs' = {b \in blobs : b.key # waveform_key(u)}
                      \cup {[key |-> waveform_key(u), data |-> u]}
        /\ pc[u] = "put"
    BY <1>2 DEF PutBlob
  <2>2. CASE u # v
    <3>1. pc'[v] = pc[v] /\ req'[v] = req[v]
      BY <1>2, <1>types, <2>2 DEF PutBlob, Returns
    <3>2. ASSUME pc[v] \in Numbered \cup {"index"}
          PROVE  waveform_key(v) # waveform_key(u)
      BY <1>apart, <2>1, <2>2, <3>2 DEF Numbered, waveform_key
    <3> QED BY <2>1, <3>1, <3>2, <1>local, LocalFrame DEF tables
  <2>3. CASE u = v /\ pc'[v] = "append_cut"
    <3>1. req' = req
      BY <1>2, <1>types, <2>3 DEF PutBlob, Returns
    <3>2. count_features(req[v].run)' = count_features(req[v].run)
      BY <2>1, <3>1, CountUnchanged DEF tables
    <3>3. [key |-> waveform_key(v), data |-> v]' \in blobs'
      BY <2>1, <2>3, <3>1 DEF waveform_key
    <3> QED
      BY <1>local, <2>1, <2>3, <3>1, <3>2, <3>3 DEF Local, has_twin_state, Numbered, tables
  <2>4. u = v => pc'[v] \in {"append_cut", "exit"}
    BY <1>2, <1>types DEF PutBlob, Returns
  <2> QED BY <2>2, <2>3, <2>4, LocalOutside
<1>3. ASSUME NEW u \in Payloads, AppendCut(u) PROVE Local(v)'
  <2>1. /\ UNCHANGED <<blobs, features, rul, twin>>
        /\ cuts' = cuts \cup {[run |-> req[u].run, cut |-> req[u].cut, key |-> waveform_key(u)]}
    BY <1>3 DEF AppendCut, append_cut
  <2>2. CASE u # v
    <3>1. pc'[v] = pc[v] /\ req'[v] = req[v]
      BY <1>3, <1>types, <2>2 DEF AppendCut, Returns
    <3> QED BY <2>1, <3>1, <1>local, LocalFrame
  <2>3. CASE u = v /\ pc'[v] = "decode"
    <3>1. req' = req /\ pc[v] = "append_cut"
      BY <1>3, <1>types, <2>3 DEF AppendCut, Returns
    <3>2. count_features(req[v].run)' = count_features(req[v].run)
      BY <2>1, <3>1, CountUnchanged
    <3>3. waveform_key(v)' = waveform_key(v)
      BY <3>1 DEF waveform_key
    <3> QED
      BY <1>local, <2>1, <2>3, <3>1, <3>2, <3>3 DEF Local, has_twin_state, Numbered
  <2>4. u = v => pc'[v] \in {"decode", "exit"}
    BY <1>3, <1>types DEF AppendCut, Returns
  <2> QED BY <2>2, <2>3, <2>4, LocalOutside
<1>4. ASSUME NEW u \in Payloads, AppendFeatures(u) PROVE Local(v)'
  <2> DEFINE row == [run |-> req[u].run, cut |-> req[u].cut, src |-> u]
  <2>1. /\ UNCHANGED <<blobs, cuts, rul, twin>>
        /\ features' = features \cup {row}
        /\ pc[u] = "append_features"
        /\ req[u].cut \notin IndicesOf(features, req[u].run)
    BY <1>4 DEF AppendFeatures, append_features
  <2>2. CASE u # v
    <3>1. pc'[v] = pc[v] /\ req'[v] = req[v]
      BY <1>4, <1>types, <2>2 DEF AppendFeatures, Returns
    <3>2. ASSUME pc[v] \in Numbered \cup {"index"}
          PROVE  Of(features', req[v].run) = Of(features, req[v].run)
      <4>1. req[u].run # req[v].run
        BY <1>apart, <2>1, <2>2, <3>2 DEF Numbered
      <4> QED BY <2>1, <4>1 DEF Of
    <3> QED BY <2>1, <3>1, <3>2, <1>local, LocalFrame
  <2>3. CASE u = v /\ pc'[v] = "load_twin"
    <3>1. req' = req
      BY <1>4, <1>types, <2>3 DEF AppendFeatures, Returns
    <3>2. PICK r \in Runs, i \in Nat, n \in Nat :
            r = req[v].run /\ i = req[v].cut /\ n = count_features(r)
      BY <1>types DEF Request
    <3>3. i = n + 1 /\ has_twin_state(r)
      BY <1>local, <2>1, <2>3, <3>2 DEF Local, Numbered
    <3>4. count_features(r)' = n + 1
      BY <1>4, <2>3, <3>2, CountAppended DEF IInv, TypeInv
    <3>5. \A j \in 1..Len(twin[r]) : twin[r][j] < i
      BY <3>2, <3>3 DEF IInv, Tables, PosteriorInOrder, FeatureRows
    <3>6. [run |-> r, cut |-> i, src |-> v] \in features'
      BY <2>1, <2>3, <3>2
    <3> QED
      BY <1>local, <2>1, <2>3, <3>1, <3>2, <3>3, <3>4, <3>5, <3>6 DEF Local, has_twin_state, Numbered
  <2>4. u = v => pc'[v] \in {"load_twin", "exit"}
    BY <1>4, <1>types DEF AppendFeatures, Returns
  <2> QED BY <2>2, <2>3, <2>4, LocalOutside
<1>5. ASSUME NEW u \in Payloads, SaveTwin(u) PROVE Local(v)'
  <2>1. /\ UNCHANGED <<blobs, cuts, features, rul>>
        /\ twin' = [twin EXCEPT ![req[u].run] = filtered(u)]
        /\ pc[u] = "save_twin"
    BY <1>5 DEF SaveTwin, save_twin_state
  <2>2. CASE u # v
    <3>1. pc'[v] = pc[v] /\ req'[v] = req[v]
      BY <1>5, <1>types, <2>2 DEF SaveTwin
    <3>2. ASSUME pc[v] \in Numbered \cup {"index"} PROVE twin'[req[v].run] = twin[req[v].run]
      BY <1>apart, <1>types, <2>1, <2>2, <3>2 DEF Numbered, TablesOK
    <3> QED BY <2>1, <3>1, <3>2, <1>local, LocalFrame
  <2>3. CASE u = v /\ pc'[v] = "append_rul"
    <3>1. PICK r \in Runs, i \in Nat : r = req[v].run /\ i = req[v].cut
      BY <1>types DEF Request
    <3>2. /\ req'[v].run = r /\ req'[v].cut = i /\ req'[v].post = Append(twin[r], i)
          /\ twin'[r] = Append(twin[r], i)
          /\ req'[v].status = req[v].status
      BY <1>5, <1>local, <1>types, <2>1, <2>3, <3>1 DEF SaveTwin, filtered, Local, TablesOK, Request
    <3>3. twin[r] \in Seq(Nat) /\ \A j \in 1..Len(twin[r]) : twin[r][j] < i
      BY <1>local, <1>types, <2>1, <2>3, <3>1
         DEF Local, Numbered, has_twin_state, TablesOK, Posterior
    <3>4. EndsIn(Append(twin[r], i), i) /\ Append(twin[r], i) \in Seq(Nat)
      BY <3>3 DEF EndsIn
    <3>5. i \notin IndicesOf(rul, r)
      <4> SUFFICES ASSUME NEW p \in rul, p.run = r, p.cut = i PROVE FALSE
        BY DEF IndicesOf, Of
      <4>1. EndsIn(p.post, i) /\ Prefix(p.post, twin[r]) /\ p.post \in Seq(Nat)
        BY <1>types DEF IInv, Tables, RulFromPosterior, TablesOK, RulRow, Posterior
      <4>2. PICK L \in Nat : L = Len(p.post)
        BY <4>1
      <4>3. L \in 1..Len(twin[r]) /\ p.post[L] = i /\ p.post[L] = twin[r][L]
        BY <3>3, <4>1, <4>2 DEF EndsIn, Prefix
      <4>4. twin[r][L] < i
        BY <3>3, <4>3
      <4> QED BY <4>3, <4>4
    <3>6. count_features(r)' = count_features(r) /\ IndicesOf(rul, r)' = IndicesOf(rul, r)
      BY <2>1 DEF count_features, IndicesOf, Of
    <3>7. /\ i = count_features(r) /\ [run |-> r, cut |-> i, src |-> v] \in features
          /\ req[v].status # 200
      BY <1>local, <2>1, <2>3, <3>1 DEF Local
    <3>8. Append(twin[r], i) # NoTwin
      BY <3>4, NoTwinAssumption
    <3> QED
      BY <2>1, <2>3, <3>2, <3>4, <3>5, <3>6, <3>7, <3>8
         DEF Local, has_twin_state, EndsIn, Numbered
  <2>4. u = v => pc'[v] \in {"append_rul", "exit"}
    BY <1>5, <1>types DEF SaveTwin
  <2> QED BY <2>2, <2>3, <2>4, LocalOutside
<1>6. ASSUME NEW u \in Payloads, AppendRul(u) PROVE Local(v)'
  <2>1. /\ UNCHANGED <<blobs, cuts, features, twin>>
        /\ rul' = rul \cup {[run |-> req[u].run, cut |-> req[u].cut, post |-> req[u].post]}
        /\ pc[u] = "append_rul"
    BY <1>6 DEF AppendRul, append_rul
  <2>2. CASE u # v
    <3>1. pc'[v] = pc[v] /\ req'[v] = req[v]
      BY <1>6, <1>types, <2>2 DEF AppendRul
    <3>2. ASSUME pc[v] \in Numbered \cup {"index"}
          PROVE  IndicesOf(rul', req[v].run) = IndicesOf(rul, req[v].run)
      <4>1. req[u].run # req[v].run
        BY <1>apart, <2>1, <2>2, <3>2 DEF Numbered
      <4>2. Of(rul', req[v].run) = Of(rul, req[v].run)
        BY <2>1, <4>1 DEF Of
      <4> QED BY <4>2 DEF IndicesOf
    <3> QED BY <2>1, <3>1, <3>2, <1>local, LocalFrame
  <2>3. CASE u = v
    BY <1>6, <1>types, <2>3 DEF AppendRul, Local, Numbered, Request
  <2> QED BY <2>2, <2>3
<1>7. CASE Restart
  <2>1. pc'[v] \in {"unsent", "answered", "lost"} /\ req' = req
    BY <1>7, <1>types DEF Restart, Phase
  <2>2. req[v].status = 200 => pc'[v] \in {"exit", "answered", "lost"}
    BY <1>7, <1>local, <1>types DEF Restart, Local, InFlight, InLock
  <2> QED BY <2>1, <2>2 DEF Local, Numbered
<1> QED
  BY <1>0, <1>1, <1>2, <1>3, <1>4, <1>5, <1>6, <1>7 DEF Next, Step

(***************************************************************************)
(* What a step may touch.                                                  *)
(***************************************************************************)
\* Four statements write a table.
LEMMA Writers ==
  ASSUME [Next]_vars
  PROVE  \/ UNCHANGED tables
         \/ \E v \in Payloads : AppendCut(v) \/ AppendFeatures(v) \/ SaveTwin(v) \/ AppendRul(v)
BY DEF Next, Step, vars, Receive, EnterRunLock, CheckMachine, CheckRun, CheckLabels, CheckTwin,
       Check, AssignIndex, PutBlob, Decode, LoadTwin, StatementRaises, ExitRunLock, Restart

\* No step of ingest touches the registry or deletes a row.
LEMMA RowsStay ==
  ASSUME [Next]_vars
  PROVE  UNCHANGED <<machines, runs, labels>> /\ features \subseteq features' /\ rul \subseteq rul'
<1>1. CASE UNCHANGED tables
  BY <1>1 DEF tables
<1>2. ASSUME NEW v \in Payloads, AppendCut(v) \/ AppendFeatures(v)
      PROVE  UNCHANGED <<machines, runs, labels>> /\ features \subseteq features' /\ rul \subseteq rul'
  BY <1>2 DEF AppendCut, append_cut, AppendFeatures, append_features
<1>3. ASSUME NEW v \in Payloads, SaveTwin(v) \/ AppendRul(v)
      PROVE  UNCHANGED <<machines, runs, labels>> /\ features \subseteq features' /\ rul \subseteq rul'
  BY <1>3 DEF SaveTwin, save_twin_state, AppendRul, append_rul
<1> QED BY <1>1, <1>2, <1>3, Writers

\* A thread works on its own request, and not on whose it is.
LEMMA OwnRequest ==
  ASSUME req \in [Payloads -> Request], NEW v \in Payloads, Receive(v) \/ Step(v)
  PROVE  \A u \in Payloads :
           /\ u # v => req'[u] = req[u]
           /\ req'[u].user = req[u].user /\ req'[u].machine = req[u].machine
           /\ req'[u].run = req[u].run
<1> USE DEF At, Goto, Raise, Check, Returns
<1>1. \/ UNCHANGED req
      \/ \E x : req' = [req EXCEPT ![v].status = x]
      \/ \E x : req' = [req EXCEPT ![v].cut = x]
      \/ \E x : req' = [req EXCEPT ![v].post = x]
  <2>1. CASE Receive(v) \/ EnterRunLock(v) \/ ExitRunLock(v) \/ StatementRaises(v)
    BY <2>1 DEF Receive, EnterRunLock, ExitRunLock, StatementRaises
  <2>2. CASE CheckMachine(v) \/ CheckRun(v) \/ CheckLabels(v) \/ CheckTwin(v) \/ Decode(v)
    BY <2>2 DEF CheckMachine, CheckRun, CheckLabels, CheckTwin, Decode
  <2>3. CASE PutBlob(v) \/ AppendCut(v) \/ AppendFeatures(v)
    BY <2>3 DEF PutBlob, AppendCut, AppendFeatures
  <2>4. CASE AssignIndex(v) \/ LoadTwin(v)
    BY <2>4 DEF AssignIndex, LoadTwin
  <2>5. CASE SaveTwin(v) \/ AppendRul(v)
    BY <2>5 DEF SaveTwin, AppendRul
  <2> QED BY <2>1, <2>2, <2>3, <2>4, <2>5 DEF Step
<1> QED BY <1>1 DEF Request

LEMMA AckStep == IInv /\ [Next]_vars => AckRows'
<1> SUFFICES ASSUME IInv, [Next]_vars, NEW u \in Payloads, req'[u].status = 200
             PROVE  /\ [run |-> req'[u].run, cut |-> req'[u].cut, src |-> u] \in features'
                    /\ req'[u].cut \in IndicesOf(rul', req'[u].run)
  BY DEF AckRows, IndicesOf, Of
<1> USE DEF At, Goto, Raise
<1>types. req \in [Payloads -> Request] /\ pc \in [Payloads -> Phase]
  BY DEF IInv, TypeInv, TypeOK
<1>local. Local(u) /\ (req[u].status = 200 => pc[u] \in {"exit", "answered", "lost"})
  BY DEF IInv, Locals, Local
<1>1. features \subseteq features' /\ rul \subseteq rul'
  BY RowsStay
<1>2. \/ req'[u] = req[u]
      \/ Receive(u) \/ Step(u)
  <2>1. CASE Restart \/ UNCHANGED vars
    BY <2>1 DEF Restart, vars
  <2>2. ASSUME NEW v \in Payloads, v # u, Receive(v) \/ Step(v) PROVE req'[u] = req[u]
    BY <1>types, <2>2, OwnRequest
  <2> QED BY <2>1, <2>2 DEF Next
<1>3. CASE req'[u] = req[u]
  BY <1>1, <1>3 DEF IInv, AckRows, IndicesOf, Of
<1>4. CASE Receive(u) \/ Step(u)
  <2>1. \/ AppendRul(u) /\ req'[u] = [req[u] EXCEPT !.status = 200]
        \/ req'[u] = req[u]
    <3> DEFINE Raised == \E s \in {400, 404, 409} : req' = [req EXCEPT ![u].status = s]
    <3>0. ~Raised
      <4> SUFFICES ASSUME NEW s \in {400, 404, 409}, req' = [req EXCEPT ![u].status = s]
                   PROVE  FALSE
        OBVIOUS
      <4>1. req'[u].status = s
        BY <1>types DEF Request
      <4> QED BY <4>1
    <3>1. CASE Receive(u) \/ StatementRaises(u)
      <4>1. req' = req \/ Raised
        BY <3>1 DEF Receive, StatementRaises
      <4> QED BY <3>0, <4>1
    <3>2. CASE EnterRunLock(u) \/ ExitRunLock(u)
      BY <3>2 DEF EnterRunLock, ExitRunLock
    <3>3. CASE CheckMachine(u) \/ CheckRun(u) \/ CheckLabels(u) \/ CheckTwin(u) \/ Decode(u)
      <4>1. req' = req \/ Raised
        BY <3>3 DEF CheckMachine, CheckRun, CheckLabels, CheckTwin, Decode, Check
      <4> QED BY <3>0, <4>1
    <3>4. CASE PutBlob(u) \/ AppendCut(u) \/ AppendFeatures(u)
      <4>1. req' = req \/ Raised
        BY <3>4 DEF PutBlob, AppendCut, AppendFeatures, Returns
      <4> QED BY <3>0, <4>1
    <3>5. CASE AssignIndex(u) \/ LoadTwin(u) \/ SaveTwin(u)
      <4>1. pc[u] \in {"index", "load_twin", "save_twin"}
        BY <3>5 DEF AssignIndex, LoadTwin, SaveTwin
      <4>2. \/ Raised
            \/ \E x : req' = [req EXCEPT ![u].cut = x] \/ req' = [req EXCEPT ![u].post = x]
        BY <3>5 DEF AssignIndex, LoadTwin, SaveTwin
      <4>3. req'[u].status = req[u].status
        BY <1>types, <3>0, <4>2 DEF Request
      <4> QED BY <1>local, <4>1, <4>3
    <3>6. CASE AppendRul(u)
      <4>1. Raised \/ req' = [req EXCEPT ![u].status = 200]
        BY <3>6 DEF AppendRul
      <4> QED BY <1>types, <3>0, <3>6, <4>1
    <3> QED BY <1>4, <3>1, <3>2, <3>3, <3>4, <3>5, <3>6 DEF Step
  <2>2. CASE req'[u] = req[u]
    BY <1>3, <2>2
  <2>3. CASE AppendRul(u) /\ req'[u] = [req[u] EXCEPT !.status = 200]
    <3>1. req'[u].run = req[u].run /\ req'[u].cut = req[u].cut
      BY <2>3
    <3>2. [run |-> req[u].run, cut |-> req[u].cut, src |-> u] \in features
      BY <1>local, <2>3 DEF AppendRul, Local
    <3>3. [run |-> req[u].run, cut |-> req[u].cut, post |-> req[u].post] \in rul'
      BY <2>3 DEF AppendRul, append_rul
    <3> QED BY <1>1, <3>1, <3>2, <3>3 DEF IndicesOf, Of
  <2> QED BY <2>1, <2>2, <2>3
<1> QED BY <1>2, <1>3, <1>4

THEOREM Invariance == Spec => []IInv
<1>1. IInv /\ [Next]_vars => IInv'
  BY TypeInvStep, RunLockedStep, TablesStep, LocalsStep, AckStep DEF IInv
<1> QED BY IInvInit, <1>1, PTL DEF Spec

(***************************************************************************)
(* What the invariant gives.                                               *)
(***************************************************************************)
\* The features of every run are numbered 1..n, and its cuts at most 1..n+1.
THEOREM Dense == Spec => []IndicesDense
<1>1. IInv => IndicesDense
  <2> SUFFICES ASSUME IInv, NEW r \in Runs
               PROVE  IndicesOf(cuts, r) \subseteq 1..(count_features(r) + 1)
    BY DEF IndicesDense, IInv, Tables, FeatureRows
  <2>1. count_features(r) \in Nat
    BY CountIsNat DEF IInv, TypeInv
  <2> QED
    BY <2>1 DEF IInv, TypeInv, TypeOK, TablesOK, CutRow, Index, Tables, CutRows, IndicesOf, Of
<1> QED BY Invariance, <1>1, PTL

\* The blob a cut's key names is the one its features were extracted from.
THEOREM Sources == Spec => []BlobIsSource
<1>1. IInv => BlobIsSource
  BY DEF IInv, Tables
<1> QED BY Invariance, <1>1, PTL

\* The twin absorbs no cut twice, none out of order, none without features.
THEOREM Absorption == Spec => []PosteriorInOrder
<1>1. IInv => PosteriorInOrder
  BY DEF IInv, Tables
<1> QED BY Invariance, <1>1, PTL

\* No update of the twin is lost behind a published prediction.
THEOREM Predictions == Spec => []RulFromPosterior
<1>1. IInv => RulFromPosterior
  BY DEF IInv, Tables
<1> QED BY Invariance, <1>1, PTL

\* A 200 answer survives later requests, errors and restarts.
THEOREM Acknowledged == Spec => []AckDurable
<1>1. IInv => AckDurable
  <2> SUFFICES ASSUME IInv, NEW u \in Payloads, req[u].status = 200 PROVE Durable(u)
    BY DEF AckDurable
  <2> DEFINE row == [run |-> req[u].run, cut |-> req[u].cut, src |-> u]
  <2>0. row \in features
    BY DEF IInv, AckRows
  <2> HIDE DEF row
  <2>1. PICK f \in features : f = row
    BY <2>0
  <2>2. /\ req[u].run \in Runs
        /\ f.run = req[u].run /\ f.cut = req[u].cut /\ f \in Of(features, req[u].run)
    BY <2>1 DEF IInv, TypeInv, TypeOK, Request, Of, row
  <2>3. {g \in Of(features, req[u].run) : g.cut = req[u].cut} = {f}
    BY <2>2 DEF IInv, Tables, FeatureRows
  <2>4. \E c \in cuts : c.run = f.run /\ c.cut = f.cut
    <3>1. BlobIsSource
      BY DEF IInv, Tables
    <3>2. \A g \in features : \E c \in cuts : c.run = g.run /\ c.cut = g.cut
      BY ONLY <3>1, Zenon DEF BlobIsSource
    <3> QED BY <3>2
  <2>5. PICK c \in cuts : c.run = req[u].run /\ c.cut = req[u].cut
    BY <2>2, <2>4
  <2>6. req[u].cut \in IndicesOf(rul, req[u].run)
    BY DEF IInv, AckRows
  <2>7. PICK p \in rul : p.run = req[u].run /\ p.cut = req[u].cut
    BY <2>6 DEF IndicesOf, Of
  <2>8. /\ EndsIn(p.post, req[u].cut)
        /\ Prefix(p.post, twin[req[u].run])
        /\ twin[req[u].run] \in Seq(Nat) /\ p.post \in Seq(Nat)
    BY <2>2, <2>7 DEF IInv, Tables, RulFromPosterior, has_twin_state, TypeInv, TypeOK, TablesOK,
                      RulRow, Posterior
  <2>9. \E j \in 1..Len(twin[req[u].run]) : twin[req[u].run][j] = req[u].cut
    BY <2>8 DEF EndsIn, Prefix
  <2>10. has_cut(req[u].run, req[u].cut)
    BY <2>5, <2>6 DEF has_cut, IndicesOf, Of
  <2> QED BY <2>1, <2>3, <2>6, <2>9, <2>10 DEF Durable, row
<1> QED BY Invariance, <1>1, PTL
-----------------------------------------------------------------------------
(***************************************************************************)
(* Refinement.  append_features admits a cut, the save of the twin absorbs *)
(* it, append_rul publishes it; no other step is seen by the ledger.       *)
(***************************************************************************)
LEMMA Unseen ==
  ASSUME UNCHANGED <<features, twin, rul>> PROVE UNCHANGED Ledger!vars
BY DEF Ledger!vars, count_features, IndicesOf, Of

\* The abstract values of one run, as its thread sees them.
LEMMA Known ==
  ASSUME IInv, NEW u \in Payloads, pc[u] \in Numbered
  PROVE  /\ req[u].run \in Runs /\ req[u].cut \in Nat \ {0}
         /\ twin[req[u].run] # NoTwin /\ twin[req[u].run] \in Seq(Nat)
<1>1. req[u] \in Request /\ req[u].cut # 0 /\ TablesOK
  BY DEF IInv, TypeInv, TypeOK
<1>2. has_twin_state(req[u].run)
  BY DEF IInv, Locals, Local
<1> QED BY <1>1, <1>2 DEF Request, TablesOK, has_twin_state, Posterior

LEMMA AdmitStep ==
  ASSUME IInv, NEW u \in Payloads, AppendFeatures(u)
  PROVE  Ledger!Admit(req[u].run)
<1>1. PICK r \in Runs : r = req[u].run /\ twin[r] # NoTwin
  BY Known DEF AppendFeatures, At, Numbered
<1>2. /\ count_features(r)' = count_features(r) + 1
      /\ \A s : s # r => Of(features', s) = Of(features, s)
  BY <1>1, CountAppended DEF IInv, TypeInv
<1>3. \A s \in Runs : s # r => count_features(s)' = count_features(s)
  BY <1>2 DEF count_features, Of
<1>4. [s \in Runs |-> count_features(s)]'
        = [[s \in Runs |-> count_features(s)] EXCEPT ![r] = @ + 1]
  BY <1>2, <1>3
<1>5. UNCHANGED <<twin, rul>>
  BY DEF AppendFeatures, append_features
<1>6. [s \in Runs |-> IndicesOf(rul, s)]' = [s \in Runs |-> IndicesOf(rul, s)]
  BY <1>5 DEF IndicesOf, Of
<1>7. twin' = twin
  BY <1>5
<1>8. Ledger!Admit(r)
  BY <1>1, <1>4, <1>6, <1>7 DEF Ledger!Admit
<1> QED BY <1>1, <1>8

LEMMA AbsorbStep ==
  ASSUME IInv, NEW u \in Payloads, SaveTwin(u)
  PROVE  Ledger!Absorb(req[u].run)
<1>1. PICK r \in Runs, i \in Nat \ {0} :
         r = req[u].run /\ i = req[u].cut /\ twin[r] # NoTwin /\ twin[r] \in Seq(Nat)
  BY Known DEF SaveTwin, At, Numbered
<1>2. /\ i = count_features(r)
      /\ \A j \in 1..Len(twin[r]) : twin[r][j] < i
      /\ req[u].post = twin[r]
  BY <1>1 DEF SaveTwin, At, IInv, Locals, Local
<1>3. ~(Len(twin[r]) > 0 /\ twin[r][Len(twin[r])] = i)
  BY <1>1, <1>2
<1>4. twin' = [twin EXCEPT ![r] = Append(twin[r], i)]
  BY <1>1, <1>2 DEF SaveTwin, save_twin_state, filtered
<1>5. [s \in Runs |-> count_features(s)]' = [s \in Runs |-> count_features(s)]
  BY DEF SaveTwin, save_twin_state, count_features, Of
<1>6. [s \in Runs |-> IndicesOf(rul, s)]' = [s \in Runs |-> IndicesOf(rul, s)]
  BY DEF SaveTwin, save_twin_state, IndicesOf, Of
<1>7. [s \in Runs |-> count_features(s)][r] = i
  BY <1>2
<1> DEFINE admitted == [s \in Runs |-> count_features(s)]
<1>8. ~Ledger!Newest(r, admitted[r]) /\ admitted[r] > 0
  BY <1>1, <1>3, <1>7 DEF Ledger!Newest
<1>9. twin' = [twin EXCEPT ![r] = Append(@, admitted[r])]
  BY <1>4, <1>7
<1>10. Ledger!Absorb(r)
  BY <1>1, <1>5, <1>6, <1>8, <1>9, Zenon DEF Ledger!Absorb
<1> QED BY <1>1, <1>10

LEMMA PublishStep ==
  ASSUME IInv, NEW u \in Payloads, AppendRul(u)
  PROVE  Ledger!Publish(req[u].run)
<1>1. PICK r \in Runs, i \in Nat \ {0} :
         r = req[u].run /\ i = req[u].cut /\ twin[r] # NoTwin
  BY Known DEF AppendRul, At, Numbered
<1>2. i = count_features(r) /\ EndsIn(twin[r], i) /\ i \notin IndicesOf(rul, r)
  BY <1>1 DEF AppendRul, At, IInv, Locals, Local
<1> DEFINE row == [run |-> r, cut |-> i, post |-> req[u].post]
<1>3. rul' = rul \cup {row}
  BY <1>1 DEF AppendRul, append_rul
<1>4. row.run = r /\ row.cut = i
  OBVIOUS
<1> HIDE DEF row
<1>5. \A s \in Runs : IndicesOf(rul', s)
                        = IF s = r THEN IndicesOf(rul, r) \cup {i} ELSE IndicesOf(rul, s)
  BY <1>3, <1>4 DEF IndicesOf, Of
<1>6. [s \in Runs |-> IndicesOf(rul, s)]'
        = [[s \in Runs |-> IndicesOf(rul, s)] EXCEPT ![r] = @ \cup {i}]
  BY <1>5 DEF IndicesOf, Of
<1>7. twin' = twin /\ [s \in Runs |-> count_features(s)]' = [s \in Runs |-> count_features(s)]
  BY DEF AppendRul, append_rul, count_features, Of
<1>8. [s \in Runs |-> count_features(s)][r] = i
  BY <1>2
<1> QED BY <1>1, <1>2, <1>6, <1>7, <1>8 DEF Ledger!Publish, Ledger!Newest, EndsIn

LEMMA LedgerStep == IInv /\ [Next]_vars => [Ledger!Next]_(Ledger!vars)
<1> SUFFICES ASSUME IInv, [Next]_vars PROVE [Ledger!Next]_(Ledger!vars)
  OBVIOUS
<1>1. ASSUME NEW u \in Payloads, AppendFeatures(u) \/ SaveTwin(u) \/ AppendRul(u)
      PROVE  Ledger!Next
  <2>1. req[u].run \in Runs
    BY DEF IInv, TypeInv, TypeOK, Request
  <2> QED BY <1>1, <2>1, AdmitStep, AbsorbStep, PublishStep DEF Ledger!Next
<1>2. \/ UNCHANGED <<features, twin, rul>>
      \/ \E u \in Payloads : AppendFeatures(u) \/ SaveTwin(u) \/ AppendRul(u)
  BY DEF Next, Step, vars, tables, Receive, EnterRunLock, CheckMachine, CheckRun, CheckLabels,
         CheckTwin, Check, AssignIndex, PutBlob, AppendCut, append_cut, Decode, LoadTwin,
         StatementRaises, ExitRunLock, Restart
<1> QED BY <1>1, <1>2, Unseen

\* Ingest implements the ledger: whatever fails, crashes or interleaves, a run's
\* history of cuts, posterior and predictions only ever grows at its end.
THEOREM Refinement == Spec => RefinesLedger
<1>1. Init => Ledger!Init
  <2> SUFFICES ASSUME Init PROVE Ledger!Init
    OBVIOUS
  <2>1. \A r \in Runs : count_features(r) = 0 /\ IndicesOf(rul, r) = {}
    BY FS_EmptySet DEF Init, count_features, IndicesOf, Of
  <2>2. twin \in [Runs -> {<<>>, NoTwin}]
    BY DEF Init
  <2> QED BY <2>1, <2>2 DEF Ledger!Init
<1> QED
  BY Invariance, LedgerStep, <1>1, PTL DEF Spec, RefinesLedger, Ledger!Spec
=============================================================================
