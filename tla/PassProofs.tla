----------------------------- MODULE PassProofs -----------------------------
(***************************************************************************)
(* What the analyses, the replays and the live uploads of one run leave in *)
(* its tables, for every number of each: the cuts stay numbered 1..n, only *)
(* cuts that are stored are ever absorbed, and a pass that no other        *)
(* request wrote into ends with the twin, the predictions and the results  *)
(* of a single pass over every cut.                                        *)
(*                                                                         *)
(* ServiceInit admits any database that the schema does, so the numbering  *)
(* and the absorbed cuts are hypotheses about the database the service is  *)
(* started on: a database it was the only one to write satisfies them.     *)
(***************************************************************************)
EXTENDS RunServiceProofs

(***************************************************************************)
(* Numbering.  An index is free for the next cut, or taken already, from   *)
(* the moment it is computed to the insert that uses it: the tables only   *)
(* grow until a delete, and the primary key refuses an index that is       *)
(* stale.                                                                  *)
(***************************************************************************)
Indexed(u) ==
  pc[u] \in {"put", "append_cut", "decode", "append_features"} /\ Undeleted(req[u].run) =>
    req[u].cut <= count_features(req[u].run) + 1

Started(j) == Undeleted(job[j].run) => job[j].start <= count_features(job[j].run)

NumberInv ==
  /\ UploadsInv /\ ForeignKeys /\ DenseUnderAnalyze
  /\ \A u \in Payloads : Indexed(u)
  /\ \A j \in Jobs : Started(j)


CutsIn(rows)  == {row.cut : row \in rows}
IsDense(r)      == IndicesOf(features, r) = 1..count_features(r)
Contiguous(r) == \A i \in IndicesOf(cuts, r) : i > 1 => i - 1 \in IndicesOf(cuts, r)

\* Numbers 1..m count the rows they number.
LEMMA CountOfDense ==
  ASSUME NEW rows, IsFiniteSet(rows), \A x, y \in rows : x.cut = y.cut => x = y,
         NEW m \in Nat, CutsIn(rows) = 1..m
  PROVE  Cardinality(rows) = m
<1> DEFINE f == [row \in rows |-> row.cut]
<1>1. f \in Bijection(rows, 1..m)
  <2>1. {row.cut : row \in rows} = 1..m
    BY DEF CutsIn
  <2>2. f \in [rows -> 1..m]
    BY <2>1
  <2>3. \A i \in 1..m : \E row \in rows : f[row] = i
    BY <2>1
  <2>4. \A x, y \in rows : f[x] = f[y] => x = y
    OBVIOUS
  <2> HIDE DEF f
  <2> QED BY <2>2, <2>3, <2>4 DEF Bijection, Injection, IsInjective, Surjection
<1>2. Cardinality(1..m) = Cardinality(rows)
  BY <1>1, FS_Bijection DEF ExistsBijection
<1>3. Cardinality(1..m) = m
  BY FS_Interval
<1> QED BY <1>2, <1>3

\* Until it is deleted, a run only gains features.
LEMMA Grown ==
  ASSUME UploadsInv,
         \/ \E u \in Payloads : IngestStep(u)
         \/ \E j \in Jobs : JobStep(j)
  PROVE  \A r : Undeleted(r)' =>
           /\ Undeleted(r)
           /\ IndicesOf(features, r) \subseteq IndicesOf(features', r)
           /\ count_features(r) \in Nat /\ count_features(r)' \in Nat
           /\ count_features(r) <= count_features(r)'
<1>0. IsFiniteSet(features) /\ IsFiniteSet(features')
  <2>1. ServiceTypeInv'
    BY ServiceTypeStep DEF UploadsInv, ServiceNext
  <2> QED BY <2>1 DEF UploadsInv, ServiceTypeInv, TypeInv
<1>1. ASSUME NEW r, Undeleted(r)' PROVE Undeleted(r) /\ Of(features, r) \subseteq Of(features', r)
  <2>1. ASSUME NEW u \in Payloads, IngestStep(u) PROVE Undeleted(r) /\ features \subseteq features'
    BY <1>1, <2>1, UniqueIngest DEF IngestStep, UploadsInv, Undeleted
  <2>2. ASSUME NEW j \in Jobs, JobStep(j)
        PROVE  Undeleted(r) /\ \A f \in Of(features, r) : f \in features'
    <3>1. ServiceTypeInv /\ Control(j)
      BY DEF UploadsInv
    <3>2. Undeleted(r)
      BY <1>1, <2>2, <3>1, JobMoves, UndeletedBefore
    <3>3. \A f \in Of(features, r) : f \in features /\ f.run = r
      BY DEF Of
    <3>4. ASSUME NEW f \in Of(features, r) PROVE f \in features'
      <4>1. f.run = r /\ f \in features
        BY <3>3
      <4>2. Undeleted(f.run)'
        BY <1>1, <4>1
      <4> QED BY <2>2, <3>1, <4>1, <4>2, FeaturesStay
    <3> QED BY <3>2, <3>4
  <2> QED BY <2>1, <2>2 DEF Of
<1>2. ASSUME NEW r, Undeleted(r)'
      PROVE  /\ IndicesOf(features, r) \subseteq IndicesOf(features', r)
             /\ count_features(r) \in Nat /\ count_features(r)' \in Nat
             /\ count_features(r) <= count_features(r)'
  <2>1. IndicesOf(features, r) \subseteq IndicesOf(features', r)
    BY <1>1, <1>2 DEF IndicesOf
  <2>2. IsFiniteSet(Of(features', r))
    BY <1>0, FS_Subset DEF Of
  <2>3. Cardinality(Of(features, r)) <= Cardinality(Of(features', r))
    BY <1>1, <1>2, <2>2, FS_Subset
  <2>4. Cardinality(Of(features, r)) \in Nat /\ Cardinality(Of(features', r)) \in Nat
    BY <1>0, <2>2, CountIsNat, FS_CardinalityType DEF count_features
  <2>5. count_features(r)' = Cardinality(Of(features', r))
    BY DEF count_features, Of
  <2> QED BY <2>1, <2>3, <2>4, <2>5 DEF count_features
<1> QED BY <1>1, <1>2

\* The indices of a batch, and of what is left of one that was refused half-way.
LEMMA BatchIndices ==
  ASSUME NEW j \in Jobs, job[j] \in Job
  PROVE  /\ job[j].start \in Nat /\ Len(job[j].files) \in Nat
         /\ CutsIn(new_cuts(j))
              = (job[j].start + 1)..(job[j].start + Len(job[j].files))
         /\ CutsIn(new_features(j))
              = (job[j].start + 1)..(job[j].start + Len(job[j].files))
<1> DEFINE a == job[j].start
           L == Len(job[j].files)
<1>1. a \in Nat /\ L \in Nat /\ DOMAIN job[j].files = 1..L
  BY DEF Job
<1>2. {index(j, k) : k \in 1..L} = (a + 1)..(a + L)
  <2>1. \A k \in 1..L : index(j, k) = a + k
    BY DEF index
  <2> HIDE DEF a, L
  <2>2. \A i \in (a + 1)..(a + L) : i - a \in 1..L /\ i = a + (i - a)
    BY <1>1
  <2>3. \A k \in 1..L : a + k \in (a + 1)..(a + L)
    BY <1>1
  <2> QED BY <2>1, <2>2, <2>3
<1>3. CutsIn(new_cuts(j)) = {index(j, k) : k \in 1..L}
  <2> DEFINE new(k) == [run |-> job[j].run, cut |-> index(j, k),
                        key |-> <<Upload, job[j].run, index(j, k)>>]
  <2>1. \A k : new(k).cut = index(j, k)
    OBVIOUS
  <2>2. new_cuts(j) = {new(k) : k \in 1..L}
    BY <1>1 DEF new_cuts
  <2> HIDE DEF new
  <2> QED BY <2>1, <2>2 DEF CutsIn
<1>4. CutsIn(new_features(j)) = {index(j, k) : k \in 1..L}
  <2> DEFINE new(k) == [run |-> job[j].run, cut |-> index(j, k), src |-> job[j].files[k]]
  <2>1. \A k : new(k).cut = index(j, k)
    OBVIOUS
  <2>2. new_features(j) = {new(k) : k \in 1..L}
    BY <1>1 DEF new_features
  <2> HIDE DEF new
  <2> QED BY <2>1, <2>2 DEF CutsIn
<1> QED BY <1>1, <1>2, <1>3, <1>4

LEMMA PrefixIndices ==
  ASSUME NEW new, NEW refused \in SUBSET new, refused # {}, NEW a \in Nat, NEW n \in Nat,
         CutsIn(new) = (a + 1)..n
  PROVE  \E m \in Nat : /\ a <= m
                        /\ CutsIn(before(new, refused)) = (a + 1)..m
<1> USE DEF CutsIn
<1> DEFINE S == CutsIn(refused)
           l == least(S)
<1>1. S \subseteq (a + 1)..n /\ S # {}
  OBVIOUS
<1>2. S \in SUBSET Nat
  BY <1>1
<1>3. l \in S /\ \A k \in S : l <= k
  BY <1>1, <1>2, LeastIsMember
<1>4. l \in (a + 1)..n
  BY <1>1, <1>3
<1>5. \A row \in new : row.cut \in (a + 1)..n
  OBVIOUS
<1>6. ASSUME NEW row \in new PROVE row \in before(new, refused) <=> row.cut < l
  <2>1. PICK x \in refused : x.cut = l
    BY <1>3
  <2>2. \A y \in refused : l <= y.cut
    BY <1>3
  <2>3. \A y \in refused : y.cut \in (a + 1)..n
    OBVIOUS
  <2> HIDE DEF l
  <2> QED BY <1>4, <1>5, <2>1, <2>2, <2>3 DEF before
<1>7. before(new, refused) \subseteq new
  BY DEF before
<1> HIDE DEF l
<1>8. CutsIn(before(new, refused)) = {i \in (a + 1)..n : i < l}
  BY <1>6, <1>7
<1>9. {i \in (a + 1)..n : i < l} = (a + 1)..(l - 1)
  BY <1>4
<1> QED BY <1>4, <1>8, <1>9

LEMMA IndicesAdded ==
  ASSUME NEW table, NEW new, NEW r, \A row \in new : row.run = r
  PROVE  IndicesOf(table \cup new, r) = IndicesOf(table, r) \cup CutsIn(new)
<1>1. Of(table \cup new, r) = Of(table, r) \cup new
  BY DEF Of
<1> QED BY <1>1 DEF IndicesOf, CutsIn

\* What a job does to the cuts and the features of a run: nothing, or it adds
\* those of its upload, up to some index.
LEMMA CutsOfJob ==
  ASSUME UploadsInv, NEW j \in Jobs, JobStep(j), NEW r, Undeleted(r)'
  PROVE  \/ IndicesOf(cuts', r) = IndicesOf(cuts, r)
         \/ /\ job[j].run = r
            /\ \E m \in Nat :
                 IndicesOf(cuts', r) = IndicesOf(cuts, r) \cup (job[j].start + 1)..m
<1> DEFINE a == job[j].start
           n == a + Len(job[j].files)
<1>0. ServiceTypeInv /\ Control(j) /\ job[j] \in Job
  BY DEF UploadsInv, ServiceTypeInv
<1>1. /\ a \in Nat /\ n \in Nat
      /\ CutsIn(new_cuts(j)) = (a + 1)..n
  BY <1>0, BatchIndices
<1>2. \A row \in new_cuts(j) : row.run = job[j].run
  BY DEF new_cuts
<1>3. CASE cuts' = cuts
  BY <1>3
<1>4. ASSUME NEW new \in SUBSET new_cuts(j), cuts' = cuts \cup new,
             NEW m \in Nat, CutsIn(new) = (a + 1)..m
      PROVE  \/ IndicesOf(cuts', r) = IndicesOf(cuts, r)
             \/ /\ job[j].run = r
                /\ IndicesOf(cuts', r) = IndicesOf(cuts, r) \cup (a + 1)..m
  <2>1. \A row \in new : row.run = job[j].run
    BY <1>2
  <2> HIDE DEF a
  <2>2. CASE job[j].run = r
    <3>1. IndicesOf(cuts \cup new, r) = IndicesOf(cuts, r) \cup CutsIn(new)
      BY <2>1, <2>2, IndicesAdded
    <3> QED BY <1>4, <2>2, <3>1
  <2>3. CASE job[j].run # r
    <3>1. Of(cuts \cup new, r) = Of(cuts, r)
      BY <2>1, <2>3 DEF Of
    <3> QED BY <1>4, <3>1 DEF IndicesOf
  <2> QED BY <2>2, <2>3
<1>5. CASE AppendCuts(j)
  <2>1. cuts' = cuts \cup new_cuts(j)
    BY <1>5 DEF AppendCuts, append_cuts_bulk
  <2> HIDE DEF a, n
  <2>2. \/ IndicesOf(cuts', r) = IndicesOf(cuts, r)
        \/ /\ job[j].run = r
           /\ IndicesOf(cuts', r) = IndicesOf(cuts, r) \cup (a + 1)..n
    BY <1>1, <1>4, <2>1
  <2> QED BY <1>1, <2>2 DEF a
<1>6. CASE CutsRefused(j)
  <2> DEFINE kept == before(new_cuts(j), refused_cuts(j))
  <2>1. refused_cuts(j) # {} /\ refused_cuts(j) \in SUBSET new_cuts(j)
    BY <1>6 DEF CutsRefused, refused_cuts
  <2>2. cuts' = cuts \/ cuts' = cuts \cup kept
    BY <1>6 DEF CutsRefused
  <2>3. kept \in SUBSET new_cuts(j)
    BY DEF before
  <2> HIDE DEF a, n
  <2>4. PICK m \in Nat : CutsIn(kept) = (a + 1)..m
    BY <1>1, <2>1, PrefixIndices
  <2> HIDE DEF kept
  <2>5. CASE cuts' = cuts \cup kept
    BY <1>4, <2>3, <2>4, <2>5 DEF a
  <2> QED BY <1>3, <2>2, <2>5
<1>7. CASE Delete(j)
  <2>1. CASE clear_cuts(job[j].run) /\ jpc[j] = "del_cuts"
    <3>1. Undeleted(r)
      BY <1>0, JobMoves, UndeletedBefore
    <3>2. job[j].kind = "delete" /\ job[j].status = 0
      BY <1>0, <2>1 DEF Control, DelPhase
    <3>3. job[j].run # r
      BY <2>1, <3>1, <3>2 DEF Undeleted
    <3>4. Of(cuts', r) = Of(cuts, r)
      BY <2>1, <3>3 DEF clear_cuts, Of
    <3> QED BY <3>4 DEF IndicesOf
  <2> QED
    BY <1>3, <1>7, <2>1 DEF Delete, JAt, clear_cut_results, clear_rul, clear_twin, clear_features,
                            clear_labels, clear_run
<1> QED
  BY <1>3, <1>5, <1>6, <1>7 DEF JobStep, tables, BeginStart, BeginAnalyze, CreateUploads,
     create_machine, PickAfter, BeginView, BeginDelete,
     CreateRun, create_run, Fit, Deploy, save_twin_state, CountStart, HasTwin, ReadUpload,
     AppendFeatureRows, append_features_bulk, FeaturesRefused, ReadCache, Refit, Reset, ClearRul,
     clear_rul, ClearResults, clear_cut_results, ReadFeatures, Load, Save, StreamRul, append_rul,
     Hangup, FinishPass, StoreResults, save_cut_results, JobRaises

LEMMA FeaturesOfJob ==
  ASSUME UploadsInv, NEW j \in Jobs, JobStep(j), NEW r, Undeleted(r)'
  PROVE  \/ Of(features', r) = Of(features, r)
         \/ /\ job[j].run = r
            /\ \E m \in Nat :
                 /\ IndicesOf(features', r) = IndicesOf(features, r) \cup (job[j].start + 1)..m
                 /\ \A i \in (job[j].start + 1)..m : i \notin IndicesOf(features, r)
<1> DEFINE a == job[j].start
           n == a + Len(job[j].files)
<1>0. ServiceTypeInv /\ Control(j) /\ job[j] \in Job
  BY DEF UploadsInv, ServiceTypeInv
<1>1. /\ a \in Nat /\ n \in Nat
      /\ CutsIn(new_features(j)) = (a + 1)..n
  BY <1>0, BatchIndices
<1>2. \A row \in new_features(j) : row.run = job[j].run
  BY DEF new_features
<1>3. CASE features' = features
  BY <1>3
<1>4. ASSUME NEW new \in SUBSET new_features(j), features' = features \cup new,
             \A row \in new : row.cut \notin IndicesOf(features, row.run),
             NEW m \in Nat, CutsIn(new) = (a + 1)..m
      PROVE  \/ Of(features', r) = Of(features, r)
             \/ /\ job[j].run = r
                /\ IndicesOf(features', r) = IndicesOf(features, r) \cup (a + 1)..m
                /\ \A i \in (a + 1)..m : i \notin IndicesOf(features, r)
  <2>1. \A row \in new : row.run = job[j].run
    BY <1>2
  <2> HIDE DEF a
  <2>2. CASE job[j].run = r
    <3>0. IndicesOf(features \cup new, r) = IndicesOf(features, r) \cup CutsIn(new)
      BY <2>1, <2>2, IndicesAdded
    <3>1. IndicesOf(features', r) = IndicesOf(features, r) \cup (a + 1)..m
      BY <1>4, <3>0
    <3>2. \A i \in (a + 1)..m : \E row \in new : row.cut = i
      BY <1>4 DEF CutsIn
    <3>3. \A i \in (a + 1)..m : i \notin IndicesOf(features, r)
      BY <1>4, <2>1, <2>2, <3>2
    <3> QED BY <2>2, <3>1, <3>3
  <2>3. CASE job[j].run # r
    <3>1. Of(features \cup new, r) = Of(features, r)
      BY <2>1, <2>3 DEF Of
    <3> QED BY <1>4, <3>1
  <2> QED BY <2>2, <2>3
<1>5. CASE AppendFeatureRows(j)
  <2>1. /\ features' = features \cup new_features(j)
        /\ \A row \in new_features(j) : row.cut \notin IndicesOf(features, row.run)
    BY <1>2, <1>5 DEF AppendFeatureRows, append_features_bulk
  <2> HIDE DEF n
  <2> QED BY <1>1, <1>4, <2>1
<1>6. CASE FeaturesRefused(j)
  <2> DEFINE kept == before(new_features(j), refused_features(j))
  <2>1. refused_features(j) # {} /\ refused_features(j) \in SUBSET new_features(j)
    BY <1>6 DEF FeaturesRefused, refused_features
  <2>2. features' = features \/ features' = features \cup kept
    BY <1>6 DEF FeaturesRefused
  <2>3. \A row \in new_features(j) : row.cut \in Nat
    BY <1>0 DEF new_features, index, Job
  <2>4. \A row \in kept : row \in new_features(j) /\ row \notin refused_features(j)
    BY <2>3 DEF before
  <2>5. \A row \in kept : row.cut \notin IndicesOf(features, row.run)
    BY <2>4 DEF refused_features
  <2>6. kept \in SUBSET new_features(j)
    BY <2>4
  <2> HIDE DEF a, n
  <2>7. PICK m \in Nat : CutsIn(kept) = (a + 1)..m
    BY <1>1, <2>1, PrefixIndices
  <2> HIDE DEF kept
  <2>8. CASE features' = features \cup kept
    BY <1>4, <2>5, <2>6, <2>7, <2>8 DEF a
  <2> QED BY <1>3, <2>2, <2>8
<1>7. CASE Delete(j)
  <2>1. CASE clear_features(job[j].run) /\ jpc[j] = "del_features"
    <3>1. Undeleted(r)
      BY <1>0, JobMoves, UndeletedBefore
    <3>2. job[j].kind = "delete" /\ job[j].status = 0
      BY <1>0, <2>1 DEF Control, DelPhase
    <3>3. job[j].run # r
      BY <2>1, <3>1, <3>2 DEF Undeleted
    <3> QED BY <2>1, <3>3 DEF clear_features, Of
  <2> QED
    BY <1>3, <1>7, <2>1 DEF Delete, JAt, clear_cut_results, clear_rul, clear_twin, clear_cuts,
                            clear_labels, clear_run
<1> QED
  BY <1>3, <1>5, <1>6, <1>7 DEF JobStep, tables, BeginStart, BeginAnalyze, CreateUploads,
     create_machine, PickAfter, BeginView, BeginDelete,
     CreateRun, create_run, Fit, Deploy, save_twin_state, CountStart, HasTwin, ReadUpload,
     AppendCuts, append_cuts_bulk, CutsRefused, ReadCache, Refit, Reset, ClearRul,
     clear_rul, ClearResults, clear_cut_results, ReadFeatures, Load, Save, StreamRul, append_rul,
     Hangup, FinishPass, StoreResults, save_cut_results, JobRaises

LEMMA NumberInit == ServiceInit /\ DenseUnderAnalyze => NumberInv
<1> SUFFICES ASSUME ServiceInit, DenseUnderAnalyze PROVE NumberInv
  OBVIOUS
<1>1. UploadsInv /\ ForeignKeys
  BY UploadsInit DEF ServiceInit
<1>2. \A u \in Payloads : Indexed(u)
  BY DEF ServiceInit, Indexed
<1>3. \A r : count_features(r) \in Nat
  BY CountIsNat DEF ServiceInit
<1>4. \A j \in Jobs : Started(j)
  BY <1>3 DEF ServiceInit, Started
<1> QED BY <1>1, <1>2, <1>4 DEF NumberInv

\* The numbering in the next state: of the features, and of the cuts.
LEMMA DenseNext ==
  ASSUME UploadsInv', NEW r \in Runs, NEW m \in Nat, IndicesOf(features', r) = 1..m
  PROVE  IsDense(r)'
<1>1. IsFiniteSet(Of(features', r))
  BY FS_Subset DEF UploadsInv, ServiceTypeInv, TypeInv, Of
<1>2. \A x, y \in Of(features', r) : x.cut = y.cut => x = y
  BY DEF UploadsInv, UniqueFeatures, Of
<1>3. CutsIn(Of(features', r)) = 1..m
  BY DEF CutsIn, IndicesOf
<1>4. Cardinality(Of(features', r)) = m
  BY <1>1, <1>2, <1>3, CountOfDense
<1> QED BY <1>4 DEF IsDense, count_features, IndicesOf, Of

LEMMA DenseParts ==
  /\ DenseUnderAnalyze => \A r \in Runs : Undeleted(r) => IsDense(r) /\ Contiguous(r)
  /\ (\A r \in Runs : Undeleted(r)' => IsDense(r)' /\ Contiguous(r)') => DenseUnderAnalyze'
<1>1. \A r : Contiguous(r) <=> \A c \in Of(cuts, r) : c.cut > 1 => has_cut(r, c.cut - 1)
  BY DEF Contiguous, has_cut, IndicesOf
<1>2. \A r : Contiguous(r)' <=> \A c \in Of(cuts', r) : c.cut > 1 => has_cut(r, c.cut - 1)'
  BY DEF Contiguous, has_cut, IndicesOf, Of
<1> QED BY <1>1, <1>2 DEF DenseUnderAnalyze, IsDense, IndicesOf, Of

\* The cut rows reach as far as the features do.
LEMMA CutOfFeature ==
  ASSUME ForeignKeys, NEW r, NEW i \in IndicesOf(features, r)
  PROVE  i \in IndicesOf(cuts, r)
<1>1. PICK f \in features : f.run = r /\ f.cut = i
  BY DEF IndicesOf, Of
<1> QED BY <1>1 DEF ForeignKeys, has_cut

LEMMA DenseJob ==
  ASSUME NumberInv, NEW j \in Jobs, JobStep(j) PROVE DenseUnderAnalyze'
<1>0. UploadsInv /\ UploadsInv' /\ job[j] \in Job
  BY UploadsJob DEF NumberInv, UploadsInv, ServiceTypeInv
<1> DEFINE a == job[j].start
<1>1. a \in Nat
  BY <1>0 DEF Job
<1> SUFFICES ASSUME NEW r \in Runs, Undeleted(r)' PROVE IsDense(r)' /\ Contiguous(r)'
  BY DenseParts
<1> DEFINE n == count_features(r)
<1>2. Undeleted(r) /\ n \in Nat
  BY <1>0, Grown
<1>3. IsDense(r) /\ Contiguous(r)
  BY <1>2, DenseParts DEF NumberInv
<1>4. job[j].run = r => a <= n
  BY <1>2 DEF NumberInv, Started
<1>5. IsDense(r)'
  <2>1. CASE Of(features', r) = Of(features, r)
    BY <1>3, <2>1 DEF IsDense, IndicesOf, count_features, Of
  <2>2. ASSUME job[j].run = r, NEW m \in Nat,
               IndicesOf(features', r) = IndicesOf(features, r) \cup (a + 1)..m,
               \A i \in (a + 1)..m : i \notin IndicesOf(features, r)
        PROVE  IsDense(r)'
    <3>1. IndicesOf(features, r) = 1..n
      BY <1>3 DEF IsDense
    <3> HIDE DEF a, n
    <3>2. CASE m <= a
      <4>1. (a + 1)..m = {}
        BY <1>1, <3>2
      <4>2. IndicesOf(features', r) = 1..n
        BY <2>2, <3>1, <4>1
      <4> QED BY <1>0, <1>2, <4>2, DenseNext
    <3>3. CASE a < m
      <4>1. a + 1 \in (a + 1)..m
        BY <1>1, <3>3
      <4>2. a + 1 \notin 1..n
        BY <2>2, <3>1, <4>1
      <4>3. a = n
        BY <1>1, <1>2, <1>4, <2>2, <4>2
      <4>4. IndicesOf(features', r) = 1..m
        BY <1>2, <2>2, <3>1, <3>3, <4>3
      <4> QED BY <1>0, <4>4, DenseNext
    <3> QED BY <1>1, <3>2, <3>3
  <2> QED BY <1>0, <2>1, <2>2, FeaturesOfJob
<1>6. Contiguous(r)'
  <2>0. IndicesOf(cuts, r)' = IndicesOf(cuts', r)
    BY DEF IndicesOf, Of
  <2>1. CASE IndicesOf(cuts', r) = IndicesOf(cuts, r)
    BY <1>3, <2>0, <2>1 DEF Contiguous
  <2>2. ASSUME job[j].run = r, NEW m \in Nat,
               IndicesOf(cuts', r) = IndicesOf(cuts, r) \cup (a + 1)..m
        PROVE  Contiguous(r)'
    <3> SUFFICES ASSUME NEW i \in IndicesOf(cuts', r), i > 1 PROVE i - 1 \in IndicesOf(cuts', r)
      BY <2>0 DEF Contiguous
    <3>1. CASE i \in IndicesOf(cuts, r)
      BY <1>3, <2>2, <3>1 DEF Contiguous
    <3>2. CASE i = a + 1 /\ i \in (a + 1)..m
      <4>1. a \in 1..n
        BY <1>1, <1>2, <1>4, <2>2, <3>2
      <4>2. a \in IndicesOf(cuts, r)
        BY <1>3, <4>1, CutOfFeature DEF IsDense, NumberInv
      <4>3. i - 1 = a
        BY <1>1, <3>2
      <4> QED BY <2>2, <4>2, <4>3
    <3>3. CASE i # a + 1 /\ i \in (a + 1)..m
      <4> HIDE DEF a
      <4>1. i - 1 \in (a + 1)..m
        BY <1>1, <3>3
      <4> QED BY <2>2, <4>1
    <3> QED BY <2>2, <3>1, <3>2, <3>3
  <2> QED BY <1>0, <2>1, <2>2, CutsOfJob
<1> QED BY <1>5, <1>6

LEMMA NumberJob ==
  ASSUME NumberInv, NEW j \in Jobs, JobStep(j) PROVE NumberInv'
<1>0. UploadsInv /\ UploadsInv' /\ ServiceTypeInv /\ Moves(j)
  BY UploadsJob, JobMoves DEF NumberInv, UploadsInv
<1>1. ForeignKeys'
  BY <1>0, KeysJob DEF NumberInv
<1>2. DenseUnderAnalyze'
  BY DenseJob
<1>3. \A r : Undeleted(r)' => /\ Undeleted(r)
                              /\ count_features(r) \in Nat /\ count_features(r)' \in Nat
                              /\ count_features(r) <= count_features(r)'
  BY <1>0, Grown
<1>4. ASSUME NEW u \in Payloads PROVE Indexed(u)'
  <2>1. UNCHANGED <<pc, req>> /\ req[u].cut \in Nat
    BY <1>0 DEF JobStep, ServiceTypeInv, TypeInv, TypeOK, Request
  <2> QED BY <1>3, <2>1 DEF NumberInv, Indexed
<1>5. ASSUME NEW k \in Jobs PROVE Started(k)'
  <2>1. job'[k].run = job[k].run
    BY <1>0 DEF Moves, Frame
  <2>2. CASE job'[k].start = job[k].start
    <3>1. job[k].start \in Nat
      BY <1>0 DEF ServiceTypeInv, Job
    <3> QED BY <1>3, <2>1, <2>2, <3>1 DEF NumberInv, Started
  <2>3. CASE k = j /\ CountStart(j)
    <3> DEFINE n == count_features(job[j].run)
    <3>1. job' = [job EXCEPT ![j].start = n] /\ job \in [Jobs -> Job] /\ UNCHANGED features
      BY <1>0, <2>3 DEF CountStart, ServiceTypeInv, tables
    <3>2. job'[j].start = n
      <4> HIDE DEF n
      <4> QED BY <3>1 DEF Job
    <3>3. count_features(job[j].run)' = count_features(job'[j].run)
      BY <2>1, <2>3, <3>1 DEF count_features, Of
    <3> QED BY <1>3, <2>1, <2>3, <3>1, <3>2 DEF Started, count_features, Of
  <2> QED BY <1>0, <2>2, <2>3 DEF Moves, Frame
<1> QED BY <1>0, <1>1, <1>2, <1>4, <1>5 DEF NumberInv

LEMMA DenseIngest ==
  ASSUME NumberInv, NEW u \in Payloads, IngestStep(u) PROVE DenseUnderAnalyze'
<1> USE DEF At
<1> DEFINE i == req[u].cut
           s == req[u].run
<1>0. UploadsInv /\ UploadsInv' /\ TypeInv
  BY UploadsStep DEF NumberInv, UploadsInv, ServiceTypeInv, ServiceNext
<1>1. i \in Nat /\ (pc[u] \in {"append_cut", "append_features"} => i # 0)
  BY <1>0 DEF TypeInv, TypeOK, Request, Numbered
<1> SUFFICES ASSUME NEW r \in Runs, Undeleted(r)' PROVE IsDense(r)' /\ Contiguous(r)'
  BY DenseParts
<1> DEFINE n == count_features(r)
<1>2. Undeleted(r) /\ n \in Nat
  BY <1>0, Grown
<1>3. IsDense(r) /\ Contiguous(r)
  BY <1>2, DenseParts DEF NumberInv
<1>4. s = r /\ pc[u] \in {"append_cut", "append_features"} => i <= n + 1
  BY <1>2 DEF NumberInv, Indexed
<1>5. CASE UNCHANGED features
  <2>1. IsDense(r)'
    BY <1>3, <1>5 DEF IsDense, count_features, IndicesOf, Of
  <2>2. CASE AppendCut(u)
    <3> DEFINE row == [run |-> s, cut |-> i, key |-> waveform_key(u)]
    <3>1. cuts' = cuts \cup {row} /\ pc[u] = "append_cut"
      BY <2>2 DEF AppendCut, append_cut
    <3>2. row.run = s /\ row.cut = i
      OBVIOUS
    <3> HIDE DEF row
    <3>3. CASE s = r
      <4>1. IndicesOf(cuts, r)' = IndicesOf(cuts, r) \cup {i}
        BY <3>1, <3>2, <3>3 DEF IndicesOf, Of
      <4>2. i > 1 => i - 1 \in 1..n
        BY <1>1, <1>2, <1>4, <3>1, <3>3
      <4>3. \A k \in 1..n : k \in IndicesOf(cuts, r)
        BY <1>3, CutOfFeature DEF IsDense, NumberInv
      <4> QED BY <1>3, <2>1, <4>1, <4>2, <4>3 DEF Contiguous
    <3>4. CASE s # r
      <4>1. IndicesOf(cuts, r)' = IndicesOf(cuts, r)
        BY <3>1, <3>2, <3>4 DEF IndicesOf, Of
      <4> QED BY <1>3, <2>1, <4>1 DEF Contiguous
    <3> QED BY <3>3, <3>4
  <2>3. CASE UNCHANGED cuts
    BY <1>3, <2>1, <2>3 DEF Contiguous, IndicesOf, Of
  <2> QED
    BY <2>2, <2>3 DEF IngestStep, Receive, Step, tables, EnterRunLock, CheckMachine, CheckRun,
       CheckLabels, CheckTwin, Check, AssignIndex, PutBlob, Decode, AppendFeatures,
       append_features, LoadTwin, SaveTwin, save_twin_state, AppendRul, append_rul,
       StatementRaises, ExitRunLock
<1>6. CASE AppendFeatures(u)
  <2> DEFINE row == [run |-> s, cut |-> i, src |-> u]
  <2>1. /\ features' = features \cup {row} /\ UNCHANGED cuts
        /\ i \notin IndicesOf(features, s) /\ pc[u] = "append_features"
    BY <1>6 DEF AppendFeatures, append_features
  <2>2. row.run = s /\ row.cut = i
    OBVIOUS
  <2> HIDE DEF row
  <2>3. Contiguous(r)'
    BY <1>3, <2>1 DEF Contiguous, IndicesOf, Of
  <2>4. CASE s = r
    <3>1. IndicesOf(features', r) = IndicesOf(features, r) \cup {i}
      BY <2>1, <2>2, <2>4 DEF IndicesOf, Of
    <3>2. IndicesOf(features, r) = 1..n
      BY <1>3 DEF IsDense
    <3> HIDE DEF n, i
    <3>3. i = n + 1
      BY <1>1, <1>2, <1>4, <2>1, <2>4, <3>2
    <3>4. IndicesOf(features', r) = 1..(n + 1)
      BY <1>2, <3>1, <3>2, <3>3
    <3> QED BY <1>0, <1>2, <2>3, <3>4, DenseNext
  <2>5. CASE s # r
    <3>1. Of(features', r) = Of(features, r)
      BY <2>1, <2>2, <2>5 DEF Of
    <3> QED BY <1>3, <2>3, <3>1 DEF IsDense, IndicesOf, count_features, Of
  <2> QED BY <2>4, <2>5
<1> QED
  BY <1>5, <1>6 DEF IngestStep, Receive, Step, tables, EnterRunLock, CheckMachine, CheckRun,
     CheckLabels, CheckTwin, Check, AssignIndex, PutBlob, AppendCut, append_cut, Decode,
     LoadTwin, SaveTwin, save_twin_state, AppendRul, append_rul, StatementRaises, ExitRunLock

LEMMA NumberIngest ==
  ASSUME NumberInv, NEW u \in Payloads, IngestStep(u) PROVE NumberInv'
<1>0. UploadsInv /\ UploadsInv' /\ TypeInv /\ (Receive(u) \/ Step(u)) /\ UNCHANGED <<jpc, job>>
  BY UploadsStep DEF NumberInv, UploadsInv, ServiceTypeInv, ServiceNext, IngestStep
<1>1. ForeignKeys'
  BY <1>0, KeysIngest DEF NumberInv
<1>2. DenseUnderAnalyze'
  BY DenseIngest
<1>3. \A r : Undeleted(r)' => /\ Undeleted(r)
                              /\ count_features(r) \in Nat /\ count_features(r)' \in Nat
                              /\ count_features(r) <= count_features(r)'
  BY <1>0, Grown
<1>4. pc \in [Payloads -> Phase] /\ req \in [Payloads -> Request]
  BY <1>0 DEF TypeInv, TypeOK
<1>5. ASSUME NEW v \in Payloads PROVE Indexed(v)'
  <2>0. req[v].cut \in Nat
    BY <1>4 DEF Request
  <2>1. CASE v # u
    <3>1. pc'[v] = pc[v] /\ req'[v] = req[v]
      BY <1>0, <1>4, <2>1, ThreadFrame
    <3> QED BY <1>3, <2>0, <3>1 DEF NumberInv, Indexed
  <2>2. CASE v = u /\ AssignIndex(u)
    <3> DEFINE n == count_features(req[u].run)
    <3>1. req' = [req EXCEPT ![u].cut = n + 1] /\ UNCHANGED features
      BY <2>2 DEF AssignIndex, tables
    <3>2. req'[u].cut = n + 1 /\ req'[u].run = req[u].run
      <4> HIDE DEF n
      <4> QED BY <1>4, <3>1 DEF Request
    <3>3. count_features(req[u].run)' = n
      BY <3>1, <3>2 DEF count_features, Of
    <3>4. n \in Nat
      BY <1>0, CountIsNat DEF TypeInv
    <3> HIDE DEF n
    <3> QED BY <2>2, <3>2, <3>3, <3>4 DEF Indexed
  <2>3. CASE v = u /\ ~AssignIndex(u)
    <3>1. req'[u].run = req[u].run /\ req'[u].cut = req[u].cut
      BY <1>0, <1>4, <2>3, ThreadFrame
    <3>2. pc'[u] \in {"put", "append_cut", "decode", "append_features"} =>
            pc[u] \in {"put", "append_cut", "decode", "append_features"}
      BY <1>0, <1>4, <2>3 DEF Receive, Step, EnterRunLock, CheckMachine, CheckRun, CheckLabels,
         CheckTwin, Check, PutBlob, AppendCut, Decode, AppendFeatures, Returns, LoadTwin,
         SaveTwin, AppendRul, StatementRaises, ExitRunLock, At, Goto, Raise
    <3> QED BY <1>3, <2>0, <2>3, <3>1, <3>2 DEF NumberInv, Indexed
  <2> QED BY <2>1, <2>2, <2>3
<1>6. ASSUME NEW k \in Jobs PROVE Started(k)'
  <2>1. job[k].start \in Nat
    BY <1>0 DEF UploadsInv, ServiceTypeInv, Job
  <2> QED BY <1>0, <1>3, <2>1 DEF NumberInv, Started
<1> QED BY <1>0, <1>1, <1>2, <1>5, <1>6 DEF NumberInv

LEMMA NumberStep == NumberInv /\ [ServiceNext]_svars => NumberInv'
<1> SUFFICES ASSUME NumberInv, [ServiceNext]_svars PROVE NumberInv'
  OBVIOUS
<1>1. CASE UNCHANGED svars
  <2>1. UNCHANGED <<tables, pc, req, jpc, job>>
    BY <1>1 DEF svars, vars, jvars
  <2>2. UploadsInv' /\ ForeignKeys'
    BY <1>1, <2>1, UploadsStep, KeysUnchanged DEF NumberInv
  <2>3. \A r : Undeleted(r)' = Undeleted(r) /\ count_features(r)' = count_features(r)
    BY <2>1 DEF Undeleted, count_features, Of, tables
  <2>4. DenseUnderAnalyze'
    BY <2>1, <2>3 DEF NumberInv, DenseUnderAnalyze, has_cut, IndicesOf, Of, tables
  <2> QED BY <2>1, <2>2, <2>3, <2>4 DEF NumberInv, Indexed, Started
<1>2. CASE \E u \in Payloads : IngestStep(u)
  BY <1>2, NumberIngest
<1>3. CASE \E j \in Jobs : JobStep(j)
  BY <1>3, NumberJob
<1> QED BY <1>1, <1>2, <1>3 DEF ServiceNext

\* /analyze takes no run lock and its start may be stale when it writes, and so
\* may the index of an upload: the primary keys refuse what would leave a gap
\* or a repetition, whatever the files and however the requests interleave.
THEOREM DenseStays == ServiceSpec /\ DenseUnderAnalyze => []DenseUnderAnalyze
<1>1. NumberInv => DenseUnderAnalyze
  BY DEF NumberInv
<1> QED BY NumberInit, NumberStep, <1>1, PTL DEF ServiceSpec
-----------------------------------------------------------------------------
(***************************************************************************)
(* Absorbed cuts.  What a thread or a job holds of a posterior is stored   *)
(* cuts only, and so is what is left of its pass: so whatever it writes    *)
(* next is, too, in whichever order the writes of two passes fall.         *)
(***************************************************************************)
Stored(r)    == IndicesOf(features, r)
Within(p, S) == \A k \in DOMAIN p : p[k] \in S

RunAbsorbs(r) ==
  /\ \A row \in Of(rul, r) \cup Of(results, r) : Within(row.post, Stored(r))
  /\ has_twin_state(r) => Within(twin[r], Stored(r))

UploadAbsorbs(u) ==
  pc[u] \in {"save_twin", "append_rul"} /\ Undeleted(req[u].run) =>
    Within(req[u].post, Stored(req[u].run))

PassAbsorbs(j) ==
  LET r == job[j].run IN
  /\ \A row \in job[j].rows : row.run = r
  /\ Undeleted(r) =>
       /\ job[j].todo \subseteq Stored(r)
       /\ Within(job[j].post, Stored(r))
       /\ \A row \in job[j].rows : Within(row.post, Stored(r))

AbsorbInv ==
  /\ UploadsInv /\ AbsorbedAreStored
  /\ \A u \in Payloads : UploadAbsorbs(u)
  /\ \A j \in Jobs : PassAbsorbs(j)

\* AbsorbedAreStored, one run at a time.
LEMMA AbsorbParts ==
  /\ AbsorbedAreStored <=> \A r \in Runs : Undeleted(r) => RunAbsorbs(r)
  /\ AbsorbedAreStored' <=> \A r \in Runs : Undeleted(r)' => RunAbsorbs(r)'
<1>1. \A r \in Runs :
        RunAbsorbs(r) <=>
          \A p \in {row.post : row \in Of(rul, r) \cup Of(results, r)}
                   \cup (IF has_twin_state(r) THEN {twin[r]} ELSE {}) : Within(p, Stored(r))
  BY DEF RunAbsorbs
<1>2. \A r \in Runs :
        RunAbsorbs(r)' <=>
          \A p \in {row.post : row \in Of(rul', r) \cup Of(results', r)}
                   \cup (IF has_twin_state(r)' THEN {twin'[r]} ELSE {}) : Within(p, Stored(r)')
  BY DEF RunAbsorbs, Of, has_twin_state
<1>3. \A r : Stored(r)' = IndicesOf(features', r)
  BY DEF Stored, IndicesOf, Of
<1> QED
  BY <1>1, <1>2, <1>3 DEF AbsorbedAreStored, Within, Stored, Of, has_twin_state, IndicesOf

LEMMA WithinMore ==
  ASSUME NEW S, NEW p \in Posterior, Within(p, S), NEW i \in S
  PROVE  Within(Append(p, i), S)
BY DEF Within, Posterior

LEMMA WithinLarger ==
  ASSUME NEW S, NEW T, S \subseteq T, NEW p, Within(p, S) PROVE Within(p, T)
BY DEF Within

(***************************************************************************)
(* The locals of a pass, after each of its steps.                          *)
(***************************************************************************)
LEMMA PassLocals ==
  ASSUME JobsOK, NEW j \in Jobs
  PROVE  LET q == job[j]
             i == least(q.todo)
         IN
         /\ \A s : Answer(j, s) =>
              job'[j].todo = {} /\ job'[j].post = <<>> /\ job'[j].rows = q.rows
         /\ CountStart(j) =>
              job'[j].todo = q.todo /\ job'[j].post = q.post /\ job'[j].rows = q.rows
         /\ ReadCache(j) =>
              /\ job'[j].todo = q.todo /\ job'[j].post = q.post
              /\ job'[j].rows \in {q.rows, Of(results, q.run)}
         /\ ReadFeatures(j) =>
              /\ job'[j].todo = IndicesOf(features, q.run)
              /\ job'[j].post = q.post /\ job'[j].rows = {}
         /\ Load(j) =>
              job'[j].todo = q.todo /\ job'[j].post = twin[q.run] /\ job'[j].rows = q.rows
         /\ Save(j) /\ q.kind = "replay" =>
              job'[j].todo = q.todo /\ job'[j].post = Append(q.post, i) /\ job'[j].rows = q.rows
         /\ Save(j) /\ q.kind # "replay" =>
              /\ job'[j].todo = q.todo \ {i} /\ job'[j].post = q.post
              /\ job'[j].rows
                   = q.rows \cup {[run |-> q.run, cut |-> i, post |-> Append(q.post, i)]}
         /\ StreamRul(j) =>
              job'[j].todo = q.todo \ {i} /\ job'[j].post = q.post /\ job'[j].rows = q.rows
<1> DEFINE q == job[j]
           i == least(q.todo)
<1>0. q \in Job /\ job \in [Jobs -> Job]
  BY DEF JobsOK
<1>1. ASSUME NEW s, Answer(j, s)
      PROVE  job'[j].todo = {} /\ job'[j].post = <<>> /\ job'[j].rows = q.rows
  <2>1. job'[j] = [q EXCEPT !.status = s, !.todo = {}, !.post = <<>>]
    BY <1>0, <1>1 DEF Answer
  <2> QED BY <1>0, <2>1 DEF Job
<1>2. ASSUME CountStart(j)
      PROVE  job'[j].todo = q.todo /\ job'[j].post = q.post /\ job'[j].rows = q.rows
  <2>1. job'[j] = [q EXCEPT !.start = count_features(q.run)]
    BY <1>0, <1>2 DEF CountStart
  <2> QED BY <1>0, <2>1 DEF Job
<1>3. ASSUME ReadCache(j)
      PROVE  /\ job'[j].todo = q.todo /\ job'[j].post = q.post
             /\ job'[j].rows \in {q.rows, Of(results, q.run)}
  <2> DEFINE stored == Of(results, q.run)
  <2>1. job'[j] = q \/ job'[j] = [q EXCEPT !.rows = stored, !.status = 200]
    BY <1>0, <1>3 DEF ReadCache
  <2> HIDE DEF stored
  <2>2. CASE job'[j] = [q EXCEPT !.rows = stored, !.status = 200]
    BY <1>0, <2>2 DEF Job, stored
  <2> QED BY <2>1, <2>2
<1>4. ASSUME ReadFeatures(j)
      PROVE  /\ job'[j].todo = IndicesOf(features, q.run)
             /\ job'[j].post = q.post /\ job'[j].rows = {}
  <2>1. job'[j] = [q EXCEPT !.todo = IndicesOf(features, q.run), !.rows = {}]
    BY <1>0, <1>4 DEF ReadFeatures
  <2> QED BY <1>0, <2>1 DEF Job
<1>5. ASSUME Load(j)
      PROVE  job'[j].todo = q.todo /\ job'[j].post = twin[q.run] /\ job'[j].rows = q.rows
  <2>1. job'[j] = [q EXCEPT !.post = twin[q.run]]
    BY <1>0, <1>5 DEF Load
  <2> QED BY <1>0, <2>1 DEF Job
<1>6. ASSUME Save(j), q.kind = "replay"
      PROVE  /\ job'[j].todo = q.todo /\ job'[j].post = Append(q.post, i)
             /\ job'[j].rows = q.rows
  <2> DEFINE p == Append(q.post, i)
  <2>1. job'[j] = [q EXCEPT !.post = p]
    BY <1>0, <1>6 DEF Save
  <2> HIDE DEF p
  <2>2. job'[j].todo = q.todo /\ job'[j].post = p /\ job'[j].rows = q.rows
    BY <1>0, <2>1 DEF Job
  <2> QED BY <2>2 DEF p
<1>7. ASSUME Save(j), q.kind # "replay"
      PROVE  /\ job'[j].todo = q.todo \ {i} /\ job'[j].post = q.post
             /\ job'[j].rows
                  = q.rows \cup {[run |-> q.run, cut |-> i, post |-> Append(q.post, i)]}
  <2> DEFINE row == [run |-> q.run, cut |-> i, post |-> Append(q.post, i)]
  <2>1. job'[j] = [q EXCEPT !.todo = @ \ {i}, !.rows = @ \cup {row}]
    BY <1>0, <1>7 DEF Save
  <2> HIDE DEF row
  <2>2. /\ job'[j].todo = q.todo \ {i} /\ job'[j].post = q.post
        /\ job'[j].rows = q.rows \cup {row}
    BY <1>0, <2>1 DEF Job
  <2> QED BY <2>2 DEF row
<1>8. ASSUME StreamRul(j)
      PROVE  job'[j].todo = q.todo \ {i} /\ job'[j].post = q.post /\ job'[j].rows = q.rows
  <2>1. job'[j] = [q EXCEPT !.todo = @ \ {i}]
    BY <1>0, <1>8 DEF StreamRul
  <2> QED BY <1>0, <2>1 DEF Job
<1> QED BY <1>1, <1>2, <1>3, <1>4, <1>5, <1>6, <1>7, <1>8

\* Which steps of a job set a local, and which write what a pass reads.
LEMMA StepOfPass ==
  ASSUME ServiceTypeInv, NEW j \in Jobs, JobStep(j)
  PROVE  /\ \/ UNCHANGED job \/ (\E s : Answer(j, s))
            \/ CountStart(j) \/ ReadCache(j) \/ ReadFeatures(j) \/ Load(j) \/ Save(j)
            \/ StreamRul(j)
         /\ rul' \subseteq rul \/ StreamRul(j)
         /\ results' \subseteq results \/ StoreResults(j)
         /\ (\A r \in Runs : twin'[r] \in {twin[r], NoTwin, <<>>}) \/ Save(j)
<1>0. twin \in [Runs -> Posterior \cup {NoTwin}] /\ job[j].run \in Runs
  BY DEF ServiceTypeInv, TypeInv, TypeOK, TablesOK, Job
<1>1. CASE \/ BeginStart(j) \/ BeginAnalyze(j) \/ PickAfter(j) \/ BeginView(j) \/ BeginDelete(j)
           \/ Fit(j) \/ HasTwin(j) \/ ReadUpload(j) \/ Refit(j) \/ Hangup(j) \/ FinishPass(j)
           \/ JobRaises(j)
  <2>1. UNCHANGED tables
    BY <1>1 DEF BeginStart, BeginAnalyze, PickAfter, PickRun, BeginView, BeginDelete,
                Fit, HasTwin, ReadUpload,
                Refit, Hangup, FinishPass, JobRaises
  <2>2. UNCHANGED job \/ (\E s : Answer(j, s))
    BY <1>1 DEF BeginStart, BeginAnalyze, PickAfter, PickRun, BeginView, BeginDelete,
                Fit, HasTwin, ReadUpload,
                Refit, Hangup, FinishPass, JobRaises
  <2> QED BY <2>1, <2>2 DEF tables
<1>2. CASE Deploy(j) \/ Reset(j)
  BY <1>0, <1>2 DEF Deploy, Reset, save_twin_state
<1>3. CASE \/ CreateUploads(j) \/ CreateRun(j) \/ AppendCuts(j) \/ AppendFeatureRows(j)
           \/ CutsRefused(j)\/ FeaturesRefused(j) \/ ClearRul(j) \/ ClearResults(j) \/ StoreResults(j)
  BY <1>3 DEF CreateUploads, create_machine, CreateRun, create_run, AppendCuts, append_cuts_bulk,
              AppendFeatureRows,
              append_features_bulk, CutsRefused, FeaturesRefused, ClearRul, clear_rul,
              ClearResults, clear_cut_results, StoreResults, save_cut_results
<1>4. CASE \/ CountStart(j) \/ ReadCache(j) \/ ReadFeatures(j) \/ Load(j) \/ Save(j) \/ StreamRul(j)
  BY <1>4 DEF CountStart, ReadCache, ReadFeatures, Load, Save, save_twin_state, StreamRul,
              append_rul, tables
<1>5. CASE Delete(j)
  BY <1>0, <1>5 DEF Delete, clear_cut_results, clear_rul, clear_twin, clear_features, clear_labels,
                    clear_cuts, clear_run
<1> QED BY <1>1, <1>2, <1>3, <1>4, <1>5 DEF JobStep

LEMMA AbsorbInit == ServiceInit /\ AbsorbedAreStored => AbsorbInv
<1> SUFFICES ASSUME ServiceInit, AbsorbedAreStored PROVE AbsorbInv
  OBVIOUS
<1>1. UploadsInv
  BY UploadsInit
<1>2. \A u \in Payloads : UploadAbsorbs(u)
  BY DEF ServiceInit, UploadAbsorbs
<1>3. \A j \in Jobs : PassAbsorbs(j)
  BY DEF ServiceInit, PassAbsorbs, Within
<1> QED BY <1>1, <1>2, <1>3 DEF AbsorbInv

\* The write of a job, and its locals after it.
LEMMA AbsorbJob ==
  ASSUME AbsorbInv, NEW j \in Jobs, JobStep(j) PROVE AbsorbInv'
<1> DEFINE q == job[j]
           s == job[j].run
           i == least(q.todo)
<1>0. UploadsInv /\ UploadsInv' /\ ServiceTypeInv /\ Moves(j) /\ JobsOK
  BY UploadsJob, JobMoves DEF AbsorbInv, UploadsInv, ServiceTypeInv, JobsOK
<1>1. \A r : Undeleted(r)' => Undeleted(r) /\ Stored(r) \subseteq Stored(r)'
  <2>1. \A r : Stored(r)' = IndicesOf(features', r)
    BY DEF Stored, IndicesOf, Of
  <2> QED BY <1>0, <2>1, Grown DEF Stored
<1>2. /\ q \in Job /\ s \in Runs /\ q.post \in Posterior /\ q.todo \subseteq Index
      /\ twin \in [Runs -> Posterior \cup {NoTwin}]
  BY <1>0 DEF JobsOK, JobInv, Job, ServiceTypeInv, TypeInv, TypeOK, TablesOK
<1>3. PassAbsorbs(j)
  BY DEF AbsorbInv
<1>4. \A r \in Runs : Undeleted(r) => RunAbsorbs(r)
  BY AbsorbParts DEF AbsorbInv
\* A pass takes one of the cuts that are left.
<1>5. Save(j) \/ StreamRul(j) => i \in q.todo
  <2>1. Save(j) \/ StreamRul(j) => q.todo # {}
    BY <1>0 DEF JobsOK, JobInv, Save, StreamRul, JAt
  <2>2. q.todo \in SUBSET Nat
    BY <1>2 DEF Index
  <2> QED BY <2>1, <2>2, LeastIsMember
<1>6. Save(j) /\ Undeleted(s) => Within(Append(q.post, i), Stored(s))
  <2> SUFFICES ASSUME Save(j), Undeleted(s) PROVE Within(Append(q.post, i), Stored(s))
    OBVIOUS
  <2>1. i \in Stored(s) /\ Within(q.post, Stored(s))
    BY <1>3, <1>5 DEF PassAbsorbs
  <2> HIDE DEF i
  <2> QED BY <1>2, <2>1, WithinMore
<1>7. ASSUME NEW r \in Runs, Undeleted(r)' PROVE RunAbsorbs(r)'
  <2>0. Undeleted(r) /\ RunAbsorbs(r) /\ Stored(r) \subseteq Stored(r)'
    BY <1>1, <1>4, <1>7
  <2>1. ASSUME NEW row \in rul', row.run = r PROVE Within(row.post, Stored(r)')
    <3>1. CASE row \in rul
      BY <2>0, <2>1, <3>1, WithinLarger DEF RunAbsorbs, Of
    <3>2. CASE StreamRul(j) /\ row \notin rul
      <4> DEFINE added == [run |-> s, cut |-> i, post |-> q.post]
      <4>1. rul' = rul \cup {added}
        BY <3>2 DEF StreamRul, append_rul
      <4>2. added.run = s /\ added.post = q.post
        OBVIOUS
      <4> HIDE DEF added
      <4>3. s = r /\ row.post = q.post
        BY <2>1, <3>2, <4>1, <4>2
      <4> QED BY <1>3, <2>0, <4>3, WithinLarger DEF PassAbsorbs
    <3> QED BY <1>0, <3>1, <3>2, StepOfPass
  <2>2. ASSUME NEW row \in results', row.run = r PROVE Within(row.post, Stored(r)')
    <3>1. CASE row \in results
      BY <2>0, <2>2, <3>1, WithinLarger DEF RunAbsorbs, Of
    <3>2. CASE StoreResults(j) /\ row \notin results
      <4>1. row \in q.rows
        BY <3>2 DEF StoreResults, save_cut_results
      <4>2. s = r
        BY <1>3, <2>2, <4>1 DEF PassAbsorbs
      <4> QED BY <1>3, <2>0, <4>1, <4>2, WithinLarger DEF PassAbsorbs
    <3> QED BY <1>0, <3>1, <3>2, StepOfPass
  <2>3. twin'[r] # NoTwin => Within(twin'[r], Stored(r)')
    <3>1. CASE twin'[r] \in {twin[r], NoTwin, <<>>}
      <4>1. CASE twin'[r] = twin[r]
        BY <2>0, <4>1, WithinLarger DEF RunAbsorbs, has_twin_state
      <4>2. CASE twin'[r] = <<>>
        BY <4>2 DEF Within
      <4> QED BY <3>1, <4>1, <4>2
    <3>2. CASE Save(j)
      <4> DEFINE p == Append(q.post, i)
      <4>1. twin' = [twin EXCEPT ![s] = p]
        BY <3>2 DEF Save, save_twin_state
      <4> HIDE DEF p
      <4>2. CASE s = r
        <5>1. twin'[r] = p
          BY <1>2, <4>1, <4>2
        <5>2. Within(p, Stored(r))
          BY <1>6, <2>0, <3>2, <4>2 DEF p
        <5> QED BY <2>0, <5>1, <5>2, WithinLarger
      <4>3. CASE s # r
        <5>1. twin'[r] = twin[r]
          BY <1>2, <4>1, <4>3
        <5> QED BY <2>0, <5>1, WithinLarger DEF RunAbsorbs, has_twin_state
      <4> QED BY <4>2, <4>3
    <3> QED BY <1>0, <3>1, <3>2, StepOfPass
  <2> QED BY <2>1, <2>2, <2>3 DEF RunAbsorbs, Of, has_twin_state
<1>8. ASSUME NEW u \in Payloads PROVE UploadAbsorbs(u)'
  <2>1. UNCHANGED <<pc, req>> /\ UploadAbsorbs(u)
    BY DEF JobStep, AbsorbInv
  <2>2. ASSUME pc[u] \in {"save_twin", "append_rul"}, Undeleted(req[u].run)'
        PROVE  Within(req[u].post, Stored(req[u].run)')
    <3>1. Undeleted(req[u].run) /\ Stored(req[u].run) \subseteq Stored(req[u].run)'
      BY <1>1, <2>1, <2>2
    <3> QED BY <2>1, <2>2, <3>1, WithinLarger DEF UploadAbsorbs
  <2> QED BY <2>1, <2>2 DEF UploadAbsorbs
<1>9. ASSUME NEW k \in Jobs PROVE PassAbsorbs(k)'
  <2> SUFFICES ASSUME NEW r, r = job[k].run PROVE PassAbsorbs(k)'
    OBVIOUS
  <2> DEFINE new == job'[k]
  <2>0. new.run = r /\ PassAbsorbs(k)
    BY <1>0 DEF Moves, Frame, AbsorbInv
  <2> SUFFICES /\ \A row \in new.rows : row.run = r
               /\ Undeleted(r)' =>
                    /\ new.todo \subseteq Stored(r)'
                    /\ Within(new.post, Stored(r)')
                    /\ \A row \in new.rows : Within(row.post, Stored(r)')
    BY <2>0 DEF PassAbsorbs
  <2>1. /\ \A row \in new.rows : row.run = r
        /\ Undeleted(r) =>
             /\ new.todo \subseteq Stored(r)
             /\ Within(new.post, Stored(r))
             /\ \A row \in new.rows : Within(row.post, Stored(r))
    <3>1. CASE new = job[k]
      BY <2>0, <3>1 DEF PassAbsorbs
    <3>2. CASE k = j /\ ((\E a : Answer(j, a)) \/ CountStart(j))
      <4>1. /\ new.rows = q.rows /\ new.todo \subseteq q.todo
            /\ new.post = q.post \/ new.post = <<>>
        BY <1>0, <3>2, PassLocals
      <4>2. \A S : Within(<<>>, S)
        BY DEF Within
      <4> QED BY <1>3, <3>2, <4>1, <4>2 DEF PassAbsorbs
    <3>3. CASE k = j /\ ReadCache(j)
      <4>1. new.todo = q.todo /\ new.post = q.post /\ new.rows \in {q.rows, Of(results, s)}
        BY <1>0, <3>3, PassLocals
      <4>2. \A row \in Of(results, s) :
              row.run = s /\ (Undeleted(s) => Within(row.post, Stored(s)))
        BY <1>2, <1>4 DEF RunAbsorbs, Of
      <4> QED BY <1>3, <3>3, <4>1, <4>2 DEF PassAbsorbs
    <3>4. CASE k = j /\ ReadFeatures(j)
      <4>1. new.todo = Stored(s) /\ new.post = q.post /\ new.rows = {}
        BY <1>0, <3>4, PassLocals DEF Stored
      <4> QED BY <1>3, <3>4, <4>1 DEF PassAbsorbs
    <3>5. CASE k = j /\ Load(j)
      <4>1. new.todo = q.todo /\ new.post = twin[s] /\ new.rows = q.rows
        BY <1>0, <3>5, PassLocals
      <4>2. has_twin_state(s)
        BY <3>5 DEF Load
      <4> QED BY <1>2, <1>3, <1>4, <3>5, <4>1, <4>2 DEF PassAbsorbs, RunAbsorbs
    <3>6. CASE k = j /\ Save(j) /\ q.kind = "replay"
      <4>1. new.todo = q.todo /\ new.post = Append(q.post, i) /\ new.rows = q.rows
        BY <1>0, <3>6, PassLocals
      <4> QED BY <1>3, <1>6, <3>6, <4>1 DEF PassAbsorbs
    <3>7. CASE k = j /\ Save(j) /\ q.kind # "replay"
      <4> DEFINE added == [run |-> s, cut |-> i, post |-> Append(q.post, i)]
      <4>1. new.todo = q.todo \ {i} /\ new.post = q.post /\ new.rows = q.rows \cup {added}
        BY <1>0, <3>7, PassLocals
      <4>2. added.run = s /\ added.post = Append(q.post, i)
        OBVIOUS
      <4> HIDE DEF added
      <4>3. \A row \in new.rows : row \in q.rows \/ row = added
        BY <4>1
      <4>4. Undeleted(s) => Within(added.post, Stored(s))
        BY <1>6, <3>7, <4>2
      <4> HIDE DEF i
      <4> QED BY <1>3, <3>7, <4>1, <4>2, <4>3, <4>4 DEF PassAbsorbs
    <3>8. CASE k = j /\ StreamRul(j)
      <4>1. new.todo = q.todo \ {i} /\ new.post = q.post /\ new.rows = q.rows
        BY <1>0, <3>8, PassLocals
      <4> HIDE DEF i
      <4> QED BY <1>3, <3>8, <4>1 DEF PassAbsorbs
    <3>9. k # j => new = job[k]
      BY <1>0 DEF Moves, Frame
    <3> QED
      BY <1>0, <3>1, <3>2, <3>3, <3>4, <3>5, <3>6, <3>7, <3>8, <3>9, StepOfPass
  <2> HIDE DEF new
  <2> QED BY <1>1, <2>1, WithinLarger
<1> QED BY <1>0, <1>7, <1>8, <1>9, AbsorbParts DEF AbsorbInv

LEMMA AbsorbIngest ==
  ASSUME AbsorbInv, NEW u \in Payloads, IngestStep(u) PROVE AbsorbInv'
<1> USE DEF At
<1> DEFINE s == req[u].run
<1>0. /\ UploadsInv /\ UploadsInv' /\ ServiceTypeInv
      /\ Receive(u) \/ Step(u)
      /\ UNCHANGED <<jpc, job>>
  BY UploadsStep DEF AbsorbInv, UploadsInv, ServiceNext, IngestStep
<1>1. \A r : Undeleted(r)' => Undeleted(r) /\ Stored(r) \subseteq Stored(r)'
  <2>1. \A r : Stored(r)' = IndicesOf(features', r)
    BY DEF Stored, IndicesOf, Of
  <2> QED BY <1>0, <2>1, Grown DEF Stored
<1>2. /\ pc \in [Payloads -> Phase] /\ req \in [Payloads -> Request]
      /\ s \in Runs /\ req[u].post \in Posterior /\ req[u].cut \in Nat
      /\ twin \in [Runs -> Posterior \cup {NoTwin}]
  BY <1>0 DEF ServiceTypeInv, TypeInv, TypeOK, TablesOK, Request
<1>3. \A r \in Runs : Undeleted(r) => RunAbsorbs(r)
  BY AbsorbParts DEF AbsorbInv
<1>4. UploadAbsorbs(u)
  BY DEF AbsorbInv
\* The cut the filter absorbs has its features.
<1>5. SaveTwin(u) /\ Undeleted(s) => Within(filtered(u), Stored(s))
  <2> SUFFICES ASSUME SaveTwin(u), Undeleted(s) PROVE Within(filtered(u), Stored(s))
    OBVIOUS
  <2> DEFINE row == [run |-> req[u].run, cut |-> req[u].cut, src |-> u]
  <2>1. pc[u] = "save_twin"
    BY DEF SaveTwin
  <2>2. row \in features
    BY <1>0, <2>1 DEF UploadsInv, Kept
  <2>3. row.run = s /\ row.cut = req[u].cut
    OBVIOUS
  <2> HIDE DEF row
  <2>4. req[u].cut \in Stored(s)
    BY <2>2, <2>3 DEF Stored, IndicesOf, Of
  <2>5. Within(req[u].post, Stored(s))
    BY <1>4, <2>1 DEF UploadAbsorbs
  <2> QED BY <1>2, <2>4, <2>5, WithinMore DEF filtered
<1>6. /\ rul' = rul \/ AppendRul(u)
      /\ results' = results
      /\ twin' = twin \/ SaveTwin(u)
  BY <1>0 DEF Receive, Step, tables, EnterRunLock, CheckMachine, CheckRun, CheckLabels,
     CheckTwin, Check, AssignIndex, PutBlob, AppendCut, append_cut, Decode, AppendFeatures,
     append_features, LoadTwin, SaveTwin, save_twin_state, AppendRul, append_rul, StatementRaises,
     ExitRunLock
<1>7. ASSUME NEW r \in Runs, Undeleted(r)' PROVE RunAbsorbs(r)'
  <2>0. Undeleted(r) /\ RunAbsorbs(r) /\ Stored(r) \subseteq Stored(r)'
    BY <1>1, <1>3, <1>7
  <2>1. ASSUME NEW row \in rul', row.run = r PROVE Within(row.post, Stored(r)')
    <3>1. CASE row \in rul
      BY <2>0, <2>1, <3>1, WithinLarger DEF RunAbsorbs, Of
    <3>2. CASE AppendRul(u) /\ row \notin rul
      <4> DEFINE added == [run |-> s, cut |-> req[u].cut, post |-> req[u].post]
      <4>1. rul' = rul \cup {added} /\ pc[u] = "append_rul"
        BY <3>2 DEF AppendRul, append_rul
      <4>2. added.run = s /\ added.post = req[u].post
        OBVIOUS
      <4> HIDE DEF added
      <4>3. s = r /\ row.post = req[u].post
        BY <2>1, <3>2, <4>1, <4>2
      <4> QED BY <1>4, <2>0, <4>1, <4>3, WithinLarger DEF UploadAbsorbs
    <3> QED BY <1>6, <3>1, <3>2
  <2>2. ASSUME NEW row \in results', row.run = r PROVE Within(row.post, Stored(r)')
    BY <1>6, <2>0, <2>2, WithinLarger DEF RunAbsorbs, Of
  <2>3. twin'[r] # NoTwin => Within(twin'[r], Stored(r)')
    <3>1. CASE twin' = twin
      BY <2>0, <3>1, WithinLarger DEF RunAbsorbs, has_twin_state
    <3>2. CASE SaveTwin(u)
      <4>1. twin' = [twin EXCEPT ![s] = filtered(u)]
        BY <3>2 DEF SaveTwin, save_twin_state
      <4>2. CASE s = r
        <5>1. twin'[r] = filtered(u)
          BY <1>2, <4>1, <4>2
        <5>2. Within(filtered(u), Stored(r))
          BY <1>5, <2>0, <3>2, <4>2
        <5> QED BY <2>0, <5>1, <5>2, WithinLarger
      <4>3. CASE s # r
        <5>1. twin'[r] = twin[r]
          BY <1>2, <4>1, <4>3
        <5> QED BY <2>0, <5>1, WithinLarger DEF RunAbsorbs, has_twin_state
      <4> QED BY <4>2, <4>3
    <3> QED BY <1>6, <3>1, <3>2
  <2> QED BY <2>1, <2>2, <2>3 DEF RunAbsorbs, Of, has_twin_state
<1>8. ASSUME NEW v \in Payloads PROVE UploadAbsorbs(v)'
  <2> SUFFICES ASSUME NEW r, r = req'[v].run, pc'[v] \in {"save_twin", "append_rul"},
                      Undeleted(r)'
               PROVE  Within(req'[v].post, Stored(r)')
    BY DEF UploadAbsorbs
  <2>0. req[v].run = r /\ Undeleted(r) /\ Stored(r) \subseteq Stored(r)'
    BY <1>0, <1>1, <1>2, ThreadFrame
  <2>1. CASE pc'[v] = pc[v] /\ req'[v] = req[v]
    <3>1. Within(req[v].post, Stored(r))
      BY <2>0, <2>1 DEF AbsorbInv, UploadAbsorbs
    <3> QED BY <2>0, <2>1, <3>1, WithinLarger
  <2>2. CASE v = u /\ LoadTwin(u)
    <3>1. req'[u].post = twin[s] /\ has_twin_state(s)
      BY <1>2, <2>2 DEF LoadTwin, Request
    <3>2. Within(twin[s], Stored(s))
      BY <1>2, <1>3, <2>0, <2>2, <3>1 DEF RunAbsorbs
    <3> QED BY <2>0, <2>2, <3>1, <3>2, WithinLarger
  <2>3. CASE v = u /\ SaveTwin(u)
    <3>1. req'[u].post = filtered(u)
      BY <1>2, <2>3 DEF SaveTwin, Goto, Raise, Request
    <3> QED BY <1>5, <2>0, <2>3, <3>1, WithinLarger
  <2>4. CASE v = u /\ ~LoadTwin(u) /\ ~SaveTwin(u)
    <3>1. pc'[u] \notin {"save_twin", "append_rul"}
      BY <1>0, <1>2, <2>4 DEF Receive, Step, EnterRunLock, CheckMachine, CheckRun, CheckLabels,
         CheckTwin, Check, AssignIndex, PutBlob, AppendCut, Decode, AppendFeatures, Returns,
         AppendRul, StatementRaises, ExitRunLock, Goto, Raise
    <3> QED BY <2>4, <3>1
  <2> QED BY <1>0, <1>2, <2>1, <2>2, <2>3, <2>4, ThreadFrame
<1>9. ASSUME NEW k \in Jobs PROVE PassAbsorbs(k)'
  <2> SUFFICES ASSUME NEW r, r = job[k].run PROVE PassAbsorbs(k)'
    OBVIOUS
  <2>1. job' = job /\ PassAbsorbs(k)
    BY <1>0 DEF AbsorbInv
  <2> QED BY <1>1, <2>1, WithinLarger DEF PassAbsorbs
<1> QED BY <1>0, <1>7, <1>8, <1>9, AbsorbParts DEF AbsorbInv

LEMMA AbsorbedStep == AbsorbInv /\ [ServiceNext]_svars => AbsorbInv'
<1> SUFFICES ASSUME AbsorbInv, [ServiceNext]_svars PROVE AbsorbInv'
  OBVIOUS
<1>1. CASE UNCHANGED svars
  <2>1. UNCHANGED <<tables, pc, req, jpc, job>>
    BY <1>1 DEF svars, vars, jvars
  <2>2. UploadsInv'
    BY <1>1, UploadsStep DEF AbsorbInv
  <2>3. \A r : Undeleted(r)' = Undeleted(r) /\ Stored(r)' = Stored(r) /\ RunAbsorbs(r)' = RunAbsorbs(r)
    BY <2>1 DEF Undeleted, Stored, RunAbsorbs, IndicesOf, Of, has_twin_state, tables
  <2>4. AbsorbedAreStored'
    BY <2>3, AbsorbParts DEF AbsorbInv
  <2> QED BY <2>1, <2>2, <2>3, <2>4 DEF AbsorbInv, UploadAbsorbs, PassAbsorbs
<1>2. CASE \E u \in Payloads : IngestStep(u)
  BY <1>2, AbsorbIngest
<1>3. CASE \E j \in Jobs : JobStep(j)
  BY <1>3, AbsorbJob
<1> QED BY <1>1, <1>2, <1>3 DEF ServiceNext

\* Passes, replays and uploads of one run may overwrite each other's posterior
\* at every load and save: none makes a twin, a prediction or a result absorb a
\* cut whose features are not stored.
THEOREM AbsorbedStay == ServiceSpec /\ AbsorbedAreStored => []AbsorbedAreStored
<1>1. AbsorbInv => AbsorbedAreStored
  BY DEF AbsorbInv
<1> QED BY AbsorbInit, AbsorbedStep, <1>1, PTL DEF ServiceSpec
-----------------------------------------------------------------------------
(***************************************************************************)
(* One pass.  What an undisturbed pass has done and holds, from its reset  *)
(* to its answer: "phase" is what it does next, q its locals, n the number *)
(* of cuts of its run, t the twin, "predicted" and "stored" the rows of    *)
(* the run in rul_predictions and in cut_results.                          *)
(***************************************************************************)
PassPhase == {"clear_rul", "clear_results", "read", "load", "save", "append_rul", "store",
              "answered", "aborted"}

PassKind(j) ==
  /\ jpc[j] \in {"clear_results", "store"} => job[j].kind # "replay"
  /\ jpc[j] = "append_rul" => job[j].kind = "replay"

\* The first d cuts are shown: in the tables, or in what is stored at the end.
Shown(q, d, predicted, stored) ==
  IF q.kind = "replay" THEN predicted = pass_rows(q.run, d)
  ELSE stored = {} /\ q.rows = pass_rows(q.run, d)

\* The first d cuts of the run are done.
Done(phase, q, n, d, t, predicted, stored) ==
  /\ q.todo = (d + 1)..n
  /\ Shown(q, d, predicted, stored)
  /\ t = upto(IF phase = "append_rul" THEN d + 1 ELSE d)
  /\ phase \in {"save", "append_rul"} => q.post = t

\* Where the rows go that the answer promises.
Outcome(q, predicted, stored) == IF q.kind = "replay" THEN predicted ELSE stored

PassState(phase, q, n, t, predicted, stored) ==
  /\ phase \in {"clear_rul", "clear_results", "read"} => t = <<>>
  /\ phase = "read" => Outcome(q, predicted, stored) = {}
  /\ phase \in {"load", "save", "append_rul"} =>
       \E d \in 0..n : Done(phase, q, n, d, t, predicted, stored)
  /\ phase = "store" => t = upto(n) /\ Shown(q, n, predicted, stored)
  /\ phase = "answered" /\ q.status = 200 =>
       t = upto(n) /\ Outcome(q, predicted, stored) = pass_rows(q.run, n)

PassAt(j) ==
  LET r == job[j].run IN
  PassState(jpc[j], job[j], count_features(r), twin[r], Of(rul, r), Of(results, r))

Undisturbed(j) ==
  j \notin touched /\ job[j].kind # "delete" =>
    jpc[j] \in PassPhase /\ (Undeleted(job[j].run) => PassAt(j))

PassInv ==
  /\ NumberInv
  /\ \A j \in Jobs : PassKind(j) /\ Undisturbed(j)

(***************************************************************************)
(* Counting on: from the first d cuts to the next.                         *)
(***************************************************************************)
LEMMA NextCut ==
  ASSUME NEW n \in Nat, NEW d \in 0..n, (d + 1)..n # {}
  PROVE  /\ least((d + 1)..n) = d + 1
         /\ ((d + 1)..n) \ {d + 1} = ((d + 1) + 1)..n
         /\ d + 1 \in 0..n
<1> DEFINE S == (d + 1)..n
           l == least(S)
<1>1. d + 1 \in S /\ S \in SUBSET Nat
  OBVIOUS
<1>2. l \in S /\ \A k \in S : l <= k
  BY <1>1, LeastIsMember
<1> HIDE DEF l
<1>3. l = d + 1
  BY <1>1, <1>2
<1> QED BY <1>1, <1>3 DEF l

LEMMA NextUpto ==
  /\ upto(0) = <<>>
  /\ \A d \in Nat : Append(upto(d), d + 1) = upto(d + 1)
<1>1. upto(0) = <<>>
  BY DEF upto
<1>2. ASSUME NEW d \in Nat PROVE Append(upto(d), d + 1) = upto(d + 1)
  <2>1. upto(d) \in Seq(Nat) /\ Len(upto(d)) = d
    BY DEF upto
  <2>2. upto(d + 1) \in Seq(Nat) /\ Len(upto(d + 1)) = d + 1
    BY DEF upto
  <2>3. Len(Append(upto(d), d + 1)) = d + 1 /\ Append(upto(d), d + 1) \in Seq(Nat)
    BY <2>1
  <2>4. \A k \in 1..(d + 1) : Append(upto(d), d + 1)[k] = upto(d + 1)[k]
    BY <2>1 DEF upto
  <2> QED BY <2>2, <2>3, <2>4
<1> QED BY <1>1, <1>2

LEMMA NextRows ==
  ASSUME NEW r
  PROVE  /\ pass_rows(r, 0) = {}
         /\ \A d \in Nat :
              pass_rows(r, d) \cup {[run |-> r, cut |-> d + 1, post |-> upto(d + 1)]}
                = pass_rows(r, d + 1)
         /\ \A n : Of(pass_rows(r, n), r) = pass_rows(r, n)
<1> DEFINE row(i) == [run |-> r, cut |-> i, post |-> upto(i)]
<1>1. \A n : pass_rows(r, n) = {row(i) : i \in 1..n}
  BY DEF pass_rows
<1>2. \A i : row(i).run = r
  OBVIOUS
<1>3. \A d \in Nat : 1..(d + 1) = (1..d) \cup {d + 1}
  OBVIOUS
<1> HIDE DEF row
<1>4. \A d \in Nat : pass_rows(r, d) \cup {row(d + 1)} = pass_rows(r, d + 1)
  BY <1>1, <1>3
<1>5. \A n : Of(pass_rows(r, n), r) = pass_rows(r, n)
  BY <1>1, <1>2 DEF Of
<1>6. pass_rows(r, 0) = {}
  BY <1>1
<1> QED BY <1>4, <1>5, <1>6 DEF row

\* What a job that is in a pass may do next.
LEMMA PassSteps ==
  ASSUME NEW j \in Jobs, JobStep(j), jpc[j] \in PassPhase \cup {"reset"}, jpc[j] # "answered"
  PROVE  \/ Reset(j) \/ ClearRul(j) \/ ClearResults(j) \/ ReadFeatures(j) \/ Load(j) \/ Save(j)
         \/ StreamRul(j) \/ Hangup(j) \/ FinishPass(j) \/ StoreResults(j) \/ JobRaises(j)
BY DEF JobStep, PassPhase, JAt, BeginStart, BeginAnalyze, CreateUploads, PickAfter, BeginView,
       BeginDelete, CreateRun, Fit,
       Deploy, CountStart, HasTwin, ReadUpload, AppendCuts, AppendFeatureRows, CutsRefused,
       FeaturesRefused, ReadCache, Refit, Delete

\* The steps of others, when they leave the rows of the run alone.
LEMMA PassUnmoved ==
  ASSUME NEW j \in Jobs, Undisturbed(j), j \notin touched,
         job'[j] = job[j], jpc'[j] = jpc[j], RowsOf(job[j].run)' = RowsOf(job[j].run),
         Undeleted(job[j].run)' => Undeleted(job[j].run)
  PROVE  Undisturbed(j)'
<1> SUFFICES ASSUME NEW r, r = job[j].run PROVE Undisturbed(j)'
  OBVIOUS
<1>1. /\ Of(features', r) = Of(features, r) /\ Of(rul', r) = Of(rul, r)
      /\ twin'[r] = twin[r] /\ Of(results', r) = Of(results, r)
  BY DEF RowsOf, Of
<1>2. count_features(r)' = count_features(r)
  BY <1>1 DEF count_features, Of
<1>3. PassAt(j) => PassAt(j)'
  BY <1>1, <1>2 DEF PassAt, Of
<1> QED BY <1>3 DEF Undisturbed

\* A step of the pass itself, one case per statement.
LEMMA PassMoves ==
  ASSUME ServiceTypeInv, NEW j \in Jobs, JobStep(j), Moves(j),
         jpc[j] \in PassPhase, PassKind(j), IsDense(job[j].run), PassAt(j)
  PROVE  PassAt(j)'
<1> DEFINE q == job[j]
           i == least(q.todo)
<1> SUFFICES ASSUME NEW r, r = job[j].run PROVE PassAt(j)'
  OBVIOUS
<1> DEFINE n == count_features(r)
           new == job'[j]
           phase == jpc'[j]
<1>0. /\ JobsOK /\ r \in Runs /\ n \in Nat /\ q.post \in Posterior
      /\ twin \in [Runs -> Posterior \cup {NoTwin}] /\ jpc \in [Jobs -> JobPhase]
      /\ jpc[j] # "answered"
  BY CountIsNat DEF ServiceTypeInv, JobsOK, TypeInv, TypeOK, TablesOK, Job, Moves
<1>1. new.run = r /\ new.kind = q.kind
  BY DEF Moves, Frame
<1> SUFFICES PassState(phase, new, count_features(r)', twin'[r], Of(rul', r), Of(results', r))
  BY <1>1 DEF PassAt, Of
<1>2. PassState(jpc[j], q, n, twin[r], Of(rul, r), Of(results, r))
  BY DEF PassAt
<1>3. IndicesOf(features, r) = 1..n
  BY DEF IsDense
<1>4. features' = features => count_features(r)' = n
  BY DEF count_features, Of
<1>5. upto(0) = <<>> /\ pass_rows(r, 0) = {}
  BY NextUpto, NextRows
<1>6. CASE JobRaises(j)
  <2>1. \/ JGoto(j, "aborted") /\ UNCHANGED job
        \/ Answer(j, 400) \/ Answer(j, 500)
    BY <1>6 DEF JobRaises
  <2>2. \/ phase = "aborted"
        \/ phase = "answered" /\ new.status \in {400, 500}
    BY <1>0, <2>1, AnswerFrame, GotoFrame
  <2> QED BY <2>2 DEF PassState
<1>7. CASE Hangup(j)
  <2>1. phase = "aborted"
    BY <1>0, <1>7, GotoFrame DEF Hangup
  <2> QED BY <2>1 DEF PassState
<1>8. CASE ClearRul(j)
  <2>1. /\ jpc[j] = "clear_rul" /\ new = q
        /\ phase = IF q.kind = "replay" THEN "read" ELSE "clear_results"
        /\ rul' = rul \ Of(rul, r) /\ UNCHANGED <<features, twin, results>>
    BY <1>0, <1>8 DEF ClearRul, clear_rul, JAt, JGoto
  <2>2. Of(rul', r) = {}
    BY <2>1 DEF Of
  <2> QED BY <1>2, <2>1, <2>2 DEF PassState, Outcome
<1>9. CASE ClearResults(j)
  <2>1. /\ jpc[j] = "clear_results" /\ new = q /\ phase = "read"
        /\ results' = results \ Of(results, r) /\ UNCHANGED <<features, twin, rul>>
    BY <1>0, <1>9 DEF ClearResults, clear_cut_results, JAt, JGoto
  <2>2. Of(results', r) = {} /\ q.kind # "replay"
    BY <2>1 DEF Of, PassKind
  <2> QED BY <1>2, <2>1, <2>2 DEF PassState, Outcome
<1>10. CASE ReadFeatures(j)
  <2>1. jpc[j] = "read" /\ phase = "load" /\ UNCHANGED <<features, twin, rul, results>>
    BY <1>0, <1>10 DEF ReadFeatures, JAt, JGoto, tables
  <2>2. new.todo = 1..n /\ new.rows = {}
    BY <1>0, <1>3, <1>10, PassLocals
  <2>3. twin[r] = <<>> /\ Outcome(q, Of(rul, r), Of(results, r)) = {}
    BY <1>2, <2>1 DEF PassState
  <2> HIDE DEF q, n
  <2>4. Done(phase, new, n, 0, twin'[r], Of(rul', r), Of(results', r))
    <3>1. new.todo = (0 + 1)..n
      BY <2>2
    <3>2. Shown(new, 0, Of(rul', r), Of(results', r))
      BY <1>1, <1>5, <2>1, <2>2, <2>3 DEF Shown, Outcome
    <3>3. twin'[r] = upto(0)
      BY <1>5, <2>1, <2>3
    <3> QED BY <2>1, <3>1, <3>2, <3>3 DEF Done
  <2> QED BY <1>0, <1>4, <2>1, <2>4 DEF PassState
<1>11. CASE Load(j)
  <2>1. jpc[j] = "load" /\ phase = "save" /\ UNCHANGED <<features, twin, rul, results>>
    BY <1>0, <1>11 DEF Load, JAt, JGoto, tables
  <2>2. new.todo = q.todo /\ new.post = twin[r] /\ new.rows = q.rows
    BY <1>0, <1>11, PassLocals
  <2>3. PICK d \in 0..n : Done("load", q, n, d, twin[r], Of(rul, r), Of(results, r))
    BY <1>2, <2>1 DEF PassState
  <2>4. Done("save", new, n, d, twin[r], Of(rul, r), Of(results, r))
    BY <1>1, <2>2, <2>3 DEF Done, Shown
  <2> QED BY <1>4, <2>1, <2>4 DEF PassState
<1>12. CASE Save(j)
  <2>1. jpc[j] = "save" /\ q.todo # {} /\ UNCHANGED <<features, rul, results>>
    BY <1>0, <1>12 DEF Save, JAt, save_twin_state, JobsOK, JobInv
  <2>2. PICK d \in 0..n : Done("save", q, n, d, twin[r], Of(rul, r), Of(results, r))
    BY <1>2, <2>1 DEF PassState
  <2>3. q.todo = (d + 1)..n /\ q.post = upto(d) /\ Shown(q, d, Of(rul, r), Of(results, r))
    BY <2>2 DEF Done
  <2>4. i = d + 1 /\ q.todo \ {i} = ((d + 1) + 1)..n /\ d + 1 \in 0..n
    <3> HIDE DEF i, n
    <3>1. least((d + 1)..n) = d + 1 /\ ((d + 1)..n) \ {d + 1} = ((d + 1) + 1)..n /\ d + 1 \in 0..n
      BY <1>0, <2>1, <2>3, NextCut
    <3> QED BY <2>3, <3>1 DEF i
  <2>5. Append(q.post, i) = upto(d + 1)
    BY <2>3, <2>4, NextUpto
  <2>6. twin'[r] = upto(d + 1)
    <3>1. twin' = [twin EXCEPT ![r] = Append(q.post, i)]
      BY <1>12 DEF Save, save_twin_state
    <3> HIDE DEF i, q
    <3> QED BY <1>0, <2>5, <3>1
  <2>7. CASE q.kind = "replay"
    <3>1. phase = "append_rul"
      BY <1>0, <1>12, <2>7 DEF Save, JGoto
    <3>2. new.todo = q.todo /\ new.post = upto(d + 1)
      BY <1>0, <1>12, <2>5, <2>7, PassLocals
    <3> HIDE DEF n, i, q
    <3>3. Done(phase, new, n, d, twin'[r], Of(rul, r), Of(results, r))
      BY <1>1, <2>3, <2>6, <2>7, <3>1, <3>2 DEF Done, Shown, q
    <3> QED BY <1>4, <2>1, <3>1, <3>3 DEF PassState
  <2>8. CASE q.kind # "replay"
    <3>1. phase = "load"
      BY <1>0, <1>12, <2>8 DEF Save, JGoto
    <3> DEFINE row == [run |-> r, cut |-> d + 1, post |-> upto(d + 1)]
    <3>2. new.todo = q.todo \ {i} /\ new.rows = q.rows \cup {row}
      BY <1>0, <1>12, <2>4, <2>5, <2>8, PassLocals
    <3>a. d \in Nat
      OBVIOUS
    <3>3. pass_rows(r, d) \cup {row} = pass_rows(r, d + 1)
      BY <3>a, NextRows, Zenon
    <3> HIDE DEF n, i, q, row
    <3>4. Done(phase, new, n, d + 1, twin'[r], Of(rul, r), Of(results, r))
      BY <1>1, <2>3, <2>4, <2>6, <2>8, <3>1, <3>2, <3>3 DEF Done, Shown, q
    <3> QED BY <1>4, <2>1, <2>4, <3>1, <3>4 DEF PassState
  <2> QED BY <2>7, <2>8
<1>13. CASE StreamRul(j)
  <2>1. /\ jpc[j] = "append_rul" /\ phase = "load" /\ q.todo # {} /\ q.kind = "replay"
        /\ UNCHANGED <<features, twin, results>>
    BY <1>0, <1>13 DEF StreamRul, JAt, JGoto, append_rul, JobsOK, JobInv, PassKind
  <2>2. PICK d \in 0..n : Done("append_rul", q, n, d, twin[r], Of(rul, r), Of(results, r))
    BY <1>2, <2>1 DEF PassState
  <2>3. /\ q.todo = (d + 1)..n /\ q.post = upto(d + 1) /\ twin[r] = upto(d + 1)
        /\ Of(rul, r) = pass_rows(r, d)
    BY <2>1, <2>2 DEF Done, Shown
  <2>4. i = d + 1 /\ q.todo \ {i} = ((d + 1) + 1)..n /\ d + 1 \in 0..n
    <3> HIDE DEF i, n
    <3>1. least((d + 1)..n) = d + 1 /\ ((d + 1)..n) \ {d + 1} = ((d + 1) + 1)..n /\ d + 1 \in 0..n
      BY <1>0, <2>1, <2>3, NextCut
    <3> QED BY <2>3, <3>1 DEF i
  <2> DEFINE row == [run |-> r, cut |-> d + 1, post |-> upto(d + 1)]
  <2>5. rul' = rul \cup {row}
    BY <1>13, <2>3, <2>4 DEF StreamRul, append_rul
  <2>a. d \in Nat
    OBVIOUS
  <2>6. pass_rows(r, d) \cup {row} = pass_rows(r, d + 1)
    BY <2>a, NextRows, Zenon
  <2>7. row.run = r
    OBVIOUS
  <2>8. new.todo = q.todo \ {i}
    BY <1>0, <1>13, PassLocals
  <2> HIDE DEF n, i, q, row
  <2>9. Of(rul', r) = pass_rows(r, d + 1)
    BY <2>3, <2>5, <2>6, <2>7 DEF Of
  <2>10. Done(phase, new, n, d + 1, twin'[r], Of(rul', r), Of(results', r))
    BY <1>1, <2>1, <2>3, <2>4, <2>8, <2>9 DEF Done, Shown
  <2> QED BY <1>4, <2>1, <2>4, <2>10 DEF PassState
<1>14. CASE FinishPass(j)
  <2>1. jpc[j] = "load" /\ q.todo = {} /\ UNCHANGED <<features, twin, rul, results>>
    BY <1>14 DEF FinishPass, JAt, tables
  <2>2. PICK d \in 0..n : Done("load", q, n, d, twin[r], Of(rul, r), Of(results, r))
    BY <1>2, <2>1 DEF PassState
  <2>3. d = n
    <3>1. (d + 1)..n = {}
      BY <2>1, <2>2 DEF Done
    <3> HIDE DEF n
    <3> QED BY <1>0, <3>1
  <2>4. twin[r] = upto(n) /\ Shown(q, n, Of(rul, r), Of(results, r))
    BY <2>2, <2>3 DEF Done
  <2>5. \/ phase = "answered" /\ q.kind = "replay"
        \/ phase = "store" /\ new = q
    BY <1>0, <1>14, AnswerFrame, GotoFrame DEF FinishPass
  <2> HIDE DEF n, q
  <2> QED BY <1>1, <1>4, <2>1, <2>4, <2>5 DEF PassState, Shown, Outcome, q
<1>15. CASE StoreResults(j)
  <2>1. /\ jpc[j] = "store" /\ phase = "answered" /\ UNCHANGED <<features, twin, rul>>
        /\ q.kind # "replay"
    BY <1>0, <1>15, AnswerFrame DEF StoreResults, JAt, save_cut_results, PassKind
  <2>2. twin[r] = upto(n) /\ Of(results, r) = {} /\ q.rows = pass_rows(r, n)
    BY <1>2, <2>1 DEF PassState, Shown
  <2>3. /\ q.rows \subseteq results'
        /\ \A row \in results' : row \in results \/ row \in q.rows
    BY <1>15 DEF StoreResults, save_cut_results
  <2>4. Of(results', r) = Of(q.rows, r)
    BY <2>2, <2>3 DEF Of
  <2>5. Of(results', r) = pass_rows(r, n)
    BY <2>2, <2>4, NextRows
  <2> HIDE DEF n, q
  <2> QED BY <1>1, <1>4, <2>1, <2>2, <2>5 DEF PassState, Outcome, q
<1>16. ~Reset(j)
  BY DEF Reset, JAt, PassPhase
<1> QED
  BY <1>0, <1>6, <1>7, <1>8, <1>9, <1>10, <1>11, <1>12, <1>13, <1>14, <1>15, <1>16, PassSteps

LEMMA PassInit == ServiceInit /\ DenseUnderAnalyze => PassInv
<1> SUFFICES ASSUME ServiceInit, DenseUnderAnalyze PROVE PassInv
  OBVIOUS
<1>1. NumberInv
  BY NumberInit
<1>2. \A j \in Jobs : PassKind(j) /\ Undisturbed(j)
  BY DEF ServiceInit, PassKind, Undisturbed
<1> QED BY <1>1, <1>2 DEF PassInv

\* What a pass does next depends on its kind.
LEMMA KindJob ==
  ASSUME ServiceTypeInv, NEW j \in Jobs, JobStep(j), Moves(j), \A k \in Jobs : PassKind(k)
  PROVE  \A k \in Jobs : PassKind(k)'
<1>0. JobsOK /\ job'[j].kind = job[j].kind
  BY DEF ServiceTypeInv, JobsOK, Moves, Frame
<1>1. \A k \in Jobs \ {j} : job'[k] = job[k] /\ jpc'[k] = jpc[k]
  BY DEF Moves, Frame
<1>2. \/ ClearRul(j) \/ Save(j) \/ FinishPass(j)
      \/ jpc'[j] \notin {"clear_results", "store", "append_rul"}
  <2>1. CASE CutsRefused(j) \/ FeaturesRefused(j) \/ StoreResults(j) \/ JobRaises(j)
    <3>1. (\E s : Answer(j, s)) \/ JGoto(j, "aborted")
      BY <2>1 DEF CutsRefused, FeaturesRefused, StoreResults, JobRaises
    <3> QED BY <1>0, <3>1 DEF JobsOK, Answer, JGoto
  <2>2. CASE \/ BeginStart(j) \/ BeginAnalyze(j) \/ CreateUploads(j) \/ PickAfter(j) \/ BeginView(j)
             \/ BeginDelete(j)
             \/ Fit(j) \/ Deploy(j) \/ HasTwin(j) \/ ReadUpload(j) \/ ReadCache(j) \/ Refit(j)
    BY <1>0, <2>2 DEF JobsOK, Answer, JGoto, BeginStart, BeginAnalyze, CreateUploads,
       PickAfter, PickRun, BeginView, BeginDelete,
       Fit, Deploy, HasTwin, ReadUpload, ReadCache, Refit
  <2>3. CASE \/ CreateRun(j) \/ CountStart(j) \/ AppendCuts(j) \/ AppendFeatureRows(j)
             \/ Reset(j) \/ ClearResults(j) \/ ReadFeatures(j) \/ Load(j) \/ StreamRul(j)
             \/ Hangup(j) \/ Delete(j)
    BY <1>0, <2>3 DEF JobsOK, Answer, JGoto, CreateRun, CountStart, AppendCuts,
       AppendFeatureRows, Reset, ClearResults, ReadFeatures, Load, StreamRul, Hangup, Delete
  <2> QED BY <2>1, <2>2, <2>3 DEF JobStep
<1>3. PassKind(j)'
  BY <1>0, <1>2 DEF PassKind, JobsOK, ClearRul, Save, FinishPass, Answer, JGoto
<1> QED BY <1>1, <1>3 DEF PassKind

LEMMA PassJob ==
  ASSUME PassInv, NEW j \in Jobs, JobStep(j) PROVE PassInv'
<1>0. /\ NumberInv /\ NumberInv' /\ UploadsInv /\ ServiceTypeInv /\ Moves(j)
      /\ \A k \in Jobs : PassKind(k) /\ Undisturbed(k)
  BY NumberJob, JobMoves DEF PassInv, NumberInv, UploadsInv
<1>1. JobsOK /\ \A k \in Jobs : job[k].run \in Runs
  BY <1>0 DEF ServiceTypeInv, JobsOK, Job
<1>2. \A r : Undeleted(r)' => Undeleted(r)
  BY <1>0, Grown
<1>3. Watch(j)
  BY DEF JobStep
<1>4. ASSUME NEW k \in Jobs, k # j PROVE Undisturbed(k)'
  <2> SUFFICES ASSUME NEW r, r = job[k].run, k \notin touched', job'[k].kind # "delete"
               PROVE  Undisturbed(k)'
    BY DEF Undisturbed
  <2>1. k \notin touched /\ r \notin Written
    BY <1>3, <1>4 DEF Watch
  <2>2. RowsOf(r)' = RowsOf(r)
    BY <1>1, <2>1, Unwritten
  <2>3. job'[k] = job[k] /\ jpc'[k] = jpc[k]
    BY <1>0, <1>4 DEF Moves, Frame
  <2>4. RowsOf(job[k].run)' = RowsOf(job[k].run)
    BY <2>2, <2>3
  <2>5. Undeleted(job[k].run)' => Undeleted(job[k].run)
    BY <1>2, <2>3
  <2> QED BY <1>0, <2>1, <2>3, <2>4, <2>5, PassUnmoved
<1>5. Undisturbed(j)'
  <2> SUFFICES ASSUME NEW r, r = job[j].run, j \notin touched', job'[j].kind # "delete"
               PROVE  Undisturbed(j)'
    BY DEF Undisturbed
  <2>0. job'[j].run = r /\ job[j].kind # "delete"
    BY <1>0 DEF Moves, Frame
  <2>1. j \notin touched \/ jpc[j] = "reset"
    <3>1. jpc[j] # "del_results"
      BY <1>0, <2>0 DEF UploadsInv, Control, DelPhase
    <3> QED BY <1>3, <3>1 DEF Watch
  <2>2. CASE jpc[j] = "reset"
    <3>1. Reset(j) \/ JobRaises(j)
      BY <1>0, <2>2, PassSteps DEF ClearRul, ClearResults, ReadFeatures, Load, Save, StreamRul,
         Hangup, FinishPass, StoreResults, JAt
    <3>2. CASE Reset(j)
      <4>1. jpc'[j] = "clear_rul" /\ twin' = [twin EXCEPT ![r] = <<>>]
        BY <1>1, <3>2 DEF Reset, save_twin_state, JobsOK, JGoto
      <4>2. twin'[r] = <<>>
        BY <1>0, <1>1, <4>1 DEF ServiceTypeInv, TypeInv, TypeOK, TablesOK
      <4>3. PassAt(j)'
        BY <2>0, <4>1, <4>2 DEF PassAt, PassState
      <4> QED BY <4>1, <4>3 DEF Undisturbed, PassPhase
    <3>3. CASE JobRaises(j)
      <4>1. Answer(j, 500)
        BY <2>2, <3>3 DEF JobRaises, JAt
      <4>2. jpc'[j] = "answered" /\ job'[j].status = 500
        BY <1>1, <4>1, AnswerFrame
      <4>3. PassAt(j)'
        BY <4>2 DEF PassAt, PassState
      <4> QED BY <4>2, <4>3 DEF Undisturbed, PassPhase
    <3> QED BY <3>1, <3>2, <3>3
  <2>3. CASE j \notin touched /\ jpc[j] # "reset"
    <3>1. jpc[j] \in PassPhase /\ (Undeleted(r) => PassAt(j))
      BY <1>0, <2>0, <2>3 DEF Undisturbed
    <3>2. jpc'[j] \in PassPhase
      <4>1. \/ ClearRul(j) \/ ClearResults(j) \/ ReadFeatures(j) \/ Load(j) \/ Save(j)
            \/ StreamRul(j) \/ Hangup(j) \/ FinishPass(j) \/ StoreResults(j) \/ JobRaises(j)
        BY <1>0, <2>3, <3>1, PassSteps DEF Moves, Reset, JAt
      <4>2. CASE StoreResults(j) \/ JobRaises(j)
        <5>1. (\E s : Answer(j, s)) \/ JGoto(j, "aborted")
          BY <4>2 DEF StoreResults, JobRaises
        <5> QED BY <1>1, <5>1 DEF JobsOK, Answer, JGoto, PassPhase
      <4>3. CASE \/ ClearRul(j) \/ ClearResults(j) \/ ReadFeatures(j) \/ Load(j) \/ Save(j)
                 \/ StreamRul(j) \/ Hangup(j) \/ FinishPass(j)
        BY <1>1, <4>3 DEF JobsOK, Answer, JGoto, PassPhase, ClearRul, ClearResults, ReadFeatures,
           Load, Save, StreamRul, Hangup, FinishPass
      <4> QED BY <4>1, <4>2, <4>3
    <3>3. ASSUME Undeleted(r)' PROVE PassAt(j)'
      <4>1. Undeleted(r) /\ PassAt(j)
        <5>1. Undeleted(r)
          BY <1>2, <3>3
        <5> QED BY <3>1, <5>1
      <4>2. IsDense(r)
        BY <1>0, <1>1, <4>1, DenseParts DEF NumberInv
      <4> QED BY <1>0, <3>1, <4>1, <4>2, PassMoves
    <3> QED BY <2>0, <3>2, <3>3 DEF Undisturbed, Undeleted
  <2> QED BY <2>1, <2>2, <2>3
<1>6. \A k \in Jobs : PassKind(k)'
  BY <1>0, KindJob
<1> QED BY <1>0, <1>4, <1>5, <1>6 DEF PassInv

LEMMA PassIngest ==
  ASSUME PassInv, NEW u \in Payloads, IngestStep(u) PROVE PassInv'
<1>0. /\ NumberInv' /\ UploadsInv /\ UNCHANGED <<jpc, job>> /\ Watch(u)
      /\ \A j \in Jobs : PassKind(j) /\ Undisturbed(j) /\ job[j].run \in Runs
  BY NumberIngest DEF PassInv, NumberInv, UploadsInv, ServiceTypeInv, IngestStep, Job
<1>1. \A r : Undeleted(r)' => Undeleted(r)
  BY <1>0, Grown
<1>2. u \notin Jobs
  BY JobAssumption
<1>3. ASSUME NEW j \in Jobs PROVE Undisturbed(j)'
  <2> SUFFICES ASSUME j \notin touched' PROVE Undisturbed(j)'
    BY DEF Undisturbed
  <2>1. j \notin touched /\ job[j].run \notin Written
    BY <1>0, <1>2 DEF Watch
  <2>2. RowsOf(job[j].run)' = RowsOf(job[j].run)
    BY <1>0, <2>1, Unwritten
  <2> QED BY <1>0, <1>1, <2>1, <2>2, PassUnmoved
<1>4. \A j \in Jobs : PassKind(j)'
  BY <1>0 DEF PassKind
<1> QED BY <1>0, <1>3, <1>4 DEF PassInv

LEMMA PassStep == PassInv /\ [ServiceNext]_svars => PassInv'
<1> SUFFICES ASSUME PassInv, [ServiceNext]_svars PROVE PassInv'
  OBVIOUS
<1>1. CASE UNCHANGED svars
  <2>1. UNCHANGED <<features, rul, twin, results, jpc, job, touched>>
    BY <1>1 DEF svars, vars, jvars, tables
  <2>2. NumberInv'
    BY <1>1, NumberStep DEF PassInv
  <2>3. \A j \in Jobs : PassKind(j) /\ Undisturbed(j) => PassKind(j)' /\ Undisturbed(j)'
    BY <2>1 DEF PassKind, Undisturbed, PassAt, Undeleted, count_features, Of
  <2> QED BY <2>2, <2>3 DEF PassInv
<1>2. CASE \E u \in Payloads : IngestStep(u)
  BY <1>2, PassIngest
<1>3. CASE \E j \in Jobs : JobStep(j)
  BY <1>3, PassJob
<1> QED BY <1>1, <1>2, <1>3 DEF ServiceNext

\* A pass into whose run nobody else wrote since its reset ends with the twin,
\* the predictions or the results of a single pass over every cut, in order,
\* whatever earlier passes, aborted streams or failed requests left behind.
THEOREM UndisturbedPasses == ServiceSpec /\ DenseUnderAnalyze => []UndisturbedPass
<1>1. PassInv => UndisturbedPass
  <2> SUFFICES ASSUME PassInv, NEW j \in Jobs, job[j].status = 200, j \notin touched,
                      Undeleted(job[j].run)
               PROVE  LET r == job[j].run  n == count_features(r) IN
                      /\ twin[r] = upto(n)
                      /\ Of(IF job[j].kind = "replay" THEN rul ELSE results, r)
                           = pass_rows(r, n)
    BY DEF UndisturbedPass
  <2>1. jpc[j] = "answered"
    BY DEF PassInv, NumberInv, UploadsInv, Control
  <2>2. job[j].kind # "delete"
    BY <2>1 DEF Undeleted
  <2>3. PassAt(j)
    BY <2>2 DEF PassInv, Undisturbed
  <2> QED BY <2>1, <2>3 DEF PassAt, PassState, Outcome
<1> QED BY PassInit, PassStep, <1>1, PTL DEF ServiceSpec
=============================================================================
