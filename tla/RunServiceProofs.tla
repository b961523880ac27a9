-------------------------- MODULE RunServiceProofs --------------------------
(***************************************************************************)
(* What holds of the service for every number of uploads, jobs and runs,   *)
(* and for analyses of any number of files: types, that no accepted upload *)
(* is lost, that a labeled run keeps its cuts, and what the requests that  *)
(* start and delete a run leave of it.                                     *)
(***************************************************************************)
EXTENDS RunService, IngestProofs, WellFoundedInduction

(***************************************************************************)
(* No statement of the stores leaves a row without its parent.  One lemma  *)
(* per kind of statement.                                                  *)
(***************************************************************************)
LEMMA KeysUnchanged ==
  ASSUME ForeignKeys, UNCHANGED tables PROVE ForeignKeys'
BY DEF ForeignKeys, tables, machine_exists, run_exists, has_cut, has_twin_state, IndicesOf, Of

LEMMA KeysCreateMachine ==
  ASSUME ForeignKeys, NEW m, NEW u, create_machine(m, u) PROVE ForeignKeys'
<1>1. machines \subseteq machines' /\ UNCHANGED <<runs, labels, cuts, features, rul, twin>>
  BY DEF create_machine
<1>2. \A n : machine_exists(n) => machine_exists(n)'
  BY <1>1 DEF machine_exists
<1> QED
  BY <1>1, <1>2 DEF ForeignKeys, run_exists, has_cut, has_twin_state, IndicesOf, Of

LEMMA KeysCreateRun ==
  ASSUME ForeignKeys, NEW r, NEW m, create_run(r, m) PROVE ForeignKeys'
<1> DEFINE row == [run |-> r, machine |-> m, ended |-> FALSE]
<1>1. /\ runs' = runs \cup {row} /\ machine_exists(m)
      /\ UNCHANGED <<machines, labels, cuts, features, rul, twin>>
  BY DEF create_run
<1>2. row.machine = m
  OBVIOUS
<1> HIDE DEF row
<1>3. \A s : run_exists(s) => run_exists(s)'
  BY <1>1 DEF run_exists, Of
<1> QED
  BY <1>1, <1>2, <1>3 DEF ForeignKeys, machine_exists, has_cut, has_twin_state, IndicesOf, Of

LEMMA KeysAppendCut ==
  ASSUME ForeignKeys, NEW r, NEW i, NEW k, append_cut(r, i, k) PROVE ForeignKeys'
<1> DEFINE row == [run |-> r, cut |-> i, key |-> k]
<1>1. /\ cuts' = cuts \cup {row} /\ run_exists(r)
      /\ UNCHANGED <<machines, runs, labels, features, rul, twin>>
  BY DEF append_cut
<1>2. row.run = r
  OBVIOUS
<1> HIDE DEF row
<1>3. \A s, n : has_cut(s, n) => has_cut(s, n)'
  BY <1>1 DEF has_cut, IndicesOf, Of
<1> QED
  BY <1>1, <1>2, <1>3 DEF ForeignKeys, machine_exists, run_exists, has_twin_state, Of

LEMMA KeysAppendFeatures ==
  ASSUME ForeignKeys, NEW r, NEW i, NEW p, append_features(r, i, p) PROVE ForeignKeys'
<1> DEFINE row == [run |-> r, cut |-> i, src |-> p]
<1>1. /\ features' = features \cup {row} /\ has_cut(r, i)
      /\ UNCHANGED <<machines, runs, labels, cuts, rul, twin>>
  BY DEF append_features
<1>2. row.run = r /\ row.cut = i
  OBVIOUS
<1> HIDE DEF row
<1> QED
  BY <1>1, <1>2 DEF ForeignKeys, machine_exists, run_exists, has_cut, has_twin_state, IndicesOf, Of

LEMMA KeysAppendRul ==
  ASSUME ForeignKeys, NEW r, NEW i, NEW p, append_rul(r, i, p) PROVE ForeignKeys'
<1> DEFINE row == [run |-> r, cut |-> i, post |-> p]
<1>1. /\ rul' = rul \cup {row} /\ has_cut(r, i)
      /\ UNCHANGED <<machines, runs, labels, cuts, features, twin>>
  BY DEF append_rul
<1>2. row.run = r /\ row.cut = i
  OBVIOUS
<1> HIDE DEF row
<1> QED
  BY <1>1, <1>2 DEF ForeignKeys, machine_exists, run_exists, has_cut, has_twin_state, IndicesOf, Of

LEMMA KeysSaveTwin ==
  ASSUME ForeignKeys, twin \in [Runs -> Posterior \cup {NoTwin}],
         NEW r \in Runs, NEW p, save_twin_state(r, p)
  PROVE  ForeignKeys'
<1>1. /\ \A s \in Runs : s # r => twin'[s] = twin[s]
      /\ run_exists(r)
      /\ UNCHANGED <<machines, runs, labels, cuts, features, rul>>
  BY DEF save_twin_state
<1> QED
  BY <1>1 DEF ForeignKeys, machine_exists, run_exists, has_cut, has_twin_state, IndicesOf, Of

\* A batch of cut rows of one run, the whole of it or what SQLite kept.
LEMMA KeysMoreCuts ==
  ASSUME ForeignKeys, NEW new, \A row \in new : run_exists(row.run), cuts' = cuts \cup new,
         UNCHANGED <<machines, runs, labels, features, rul, twin>>
  PROVE  ForeignKeys'
<1>1. \A s, n : has_cut(s, n) => has_cut(s, n)'
  BY DEF has_cut, IndicesOf, Of
<1> QED
  BY <1>1 DEF ForeignKeys, machine_exists, run_exists, has_twin_state, Of

LEMMA KeysMoreFeatures ==
  ASSUME ForeignKeys, NEW new, \A row \in new : has_cut(row.run, row.cut),
         features' = features \cup new, UNCHANGED <<machines, runs, labels, cuts, rul, twin>>
  PROVE  ForeignKeys'
BY DEF ForeignKeys, machine_exists, run_exists, has_cut, has_twin_state, IndicesOf, Of

LEMMA KeysResults ==
  ASSUME ForeignKeys, UNCHANGED <<machines, runs, labels, cuts, features, rul, twin>>
  PROVE  ForeignKeys'
BY DEF ForeignKeys, machine_exists, run_exists, has_cut, has_twin_state, IndicesOf, Of

\* The clears of a delete, and of a filter pass.
LEMMA KeysClear ==
  ASSUME ForeignKeys, twin \in [Runs -> Posterior \cup {NoTwin}], NEW r \in Runs,
         \/ clear_rul(r) \/ clear_twin(r) \/ clear_features(r) \/ clear_labels(r)
  PROVE  ForeignKeys'
<1>1. /\ UNCHANGED <<machines, runs, cuts>>
      /\ labels' \subseteq labels /\ features' \subseteq features /\ rul' \subseteq rul
      /\ \A s \in Runs : twin'[s] = twin[s] \/ twin'[s] = NoTwin
  BY DEF clear_rul, clear_twin, clear_features, clear_labels
<1> QED
  BY <1>1 DEF ForeignKeys, machine_exists, run_exists, has_cut, has_twin_state, IndicesOf, Of

LEMMA KeysClearCuts ==
  ASSUME ForeignKeys, NEW r, clear_cuts(r) PROVE ForeignKeys'
<1>1. /\ cuts' = cuts \ Of(cuts, r) /\ Of(features, r) = {} /\ Of(rul, r) = {}
      /\ UNCHANGED <<machines, runs, labels, features, rul, twin>>
  BY DEF clear_cuts
<1>2. \A row \in features \cup rul : row.run # r
  BY <1>1 DEF Of
<1>3. \A s, n : s # r /\ has_cut(s, n) => has_cut(s, n)'
  BY <1>1 DEF has_cut, IndicesOf, Of
<1> QED
  BY <1>1, <1>2, <1>3 DEF ForeignKeys, machine_exists, run_exists, has_twin_state, Of

LEMMA KeysClearRun ==
  ASSUME ForeignKeys, NEW r, clear_run(r) PROVE ForeignKeys'
<1>1. /\ runs' = runs \ Of(runs, r) /\ Of(cuts, r) = {} /\ ~has_twin_state(r) /\ r \notin labels
      /\ UNCHANGED <<machines, labels, cuts, features, rul, twin>>
  BY DEF clear_run
<1>2. \A row \in cuts : row.run # r
  BY <1>1 DEF Of
<1>3. \A s : s # r /\ run_exists(s) => run_exists(s)'
  BY <1>1 DEF run_exists, Of
<1> QED
  BY <1>1, <1>2, <1>3 DEF ForeignKeys, machine_exists, has_cut, has_twin_state, IndicesOf, Of
-----------------------------------------------------------------------------
(***************************************************************************)
(* Types.  What a job works on next is an index because the pass takes the *)
(* least one left, and because "save" and "append_rul" have one left.      *)
(***************************************************************************)
LEMMA LeastIsMember ==
  ASSUME NEW S \in SUBSET Nat, S # {}
  PROVE  least(S) \in S /\ \A k \in S : least(S) <= k
<1> DEFINE Less == OpToRel(<, Nat)
<1>1. \A x, y \in Nat : y < x => <<y, x>> \in Less
  BY DEF OpToRel
<1>2. IsWellFoundedOn(Less, Nat)
  BY NatLessThanWellFounded
<1> HIDE DEF Less
<1>3. PICK x \in S : \A y \in S : <<y, x>> \notin Less
  BY <1>2, WFMin
<1>4. \A y \in S : x <= y
  <2> SUFFICES ASSUME NEW y \in S PROVE ~(y < x)
    OBVIOUS
  <2>1. <<y, x>> \notin Less
    BY <1>3
  <2>2. x \in Nat /\ y \in Nat
    OBVIOUS
  <2> QED BY <1>1, <2>1, <2>2, Zenon
<1> QED BY <1>4 DEF least

\* The features rows of an upload are finitely many.
LEMMA NewFeaturesFinite ==
  ASSUME NEW j \in Jobs, job \in [Jobs -> Job] PROVE IsFiniteSet(new_features(j))
<1> DEFINE files == job[j].files
           row(k) == [run |-> job[j].run, cut |-> index(j, k), src |-> files[k]]
           f == [k \in 1..Len(files) |-> row(k)]
<1>1. Len(files) \in Nat /\ DOMAIN files = 1..Len(files)
  BY DEF Job
<1>2. IsFiniteSet(1..Len(files))
  BY <1>1, FS_Interval
<1>3. new_features(j) = {row(k) : k \in 1..Len(files)}
  BY <1>1 DEF new_features
<1> HIDE DEF row
<1>4. f \in Surjection(1..Len(files), new_features(j))
  BY <1>3 DEF Surjection
<1> QED
  BY <1>2, <1>4, FS_Surjection

JobInv(j) ==
  /\ job[j].todo \subseteq Index
  /\ jpc[j] \in {"save", "append_rul"} => job[j].todo # {}

ServiceTypeInv ==
  /\ TypeInv
  /\ jpc \in [Jobs -> JobPhase]
  /\ job \in [Jobs -> Job]
  /\ touched \subseteq Jobs
  /\ \A j \in Jobs : JobInv(j)

LEMMA ServiceTypeInit == ServiceInit => ServiceTypeInv
<1> SUFFICES ASSUME ServiceInit PROVE ServiceTypeInv
  OBVIOUS
<1>1. TypeInv
  BY DEF ServiceInit, TypeInv, Numbered
<1>2. jpc \in [Jobs -> JobPhase] /\ job \in [Jobs -> Job] /\ touched \subseteq Jobs
  BY DEF ServiceInit, JobPhase
<1>3. \A j \in Jobs : JobInv(j)
  BY DEF ServiceInit, JobInv
<1> QED BY <1>1, <1>2, <1>3 DEF ServiceTypeInv

(***************************************************************************)
(* The record of a job.  One name per updated field: the provers take an   *)
(* update of many fields one at a time.                                    *)
(***************************************************************************)
with_status(q, s)  == [q EXCEPT !.status = s]
with_todo(q, t)    == [q EXCEPT !.todo = t]
with_post(q, p)    == [q EXCEPT !.post = p]
with_rows(q, rows) == [q EXCEPT !.rows = rows]
with_start(q, n)   == [q EXCEPT !.start = n]

LEMMA FieldsTyped ==
  ASSUME NEW q \in Job
  PROVE  /\ \A s \in {0, 200, 400, 404, 409, 500} : with_status(q, s) \in Job
         /\ \A t \in SUBSET Nat : with_todo(q, t) \in Job
         /\ \A p \in Posterior : with_post(q, p) \in Job
         /\ \A rows \in SUBSET RulRow : with_rows(q, rows) \in Job
         /\ \A n \in Nat : with_start(q, n) \in Job
<1>1. ASSUME NEW s \in {0, 200, 400, 404, 409, 500} PROVE with_status(q, s) \in Job
  BY DEF with_status, Job
<1>2. ASSUME NEW t \in SUBSET Nat PROVE with_todo(q, t) \in Job
  <2>1. with_todo(q, t)
          = [kind |-> q.kind, user |-> q.user, machine |-> q.machine, run |-> q.run, ref |-> q.ref,
             fresh |-> q.fresh, files |-> q.files, start |-> q.start, todo |-> t,
             post |-> q.post, rows |-> q.rows, status |-> q.status]
    BY DEF with_todo, Job
  <2>2. /\ q.kind \in Kinds /\ q.user \in Users /\ q.machine \in Machines \cup {NoMachine}
        /\ q.run \in Runs /\ q.ref \in Runs \cup {NoRef} /\ q.fresh \in BOOLEAN
        /\ q.files \in Seq(Payloads) /\ q.start \in Nat /\ q.post \in Posterior
        /\ q.rows \in SUBSET RulRow /\ q.status \in {0, 200, 400, 404, 409, 500}
    BY DEF Job
  <2> QED BY <2>1, <2>2 DEF Job
<1>3. ASSUME NEW p \in Posterior PROVE with_post(q, p) \in Job
  BY DEF with_post, Job
<1>4. ASSUME NEW rows \in SUBSET RulRow PROVE with_rows(q, rows) \in Job
  BY DEF with_rows, Job
<1>5. ASSUME NEW n \in Nat PROVE with_start(q, n) \in Job
  BY DEF with_start, Job
<1> QED BY <1>1, <1>2, <1>3, <1>4, <1>5

\* Only with_todo changes what is left to do.
LEMMA TodoOf ==
  ASSUME NEW q \in Job, NEW x
  PROVE  /\ with_todo(q, x).todo = x
         /\ with_status(q, x).todo = q.todo
         /\ with_post(q, x).todo = q.todo
         /\ with_rows(q, x).todo = q.todo
         /\ with_start(q, x).todo = q.todo
<1>1. with_todo(q, x).todo = x
  BY DEF with_todo, Job
<1>2. with_status(q, x).todo = q.todo /\ with_post(q, x).todo = q.todo
  BY DEF with_status, with_post, Job
<1>3. with_rows(q, x).todo = q.todo /\ with_start(q, x).todo = q.todo
  BY DEF with_rows, with_start, Job
<1> QED BY <1>1, <1>2, <1>3

\* The control of a job: a step to the next statement, or an answer.
JobsOK ==
  /\ jpc \in [Jobs -> JobPhase]
  /\ job \in [Jobs -> Job]
  /\ \A j \in Jobs : JobInv(j)

Becomes(j, q) == job' = [job EXCEPT ![j] = q]

LEMMA UpdateTyped ==
  ASSUME JobsOK, NEW j \in Jobs, NEW q \in Job, NEW phase \in JobPhase,
         JGoto(j, phase), Becomes(j, q), q.todo \subseteq Index,
         phase \in {"save", "append_rul"} => q.todo # {}
  PROVE  JobsOK'
<1>1. jpc' \in [Jobs -> JobPhase]
  BY DEF JobsOK, JGoto
<1>2. job' \in [Jobs -> Job]
  BY DEF JobsOK, Becomes
<1>3. ASSUME NEW k \in Jobs PROVE JobInv(k)'
  <2>1. CASE k = j
    <3>1. jpc'[k] = phase /\ job'[k] = q
      BY <2>1 DEF JobsOK, JGoto, Becomes
    <3> QED BY <3>1 DEF JobInv
  <2>2. CASE k # j
    <3>1. jpc'[k] = jpc[k] /\ job'[k] = job[k]
      BY <2>2 DEF JobsOK, JGoto, Becomes
    <3> QED BY <3>1 DEF JobsOK, JobInv
  <2> QED BY <2>1, <2>2
<1> QED BY <1>1, <1>2, <1>3 DEF JobsOK

LEMMA AnswerRecord ==
  ASSUME job \in [Jobs -> Job], NEW j \in Jobs, NEW s, Answer(j, s)
  PROVE  Becomes(j, with_post(with_todo(with_status(job[j], s), {}), <<>>))
<1>1. job' = [job EXCEPT ![j] = [job[j] EXCEPT !.status = s, !.todo = {}, !.post = <<>>]]
  BY DEF Answer
<1>2. [job[j] EXCEPT !.status = s, !.todo = {}, !.post = <<>>]
        = with_post(with_todo(with_status(job[j], s), {}), <<>>)
  BY DEF with_status, with_todo, with_post
<1> QED BY <1>1, <1>2, Zenon DEF Becomes

LEMMA AnswerTyped ==
  ASSUME JobsOK, NEW j \in Jobs, NEW s \in {0, 200, 400, 404, 409, 500}, Answer(j, s)
  PROVE  JobsOK'
<1> DEFINE q1 == with_status(job[j], s)
           q2 == with_todo(q1, {})
           q3 == with_post(q2, <<>>)
<1>1. job[j] \in Job
  BY DEF JobsOK
<1>2. <<>> \in Posterior /\ {} \in SUBSET Nat
  BY DEF Posterior
<1>3. q1 \in Job
  BY <1>1, FieldsTyped
<1>4. q2 \in Job
  BY <1>2, <1>3, FieldsTyped
<1>5. q3 \in Job
  <2> HIDE DEF q1, q2
  <2> QED BY <1>2, <1>4, FieldsTyped
<1>6. q3.todo = {}
  <2>1. q2.todo = {}
    <3> HIDE DEF q1
    <3> QED BY <1>3, TodoOf
  <2> HIDE DEF q1, q2
  <2> QED BY <1>4, <2>1, TodoOf
<1>7. Becomes(j, q3)
  BY AnswerRecord DEF JobsOK
<1>8. JGoto(j, "answered") /\ "answered" \in JobPhase
  BY DEF Answer, JobPhase
<1>9. "answered" \notin {"save", "append_rul"}
  OBVIOUS
<1>10. q3.todo \subseteq Index
  BY <1>6
<1> HIDE DEF q3
<1> QED BY <1>5, <1>7, <1>8, <1>9, <1>10, UpdateTyped

LEMMA GotoTyped ==
  ASSUME JobsOK, NEW j \in Jobs, NEW phase \in JobPhase, JGoto(j, phase), UNCHANGED job,
         phase \in {"save", "append_rul"} => job[j].todo # {}
  PROVE  JobsOK'
<1>1. jpc' \in [Jobs -> JobPhase]
  BY DEF JobsOK, JGoto
<1>2. ASSUME NEW k \in Jobs PROVE JobInv(k)'
  <2>1. CASE k = j
    BY <2>1 DEF JobsOK, JGoto, JobInv
  <2>2. CASE k # j
    BY <2>2 DEF JobsOK, JGoto, JobInv
  <2> QED BY <2>1, <2>2
<1> QED BY <1>1, <1>2 DEF JobsOK

\* The steps of a job that write no table.
LEMMA ReadsTyped ==
  ASSUME ServiceTypeInv, NEW j \in Jobs,
         \/ BeginStart(j) \/ BeginAnalyze(j) \/ BeginView(j) \/ BeginDelete(j) \/ Fit(j)
         \/ PickAfter(j) \/ HasTwin(j) \/ ReadUpload(j) \/ Refit(j) \/ Hangup(j)
         \/ FinishPass(j) \/ JobRaises(j)
  PROVE  JobsOK'
<1> USE DEF JobPhase, Doing, DelPhase
<1>0. JobsOK
  BY DEF ServiceTypeInv, JobsOK
<1>1. CASE BeginStart(j)
  BY <1>0, <1>1, AnswerTyped, GotoTyped DEF BeginStart
<1>a. ASSUME PickRun(j) PROVE JobsOK'
  BY <1>0, <1>a, AnswerTyped, GotoTyped DEF PickRun
<1>2. CASE BeginAnalyze(j) \/ PickAfter(j)
  BY <1>0, <1>a, <1>2, AnswerTyped, GotoTyped DEF BeginAnalyze, PickAfter
<1>3. CASE BeginView(j)
  BY <1>0, <1>3, AnswerTyped, GotoTyped DEF BeginView
<1>4. CASE BeginDelete(j)
  BY <1>0, <1>4, AnswerTyped, GotoTyped DEF BeginDelete
<1>5. CASE Fit(j)
  BY <1>0, <1>5, AnswerTyped, GotoTyped DEF Fit
<1>6. CASE HasTwin(j)
  BY <1>0, <1>6, GotoTyped DEF HasTwin
<1>7. CASE ReadUpload(j)
  BY <1>0, <1>7, AnswerTyped, GotoTyped DEF ReadUpload
<1>8. CASE Refit(j)
  BY <1>0, <1>8, AnswerTyped, GotoTyped DEF Refit
<1>9. CASE Hangup(j)
  BY <1>0, <1>9, GotoTyped DEF Hangup
<1>10. CASE FinishPass(j)
  BY <1>0, <1>10, AnswerTyped, GotoTyped DEF FinishPass
<1>11. CASE JobRaises(j)
  BY <1>0, <1>11, AnswerTyped, GotoTyped DEF JobRaises
<1> QED
  BY <1>1, <1>2, <1>3, <1>4, <1>5, <1>6, <1>7, <1>8, <1>9, <1>10, <1>11

\* The steps that write a table and keep their locals.
LEMMA WritesTyped ==
  ASSUME ServiceTypeInv, NEW j \in Jobs,
         \/ CreateUploads(j) \/ CreateRun(j) \/ Deploy(j) \/ AppendCuts(j)
         \/ AppendFeatureRows(j) \/ CutsRefused(j) \/ FeaturesRefused(j) \/ Reset(j)
         \/ ClearRul(j) \/ ClearResults(j) \/ StoreResults(j) \/ Delete(j)
  PROVE  JobsOK'
<1> USE DEF JobPhase, Doing, DelPhase
<1>0. JobsOK
  BY DEF ServiceTypeInv, JobsOK
<1>1. CASE CreateUploads(j) \/ CreateRun(j)
  BY <1>0, <1>1, GotoTyped DEF CreateUploads, CreateRun
<1>2. CASE Deploy(j)
  BY <1>0, <1>2, AnswerTyped, GotoTyped DEF Deploy
<1>3. CASE AppendCuts(j)
  BY <1>0, <1>3, GotoTyped DEF AppendCuts
<1>4. CASE AppendFeatureRows(j)
  BY <1>0, <1>4, GotoTyped DEF AppendFeatureRows
<1>5. CASE CutsRefused(j) \/ FeaturesRefused(j)
  BY <1>0, <1>5, AnswerTyped DEF CutsRefused, FeaturesRefused
<1>6. CASE Reset(j)
  BY <1>0, <1>6, GotoTyped DEF Reset
<1>7. CASE ClearRul(j)
  BY <1>0, <1>7, GotoTyped DEF ClearRul
<1>8. CASE ClearResults(j)
  BY <1>0, <1>8, GotoTyped DEF ClearResults
<1>9. CASE StoreResults(j)
  BY <1>0, <1>9, AnswerTyped DEF StoreResults
<1>10. CASE Delete(j)
  BY <1>0, <1>10, AnswerTyped, GotoTyped DEF Delete
<1> QED
  BY <1>1, <1>2, <1>3, <1>4, <1>5, <1>6, <1>7, <1>8, <1>9, <1>10

\* The steps that set a local.
LEMMA LocalsTyped ==
  ASSUME ServiceTypeInv, NEW j \in Jobs,
         \/ CountStart(j) \/ ReadCache(j) \/ ReadFeatures(j) \/ Load(j) \/ Save(j) \/ StreamRul(j)
  PROVE  JobsOK'
<1>0. JobsOK /\ TablesOK /\ IsFiniteSet(features)
  BY DEF ServiceTypeInv, JobsOK, TypeInv, TypeOK
<1>q. job \in [Jobs -> Job] /\ job[j] \in Job /\ job[j].todo \subseteq Index /\ job[j].run \in Runs
  BY <1>0 DEF JobsOK, JobInv, Job
<1>1. CASE CountStart(j)
  <2> DEFINE n == count_features(job[j].run)
  <2>1. n \in Nat
    BY <1>0, CountIsNat
  <2>2. with_start(job[j], n) \in Job /\ with_start(job[j], n).todo = job[j].todo
    BY <1>q, <2>1, FieldsTyped, TodoOf
  <2>3. Becomes(j, with_start(job[j], n))
    BY <1>q, <1>1 DEF CountStart, Becomes, with_start
  <2>4. JGoto(j, "has_twin") /\ "has_twin" \in JobPhase \ {"save", "append_rul"}
    BY <1>1 DEF CountStart, JobPhase, Doing
  <2> HIDE DEF n
  <2> QED BY <1>0, <1>q, <2>2, <2>3, <2>4, UpdateTyped
<1>2. CASE ReadCache(j)
  <2> DEFINE stored == Of(results, job[j].run)
             q == with_status(with_rows(job[j], stored), 200)
  <2>1. CASE stored # {} /\ job[j].ref = NoRef
    <3>1. stored \in SUBSET RulRow
      BY <1>0 DEF TablesOK, Of
    <3>2. with_rows(job[j], stored) \in Job
      BY <1>q, <3>1, FieldsTyped
    <3>3. q \in Job /\ q.todo = job[j].todo
      BY <1>q, <3>2, FieldsTyped, TodoOf
    <3>4. Becomes(j, q)
      BY <1>q, <1>2, <2>1 DEF ReadCache, Becomes, with_status, with_rows
    <3>5. JGoto(j, "answered") /\ "answered" \in JobPhase \ {"save", "append_rul"}
      BY <1>2, <2>1 DEF ReadCache, JobPhase
    <3> HIDE DEF q
    <3> QED BY <1>0, <1>q, <3>3, <3>4, <3>5, UpdateTyped
  <2>2. CASE ~(stored # {} /\ job[j].ref = NoRef)
    BY <1>0, <1>2, <2>2, GotoTyped DEF ReadCache, JobPhase, Doing
  <2> QED BY <2>1, <2>2
<1>3. CASE ReadFeatures(j)
  <2> DEFINE new == IndicesOf(features, job[j].run)
             q == with_rows(with_todo(job[j], new), {})
  <2>1. new \subseteq Index /\ new \in SUBSET Nat
    BY <1>0 DEF TablesOK, FeatureRow, IndicesOf, Of, Index
  <2>2. with_todo(job[j], new) \in Job /\ with_todo(job[j], new).todo = new
    <3> HIDE DEF new
    <3>1. with_todo(job[j], new) \in Job
      BY <1>q, <2>1, FieldsTyped
    <3>2. with_todo(job[j], new).todo = new
      BY <1>q, TodoOf
    <3> QED BY <3>1, <3>2
  <2>3. q \in Job /\ q.todo = new
    BY <2>2, FieldsTyped, TodoOf
  <2>4. Becomes(j, q)
    BY <1>q, <1>3 DEF ReadFeatures, Becomes, with_todo, with_rows
  <2>5. JGoto(j, "load") /\ "load" \in JobPhase \ {"save", "append_rul"}
    BY <1>3 DEF ReadFeatures, JobPhase, Doing
  <2> HIDE DEF q, new
  <2> QED BY <1>0, <2>1, <2>3, <2>4, <2>5, UpdateTyped
<1>4. CASE Load(j)
  <2> DEFINE q == with_post(job[j], twin[job[j].run])
  <2>1. twin[job[j].run] \in Posterior
    BY <1>0, <1>q, <1>4 DEF Load, has_twin_state, TablesOK
  <2>2. q \in Job
    BY <1>q, <2>1, FieldsTyped
  <2>5. q.todo = job[j].todo
    BY <1>q, TodoOf
  <2>3. Becomes(j, q)
    BY <1>q, <1>4 DEF Load, Becomes, with_post
  <2>4. JGoto(j, "save") /\ "save" \in JobPhase /\ job[j].todo # {}
    BY <1>4 DEF Load, JobPhase, Doing
  <2> HIDE DEF q
  <2> QED BY <1>0, <1>q, <2>2, <2>3, <2>4, <2>5, UpdateTyped
<1>5. CASE Save(j)
  <2> DEFINE i == least(job[j].todo)
             p == Append(job[j].post, i)
             row == [run |-> job[j].run, cut |-> i, post |-> p]
             rows == job[j].rows \cup {row}
  <2>1. i \in job[j].todo
    BY <1>0, <1>q, <1>5, LeastIsMember DEF JobsOK, JobInv, Save, JAt, Index
  <2>2. i \in Index
    BY <1>q, <2>1
  <2>3. p \in Posterior
    BY <1>q, <2>2 DEF Job, Posterior, Index
  <2>4. CASE job[j].kind = "replay"
    <3> DEFINE q == with_post(job[j], p)
    <3>1. q \in Job /\ q.todo = job[j].todo
      <4> HIDE DEF p
      <4> QED BY <1>q, <2>3, FieldsTyped, TodoOf
    <3>2. Becomes(j, q)
      BY <1>q, <1>5, <2>4 DEF Save, Becomes, with_post
    <3>3. JGoto(j, "append_rul") /\ "append_rul" \in JobPhase /\ job[j].todo # {}
      BY <1>5, <2>1, <2>4 DEF Save, JobPhase, Doing
    <3> HIDE DEF q
    <3> QED BY <1>0, <1>q, <3>1, <3>2, <3>3, UpdateTyped
  <2>5. CASE job[j].kind # "replay"
    <3> DEFINE left == job[j].todo \ {i}
               q == with_rows(with_todo(job[j], left), rows)
    <3>1. left \subseteq Index /\ left \in SUBSET Nat
      BY <1>q DEF Index
    <3>2. rows \in SUBSET RulRow
      <4>1. row \in RulRow
        BY <1>q, <2>2, <2>3 DEF RulRow
      <4>2. job[j].rows \subseteq RulRow
        BY <1>q DEF Job
      <4> HIDE DEF row
      <4> QED BY <4>1, <4>2
    <3>3. with_todo(job[j], left) \in Job /\ with_todo(job[j], left).todo = left
      BY <1>q, <3>1, FieldsTyped, TodoOf
    <3>4. q \in Job /\ q.todo = left
      <4> HIDE DEF left, rows
      <4> QED BY <3>2, <3>3, FieldsTyped, TodoOf
    <3>5. Becomes(j, q)
      <4>1. job' = [job EXCEPT ![j].todo = @ \ {i}, ![j].rows = @ \cup {row}]
        BY <1>5, <2>5 DEF Save
      <4> HIDE DEF i, row
      <4> QED BY <1>q, <4>1 DEF Becomes, with_todo, with_rows
    <3>6. JGoto(j, "load") /\ "load" \in JobPhase \ {"save", "append_rul"}
      BY <1>5, <2>5 DEF Save, JobPhase, Doing
    <3> HIDE DEF q, left
    <3> QED BY <1>0, <3>1, <3>4, <3>5, <3>6, UpdateTyped
  <2> QED BY <2>4, <2>5
<1>6. CASE StreamRul(j)
  <2> DEFINE left == job[j].todo \ {least(job[j].todo)}
             q == with_todo(job[j], left)
  <2>1. left \subseteq Index /\ left \in SUBSET Nat
    BY <1>q DEF Index
  <2>2. q \in Job /\ q.todo = left
    BY <1>q, <2>1, FieldsTyped, TodoOf
  <2>3. Becomes(j, q)
    BY <1>q, <1>6 DEF StreamRul, Becomes, with_todo
  <2>4. JGoto(j, "load") /\ "load" \in JobPhase \ {"save", "append_rul"}
    BY <1>6 DEF StreamRul, JobPhase, Doing
  <2> HIDE DEF q, left
  <2> QED BY <1>0, <2>1, <2>2, <2>3, <2>4, UpdateTyped
<1> QED
  BY <1>1, <1>2, <1>3, <1>4, <1>5, <1>6

\* The rows a job writes.
LEMMA RowsTyped ==
  ASSUME ServiceTypeInv, NEW j \in Jobs,
         \/ CreateUploads(j) \/ CreateRun(j) \/ Deploy(j) \/ AppendCuts(j)
         \/ AppendFeatureRows(j) \/ CutsRefused(j) \/ FeaturesRefused(j) \/ Reset(j)
         \/ ClearRul(j) \/ ClearResults(j) \/ Save(j) \/ StreamRul(j) \/ StoreResults(j)
         \/ Delete(j)
  PROVE  TablesOK' /\ IsFiniteSet(features')
<1>0. TablesOK /\ IsFiniteSet(features) /\ job[j] \in Job /\ JobInv(j)
  BY DEF ServiceTypeInv, TypeInv, TypeOK
<1>q. /\ job[j].run \in Runs /\ job[j].user \in Users /\ job[j].start \in Nat
      /\ job[j].files \in Seq(Payloads) /\ job[j].post \in Posterior
      /\ job[j].rows \subseteq RulRow /\ job[j].todo \subseteq Index
  BY <1>0 DEF Job, JobInv
<1>t. target(j) \in Machines
  BY <1>0, TargetAssumption DEF Job, target
<1>i. \A k \in DOMAIN job[j].files : index(j, k) \in Index /\ job[j].files[k] \in Payloads
  BY <1>q DEF index, Index
<1>1. CASE CreateRun(j)
  <2>1. [run |-> job[j].run, machine |-> target(j), ended |-> FALSE] \in RunRow
    BY <1>q, <1>t DEF RunRow
  <2> QED BY <1>0, <1>1, <2>1 DEF CreateRun, create_run, TablesOK
<1>10. CASE CreateUploads(j)
  <2>1. [machine |-> target(j), owner |-> job[j].user] \in MachineRow
    BY <1>q, <1>t DEF MachineRow
  <2> QED BY <1>0, <1>10, <2>1 DEF CreateUploads, create_machine, TablesOK
<1>2. CASE Deploy(j) \/ Reset(j)
  <2>1. <<>> \in Posterior
    BY DEF Posterior
  <2> QED BY <1>0, <1>2, <2>1 DEF Deploy, Reset, save_twin_state, TablesOK
<1>3. CASE AppendCuts(j) \/ CutsRefused(j)
  <2>1. new_cuts(j) \subseteq CutRow
    BY <1>q, <1>i DEF new_cuts, CutRow, Key
  <2>2. cuts' \subseteq cuts \cup new_cuts(j)
    BY <1>3 DEF AppendCuts, append_cuts_bulk, CutsRefused, before
  <2>3. UNCHANGED <<machines, runs, labels, features, rul, twin, results>>
    BY <1>3 DEF AppendCuts, append_cuts_bulk, CutsRefused
  <2> QED BY <1>0, <2>1, <2>2, <2>3 DEF TablesOK
<1>4. CASE AppendFeatureRows(j) \/ FeaturesRefused(j)
  <2>1. new_features(j) \subseteq FeatureRow
    BY <1>q, <1>i DEF new_features, FeatureRow
  <2>2. features' \subseteq features \cup new_features(j)
    BY <1>4 DEF AppendFeatureRows, append_features_bulk, FeaturesRefused, before
  <2>3. UNCHANGED <<machines, runs, labels, cuts, rul, twin, results>>
    BY <1>4 DEF AppendFeatureRows, append_features_bulk, FeaturesRefused
  <2>4. IsFiniteSet(features \cup new_features(j))
    <3>1. IsFiniteSet(new_features(j))
      BY NewFeaturesFinite DEF ServiceTypeInv
    <3> QED BY <1>0, <3>1, FS_Union
  <2>5. IsFiniteSet(features')
    BY <2>2, <2>4, FS_Subset
  <2> QED BY <1>0, <2>1, <2>2, <2>3, <2>5 DEF TablesOK
<1>5. CASE ClearRul(j) \/ ClearResults(j)
  BY <1>0, <1>5 DEF ClearRul, ClearResults, clear_rul, clear_cut_results, TablesOK
<1>6. CASE Save(j)
  <2> DEFINE i == least(job[j].todo)
  <2>1. i \in Nat
    BY <1>0, <1>q, <1>6, LeastIsMember DEF JobInv, Save, JAt, Index
  <2>2. Append(job[j].post, i) \in Posterior
    BY <1>q, <2>1 DEF Posterior
  <2>3. save_twin_state(job[j].run, Append(job[j].post, i))
    BY <1>6 DEF Save
  <2> QED BY <1>0, <2>2, <2>3 DEF save_twin_state, TablesOK
<1>7. CASE StreamRul(j)
  <2> DEFINE i == least(job[j].todo)
             row == [run |-> job[j].run, cut |-> i, post |-> job[j].post]
  <2>1. i \in job[j].todo
    BY <1>0, <1>q, <1>7, LeastIsMember DEF JobInv, StreamRul, JAt, Index
  <2>2. i \in Index
    BY <1>q, <2>1
  <2>3. row \in RulRow
    BY <1>q, <2>2 DEF RulRow
  <2>4. rul' = rul \cup {row} /\ UNCHANGED <<machines, runs, labels, cuts, features, twin, results>>
    BY <1>7 DEF StreamRul, append_rul
  <2> HIDE DEF row
  <2> QED BY <1>0, <2>3, <2>4 DEF TablesOK
<1>8. CASE StoreResults(j)
  BY <1>0, <1>q, <1>8 DEF StoreResults, save_cut_results, TablesOK
<1>9. CASE Delete(j)
  <2>1. UNCHANGED <<machines>> /\ runs' \subseteq runs /\ labels' \subseteq labels
    BY <1>9 DEF Delete, clear_cut_results, clear_rul, clear_twin, clear_features, clear_labels,
                clear_cuts, clear_run
  <2>2. cuts' \subseteq cuts /\ features' \subseteq features /\ rul' \subseteq rul
    BY <1>9 DEF Delete, clear_cut_results, clear_rul, clear_twin, clear_features, clear_labels,
                clear_cuts, clear_run
  <2>3. results' \subseteq results /\ twin' \in [Runs -> Posterior \cup {NoTwin}]
    BY <1>0, <1>9 DEF Delete, clear_cut_results, clear_rul, clear_twin, clear_features,
                      clear_labels, clear_cuts, clear_run, TablesOK
  <2>4. IsFiniteSet(features')
    BY <1>0, <2>2, FS_Subset
  <2> QED BY <1>0, <2>1, <2>2, <2>3, <2>4 DEF TablesOK
<1> QED
  BY <1>1, <1>2, <1>3, <1>4, <1>5, <1>6, <1>7, <1>8, <1>9, <1>10

LEMMA JobStepTyped ==
  ASSUME ServiceTypeInv, NEW j \in Jobs, JobStep(j) PROVE ServiceTypeInv'
<1>0. TypeInv /\ TablesOK /\ IsFiniteSet(features)
  BY DEF ServiceTypeInv, TypeInv, TypeOK
<1>1. JobsOK'
  BY ReadsTyped, WritesTyped, LocalsTyped DEF JobStep
<1>2. TablesOK' /\ IsFiniteSet(features')
  <2>1. CASE UNCHANGED tables
    BY <1>0, <2>1 DEF tables, TablesOK
  <2>2. CASE ~UNCHANGED tables
    <3>1. \/ CreateUploads(j) \/ CreateRun(j) \/ Deploy(j) \/ AppendCuts(j)
          \/ AppendFeatureRows(j) \/ CutsRefused(j) \/ FeaturesRefused(j) \/ Reset(j)
          \/ ClearRul(j) \/ ClearResults(j) \/ Save(j) \/ StreamRul(j) \/ StoreResults(j)
          \/ Delete(j)
      BY <2>2 DEF JobStep, BeginStart, BeginAnalyze, PickAfter, BeginView, BeginDelete, Fit,
                  CountStart, HasTwin, ReadUpload, ReadCache, Refit, ReadFeatures, Load, Hangup,
                  FinishPass, JobRaises
    <3> QED BY <3>1, RowsTyped
  <2> QED BY <2>1, <2>2
<1>3. TypeInv'
  BY <1>0, <1>2 DEF JobStep, TypeInv, TypeOK
<1>4. touched' \subseteq Jobs
  BY DEF JobStep, Watch, ServiceTypeInv
<1> QED BY <1>1, <1>3, <1>4 DEF JobsOK, ServiceTypeInv

LEMMA ServiceTypeStep == ServiceTypeInv /\ [ServiceNext]_svars => ServiceTypeInv'
<1> SUFFICES ASSUME ServiceTypeInv, [ServiceNext]_svars PROVE ServiceTypeInv'
  OBVIOUS
<1>1. CASE UNCHANGED svars
  <2>1. UNCHANGED vars /\ UNCHANGED <<jpc, job, touched>>
    BY <1>1 DEF svars, jvars
  <2>2. TypeInv'
    BY <2>1, TypeInvStep DEF ServiceTypeInv
  <2> QED BY <2>1, <2>2 DEF ServiceTypeInv, JobInv
<1>2. ASSUME NEW u \in Payloads, IngestStep(u) PROVE ServiceTypeInv'
  <2>1. TypeInv'
    BY <1>2, TypeInvStep DEF IngestStep, Next, ServiceTypeInv
  <2>2. UNCHANGED <<jpc, job>> /\ touched' \subseteq Jobs
    BY <1>2 DEF IngestStep, Watch, ServiceTypeInv
  <2> QED BY <2>1, <2>2 DEF ServiceTypeInv, JobInv
<1>3. ASSUME NEW j \in Jobs, JobStep(j) PROVE ServiceTypeInv'
  BY <1>3, JobStepTyped
<1> QED BY <1>1, <1>2, <1>3 DEF ServiceNext

\* Whatever the requests of a service do to each other's run, every variable
\* keeps its type: a pass whose twin a delete takes from under it never holds
\* the missing posterior, and none works on an index of 0.
THEOREM ServiceTypeCorrect == ServiceSpec => []ServiceTypeOK
<1>1. ServiceTypeInv => ServiceTypeOK
  BY DEF ServiceTypeInv, TypeInv, ServiceTypeOK
<1> QED BY ServiceTypeInit, ServiceTypeStep, <1>1, PTL DEF ServiceSpec
-----------------------------------------------------------------------------
(***************************************************************************)
(* The foreign keys.                                                       *)
(***************************************************************************)
LEMMA KeysIngest ==
  ASSUME TypeInv, ForeignKeys, NEW u \in Payloads, Receive(u) \/ Step(u) PROVE ForeignKeys'
<1>1. CASE UNCHANGED tables
  BY <1>1, KeysUnchanged
<1>2. CASE AppendCut(u)
  BY <1>2, KeysAppendCut DEF AppendCut
<1>3. CASE AppendFeatures(u)
  BY <1>3, KeysAppendFeatures DEF AppendFeatures
<1>4. CASE SaveTwin(u)
  <2>1. twin \in [Runs -> Posterior \cup {NoTwin}] /\ req[u].run \in Runs
    BY DEF TypeInv, TypeOK, TablesOK, Request
  <2>2. save_twin_state(req[u].run, filtered(u))
    BY <1>4 DEF SaveTwin
  <2> QED BY <2>1, <2>2, KeysSaveTwin
<1>5. CASE AppendRul(u)
  BY <1>5, KeysAppendRul DEF AppendRul
<1> QED
  BY <1>1, <1>2, <1>3, <1>4, <1>5
     DEF Receive, Step, EnterRunLock, CheckMachine, CheckRun, CheckLabels, CheckTwin, Check,
         AssignIndex, PutBlob, Decode, LoadTwin, StatementRaises, ExitRunLock

\* The rows of a refused batch that SQLite keeps are rows it did not refuse.
LEMMA KeysRefused ==
  ASSUME ServiceTypeInv, ForeignKeys, NEW j \in Jobs, CutsRefused(j) \/ FeaturesRefused(j)
  PROVE  ForeignKeys'
<1>0. job[j] \in Job
  BY DEF ServiceTypeInv
<1>1. \A k \in DOMAIN job[j].files : index(j, k) \in Nat
  BY <1>0 DEF Job, index
<1>2. CASE CutsRefused(j)
  <2> DEFINE kept == before(new_cuts(j), refused_cuts(j))
  <2>1. \A row \in new_cuts(j) : row.cut \in Nat
    BY <1>1 DEF new_cuts
  <2>2. \A row \in kept : row \in new_cuts(j) /\ row \notin refused_cuts(j)
    BY <2>1 DEF before
  <2>3. \A row \in kept : run_exists(row.run)
    BY <2>2 DEF refused_cuts
  <2>4. cuts' = cuts \/ cuts' = cuts \cup kept
    BY <1>2 DEF CutsRefused
  <2>5. UNCHANGED <<machines, runs, labels, features, rul, twin, results>>
    BY <1>2 DEF CutsRefused
  <2> HIDE DEF kept
  <2>6. CASE cuts' = cuts
    BY <2>5, <2>6, KeysUnchanged DEF tables
  <2>7. CASE cuts' = cuts \cup kept
    BY <2>3, <2>5, <2>7, KeysMoreCuts
  <2> QED BY <2>4, <2>6, <2>7
<1>3. CASE FeaturesRefused(j)
  <2> DEFINE kept == before(new_features(j), refused_features(j))
  <2>1. \A row \in new_features(j) : row.cut \in Nat
    BY <1>1 DEF new_features
  <2>2. \A row \in kept : row \in new_features(j) /\ row \notin refused_features(j)
    BY <2>1 DEF before
  <2>3. \A row \in kept : has_cut(row.run, row.cut)
    BY <2>2 DEF refused_features
  <2>4. features' = features \/ features' = features \cup kept
    BY <1>3 DEF FeaturesRefused
  <2>5. UNCHANGED <<machines, runs, labels, cuts, rul, twin, results>>
    BY <1>3 DEF FeaturesRefused
  <2> HIDE DEF kept
  <2>6. CASE features' = features
    BY <2>5, <2>6, KeysUnchanged DEF tables
  <2>7. CASE features' = features \cup kept
    BY <2>3, <2>5, <2>7, KeysMoreFeatures
  <2> QED BY <2>4, <2>6, <2>7
<1> QED BY <1>2, <1>3

LEMMA KeysJob ==
  ASSUME ServiceTypeInv, ForeignKeys, NEW j \in Jobs, JobStep(j) PROVE ForeignKeys'
<1> DEFINE r == job[j].run
<1>0. twin \in [Runs -> Posterior \cup {NoTwin}] /\ r \in Runs
  BY DEF ServiceTypeInv, TypeInv, TypeOK, TablesOK, Job
<1>1. CASE UNCHANGED tables
  BY <1>1, KeysUnchanged
<1>12. CASE CreateUploads(j)
  BY <1>12, KeysCreateMachine DEF CreateUploads
<1>2. CASE CreateRun(j)
  BY <1>2, KeysCreateRun DEF CreateRun
<1>3. CASE Deploy(j) \/ Reset(j)
  <2>1. save_twin_state(r, <<>>)
    BY <1>3 DEF Deploy, Reset
  <2> QED BY <1>0, <2>1, KeysSaveTwin
<1>4. CASE Save(j)
  <2>1. save_twin_state(r, Append(job[j].post, least(job[j].todo)))
    BY <1>4 DEF Save
  <2> QED BY <1>0, <2>1, KeysSaveTwin
<1>5. CASE AppendCuts(j)
  <2>1. run_exists(r) /\ cuts' = cuts \cup new_cuts(j)
    BY <1>5 DEF AppendCuts, append_cuts_bulk
  <2>2. \A row \in new_cuts(j) : run_exists(row.run)
    BY <2>1 DEF new_cuts
  <2>3. UNCHANGED <<machines, runs, labels, features, rul, twin>>
    BY <1>5 DEF AppendCuts, append_cuts_bulk
  <2> QED BY <2>1, <2>2, <2>3, KeysMoreCuts
<1>6. CASE AppendFeatureRows(j)
  <2>1. /\ features' = features \cup new_features(j)
        /\ \A row \in new_features(j) : has_cut(r, row.cut)
    BY <1>6 DEF AppendFeatureRows, append_features_bulk
  <2>2. \A row \in new_features(j) : has_cut(row.run, row.cut)
    BY <2>1 DEF new_features
  <2>3. UNCHANGED <<machines, runs, labels, cuts, rul, twin>>
    BY <1>6 DEF AppendFeatureRows, append_features_bulk
  <2> QED BY <2>1, <2>2, <2>3, KeysMoreFeatures
<1>7. CASE CutsRefused(j) \/ FeaturesRefused(j)
  BY <1>7, KeysRefused
<1>8. CASE StreamRul(j)
  BY <1>8, KeysAppendRul DEF StreamRul
<1>9. CASE ClearResults(j) \/ StoreResults(j)
  <2>1. UNCHANGED <<machines, runs, labels, cuts, features, rul, twin>>
    BY <1>9 DEF ClearResults, StoreResults, clear_cut_results, save_cut_results
  <2> QED BY <2>1, KeysResults
<1>10. CASE ClearRul(j)
  BY <1>0, <1>10, KeysClear DEF ClearRul
<1>11. CASE Delete(j)
  <2>1. CASE clear_cut_results(r)
    BY <2>1, KeysResults DEF clear_cut_results
  <2>2. CASE clear_rul(r) \/ clear_twin(r) \/ clear_features(r) \/ clear_labels(r)
    BY <1>0, <2>2, KeysClear
  <2>3. CASE clear_cuts(r)
    BY <2>3, KeysClearCuts
  <2>4. CASE clear_run(r)
    BY <2>4, KeysClearRun
  <2> QED BY <1>11, <2>1, <2>2, <2>3, <2>4 DEF Delete
<1> QED
  BY <1>1, <1>2, <1>3, <1>4, <1>5, <1>6, <1>7, <1>8, <1>9, <1>10, <1>11, <1>12
     DEF JobStep, BeginStart, BeginAnalyze, PickAfter, BeginView, BeginDelete, Fit, CountStart,
         HasTwin, ReadUpload, ReadCache, Refit, ReadFeatures, Load, Hangup, FinishPass, JobRaises

\* What the schema refuses, no step gets past: the lemma the proofs about whole
\* requests rest on, between any two statements of a delete and after any batch
\* that stopped half-way.
KeysInv == ServiceTypeInv /\ ForeignKeys

LEMMA KeysInvInit == ServiceInit => KeysInv
BY ServiceTypeInit DEF ServiceInit, KeysInv

LEMMA KeysInvStep == KeysInv /\ [ServiceNext]_svars => KeysInv'
<1> USE DEF KeysInv
<1>2. KeysInv /\ [ServiceNext]_svars => KeysInv'
  <2> SUFFICES ASSUME ServiceTypeInv, ForeignKeys, [ServiceNext]_svars
               PROVE  ForeignKeys' /\ ServiceTypeInv'
    OBVIOUS
  <2>1. ServiceTypeInv'
    BY ServiceTypeStep
  <2>2. CASE UNCHANGED svars
    BY <2>1, <2>2, KeysUnchanged DEF svars, vars
  <2>3. ASSUME NEW u \in Payloads, IngestStep(u) PROVE ForeignKeys'
    BY <2>3, KeysIngest DEF IngestStep, ServiceTypeInv
  <2>4. ASSUME NEW j \in Jobs, JobStep(j) PROVE ForeignKeys'
    BY <2>4, KeysJob
  <2> QED BY <2>1, <2>2, <2>3, <2>4 DEF ServiceNext
<1> QED BY <1>2
-----------------------------------------------------------------------------
(***************************************************************************)
(* Accepted uploads.                                                       *)
(*                                                                         *)
(* A features row is written once, under an index no other row of the run  *)
(* has, and only a delete takes it back.  So what has been written for an  *)
(* upload is still there when it is answered, and later: the invariant     *)
(* says it of every request from the insert of its features on.            *)
(***************************************************************************)
UniqueFeatures == \A f, g \in features : f.run = g.run /\ f.cut = g.cut => f = g

\* An upload, after append_features.
Kept(u) ==
  /\ req[u].status = 200 => pc[u] \in {"exit", "answered", "lost"}
  /\ pc[u] \in {"load_twin", "save_twin", "append_rul"} \/ req[u].status = 200 =>
       (Undeleted(req[u].run) =>
          [run |-> req[u].run, cut |-> req[u].cut, src |-> u] \in features)

\* The phases of an analysis after append_features_bulk, and their loop.
Storing == {"refit", "reset", "clear_rul", "clear_results", "read", "load", "save",
            "append_rul", "store"}

Control(j) ==
  /\ jpc[j] # "answered" => job[j].status = 0
  /\ jpc[j] \in DelPhase => job[j].kind = "delete"
  /\ jpc[j] = "cached" => job[j].kind = "results"
  /\ job[j].kind = "delete" => jpc[j] \in DelPhase \cup {"unsent", "answered"}
  /\ job[j].kind = "start" => jpc[j] \in {"unsent", "create", "fit", "deploy", "answered"}

FilesKept(j) ==
  /\ job[j].kind = "analyze"
  /\ jpc[j] \in Storing \/ job[j].status = 200
  /\ Undeleted(job[j].run)
  => new_features(j) \subseteq features

UploadsInv ==
  /\ ServiceTypeInv
  /\ UniqueFeatures
  /\ \A u \in Payloads : Kept(u)
  /\ \A j \in Jobs : Control(j) /\ FilesKept(j)

\* What a step of j leaves alone.
Frame(j) ==
  /\ \A k \in Jobs \ {j} : job'[k] = job[k] /\ jpc'[k] = jpc[k]
  /\ job'[j].kind = job[j].kind /\ job'[j].run = job[j].run /\ job'[j].files = job[j].files
  /\ job'[j].start = job[j].start \/ CountStart(j)

LEMMA AnswerFrame ==
  ASSUME JobsOK, NEW j \in Jobs, NEW s, Answer(j, s)
  PROVE  Frame(j) /\ jpc'[j] = "answered" /\ job'[j].status = s
<1>1. \A k \in Jobs \ {j} : job'[k] = job[k] /\ jpc'[k] = jpc[k]
  BY DEF JobsOK, Answer, JGoto
<1>2. job[j] \in Job
  BY DEF JobsOK
<1>3. job'[j] = [job[j] EXCEPT !.status = s, !.todo = {}, !.post = <<>>]
  BY DEF JobsOK, Answer
<1>4. job'[j].kind = job[j].kind /\ job'[j].run = job[j].run
  BY <1>2, <1>3 DEF Job
<1>5. job'[j].files = job[j].files /\ job'[j].start = job[j].start
  BY <1>2, <1>3 DEF Job
<1>6. job'[j].status = s
  BY <1>2, <1>3 DEF Job
<1>7. jpc'[j] = "answered"
  BY DEF JobsOK, Answer, JGoto
<1> QED BY <1>1, <1>4, <1>5, <1>6, <1>7 DEF Frame

LEMMA GotoFrame ==
  ASSUME JobsOK, NEW j \in Jobs, NEW phase, JGoto(j, phase), UNCHANGED job
  PROVE  Frame(j) /\ jpc'[j] = phase /\ job'[j].status = job[j].status
BY DEF JobsOK, JGoto, Frame

\* The same of the steps that set a local.
LEMMA LocalsFrame ==
  ASSUME JobsOK, NEW j \in Jobs,
         \/ CountStart(j) \/ ReadFeatures(j) \/ Load(j) \/ Save(j) \/ StreamRul(j)
  PROVE  /\ Frame(j)
         /\ job'[j].status = job[j].status
         /\ jpc'[j] \in {"has_twin", "load", "save", "append_rul"}
         /\ jpc[j] \in Storing \cup {"count"}
         /\ jpc'[j] = "has_twin" <=> jpc[j] = "count"
<1> DEFINE q == job[j]
<1>1. q \in Job
  BY DEF JobsOK
<1>2. \A k \in Jobs \ {j} : job'[k] = job[k] /\ jpc'[k] = jpc[k]
  BY DEF JobsOK, CountStart, ReadFeatures, Load, Save, StreamRul, JGoto
<1>3. CASE CountStart(j)
  <2>1. job'[j] = [q EXCEPT !.start = count_features(q.run)]
    BY <1>3 DEF JobsOK, CountStart
  <2>2. job'[j].kind = q.kind /\ job'[j].run = q.run /\ job'[j].files = q.files
    BY <1>1, <2>1 DEF Job
  <2>3. job'[j].status = q.status
    BY <1>1, <2>1 DEF Job
  <2>4. jpc[j] = "count" /\ jpc'[j] = "has_twin"
    BY <1>3 DEF JobsOK, CountStart, JAt, JGoto
  <2> QED BY <1>2, <1>3, <2>2, <2>3, <2>4 DEF Frame
<1>4. CASE ReadFeatures(j)
  <2>1. job'[j] = [q EXCEPT !.todo = IndicesOf(features, q.run), !.rows = {}]
    BY <1>4 DEF JobsOK, ReadFeatures
  <2>2. job'[j].kind = q.kind /\ job'[j].run = q.run /\ job'[j].files = q.files
    BY <1>1, <2>1 DEF Job
  <2>3. job'[j].status = q.status /\ job'[j].start = q.start
    BY <1>1, <2>1 DEF Job
  <2>4. jpc[j] = "read" /\ jpc'[j] = "load"
    BY <1>4 DEF JobsOK, ReadFeatures, JAt, JGoto
  <2> QED BY <1>2, <2>2, <2>3, <2>4 DEF Frame, Storing
<1>5. CASE Load(j)
  <2>1. job'[j] = [q EXCEPT !.post = twin[q.run]]
    BY <1>5 DEF JobsOK, Load
  <2>2. job'[j].kind = q.kind /\ job'[j].run = q.run /\ job'[j].files = q.files
    BY <1>1, <2>1 DEF Job
  <2>3. job'[j].status = q.status /\ job'[j].start = q.start
    BY <1>1, <2>1 DEF Job
  <2>4. jpc[j] = "load" /\ jpc'[j] = "save"
    BY <1>5 DEF JobsOK, Load, JAt, JGoto
  <2> QED BY <1>2, <2>2, <2>3, <2>4 DEF Frame, Storing
<1>6. CASE Save(j)
  <2> DEFINE i == least(q.todo)
             p == Append(q.post, i)
             row == [run |-> q.run, cut |-> i, post |-> p]
  <2>1. \/ job'[j] = [q EXCEPT !.post = p]
        \/ job'[j] = [q EXCEPT !.todo = @ \ {i}, !.rows = @ \cup {row}]
    BY <1>6 DEF JobsOK, Save
  <2> HIDE DEF i, p, row
  <2>0. jpc[j] = "save" /\ jpc'[j] \in {"append_rul", "load"}
    BY <1>6 DEF JobsOK, Save, JAt, JGoto
  <2>2. CASE job'[j] = [q EXCEPT !.post = p]
    <3>1. job'[j].kind = q.kind /\ job'[j].run = q.run /\ job'[j].files = q.files
      BY <1>1, <2>2 DEF Job
    <3>2. job'[j].status = q.status /\ job'[j].start = q.start
      BY <1>1, <2>2 DEF Job
    <3> QED BY <1>2, <2>0, <3>1, <3>2 DEF Frame, Storing
  <2>3. CASE job'[j] = [q EXCEPT !.todo = @ \ {i}, !.rows = @ \cup {row}]
    <3>1. job'[j].kind = q.kind /\ job'[j].run = q.run /\ job'[j].files = q.files
      BY <1>1, <2>3 DEF Job
    <3>2. job'[j].status = q.status /\ job'[j].start = q.start
      BY <1>1, <2>3 DEF Job
    <3> QED BY <1>2, <2>0, <3>1, <3>2 DEF Frame, Storing
  <2> QED BY <2>1, <2>2, <2>3
<1>7. CASE StreamRul(j)
  <2>1. job'[j] = [q EXCEPT !.todo = @ \ {least(q.todo)}]
    BY <1>7 DEF JobsOK, StreamRul
  <2>2. job'[j].kind = q.kind /\ job'[j].run = q.run /\ job'[j].files = q.files
    BY <1>1, <2>1 DEF Job
  <2>3. job'[j].status = q.status /\ job'[j].start = q.start
    BY <1>1, <2>1 DEF Job
  <2>4. jpc[j] = "append_rul" /\ jpc'[j] = "load"
    BY <1>7 DEF JobsOK, StreamRul, JAt, JGoto
  <2> QED BY <1>2, <2>2, <2>3, <2>4 DEF Frame, Storing
<1> QED BY <1>3, <1>4, <1>5, <1>6, <1>7

LEMMA CacheFrame ==
  ASSUME JobsOK, NEW j \in Jobs, ReadCache(j)
  PROVE  /\ Frame(j)
         /\ jpc[j] = "cached"
         /\ \/ jpc'[j] = "answered" /\ job'[j].status = 200
            \/ jpc'[j] = "refit" /\ job'[j].status = job[j].status
<1> DEFINE q == job[j]
           stored == Of(results, job[j].run)
<1>1. q \in Job /\ jpc[j] = "cached"
  BY DEF JobsOK, ReadCache, JAt
<1>2. CASE JGoto(j, "answered") /\ job' = [job EXCEPT ![j].rows = stored, ![j].status = 200]
  <2> HIDE DEF stored
  <2>1. job'[j] = [q EXCEPT !.rows = stored, !.status = 200]
    BY <1>2 DEF JobsOK
  <2>2. job'[j].kind = q.kind /\ job'[j].run = q.run /\ job'[j].files = q.files
    BY <1>1, <2>1 DEF Job
  <2>3. job'[j].status = 200 /\ job'[j].start = q.start
    BY <1>1, <2>1 DEF Job
  <2>4. \A k \in Jobs \ {j} : job'[k] = job[k] /\ jpc'[k] = jpc[k]
    BY <1>2 DEF JobsOK, JGoto
  <2>5. jpc'[j] = "answered"
    BY <1>2 DEF JobsOK, JGoto
  <2> QED BY <1>1, <2>2, <2>3, <2>4, <2>5 DEF Frame
<1>3. CASE JGoto(j, "refit") /\ UNCHANGED job
  BY <1>1, <1>3, GotoFrame
<1> QED BY <1>2, <1>3 DEF ReadCache

\* Where a step of j comes from and leads to.
Moves(j) ==
  /\ Frame(j)
  /\ jpc[j] # "answered" /\ jpc'[j] # "unsent"
  /\ jpc'[j] # "answered" => job'[j].status = 0
  /\ job[j].kind = "delete" /\ job'[j].status = 404 => jpc[j] = "unsent"
  /\ jpc'[j] \in DelPhase => job[j].kind = "delete"
  /\ jpc'[j] = "cached" => job[j].kind = "results"
  /\ job[j].kind = "delete" => jpc'[j] \in DelPhase \cup {"answered"}
  /\ job[j].kind = "start" => jpc'[j] \in {"create", "fit", "deploy", "answered"}
  /\ job[j].kind = "analyze" /\ (jpc'[j] \in Storing \/ job'[j].status = 200) =>
       jpc[j] \in Storing \/ AppendFeatureRows(j)

LEMMA JobMoves ==
  ASSUME ServiceTypeInv, NEW j \in Jobs, Control(j), JobStep(j) PROVE Moves(j)
<1> USE DEF Moves, Control, DelPhase, Storing, JAt
<1>0. JobsOK
  BY DEF ServiceTypeInv, JobsOK
<1>1. CASE BeginStart(j)
  BY <1>0, <1>1, AnswerFrame, GotoFrame DEF BeginStart
<1>2. CASE BeginAnalyze(j)
  BY <1>0, <1>2, AnswerFrame, GotoFrame DEF BeginAnalyze, PickRun
<1>24. CASE CreateUploads(j) \/ PickAfter(j)
  <2>1. job[j].kind \notin {"delete", "start"} /\ jpc[j] \in {"machine", "pick"}
    BY <1>24 DEF CreateUploads, PickAfter
  <2>2. \/ \E phase \in {"pick", "create", "count"} : JGoto(j, phase) /\ UNCHANGED job
        \/ \E st \in {404, 409} : Answer(j, st)
    BY <1>24 DEF CreateUploads, PickAfter, PickRun
  <2> QED BY <1>0, <2>1, <2>2, AnswerFrame, GotoFrame
<1>3. CASE BeginView(j)
  BY <1>0, <1>3, AnswerFrame, GotoFrame DEF BeginView
<1>4. CASE BeginDelete(j)
  BY <1>0, <1>4, AnswerFrame, GotoFrame DEF BeginDelete
<1>5. CASE CreateRun(j)
  BY <1>0, <1>5, GotoFrame DEF CreateRun
<1>6. CASE Fit(j)
  BY <1>0, <1>6, AnswerFrame, GotoFrame DEF Fit
<1>7. CASE Deploy(j)
  BY <1>0, <1>7, AnswerFrame, GotoFrame DEF Deploy
<1>8. CASE HasTwin(j)
  BY <1>0, <1>8, GotoFrame DEF HasTwin
<1>9. CASE ReadUpload(j)
  BY <1>0, <1>9, AnswerFrame, GotoFrame DEF ReadUpload
<1>10. CASE AppendCuts(j)
  BY <1>0, <1>10, GotoFrame DEF AppendCuts
<1>11. CASE AppendFeatureRows(j)
  <2>1. jpc[j] = "append_features" /\ JGoto(j, "refit") /\ UNCHANGED job
    BY <1>11 DEF AppendFeatureRows
  <2> QED BY <1>0, <1>11, <2>1, GotoFrame
<1>12. CASE CutsRefused(j) \/ FeaturesRefused(j)
  BY <1>0, <1>12, AnswerFrame DEF CutsRefused, FeaturesRefused
<1>13. CASE ReadCache(j)
  BY <1>0, <1>13, CacheFrame
<1>14. CASE Refit(j)
  BY <1>0, <1>14, AnswerFrame, GotoFrame DEF Refit
<1>15. CASE Reset(j)
  BY <1>0, <1>15, GotoFrame DEF Reset
<1>16. CASE ClearRul(j)
  BY <1>0, <1>16, GotoFrame DEF ClearRul
<1>17. CASE ClearResults(j)
  BY <1>0, <1>17, GotoFrame DEF ClearResults
<1>18. CASE CountStart(j) \/ ReadFeatures(j) \/ Load(j) \/ Save(j) \/ StreamRul(j)
  BY <1>0, <1>18, LocalsFrame
<1>19. CASE Hangup(j)
  BY <1>0, <1>19, GotoFrame DEF Hangup
<1>20. CASE FinishPass(j)
  BY <1>0, <1>20, AnswerFrame, GotoFrame DEF FinishPass
<1>21. CASE StoreResults(j)
  BY <1>0, <1>21, AnswerFrame DEF StoreResults
<1>22. CASE Delete(j)
  BY <1>0, <1>22, AnswerFrame, GotoFrame DEF Delete
<1>23. CASE JobRaises(j)
  <2>1. jpc[j] \in Doing
    BY <1>23 DEF JobRaises, JobRefused, Doing
  <2>2. CASE job[j].kind = "replay" /\ JGoto(j, "aborted") /\ UNCHANGED job
    BY <1>0, <2>1, <2>2, GotoFrame DEF Doing
  <2>3. CASE Answer(j, 400) \/ Answer(j, 500)
    BY <1>0, <2>1, <2>3, AnswerFrame DEF Doing
  <2> QED BY <1>23, <2>2, <2>3 DEF JobRaises
<1> QED
  BY <1>1, <1>2, <1>3, <1>4, <1>5, <1>6, <1>7, <1>8, <1>9, <1>10, <1>11, <1>12, <1>13, <1>14,
     <1>15, <1>16, <1>17, <1>18, <1>19, <1>20, <1>21, <1>22, <1>23, <1>24
     DEF JobStep

\* Once a delete has begun on a run, it is never undone.
LEMMA UndeletedBefore ==
  ASSUME ServiceTypeInv, NEW j \in Jobs, Control(j), Moves(j), NEW r, Undeleted(r)'
  PROVE  Undeleted(r)
<1> SUFFICES ASSUME NEW k \in Jobs, job[k].kind = "delete", job[k].run = r
             PROVE  jpc[k] = "unsent" \/ job[k].status = 404
  BY DEF Undeleted
<1>1. job'[k].kind = "delete" /\ job'[k].run = r
  BY DEF Moves, Frame
<1>2. jpc'[k] = "unsent" \/ job'[k].status = 404
  BY <1>1 DEF Undeleted
<1>3. CASE k = j
  BY <1>2, <1>3 DEF Moves
<1>4. CASE k # j
  BY <1>2, <1>4 DEF Moves, Frame
<1> QED BY <1>3, <1>4

\* A row of the features table goes only with its run.
LEMMA FeaturesStay ==
  ASSUME ServiceTypeInv, NEW j \in Jobs, Control(j), JobStep(j),
         NEW f \in features, Undeleted(f.run)'
  PROVE  f \in features'
<1>1. CASE features \subseteq features'
  BY <1>1
<1>2. CASE jpc[j] = "del_features" /\ clear_features(job[j].run)
  <2>1. job[j].kind = "delete" /\ job[j].status = 0
    BY <1>2 DEF Control, DelPhase
  <2>2. CASE f.run = job[j].run
    <3>1. Undeleted(f.run)
      BY JobMoves, UndeletedBefore
    <3> QED BY <1>2, <2>1, <2>2, <3>1 DEF Undeleted
  <2>3. CASE f.run # job[j].run
    BY <1>2, <2>3 DEF clear_features, Of
  <2> QED BY <2>2, <2>3
<1> QED
  <2>1. CASE Delete(j)
    BY <1>1, <1>2, <2>1 DEF Delete, JAt, clear_cut_results, clear_rul, clear_twin, clear_labels,
                            clear_cuts, clear_run
  <2>2. CASE ~Delete(j)
    <3>1. features \subseteq features'
      BY <2>2 DEF JobStep, tables, BeginStart, BeginAnalyze, CreateUploads, create_machine,
                  PickAfter, BeginView, BeginDelete, CreateRun, create_run, Fit, Deploy,
                  save_twin_state, CountStart, HasTwin, ReadUpload, AppendCuts,
                  append_cuts_bulk, AppendFeatureRows, append_features_bulk,
                  CutsRefused, FeaturesRefused, ReadCache, Refit, Reset, ClearRul, clear_rul,
                  ClearResults, clear_cut_results, ReadFeatures, Load, Save, StreamRul,
                  append_rul, Hangup, FinishPass, StoreResults, save_cut_results, JobRaises
    <3> QED BY <1>1, <3>1
  <2> QED BY <2>1, <2>2

LEMMA UniqueIngest ==
  ASSUME UniqueFeatures, NEW u \in Payloads, Receive(u) \/ Step(u)
  PROVE  UniqueFeatures' /\ features \subseteq features'
<1>1. CASE UNCHANGED features
  BY <1>1 DEF UniqueFeatures
<1>2. CASE AppendFeatures(u)
  <2> DEFINE row == [run |-> req[u].run, cut |-> req[u].cut, src |-> u]
  <2>1. features' = features \cup {row} /\ row.cut \notin IndicesOf(features, row.run)
    BY <1>2 DEF AppendFeatures, append_features
  <2> HIDE DEF row
  <2>2. \A f \in features : f.run # row.run \/ f.cut # row.cut
    BY <2>1 DEF IndicesOf, Of
  <2> QED BY <2>1, <2>2 DEF UniqueFeatures
<1> QED
  BY <1>1, <1>2 DEF Receive, Step, tables, EnterRunLock, CheckMachine, CheckRun, CheckLabels,
     CheckTwin, Check, AssignIndex, PutBlob, AppendCut, append_cut, Decode, LoadTwin, SaveTwin,
     save_twin_state, AppendRul, append_rul, StatementRaises, ExitRunLock

\* A job adds features under indices that are free, each under one index.
LEMMA UniqueJob ==
  ASSUME ServiceTypeInv, UniqueFeatures, NEW j \in Jobs, JobStep(j) PROVE UniqueFeatures'
<1>0. job[j] \in Job
  BY DEF ServiceTypeInv
<1>1. CASE features' \subseteq features
  BY <1>1 DEF UniqueFeatures
<1>2. ASSUME NEW new \in SUBSET new_features(j), features' = features \cup new,
             \A row \in new : row.cut \notin IndicesOf(features, row.run)
      PROVE  UniqueFeatures'
  <2>1. \A f \in features, row \in new : f.run # row.run \/ f.cut # row.cut
    BY <1>2 DEF IndicesOf, Of
  <2>2. \A x, y \in new_features(j) : x.cut = y.cut => x = y
    <3>1. \A k \in DOMAIN job[j].files : k \in Nat /\ index(j, k) = job[j].start + k
      BY <1>0 DEF Job, index
    <3>2. job[j].start \in Nat
      BY <1>0 DEF Job
    <3> SUFFICES ASSUME NEW k \in DOMAIN job[j].files, NEW l \in DOMAIN job[j].files,
                        index(j, k) = index(j, l)
                 PROVE  k = l
      BY DEF new_features
    <3> QED BY <3>1, <3>2
  <2> QED BY <1>2, <2>1, <2>2 DEF UniqueFeatures
<1>3. CASE AppendFeatureRows(j)
  <2>1. /\ features' = features \cup new_features(j)
        /\ \A row \in new_features(j) : row.cut \notin IndicesOf(features, job[j].run)
    BY <1>3 DEF AppendFeatureRows, append_features_bulk
  <2>2. \A row \in new_features(j) : row.cut \notin IndicesOf(features, row.run)
    BY <2>1 DEF new_features
  <2> QED BY <1>2, <2>1, <2>2
<1>4. CASE FeaturesRefused(j)
  <2> DEFINE kept == before(new_features(j), refused_features(j))
  <2>1. \A row \in new_features(j) : row.cut \in Nat
    BY <1>0 DEF new_features, index, Job
  <2>2. \A row \in kept : row \in new_features(j) /\ row \notin refused_features(j)
    BY <2>1 DEF before
  <2>3. \A row \in kept : row.cut \notin IndicesOf(features, row.run)
    BY <2>2 DEF refused_features
  <2>4. features' = features \/ features' = features \cup kept
    BY <1>4 DEF FeaturesRefused
  <2>5. kept \in SUBSET new_features(j)
    BY <2>2
  <2> HIDE DEF kept
  <2> QED BY <1>1, <1>2, <2>3, <2>4, <2>5
<1> QED
  BY <1>1, <1>3, <1>4 DEF JobStep, tables, BeginStart, BeginAnalyze, CreateUploads,
     create_machine, PickAfter, BeginView, BeginDelete, CreateRun, create_run, Fit, Deploy,
     save_twin_state, CountStart, HasTwin, ReadUpload,
     AppendCuts, append_cuts_bulk, CutsRefused, ReadCache, Refit, Reset, ClearRul, clear_rul,
     ClearResults, clear_cut_results, ReadFeatures, Load, Save, StreamRul, append_rul, Hangup,
     FinishPass, StoreResults, save_cut_results, JobRaises, Delete, clear_twin, clear_features,
     clear_labels, clear_cuts, clear_run

\* A thread's step leaves the other threads alone, and keeps to its request.
LEMMA ThreadFrame ==
  ASSUME pc \in [Payloads -> Phase], req \in [Payloads -> Request],
         NEW u \in Payloads, Receive(u) \/ Step(u)
  PROVE  /\ \A v \in Payloads \ {u} : pc'[v] = pc[v] /\ req'[v] = req[v]
         /\ req'[u].run = req[u].run
         /\ req'[u].cut = req[u].cut \/ AssignIndex(u)
<1> USE DEF Goto, Raise, Request
<1>1. CASE AssignIndex(u)
  <2> DEFINE n == count_features(req[u].run) + 1
  <2>1. req' = [req EXCEPT ![u].cut = n] /\ pc' = [pc EXCEPT ![u] = "put"]
    BY <1>1 DEF AssignIndex
  <2> HIDE DEF n
  <2> QED BY <1>1, <2>1
<1>2. CASE ~AssignIndex(u)
  BY <1>2 DEF Receive, Step, EnterRunLock, CheckMachine, CheckRun, CheckLabels, CheckTwin,
     Check, PutBlob, AppendCut, Decode, AppendFeatures, Returns, LoadTwin, SaveTwin,
     AppendRul, StatementRaises, ExitRunLock
<1> QED BY <1>1, <1>2

LEMMA KeptIngest ==
  ASSUME ServiceTypeInv, NEW u \in Payloads, Receive(u) \/ Step(u), UNCHANGED <<jpc, job>>,
         features \subseteq features', \A v \in Payloads : Kept(v)
  PROVE  \A v \in Payloads : Kept(v)'
<1> USE DEF At, Goto, Raise
<1>0. /\ pc \in [Payloads -> Phase] /\ req \in [Payloads -> Request]
      /\ \A r : Undeleted(r)' = Undeleted(r)
  BY DEF ServiceTypeInv, TypeInv, TypeOK, Undeleted
<1>1. ASSUME NEW v \in Payloads, v # u PROVE Kept(v)'
  <2>1. pc'[v] = pc[v] /\ req'[v] = req[v]
    BY <1>0, <1>1, ThreadFrame
  <2> QED BY <1>0, <2>1 DEF Kept
<1>2. Kept(u)'
  <2>0. req[u].status = 200 => pc[u] \in {"exit", "answered", "lost"}
    BY DEF Kept
  <2> USE <1>0 DEF Kept, Request
  <2>1. CASE Receive(u) \/ EnterRunLock(u) \/ ExitRunLock(u)
    BY <2>1 DEF Receive, EnterRunLock, ExitRunLock
  <2>2. CASE CheckMachine(u) \/ CheckRun(u) \/ CheckLabels(u) \/ CheckTwin(u) \/ Decode(u)
    BY <2>2 DEF CheckMachine, CheckRun, CheckLabels, CheckTwin, Decode, Check
  <2>3. CASE AssignIndex(u)
    <3>1. pc'[u] = "put" /\ pc[u] = "index"
      BY <2>3 DEF AssignIndex
    <3>2. req'[u].status = req[u].status
      <4> DEFINE n == count_features(req[u].run) + 1
      <4>1. req' = [req EXCEPT ![u].cut = n]
        BY <2>3 DEF AssignIndex
      <4> HIDE DEF n
      <4> QED BY <4>1
    <3>3. req[u].status # 200
      BY <3>1
    <3> QED BY <3>1, <3>2, <3>3
  <2>4. CASE PutBlob(u) \/ AppendCut(u)
    BY <2>4 DEF PutBlob, AppendCut, Returns
  <2>5. CASE AppendFeatures(u)
    <3>1. [run |-> req[u].run, cut |-> req[u].cut, src |-> u] \in features'
      BY <2>5 DEF AppendFeatures, append_features
    <3>2. pc[u] = "append_features" /\ Returns(u, "load_twin")
      BY <2>5 DEF AppendFeatures
    <3>3. req'[u].run = req[u].run /\ req'[u].cut = req[u].cut
      BY <3>2 DEF Returns
    <3>4. pc'[u] \in {"load_twin", "exit"} /\ req'[u].status # 200
      <4>1. CASE Goto(u, "load_twin") /\ UNCHANGED req
        <5>1. req'[u].status = req[u].status /\ pc'[u] = "load_twin"
          BY <4>1
        <5> QED BY ONLY <5>1, <2>0, <3>2
      <4>2. CASE Raise(u, 400)
        BY <4>2
      <4> QED BY <3>2, <4>1, <4>2 DEF Returns
    <3> QED BY <3>1, <3>3, <3>4
  <2>6. CASE LoadTwin(u)
    BY <2>6 DEF LoadTwin
  <2>7. CASE SaveTwin(u)
    BY <2>7 DEF SaveTwin
  <2>8. CASE AppendRul(u)
    BY <2>8 DEF AppendRul
  <2>9. CASE StatementRaises(u)
    BY <2>9 DEF StatementRaises
  <2> QED BY <2>1, <2>2, <2>3, <2>4, <2>5, <2>6, <2>7, <2>8, <2>9 DEF Step
<1> QED BY <1>1, <1>2

LEMMA UploadsInit == ServiceInit => UploadsInv
<1> SUFFICES ASSUME ServiceInit PROVE UploadsInv
  OBVIOUS
<1>1. ServiceTypeInv
  BY ServiceTypeInit
<1>2. UniqueFeatures
  BY DEF ServiceInit, PrimaryKeys, UniqueFeatures
<1>3. \A u \in Payloads : Kept(u)
  BY DEF ServiceInit, Kept
<1>4. \A j \in Jobs : Control(j) /\ FilesKept(j)
  BY DEF ServiceInit, Control, FilesKept, DelPhase, Storing
<1> QED BY <1>1, <1>2, <1>3, <1>4 DEF UploadsInv

LEMMA UploadsJob ==
  ASSUME UploadsInv, NEW j \in Jobs, JobStep(j) PROVE UploadsInv'
<1>0. ServiceTypeInv /\ Control(j)
  BY DEF UploadsInv
<1>1. Moves(j)
  BY <1>0, JobMoves
<1>2. \A r : Undeleted(r)' => Undeleted(r)
  BY <1>0, <1>1, UndeletedBefore
<1>3. \A f \in features : Undeleted(f.run)' => f \in features'
  BY <1>0, FeaturesStay
<1>4. ServiceTypeInv' /\ UniqueFeatures'
  BY <1>0, JobStepTyped, UniqueJob DEF UploadsInv
<1>5. ASSUME NEW u \in Payloads PROVE Kept(u)'
  <2> DEFINE row == [run |-> req[u].run, cut |-> req[u].cut, src |-> u]
  <2>1. UNCHANGED <<pc, req>> /\ Kept(u)
    BY DEF JobStep, UploadsInv
  <2>2. row.run = req[u].run
    OBVIOUS
  <2>3. ASSUME NEW r, r = req[u].run, Undeleted(r)', row \in features PROVE row \in features'
    <3> HIDE DEF row
    <3> QED BY <1>3, <2>2, <2>3
  <2>4. ASSUME req[u].status = 200 \/ pc[u] \in {"load_twin", "save_twin", "append_rul"},
               NEW r, r = req[u].run, Undeleted(r)'
        PROVE  row \in features'
    BY <1>2, <2>1, <2>3, <2>4 DEF Kept
  <2> HIDE DEF row
  <2>5. UNCHANGED <<row, pc, req>>
    BY <2>1 DEF row
  <2> QED BY <2>1, <2>4, <2>5 DEF Kept, row
<1>6. ASSUME NEW k \in Jobs PROVE Control(k)'
  <2>1. CASE k = j
    BY <1>1, <2>1 DEF Moves, Frame, Control
  <2>2. CASE k # j
    BY <1>1, <2>2 DEF Moves, Frame, Control, UploadsInv
  <2> QED BY <2>1, <2>2
<1>7. ASSUME NEW k \in Jobs PROVE FilesKept(k)'
  <2>0. job'[k].run = job[k].run
    BY <1>1 DEF Moves, Frame
  <2> SUFFICES ASSUME job'[k].kind = "analyze", jpc'[k] \in Storing \/ job'[k].status = 200,
                      NEW r, r = job[k].run, Undeleted(r)'
               PROVE  new_features(k)' \subseteq features'
    BY <2>0 DEF FilesKept
  <2>1. Undeleted(job[k].run) /\ \A row \in new_features(k) : row.run = r
    BY <1>2 DEF new_features
  <2>2. CASE k # j
    <3>1. job'[k] = job[k] /\ jpc'[k] = jpc[k]
      BY <1>1, <2>2 DEF Moves, Frame
    <3>2. new_features(k)' = new_features(k)
      BY <3>1 DEF new_features, index
    <3>3. new_features(k) \subseteq features
      BY <2>1, <3>1 DEF UploadsInv, FilesKept
    <3> QED BY <1>3, <2>1, <3>2, <3>3
  <2>3. CASE k = j
    <3>1. job[j].kind = "analyze"
      BY <1>1, <2>3 DEF Moves, Frame
    <3>2. CASE AppendFeatureRows(j)
      <4>1. features' = features \cup new_features(j) /\ UNCHANGED job
        BY <3>2 DEF AppendFeatureRows, append_features_bulk
      <4> QED BY <2>3, <4>1 DEF new_features, index
    <3>3. CASE jpc[j] \in Storing
      <4>1. new_features(j)' = new_features(j)
        BY <1>1, <3>3 DEF Moves, Frame, Storing, CountStart, JAt, new_features, index
      <4>2. new_features(j) \subseteq features
        BY <2>1, <2>3, <3>1, <3>3 DEF UploadsInv, FilesKept
      <4> QED BY <1>3, <2>1, <2>3, <4>1, <4>2
    <3> QED BY <1>1, <2>3, <3>1, <3>2, <3>3 DEF Moves
  <2> QED BY <2>2, <2>3
<1> QED BY <1>4, <1>5, <1>6, <1>7 DEF UploadsInv

LEMMA UploadsStep == UploadsInv /\ [ServiceNext]_svars => UploadsInv'
<1> SUFFICES ASSUME UploadsInv, [ServiceNext]_svars PROVE UploadsInv'
  OBVIOUS
<1>0. ServiceTypeInv'
  BY ServiceTypeStep DEF UploadsInv
<1>1. CASE UNCHANGED svars
  <2>1. UNCHANGED <<features, pc, req, jpc, job>>
    BY <1>1 DEF svars, vars, tables, jvars
  <2>2. \A r : Undeleted(r)' = Undeleted(r)
    BY <2>1 DEF Undeleted
  <2> QED
    BY <1>0, <2>1, <2>2 DEF UploadsInv, UniqueFeatures, Kept, Control, FilesKept, new_features, index
<1>2. ASSUME NEW u \in Payloads, IngestStep(u) PROVE UploadsInv'
  <2>1. (Receive(u) \/ Step(u)) /\ UNCHANGED <<jpc, job>>
    BY <1>2 DEF IngestStep
  <2>2. UniqueFeatures' /\ features \subseteq features'
    BY <2>1, UniqueIngest DEF UploadsInv
  <2>3. \A v \in Payloads : Kept(v)'
    BY <2>1, <2>2, KeptIngest DEF UploadsInv
  <2>4. \A j \in Jobs : Control(j)' /\ FilesKept(j)'
    BY <2>1, <2>2 DEF UploadsInv, Control, FilesKept, new_features, index, Undeleted
  <2> QED BY <1>0, <2>2, <2>3, <2>4 DEF UploadsInv
<1>3. ASSUME NEW j \in Jobs, JobStep(j) PROVE UploadsInv'
  BY <1>3, UploadsJob
<1> QED BY <1>1, <1>2, <1>3 DEF ServiceNext

\* No accepted upload is lost or overwritten, though /analyze takes no lock and
\* any number of uploads, analyses, passes, replays and deletes interleave.
THEOREM UploadsAlwaysKept == ServiceSpec => []UploadsKept
<1>1. UploadsInv => UploadsKept
  <2> SUFFICES ASSUME UploadsInv PROVE UploadsKept
    OBVIOUS
  <2>1. ASSUME NEW u \in Payloads, req[u].status = 200, Undeleted(req[u].run)
        PROVE  {f \in Of(features, req[u].run) : f.cut = req[u].cut}
                 = {[run |-> req[u].run, cut |-> req[u].cut, src |-> u]}
    <3> DEFINE row == [run |-> req[u].run, cut |-> req[u].cut, src |-> u]
    <3>1. row \in features
      BY <2>1 DEF UploadsInv, Kept
    <3>2. row.run = req[u].run /\ row.cut = req[u].cut
      OBVIOUS
    <3> HIDE DEF row
    <3>3. {f \in Of(features, req[u].run) : f.cut = req[u].cut} = {row}
      BY <3>1, <3>2 DEF UploadsInv, UniqueFeatures, Of
    <3> QED BY <3>3 DEF row
  <2>2. ASSUME NEW j \in Jobs, job[j].kind = "analyze", job[j].status = 200,
               Undeleted(job[j].run)
        PROVE  new_features(j) \subseteq features
    BY <2>2 DEF UploadsInv, FilesKept
  <2> QED BY <2>1, <2>2 DEF UploadsKept
<1> QED BY UploadsInit, UploadsStep, <1>1, PTL DEF ServiceSpec
-----------------------------------------------------------------------------
(***************************************************************************)
(* Labeled runs.  Whoever writes features of a run has found it without    *)
(* labels, or created it: labels go with their run and never come back, so *)
(* what was found still holds many statements later.                       *)
(***************************************************************************)
PastLabels == {"check_twin", "index", "put", "append_cut", "decode", "append_features"}

PastPick == {"fit", "deploy", "count", "has_twin", "upload", "append_cuts", "append_features"}

LabelInv ==
  /\ UploadsInv /\ ForeignKeys
  /\ \A u \in Payloads : pc[u] \in PastLabels => req[u].run \notin labels
  /\ \A j \in Jobs : jpc[j] \in PastPick => job[j].run \notin labels

LEMMA LabelInit == ServiceInit => LabelInv
BY UploadsInit DEF ServiceInit, LabelInv, PastLabels, PastPick

\* How a job gets past its look at the labels.
LEMMA PickOfJob ==
  ASSUME ServiceTypeInv, ForeignKeys, NEW j \in Jobs, JobStep(j)
  PROVE  /\ labels' \subseteq labels
         /\ jpc'[j] \in PastPick => jpc[j] \in PastPick \/ job[j].run \notin labels
<1> USE DEF JAt, JGoto, Answer
<1>0. jpc \in [Jobs -> JobPhase] /\ job[j].run \in Runs
  BY DEF ServiceTypeInv, Job
<1>1. CASE \/ BeginStart(j) \/ BeginView(j) \/ BeginDelete(j)
           \/ CreateUploads(j) \/ CutsRefused(j) \/ FeaturesRefused(j) \/ ReadCache(j) \/ Refit(j)
           \/ Reset(j) \/ ClearRul(j) \/ ClearResults(j) \/ AppendFeatureRows(j)
  <2>1. jpc'[j] \notin PastPick
    BY <1>0, <1>1 DEF PastPick, BeginStart, BeginView, BeginDelete, CreateUploads, CutsRefused,
       FeaturesRefused, ReadCache, Refit, Reset, ClearRul, ClearResults, AppendFeatureRows
  <2>2. labels' = labels
    BY <1>1 DEF BeginStart, BeginView, BeginDelete, CreateUploads, create_machine, CutsRefused,
       FeaturesRefused, ReadCache, Refit, Reset, save_twin_state, ClearRul, clear_rul,
       ClearResults, clear_cut_results, AppendFeatureRows, append_features_bulk, tables
  <2> QED BY <2>1, <2>2
<1>2. CASE \/ ReadFeatures(j) \/ Load(j) \/ Save(j) \/ StreamRul(j) \/ Hangup(j)
           \/ FinishPass(j) \/ StoreResults(j) \/ JobRaises(j)
  <2>1. jpc'[j] \notin PastPick
    BY <1>0, <1>2 DEF PastPick, ReadFeatures, Load, Save, StreamRul, Hangup, FinishPass,
       StoreResults, JobRaises
  <2>2. labels' = labels
    BY <1>2 DEF ReadFeatures, Load, Save, save_twin_state, StreamRul, append_rul, Hangup,
       FinishPass, StoreResults, save_cut_results, JobRaises, tables
  <2> QED BY <2>1, <2>2
<1>3. CASE BeginAnalyze(j) \/ PickAfter(j)
  <2>1. PickRun(j) \/ jpc'[j] \notin PastPick
    BY <1>0, <1>3 DEF BeginAnalyze, PickAfter, PastPick
  <2>2. PickRun(j) => jpc'[j] \notin PastPick \/ job[j].run \notin labels
    BY <1>0 DEF PickRun, PastPick
  <2>3. labels' = labels
    BY <1>3 DEF BeginAnalyze, PickAfter, tables
  <2> QED BY <2>1, <2>2, <2>3
<1>4. CASE CreateRun(j)
  <2>1. ~run_exists(job[j].run) /\ labels' = labels
    BY <1>4 DEF CreateRun, create_run
  <2> QED BY <1>0, <2>1 DEF ForeignKeys
<1>5. CASE \/ Fit(j) \/ Deploy(j) \/ CountStart(j) \/ HasTwin(j) \/ ReadUpload(j) \/ AppendCuts(j)
  BY <1>5 DEF PastPick, Fit, Deploy, save_twin_state, CountStart, HasTwin, ReadUpload, AppendCuts,
     append_cuts_bulk, tables
<1>6. CASE Delete(j)
  <2>1. jpc'[j] \notin PastPick
    BY <1>0, <1>6 DEF PastPick, Delete
  <2>2. labels' \subseteq labels
    BY <1>6 DEF Delete, clear_cut_results, clear_rul, clear_twin, clear_features, clear_labels,
       clear_cuts, clear_run
  <2> QED BY <2>1, <2>2
<1> QED BY <1>1, <1>2, <1>3, <1>4, <1>5, <1>6 DEF JobStep

\* The same of an upload.
LEMMA PickOfUpload ==
  ASSUME ServiceTypeInv, NEW u \in Payloads, Receive(u) \/ Step(u)
  PROVE  /\ labels' = labels
         /\ pc'[u] \in PastLabels => pc[u] \in PastLabels \/ req[u].run \notin labels
<1> USE DEF At, Goto, Raise, Returns, Check, PastLabels
<1>0. pc \in [Payloads -> Phase]
  BY DEF ServiceTypeInv, TypeInv, TypeOK
<1>1. CASE \/ Receive(u) \/ EnterRunLock(u) \/ CheckMachine(u) \/ CheckRun(u) \/ CheckLabels(u)
           \/ CheckTwin(u) \/ AssignIndex(u) \/ Decode(u) \/ StatementRaises(u) \/ ExitRunLock(u)
  BY <1>0, <1>1 DEF Receive, EnterRunLock, CheckMachine, CheckRun, CheckLabels, CheckTwin,
     AssignIndex, Decode, StatementRaises, ExitRunLock, tables
<1>2. CASE \/ PutBlob(u) \/ AppendCut(u) \/ AppendFeatures(u) \/ LoadTwin(u) \/ SaveTwin(u)
           \/ AppendRul(u)
  BY <1>0, <1>2 DEF PutBlob, AppendCut, append_cut, AppendFeatures, append_features, LoadTwin,
     SaveTwin, save_twin_state, AppendRul, append_rul, tables
<1> QED BY <1>1, <1>2 DEF Step

LEMMA LabelStep == LabelInv /\ [ServiceNext]_svars => LabelInv'
<1> SUFFICES ASSUME LabelInv, [ServiceNext]_svars PROVE LabelInv'
  OBVIOUS
<1>0. UploadsInv' /\ ForeignKeys'
  BY UploadsStep, KeysInvStep DEF LabelInv, UploadsInv, KeysInv
<1>1. CASE UNCHANGED svars
  BY <1>0, <1>1 DEF LabelInv, svars, vars, jvars, tables
<1>2. ASSUME NEW u \in Payloads, IngestStep(u) PROVE LabelInv'
  <2>1. /\ ServiceTypeInv /\ (Receive(u) \/ Step(u)) /\ UNCHANGED <<jpc, job>>
        /\ pc \in [Payloads -> Phase] /\ req \in [Payloads -> Request]
    BY <1>2 DEF IngestStep, LabelInv, UploadsInv, ServiceTypeInv, TypeInv, TypeOK
  <2>2. /\ labels' = labels
        /\ pc'[u] \in PastLabels => pc[u] \in PastLabels \/ req[u].run \notin labels
    BY <2>1, PickOfUpload
  <2>3. /\ \A v \in Payloads \ {u} : pc'[v] = pc[v] /\ req'[v] = req[v]
        /\ req'[u].run = req[u].run
    BY <2>1, ThreadFrame
  <2> QED BY <1>0, <2>1, <2>2, <2>3 DEF LabelInv
<1>3. ASSUME NEW j \in Jobs, JobStep(j) PROVE LabelInv'
  <2>1. ServiceTypeInv /\ Moves(j) /\ UNCHANGED <<pc, req>>
    BY <1>3, JobMoves DEF LabelInv, UploadsInv, JobStep
  <2>2. /\ labels' \subseteq labels
        /\ jpc'[j] \in PastPick => jpc[j] \in PastPick \/ job[j].run \notin labels
    BY <1>3, <2>1, PickOfJob DEF LabelInv
  <2>3. /\ \A k \in Jobs \ {j} : job'[k] = job[k] /\ jpc'[k] = jpc[k]
        /\ job'[j].run = job[j].run
    BY <2>1 DEF Moves, Frame
  <2> QED BY <1>0, <2>1, <2>2, <2>3 DEF LabelInv
<1> QED BY <1>1, <1>2, <1>3 DEF ServiceNext

LEMMA LabeledKept ==
  LabelInv /\ [ServiceNext]_svars
  => [\A r \in labels : Of(features, r)' \subseteq Of(features, r)]_svars
<1> SUFFICES ASSUME LabelInv, ServiceNext, NEW r \in labels
             PROVE  \A f \in features' : f.run = r => f \in features
  BY DEF Of
<1>1. ASSUME NEW u \in Payloads, IngestStep(u)
      PROVE  \A f \in features' : f.run = r => f \in features
  <2>1. CASE AppendFeatures(u)
    <3> DEFINE row == [run |-> req[u].run, cut |-> req[u].cut, src |-> u]
    <3>1. features' = features \cup {row} /\ pc[u] = "append_features"
      BY <2>1 DEF AppendFeatures, append_features, At
    <3>2. row.run # r
      BY <3>1 DEF LabelInv, PastLabels
    <3> HIDE DEF row
    <3> QED BY <3>1, <3>2
  <2>2. CASE UNCHANGED features
    BY <2>2
  <2> QED
    BY <1>1, <2>1, <2>2 DEF IngestStep, Receive, Step, tables, EnterRunLock, CheckMachine,
       CheckRun, CheckLabels, CheckTwin, Check, AssignIndex, PutBlob, AppendCut, append_cut,
       Decode, LoadTwin, SaveTwin, save_twin_state, AppendRul, append_rul, StatementRaises,
       ExitRunLock
<1>2. ASSUME NEW j \in Jobs, JobStep(j)
      PROVE  \A f \in features' : f.run = r => f \in features
  <2>1. CASE AppendFeatureRows(j) \/ FeaturesRefused(j)
    <3>1. \A f \in features' : f \in features \/ f \in new_features(j)
      BY <2>1 DEF AppendFeatureRows, append_features_bulk, FeaturesRefused, before
    <3>2. jpc[j] = "append_features"
      BY <2>1 DEF AppendFeatureRows, FeaturesRefused, JAt
    <3>3. \A f \in new_features(j) : f.run = job[j].run
      BY DEF new_features
    <3> QED BY <3>1, <3>2, <3>3 DEF LabelInv, PastPick
  <2>2. CASE features' \subseteq features
    BY <2>2
  <2> QED
    BY <1>2, <2>1, <2>2 DEF JobStep, tables, BeginStart, BeginAnalyze, CreateUploads,
       create_machine, PickAfter, BeginView, BeginDelete, CreateRun, create_run, Fit, Deploy,
       save_twin_state, CountStart, HasTwin, ReadUpload, AppendCuts, append_cuts_bulk,
       CutsRefused, ReadCache, Refit, Reset, ClearRul, clear_rul, ClearResults,
       clear_cut_results, ReadFeatures, Load, Save, StreamRul, append_rul, Hangup, FinishPass,
       StoreResults, save_cut_results, JobRaises, Delete, clear_twin, clear_features,
       clear_labels, clear_cuts, clear_run
<1> QED BY <1>1, <1>2 DEF ServiceNext

\* No upload, live or of a batch, adds a cut to a run that has wear labels or
\* changes one of its cuts, though the labels are read many statements before
\* the features are written.
THEOREM LabeledStay == ServiceSpec => ReferencesFixed
<1>1. LabelInv /\ [ServiceNext]_svars
        => [\A r \in labels : Of(features, r)' \subseteq Of(features, r)]_svars
  BY LabeledKept
<1> QED BY LabelInit, LabelStep, <1>1, PTL DEF ServiceSpec, ReferencesFixed
-----------------------------------------------------------------------------
(***************************************************************************)
(* Starts and deletes of a run.  Of requests that start one run, only one  *)
(* gets past the insert; a delete that nobody disturbs has emptied, table  *)
(* after table, what it has been through.                                  *)
(***************************************************************************)
Past(j) == jpc[j] \in {"fit", "deploy"} \/ job[j].status = 200

StartAt(j) ==
  LET r == job[j].run IN
  job[j].kind = "start" =>
    /\ job[j].machine # NoMachine
    /\ Undeleted(r) /\ Past(j) =>
         /\ on_machine(r, job[j].machine)
         /\ job[j].status = 200 => has_twin_state(r)
         /\ \A k \in Jobs \ {j} : job[k].kind = "start" /\ job[k].run = r => ~Past(k)

\* What is done, and what is left to do, of an undisturbed delete.
Left(j) == IF job[j].status = 200 THEN "nothing" ELSE jpc[j]

Emptied(phase, r) ==
  /\ phase \in {"del_rul", "del_twin", "del_features", "del_labels", "del_cuts", "del_run",
                "nothing"} => Of(results, r) = {}
  /\ phase \in {"del_twin", "del_features", "del_labels", "del_cuts", "del_run", "nothing"} =>
       Of(rul, r) = {}
  /\ phase \in {"del_features", "del_labels", "del_cuts", "del_run", "nothing"} =>
       ~has_twin_state(r)
  /\ phase \in {"del_labels", "del_cuts", "del_run", "nothing"} => Of(features, r) = {}
  /\ phase \in {"del_cuts", "del_run", "nothing"} => r \notin labels
  /\ phase \in {"del_run", "nothing"} => Of(cuts, r) = {}
  /\ phase = "nothing" => Of(runs, r) = {}

DeleteAt(j) ==
  job[j].kind = "delete" /\ j \notin touched =>
    /\ jpc[j] \in (DelPhase \ {"del_results"}) \cup {"answered"}
    /\ ~Faults => job[j].status # 500
    /\ Emptied(Left(j), job[j].run)

RunsInv ==
  /\ UploadsInv
  /\ \A j \in Jobs : StartAt(j) /\ DeleteAt(j)

LEMMA RunsInit == ServiceInit => RunsInv
BY UploadsInit DEF ServiceInit, RunsInv, StartAt, DeleteAt, Past

\* A run whose rows no step wrote.
LEMMA Unwritten == \A r \in Runs : r \notin Written => RowsOf(r)' = RowsOf(r)
<1>1. \A S : \A r \in Runs : r \notin {s \in Runs : s \in S} => r \notin S
  OBVIOUS
<1> QED BY <1>1, Zenon DEF Written

LEMMA AnswerMachine ==
  ASSUME JobsOK, NEW j \in Jobs, NEW s, Answer(j, s) PROVE job'[j].machine = job[j].machine
<1>1. job'[j] = [job[j] EXCEPT !.status = s, !.todo = {}, !.post = <<>>] /\ job[j] \in Job
  BY DEF JobsOK, Answer
<1> QED BY <1>1 DEF Job

\* Until it is deleted, a run stays where it is, and it keeps its twin.
LEMMA RunStays ==
  ASSUME UploadsInv,
         \/ \E u \in Payloads : IngestStep(u)
         \/ \E j \in Jobs : JobStep(j)
  PROVE  \A r \in Runs : Undeleted(r)' =>
           /\ Undeleted(r)
           /\ \A m : on_machine(r, m) => on_machine(r, m)'
           /\ has_twin_state(r) => has_twin_state(r)'
<1>0. ServiceTypeInv /\ twin \in [Runs -> Posterior \cup {NoTwin}] /\ NoTwin \notin Posterior
  BY NoTwinAssumption DEF UploadsInv, ServiceTypeInv, TypeInv, TypeOK, TablesOK, Posterior
<1> SUFFICES ASSUME NEW r \in Runs, Undeleted(r)'
             PROVE  /\ Undeleted(r)
                    /\ \A row \in runs : row.run = r => row \in runs'
                    /\ twin[r] # NoTwin => twin'[r] # NoTwin
  BY DEF on_machine, has_twin_state, Of
<1>1. ASSUME NEW u \in Payloads, IngestStep(u)
      PROVE  /\ Undeleted(r)
             /\ \A row \in runs : row.run = r => row \in runs'
             /\ twin[r] # NoTwin => twin'[r] # NoTwin
  <2>1. Undeleted(r)
    BY <1>1 DEF IngestStep, Undeleted
  <2>2. CASE SaveTwin(u)
    <3>1. filtered(u) \in Posterior
      BY <1>0 DEF filtered, ServiceTypeInv, TypeInv, TypeOK, Request, Posterior
    <3>2. runs' = runs /\ twin' = [twin EXCEPT ![req[u].run] = filtered(u)]
      BY <2>2 DEF SaveTwin, save_twin_state
    <3> QED BY <1>0, <2>1, <3>1, <3>2
  <2>3. CASE UNCHANGED <<runs, twin>>
    BY <2>1, <2>3
  <2> QED
    BY <1>1, <2>2, <2>3 DEF IngestStep, Receive, Step, tables, EnterRunLock, CheckMachine,
       CheckRun, CheckLabels, CheckTwin, Check, AssignIndex, PutBlob, AppendCut, append_cut,
       Decode, AppendFeatures, append_features, LoadTwin, AppendRul, append_rul,
       StatementRaises, ExitRunLock
<1>2. ASSUME NEW j \in Jobs, JobStep(j)
      PROVE  /\ Undeleted(r)
             /\ \A row \in runs : row.run = r => row \in runs'
             /\ twin[r] # NoTwin => twin'[r] # NoTwin
  <2>1. Control(j) /\ Undeleted(r)
    BY <1>0, <1>2, JobMoves, UndeletedBefore DEF UploadsInv
  <2>2. CASE Save(j)
    <3> DEFINE p == Append(job[j].post, least(job[j].todo))
    <3>1. p \in Posterior
      <4>1. job[j].todo # {} /\ job[j].todo \in SUBSET Nat /\ job[j].post \in Posterior
        BY <1>0, <2>2 DEF ServiceTypeInv, JobInv, Job, Save, JAt
      <4>2. least(job[j].todo) \in Nat
        BY <4>1, LeastIsMember
      <4> QED BY <4>1, <4>2 DEF Posterior
    <3>2. runs' = runs /\ twin' = [twin EXCEPT ![job[j].run] = p]
      BY <2>2 DEF Save, save_twin_state
    <3> HIDE DEF p
    <3> QED BY <1>0, <2>1, <3>1, <3>2
  <2>3. CASE Deploy(j) \/ Reset(j)
    <3>1. runs' = runs /\ twin' = [twin EXCEPT ![job[j].run] = <<>>]
      BY <2>3 DEF Deploy, Reset, save_twin_state
    <3>2. <<>> \in Posterior
      BY DEF Posterior
    <3> QED BY <1>0, <2>1, <3>1, <3>2
  <2>4. CASE Delete(j)
    <3>1. job[j].kind = "delete" /\ job[j].status = 0 /\ jpc[j] # "unsent"
      BY <2>1, <2>4 DEF Control, Delete, JAt, DelPhase
    <3>2. job[j].run # r
      BY <2>1, <3>1 DEF Undeleted
    <3> QED
      BY <1>0, <2>1, <2>4, <3>2 DEF Delete, clear_cut_results, clear_rul, clear_twin,
         clear_features, clear_labels, clear_cuts, clear_run, Of
  <2>5. CASE runs \subseteq runs' /\ twin' = twin
    BY <2>1, <2>5
  <2> QED
    BY <1>2, <2>2, <2>3, <2>4, <2>5 DEF JobStep, tables, BeginStart, BeginAnalyze,
       CreateUploads, create_machine, PickAfter, BeginView, BeginDelete, CreateRun, create_run,
       Fit, CountStart, HasTwin, ReadUpload, AppendCuts, append_cuts_bulk, AppendFeatureRows,
       append_features_bulk, CutsRefused, FeaturesRefused, ReadCache, Refit, ClearRul, clear_rul,
       ClearResults, clear_cut_results, ReadFeatures, Load, StreamRul, append_rul, Hangup,
       FinishPass, StoreResults, save_cut_results, JobRaises
<1> QED BY <1>1, <1>2

\* What a request to start a run does next.
LEMMA StartSteps ==
  ASSUME ServiceTypeInv, NEW j \in Jobs, JobStep(j), Control(j), job[j].kind = "start"
  PROVE  \/ BeginStart(j) \/ CreateRun(j) \/ Fit(j) \/ Deploy(j) \/ JobRaises(j)
BY DEF Control, JobStep, JAt, BeginAnalyze, CreateUploads, PickAfter, BeginView, BeginDelete,
       CountStart, HasTwin, ReadUpload, AppendCuts, AppendFeatureRows, CutsRefused,
       FeaturesRefused, ReadCache, Refit, Reset, ClearRul, ClearResults, ReadFeatures, Load, Save,
       StreamRul, Hangup, FinishPass, StoreResults, Delete

\* A step of one of them.
LEMMA StartMoves ==
  ASSUME RunsInv, NEW j \in Jobs, JobStep(j), job[j].kind = "start",
         NEW r, r = job[j].run, NEW m, m = job[j].machine
  PROVE  /\ job'[j].machine = m
         /\ Undeleted(r)' /\ Past(j)' =>
              /\ on_machine(r, m)'
              /\ job'[j].status = 200 => has_twin_state(r)'
              /\ Past(j) \/ ~run_exists(r)
<1>0. /\ ServiceTypeInv /\ Control(j) /\ StartAt(j) /\ Moves(j) /\ JobsOK /\ r \in Runs
      /\ job[j].status # 200
  BY JobMoves DEF RunsInv, UploadsInv, ServiceTypeInv, JobsOK, Job, Control, Moves
<1>1. Undeleted(r)' => /\ Undeleted(r)
                       /\ on_machine(r, m) => on_machine(r, m)'
                       /\ has_twin_state(r) => has_twin_state(r)'
  BY <1>0, RunStays DEF RunsInv
<1>2. CASE BeginStart(j) \/ JobRaises(j)
  <2>1. \/ \E s \in {400, 404, 409, 500} : Answer(j, s)
        \/ \E phase \in {"create", "aborted"} : JGoto(j, phase) /\ UNCHANGED job
    BY <1>2 DEF BeginStart, JobRaises
  <2>2. job'[j].machine = m /\ jpc'[j] \notin {"fit", "deploy"} /\ job'[j].status # 200
    BY <1>0, <2>1, AnswerMachine, AnswerFrame, GotoFrame
  <2> QED BY <2>2 DEF Past
<1>3. CASE CreateRun(j)
  <2>1. jpc'[j] = "fit" /\ job' = job /\ job[j].machine # NoMachine
    BY <1>0, <1>3 DEF CreateRun, JobsOK, JGoto, StartAt
  <2> DEFINE row == [run |-> r, machine |-> m, ended |-> FALSE]
  <2>2. ~run_exists(r) /\ runs' = runs \cup {row}
    BY <1>3, <2>1 DEF CreateRun, create_run, target
  <2>3. row.run = r /\ row.machine = m
    OBVIOUS
  <2> HIDE DEF row
  <2>4. on_machine(r, m)'
    BY <2>2, <2>3 DEF on_machine, Of
  <2> QED BY <1>0, <2>1, <2>2, <2>4
<1>4. CASE Fit(j)
  <2>1. jpc[j] = "fit" /\ (job' = job \/ Answer(j, 500))
    BY <1>4 DEF Fit, JAt
  <2>2. job'[j].machine = m /\ job'[j].status # 200
    BY <1>0, <2>1, AnswerMachine, AnswerFrame
  <2> QED BY <1>0, <1>1, <2>1, <2>2 DEF StartAt, Past
<1>5. CASE Deploy(j)
  <2>1. jpc[j] = "deploy" /\ Answer(j, 200) /\ twin' = [twin EXCEPT ![r] = <<>>]
    BY <1>5 DEF Deploy, JAt, save_twin_state
  <2>2. job'[j].machine = m
    BY <1>0, <2>1, AnswerMachine
  <2>3. twin'[r] # NoTwin
    <3>1. twin'[r] = <<>>
      BY <1>0, <2>1 DEF ServiceTypeInv, TypeInv, TypeOK, TablesOK
    <3>2. <<>> \in Seq(Nat)
      OBVIOUS
    <3> QED BY <3>1, <3>2, NoTwinAssumption
  <2> QED BY <1>0, <1>1, <2>1, <2>2, <2>3 DEF StartAt, Past, has_twin_state
<1> QED BY <1>0, <1>2, <1>3, <1>4, <1>5, StartSteps

LEMMA StartJob ==
  ASSUME RunsInv, NEW j \in Jobs, JobStep(j) PROVE \A k \in Jobs : StartAt(k)'
<1>0. UploadsInv /\ ServiceTypeInv /\ Moves(j) /\ JobsOK
  BY JobMoves DEF RunsInv, UploadsInv, ServiceTypeInv, JobsOK
<1>1. /\ \A k \in Jobs \ {j} : job'[k] = job[k] /\ jpc'[k] = jpc[k]
      /\ job'[j].kind = job[j].kind /\ job'[j].run = job[j].run
      /\ \A k \in Jobs : job[k].run \in Runs
  BY <1>0 DEF Moves, Frame, JobsOK, Job
<1>2. \A r \in Runs : Undeleted(r)' =>
        /\ Undeleted(r)
        /\ \A m : on_machine(r, m) => on_machine(r, m)'
        /\ has_twin_state(r) => has_twin_state(r)'
  BY <1>0, RunStays
\* A run that a start has created is there, so no other start creates it.
<1>3. ASSUME NEW k \in Jobs, job[k].kind = "start", Past(k), Undeleted(job[k].run)
      PROVE  run_exists(job[k].run) /\ StartAt(k)
  BY <1>3 DEF RunsInv, StartAt, on_machine, run_exists
<1>4. ASSUME NEW k \in Jobs \ {j} PROVE Past(k)' = Past(k)
  BY <1>1 DEF Past
<1>5. ASSUME job[j].kind = "start" PROVE StartAt(j)'
  <2> SUFFICES ASSUME NEW r, r = job[j].run, NEW m, m = job[j].machine PROVE StartAt(j)'
    OBVIOUS
  <2>1. /\ job'[j].machine = m
        /\ Undeleted(r)' /\ Past(j)' =>
             /\ on_machine(r, m)'
             /\ job'[j].status = 200 => has_twin_state(r)'
             /\ Past(j) \/ ~run_exists(r)
    BY <1>5, StartMoves
  <2>2. StartAt(j) /\ r \in Runs
    BY <1>1 DEF RunsInv
  <2>3. ASSUME Undeleted(r)', Past(j)',
               NEW k \in Jobs \ {j}, job[k].kind = "start", job[k].run = r, Past(k)
        PROVE  FALSE
    <3>1. Undeleted(r)
      BY <1>2, <2>2, <2>3
    <3>2. run_exists(r)
      BY <1>3, <2>3, <3>1
    <3>3. Past(j)
      BY <2>1, <2>3, <3>2
    <3> QED BY <1>5, <2>2, <2>3, <3>1, <3>3 DEF StartAt
  <2>4. m # NoMachine
    BY <1>5, <2>2 DEF StartAt
  <2>5. job'[j].run = r
    BY <1>1
  <2>6. Undeleted(r)' /\ Past(j)' =>
          \A k \in Jobs \ {j} : job'[k].kind = "start" /\ job'[k].run = r => ~Past(k)'
    BY <1>1, <1>4, <2>3
  <2> QED BY <2>1, <2>4, <2>5, <2>6 DEF StartAt
<1>6. ASSUME NEW k \in Jobs \ {j}, job[k].kind = "start" PROVE StartAt(k)'
  <2> SUFFICES ASSUME NEW r, r = job[k].run, NEW m, m = job[k].machine PROVE StartAt(k)'
    OBVIOUS
  <2>1. StartAt(k) /\ r \in Runs
    BY <1>1 DEF RunsInv
  <2>2. ASSUME Undeleted(r)', Past(k), job[j].kind = "start", job[j].run = r, Past(j)'
        PROVE  FALSE
    <3>1. Undeleted(r)
      BY <1>2, <2>1, <2>2
    <3>2. Past(j) \/ ~run_exists(r)
      <4> SUFFICES ASSUME NEW n, n = job[j].machine PROVE Past(j) \/ ~run_exists(r)
        OBVIOUS
      <4> QED BY <2>2, StartMoves
    <3> QED BY <1>3, <1>6, <2>1, <2>2, <3>1, <3>2 DEF StartAt
  <2>3. ASSUME Undeleted(r)', Past(k)
        PROVE  /\ on_machine(r, m)'
               /\ job[k].status = 200 => has_twin_state(r)'
               /\ \A l \in Jobs \ {j, k} : job[l].kind = "start" /\ job[l].run = r => ~Past(l)
    BY <1>2, <1>6, <2>1, <2>3 DEF StartAt
  <2>4. m # NoMachine
    BY <1>6, <2>1 DEF StartAt
  <2>5. job'[k] = job[k] /\ Past(k)' = Past(k)
    BY <1>1, <1>4
  <2>6. Undeleted(r)' /\ Past(k) =>
          \A l \in Jobs \ {k} : job'[l].kind = "start" /\ job'[l].run = r => ~Past(l)'
    BY <1>1, <1>4, <2>2, <2>3
  <2> QED BY <2>3, <2>4, <2>5, <2>6 DEF StartAt
<1>7. \A k \in Jobs : job'[k].kind = job[k].kind
  BY <1>1
<1> QED BY <1>5, <1>6, <1>7 DEF StartAt

\* The rows of the run are all that an undisturbed delete depends on.
LEMMA EmptiedSame ==
  ASSUME NEW r, RowsOf(r)' = RowsOf(r), NEW phase, Emptied(phase, r) PROVE Emptied(phase, r)'
<1>1. /\ Of(runs, r)' = Of(runs, r) /\ Of(cuts, r)' = Of(cuts, r)
      /\ Of(features, r)' = Of(features, r) /\ Of(rul, r)' = Of(rul, r)
      /\ twin'[r] = twin[r] /\ Of(results, r)' = Of(results, r)
      /\ (r \in labels)' <=> (r \in labels)
  BY DEF RowsOf
<1> QED BY <1>1 DEF Emptied, has_twin_state

\* A statement of a delete empties its table and leaves the others alone.
LEMMA DeleteMoves ==
  ASSUME ServiceTypeInv, NEW j \in Jobs, Control(j), Delete(j), NEW r, r = job[j].run,
         jpc[j] # "del_results" => Emptied(jpc[j], r)
  PROVE  /\ jpc'[j] \in (DelPhase \ {"del_results"}) \cup {"answered"}
         /\ job'[j].status \in {0, 200}
         /\ job'[j].run = r
         /\ \A phase : phase = Left(j)' => Emptied(phase, r)'
<1> USE DEF JAt, Left
<1>0. /\ JobsOK /\ r \in Runs /\ twin \in [Runs -> Posterior \cup {NoTwin}]
      /\ jpc[j] # "answered" => job[j].status = 0
  BY DEF ServiceTypeInv, JobsOK, Job, TypeInv, TypeOK, TablesOK, Control
<1>1. ASSUME NEW next, JGoto(j, next), UNCHANGED job, jpc[j] # "answered"
      PROVE  /\ jpc'[j] = next /\ job'[j].status = 0 /\ job'[j].run = r /\ Left(j)' = next
  BY <1>0, <1>1, GotoFrame
<1>2. CASE jpc[j] = "del_results" /\ clear_cut_results(r) /\ JGoto(j, "del_rul") /\ UNCHANGED job
  <2>1. Of(results, r)' = {}
    BY <1>2 DEF clear_cut_results, Of
  <2> QED BY <1>1, <1>2, <2>1 DEF Emptied, DelPhase
<1>3. CASE jpc[j] = "del_rul" /\ clear_rul(r) /\ JGoto(j, "del_twin") /\ UNCHANGED job
  <2>1. Of(rul, r)' = {} /\ Of(results, r)' = Of(results, r)
    BY <1>3 DEF clear_rul, Of
  <2> QED BY <1>1, <1>3, <2>1 DEF Emptied, DelPhase
<1>4. CASE jpc[j] = "del_twin" /\ clear_twin(r) /\ JGoto(j, "del_features") /\ UNCHANGED job
  <2>1. Of(rul, r)' = Of(rul, r) /\ Of(results, r)' = Of(results, r) /\ ~has_twin_state(r)'
    BY <1>0, <1>4 DEF clear_twin, Of, has_twin_state
  <2> QED BY <1>1, <1>4, <2>1 DEF Emptied, DelPhase
<1>5. CASE jpc[j] = "del_features" /\ clear_features(r) /\ JGoto(j, "del_labels") /\ UNCHANGED job
  <2>1. /\ Of(rul, r)' = Of(rul, r) /\ Of(results, r)' = Of(results, r)
        /\ has_twin_state(r)' = has_twin_state(r) /\ Of(features, r)' = {}
    BY <1>5 DEF clear_features, Of, has_twin_state
  <2> QED BY <1>1, <1>5, <2>1 DEF Emptied, DelPhase
<1>6. CASE jpc[j] = "del_labels" /\ clear_labels(r) /\ JGoto(j, "del_cuts") /\ UNCHANGED job
  <2>1. /\ Of(rul, r)' = Of(rul, r) /\ Of(results, r)' = Of(results, r)
        /\ has_twin_state(r)' = has_twin_state(r) /\ Of(features, r)' = Of(features, r)
        /\ r \notin labels'
    BY <1>6 DEF clear_labels, Of, has_twin_state
  <2> QED BY <1>1, <1>6, <2>1 DEF Emptied, DelPhase
<1>7. CASE jpc[j] = "del_cuts" /\ clear_cuts(r) /\ JGoto(j, "del_run") /\ UNCHANGED job
  <2>1. /\ Of(rul, r)' = Of(rul, r) /\ Of(results, r)' = Of(results, r)
        /\ has_twin_state(r)' = has_twin_state(r) /\ Of(features, r)' = Of(features, r)
        /\ labels' = labels /\ Of(cuts, r)' = {}
    BY <1>7 DEF clear_cuts, Of, has_twin_state
  <2> QED BY <1>1, <1>7, <2>1 DEF Emptied, DelPhase
<1>8. CASE jpc[j] = "del_run" /\ clear_run(r) /\ Answer(j, 200)
  <2>1. /\ Of(rul, r)' = Of(rul, r) /\ Of(results, r)' = Of(results, r)
        /\ has_twin_state(r)' = has_twin_state(r) /\ Of(features, r)' = Of(features, r)
        /\ labels' = labels /\ Of(cuts, r)' = Of(cuts, r) /\ Of(runs, r)' = {}
    BY <1>8 DEF clear_run, Of, has_twin_state
  <2>2. jpc'[j] = "answered" /\ job'[j].status = 200 /\ job'[j].run = r
    BY <1>0, <1>8, AnswerFrame DEF Frame
  <2> QED BY <1>8, <2>1, <2>2 DEF Emptied
<1> QED BY <1>2, <1>3, <1>4, <1>5, <1>6, <1>7, <1>8 DEF Delete

LEMMA DeleteJob ==
  ASSUME RunsInv, NEW j \in Jobs, JobStep(j) PROVE \A k \in Jobs : DeleteAt(k)'
<1>0. /\ ServiceTypeInv /\ Control(j) /\ Moves(j) /\ JobsOK /\ Watch(j)
      /\ \A k \in Jobs : DeleteAt(k) /\ job[k].run \in Runs
  BY JobMoves DEF RunsInv, UploadsInv, ServiceTypeInv, JobsOK, Job, JobStep
<1>1. /\ \A k \in Jobs \ {j} : job'[k] = job[k] /\ jpc'[k] = jpc[k]
      /\ job'[j].kind = job[j].kind
  BY <1>0 DEF Moves, Frame
<1>2. ASSUME NEW k \in Jobs \ {j}, job[k].kind = "delete", k \notin touched' PROVE DeleteAt(k)'
  <2> SUFFICES ASSUME NEW r, r = job[k].run, NEW phase, phase = Left(k) PROVE DeleteAt(k)'
    OBVIOUS
  <2>1. k \notin touched /\ r \notin Written
    BY <1>0, <1>2 DEF Watch
  <2>2. RowsOf(r)' = RowsOf(r)
    BY <1>0, <2>1, Unwritten
  <2>3. Emptied(phase, r)
    BY <1>0, <1>2, <2>1 DEF DeleteAt
  <2>4. Emptied(phase, r)'
    BY <2>2, <2>3, EmptiedSame
  <2>5. job'[k] = job[k] /\ Left(k)' = phase /\ jpc'[k] = jpc[k]
    BY <1>1 DEF Left
  <2> QED BY <1>0, <1>2, <2>1, <2>4, <2>5 DEF DeleteAt
<1>3. ASSUME job[j].kind = "delete", j \notin touched' PROVE DeleteAt(j)'
  <2> SUFFICES ASSUME NEW r, r = job[j].run PROVE DeleteAt(j)'
    OBVIOUS
  <2>1. j \notin touched \/ jpc[j] \in {"reset", "del_results"}
    BY <1>0, <1>3 DEF Watch
  <2>2. jpc[j] \in DelPhase
    BY <1>0, <1>3, <2>1 DEF DeleteAt, Control, Moves, DelPhase
  <2>3. jpc[j] # "del_results" => Emptied(jpc[j], r)
    BY <1>0, <1>3, <2>1, <2>2 DEF DeleteAt, Left, Control, DelPhase
  <2>4. Delete(j) \/ JobRaises(j)
    BY <2>2 DEF JobStep, DelPhase, JAt, BeginStart, BeginAnalyze, CreateUploads, PickAfter,
       BeginView, BeginDelete, CreateRun, Fit, Deploy, CountStart, HasTwin, ReadUpload,
       AppendCuts, AppendFeatureRows, CutsRefused, FeaturesRefused, ReadCache, Refit, Reset,
       ClearRul, ClearResults, ReadFeatures, Load, Save, StreamRul, Hangup, FinishPass,
       StoreResults
  <2>5. CASE Delete(j)
    <3>1. /\ jpc'[j] \in (DelPhase \ {"del_results"}) \cup {"answered"}
          /\ job'[j].status \in {0, 200}
          /\ job'[j].run = r
          /\ \A phase : phase = Left(j)' => Emptied(phase, r)'
      BY <1>0, <2>3, <2>5, DeleteMoves
    <3> SUFFICES ASSUME NEW phase, phase = Left(j)' PROVE DeleteAt(j)'
      OBVIOUS
    <3> QED BY <3>1 DEF DeleteAt, Left
\* What it has been through is empty, so no foreign key refuses the next statement.
  <2>6. CASE JobRaises(j)
    <3>1. Answer(j, 500) /\ UNCHANGED tables
      BY <1>3, <2>2, <2>6 DEF JobRaises, JAt, DelPhase
    <3>2. Faults
      BY <2>2, <2>3, <2>6 DEF JobRaises, JobRefused, JAt, DelPhase, Emptied
    <3>3. jpc'[j] = "answered" /\ job'[j].status = 500
      BY <1>0, <3>1, AnswerFrame
    <3> QED BY <3>2, <3>3 DEF DeleteAt, Left, Emptied
  <2> QED BY <2>4, <2>5, <2>6
<1> QED BY <1>1, <1>2, <1>3 DEF DeleteAt

LEMMA RunsStep == RunsInv /\ [ServiceNext]_svars => RunsInv'
<1> SUFFICES ASSUME RunsInv, [ServiceNext]_svars PROVE RunsInv'
  OBVIOUS
<1>0. UploadsInv /\ UploadsInv'
  BY UploadsStep DEF RunsInv
<1>1. CASE UNCHANGED svars
  <2>1. UNCHANGED <<tables, jpc, job, touched>>
    BY <1>1 DEF svars, vars, jvars
  <2> QED
    BY <1>0, <2>1 DEF RunsInv, StartAt, DeleteAt, Past, Left, Emptied, Undeleted, on_machine,
       has_twin_state, Of, tables
<1>2. ASSUME NEW u \in Payloads, IngestStep(u) PROVE RunsInv'
  <2>1. UNCHANGED <<jpc, job>> /\ Watch(u) /\ u \notin Jobs
    BY <1>2, JobAssumption DEF IngestStep
  <2>2. ASSUME NEW j \in Jobs PROVE StartAt(j)' /\ DeleteAt(j)'
    <3> SUFFICES ASSUME NEW r, r = job[j].run, NEW m, m = job[j].machine,
                        NEW phase, phase = Left(j)
                 PROVE  StartAt(j)' /\ DeleteAt(j)'
      OBVIOUS
    <3>1. StartAt(j) /\ DeleteAt(j) /\ r \in Runs
      BY <1>0 DEF RunsInv, UploadsInv, ServiceTypeInv, Job
    <3>2. Undeleted(r)' => /\ Undeleted(r)
                           /\ on_machine(r, m) => on_machine(r, m)'
                           /\ has_twin_state(r) => has_twin_state(r)'
      BY <1>0, <1>2, <3>1, RunStays
    <3>3. StartAt(j)'
      BY <2>1, <3>1, <3>2 DEF StartAt, Past
    <3>4. DeleteAt(j)'
      <4> SUFFICES ASSUME j \notin touched', job[j].kind = "delete" PROVE DeleteAt(j)'
        BY <2>1 DEF DeleteAt
      <4>1. j \notin touched /\ r \notin Written
        BY <2>1 DEF Watch
      <4>2. RowsOf(r)' = RowsOf(r)
        BY <3>1, <4>1, Unwritten
      <4>3. Emptied(phase, r)'
        BY <3>1, <4>1, <4>2, EmptiedSame DEF DeleteAt
      <4> QED BY <2>1, <3>1, <4>1, <4>3 DEF DeleteAt, Left
    <3> QED BY <3>3, <3>4
  <2> QED BY <1>0, <2>2 DEF RunsInv
<1>3. ASSUME NEW j \in Jobs, JobStep(j) PROVE RunsInv'
  BY <1>0, <1>3, StartJob, DeleteJob DEF RunsInv
<1> QED BY <1>1, <1>2, <1>3 DEF ServiceNext

\* A delete that nobody disturbs succeeds and leaves nothing of its run in any
\* table; and of overlapping requests for one run id, one alone is told that
\* the tool is its own, which it is.
THEOREM RunsAlwaysSafe == ServiceSpec => []RunsSafe
<1>1. RunsInv => RunsSafe
  <2> SUFFICES ASSUME RunsInv PROVE RunsSafe
    OBVIOUS
  <2>1. DeleteIsWhole
    <3> SUFFICES ASSUME NEW j \in Jobs, job[j].kind = "delete", j \notin touched,
                        NEW r, r = job[j].run
                 PROVE  /\ ~Faults => job[j].status # 500
                        /\ job[j].status = 200 =>
                             /\ \A table \in {runs, cuts, features, rul, results} :
                                  Of(table, r) = {}
                             /\ ~has_twin_state(r) /\ r \notin labels
      BY DEF DeleteIsWhole
    <3>1. DeleteAt(j)
      BY DEF RunsInv
    <3> QED BY <3>1 DEF DeleteAt, Left, Emptied
  <2>2. StartedOnce
    BY DEF RunsInv, StartAt, Past, StartedOnce
  <2> QED BY <2>1, <2>2 DEF RunsSafe
<1> QED BY RunsInit, RunsStep, <1>1, PTL DEF ServiceSpec
=============================================================================
