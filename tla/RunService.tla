----------------------------- MODULE RunService -----------------------------
(***************************************************************************)
(* The other endpoints of api/app.py that write a run's rows, beside live  *)
(* ingest:                                                                 *)
(*   start     POST /machines/{m}/runs            (start_run)              *)
(*   analyze   POST /analyze                      (analyze)                *)
(*   results   GET /machines/{m}/runs/{r}/results (get_results)            *)
(*   replay    GET /machines/{m}/runs/{r}/replay  (replay)                 *)
(*   delete    DELETE /machines/{m}/runs/{r}      (delete_run_endpoint)    *)
(* None of them takes the run lock.  A job is one such request.  Each of   *)
(* its statements is an action, interleaved with the ingest threads and    *)
(* with the other jobs; only /analyze runs on the event loop, where it     *)
(* gives way to another /analyze nowhere but at "await uf.read()".         *)
(*                                                                         *)
(* The reads a job makes before its first write are one action (Begin...): *)
(* machine ownership and the rows of a reference run do not change, so     *)
(* only the read of the run itself matters to the others.                  *)
(***************************************************************************)
EXTENDS Ingest

CONSTANTS
  Jobs,         \* requests to these endpoints
  DefaultRef,   \* "c1", the reference run a model is fitted on by default
  NoRef,        \* no reference given
  NoMachine,    \* no machine given
  Uploads,      \* "uploads-{user_id}": the machine of a user's uploads
  MaxFiles,     \* how many files an /analyze takes (400)
  MinPairs      \* how many labeled cuts with features a fit needs (10)

ASSUME JobAssumption == Jobs \cap (Payloads \cup {Free}) = {}
ASSUME RefAssumption == DefaultRef \in Runs /\ NoRef \notin Runs /\ MinPairs \in Nat
ASSUME TargetAssumption ==
  NoMachine \notin Machines /\ Uploads \in [Users -> Machines] /\ MaxFiles \in Nat

VARIABLES
  jpc,      \* what a job does next
  job,      \* its parameters and locals
  touched   \* all jobs but those whose run only they have written since they reset it,
            \* or since they began to delete it

jvars == <<jpc, job, touched>>
svars == <<vars, jvars>>

Kinds    == {"start", "analyze", "results", "replay", "delete"}
DelPhase == {"del_results", "del_rul", "del_twin", "del_features", "del_labels", "del_cuts",
             "del_run"}
Doing    == {"machine", "pick", "create", "fit", "deploy", "cached", "count", "has_twin",
             "upload", "append_cuts", "append_features", "refit", "reset", "clear_rul",
             "clear_results", "read", "load", "save", "append_rul", "store"} \cup DelPhase
JobPhase == Doing \cup {"unsent", "answered", "aborted"}

Job == [kind : Kinds, user : Users, machine : Machines \cup {NoMachine}, run : Runs,
        ref : Runs \cup {NoRef}, fresh : BOOLEAN, files : Seq(Payloads),           \* the request
        start : Nat, todo : SUBSET Nat, post : Posterior, rows : SUBSET RulRow,
        status : {0, 200, 400, 404, 409, 500}]

ServiceTypeOK ==
  /\ TypeOK
  /\ jpc \in [Jobs -> JobPhase]
  /\ job \in [Jobs -> Job]
  /\ touched \subseteq Jobs

\* Requests come to a database that the schema admits; what was uploaded
\* before has been answered, and kept if the answer says so.
ServiceInit ==
  /\ TypeOK /\ IsFiniteSet(features) /\ PrimaryKeys /\ ForeignKeys
  /\ runLock = [r \in Runs |-> Free]
  /\ pc \in [Payloads -> {"unsent", "answered"}]
  /\ \A u \in Payloads : pc[u] = "unsent" => req[u].status = 0
  /\ \A u \in Payloads : req[u].status = 200 =>
       [run |-> req[u].run, cut |-> req[u].cut, src |-> u] \in features
  /\ job \in [Jobs -> Job]
  /\ jpc = [j \in Jobs |-> "unsent"]
  /\ touched = Jobs
  /\ \A j \in Jobs : /\ job[j].start = 0 /\ job[j].todo = {} /\ job[j].post = <<>>
                     /\ job[j].rows = {} /\ job[j].status = 0
                     /\ job[j].fresh => job[j].kind = "analyze" /\ ~run_exists(job[j].run)
                     /\ job[j].machine = NoMachine => job[j].kind = "analyze"

(***************************************************************************)
(* Control of one job.                                                     *)
(***************************************************************************)
JAt(j, phase)   == jpc[j] = phase
JGoto(j, phase) == jpc' = [jpc EXCEPT ![j] = phase]
Answer(j, status) ==
  /\ JGoto(j, "answered")
  /\ job' = [job EXCEPT ![j].status = status, ![j].todo = {}, ![j].post = <<>>]

\* The event loop runs one /analyze at a time between two awaits.
OnLoop(j) ==
  job[j].kind = "analyze" =>
    \A k \in Jobs \ {j} :
      job[k].kind = "analyze" => jpc[k] \in {"unsent", "upload", "answered"}

least(S) == CHOOSE i \in S : \A k \in S : i <= k

(***************************************************************************)
(* fit_model_spec (twin/build.py:36-63) and the run it is fitted on.       *)
(***************************************************************************)
fitted(ref) == ref \in labels /\ count_features(ref) >= MinPairs

given(j, default) == IF job[j].ref = NoRef THEN default ELSE job[j].ref

\* The reference of the deployment, and that of the filter pass that follows.
deploy_ref(j) == given(j, DefaultRef)
filter_ref(j) ==
  LET r == job[j].run IN
  CASE job[j].kind = "replay"  -> given(j, r)
    [] job[j].kind = "results" -> given(j, IF r \in labels THEN r ELSE DefaultRef)
    [] OTHER                   -> IF r \in labels THEN r ELSE deploy_ref(j)

\* The machine whose tools the request is about: only /analyze may leave it open.
target(j) == IF job[j].machine = NoMachine THEN Uploads[job[j].user] ELSE job[j].machine

(***************************************************************************)
(* start_run.                                                              *)
(***************************************************************************)
BeginStart(j) ==
  LET q == job[j] IN
  /\ JAt(j, "unsent") /\ q.kind = "start"
  /\ CASE ~owned_by(q.machine, q.user)  -> Answer(j, 404)
       [] owned_by(q.machine, q.user) /\ ~run_exists(deploy_ref(j)) -> Answer(j, 400)
       [] owned_by(q.machine, q.user) /\ run_exists(deploy_ref(j)) /\ run_exists(q.run)
            -> Answer(j, 409)
       [] OTHER -> JGoto(j, "create") /\ UNCHANGED job
  /\ UNCHANGED tables

CreateRun(j) ==
  /\ JAt(j, "create")
  /\ create_run(job[j].run, target(j))
  /\ JGoto(j, "fit") /\ UNCHANGED job

\* A reference that cannot be fitted raises: the run stays, without a twin.
Fit(j) ==
  /\ JAt(j, "fit")
  /\ IF fitted(deploy_ref(j)) THEN JGoto(j, "deploy") /\ UNCHANGED job ELSE Answer(j, 500)
  /\ UNCHANGED tables

Deploy(j) ==
  /\ JAt(j, "deploy")
  /\ save_twin_state(job[j].run, <<>>)
  /\ IF job[j].kind = "start" THEN Answer(j, 200) ELSE JGoto(j, "upload") /\ UNCHANGED job

(***************************************************************************)
(* analyze.                                                                *)
(***************************************************************************)
on_machine(r, m) == \E row \in Of(runs, r) : row.machine = m

\* A new tool, or one of the machine that takes cuts.
PickRun(j) ==
  LET q == job[j] IN
  IF q.fresh THEN JGoto(j, "create") /\ UNCHANGED job
  ELSE IF ~on_machine(q.run, target(j)) THEN Answer(j, 404)
  ELSE IF has_ended(q.run) \/ q.run \in labels THEN Answer(j, 409)
  ELSE JGoto(j, "count") /\ UNCHANGED job

BeginAnalyze(j) ==
  LET q == job[j] IN
  /\ JAt(j, "unsent") /\ q.kind = "analyze"
  /\ IF \/ Len(q.files) \notin 1..MaxFiles
        \/ ~run_exists(deploy_ref(j)) \/ deploy_ref(j) \notin labels
       THEN Answer(j, 400)
     ELSE IF q.machine # NoMachine /\ ~owned_by(q.machine, q.user) THEN Answer(j, 404)
     ELSE IF q.machine = NoMachine /\ ~machine_exists(target(j))
       THEN JGoto(j, "machine") /\ UNCHANGED job
     ELSE PickRun(j)
  /\ UNCHANGED tables

\* The first upload of a user that names no machine creates one.
CreateUploads(j) ==
  /\ JAt(j, "machine")
  /\ create_machine(target(j), job[j].user)
  /\ JGoto(j, "pick") /\ UNCHANGED job

PickAfter(j) ==
  /\ JAt(j, "pick")
  /\ PickRun(j)
  /\ UNCHANGED tables

\* One cut is skipped: the first index is start + 2.
BugStartTooLate(j) ==
  /\ JAt(j, "count")
  /\ job' = [job EXCEPT ![j].start = count_features(job[j].run) + 1]
  /\ JGoto(j, "has_twin")
  /\ UNCHANGED tables

CountStart(j) ==
  /\ JAt(j, "count")
  /\ job' = [job EXCEPT ![j].start = count_features(job[j].run)]
  /\ JGoto(j, "has_twin")
  /\ UNCHANGED tables

HasTwin(j) ==
  /\ JAt(j, "has_twin")
  /\ JGoto(j, IF has_twin_state(job[j].run) THEN "upload" ELSE "fit")
  /\ UNCHANGED <<tables, job>>

\* The files are read, parsed and extracted one by one; nothing is stored yet.
ReadUpload(j) ==
  /\ JAt(j, "upload")
  /\ IF \E k \in DOMAIN job[j].files : job[j].files[k] \in Garbled
       THEN Answer(j, 400)
       ELSE JGoto(j, "append_cuts") /\ UNCHANGED job
  /\ UNCHANGED tables

\* The files of an upload are counted from 0 instead of 1.
BugCountFromZero(j, k) == job[j].start + k - 1

index(j, k) == job[j].start + k
new_cuts(j) ==
  {[run |-> job[j].run, cut |-> index(j, k), key |-> <<Upload, job[j].run, index(j, k)>>] :
     k \in DOMAIN job[j].files}
new_features(j) ==
  {[run |-> job[j].run, cut |-> index(j, k), src |-> job[j].files[k]] :
     k \in DOMAIN job[j].files}

\* INSERT OR IGNORE: a cut that is already there is quietly left out.
BugIgnoreDuplicates(j) ==
  /\ JAt(j, "append_cuts")
  /\ run_exists(job[j].run)
  /\ cuts' = cuts \cup {row \in new_cuts(j) : ~has_cut(job[j].run, row.cut)}
  /\ features' = features \cup
       {row \in new_features(j) : row.cut \notin IndicesOf(features, job[j].run)}
  /\ JGoto(j, "refit")
  /\ UNCHANGED <<machines, runs, labels, rul, twin, results, job>>

AppendCuts(j) ==
  /\ JAt(j, "append_cuts")
  /\ append_cuts_bulk(job[j].run, new_cuts(j))
  /\ JGoto(j, "append_features") /\ UNCHANGED job

AppendFeatureRows(j) ==
  /\ JAt(j, "append_features")
  /\ append_features_bulk(job[j].run, new_features(j))
  /\ JGoto(j, "refit") /\ UNCHANGED job

\* executemany stops at the first row that is refused.  SQLite keeps the rows
\* before it, which the next commit of any thread commits; psycopg need not.
refused_cuts(j) ==
  {row \in new_cuts(j) : ~run_exists(row.run) \/ has_cut(row.run, row.cut)}
refused_features(j) ==
  {row \in new_features(j) :
     row.cut \in IndicesOf(features, row.run) \/ ~has_cut(row.run, row.cut)}

before(rows, refused) == {row \in rows : \A x \in refused : row.cut < x.cut}

CutsRefused(j) ==
  /\ JAt(j, "append_cuts") /\ refused_cuts(j) # {}
  /\ cuts' \in {cuts, cuts \cup before(new_cuts(j), refused_cuts(j))}
  /\ Answer(j, 500)
  /\ UNCHANGED <<machines, runs, labels, features, rul, twin, results>>

FeaturesRefused(j) ==
  /\ JAt(j, "append_features") /\ refused_features(j) # {}
  /\ features' \in {features, features \cup before(new_features(j), refused_features(j))}
  /\ Answer(j, 500)
  /\ UNCHANGED <<machines, runs, labels, cuts, rul, twin, results>>

(***************************************************************************)
(* results and replay.                                                     *)
(***************************************************************************)
readable(m, u) == owned_by(m, System) \/ owned_by(m, u)

BeginView(j) ==
  LET q == job[j] IN
  /\ JAt(j, "unsent") /\ q.kind \in {"results", "replay"}
  /\ IF readable(q.machine, q.user) /\ run_exists(q.run)
       THEN JGoto(j, IF q.kind = "results" THEN "cached" ELSE "refit") /\ UNCHANGED job
       ELSE Answer(j, 404)
  /\ UNCHANGED tables

\* Stored results are answered as they are, unless a reference is given.
ReadCache(j) ==
  LET stored == Of(results, job[j].run) IN
  /\ JAt(j, "cached")
  /\ IF stored # {} /\ job[j].ref = NoRef
       THEN JGoto(j, "answered") /\ job' = [job EXCEPT ![j].rows = stored, ![j].status = 200]
       ELSE JGoto(j, "refit") /\ UNCHANGED job
  /\ UNCHANGED tables

(***************************************************************************)
(* compute_and_store_results (app.py:118-137) and the body of replay: a    *)
(* fresh twin, the old predictions out, then the filter over every cut     *)
(* that had features when the pass began.                                  *)
(***************************************************************************)
\* The ValueError of a reference that cannot be fitted is a 400, but not in
\* /analyze.
Refit(j) ==
  /\ JAt(j, "refit")
  /\ IF fitted(filter_ref(j))
       THEN JGoto(j, "reset") /\ UNCHANGED job
       ELSE Answer(j, IF job[j].kind = "analyze" THEN 500 ELSE 400)
  /\ UNCHANGED tables

\* The pass goes on from the posterior that is stored.
BugKeepPosterior(j) ==
  /\ JAt(j, "reset")
  /\ JGoto(j, "clear_rul")
  /\ UNCHANGED <<tables, job>>

Reset(j) ==
  /\ JAt(j, "reset")
  /\ save_twin_state(job[j].run, <<>>)
  /\ JGoto(j, "clear_rul") /\ UNCHANGED job

ClearRul(j) ==
  /\ JAt(j, "clear_rul")
  /\ clear_rul(job[j].run)
  /\ JGoto(j, IF job[j].kind = "replay" THEN "read" ELSE "clear_results") /\ UNCHANGED job

ClearResults(j) ==
  /\ JAt(j, "clear_results")
  /\ clear_cut_results(job[j].run)
  /\ JGoto(j, "read") /\ UNCHANGED job

\* The pass goes over the cuts table instead of the features table.
BugReadCuts(j) ==
  /\ JAt(j, "read")
  /\ job' = [job EXCEPT ![j].todo = IndicesOf(cuts, job[j].run), ![j].rows = {}]
  /\ JGoto(j, "load")
  /\ UNCHANGED tables

ReadFeatures(j) ==
  /\ JAt(j, "read")
  /\ job' = [job EXCEPT ![j].todo = IndicesOf(features, job[j].run), ![j].rows = {}]
  /\ JGoto(j, "load")
  /\ UNCHANGED tables

\* ParticleTwin.update for the next cut of the pass.
Load(j) ==
  /\ JAt(j, "load") /\ job[j].todo # {}
  /\ has_twin_state(job[j].run)
  /\ job' = [job EXCEPT ![j].post = twin[job[j].run]]
  /\ JGoto(j, "save")
  /\ UNCHANGED tables

Save(j) ==
  LET i == least(job[j].todo)
      p == Append(job[j].post, i)
  IN
  /\ JAt(j, "save")
  /\ save_twin_state(job[j].run, p)
  /\ IF job[j].kind = "replay"
       THEN JGoto(j, "append_rul") /\ job' = [job EXCEPT ![j].post = p]
       ELSE /\ JGoto(j, "load")
            /\ job' = [job EXCEPT ![j].todo = @ \ {i},
                                  ![j].rows = @ \cup {[run |-> job[j].run, cut |-> i, post |-> p]}]

StreamRul(j) ==
  LET i == least(job[j].todo) IN
  /\ JAt(j, "append_rul")
  /\ append_rul(job[j].run, i, job[j].post)
  /\ job' = [job EXCEPT ![j].todo = @ \ {i}]
  /\ JGoto(j, "load")

\* The generator is only resumed while the client listens.
Hangup(j) ==
  /\ JAt(j, "load") /\ job[j].kind = "replay"
  /\ JGoto(j, "aborted")
  /\ UNCHANGED <<tables, job>>

FinishPass(j) ==
  /\ JAt(j, "load") /\ job[j].todo = {}
  /\ IF job[j].kind = "replay" THEN Answer(j, 200) ELSE JGoto(j, "store") /\ UNCHANGED job
  /\ UNCHANGED tables

StoreResults(j) ==
  /\ JAt(j, "store")
  /\ save_cut_results(job[j].run, job[j].rows)
  /\ Answer(j, 200)

(***************************************************************************)
(* delete_run: seven statements, children before parents.                  *)
(***************************************************************************)
BeginDelete(j) ==
  LET q == job[j] IN
  /\ JAt(j, "unsent") /\ q.kind = "delete"
  /\ IF owned_by(q.machine, q.user) /\ on_machine(q.run, q.machine)
       THEN JGoto(j, "del_results") /\ UNCHANGED job
       ELSE Answer(j, 404)
  /\ UNCHANGED tables

\* cut_results, which has no foreign key, is left out of the list of tables.
BugKeepResults(j) ==
  LET r == job[j].run IN
  \/ JAt(j, "del_results")  /\ UNCHANGED tables     /\ JGoto(j, "del_rul")      /\ UNCHANGED job
  \/ JAt(j, "del_rul")      /\ clear_rul(r)         /\ JGoto(j, "del_twin")     /\ UNCHANGED job
  \/ JAt(j, "del_twin")     /\ clear_twin(r)        /\ JGoto(j, "del_features") /\ UNCHANGED job
  \/ JAt(j, "del_features") /\ clear_features(r)    /\ JGoto(j, "del_labels")   /\ UNCHANGED job
  \/ JAt(j, "del_labels")   /\ clear_labels(r)      /\ JGoto(j, "del_cuts")     /\ UNCHANGED job
  \/ JAt(j, "del_cuts")     /\ clear_cuts(r)        /\ JGoto(j, "del_run")      /\ UNCHANGED job
  \/ JAt(j, "del_run")      /\ clear_run(r)         /\ Answer(j, 200)

Delete(j) ==
  LET r == job[j].run IN
  \/ JAt(j, "del_results")  /\ clear_cut_results(r) /\ JGoto(j, "del_rul")      /\ UNCHANGED job
  \/ JAt(j, "del_rul")      /\ clear_rul(r)         /\ JGoto(j, "del_twin")     /\ UNCHANGED job
  \/ JAt(j, "del_twin")     /\ clear_twin(r)        /\ JGoto(j, "del_features") /\ UNCHANGED job
  \/ JAt(j, "del_features") /\ clear_features(r)    /\ JGoto(j, "del_labels")   /\ UNCHANGED job
  \/ JAt(j, "del_labels")   /\ clear_labels(r)      /\ JGoto(j, "del_cuts")     /\ UNCHANGED job
  \/ JAt(j, "del_cuts")     /\ clear_cuts(r)        /\ JGoto(j, "del_run")      /\ UNCHANGED job
  \/ JAt(j, "del_run")      /\ clear_run(r)         /\ Answer(j, 200)

(***************************************************************************)
(* Statements that raise.  A replay has sent its 200 before it can fail,   *)
(* so its stream just ends; the ValueError of a missing twin is a 400 in   *)
(* /results; everything else is a 500.                                     *)
(***************************************************************************)
JobRefused(j) ==
  LET q == job[j]  r == q.run IN
  \/ JAt(j, "machine")         /\ machine_exists(target(j))
  \/ JAt(j, "create")          /\ (run_exists(r) \/ ~machine_exists(target(j)))
  \/ jpc[j] \in {"deploy", "reset", "save"} /\ ~run_exists(r)
  \/ JAt(j, "load")            /\ q.todo # {} /\ ~has_twin_state(r)
  \/ JAt(j, "append_rul")      /\ (least(q.todo) \in IndicesOf(rul, r)
                                     \/ ~has_cut(r, least(q.todo)))
  \/ JAt(j, "del_cuts")        /\ (Of(features, r) # {} \/ Of(rul, r) # {})
  \/ JAt(j, "del_run")         /\ (Of(cuts, r) # {} \/ has_twin_state(r) \/ r \in labels)

JobRaises(j) ==
  /\ JobRefused(j) \/ (Faults /\ jpc[j] \in Doing \ {"upload"})
  /\ IF job[j].kind = "replay" /\ jpc[j] \in {"load", "save", "append_rul"}
       THEN JGoto(j, "aborted") /\ UNCHANGED job
     ELSE IF job[j].kind = "results" /\ JAt(j, "load") /\ ~has_twin_state(job[j].run)
       THEN Answer(j, 400)
     ELSE Answer(j, 500)
  /\ UNCHANGED tables

(***************************************************************************)
(* The service: ingest threads and jobs.                                   *)
(***************************************************************************)
RowsOf(r) == <<Of(runs, r), r \in labels, Of(cuts, r), Of(features, r), Of(rul, r), twin[r],
               Of(results, r)>>

Written == {r \in Runs : RowsOf(r)' # RowsOf(r)}

\* touched is a history variable: x writes over the passes and the deletes of
\* other jobs.
Watch(x) ==
  touched' = (touched \ {j \in {x} \cap Jobs : jpc[j] \in {"reset", "del_results"}})
               \cup {j \in Jobs \ {x} : job[j].run \in Written}

JobStep(j) ==
  /\ OnLoop(j)
  /\ \/ BeginStart(j) \/ BeginAnalyze(j) \/ BeginView(j) \/ BeginDelete(j)
     \/ CreateUploads(j) \/ PickAfter(j)
     \/ CreateRun(j) \/ Fit(j) \/ Deploy(j)
     \/ CountStart(j) \/ HasTwin(j) \/ ReadUpload(j)
     \/ AppendCuts(j) \/ AppendFeatureRows(j) \/ CutsRefused(j) \/ FeaturesRefused(j)
     \/ ReadCache(j)
     \/ Refit(j) \/ Reset(j) \/ ClearRul(j) \/ ClearResults(j) \/ ReadFeatures(j)
     \/ Load(j) \/ Save(j) \/ StreamRul(j) \/ Hangup(j) \/ FinishPass(j) \/ StoreResults(j)
     \/ Delete(j)
     \/ JobRaises(j)
  /\ UNCHANGED <<blobs, runLock, pc, req>>
  /\ Watch(j)

IngestStep(u) == (Receive(u) \/ Step(u)) /\ UNCHANGED <<jpc, job>> /\ Watch(u)

ServiceNext ==
  \/ \E u \in Payloads : IngestStep(u)
  \/ \E j \in Jobs : JobStep(j)

ServiceSpec == ServiceInit /\ [][ServiceNext]_svars
-----------------------------------------------------------------------------
(***************************************************************************)
(* Safety.                                                                 *)
(***************************************************************************)
Undeleted(r) ==
  \A j \in Jobs : job[j].kind = "delete" /\ job[j].run = r =>
    jpc[j] = "unsent" \/ job[j].status = 404

\* A delete is seven statements (sqlite_data_store.py:199-203), and requests for
\* the run may be served between any two: one of them fails, and the run stays,
\* half deleted.  A delete that no other request disturbs succeeds, whatever
\* such deletes and dead requests left of the run, and nothing is left in any
\* table: also not in cut_results, whose rows no foreign key ties to a run.
DeleteIsWhole ==
  \A j \in Jobs :
    LET r == job[j].run IN
    job[j].kind = "delete" /\ j \notin touched =>
      /\ ~Faults => job[j].status # 500
      /\ job[j].status = 200 =>
           /\ \A table \in {runs, cuts, features, rul, results} : Of(table, r) = {}
           /\ ~has_twin_state(r) /\ r \notin labels

\* start_run asks for the run and then inserts it (app.py:293-295): of requests
\* with one run id that overlap, beside an /analyze too, at most one is told
\* that the tool is its own, and it has it, on its machine and with a twin.
StartedOnce ==
  \A j \in Jobs :
    LET r == job[j].run IN
    job[j].kind = "start" /\ job[j].status = 200 /\ Undeleted(r) =>
      /\ on_machine(r, job[j].machine) /\ has_twin_state(r)
      /\ \A k \in Jobs \ {j} :
           job[k].kind = "start" /\ job[k].run = r => job[k].status # 200

\* Both: what a start and a delete of a run leave behind.
RunsSafe == DeleteIsWhole /\ StartedOnce

\* A run that has wear labels is what the models of other runs are fitted on.
\* An upload asks for the labels and then writes the features, many statements
\* later (app.py:345, 435, 463-464): still no request adds a cut to a run that
\* has labels, nor changes one of its cuts.
ReferencesFixed ==
  [][\A r \in labels : Of(features, r)' \subseteq Of(features, r)]_svars

\* /analyze takes no run lock and its "start" (app.py:437) may be stale when it
\* writes: still the features of a run stay numbered 1..n without a gap, and so
\* do its cut rows, of which any number may be without features.
DenseUnderAnalyze ==
  \A r \in Runs : Undeleted(r) =>
    /\ IndicesOf(features, r) = 1..count_features(r)
    /\ \A c \in Of(cuts, r) : c.cut > 1 => has_cut(r, c.cut - 1)

\* No accepted upload is lost or overwritten: the features of every cut that was
\* answered with 200, by ingest or by /analyze, are stored under the index it
\* was given, and under no other upload's.
UploadsKept ==
  /\ \A u \in Payloads : req[u].status = 200 /\ Undeleted(req[u].run) =>
       {f \in Of(features, req[u].run) : f.cut = req[u].cut}
         = {[run |-> req[u].run, cut |-> req[u].cut, src |-> u]}
  /\ \A j \in Jobs :
       job[j].kind = "analyze" /\ job[j].status = 200 /\ Undeleted(job[j].run) =>
         new_features(j) \subseteq features

\* Two passes and an ingest may overwrite each other's posterior, but none of
\* them makes the twin, a prediction or a result absorb a cut without features.
AbsorbedAreStored ==
  \A r \in Runs : Undeleted(r) =>
    \A p \in {row.post : row \in Of(rul, r) \cup Of(results, r)}
             \cup (IF has_twin_state(r) THEN {twin[r]} ELSE {}) :
      \A k \in DOMAIN p : p[k] \in IndicesOf(features, r)

\* A pass over a run that no other request wrote to since its reset: the twin
\* has absorbed every cut once, in order, and what is stored for cut i was
\* projected after cut i, whatever earlier passes and aborted streams left.
upto(n) == [k \in 1..n |-> k]
pass_rows(r, n) == {[run |-> r, cut |-> i, post |-> upto(i)] : i \in 1..n}

UndisturbedPass ==
  \A j \in Jobs :
    LET r == job[j].run  n == count_features(r) IN
    job[j].status = 200 /\ j \notin touched /\ Undeleted(r)
    => /\ twin[r] = upto(n)
       /\ Of(IF job[j].kind = "replay" THEN rul ELSE results, r) = pass_rows(r, n)

(***************************************************************************)
(* What the documentation says and the code does not do.                   *)
(***************************************************************************)
\* "A per-run lock serializes the index-assign -> update -> save for a single
\* run" (README.md:129-130): no update of a run's twin falls between the load
\* and the save of another.
UpdatesSerialized ==
  \A u \in Payloads, j \in Jobs :
    ~(pc[u] = "save_twin" /\ jpc[j] = "save" /\ job[j].run = req[u].run)

\* "Stored per-cut results for instant, static rendering (current state)"
\* (app.py:473): results answered while no upload is being handled show every
\* cut the run has.
ResultsCurrent ==
  \A j \in Jobs :
    /\ job[j].kind = "results" /\ JAt(j, "cached") /\ job[j].ref = NoRef
    /\ \A u \in Payloads : pc[u] \notin InFlight
    /\ \A k \in Jobs \ {j} : jpc[k] \notin Doing
    => Of(results, job[j].run) = {}
         \/ IndicesOf(results, job[j].run) = IndicesOf(features, job[j].run)
=============================================================================
