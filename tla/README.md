# Kaful: a TLA+ model of the data-first twin

Kaful is a FastAPI service that receives the waveform of every cut a milling tool makes, extracts
features, advances a particle filter (the "twin" of the tool installation, called a *run*) and
stores a prediction of the tool's remaining useful life (RUL). This directory holds TLA+ modules
that model the parts of the service whose correctness depends on order, failure and concurrency,
the TLC configurations that check them on small instances, and the TLAPS proofs of what holds for
every instance.

## 1. Inventory

| component | source | state it keeps | operations | interacts with |
|---|---|---|---|---|
| live ingest | `api/app.py` `ingest_cut`, `ingest/handler.py`, `ingest/codec.py`, `twin/particle_twin.py` | one lock per run; the locals of a request's thread | POST a cut | both stores, the twin |
| data store | `storage/sqlite_data_store.py`, `storage/postgres_data_store.py`, `domain/` | ten tables with primary and foreign keys; one shared connection | one statement per method, committed | called by everything |
| object store | `storage/filesystem_object_store.py`, `storage/s3_object_store.py` | blobs by key | put (overwrites), get, exists | live ingest |
| run service | `api/app.py` start/analyze/results/replay/delete, `twin/build.py` | none of its own; rewrites a run's twin, predictions and results | five endpoints, none under the run lock | data store; races with ingest |
| machine endpoints | `api/app.py` create/rename/delete machine, rename run | rows of `machines`, `runs` | | data store |
| twin numerics | `twin/filter.py`, `cloud.py`, `rul.py`, `degradation.py`, `observation.py` | a weighted particle cloud | predict, weight, resample, project | the twin |
| run lifecycle | `twin/lifecycle.py` | `ended_at` of runs | end the active run, start one, deploy | data store |
| replay driver | `ingest/replay.py`, `scripts/run_replay.py`, `run_filter.py`, `load_labels.py`, `validate.py`, `replay_http.py` | position in a list of files | ingest each cut that has no row; filter; label | handler |
| accounts | `api/app.py` auth endpoints, `auth/sessions.py`, `auth/passwords.py` | users, sessions | signup, login, logout, expiry | data store, rate limiter |
| rate limiter | `auth/ratelimit.py` | a deque of time stamps per client | allow | accounts |
| features, metrics | `features/extractor.py`, `evaluation/metrics.py` | none | pure functions | ingest, validation |
| seed and export | `scripts/seed_postgres.py`, `scripts/export_demo_db.py` | a copy of the tables | copy runs, filter runs | data stores |
| load test | `scripts/loadtest.py` | counts of a worker per run | sweep of concurrency levels | the service, over HTTP |
| dashboard | `api/static/index.html` | list of runs, selection, open stream, points drawn | select, choose a model, add, rename, delete, upload | run service |
| analysis scripts, dataset reader | `scripts/calibrate.py`, `diagnose_transfer.py`, ..., `datasets/phm.py` | none | print reports, parse files | |

What is hard in this code:

* **Statements, not transactions.** An ingest is six writes with a commit each (blob, cut,
  features, twin, RUL, after the reads). Nothing is undone when one raises, and the process may
  die between any two. `/analyze`, a filter pass and `delete_run` are sequences of the same kind.
* **Threads.** Uploads run in the thread pool under a lock per run. The other endpoints that write
  the same rows take no lock.
* **Derived numbering.** The next cut index is the count of *features* rows, while the primary key
  it must not violate is that of *cuts*.
* **Connections.** All threads of a process share one SQLite connection, so that the commit of one
  operation commits what the others have executed so far; the Postgres store repeats a statement
  after a dropped connection although the server may have executed it.
* **Scripts that are repeated.** The replay driver, the seeding of a deploy and the load test take a
  row that exists for work that was finished.
* **Numbers at the edge.** Resampling over a rounded sum, weights that underflow, a censored
  horizon, a smoothing window that runs over the end, a variance whose square is 0.
* **Answers out of order.** The page changes its list of runs by hand while older lists are on
  their way, and all streams draw into the same arrays.
* **Caches and copies.** `cut_results` is computed on first view; the posterior in `twin_state` is
  loaded, changed and saved; `start` in `/analyze` is read before an await and used after it.

What makes each part correct is stated in section 3 as properties; `PROJECT.json` lists the
hazards at their lines.

## 2. Modules

```
DataStore          tables, queries, one operator per SQL statement      (no behaviour of its own)
  Ingest           POST .../cuts: threads, lock, handler, twin, crashes  --refines-->  CutLedger
    IngestProofs     TLAPS: types, inductive invariant, safety, the refinement of CutLedger
    RunService       start, analyze, results, replay, delete beside ingest
      RunServiceProofs TLAPS: types, accepted uploads, labeled runs, starts and deletes
        PassProofs       TLAPS: numbering, absorbed cuts, undisturbed passes
Registry           machines and runs: create, rename, delete, tool change          (TableProofs: TLAPS)
Accounts           signup, login, logout, expiry                                   (FrontProofs: TLAPS)
SlidingWindow      "at most Limit in a window", with tolerance
  RateLimiter      allow(), any number of threads                        --refines-->  SlidingWindow
                                                                        (FrontProofs: TLAPS)
StatementStore     what a data store promises of an operation
  SqliteConnection   one connection, one transaction, all threads         --refines-->  StatementStore
                                                                        (StoreProofs: TLAPS)
  PostgresConnection lock, autocommit, reconnect and retry                --refines-->  StatementStore
                                                                        (TableProofs: TLAPS)
BlobStore          put and get, atomic                                             (StoreProofs: TLAPS)
  FileStore        temporary file, chunks, rename, crashes               --refines-->  BlobStore
Clients            who uses the server or its stores from outside: the sum of   (ClientProofs: TLAPS)
  SeedPostgres       the deploy step, overlapping, killed, repeated
  ReplayDriver       the scripts that fill and score a local store, with crashes
  DemoExport         tripwire, pruning and commit beside a server
  LoadTest           workers with timeouts, and what the server stores of their posts
  Dashboard          the page: list, selection, stream, answers in any order
Numerics           what is computed from data: the sum of                (NumericsProofs: TLAPS)
  RulProjection      first crossing, censoring, interval
  ParticleFilter     predict, weight, resample, quantiles
  WearOnset          the onset a wear law is fitted from
  Evaluation         true RUL, alpha-cone, prognostic horizon
  Extractor          names of features, and where a statistic is a number
```

`MCIngest` and `MCRunService` hold the small instances of the first two. The other components are
checked five at most to a run, in `MC` modules that are sums of their components:

| MC module | components |
|---|---|
| `MCStores` | `SqliteConnection`, `FileStore` |
| `MCTables` | `PostgresConnection`, `Registry`, `RateLimiter`, `Accounts` |
| `MCClients` | `Clients`: `SeedPostgres`, `ReplayDriver`, `DemoExport`, `LoadTest`, `Dashboard` |
| `MCNumerics` | `Numerics`: `RulProjection`, `ParticleFilter`, `WearOnset`, `Evaluation`, `Extractor` |

`StoreProofs`, `FrontProofs` and `TableProofs` EXTEND two components of a sum each, so that what they prove
is of the very definitions the run checks. The sums of five are modules of their own, `Clients` and
`Numerics`, which `MCClients` and `MCNumerics` instantiate and `ClientProofs` and `NumericsProofs` prove
about.

A variable `part` chooses in the initial state whose steps the behaviour has. The components of a sum
call one another nowhere in the code, or only by a value that the other takes as a free choice (the
limiter's 429 in `Accounts`, a statement that raises in `Registry`), and share no variable of their
specifications. A safety property of one, over its own variables, therefore holds in every interleaving
with the others exactly if it holds of its own behaviours, and the sum has each of those. Where a sum uses
one variable for two components (`phase`, `tasks`, `deaths`, `wear`), it means the one of the part that
runs, and the properties of the others are guarded by `part`. No product of components is left out that
could show more: those that do meet in shared state are composed by it. `RunService` EXTENDS `Ingest`,
both call `DataStore`'s statements, `LoadTest` and `Dashboard` contain the part of the server they talk to,
and `StatementStore` says what statements may rely on below.

### DataStore

A table is a set of rows. Each method of the store that the other modules use is an operator of the
same name: its guard is the primary and foreign keys of the schema, its effect the one statement
the method runs. Where the guard is false the statement raises and changes nothing, which the
modules above model as an action of their own. SQLite and Postgres agree on all of this; where they
differ (a batch that is refused half-way, a crash during an open transaction) the difference is
noted at the definition or in section 6.

Data is abstracted to what the properties tell apart. A features row remembers the payload it came
from. A posterior is the sequence of cut indices the filter has absorbed since the twin was
deployed, so a lost, repeated or reordered update is visible in it. An RUL row or a stored result
remembers the posterior it was projected from.

### Ingest

`pc[u]` is the next statement of the thread that handles upload `u`; `req[u]` its parameters and
locals. `Receive` is the part on the event loop, `EnterRunLock` ... `ExitRunLock` the `_work`
function in the thread pool, one action per statement, in the code's order:

    lock -> machine? -> run open? -> no labels? -> twin? -> index := count(features)+1
         -> put blob -> insert cut -> decode/extract -> insert features
         -> load posterior -> save posterior -> insert RUL -> unlock

`StatementRaises` is the exception path of all of them (a constraint, or with `Faults` an I/O error).
With `Faults` a write may also be applied and then raise, as when its acknowledgement is lost.
`Restart` (with `Crashes`) forgets threads and locks and keeps the stores.

### CutLedger

What ingest promises for each run, without threads, locks, blobs or errors: cuts are admitted one by
one under the next index, the twin may absorb the newest admitted cut once, a prediction may be
published for it once and only after that, and nothing is ever taken back. `RefinesLedger` maps
`admitted` to the number of features rows, `posterior` to `twin_state`, `published` to the indices
with an RUL row.

### RunService

A *job* is one request to start, analyze, results, replay or delete. Its phases are the statements
of the endpoint; reads that precede its first write and concern data no other request changes are
one action (`Begin...`). `Refit` to `StoreResults` is `compute_and_store_results`, shared by
`/results` and `/analyze`; `/replay` goes through the same phases except that it keeps the stored
results and inserts an RUL row per cut, and its client may hang up (`Hangup`). `JobRaises` is every
exception path with the status the endpoint gives it. `OnLoop` says that `/analyze` runs on the
event loop: two of them interleave only at `await uf.read()`. That an upload's `Receive`, which
also runs on the loop, may happen while an `/analyze` is on it is an over-approximation (it only
adds a harmless earlier arrival).

`touched` is a history variable: the jobs whose run somebody else wrote to since they reset it.

### Registry, Accounts

`Registry` has the endpoints that create, rename and delete machines and runs, and the three commits
of `start_new_run` (end the active run, create one, save its twin). A request's `pc` is its next
statement; a raise or a restart may come between any two. `RunService` has the seven statements of
`delete_run` and the rows below a run; here deleting a run is one step. The id the server draws is
the request that drew it.

`Accounts` has the statements of signup, login, logout, logout-all and of a request that needs a
user. Time passes, expired sessions are swept (or not: the sweep may be the one that fails). A
password is a model value that may be longer than bcrypt takes.

### SlidingWindow, RateLimiter

The abstract limiter remembers every admission and may refuse only if `Limit` of them are recent.
`allow()` reads the clock *before* it takes the lock, so the deque may be out of order, and its
clean-up stops at the first stamp that is not stale. `Slack` bounds how long a thread may be between
its stamp and the lock. The promise that can be kept is then "no more than `Limit` in
`Window - Slack`, and no refusal unless `Limit` in `Window + Slack`".

### StatementStore, SqliteConnection, PostgresConnection

A *call* is one operation of the data store, a row of statements. `StatementStore` is the promise of
`domain/stores.py`, statement by statement: they reach the disk in order, a call returns only when
all have, none is taken back, what a crash lost does not come later.

`SqliteConnection`: `Execute`, `Commit`, a refused `INSERT` (the transaction stays open), a crash.
`done` is what was executed, `disk` what was committed, `shared` the calls into which another's
commit fell. `PostgresConnection`: the lock, each statement in autocommit, a connection that breaks
before, within or after what was sent, and the loop of `_query` that connects again and repeats once.

### BlobStore, FileStore

`FileStore` writes `<path>.tmp` chunk by chunk and renames it. A file is an inode, so a reader goes
on reading what it opened. `Serialized` says whether the puts of one key are serialized, as the run
lock does within one process.

### ReplayDriver, SeedPostgres, DemoExport, LoadTest

`ReplayDriver` runs the scripts one after another in any order (`run_replay`, `load_labels`,
`run_filter`, `validate`, `replay_http`), with crashes between any two statements. `SeedPostgres` has
several deploys at once; each of its statements commits alone and ends the script when a key refuses
it. `DemoExport` keeps a database as one record: which runs, labels, features and results it has; the
copy is changed in a transaction (`work`) and reaches disk (`dst`) at the commit. `LoadTest` composes
the script's workers with the part of ingest that decides the index.

### ParticleFilter, RulProjection, WearOnset, Evaluation, Extractor

These are functions of data. Their modules walk through the code's loops over every input of a small
grid, and state what the result must be by a definition that does not walk: a quantile by the weight
on its two sides, a remaining life by the set of crossings of the whole path, a prognostic horizon by
the set of misses. What makes them hard is rounding, so that is kept and the rest is dropped: a
weight is its logarithm down to an underflow, a sum is off by a unit in the last place, a number of
the extractor is its binary exponent with zero and infinity at the ends.

### Dashboard

One handler of the page is one action: it runs to its next `await` without interruption. A request is
a record in `net` that the server handles and whose answer then comes back, in any order or not at
all. `streams` are the event sources that are not closed, `es` the one the page holds; an event of
any open source runs the handlers, which draw into `series`. That a browser connects again what broke
and was not closed is modelled (`OnError`), which is why the page's `es.close()` matters. `drift`
collects the runs that changed where the page could not have known.

Definitions whose name begins with `Bug` are deliberate faults, no part of any specification. Each
is a slip that could be made in the code of the definition that follows it, and is there to show
that some property notices.

## 3. Properties and runs

| run | instance | properties | result |
|---|---|---|---|
| `ingest` | 2 sound and 1 garbled upload, 2 runs, faults, crashes | `TypeOK`, `IndicesDense`, `BlobIsSource`, `PosteriorInOrder`, `RulFromPosterior`, `AckDurable`, `RefinesLedger` | hold |
| `ingest_live` | 1 sound, 1 garbled and 1 empty upload, 1 run, faults, crashes, fair threads | `LockReleased`, `EveryRequestAnswered` | hold |
| `service` | 1 upload beside 2 jobs of any kind; the run is absent, started, or labeled | `ServiceTypeOK`, `DenseUnderAnalyze`, `UploadsKept`, `AbsorbedAreStored`, `UndisturbedPass`, `RunsSafe`, `ReferencesFixed` | hold |
| `stores` | SQLite: 4 calls of 1 to 3 statements, 2 crashes; files: 2 writers and 2 readers of a key, 4 inodes, crashes | `ConnectionSafe`, `KeepsPromise`; `FilesSafe`, `PutsAtomic` | hold |
| `tables` | Postgres: 4 calls, 3 drops, 1 crash; registry: 3 requests of any kind, 1 machine, 1 run whose id is used again; limiter: 3 threads, limit 2, window 4, slack 2, clock to 6; accounts: 3 visits, 2 addresses, faults, restarts, expiry | `LockIsHeld`, `OneDropIsHidden`, `KeepsPromise`; `RegistrySafe`; `NoOverrun`, `RefinesWindow`; `AccountsSafe`, `SessionsEndByRight` | hold |
| `clients` | 2 deploys of 2 runs, 2 deaths; 3 cut files, any order of scripts, 2 crashes; every source of 2 runs and 2 cuts, 1 kill; loads of 1 and 2 workers, 2 sweeps, 2 timeouts, 1 fault; 1 demo run and 2 own, 3 clicks, any errors, 1 outside change, 1 loss | `SeedSafe`; `DriverSafe`; `ExportSafe`; `LoadSafe`; `SeriesOfSelection`, `RailAgrees` | hold |
| `numerics` | 3 samples on 4 wear values, horizon 4; 3 particles, every observation, draw and rounding; every curve of 14 labels in three phases; every curve, prediction and censoring of 4 cuts; every column of every magnitude | `ProjectionSafe`, `QuantilesHonest`; `FilterSafe`; `OnsetIsSteady`; `ScoresRight`; `FeaturesSafe` | hold |
| `ingest_wedge` | no faults, no crashes | `SoundCutsAccepted` | violated |
| `ingest_blob` | no faults, no crashes | `CommittedBlobImmutable` | violated |
| `ingest_scope` | no faults, no crashes | `CutsOnOwnMachines` | violated |
| `service_race` | 1 upload beside 1 pass | `UpdatesSerialized` | violated |
| `service_stale` | 1 upload beside 2 views | `ResultsCurrent` | violated |

A property that ends in `Safe`, `Right` or `Honest` is a conjunction of the named properties of its
component, each stated with its comment where it is defined:

| bundle | conjuncts |
|---|---|
| `ConnectionSafe` | `SqliteTypeOK`, `AtomicUnlessShared`, `ReturnedIsDurable` |
| `FilesSafe` | `FileTypeOK`, `NoHalfBlob`, `GetsWhole` |
| `RunsSafe` | `DeleteIsWhole`, `StartedOnce` |
| `AccountsSafe` | `AccountsTypeOK`, `OneAccountPerEmail`, `AuthenticatedByPassword`, `RevokedStaysRevoked` |
| `RegistrySafe` | `RegistryTypeOK`, `DeletedForGood`, `ToolChangeArchives` |
| `SeedSafe` | `OneSeederPerRun`, `LabelsComeLast`, `DeployIsComplete` |
| `DriverSafe` | `DriverTypeOK`, `InsertsAccepted`, `PassIsWhole` |
| `ExportSafe` | `ExportIsClean`, `RefusalDeserved` |
| `LoadSafe` | `ReportAgrees`, `NothingRefused` |
| `RailAgrees` | `DashboardTypeOK`, `ListAgrees`, `ShownIsListed` |
| `ProjectionSafe` | `ProjectionTypeOK`, `RulIsFirstCrossing`, `CensoredNeverCrossed` |
| `FilterSafe` | `FilterTypeOK`, `CloudHasWeight`, `ResampleFair`, `DeadStayDead` |
| `QuantilesHonest` | `IntervalHonest` (of the projection), `QuantilesHold` (of the cloud) |
| `ScoresRight` | `HorizonAfterLastMiss`, `ExactIsPerfect` |
| `FeaturesSafe` | `NamesInvert`, `OrdinaryIsFinite` |

What the passing runs show:

* Under the run lock, ingest is safe against every failure that was modelled: numbering stays dense
  (`IndicesDense`), a cut's features come from the blob its row names even though blobs are
  overwritten (`BlobIsSource`), the twin never absorbs a cut twice, out of order or without features
  (`PosteriorInOrder`), a prediction never runs ahead of the twin (`RulFromPosterior`), a 200 is
  durable (`AckDurable`). What ingest does
  *not* promise is that an admitted cut is absorbed and published: the ledger leaves those optional,
  because a statement may raise in between and nothing makes up for it.
* The endpoints that take no lock are kept from doing worse damage by the schema alone: primary keys turn
  a stale `start` in `/analyze` into an error instead of a hole or an overwritten cut (`DenseUnderAnalyze`,
  `UploadsKept`), and let one of several starts of a run succeed (`StartedOnce`). Passes that overlap lose
  updates, but nothing ever absorbs a cut that is not stored (`AbsorbedAreStored`), and a pass that was not
  overlapped leaves exactly the posterior and rows its features determine, whatever aborted passes left
  before it (`UndisturbedPass`).
* A delete into which another request writes may stop half-way and leave the run; one that nobody disturbs
  succeeds and leaves nothing, also where deletes that stopped had been before (`DeleteIsWhole`). A look at
  the labels is many statements before the write it allows, and holds until then (`ReferencesFixed`).
* *Connections.* With SQLite an operation is atomic unless another's commit fell into it, and what
  returned is durable; with Postgres one drop is hidden from every call that may run twice, and the
  lock is left whichever way a call ends. Both keep the promise of `StatementStore`, which is what
  `Ingest` and `RunService` assume when a statement raises after its effect.
* *Limiter.* Late stamps cost the limiter exactly the delay between stamp and lock, no more.
* *Accounts, registry.* Signup's check and insert are apart; the unique key keeps accounts apart all the
  same. A revoked token stays dead, no other session is lost. A machine that was deleted stays so and
  leaves nothing, whatever was being started on it.
* *Scripts.* A re-run meets no insert that is refused, a filter pass that ends is whole; labels, on
  which a twin is fitted, are only there with all features; the target of an export goes from whole
  copy to whole copy.
* *Numbers.* Some particle keeps a weight whatever is observed; every position of the resampling finds
  a particle; the reported bounds are quantiles; the remaining life is the first crossing and the
  censored are those without one; the horizon comes right after the last miss.
* *Page.* What is drawn belongs to the selection, each cut once. The list agrees with the server except
  for runs that changed while an older answer was on its way, and for requests that were done and answered
  by an error: nothing reads it again then.

What the violated properties show (the findings of `PROJECT.json`):

* `ingest_wedge`: the cut row is committed before the bytes are decoded, and the next index is
  counted in another table. One upload that does not decode leaves a cut row without features, and
  from then on every upload of the run is refused by the primary key.
* `ingest_blob`: the same situation makes the next upload overwrite the blob that a committed cut row
  names. (`BlobIsSource` still holds, because no features can be stored for that row any more.)
* `ingest_scope`: the machine and the run of an upload's URL are looked up each by its own id, and that the
  run is on the machine is not asked, so that the cut may enter a run of a machine the user can only read.
  (`Acceptable`, in `SoundCutsAccepted`, therefore asks no more of a request than the code does.)
* `service_race`: a pass over a run and a live cut of the run interleave their load and save of the
  posterior; the run lock covers only one of them.
* `service_stale`: results, once computed, are answered unchanged after later cuts.

### Deviations

Beside these five, the models have behaviours that a reader of the docs would not expect. They are
steps of the specifications above (the properties are stated so that they hold all the same), and no
run is spent on showing them:

* *Accounts.* A password of 8-128 characters that has more than 72 bytes passes signup's check and is
  answered 500 by `hash_password` (`passwords.py:12`; `Accounts.Hash`).
* *Runs.* `POST /machines/{m}/runs` does not end the run that is active, so that a machine can have
  several (`app.py:295`; `models.py:49` and the README speak of the active one). A run whose
  reference cannot be fitted stays without a twin (`app.py:296`), and refuses every upload. A delete
  may hit another run that was created under the same id since the delete looked it up
  (`app.py:309`). A filter pass that ends after its run was deleted leaves `cut_results` rows of a run
  that is gone: that table alone has no foreign key (`app.py:136`). A run that is created under that id later
  is shown those rows until a pass clears them.
* *Connections.* With SQLite, a commit by another thread in the middle of `delete_run` and a crash
  leave the delete half done (`sqlite_data_store.py:200-203`, `stores.py:43` promises otherwise);
  an `INSERT` that is refused leaves the transaction open. With Postgres, an insert that was
  executed before the connection broke is repeated and refused (`postgres_data_store.py:106`).
* *Files.* Two puts of one key that no lock keeps apart share `<path>.tmp`, and one publishes
  what the other has half written.
* *Scripts.* A cut that was stranded between its row and its features is skipped by every re-run
  of the replay (`replay.py:31`); a run that a dying deploy left torn is skipped by every later deploy
  (`seed_postgres.py:34`); `replay_http.py` has no session, so that its posts are answered 401. The
  export's list of child tables omits `cut_results` (`export_demo_db.py:26`), and what is ingested after
  its tripwire read the source and before the copy was made is in the copy unseen (`:54`). The load test's worker sends its next cut after 180 s while the server may not
  have begun the last, so that indices are taken in another order (`loadtest.py:121`), and its second
  sweep is refused the ids of the first (`:129`).
* *Numbers.* The onset is looked for where the moving average is padded with zeros, so that it need not
  be the minimum of the smoothed rate (`degradation.py:74`): a wear-out that is less than three times as
  fast may lose to the zeros after the last label, and with fewer than 14 labels the start that is skipped
  (`:75`) is shorter than the padding before the first, so that the onset may be in the running-in. A channel whose variance is not 0 but
  whose square underflows gives a kurtosis that is not a number (`extractor.py:35`).
  An export that is killed in its commit or its `VACUUM` (`export_demo_db.py:80-81`) leaves a rollback
  journal beside the copy, and the file that the next export puts in place would be rolled back with it.
  The model has no journal, so that `ExportIsClean` does not speak of this.
* *Page.* An answer that was made before a delete puts the run back into the list, and nothing
  reads the list again until the next upload. A new run that is committed and whose twin cannot be
  deployed (`app.py:295-296`) is answered 500: the page does nothing (`index.html:372`), and does not list
  a run that is stored. A delete that raises after it removed the run's rows, which another request's
  commit then makes last, leaves in the list a run that is gone. Both are steps of `HandleError`, and
  excepted from `RailAgrees` by name.

### Bounds, and why they are enough

* *Uploads.* Two sound uploads and a garbled one: an interaction of ingest is between the one in the
  lock and what an earlier one left, and the third shows what happens after a failed second. The
  proofs of section 4 remove the bound for all ingest properties except liveness.
* *Runs.* `r1` accepts cuts, `r2` is in each state a run can be in: absent, open, ended, labeled,
  without a twin, on the user's machine or on the shared one.
* *Service.* The run is absent, just deployed or labeled (in the violation runs it has taken one cut);
  analyses are of none, two or three files, one of which may be garbled, where `MaxFiles` is 2 instead
  of 400; the upload adds one cut, so a pass sees up
  to five. The labeled reference run itself may be replayed, the upload may be sent to it, and requests
  may name a machine that is not the caller's, or none (the machine of the uploads is not there at
  first). Two jobs and an upload are enough for
  every pair of statement sequences; the constraint `TwoAtATime` keeps three requests from being in
  progress at the same instant (any two of the three may overlap, in any order). `MinPairs`, the
  number of labeled cuts a fit needs, is 1 instead of 10, so that a reference with one cut is enough.
  Jobs of one kind are interchangeable, as are the two sound uploads: symmetry is used for those, and
  not where liveness is checked. In `service`, `Faults` and `Crashes` are off: constraint violations
  still raise at every statement.
* *Connections.* Four calls are the four shapes there are (a delete of several statements, two batches,
  a single insert). Three drops are one more than the retry loop can absorb for one call. The proofs
  remove the bounds on calls, statements, drops and crashes.
* *Files.* Two writers are the one that dies and the one that comes after; four inodes are the name,
  the temporary name and what two readers hold open, so that a fresh one exists when a put needs it.
* *Limiter, seed, projection.* Small instances that reach late stamps on both sides of a window, a
  deploy overtaken by another and killed, and a sample that crosses, comes back and crosses again.
  The proofs remove these bounds too.
* *Registry, accounts.* Three requests: two that race and one that comes after or between them. In
  `accounts` time has two values, before and after a session runs out.
* *Scripts.* Three cuts: one done, one torn, one untouched. Two crashes: one in a script and one in the
  script that would repair it. Two levels and two sweeps of the load test, because the second reuses the
  account of the first; two cuts for a worker, of which one is given up.
* *Numerics.* Particles, samples and labels are few because every rounding and draw is enumerated; the
  grid has values on both sides of the threshold and both clips. 14 labels are the fewest
  of which the skipped start is as long as the padding. The predictions 5, 10 and 12 lie inside
  and on the edges of the cones of the remaining lives 5, 10 and 15. The proofs remove these bounds.
* *Dashboard.* Three clicks are two that start something and one in between; one outside change and one
  break each, in either place. The proofs remove the bounds of the scripts and of the page.
* Symmetry: uploads, jobs, threads, inodes, payloads, deploys, runs and addresses that no initial value
  tells apart are interchangeable; it is used only in runs without liveness.
* `CHECK_DEADLOCK FALSE` everywhere: each system stops when its requests are answered, its scripts have
  ended or a clock or counter has reached its bound. What must not get stuck is stated instead:
  `EveryRequestAnswered` for ingest, `LockIsHeld` for the connection.

### Fairness

`FairSpec` assumes weak fairness of each upload's own thread steps, and nothing else: the thread pool
eventually runs a thread that can proceed. That the lock is granted to *some* waiting thread follows;
that a particular one gets it holds because each instance has finitely many uploads. Clients need not
send (`Receive` is not fair) and the process need not crash or recover.

`LockReleased` and `EveryRequestAnswered` are the liveness properties of the project: the run lock is
the one lock of the service under which anything may raise, and `/ingest` the one request that waits.
The other specifications assume no fairness. Their threads wait for nothing but the store's lock, whose
release on every path is the safety property `LockIsHeld`.

## 4. Proofs

Eight modules prove, for every value of the constants (every set of users, machines, runs, payloads,
jobs and requests, with faults on or off, and crashes for ingest; every set of threads, calls, writers,
readers, deploys and scripts; every limit, window, horizon, number of drops, deaths, clicks and cuts;
every number of particles, samples, labels and scored cuts, every wear law, weight law and channel):

| module | theorem | states |
|---|---|---|
| `IngestProofs` | `TypeCorrect` | `Spec => []TypeOK` |
| | `Invariance` | `Spec => []IInv` |
| | `Dense`, `Sources`, `Absorption`, `Predictions`, `Acknowledged` | `IndicesDense`, `BlobIsSource`, `PosteriorInOrder`, `RulFromPosterior`, `AckDurable` |
| | `Refinement` | `Spec => RefinesLedger` |
| `RunServiceProofs` | `ServiceTypeCorrect` | `ServiceSpec => []ServiceTypeOK` |
| | `UploadsAlwaysKept` | `ServiceSpec => []UploadsKept` |
| | `LabeledStay` | `ServiceSpec => ReferencesFixed` |
| | `RunsAlwaysSafe` | `ServiceSpec => []RunsSafe` |
| `PassProofs` | `DenseStays` | `ServiceSpec /\ DenseUnderAnalyze => []DenseUnderAnalyze` |
| | `AbsorbedStay` | `ServiceSpec /\ AbsorbedAreStored => []AbsorbedAreStored` |
| | `UndisturbedPasses` | `ServiceSpec /\ DenseUnderAnalyze => []UndisturbedPass` |
| `StoreProofs` | `SqliteTypeCorrect`, `OperationsAtomicUnlessShared`, `ReturnedCallsAreDurable`, `ConnectionIsSafe` | `SqliteTypeOK`, `AtomicUnlessShared`, `ReturnedIsDurable`, `ConnectionSafe` |
| | `SqliteImplementsStore` | `Spec => KeepsPromise` |
| | `FilesAreSafe` | `Serialized /\ FileSpec => []FilesSafe` |
| | `FilesImplementBlobs` | `Serialized /\ FileSpec => PutsAtomic` |
| `FrontProofs` | `LimiterTypeCorrect`, `DequeCorrect`, `NeverOverrun` | `LimiterTypeOK`, `DequeIsRecent`, `NoOverrun` |
| | `ImplementsWindow` | `LimiterSpec => RefinesWindow` |
| | `AccountsAreSafe` | `AccountsSpec => []AccountsSafe` |
| | `SessionsEnd` | `AccountsSpec => SessionsEndByRight` |
| `TableProofs` | `PostgresTypeCorrect`, `LockHeldByOne`, `OneDropHidden` | `PostgresTypeOK`, `LockIsHeld`, `OneDropIsHidden` |
| | `PostgresImplementsStore` | `Spec => KeepsPromise` |
| | `RegistryIsSafe` | `RegistrySpec => []RegistrySafe` |
| `ClientProofs` | `OneSeeder`, `LabelsLast`, `DeployComplete`, `SeedIsSafe` | `OneSeederPerRun`, `LabelsComeLast`, `DeployIsComplete`, `SeedSafe` |
| | `DriverIsSafe`, `ExportIsSafe`, `LoadIsSafe` | `ClientsSpec => []DriverSafe`, `[]ExportSafe`, `[]LoadSafe` |
| | `SeriesIsOfSelection`, `RailIsRight` | `ClientsSpec => []SeriesOfSelection`, `[]RailAgrees` |
| `NumericsProofs` | `ProjectionTypeCorrect`, `FirstCrossing`, `CensoredAreUncrossed`, `ProjectionIsSafe` | `ProjectionTypeOK`, `RulIsFirstCrossing`, `CensoredNeverCrossed`, `ProjectionSafe` |
| | `FilterIsSafe`, `OnsetIsRight` | `NumericsSpec => []FilterSafe`, `[]OnsetIsSteady` |
| | `QuantilesAreHonest` | `NumericsSpec => []QuantilesHonest` |
| | `ScoresAreRight`, `FeaturesAreSafe` | `NumericsSpec => []ScoresRight`, `[]FeaturesSafe` |

The assumptions are those the modules name: `SystemAssumption`, `NoTwinAssumption`,
`PayloadAssumption`, `FreeAssumption`, `SwitchAssumption`, `JobAssumption`, `RefAssumption`, `TargetAssumption`,
`WindowAssumption`, `AccountsAssumption`, `CallsAssumption`, `FileAssumption`, `RegistryAssumption`,
`SeedAssumption`, `DriverAssumption`, `ExportAssumption`, `LoadAssumption`, `PageAssumption`,
`ProjectionAssumption`, `FilterAssumption`, `OnsetAssumption`, `EvaluationAssumption`,
`ExtractorAssumption`. Each only says that a special value is not an ordinary one, or
what kind of value a constant is; `RegistryAssumption` says besides that an id the server draws (a
uuid) is not in use already, `FilterAssumption` that only the lowest weight counts as 0,
`OnsetAssumption` that the three phases of a tool's life differ in how fast it wears, and
`ExtractorAssumption` that an extractor's channels are distinct.

Three theorems have a hypothesis. `Serialized` is the run lock, without which two puts of one key share a
file (section 3, Deviations). `DenseUnderAnalyze` and `AbsorbedAreStored` are hypotheses about the first
state only: `ServiceInit` is any database the schema admits, and one that somebody else has numbered
with gaps keeps them. The database that `MCRunService` starts from satisfies both, as does an empty one.
That features are finite in number is proved (part of the invariant), not assumed.

None of the properties is inductive.

*Ingest.* `IInv` adds what a thread may rely on at each phase while it
holds the lock: that only one thread is inside a run's lock; that from `index` on, its cut index is
one more than the number of features rows (and equal to it after they were inserted); that from
`append_cut` on the blob under its key is its own, because no committed cut of another upload can be
writing under the same index; that the posterior it loaded is the one still stored. The step theorem
has one case per action and one sub-step per part of the invariant the action disturbs. `Restart`
needs the parts about the tables alone. `Refinement` maps `AppendFeatures`, `SaveTwin` and `AppendRul` to
`Admit`, `Absorb` and `Publish`, and everything else to stuttering.

*Service: what is stored.* `ServiceInit` is any database the schema admits, with any requests, and with
earlier uploads whose features are stored if they were answered with 200 (which `Acknowledged` proves of
ingest). `UploadsAlwaysKept` rests on an invariant
about every request from the insert of its features on, not only once it is answered: the row is
there unless a delete of the run has begun (`Kept`, `FilesKept`), no two features rows share an index
(`UniqueFeatures`), and a phase belongs to the kinds of request that can reach it (`Control`).
`JobMoves` says once, for all statements of all jobs, where a step comes from and where it leads; that
a delete once begun stays begun, and that features go only by a delete, follow from it.

*Service: labeled runs.* `LabelInv` says that whoever is past its look at the labels of a run still
finds none (`PastLabels`, `PastPick`): labels go only with their run, and a run that is created, or
created again, has none, by the foreign key of `labels`. That the constraints of the schema hold between
any two statements, also after SQLite kept the first rows of a refused batch, has one lemma per kind of
statement. No invariant could say that the features of a labeled run stay; `LabeledKept` does it for each
step.

*Service: starts and deletes.* `RunsInv` says of a start that is past its insert that the run is there, on
its machine, and that no other start of that run is past its own (`StartAt`): the look before the insert
is no help, the primary key of `runs` is. Of a delete whose run no other request has written to it says, phase by phase, which
tables have nothing of the run any more (`DeleteAt`, `Emptied`), so that no statement of it can be refused;
that the writes of others leave the run alone is lemma `Unwritten`.

*Service: numbering.* The index of an upload and the `start` of an analysis are read outside any lock
the other takes and may be stale when they are used. `NumberInv` says the one thing that stays true of
them: they are at most one past, or at most equal to, the number of features, because features only
grow until a delete. Inserting at a stale index is refused by the primary key of `cuts`; inserting at the
last free one extends the row 1..n; a batch that is refused half-way leaves nothing or a row of its
first cuts.

*Service: absorbed cuts.* `AbsorbInv` extends the property to what is not written yet: the posterior a
thread or a pass has loaded, the cuts a pass has still to do, the rows it has collected for
`cut_results`. So it does not matter whose posterior a racing save overwrites.

*Service: passes.* For a pass whose run no other request has written to since its reset, `PassInv` ties its
locals and three tables to one number `d`, the cuts done: the twin is `1..d`, the remaining cuts are
`d+1..n`, and what is shown is the first `d` rows. `touched` makes the case that another writer steps
trivial only for the run it writes to; that the steps of all other requests leave the run's tables alone
is what the proof spends itself on. It uses `NumberInv`, because `n` is a count and the cuts are a set.

*SQLite.* `SqliteInv` adds `Settled`: an operation that is neither running nor has raised has nothing
waiting in the transaction. That a commit of another call cannot touch it follows; `KeepsPromise` maps a
commit to `Write`, `Return` or `Raise` of the abstract store for all calls at once.

*Files.* `FileInv` adds that the inode of a temporary file has no other name and no reader
(`TmpPrivate`), how far each put has got with it (`PutAt`), that puts of one key are one at a time, and
that what a get has read is the beginning of a blob which stays as it is (`GetAt`). A crash leaves the
temporary file behind; the next put truncates it, and `TmpPrivate` is why nobody notices. In the
refinement only the rename and the end of a get are steps.

*Rate limiter.* `Inv` adds to the property that a caller between its stamp and the lock is at most
`Slack` late (`StampFresh`) and that admissions lie in the past. Lemma `AfterPop` is the heart: after
stale stamps were popped on behalf of any stamp, the deque still shadows the last admissions, and every
admission it no longer shadows is `Window - Slack` old.

*Accounts.* The properties speak of requests that were answered. `AccountsInv` says what a request holds
on its way there: one about to insert a session has an account by its password (`Entitled`), one that
passed `require_user` stands for the account its cookie was given to, by a session that had not run
out when it came (`LetIn`), a session row is what its token's request was given (`Given`), a token that is carried or listed
was handed out (`Carries`). The last is what makes `Revoked` inductive: a session inserted after a
logout-all belongs to a request that was not answered yet, so its token is not among those that were
revoked.

*Registry.* `RegistryInv` has to say of the list that `end_run` and `delete_machine` work through after
others have had time to change it which of its entries are still what was listed: an id may have been used again,
and `by` tells the runs under one id apart (`Listed`). `Archived` and `Gone` are the properties from
the moment the writes were made. That the run the tool change ends is the latest needs a largest start time
to exist; it is found with the least-number principle over sets of naturals (`LeastNatural`).

*Postgres.* `PostgresInv` says where a call without the lock is, how many errors one with the lock can
have had, and that a broken connection is the work of a drop. `OneDropHidden` needs to know whom to
blame: `Blame` counts the drops since the holder took the lock, which only the holder can have met,
because the lock keeps every other call from using the connection.

*Seed.* `SeedInv` adds who owns a run that is being copied (`Owned`), that a run which is not whole is
owned or torn (`Accounted`), and that what a deploy has passed exists (`Passed`). The primary key of
`runs` is what makes ownership exclusive.

*Replay driver.* `DriverInv` says which statements are whose (`Routed`), what rows they build on are there
(`Present`: predictions are of cuts with features, features of cuts with a row), and that the cut at hand
is new to the tables it has not reached (`Fresh`): a replay looks for the row of the cut, which is the first
to be written, so a cut that a death has torn is skipped and no key refuses what follows. `Passing` ties a filter pass to the cuts still to do: the twin is what was done, in order, and
the predictions are one for each. Which cut comes next is the least of a set, which exists by the
least-number principle (`NextIsIn`).

*Export.* `ExportInv` follows the copy statement by statement (`Worked`) and says of the tripwire that what it
has looked at is labeled (`Looked`). The server may only add features meanwhile, so what deserved a
refusal still does when it is given.

*Load test.* The client waits for one post of a run at most (`Counted`). `Backed` has the inequalities that
`ReportAgrees` follows from, as cardinalities of sets of posts: what was counted is among what is stored,
and the features of a run lie between the posts that have written theirs and those that tried.
`Numbered` is why nothing is refused without a fault: posts given up go on in the server, but the lock
lets one at a time to its index, which is still free when the row is written.

*Page.* `Streaming` says that there is one event source at most, that it is the one the page holds, and
that while the monitor is shown it is of the selection; its `next` is the length of what is drawn. Every
way to `startStream` keeps it because the old source is closed first; a source that breaks is closed
before the browser can connect it again. `Agree` is about one run that nothing excepts: every answer on
its way still says of it what the server has (`Told`); it is in the list only if it exists or the answer to
its delete is on its way (`Deleted`), and it is missing only if an answer that brings it is (`Coming`); and
the selection is in the list or about to be deleted, also while the monitor is hidden, because a later
`renderRail` shows it again without looking for it. What a request that is answered with an error has done
to a run either leaves the list right or excepts that run (`ErrorAgrees`).

*Filter.* `FilterInv` keeps that some particle has the largest weight there is (the update is relative to
it, and an observation that is no number makes all equal), and while a resampling is under way whose sums
and picks these are. The rest is about one resampling. Its sums are a recursive function, which exists by
a least counterexample (`SumExists`, `SumGrows`); rounded, they stay in order and within two units of
exact (`RoundedFacts`, `EndedFacts`). The binary search ends where the first sum not below its key is
(`SearchEnds`, a least counterexample on the width of the interval), so a position is given to particle j
exactly if it lies between two neighbouring sums. How many positions lie below a sum is a quotient
(`PositionsUpTo`); the difference of two is a particle's share, to one position and the rounding
(`SharesFair`). A particle without weight has an empty interval except at the ends (`DeadEnds`). The proof
found one thing that the instance did not show: that the first rounded sum is not below 0 has to be said
(`Rounded`), or a draw of 0 picks by a sum that no addition of weights can give.

*Quantiles.* Both sorts are by rank: how many entries are less, or as large and earlier. No two entries
have one rank, so each rank is taken (`RankTaken`), and the sorted value at a place is below y exactly if
the place is among the first as many as there are values below y (`PlaceCounts`). For the lives the rest is counting: a
bound lies between two neighbours (`PointBetween`), bounds grow with their place (`PointGrows`), and what
is beyond one is counted by its place (`LivesAside`). For the cloud, the sum of the first k sorted weights is what the
particles of rank up to k weigh (`CumulatedFacts`); a quantile lies between two heights of the cloud whose
cumulated weights have its share between them (`MetBetween`), so what is strictly below it weighs no more than
the share, and what is up to any particle not below it no less (`MetHonest`). Two quantiles are in order
because the shares are, also when both are interpolated in one step (`MetOrdered`).

*Onset.* A curve falls until it stops being steady and rises from where it starts to be (`CurveShape`), and
so do its rates. Any point before the steady cuts is therefore worse than the third of them
(`EarlyIsWorse`), any after them no better than the last (`LateIsNoBetter`), also the two whose sum is
padded with zeros, because the last two cuts wear three times as fast. The minimum is then on a steady cut
or one past. `EarlyIsWorse` needs the skipped start to be as long as the padding; with fewer than 14 labels
it is not, and there are curves of 13 whose onset is in the running-in (section 3, Deviations).

*Scores.* `ScanInv`: the scan has passed only cuts that are not locked. That what it finds comes right after
the last miss, and that exact predictions are inside every cone, then follows for any truth.

*Features.* The invariant is that every feature written so far has its value (`Valued`). That it keeps it
means that no two features have one name: a name ends in its own statistic, and in no longer one, because
only `mean_abs` and `crest_factor` have two words and no statistic of one word is the second of them
(`NameSplits`). A constant column is 0 by the guard of its statistic, and the
exponents of an ordinary one stay in range through each formula (`OrdinaryFinite`).

*Projection.* `ProjectionInv` ties the recorded path to the sample (`PathEnds`) and says that a sample
still alive has no crossing (`Uncrossed`) and why the loop stopped (`Stopped`).

The parts of the invariants that are not properties themselves (`LabelInv`, `RunsInv`, `NumberInv`, `AbsorbInv`, `PassInv`,
`FileInv`, `AccountsInv`, `RegistryInv`, `DriverInv`, `ExportInv`, `LoadInv`, `PageInv`, `FilterInv`,
`OnsetInv`, `ScoresInv`, `FeaturesInv`) were checked by TLC on the instances of section 3 before they
were proved.

Only model-checked is liveness (`LockReleased`, `EveryRequestAnswered`), which needs `ENABLED` and fairness
that the prover cannot handle. Every other property that a passing run checks is stated by a theorem.

## 5. Plan

Done: everything section 2 lists. What would add most, in this order:

1. One composition of `Ingest` with `SqliteConnection`, so that a restart rolls an open transaction back
   below the handler. Today the two meet in `StatementStore`.
2. Liveness under fairness for the connection's lock (a call returns or raises), the re-run scripts and
   the page's badge.
3. `Dashboard`: the dialogues (a rename that is answered after another one was opened), several machines.

## 6. Not modelled, and why

* The numbers themselves: the values of features, likelihoods and curve fits (scipy). Only what went in
  is tracked by the service's models, and only edges and order by the numeric ones.
* The closed form of the wear law, `rmse`, `mae` and `coverage`: sums without a state.
* Wall-clock columns, labels, names and formatting.
* `get_rul`, `list_runs`, `/runs`, `/machines` on the server: reads that no later step depends on (the
  page's reading of the list is in `Dashboard`).
* More than one worker process, except for the file store and the scripts. The code says that the
  in-process lock does not cover it.
* In `RunService`, a restart during a job, and SQLite's rollback at a restart: `SqliteConnection` has
  it for operations of the store, not for whole requests.
* The onset that a caller of the degradation model may give (`onset_cut`, `degradation.py:83`):
  `WearOnset` is the one that is looked for. Only command lines give one, the service never does.
* The rollback journal of an export that is killed in its commit or `VACUUM` (section 3, Deviations).
* psycopg's `executemany` (external): when a row of a batch is refused, `CutsRefused` and
  `FeaturesRefused` allow both that earlier rows stay and that they do not.
* `diagnose_transfer.py` saves a cold-start twin over that of each labeled run it tries (line 108) and
  prints; the remaining analysis scripts only read and print.
* `datasets/phm.py`: file names and CSV. `ReplayDriver` takes the sorted list of cuts as given.
* The migration of columns and the choice of a store from the environment; `VACUUM`.
* The dialogues of the page, its drawing, and `loadResults`, which nothing calls.
* bcrypt, HTTP parsing, cookies, S3 internals.
