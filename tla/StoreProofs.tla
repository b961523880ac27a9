---------------------------- MODULE StoreProofs ----------------------------
(***************************************************************************)
(* Proofs about the local stores: SqliteConnection, then FileStore.        *)
(*                                                                         *)
(* The connection, for any calls of any length and any number of crashes.  *)
(* The inductive invariant says of every call that what it has executed is *)
(* on disk too unless it is under way, or raised, in an open transaction;  *)
(* a call whose rows are committed one by one, because another's commit    *)
(* closed its transaction, is in shared.                                   *)
(***************************************************************************)
EXTENDS SqliteConnection, FileStore, SequenceTheorems, TLAPS

Settled == \A c \in Calls : status[c] \notin {"running", "raised"} => disk[c] = done[c]

SqliteInv == SqliteTypeOK /\ AtomicUnlessShared /\ ReturnedIsDurable /\ Settled

LEMMA InitInv == Init => SqliteInv
<1> SUFFICES ASSUME Init PROVE SqliteInv
  OBVIOUS
<1>1. SqliteTypeOK
  <2>1. done \in [Calls -> Nat] /\ disk \in [Calls -> Nat] /\ open \in BOOLEAN
    BY DEF Init
  <2>2. status \in [Calls -> {"idle", "running", "ok", "raised", "lost"}]
    BY DEF Init
  <2>3. ASSUME NEW c \in Calls PROVE disk[c] <= done[c] /\ done[c] <= Length[c]
    <3>1. disk[c] = 0 /\ done[c] = 0
      BY DEF Init
    <3>2. Length[c] \in Nat
      BY CallsAssumption
    <3> QED
      BY <3>1, <3>2
  <2>4. crashes \in 0..MaxCrashes /\ shared \subseteq Calls
    BY CallsAssumption DEF Init
  <2> QED
    BY <2>1, <2>2, <2>3, <2>4 DEF SqliteTypeOK
<1>2. AtomicUnlessShared /\ ReturnedIsDurable /\ Settled
  BY DEF Init, AtomicUnlessShared, ReturnedIsDurable, Settled
<1> QED
  BY <1>1, <1>2 DEF SqliteInv

LEMMA BeginInv == ASSUME SqliteInv, NEW c \in Calls, Begin(c) PROVE SqliteInv'
BY DEF Begin, SqliteInv, SqliteTypeOK, AtomicUnlessShared, ReturnedIsDurable, Settled

\* A row of an executemany is committed as it is executed only where the transaction of
\* its call was closed by another's commit.
LEMMA ExecuteInv == ASSUME SqliteInv, NEW c \in Calls, Execute(c) PROVE SqliteInv'
<1> USE CallsAssumption DEF SqliteInv, Execute, Executing
<1>1. SqliteTypeOK'
  <2> USE DEF SqliteTypeOK
  <2>1. done' \in [Calls -> Nat] /\ disk' \in [Calls -> Nat]
    OBVIOUS
  <2>2. open' \in BOOLEAN
    BY DEF Begins
  <2>3. ASSUME NEW k \in Calls PROVE disk'[k] <= done'[k] /\ done'[k] <= Length[k]
    <3>1. disk[k] \in Nat /\ done[k] \in Nat /\ Length[k] \in Nat
      OBVIOUS
    <3>2. disk[k] <= done[k] /\ done[k] <= Length[k] /\ (k = c => done[k] < Length[k])
      OBVIOUS
    <3>3. done'[k] = IF k = c THEN done[k] + 1 ELSE done[k]
      OBVIOUS
    <3>4. disk'[k] = disk[k] \/ (k = c /\ disk'[k] = disk[k] + 1)
      OBVIOUS
    <3> HIDE DEF Execute, Executing, SqliteInv, SqliteTypeOK
    <3> QED
      BY <3>1, <3>2, <3>3, <3>4
  <2>4. status' = status /\ crashes' = crashes /\ shared' = shared
    OBVIOUS
  <2> QED
    BY <2>1, <2>2, <2>3, <2>4
<1>2. ASSUME NEW k \in Calls \ shared PROVE disk'[k] \in {0, Length[k]}
  <2>1. CASE disk' = disk
    BY <2>1 DEF AtomicUnlessShared
  <2>2. CASE disk' # disk
    <3>1. ~ open /\ done[c] > 0 /\ disk' = [disk EXCEPT ![c] = @ + 1]
      BY <2>2 DEF Begins, SqliteTypeOK
    <3>2. disk[c] = done[c]
      BY <3>1 DEF ReturnedIsDurable
    <3>3. c \in shared
      BY <3>1, <3>2 DEF AtomicUnlessShared, SqliteTypeOK
    <3> QED
      BY <3>1, <3>3 DEF AtomicUnlessShared, SqliteTypeOK
  <2> QED
    BY <2>1, <2>2
<1>3. AtomicUnlessShared'
  BY <1>2 DEF AtomicUnlessShared
<1>4. ReturnedIsDurable'
  BY DEF ReturnedIsDurable, SqliteTypeOK
<1>5. Settled'
  BY DEF Settled, SqliteTypeOK
<1> QED
  BY <1>1, <1>3, <1>4, <1>5

LEMMA RefuseInv == ASSUME SqliteInv, NEW c \in Calls, Refuse(c) PROVE SqliteInv'
BY DEF Refuse, Executing, SqliteInv, SqliteTypeOK, AtomicUnlessShared, ReturnedIsDurable, Settled

LEMMA CommitInv == ASSUME SqliteInv, NEW c \in Calls, Commit(c) PROVE SqliteInv'
<1> USE CallsAssumption DEF SqliteInv, Commit, Committed
<1>1. SqliteTypeOK'
  <2> USE DEF SqliteTypeOK
  <2>1. done' = done /\ disk' = done /\ open' = FALSE /\ crashes' = crashes
    OBVIOUS
  <2>2. status' \in [Calls -> {"idle", "running", "ok", "raised", "lost"}]
    OBVIOUS
  <2>3. shared' \subseteq Calls
    OBVIOUS
  <2>4. \A k \in Calls : done[k] <= done[k]
    OBVIOUS
  <2> QED
    BY <2>1, <2>2, <2>3, <2>4
<1>2. ASSUME NEW k \in Calls \ shared' PROVE disk'[k] \in {0, Length[k]}
  <2>1. CASE k = c
    BY <2>1
  <2>2. CASE k # c
    <3>1. disk[k] = done[k]
      BY <2>2, <1>2 DEF SqliteTypeOK
    <3> QED
      BY <3>1, <1>2 DEF AtomicUnlessShared
  <2> QED
    BY <2>1, <2>2
<1>3. AtomicUnlessShared'
  BY <1>2 DEF AtomicUnlessShared
<1>4. ReturnedIsDurable'
  BY DEF ReturnedIsDurable, SqliteTypeOK
<1>5. Settled'
  BY DEF Settled, SqliteTypeOK
<1> QED
  BY <1>1, <1>3, <1>4, <1>5

LEMMA CommitFailsInv == ASSUME SqliteInv, NEW c \in Calls, CommitFails(c) PROVE SqliteInv'
BY DEF CommitFails, SqliteInv, SqliteTypeOK, AtomicUnlessShared, ReturnedIsDurable, Settled

LEMMA CrashInv == ASSUME SqliteInv, Crash PROVE SqliteInv'
<1> USE CallsAssumption DEF SqliteInv, Crash, Recovered
<1>1. SqliteTypeOK'
  <2> USE DEF SqliteTypeOK
  <2>1. done' = disk /\ disk' = disk /\ open' = FALSE /\ shared' = shared
    OBVIOUS
  <2>2. status' \in [Calls -> {"idle", "running", "ok", "raised", "lost"}]
    OBVIOUS
  <2>3. crashes' \in 0..MaxCrashes
    OBVIOUS
  <2>4. ASSUME NEW k \in Calls PROVE disk[k] <= disk[k] /\ disk[k] <= Length[k]
    OBVIOUS
  <2> QED
    BY <2>1, <2>2, <2>3, <2>4
<1>2. AtomicUnlessShared' /\ ReturnedIsDurable' /\ Settled'
  BY DEF SqliteTypeOK, AtomicUnlessShared, ReturnedIsDurable, Settled
<1> QED
  BY <1>1, <1>2

LEMMA NextInv == ASSUME SqliteInv, [Next]_vars PROVE SqliteInv'
<1>1. CASE Crash
  BY <1>1, CrashInv
<1>2. ASSUME NEW c \in Calls, Step(c) PROVE SqliteInv'
  BY <1>2, BeginInv, ExecuteInv, RefuseInv, CommitInv, CommitFailsInv DEF Step
<1>3. CASE UNCHANGED vars
  BY <1>3 DEF vars, SqliteInv, SqliteTypeOK, AtomicUnlessShared, ReturnedIsDurable, Settled
<1> QED
  BY <1>1, <1>2, <1>3 DEF Next

THEOREM InvHolds == Spec => []SqliteInv
BY InitInv, NextInv, PTL DEF Spec

\* Every variable keeps its type; no more is on disk than was executed.
THEOREM SqliteTypeCorrect == Spec => []SqliteTypeOK
<1>1. SqliteInv => SqliteTypeOK
  BY DEF SqliteInv
<1> QED
  BY <1>1, InvHolds, PTL

\* SQLiteDataStore's operations are atomic but for those into which another's
\* commit() fell.
THEOREM OperationsAtomicUnlessShared == Spec => []AtomicUnlessShared
<1>1. SqliteInv => AtomicUnlessShared
  BY DEF SqliteInv
<1> QED
  BY <1>1, InvHolds, PTL

\* What a method of SQLiteDataStore returned from is on disk, whatever crashes.
THEOREM ReturnedCallsAreDurable == Spec => []ReturnedIsDurable
<1>1. SqliteInv => ReturnedIsDurable
  BY DEF SqliteInv
<1> QED
  BY <1>1, InvHolds, PTL

\* What a run checks of the shared connection, for any threads and operations.
THEOREM ConnectionIsSafe == Spec => []ConnectionSafe
<1>1. SqliteTypeOK /\ AtomicUnlessShared /\ ReturnedIsDurable => ConnectionSafe
  BY DEF ConnectionSafe
<1> QED
  BY <1>1, SqliteTypeCorrect, OperationsAtomicUnlessShared, ReturnedCallsAreDurable, PTL

-----------------------------------------------------------------------------
LEMMA InitPromise == Init => Store!StoreInit
BY DEF Init, Store!StoreInit

LEMMA StepPromise ==
  ASSUME SqliteInv, [Next]_vars PROVE [Store!StoreNext]_<<disk, status>>
<1> USE CallsAssumption DEF Store!StoreNext
<1>1. CASE Crash
  BY <1>1 DEF Crash, Recovered, Store!Crash
<1>2. ASSUME NEW c \in Calls, Begin(c) PROVE Store!Call(c)
  BY <1>2 DEF Begin, Store!Call, Store!Turn
<1>3. ASSUME NEW c \in Calls, Execute(c) PROVE Store!Write \/ UNCHANGED <<disk, status>>
  <2>1. status' = status /\ (disk' = disk \/ disk' = [disk EXCEPT ![c] = @ + 1])
    BY <1>3 DEF Execute
  <2>2. CASE disk' = [disk EXCEPT ![c] = @ + 1]
    BY <1>3, <2>1, <2>2
       DEF Execute, Executing, Store!Write, Store!Grow, SqliteInv, SqliteTypeOK
  <2> QED
    BY <2>1, <2>2
<1>4. ASSUME NEW c \in Calls, Refuse(c) \/ CommitFails(c) PROVE Store!Raise(c)
  BY <1>4 DEF Refuse, CommitFails, Executing, Store!Raise, Store!Turn, Store!Grow,
              SqliteInv, SqliteTypeOK
<1>5. ASSUME NEW c \in Calls, Commit(c) PROVE Store!Return(c)
  BY <1>5 DEF Commit, Committed, Store!Return, Store!Turn, Store!Grow, SqliteInv,
              SqliteTypeOK, Settled
<1>6. CASE UNCHANGED vars
  BY <1>6 DEF vars
<1> QED
  BY <1>1, <1>2, <1>3, <1>4, <1>5, <1>6 DEF Next, Step

\* SQLiteDataStore, with one connection that all threads share and no rollback, keeps
\* the promise of StatementStore.
THEOREM SqliteImplementsStore == Spec => KeepsPromise
<1>1. Spec => Store!StoreInit /\ [][Store!StoreNext]_<<disk, status>>
  BY InitPromise, StepPromise, InvHolds, PTL DEF Spec
<1> QED
  BY <1>1 DEF KeepsPromise, Store!StoreSpec

-----------------------------------------------------------------------------
(***************************************************************************)
(* The file store, for any keys, blobs, puts, gets and crashes, when the   *)
(* puts of one key come one at a time.  The inductive invariant says that  *)
(* <path>.tmp is an inode that nothing else names and nobody reads, and    *)
(* how much of its blob the put that has it open has written: a file that  *)
(* is being read, or that a key names, is never written again.             *)
(***************************************************************************)
TmpPrivate ==
  \A k \in Keys : tmp[k] # None =>
    /\ \A l \in Keys : file[l] # tmp[k] /\ (l # k => tmp[l] # tmp[k])
    /\ \A r \in Readers : rfd[r] # tmp[k]

\* How far a put has got.
PutAt(w) ==
  LET i == tmp[wkey[w]] IN
  /\ wpc[w] \in {"first", "second"} => wfd[w] = i
  /\ wpc[w] \notin {"first", "second"} => wfd[w] = None
  /\ wpc[w] \in {"first", "second", "replace"} => i # None
  /\ wpc[w] = "first" => data[i] = <<>>
  /\ wpc[w] = "second" => data[i] = <<wval[w]>>
  /\ wpc[w] = "replace" => data[i] = Whole(wval[w])

OneAtATime ==
  \A v, w \in Writers : v # w /\ wpc[v] # "idle" /\ wpc[w] # "idle" => wkey[v] # wkey[w]

\* What a get has read so far is the beginning of a blob that stays as it is.
GetAt(r) ==
  /\ rpc[r] = "read" =>
       \E d \in Payloads : /\ data[rfd[r]] = Whole(d) /\ want[r] = Whole(d)
                           /\ got[r] \in {<<>>, <<d>>, Whole(d)}
  /\ rpc[r] # "read" => rfd[r] = None

FileInv ==
  /\ Serialized
  /\ FileTypeOK /\ NoHalfBlob /\ GetsWhole /\ TmpPrivate /\ OneAtATime
  /\ \A w \in Writers : PutAt(w)
  /\ \A r \in Readers : GetAt(r)

LEMMA Chunked ==
  \A d \in Payloads \cup {None} :
    /\ <<>> \in Chunks /\ <<d>> \in Chunks /\ Whole(d) \in Chunks
    /\ WriteAt(<<>>, 1, d) = <<d>> /\ WriteAt(<<d>>, 2, d) = Whole(d)
    /\ Append(<<>>, d) = <<d>> /\ Append(<<d>>, d) = Whole(d)
    /\ Len(Whole(d)) = 2 /\ Whole(d)[1] = d /\ Whole(d)[2] = d
<1> TAKE d \in Payloads \cup {None}
<1> DEFINE D == Payloads \cup {None}
<1>1. <<>> \in Chunks
  <2>1. <<>> \in [1..0 -> D]
    OBVIOUS
  <2> QED BY <2>1 DEF Chunks
<1>2. <<d>> \in Chunks
  <2>1. <<d>> \in [1..1 -> D]
    OBVIOUS
  <2> QED BY <2>1 DEF Chunks
<1>3. <<d, d>> \in Chunks
  <2>1. <<d, d>> \in [1..2 -> D]
    OBVIOUS
  <2> QED BY <2>1 DEF Chunks
<1>4. Append(<<>>, d) = <<d>> /\ Append(<<d>>, d) = <<d, d>>
  <2>1. <<>> \in Seq(D) /\ <<d>> \in Seq(D) /\ <<d, d>> \in Seq(D)
    OBVIOUS
  <2>2. /\ Append(<<>>, d) \in Seq(D) /\ Len(Append(<<>>, d)) = 1
        /\ Append(<<d>>, d) \in Seq(D) /\ Len(Append(<<d>>, d)) = 2
    BY <2>1
  <2>3. Append(<<>>, d)[1] = d /\ Append(<<d>>, d)[1] = d /\ Append(<<d>>, d)[2] = d
    BY <2>1
  <2>4. \A i \in 1..2 : Append(<<d>>, d)[i] = <<d, d>>[i]
    BY <2>3
  <2>5. \A i \in 1..1 : Append(<<>>, d)[i] = <<d>>[i]
    BY <2>3
  <2>6. Append(<<d>>, d) = <<d, d>>
    BY <2>1, <2>2, <2>4, SeqEqual
  <2>7. Append(<<>>, d) = <<d>>
    BY <2>1, <2>2, <2>5, SeqEqual
  <2> QED BY <2>6, <2>7
<1>5. WriteAt(<<>>, 1, d) = <<d>> /\ WriteAt(<<d>>, 2, d) = <<d, d>>
  BY <1>4 DEF WriteAt
<1> QED BY <1>1, <1>2, <1>3, <1>4, <1>5 DEF Whole

LEMMA FileInvInit == Serialized /\ FileInit => FileInv
<1> SUFFICES ASSUME Serialized, FileInit PROVE FileInv
  OBVIOUS
<1> USE DEF FileInit
<1>0. <<>> \in Chunks
  <2>1. <<>> \in [1..0 -> Payloads \cup {None}]
    OBVIOUS
  <2> QED BY <2>1 DEF Chunks
<1>1. FileTypeOK
  BY <1>0 DEF FileTypeOK
<1>2. NoHalfBlob /\ GetsWhole /\ TmpPrivate /\ OneAtATime
  BY DEF NoHalfBlob, GetsWhole, TmpPrivate, OneAtATime
<1>3. \A w \in Writers : PutAt(w)
  BY DEF PutAt
<1>4. \A r \in Readers : GetAt(r)
  BY DEF GetAt
<1> QED BY <1>1, <1>2, <1>3, <1>4 DEF FileInv

\* The parts of the invariant that no step of a put or a get but those named changes.
LEMMA PutInv ==
  ASSUME FileInv, NEW w \in Writers, Put(w) PROVE FileInv'
<1> USE DEF FileInv, Put
<1>1. PICK k \in Keys, d \in Payloads :
        /\ ~ Busy(w, k)
        /\ wkey' = [wkey EXCEPT ![w] = k] /\ wval' = [wval EXCEPT ![w] = d]
  OBVIOUS
<1>2. wpc' = [wpc EXCEPT ![w] = "open"] /\ UNCHANGED <<file, tmp, data, wfd, rpc, rfd, got, want>>
  BY DEF onDisk, gets
<1>3. FileTypeOK'
  BY <1>1, <1>2 DEF FileTypeOK
<1>4. OneAtATime'
  <2> SUFFICES ASSUME NEW v \in Writers, NEW x \in Writers, v # x, wpc'[v] # "idle", wpc'[x] # "idle"
               PROVE  wkey'[v] # wkey'[x]
    BY DEF OneAtATime
  <2>1. \A y \in Writers \ {w} : wpc[y] # "idle" => wkey[y] # k
    BY <1>1 DEF Busy
  <2>2. wkey'[w] = k /\ \A y \in Writers \ {w} : wkey'[y] = wkey[y] /\ wpc'[y] = wpc[y]
    BY <1>1, <1>2 DEF FileTypeOK
  <2> QED BY <2>1, <2>2 DEF OneAtATime
<1>5. ASSUME NEW v \in Writers PROVE PutAt(v)'
  <2>1. CASE v = w
    BY <1>1, <1>2, <2>1 DEF PutAt, FileTypeOK
  <2>2. CASE v # w
    <3>1. wpc'[v] = wpc[v] /\ wkey'[v] = wkey[v] /\ wval'[v] = wval[v]
      BY <1>1, <1>2, <2>2 DEF FileTypeOK
    <3> QED BY <1>2, <3>1 DEF PutAt
  <2> QED BY <2>1, <2>2
<1>6. NoHalfBlob' /\ GetsWhole' /\ TmpPrivate' /\ \A r \in Readers : GetAt(r)'
  BY <1>2 DEF NoHalfBlob, GetsWhole, TmpPrivate, GetAt
<1> QED BY <1>3, <1>4, <1>5, <1>6

\* What is opened for writing is the file's own <path>.tmp or an inode nobody has.
LEMMA OpenTmpInv ==
  ASSUME FileInv, NEW w \in Writers, OpenTmp(w) PROVE FileInv'
<1> USE FileAssumption DEF FileInv, OpenTmp
<1> DEFINE k == wkey[w]
<1>1. PICK i \in IF tmp[k] = None THEN Free ELSE {tmp[k]} :
        /\ data' = [data EXCEPT ![i] = <<>>] /\ tmp' = [tmp EXCEPT ![k] = i]
        /\ wfd' = [wfd EXCEPT ![w] = i]
  BY DEF Target
<1>2. /\ wpc[w] = "open" /\ wpc' = [wpc EXCEPT ![w] = "first"]
      /\ UNCHANGED <<file, wkey, wval, rpc, rfd, got, want>>
  BY DEF gets
<1>3. k \in Keys /\ i \in Inodes /\ i # None
  BY <1>1, <1>2 DEF FileTypeOK, Free
<1>4. /\ \A l \in Keys : file[l] # i /\ (l # k => tmp[l] # i)
      /\ \A r \in Readers : rfd[r] # i
  <2>1. CASE tmp[k] = None
    BY <1>1, <2>1 DEF Free
  <2>2. CASE tmp[k] # None
    BY <1>1, <1>3, <2>2 DEF TmpPrivate
  <2> QED BY <2>1, <2>2
<1> HIDE DEF OpenTmp
<1>5. FileTypeOK'
  <2>1. <<>> \in Chunks
    BY <1>2, Chunked DEF FileTypeOK
  <2> QED BY <1>1, <1>2, <1>3, <2>1 DEF FileTypeOK
<1>6. NoHalfBlob'
  BY <1>1, <1>2, <1>3, <1>4 DEF NoHalfBlob, FileTypeOK
<1>7. GetsWhole' /\ OneAtATime'
  BY <1>2 DEF GetsWhole, OneAtATime, FileTypeOK
<1>8. TmpPrivate'
  BY <1>1, <1>2, <1>3, <1>4 DEF TmpPrivate, FileTypeOK
<1>9. ASSUME NEW v \in Writers PROVE PutAt(v)'
  <2>1. CASE v = w
    BY <1>1, <1>2, <1>3, <2>1 DEF PutAt, FileTypeOK
  <2>2. CASE v # w /\ wpc[v] # "idle"
    <3>1. wkey[v] # k /\ wkey[v] \in Keys
      BY <1>2, <2>2 DEF OneAtATime, FileTypeOK
    <3>2. tmp'[wkey[v]] = tmp[wkey[v]] /\ tmp[wkey[v]] # i
      BY <1>1, <1>3, <1>4, <3>1 DEF FileTypeOK
    <3>3. wpc'[v] = wpc[v] /\ wfd'[v] = wfd[v]
      BY <1>1, <1>2, <2>2 DEF FileTypeOK
    <3>4. tmp[wkey[v]] # None => data'[tmp[wkey[v]]] = data[tmp[wkey[v]]]
      BY <1>1, <3>1, <3>2 DEF FileTypeOK
    <3> HIDE DEF k
    <3> QED BY <1>2, <3>2, <3>3, <3>4 DEF PutAt
  <2>3. CASE v # w /\ wpc[v] = "idle"
    <3>1. wpc'[v] = "idle" /\ wfd'[v] = wfd[v]
      BY <1>1, <1>2, <2>3 DEF FileTypeOK
    <3> QED BY <2>3, <3>1 DEF PutAt
  <2> QED BY <2>1, <2>2, <2>3
<1>10. ASSUME NEW r \in Readers PROVE GetAt(r)'
  <2>1. rfd[r] \in Inodes => data'[rfd[r]] = data[rfd[r]]
    BY <1>1, <1>4 DEF FileTypeOK
  <2> QED BY <1>2, <2>1 DEF GetAt, FileTypeOK
<1> QED BY <1>5, <1>6, <1>7, <1>8, <1>9, <1>10

\* A chunk goes to the file that the put has open, which is nobody else's.
LEMMA WriteInv ==
  ASSUME FileInv, NEW w \in Writers, WriteFirst(w) \/ WriteSecond(w) PROVE FileInv'
<1> USE FileAssumption DEF FileInv
<1> DEFINE i == tmp[wkey[w]]
           d == wval[w]
<1>1. /\ wkey[w] \in Keys /\ d \in Payloads /\ i \in Inodes /\ wfd[w] = i
      /\ UNCHANGED <<file, tmp, wkey, wval, rpc, rfd, got, want>>
  BY DEF WriteFirst, WriteSecond, FileTypeOK, PutAt, gets
<1>2. \/ /\ wpc[w] = "first" /\ wpc' = [wpc EXCEPT ![w] = "second"] /\ wfd' = wfd
         /\ data' = [data EXCEPT ![i] = <<d>>]
      \/ /\ wpc[w] = "second" /\ wpc' = [wpc EXCEPT ![w] = "replace"]
         /\ wfd' = [wfd EXCEPT ![w] = None]
         /\ data' = [data EXCEPT ![i] = Whole(d)]
  <2>1. CASE WriteFirst(w)
    <3>1. data' = [data EXCEPT ![i] = WriteAt(data[i], 1, d)] /\ data[i] = <<>>
      BY <1>1, <2>1 DEF WriteFirst, PutAt
    <3>2. WriteAt(<<>>, 1, d) = <<d>>
      BY <1>1, Chunked
    <3> QED BY <2>1, <3>1, <3>2 DEF WriteFirst
  <2>2. CASE WriteSecond(w)
    <3>1. data' = [data EXCEPT ![i] = WriteAt(data[i], 2, d)] /\ data[i] = <<d>>
      BY <1>1, <2>2 DEF WriteSecond, PutAt
    <3>2. WriteAt(<<d>>, 2, d) = Whole(d)
      BY <1>1, Chunked
    <3> QED BY <2>2, <3>1, <3>2 DEF WriteSecond
  <2> QED BY <2>1, <2>2
<1>3. /\ \A l \in Keys : file[l] # i /\ (l # wkey[w] => tmp[l] # i)
      /\ \A r \in Readers : rfd[r] # i
  BY <1>1 DEF TmpPrivate
<1>4. FileTypeOK'
  <2>1. <<d>> \in Chunks /\ Whole(d) \in Chunks
    BY <1>1, Chunked
  <2> HIDE DEF i, d
  <2>2. data' \in [Inodes -> Chunks]
    BY <1>1, <1>2, <2>1 DEF FileTypeOK
  <2> QED BY <1>1, <1>2, <2>2 DEF FileTypeOK
<1>5. NoHalfBlob'
  <2> HIDE DEF i, d
  <2> QED BY <1>1, <1>2, <1>3 DEF NoHalfBlob, FileTypeOK
<1>6. GetsWhole' /\ TmpPrivate'
  BY <1>1 DEF GetsWhole, TmpPrivate
<1>7. OneAtATime'
  BY <1>1, <1>2 DEF OneAtATime, FileTypeOK
<1>8. ASSUME NEW v \in Writers PROVE PutAt(v)'
  <2>1. CASE v = w
    <3>1. data'[i] = IF wpc[w] = "first" THEN <<d>> ELSE Whole(d)
      <4> HIDE DEF i, d
      <4> QED BY <1>1, <1>2 DEF FileTypeOK
    <3>2. /\ wpc'[w] = IF wpc[w] = "first" THEN "second" ELSE "replace"
          /\ wfd'[w] = IF wpc[w] = "first" THEN i ELSE None
      BY <1>1, <1>2 DEF FileTypeOK
    <3>3. tmp'[wkey'[w]] = i /\ wval'[w] = d /\ i # None
      BY <1>1
    <3> HIDE DEF i, d
    <3> QED BY <1>2, <2>1, <3>1, <3>2, <3>3 DEF PutAt
  <2>2. CASE v # w
    <3>1. wpc'[v] = wpc[v] /\ wfd'[v] = wfd[v]
      BY <1>2, <2>2 DEF FileTypeOK
    <3>2. wpc[v] # "idle" /\ tmp[wkey[v]] # None => data'[tmp[wkey[v]]] = data[tmp[wkey[v]]]
      <4> SUFFICES ASSUME wpc[v] # "idle", tmp[wkey[v]] # None
                   PROVE  data'[tmp[wkey[v]]] = data[tmp[wkey[v]]]
        OBVIOUS
      <4>1. wkey[v] # wkey[w] /\ wkey[v] \in Keys
        BY <1>2, <2>2 DEF OneAtATime, FileTypeOK
      <4>2. tmp[wkey[v]] # i /\ tmp[wkey[v]] \in Inodes
        BY <1>3, <4>1 DEF FileTypeOK
      <4> HIDE DEF i, d
      <4> QED BY <1>2, <4>2 DEF FileTypeOK
    <3> HIDE DEF i, d
    <3> QED BY <1>1, <3>1, <3>2 DEF PutAt
  <2> QED BY <2>1, <2>2
<1>9. ASSUME NEW r \in Readers PROVE GetAt(r)'
  <2>1. rfd[r] \in Inodes => data'[rfd[r]] = data[rfd[r]]
    <3> HIDE DEF i, d
    <3> QED BY <1>2, <1>3 DEF FileTypeOK
  <2> QED BY <1>1, <2>1 DEF GetAt, FileTypeOK
<1> QED BY <1>4, <1>5, <1>6, <1>7, <1>8, <1>9

\* The rename publishes a blob that is whole, under a name of its own.
LEMMA ReplaceInv ==
  ASSUME FileInv, NEW w \in Writers, Replace(w) PROVE FileInv'
<1> USE FileAssumption DEF FileInv, Replace
<1> DEFINE k == wkey[w]
           i == tmp[wkey[w]]
<1>1. /\ wpc[w] = "replace" /\ wpc' = [wpc EXCEPT ![w] = "idle"]
      /\ wkey' = [wkey EXCEPT ![w] = None] /\ wval' = [wval EXCEPT ![w] = None]
      /\ UNCHANGED <<data, wfd, rpc, rfd, got, want>>
  BY DEF Ends, gets
<1>2. k \in Keys /\ wval[w] \in Payloads /\ i \in Inodes /\ data[i] = Whole(wval[w])
  BY <1>1 DEF FileTypeOK, PutAt
<1>3. file' = [file EXCEPT ![k] = i] /\ tmp' = [tmp EXCEPT ![k] = None]
  BY <1>2
<1> HIDE DEF Replace
<1>4. FileTypeOK'
  BY <1>1, <1>2, <1>3 DEF FileTypeOK
<1>5. NoHalfBlob'
  BY <1>1, <1>2, <1>3 DEF NoHalfBlob, FileTypeOK, Blobs
<1>6. GetsWhole'
  BY <1>1 DEF GetsWhole
<1>7. TmpPrivate'
  BY <1>1, <1>2, <1>3 DEF TmpPrivate, FileTypeOK
<1>8. OneAtATime'
  BY <1>1 DEF OneAtATime, FileTypeOK
<1>9. ASSUME NEW v \in Writers PROVE PutAt(v)'
  <2>1. CASE v = w
    BY <1>1, <2>1 DEF PutAt, FileTypeOK
  <2>2. CASE v # w /\ wpc[v] # "idle"
    <3>1. wkey[v] # k /\ wkey[v] \in Keys
      BY <1>1, <2>2 DEF OneAtATime, FileTypeOK
    <3>2. /\ wpc'[v] = wpc[v] /\ wkey'[v] = wkey[v] /\ wval'[v] = wval[v]
          /\ tmp'[wkey[v]] = tmp[wkey[v]]
      BY <1>1, <1>2, <1>3, <2>2, <3>1 DEF FileTypeOK
    <3>3. wfd'[v] = wfd[v] /\ PutAt(v)
      BY <1>1
    <3> HIDE DEF FileInv
    <3> QED BY <1>1, <3>2, <3>3 DEF PutAt
  <2>3. CASE v # w /\ wpc[v] = "idle"
    BY <1>1, <2>3 DEF PutAt, FileTypeOK
  <2> QED BY <2>1, <2>2, <2>3
<1>10. \A r \in Readers : GetAt(r)'
  BY <1>1 DEF GetAt
<1> QED BY <1>4, <1>5, <1>6, <1>7, <1>8, <1>9, <1>10

LEMMA GetInv ==
  ASSUME FileInv, NEW r \in Readers, GetStep(r) PROVE FileInv'
<1> USE FileAssumption DEF FileInv
<1>1. UNCHANGED <<file, tmp, data, wpc, wkey, wval, wfd>>
  BY DEF GetStep, Open, Read, Return, Again, onDisk, puts
<1>2. NoHalfBlob' /\ OneAtATime' /\ \A w \in Writers : PutAt(w)'
  BY <1>1 DEF NoHalfBlob, OneAtATime, PutAt
<1>3. CASE Open(r)
  <2>1. PICK k \in Keys : /\ file[k] # None
                          /\ rfd' = [rfd EXCEPT ![r] = file[k]]
                          /\ want' = [want EXCEPT ![r] = data[file[k]]]
    BY <1>3 DEF Open
  <2>2. /\ rpc[r] = "idle" /\ rpc' = [rpc EXCEPT ![r] = "read"]
        /\ got' = [got EXCEPT ![r] = <<>>]
    BY <1>3 DEF Open
  <2>3. file[k] \in Inodes
    BY <2>1 DEF FileTypeOK
  <2>4. PICK d \in Payloads : data[file[k]] = Whole(d)
    BY <2>1 DEF NoHalfBlob, Blobs
  <2>5. <<>> \in Chunks
    BY <2>4, Chunked
  <2>6. FileTypeOK'
    BY <1>1, <2>1, <2>2, <2>3, <2>5 DEF FileTypeOK
  <2>7. GetsWhole'
    BY <2>1, <2>2 DEF GetsWhole, FileTypeOK
  <2>8. TmpPrivate'
    BY <1>1, <2>1 DEF TmpPrivate, FileTypeOK
  <2>9. \A x \in Readers : GetAt(x)'
    <3>1. GetAt(r)'
      BY <1>1, <2>1, <2>2, <2>4 DEF GetAt, FileTypeOK
    <3>2. \A x \in Readers \ {r} : GetAt(x)'
      BY <1>1, <2>1, <2>2 DEF GetAt, FileTypeOK
    <3> QED BY <3>1, <3>2
  <2> QED BY <1>2, <2>6, <2>7, <2>8, <2>9
<1>4. CASE Read(r)
  <2>1. /\ rpc[r] = "read" /\ Len(got[r]) < Len(data[rfd[r]])
        /\ got' = [got EXCEPT ![r] = Append(got[r], data[rfd[r]][Len(got[r]) + 1])]
        /\ UNCHANGED <<rpc, rfd, want>>
    BY <1>4 DEF Read
  <2>2. PICK d \in Payloads : /\ data[rfd[r]] = Whole(d) /\ want[r] = Whole(d)
                              /\ got[r] \in {<<>>, <<d>>, Whole(d)}
    BY <2>1 DEF GetAt
  <2>3. Append(got[r], data[rfd[r]][Len(got[r]) + 1]) \in {<<d>>, Whole(d)}
    <3>1. Len(Whole(d)) = 2 /\ Whole(d)[1] = d /\ Whole(d)[2] = d
      BY Chunked
    <3>2. Append(<<>>, d) = <<d>> /\ Append(<<d>>, d) = Whole(d)
      BY Chunked
    <3>3. got[r] # Whole(d)
      <4>1. Len(got[r]) < Len(Whole(d))
        BY <2>1, <2>2
      <4> QED BY <3>1, <4>1
    <3>4. Len(<<>>) = 0 /\ Len(<<d>>) = 1
      OBVIOUS
    <3>5. CASE got[r] = <<>>
      BY <2>2, <3>1, <3>2, <3>4, <3>5
    <3>6. CASE got[r] = <<d>>
      BY <2>2, <3>1, <3>2, <3>4, <3>6
    <3> QED BY <2>2, <3>3, <3>5, <3>6
  <2>4. <<d>> \in Chunks /\ Whole(d) \in Chunks
    BY Chunked
  <2>5. FileTypeOK'
    BY <1>1, <2>1, <2>3, <2>4 DEF FileTypeOK
  <2>6. GetsWhole' /\ TmpPrivate'
    BY <1>1, <2>1 DEF GetsWhole, TmpPrivate, FileTypeOK
  <2>7. \A x \in Readers : GetAt(x)'
    <3>1. GetAt(r)'
      BY <1>1, <2>1, <2>2, <2>3 DEF GetAt, FileTypeOK
    <3>2. \A x \in Readers \ {r} : GetAt(x)'
      BY <1>1, <2>1 DEF GetAt, FileTypeOK
    <3> QED BY <3>1, <3>2
  <2> QED BY <1>2, <2>5, <2>6, <2>7
<1>5. CASE Return(r)
  <2>1. /\ rpc[r] = "read" /\ Len(got[r]) >= Len(data[rfd[r]])
        /\ rpc' = [rpc EXCEPT ![r] = "returned"] /\ rfd' = [rfd EXCEPT ![r] = None]
        /\ UNCHANGED <<got, want>>
    BY <1>5 DEF Return
  <2>2. PICK d \in Payloads : /\ data[rfd[r]] = Whole(d) /\ want[r] = Whole(d)
                              /\ got[r] \in {<<>>, <<d>>, Whole(d)}
    BY <2>1 DEF GetAt
  <2>3. got[r] = want[r] /\ want[r] \in Blobs
    <3>1. Len(Whole(d)) = 2 /\ Len(<<>>) = 0 /\ Len(<<d>>) = 1
      BY Chunked
    <3>2. Len(got[r]) >= 2
      BY <2>1, <2>2, <3>1
    <3>3. got[r] = Whole(d)
      <4>1. ASSUME got[r] = <<>> PROVE FALSE
        BY <3>1, <3>2, <4>1
      <4>2. ASSUME got[r] = <<d>> PROVE FALSE
        BY <3>1, <3>2, <4>2
      <4> QED BY <2>2, <4>1, <4>2
    <3> QED BY <2>2, <3>3 DEF Blobs
  <2>4. FileTypeOK'
    BY <1>1, <2>1 DEF FileTypeOK
  <2>5. GetsWhole'
    BY <2>1, <2>3 DEF GetsWhole, FileTypeOK
  <2>6. TmpPrivate'
    BY <1>1, <2>1 DEF TmpPrivate, FileTypeOK
  <2>7. \A x \in Readers : GetAt(x)'
    BY <1>1, <2>1 DEF GetAt, FileTypeOK
  <2> QED BY <1>2, <2>4, <2>5, <2>6, <2>7
<1>6. CASE Again(r)
  <2>1. /\ rpc[r] = "returned" /\ rpc' = [rpc EXCEPT ![r] = "idle"] /\ UNCHANGED rfd
        /\ got' = [got EXCEPT ![r] = <<>>] /\ want' = [want EXCEPT ![r] = <<>>]
    BY <1>6 DEF Again
  <2>2. <<>> \in Chunks
    <3>1. <<>> \in [1..0 -> Payloads \cup {None}]
      OBVIOUS
    <3> QED BY <3>1 DEF Chunks
  <2>3. FileTypeOK'
    BY <1>1, <2>1, <2>2 DEF FileTypeOK
  <2>4. GetsWhole' /\ TmpPrivate'
    BY <1>1, <2>1 DEF GetsWhole, TmpPrivate, FileTypeOK
  <2>5. \A x \in Readers : GetAt(x)'
    BY <1>1, <2>1 DEF GetAt, FileTypeOK
  <2> QED BY <1>2, <2>3, <2>4, <2>5
<1> QED BY <1>3, <1>4, <1>5, <1>6 DEF GetStep

\* A crash leaves <path>.tmp half-written: the next put of the key truncates it.
LEMMA DieInv ==
  ASSUME FileInv, Die PROVE FileInv'
<1> USE FileAssumption DEF FileInv, Die
<1>1. UNCHANGED <<file, tmp, data>>
  BY DEF onDisk
<1>2. <<>> \in Chunks
  <2>1. <<>> \in [1..0 -> Payloads \cup {None}]
    OBVIOUS
  <2> QED BY <2>1 DEF Chunks
<1>3. FileTypeOK'
  BY <1>1, <1>2 DEF FileTypeOK
<1>4. NoHalfBlob' /\ GetsWhole' /\ TmpPrivate' /\ OneAtATime'
  BY <1>1 DEF NoHalfBlob, GetsWhole, TmpPrivate, OneAtATime, FileTypeOK
<1>5. \A w \in Writers : PutAt(w)'
  BY <1>1 DEF PutAt
<1>6. \A r \in Readers : GetAt(r)'
  BY DEF GetAt
<1> QED BY <1>3, <1>4, <1>5, <1>6

LEMMA FileInvStep == FileInv /\ [FileNext]_fileVars => FileInv'
<1> SUFFICES ASSUME FileInv, [FileNext]_fileVars PROVE FileInv'
  OBVIOUS
<1>1. ASSUME NEW w \in Writers, PutStep(w) PROVE FileInv'
  BY <1>1, PutInv, OpenTmpInv, WriteInv, ReplaceInv DEF PutStep
<1>2. ASSUME NEW r \in Readers, GetStep(r) PROVE FileInv'
  BY <1>2, GetInv
<1>3. CASE Die
  BY <1>3, DieInv
<1>4. CASE UNCHANGED fileVars
  BY <1>4 DEF fileVars, onDisk, puts, gets, FileInv, FileTypeOK, NoHalfBlob, GetsWhole, TmpPrivate,
     OneAtATime, PutAt, GetAt
<1> QED BY <1>1, <1>2, <1>3, <1>4 DEF FileNext

\* Whatever is put, read and killed, a key names a whole blob and a get returns
\* one, as long as the run lock keeps the puts of a key apart.
THEOREM FilesAreSafe == Serialized /\ FileSpec => []FilesSafe
<1>1. FileInv => FilesSafe
  BY DEF FileInv, FilesSafe
<1> QED BY FileInvInit, FileInvStep, <1>1, PTL DEF FileSpec

\* The blobs change in the rename only.
LEMMA PutsMap ==
  ASSUME FileInv, [FileNext]_fileVars PROVE [Objects!BlobNext]_blob
<1> USE FileAssumption
<1>1. ASSUME NEW w \in Writers, Replace(w) PROVE Objects!BlobNext
  <2> DEFINE k == wkey[w]
             i == tmp[wkey[w]]
             b == Whole(wval[w])
  <2>1. k \in Keys /\ wval[w] \in Payloads /\ i \in Inodes /\ i # None /\ data[i] = b
    BY <1>1 DEF Replace, FileInv, FileTypeOK, PutAt
  <2>2. file' = [file EXCEPT ![k] = i] /\ UNCHANGED data
    BY <1>1, <2>1 DEF Replace
  <2>3. b \in Blobs
    BY <2>1 DEF Blobs
  <2>4. blob' = [blob EXCEPT ![k] = b]
    <3> HIDE DEF k, b, i
    <3>1. \A l \in Keys : file'[l] = IF l = k THEN i ELSE file[l]
      BY <2>1, <2>2 DEF FileInv, FileTypeOK
    <3> DEFINE shown(l) == IF file'[l] = None THEN None ELSE data'[file'[l]]
               was(l) == IF file[l] = None THEN None ELSE data[file[l]]
    <3>2. blob' = [l \in Keys |-> shown(l)] /\ blob = [l \in Keys |-> was(l)]
      BY DEF blob
    <3>3. \A l \in Keys : shown(l) = IF l = k THEN b ELSE was(l)
      BY <2>1, <2>2, <3>1
    <3> HIDE DEF shown, was
    <3> QED BY <2>1, <3>2, <3>3
  <2>5. Objects!put(k, b)
    BY <2>4 DEF Objects!put
  <2> QED BY <2>1, <2>3, <2>5 DEF Objects!BlobNext
<1>2. ASSUME UNCHANGED file, \A k \in Keys : file[k] # None => data'[file[k]] = data[file[k]]
      PROVE  UNCHANGED blob
  BY <1>2 DEF blob
<1>3. ASSUME UNCHANGED file, NEW i, NEW s, data' = [data EXCEPT ![i] = s],
             \A k \in Keys : file[k] # i
      PROVE  UNCHANGED blob
  BY <1>2, <1>3 DEF FileInv, FileTypeOK
<1>4. ASSUME NEW w \in Writers, OpenTmp(w) PROVE UNCHANGED blob
  <2>1. PICK i \in IF tmp[wkey[w]] = None THEN Free ELSE {tmp[wkey[w]]} :
          data' = [data EXCEPT ![i] = <<>>]
    BY <1>4 DEF OpenTmp, Target
  <2>2. \A k \in Keys : file[k] # i
    BY <1>4, <2>1 DEF OpenTmp, Free, FileInv, FileTypeOK, TmpPrivate
  <2>3. UNCHANGED file
    BY <1>4 DEF OpenTmp
  <2> QED BY <1>3, <2>1, <2>2, <2>3
<1>5. ASSUME NEW w \in Writers, WriteFirst(w) \/ WriteSecond(w) PROVE UNCHANGED blob
  <2>1. \A k \in Keys : file[k] # wfd[w]
    BY <1>5 DEF WriteFirst, WriteSecond, FileInv, FileTypeOK, TmpPrivate, PutAt
  <2>2. UNCHANGED file
    BY <1>5 DEF WriteFirst, WriteSecond
  <2>3. \E s : data' = [data EXCEPT ![wfd[w]] = s]
    BY <1>5 DEF WriteFirst, WriteSecond
  <2> QED BY <1>3, <2>1, <2>2, <2>3
<1>6. ASSUME UNCHANGED onDisk PROVE UNCHANGED blob
  BY <1>6 DEF onDisk, blob
<1>7. ASSUME NEW w \in Writers, PutStep(w) PROVE [Objects!BlobNext]_blob
  BY <1>1, <1>4, <1>5, <1>6, <1>7 DEF PutStep, Put
<1>8. ASSUME NEW r \in Readers, GetStep(r) PROVE UNCHANGED onDisk
  BY <1>8 DEF GetStep, Open, Read, Return, Again
<1> QED
  BY <1>6, <1>7, <1>8 DEF FileNext, Die, fileVars

\* The puts take effect in one step: the file store implements BlobStore.
THEOREM FilesImplementBlobs == Serialized /\ FileSpec => PutsAtomic
<1>1. FileInit => Objects!BlobInit
  BY DEF FileInit, blob, Objects!BlobInit
<1> QED
  BY FileInvInit, FileInvStep, PutsMap, <1>1, PTL DEF FileSpec, PutsAtomic, Objects!BlobSpec
=============================================================================
