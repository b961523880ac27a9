----------------------------- MODULE FileStore ------------------------------
(***************************************************************************)
(* FilesystemObjectStore (storage/filesystem_object_store.py): a blob is   *)
(* written to <path>.tmp and the file renamed to <path>; a reader opens    *)
(* <path> and reads on whatever is renamed over it.  A blob is two chunks, *)
(* so that a write and a read may be cut in half.  The process may die at  *)
(* any moment; the files stay as they are.                                 *)
(***************************************************************************)
EXTENDS Naturals, Sequences

CONSTANTS
  Keys, Payloads, Writers, Readers,
  Inodes,       \* the files of the disk
  None,         \* no file, no chunk
  Serialized    \* whether the puts of one key come one at a time, as the run lock
                \* of a server process makes them

ASSUME FileAssumption ==
  None \notin Inodes \cup Payloads /\ Serialized \in BOOLEAN

VARIABLES
  file, tmp,            \* the inode that <path> and <path>.tmp name
  data,                 \* the chunks of an inode
  wpc, wkey, wval, wfd, \* puts
  rpc, rfd, got, want   \* gets; want is what the file held when it was opened

onDisk == <<file, tmp, data>>
puts == <<wpc, wkey, wval, wfd>>
gets == <<rpc, rfd, got, want>>
fileVars == <<onDisk, puts, gets>>

Whole(d) == <<d, d>>
Blobs    == {Whole(d) : d \in Payloads}

FileInit ==
  /\ file = [k \in Keys |-> None] /\ tmp = [k \in Keys |-> None]
  /\ data = [i \in Inodes |-> <<>>]
  /\ wpc = [w \in Writers |-> "idle"] /\ wfd = [w \in Writers |-> None]
  /\ wkey = wfd /\ wval = wfd
  /\ rpc = [r \in Readers |-> "idle"] /\ rfd = [r \in Readers |-> None]
  /\ got = [r \in Readers |-> <<>>] /\ want = [r \in Readers |-> <<>>]

\* An inode that no name and no open file refers to.
Free ==
  {i \in Inodes : /\ \A k \in Keys : file[k] # i /\ tmp[k] # i
                  /\ \A w \in Writers : wfd[w] # i
                  /\ \A r \in Readers : rfd[r] # i}

\* Two puts of one key may be under way.
BugBusy(w, k) == FALSE
Busy(w, k) == Serialized /\ \E v \in Writers \ {w} : wpc[v] # "idle" /\ wkey[v] = k

Put(w) ==
  /\ wpc[w] = "idle"
  /\ \E k \in Keys, d \in Payloads :
       /\ ~ Busy(w, k)
       /\ wkey' = [wkey EXCEPT ![w] = k] /\ wval' = [wval EXCEPT ![w] = d]
  /\ wpc' = [wpc EXCEPT ![w] = "open"]
  /\ UNCHANGED <<onDisk, wfd, gets>>

Target(k) == tmp[k]

\* Opening for writing truncates the file, or makes a new one.
OpenTmp(w) ==
  /\ wpc[w] = "open"
  /\ \E i \in IF Target(wkey[w]) = None THEN Free ELSE {Target(wkey[w])} :
       /\ data' = [data EXCEPT ![i] = <<>>]
       /\ tmp' = [tmp EXCEPT ![wkey[w]] = i]
       /\ wfd' = [wfd EXCEPT ![w] = i]
  /\ wpc' = [wpc EXCEPT ![w] = "first"]
  /\ UNCHANGED <<file, wkey, wval, gets>>

\* The n-th chunk of a file, where a gap may be left before it.
WriteAt(s, n, d) ==
  IF n <= Len(s) THEN [s EXCEPT ![n] = d]
  ELSE IF n = Len(s) + 1 THEN Append(s, d) ELSE <<None, d>>

WriteFirst(w) ==
  /\ wpc[w] = "first"
  /\ data' = [data EXCEPT ![wfd[w]] = WriteAt(@, 1, wval[w])]
  /\ wpc' = [wpc EXCEPT ![w] = "second"]
  /\ UNCHANGED <<file, tmp, wkey, wval, wfd, gets>>

WriteSecond(w) ==
  /\ wpc[w] = "second"
  /\ data' = [data EXCEPT ![wfd[w]] = WriteAt(@, 2, wval[w])]
  /\ wpc' = [wpc EXCEPT ![w] = "replace"] /\ wfd' = [wfd EXCEPT ![w] = None]
  /\ UNCHANGED <<file, tmp, wkey, wval, gets>>

Ends(w) ==
  /\ wpc' = [wpc EXCEPT ![w] = "idle"]
  /\ wkey' = [wkey EXCEPT ![w] = None] /\ wval' = [wval EXCEPT ![w] = None]

\* A link: <path>.tmp stays.
BugReplace(w) ==
  /\ wpc[w] = "replace"
  /\ file' = [file EXCEPT ![wkey[w]] = tmp[wkey[w]]]
  /\ Ends(w)
  /\ UNCHANGED <<tmp, data, wfd, gets>>

\* os.replace; without a <path>.tmp it raises.
Replace(w) ==
  /\ wpc[w] = "replace"
  /\ IF tmp[wkey[w]] = None THEN UNCHANGED <<file, tmp>>
     ELSE /\ file' = [file EXCEPT ![wkey[w]] = tmp[wkey[w]]]
          /\ tmp' = [tmp EXCEPT ![wkey[w]] = None]
  /\ Ends(w)
  /\ UNCHANGED <<data, wfd, gets>>

\* get: a missing file is a KeyError.
Open(r) ==
  /\ rpc[r] = "idle"
  /\ \E k \in Keys :
       /\ file[k] # None
       /\ rfd' = [rfd EXCEPT ![r] = file[k]] /\ want' = [want EXCEPT ![r] = data[file[k]]]
  /\ got' = [got EXCEPT ![r] = <<>>] /\ rpc' = [rpc EXCEPT ![r] = "read"]
  /\ UNCHANGED <<onDisk, puts>>

Read(r) ==
  /\ rpc[r] = "read" /\ Len(got[r]) < Len(data[rfd[r]])
  /\ got' = [got EXCEPT ![r] = Append(@, data[rfd[r]][Len(@) + 1])]
  /\ UNCHANGED <<onDisk, puts, rpc, rfd, want>>

Return(r) ==
  /\ rpc[r] = "read" /\ Len(got[r]) >= Len(data[rfd[r]])
  /\ rpc' = [rpc EXCEPT ![r] = "returned"] /\ rfd' = [rfd EXCEPT ![r] = None]
  /\ UNCHANGED <<onDisk, puts, got, want>>

Again(r) ==
  /\ rpc[r] = "returned" /\ rpc' = [rpc EXCEPT ![r] = "idle"]
  /\ got' = [got EXCEPT ![r] = <<>>] /\ want' = [want EXCEPT ![r] = <<>>]
  /\ UNCHANGED <<onDisk, puts, rfd>>

Die ==
  /\ \E w \in Writers : wpc[w] # "idle"
  /\ wpc' = [w \in Writers |-> "idle"] /\ wfd' = [w \in Writers |-> None]
  /\ wkey' = wfd' /\ wval' = wfd'
  /\ rpc' = [r \in Readers |-> "idle"] /\ rfd' = [r \in Readers |-> None]
  /\ got' = [r \in Readers |-> <<>>] /\ want' = [r \in Readers |-> <<>>]
  /\ UNCHANGED onDisk

PutStep(w) == Put(w) \/ OpenTmp(w) \/ WriteFirst(w) \/ WriteSecond(w) \/ Replace(w)
GetStep(r) == Open(r) \/ Read(r) \/ Return(r) \/ Again(r)

FileNext == (\E w \in Writers : PutStep(w)) \/ (\E r \in Readers : GetStep(r)) \/ Die

FileSpec == FileInit /\ [][FileNext]_fileVars

-----------------------------------------------------------------------------
Chunks == UNION {[1..n -> Payloads \cup {None}] : n \in 0..2}

FileTypeOK ==
  /\ file \in [Keys -> Inodes \cup {None}] /\ tmp \in [Keys -> Inodes \cup {None}]
  /\ data \in [Inodes -> Chunks]
  /\ wpc \in [Writers -> {"idle", "open", "first", "second", "replace"}]
  /\ wkey \in [Writers -> Keys \cup {None}] /\ wval \in [Writers -> Payloads \cup {None}]
  /\ \A w \in Writers : wpc[w] # "idle" => wkey[w] \in Keys /\ wval[w] \in Payloads
  /\ wfd \in [Writers -> Inodes \cup {None}]
  /\ \A w \in Writers : wpc[w] \in {"first", "second"} => wfd[w] \in Inodes
  /\ rpc \in [Readers -> {"idle", "read", "returned"}]
  /\ rfd \in [Readers -> Inodes \cup {None}]
  /\ \A r \in Readers : rpc[r] = "read" => rfd[r] \in Inodes
  /\ got \in [Readers -> Chunks] /\ want \in [Readers -> Chunks]

\* "Writes are atomic ... A crash mid-write can't leave a half-written 5 MB
\* waveform" (filesystem_object_store.py:11-12): what a key names is at every
\* moment a blob that was put, whole.
NoHalfBlob == \A k \in Keys : file[k] # None => data[file[k]] \in Blobs

\* A get returns the blob its key named when the file was opened, whole,
\* whatever is put under the key or crashes meanwhile.
GetsWhole == \A r \in Readers : rpc[r] = "returned" => got[r] = want[r] /\ want[r] \in Blobs

\* Types, and both.
FilesSafe == FileTypeOK /\ NoHalfBlob /\ GetsWhole

\* The store implements BlobStore: the puts take effect in one step.
blob == [k \in Keys |-> IF file[k] = None THEN None ELSE data[file[k]]]

Objects == INSTANCE BlobStore WITH NoBlob <- None
PutsAtomic == Objects!BlobSpec
=============================================================================
