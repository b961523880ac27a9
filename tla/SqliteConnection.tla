-------------------------- MODULE SqliteConnection --------------------------
(***************************************************************************)
(* SQLiteDataStore's one connection (storage/sqlite_data_store.py), shared *)
(* by all threads without a lock.  The driver begins a transaction before  *)
(* the first INSERT, UPDATE or DELETE; the commit() of any call commits    *)
(* what every other call has executed; nothing ever rolls back.  A call is *)
(* an operation of the store: one statement, the rows of an executemany,   *)
(* or the seven deletes of delete_run, then commit().                      *)
(***************************************************************************)
EXTENDS Naturals

CONSTANTS
  Calls, Length,
  Bulk,          \* the calls that are an executemany
  MaxCrashes

ASSUME CallsAssumption ==
  Length \in [Calls -> Nat \ {0}] /\ Bulk \subseteq Calls /\ MaxCrashes \in Nat

VARIABLES
  done,      \* how many statements of each call the connection has executed
  disk,      \* how many of them are committed
  open,      \* whether a transaction is open
  status,
  crashes,
  shared     \* the calls of which another call's commit committed a part

vars == <<done, disk, open, status, crashes, shared>>

Init ==
  /\ done = [c \in Calls |-> 0] /\ disk = done
  /\ open = FALSE
  /\ status = [c \in Calls |-> "idle"]
  /\ crashes = 0 /\ shared = {}

Begin(c) ==
  /\ status[c] = "idle"
  /\ status' = [status EXCEPT ![c] = "running"]
  /\ UNCHANGED <<done, disk, open, crashes, shared>>

Executing(c) == status[c] = "running" /\ done[c] < Length[c]

\* Each row of an executemany is a transaction of its own.
BugBegins(c) == c \notin Bulk

\* The driver begins a transaction before a statement, but not between the rows
\* of an executemany.
Begins(c) == ~ (c \in Bulk /\ done[c] > 0)

Execute(c) ==
  /\ Executing(c)
  /\ done' = [done EXCEPT ![c] = @ + 1]
  /\ open' = (open \/ Begins(c))
  /\ disk' = IF open' THEN disk ELSE [disk EXCEPT ![c] = @ + 1]
  /\ UNCHANGED <<status, crashes, shared>>

\* A key refuses the statement, or the file is locked; the transaction stays open.
Refuse(c) ==
  /\ Executing(c)
  /\ status' = [status EXCEPT ![c] = "raised"]
  /\ open' = (open \/ Begins(c))
  /\ UNCHANGED <<done, disk, crashes, shared>>

Committed == done

Commit(c) ==
  /\ status[c] = "running" /\ done[c] = Length[c]
  /\ disk' = Committed /\ open' = FALSE
  /\ status' = [status EXCEPT ![c] = "ok"]
  /\ shared' = shared \cup {k \in Calls \ {c} : disk[k] < done[k]}
  /\ UNCHANGED <<done, crashes>>

CommitFails(c) ==
  /\ status[c] = "running" /\ done[c] = Length[c]
  /\ status' = [status EXCEPT ![c] = "raised"]
  /\ UNCHANGED <<done, disk, open, crashes, shared>>

BugRecovered == done
Recovered == disk     \* the open transaction is rolled back

Crash ==
  /\ crashes < MaxCrashes /\ crashes' = crashes + 1
  /\ done' = Recovered /\ disk' = Recovered /\ open' = FALSE
  /\ status' = [c \in Calls |-> IF status[c] \in {"running", "raised"} THEN "lost" ELSE status[c]]
  /\ UNCHANGED shared

Step(c) == Begin(c) \/ Execute(c) \/ Refuse(c) \/ Commit(c) \/ CommitFails(c)

Next == Crash \/ \E c \in Calls : Step(c)

Spec == Init /\ [][Next]_vars

-----------------------------------------------------------------------------
SqliteTypeOK ==
  /\ done \in [Calls -> Nat] /\ disk \in [Calls -> Nat] /\ open \in BOOLEAN
  /\ \A c \in Calls : disk[c] <= done[c] /\ done[c] <= Length[c]
  /\ status \in [Calls -> {"idle", "running", "ok", "raised", "lost"}]
  /\ crashes \in 0..MaxCrashes /\ shared \subseteq Calls

\* "crash-safe per operation" (stores.py:43), as far as it holds: whatever other
\* threads execute, refuse and commit on the connection, an operation is on disk
\* wholly or not at all, unless another's commit fell into it.
AtomicUnlessShared == \A c \in Calls \ shared : disk[c] \in {0, Length[c]}

\* An operation that returned is on disk, and every crash leaves it there; with
\* no transaction open there is nothing a crash could take.
ReturnedIsDurable ==
  /\ \A c \in Calls : status[c] = "ok" => disk[c] = Length[c]
  /\ ~ open => disk = done

\* Types, and both.
ConnectionSafe == SqliteTypeOK /\ AtomicUnlessShared /\ ReturnedIsDurable

\* The connection keeps the promise of StatementStore.
Store == INSTANCE StatementStore WITH stored <- disk
KeepsPromise == Store!StoreSpec

=============================================================================
