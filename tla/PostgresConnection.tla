------------------------- MODULE PostgresConnection -------------------------
(***************************************************************************)
(* PostgresDataStore's one connection (storage/postgres_data_store.py),    *)
(* behind a lock and in autocommit mode.  The server may drop it at any    *)
(* moment, before or after it has executed what was sent; a statement that *)
(* meets a drop is sent again once, over a new connection.  A call is an   *)
(* operation of the store: one statement, a batch (_many), or several      *)
(* statements that each take the lock (delete_run).                        *)
(***************************************************************************)
EXTENDS Naturals

CONSTANTS
  Calls, Length,
  Bulk,       \* the calls that are an executemany
  Inserts,    \* the calls whose rows may not be there already; the others are
              \* deletes, updates and upserts, which may be executed twice
  Free,       \* the lock is free
  MaxDrops, MaxCrashes

ASSUME CallsAssumption ==
  /\ Length \in [Calls -> Nat \ {0}] /\ Bulk \subseteq Calls /\ Inserts \subseteq Calls
  /\ Free \notin Calls /\ MaxDrops \in Nat /\ MaxCrashes \in Nat

VARIABLES
  lock,      \* who holds the lock
  conn,      \* whether the connection is up
  stored,    \* how many statements of each call the server has executed
  acked,     \* how many of them it has answered
  pc,        \* of a running call: "wait" for the lock, "try", "reconnect"
  errors,    \* how many attempts of the statement at hand have failed
  since,     \* the drops that were over when the statement got the lock
  status,
  drops, crashes

vars == <<lock, conn, stored, acked, pc, errors, since, status, drops, crashes>>

Init ==
  /\ lock = Free /\ conn = TRUE
  /\ stored = [c \in Calls |-> 0] /\ acked = stored /\ errors = stored /\ since = stored
  /\ pc = [c \in Calls |-> "wait"] /\ status = [c \in Calls |-> "idle"]
  /\ drops = 0 /\ crashes = 0

Begin(c) ==
  /\ status[c] = "idle"
  /\ status' = [status EXCEPT ![c] = "running"]
  /\ UNCHANGED <<since, lock, conn, stored, acked, pc, errors, drops, crashes>>

Acquire(c) ==
  /\ status[c] = "running" /\ pc[c] = "wait" /\ lock = Free
  /\ lock' = c /\ pc' = [pc EXCEPT ![c] = "try"] /\ errors' = [errors EXCEPT ![c] = 0]
  /\ since' = [since EXCEPT ![c] = IF conn THEN drops ELSE drops - 1]
  /\ UNCHANGED <<conn, stored, acked, status, drops, crashes>>

Trying(c) == status[c] = "running" /\ pc[c] = "try"

\* What the attempt sends: a whole batch, or the next statement.
target(c) == IF c \in Bulk THEN Length[c] ELSE acked[c] + 1
refused(c) == c \in Inserts /\ stored[c] > acked[c]

larger(x, y) == IF x < y THEN y ELSE x

\* The lock is acquired and never released.
BugRelease(c) == UNCHANGED lock /\ pc' = [pc EXCEPT ![c] = "wait"]
Release(c) == lock' = Free /\ pc' = [pc EXCEPT ![c] = "wait"]

Answered(c) ==
  /\ Trying(c) /\ conn /\ ~ refused(c)
  /\ stored' = [stored EXCEPT ![c] = larger(@, target(c))]
  /\ acked' = [acked EXCEPT ![c] = target(c)]
  /\ status' = IF acked'[c] = Length[c] THEN [status EXCEPT ![c] = "ok"] ELSE status
  /\ Release(c)
  /\ UNCHANGED <<since, conn, errors, drops, crashes>>

\* UniqueViolation is no OperationalError: it is not caught.
Refused(c) ==
  /\ Trying(c) /\ conn /\ refused(c)
  /\ status' = [status EXCEPT ![c] = "raised"] /\ Release(c)
  /\ UNCHANGED <<since, conn, stored, acked, errors, drops, crashes>>

Max == 2     \* for attempt in (1, 2)

\* The loop runs out and the call returns.
BugFail(c) ==
  /\ errors' = [errors EXCEPT ![c] = @ + 1]
  /\ IF errors[c] + 1 < Max
       THEN pc' = [pc EXCEPT ![c] = "reconnect"] /\ UNCHANGED <<lock, status>>
       ELSE status' = [status EXCEPT ![c] = "ok"] /\ Release(c)

Fail(c) ==
  /\ errors' = [errors EXCEPT ![c] = @ + 1]
  /\ IF errors[c] + 1 < Max
       THEN pc' = [pc EXCEPT ![c] = "reconnect"] /\ UNCHANGED <<lock, status>>
       ELSE status' = [status EXCEPT ![c] = "raised"] /\ Release(c)

\* The connection breaks while the statement is out, or was broken before.
Drop(c) ==
  /\ Trying(c) /\ conn /\ drops < MaxDrops
  /\ conn' = FALSE /\ drops' = drops + 1
  /\ \E n \in IF refused(c) THEN {stored[c]} ELSE stored[c]..larger(stored[c], target(c)) :
       stored' = [stored EXCEPT ![c] = n]
  /\ Fail(c)
  /\ UNCHANGED <<since, acked, crashes>>

Closed(c) ==
  /\ Trying(c) /\ ~ conn
  /\ Fail(c)
  /\ UNCHANGED <<since, conn, stored, acked, drops, crashes>>

\* The broken connection is kept.
BugUp == conn
Up == TRUE

Reconnect(c) ==
  /\ status[c] = "running" /\ pc[c] = "reconnect"
  /\ conn' = Up /\ pc' = [pc EXCEPT ![c] = "try"]
  /\ UNCHANGED <<since, lock, stored, acked, errors, status, drops, crashes>>

\* _connect raises out of the loop.
ConnectFails(c) ==
  /\ status[c] = "running" /\ pc[c] = "reconnect" /\ drops < MaxDrops
  /\ drops' = drops + 1 /\ errors' = [errors EXCEPT ![c] = @ + 1]
  /\ status' = [status EXCEPT ![c] = "raised"] /\ Release(c)
  /\ UNCHANGED <<since, conn, stored, acked, crashes>>

\* The server suspends an idle connection.
Suspend ==
  /\ lock = Free /\ conn /\ drops < MaxDrops
  /\ conn' = FALSE /\ drops' = drops + 1
  /\ UNCHANGED <<since, lock, stored, acked, pc, errors, status, crashes>>

Crash ==
  /\ crashes < MaxCrashes /\ crashes' = crashes + 1
  /\ lock' = Free /\ conn' = TRUE /\ pc' = [c \in Calls |-> "wait"]
  /\ status' = [c \in Calls |-> IF status[c] \in {"running", "raised"} THEN "lost" ELSE status[c]]
  /\ UNCHANGED <<since, stored, acked, errors, drops>>

Work(c) == Answered(c) \/ Refused(c) \/ Closed(c) \/ Reconnect(c)
Step(c) == Begin(c) \/ Acquire(c) \/ Work(c) \/ Drop(c) \/ ConnectFails(c)

Next == Suspend \/ Crash \/ \E c \in Calls : Step(c)

Spec == Init /\ [][Next]_vars

-----------------------------------------------------------------------------
PostgresTypeOK ==
  /\ lock \in Calls \cup {Free} /\ conn \in BOOLEAN
  /\ \A c \in Calls : acked[c] <= stored[c] /\ stored[c] <= Length[c]
  /\ stored \in [Calls -> Nat] /\ acked \in [Calls -> Nat] /\ errors \in [Calls -> 0..Max]
  /\ since \in [Calls -> 0..MaxDrops]
  /\ pc \in [Calls -> {"wait", "try", "reconnect"}]
  /\ status \in [Calls -> {"idle", "running", "ok", "raised", "lost"}]
  /\ drops \in 0..MaxDrops /\ crashes \in 0..MaxCrashes

\* One statement is out at a time, and whoever has ended has left the lock,
\* whichever way it ended.
LockIsHeld ==
  \A c \in Calls : (lock = c) <=> (status[c] = "running" /\ pc[c] \in {"try", "reconnect"})

\* "reconnecting once if the connection was dropped": a call that may be executed
\* twice fails only if the connection broke twice under one of its statements, or
\* once and could not be made again.
OneDropIsHidden == \A c \in Calls \ Inserts : status[c] = "raised" => drops - since[c] >= 2

\* Whatever is dropped, and after whatever was executed, the store keeps the
\* promise of StatementStore.
Store == INSTANCE StatementStore
KeepsPromise == Store!StoreSpec

=============================================================================
