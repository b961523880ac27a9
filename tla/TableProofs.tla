---------------------------- MODULE TableProofs ----------------------------
(***************************************************************************)
(* Proofs about the deployed store and the registry of machines and runs.  *)
(*                                                                         *)
(* PostgresConnection, for any calls and any number of drops and crashes.  *)
(* Blame is the reason why one drop is hidden: the holder of the lock has  *)
(* met no drop since it took the lock, or exactly one, and after that one  *)
(* it goes on only over a connection that is up.                           *)
(*                                                                         *)
(* Registry, for any requests, users, machines and runs.  RegistryInv says *)
(* which ids are in use: a machine or a run is known by the request that   *)
(* made it, so that what was deleted or ended does not come back under the *)
(* same name.                                                              *)
(***************************************************************************)
EXTENDS PostgresConnection, Registry, WellFoundedInduction, TLAPS

-----------------------------------------------------------------------------
\* The connection.
Holds(c) == status[c] = "running" /\ pc[c] \in {"try", "reconnect"}

Unfinished == \A c \in Calls : status[c] \in {"idle", "running"} => acked[c] < Length[c]
Resting    == \A c \in Calls : status[c] # "running" => pc[c] = "wait"
Attempts   == \A c \in Calls : Holds(c) => errors[c] < Max /\ (pc[c] = "reconnect" => errors[c] = 1)
Broken     == ~ conn => drops > 0

PostgresInv == PostgresTypeOK /\ LockIsHeld /\ Unfinished /\ Resting /\ Attempts /\ Broken

LEMMA LargerFacts ==
  ASSUME NEW x \in Nat, NEW y \in Nat
  PROVE  larger(x, y) \in Nat /\ x <= larger(x, y) /\ y <= larger(x, y) /\ larger(x, y) \in {x, y}
BY DEF larger

LEMMA LargerRange ==
  ASSUME NEW x \in Nat, NEW y \in Nat
  PROVE  x \in x..larger(x, y) /\ larger(x, y) \in x..larger(x, y)
BY DEF larger

LEMMA TargetFacts ==
  ASSUME PostgresInv, NEW c \in Calls, Trying(c)
  PROVE  target(c) \in Nat /\ acked[c] < target(c) /\ target(c) <= Length[c]
BY CallsAssumption DEF PostgresInv, PostgresTypeOK, Unfinished, Trying, target

\* How far an attempt may get: to where it was, or further, but not past the target.
LEMMA Progress ==
  ASSUME PostgresInv, NEW c \in Calls, Trying(c),
         NEW n \in stored[c]..larger(stored[c], target(c))
  PROVE  n \in Nat /\ stored[c] <= n /\ acked[c] <= n /\ n <= Length[c]
<1>1. stored[c] \in Nat /\ acked[c] \in Nat /\ Length[c] \in Nat
  BY CallsAssumption DEF PostgresInv, PostgresTypeOK
<1>2. acked[c] <= stored[c] /\ stored[c] <= Length[c]
  BY DEF PostgresInv, PostgresTypeOK
<1>3. larger(stored[c], target(c)) \in Nat /\ larger(stored[c], target(c)) <= Length[c]
  BY <1>1, <1>2, TargetFacts, LargerFacts
<1> QED
  BY <1>1, <1>2, <1>3

LEMMA InitInv == Init => PostgresInv
<1> SUFFICES ASSUME Init PROVE PostgresInv
  OBVIOUS
<1>1. \A c \in Calls : stored[c] = 0 /\ acked[c] = 0 /\ errors[c] = 0 /\ Length[c] \in Nat \ {0}
  BY CallsAssumption DEF Init
<1>2. PostgresTypeOK
  <2>1. /\ stored \in [Calls -> Nat] /\ acked \in [Calls -> Nat] /\ errors \in [Calls -> 0..Max]
        /\ since \in [Calls -> 0..MaxDrops]
    BY CallsAssumption DEF Init, Max
  <2>2. ASSUME NEW c \in Calls PROVE acked[c] <= stored[c] /\ stored[c] <= Length[c]
    <3>1. 0 <= 0 /\ 0 <= Length[c]
      BY <1>1
    <3> QED
      BY <1>1, <3>1
  <2>3. drops \in 0..MaxDrops /\ crashes \in 0..MaxCrashes
    BY CallsAssumption DEF Init
  <2>4. /\ lock \in Calls \cup {Free} /\ conn \in BOOLEAN
        /\ pc \in [Calls -> {"wait", "try", "reconnect"}]
        /\ status \in [Calls -> {"idle", "running", "ok", "raised", "lost"}]
    BY DEF Init
  <2> QED
    BY <2>1, <2>2, <2>3, <2>4 DEF PostgresTypeOK
<1>3. LockIsHeld /\ Resting /\ Attempts /\ Broken
  BY CallsAssumption DEF Init, LockIsHeld, Resting, Attempts, Holds, Broken
<1>4. Unfinished
  BY <1>1 DEF Unfinished
<1> QED
  BY <1>2, <1>3, <1>4 DEF PostgresInv

LEMMA BeginInv == ASSUME PostgresInv, NEW c \in Calls, Begin(c) PROVE PostgresInv'
<1> USE DEF Begin, PostgresInv
<1>1. PostgresTypeOK'
  BY DEF PostgresTypeOK
<1>2. LockIsHeld'
  BY DEF LockIsHeld, Resting, PostgresTypeOK
<1>3. Unfinished' /\ Resting' /\ Attempts' /\ Broken'
  BY DEF Unfinished, Resting, Attempts, Holds, Broken, PostgresTypeOK
<1> QED
  BY <1>1, <1>2, <1>3

LEMMA AcquireInv == ASSUME PostgresInv, NEW c \in Calls, Acquire(c) PROVE PostgresInv'
<1> USE CallsAssumption DEF Acquire, PostgresInv
<1>1. PostgresTypeOK'
  <2>1. (IF conn THEN drops ELSE drops - 1) \in 0..MaxDrops
    BY DEF PostgresTypeOK, Broken
  <2>2. since' \in [Calls -> 0..MaxDrops]
    BY <2>1 DEF PostgresTypeOK
  <2>3. errors' \in [Calls -> 0..Max]
    BY DEF PostgresTypeOK, Max
  <2>4. pc' \in [Calls -> {"wait", "try", "reconnect"}] /\ lock' \in Calls \cup {Free}
    BY DEF PostgresTypeOK
  <2> QED
    BY <2>2, <2>3, <2>4 DEF PostgresTypeOK
<1>2. LockIsHeld'
  BY DEF LockIsHeld, PostgresTypeOK
<1>3. Unfinished' /\ Resting' /\ Broken'
  BY DEF Unfinished, Resting, Broken, PostgresTypeOK
<1>4. Attempts'
  BY DEF Attempts, Holds, Max, PostgresTypeOK
<1> QED
  BY <1>1, <1>2, <1>3, <1>4

\* Whoever gives the lock back leaves the others as they were.
LEMMA ReleaseInv ==
  ASSUME PostgresInv, NEW c \in Calls, Holds(c), Release(c),
         NEW s \in {"running", "ok", "raised"}, status' = [status EXCEPT ![c] = s]
  PROVE  LockIsHeld' /\ Resting'
<1> USE CallsAssumption DEF PostgresInv, Release, Holds
<1>1. LockIsHeld'
  BY DEF LockIsHeld, PostgresTypeOK
<1>2. Resting'
  BY DEF Resting, PostgresTypeOK
<1> QED
  BY <1>1, <1>2

LEMMA AnsweredInv == ASSUME PostgresInv, NEW c \in Calls, Answered(c) PROVE PostgresInv'
<1> USE CallsAssumption DEF Answered, Trying, PostgresInv
<1>1. PICK s \in {"running", "ok"} :
        /\ status' = [status EXCEPT ![c] = s]
        /\ s = "running" => acked'[c] # Length[c]
  BY DEF PostgresTypeOK
<1>2. Release(c) /\ Holds(c)
  BY DEF Holds
<1>3. LockIsHeld' /\ Resting'
  BY <1>1, <1>2, ReleaseInv
<1>4. /\ acked' = [acked EXCEPT ![c] = target(c)] /\ acked'[c] = target(c)
      /\ target(c) \in Nat /\ target(c) <= Length[c]
  BY TargetFacts DEF PostgresTypeOK
<1>5. larger(stored[c], target(c)) \in stored[c]..larger(stored[c], target(c))
  BY LargerFacts, <1>4 DEF PostgresTypeOK
<1>6. /\ larger(stored[c], target(c)) \in Nat /\ target(c) <= larger(stored[c], target(c))
      /\ larger(stored[c], target(c)) <= Length[c]
  BY <1>4, <1>5, Progress, LargerFacts DEF PostgresTypeOK
<1>7. PostgresTypeOK'
  <2>1. stored' \in [Calls -> Nat] /\ acked' \in [Calls -> Nat]
    BY <1>4, <1>6 DEF PostgresTypeOK
  <2>2. ASSUME NEW k \in Calls PROVE acked'[k] <= stored'[k] /\ stored'[k] <= Length[k]
    BY <1>4, <1>6 DEF PostgresTypeOK
  <2>3. /\ status' \in [Calls -> {"idle", "running", "ok", "raised", "lost"}]
        /\ pc' \in [Calls -> {"wait", "try", "reconnect"}] /\ lock' = Free
    BY <1>1, <1>2 DEF PostgresTypeOK, Release
  <2> QED
    BY <2>1, <2>2, <2>3 DEF PostgresTypeOK
<1>8. Unfinished'
  BY <1>1, <1>4 DEF Unfinished, PostgresTypeOK
<1>9. Attempts' /\ Broken'
  BY <1>1, <1>2 DEF Release, Attempts, Holds, Broken, PostgresTypeOK
<1> QED
  BY <1>3, <1>7, <1>8, <1>9

LEMMA RefusedInv == ASSUME PostgresInv, NEW c \in Calls, Refused(c) PROVE PostgresInv'
<1> USE CallsAssumption DEF Refused, Trying, PostgresInv
<1>1. LockIsHeld' /\ Resting'
  BY ReleaseInv DEF Holds
<1>2. PostgresTypeOK'
  BY DEF Release, PostgresTypeOK
<1>3. Unfinished' /\ Attempts' /\ Broken'
  BY DEF Release, Unfinished, Attempts, Holds, Broken, PostgresTypeOK
<1> QED
  BY <1>1, <1>2, <1>3

\* A failed attempt: what it wrote is within the statement's bounds.
LEMMA FailInv ==
  ASSUME PostgresInv, NEW c \in Calls, Trying(c), Fail(c),
         NEW n \in stored[c]..larger(stored[c], target(c)),
         stored' = [stored EXCEPT ![c] = n], conn' = FALSE,
         drops' \in 0..MaxDrops, drops' > 0,
         UNCHANGED <<since, acked, crashes>>
  PROVE  PostgresInv'
<1> USE CallsAssumption DEF PostgresInv, Trying
<1>1. n \in Nat /\ stored[c] <= n /\ acked[c] <= n /\ n <= Length[c]
  BY Progress
<1>2. errors[c] \in Nat /\ errors[c] < 2 /\ errors[c] + 1 \in 0..Max
  BY DEF Attempts, Holds, Max, PostgresTypeOK
<1>3. /\ stored' \in [Calls -> Nat] /\ errors' \in [Calls -> 0..Max]
      /\ \A k \in Calls : acked'[k] <= stored'[k] /\ stored'[k] <= Length[k]
  BY <1>1, <1>2 DEF Fail, PostgresTypeOK
<1>4. errors' = [errors EXCEPT ![c] = @ + 1]
  BY DEF Fail
<1>5. Broken'
  BY DEF Broken
<1>6. CASE errors[c] + 1 < Max
  <2>1. pc' = [pc EXCEPT ![c] = "reconnect"] /\ lock' = lock /\ status' = status
    BY <1>6 DEF Fail
  <2>2. PostgresTypeOK'
    BY <1>3, <2>1 DEF PostgresTypeOK
  <2>3. LockIsHeld'
    BY <2>1 DEF LockIsHeld, PostgresTypeOK
  <2>4. Unfinished' /\ Resting'
    BY <2>1 DEF Unfinished, Resting, PostgresTypeOK
  <2>5. errors[c] + 1 = 1
    BY <1>2, <1>6 DEF Max
  <2>6. Attempts'
    BY <1>4, <2>1, <2>5 DEF Attempts, Holds, Max, PostgresTypeOK
  <2> QED
    BY <1>5, <2>2, <2>3, <2>4, <2>6
<1>7. CASE ~ (errors[c] + 1 < Max)
  <2>1. status' = [status EXCEPT ![c] = "raised"] /\ Release(c)
    BY <1>7 DEF Fail
  <2>2. LockIsHeld' /\ Resting'
    BY <2>1, ReleaseInv DEF Holds
  <2>3. PostgresTypeOK'
    BY <1>3, <2>1 DEF Release, PostgresTypeOK
  <2>4. Unfinished'
    BY <2>1 DEF Unfinished, PostgresTypeOK
  <2>5. Attempts'
    BY <1>4, <2>1 DEF Release, Attempts, Holds, PostgresTypeOK
  <2> QED
    BY <1>5, <2>2, <2>3, <2>4, <2>5
<1> QED
  BY <1>6, <1>7

LEMMA DropInv == ASSUME PostgresInv, NEW c \in Calls, Drop(c) PROVE PostgresInv'
<1>1. Trying(c) /\ Fail(c) /\ conn' = FALSE /\ UNCHANGED <<since, acked, crashes>>
  BY DEF Drop
<1>2. drops' \in 0..MaxDrops /\ drops' > 0
  BY CallsAssumption DEF Drop, PostgresInv, PostgresTypeOK
<1>3. PICK n \in IF refused(c) THEN {stored[c]} ELSE stored[c]..larger(stored[c], target(c)) :
        stored' = [stored EXCEPT ![c] = n]
  BY DEF Drop
<1>4. stored[c] \in Nat /\ target(c) \in Nat
  BY <1>1, TargetFacts DEF PostgresInv, PostgresTypeOK
<1>5. n \in stored[c]..larger(stored[c], target(c))
  BY <1>3, <1>4, LargerFacts
<1> QED
  BY <1>1, <1>2, <1>3, <1>5, FailInv

LEMMA ClosedInv == ASSUME PostgresInv, NEW c \in Calls, Closed(c) PROVE PostgresInv'
<1>1. Trying(c) /\ Fail(c) /\ UNCHANGED <<since, acked, crashes>>
  BY DEF Closed
<1>2. conn' = FALSE /\ drops' \in 0..MaxDrops /\ drops' > 0
  BY DEF Closed, PostgresInv, PostgresTypeOK, Broken
<1>3. stored[c] \in Nat /\ target(c) \in Nat
  BY <1>1, TargetFacts DEF PostgresInv, PostgresTypeOK
<1>4. stored[c] \in stored[c]..larger(stored[c], target(c))
  BY <1>3, LargerFacts
<1>5. stored' = [stored EXCEPT ![c] = stored[c]]
  BY DEF Closed, PostgresInv, PostgresTypeOK
<1> QED
  BY <1>1, <1>2, <1>4, <1>5, FailInv

LEMMA ReconnectInv == ASSUME PostgresInv, NEW c \in Calls, Reconnect(c) PROVE PostgresInv'
<1> USE DEF Reconnect, Up, PostgresInv
<1>1. PostgresTypeOK'
  BY DEF PostgresTypeOK
<1>2. LockIsHeld'
  BY DEF LockIsHeld, PostgresTypeOK
<1>3. Unfinished' /\ Resting' /\ Attempts' /\ Broken'
  BY DEF Unfinished, Resting, Attempts, Holds, Broken, PostgresTypeOK
<1> QED
  BY <1>1, <1>2, <1>3

LEMMA ConnectFailsInv ==
  ASSUME PostgresInv, NEW c \in Calls, ConnectFails(c) PROVE PostgresInv'
<1> USE CallsAssumption DEF ConnectFails, PostgresInv
<1>1. LockIsHeld' /\ Resting'
  BY ReleaseInv DEF Holds
<1>2. PostgresTypeOK'
  <2>1. errors[c] + 1 \in 0..Max
    BY DEF Attempts, Holds, Max, PostgresTypeOK
  <2>2. errors' \in [Calls -> 0..Max]
    BY <2>1 DEF PostgresTypeOK
  <2>3. drops' \in 0..MaxDrops
    BY DEF PostgresTypeOK
  <2> QED
    BY <2>2, <2>3 DEF Release, PostgresTypeOK
<1>3. Unfinished' /\ Attempts' /\ Broken'
  BY DEF Release, Unfinished, Attempts, Holds, Broken, PostgresTypeOK
<1> QED
  BY <1>1, <1>2, <1>3

LEMMA SuspendInv == ASSUME PostgresInv, Suspend PROVE PostgresInv'
<1> USE CallsAssumption DEF Suspend, PostgresInv
<1>1. drops' \in 0..MaxDrops /\ drops' > 0
  BY DEF PostgresTypeOK
<1>2. PostgresTypeOK' /\ Broken'
  BY <1>1 DEF PostgresTypeOK, Broken
<1>3. LockIsHeld' /\ Unfinished' /\ Resting' /\ Attempts'
  BY DEF LockIsHeld, Unfinished, Resting, Attempts, Holds
<1> QED
  BY <1>2, <1>3

LEMMA CrashInv == ASSUME PostgresInv, Crash PROVE PostgresInv'
<1> USE CallsAssumption DEF Crash, PostgresInv
<1>1. PostgresTypeOK'
  <2>1. status' \in [Calls -> {"idle", "running", "ok", "raised", "lost"}]
    BY DEF PostgresTypeOK
  <2>2. crashes' \in 0..MaxCrashes
    BY DEF PostgresTypeOK
  <2> QED
    BY <2>1, <2>2 DEF PostgresTypeOK
<1>2. LockIsHeld' /\ Unfinished' /\ Resting' /\ Attempts' /\ Broken'
  BY DEF LockIsHeld, Unfinished, Resting, Attempts, Holds, Broken, PostgresTypeOK
<1> QED
  BY <1>1, <1>2

LEMMA NextInv == ASSUME PostgresInv, [Next]_vars PROVE PostgresInv'
<1>1. CASE Suspend
  BY <1>1, SuspendInv
<1>2. CASE Crash
  BY <1>2, CrashInv
<1>3. ASSUME NEW c \in Calls, Step(c) PROVE PostgresInv'
  BY <1>3, BeginInv, AcquireInv, AnsweredInv, RefusedInv, DropInv, ClosedInv, ReconnectInv,
     ConnectFailsInv DEF Step, Work
<1>4. CASE UNCHANGED vars
  BY <1>4 DEF vars, PostgresInv, PostgresTypeOK, LockIsHeld, Unfinished, Resting, Attempts,
              Holds, Broken
<1> QED
  BY <1>1, <1>2, <1>3, <1>4 DEF Next

THEOREM InvHolds == Spec => []PostgresInv
BY InitInv, NextInv, PTL DEF Spec

\* Every variable keeps its type; what was answered was executed, and no more than
\* the call has.
THEOREM PostgresTypeCorrect == Spec => []PostgresTypeOK
<1>1. PostgresInv => PostgresTypeOK
  BY DEF PostgresInv
<1> QED
  BY <1>1, InvHolds, PTL

\* PostgresDataStore's lock is held by the one call that has a statement out.
THEOREM LockHeldByOne == Spec => []LockIsHeld
<1>1. PostgresInv => LockIsHeld
  BY DEF PostgresInv
<1> QED
  BY <1>1, InvHolds, PTL

-----------------------------------------------------------------------------
\* What the holder of the lock has met since it took it.
Blame ==
  \A c \in Calls :
    Holds(c) =>
      /\ drops = since[c] + (IF pc[c] = "try" /\ errors[c] = 0 /\ conn THEN 0 ELSE 1)
      /\ pc[c] = "try" /\ errors[c] # 0 => conn

Hidden == Blame /\ OneDropIsHidden

LEMMA InitHidden == Init => Hidden
BY DEF Init, Hidden, Blame, Holds, OneDropIsHidden

\* Only the holder of the lock can drop the connection while it is held.
LEMMA OthersWait ==
  ASSUME PostgresInv, NEW c \in Calls, NEW k \in Calls, Holds(c), Holds(k) PROVE k = c
BY DEF PostgresInv, LockIsHeld, Holds

LEMMA FailHidden ==
  ASSUME PostgresInv, Hidden, NEW c \in Calls, Trying(c), Fail(c), conn' = FALSE,
         UNCHANGED since,
         \/ conn /\ drops' = drops + 1
         \/ ~ conn /\ drops' = drops
  PROVE  Hidden'
<1> USE DEF Hidden, PostgresInv
<1>1. /\ drops \in Nat /\ since[c] \in Nat /\ errors[c] \in Nat /\ errors[c] < 2 /\ Holds(c)
  BY CallsAssumption DEF PostgresTypeOK, Attempts, Trying, Holds, Max
<1>2. \A k \in Calls : since[k] \in Nat
  BY CallsAssumption DEF PostgresTypeOK
<1>3. /\ errors[c] = 0 => drops' = since[c] + 1
      /\ errors[c] # 0 => drops' = since[c] + 2
  BY <1>1 DEF Blame, Trying
<1>4. \A k \in Calls : k # c => ~ Holds(k)
  BY <1>1, OthersWait
<1>5. CASE errors[c] + 1 < Max
  <2>1. pc' = [pc EXCEPT ![c] = "reconnect"] /\ status' = status /\ errors[c] = 0
    BY <1>1, <1>5 DEF Fail, Max
  <2>2. Blame'
    BY <1>3, <1>4, <2>1 DEF Blame, Holds, PostgresTypeOK
  <2>3. OneDropIsHidden'
    BY <1>1, <1>2, <2>1 DEF OneDropIsHidden
  <2> QED
    BY <2>2, <2>3
<1>6. CASE ~ (errors[c] + 1 < Max)
  <2>1. /\ status' = [status EXCEPT ![c] = "raised"] /\ pc' = [pc EXCEPT ![c] = "wait"]
        /\ errors[c] # 0
    BY <1>1, <1>6 DEF Fail, Release, Max
  <2>2. Blame'
    BY <1>4, <2>1 DEF Blame, Holds, PostgresTypeOK
  <2>3. ASSUME NEW k \in Calls \ Inserts, status'[k] = "raised" PROVE drops' - since'[k] >= 2
    <3>1. CASE k = c
      BY <1>1, <1>3, <2>1, <3>1
    <3>2. CASE k # c
      <4>1. drops - since[k] >= 2
        BY <2>1, <2>3, <3>2 DEF OneDropIsHidden, PostgresTypeOK
      <4> QED
        BY <1>1, <1>2, <4>1
    <3> QED
      BY <3>1, <3>2
  <2> QED
    BY <2>3, <2>2 DEF OneDropIsHidden
<1> QED
  BY <1>5, <1>6

LEMMA StepHidden == ASSUME PostgresInv, Hidden, NEW c \in Calls, Step(c) PROVE Hidden'
<1> USE DEF Hidden, PostgresInv
<1>0. drops \in Nat /\ \A k \in Calls : since[k] \in Nat
  BY CallsAssumption DEF PostgresTypeOK
<1>1. CASE Begin(c)
  <2>1. /\ pc[c] = "wait" /\ status' = [status EXCEPT ![c] = "running"]
        /\ UNCHANGED <<pc, conn, drops, since, errors>>
    BY <1>1 DEF Begin, Resting
  <2>2. Blame'
    BY <2>1 DEF Blame, Holds, PostgresTypeOK
  <2>3. OneDropIsHidden'
    BY <2>1 DEF OneDropIsHidden, PostgresTypeOK
  <2> QED
    BY <2>2, <2>3
<1>2. CASE Acquire(c)
  <2>1. \A k \in Calls : ~ Holds(k)
    BY <1>2, CallsAssumption DEF Acquire, LockIsHeld, Holds
  <2>2. /\ since' = [since EXCEPT ![c] = IF conn THEN drops ELSE drops - 1]
        /\ errors' = [errors EXCEPT ![c] = 0] /\ pc' = [pc EXCEPT ![c] = "try"]
        /\ status' = status /\ drops' = drops /\ conn' = conn /\ status[c] = "running"
    BY <1>2 DEF Acquire
  <2>3. Blame'
    BY <1>0, <2>1, <2>2 DEF Blame, Holds, PostgresTypeOK
  <2>4. OneDropIsHidden'
    BY <2>2 DEF OneDropIsHidden, PostgresTypeOK
  <2> QED
    BY <2>3, <2>4
<1>3. CASE Answered(c) \/ Refused(c)
  <2>1. Holds(c) /\ pc' = [pc EXCEPT ![c] = "wait"] /\ UNCHANGED <<conn, drops, since, errors>>
    BY <1>3 DEF Answered, Refused, Trying, Holds, Release
  <2>2. /\ \A k \in Calls : k # c => status'[k] = status[k]
        /\ status'[c] = "raised" => c \in Inserts
    BY <1>3 DEF Answered, Refused, refused, Trying, PostgresTypeOK
  <2>3. Blame'
    BY <2>1, <2>2, OthersWait DEF Blame, Holds, PostgresTypeOK
  <2>4. OneDropIsHidden'
    BY <2>1, <2>2 DEF OneDropIsHidden
  <2> QED
    BY <2>3, <2>4
<1>4. CASE Drop(c)
  BY <1>4, FailHidden DEF Drop
<1>5. CASE Closed(c)
  <2>1. Trying(c) /\ Fail(c) /\ ~ conn /\ conn' = FALSE /\ drops' = drops /\ UNCHANGED since
    BY <1>5 DEF Closed, PostgresTypeOK
  <2> QED
    BY <2>1, FailHidden
<1>6. CASE Reconnect(c)
  <2>1. /\ Holds(c) /\ errors[c] = 1 /\ pc[c] = "reconnect" /\ conn' = TRUE
        /\ pc' = [pc EXCEPT ![c] = "try"] /\ UNCHANGED <<drops, since, errors, status>>
    BY <1>6 DEF Reconnect, Up, Holds, Attempts
  <2>2. Blame'
    BY <2>1, OthersWait DEF Blame, Holds, PostgresTypeOK
  <2>3. OneDropIsHidden'
    BY <2>1 DEF OneDropIsHidden
  <2> QED
    BY <2>2, <2>3
<1>7. CASE ConnectFails(c)
  <2>1. /\ Holds(c) /\ pc[c] = "reconnect" /\ drops' = drops + 1 /\ since' = since
        /\ status' = [status EXCEPT ![c] = "raised"] /\ pc' = [pc EXCEPT ![c] = "wait"]
        /\ conn' = conn /\ errors' = [errors EXCEPT ![c] = @ + 1]
    BY <1>7 DEF ConnectFails, Holds, Release
  <2>2. \A k \in Calls : k # c => ~ Holds(k)
    BY <2>1, OthersWait
  <2>3. Blame'
    BY <2>1, <2>2 DEF Blame, Holds, PostgresTypeOK
  <2>4. drops' = since[c] + 2
    BY <1>0, <2>1 DEF Blame
  <2>5. ASSUME NEW k \in Calls \ Inserts, status'[k] = "raised" PROVE drops' - since'[k] >= 2
    <3>1. CASE k = c
      BY <1>0, <2>1, <2>4, <3>1
    <3>2. CASE k # c
      <4>1. drops - since[k] >= 2
        BY <2>1, <2>5, <3>2 DEF OneDropIsHidden, PostgresTypeOK
      <4> QED
        BY <1>0, <2>1, <4>1
    <3> QED
      BY <3>1, <3>2
  <2> QED
    BY <2>3, <2>5 DEF OneDropIsHidden
<1> QED
  BY <1>1, <1>2, <1>3, <1>4, <1>5, <1>6, <1>7 DEF Step, Work

LEMMA NextHidden == ASSUME PostgresInv, Hidden, [Next]_vars PROVE Hidden'
<1>0. drops \in Nat /\ \A k \in Calls : since[k] \in Nat
  BY CallsAssumption DEF PostgresInv, PostgresTypeOK
<1>1. CASE Suspend
  <2>1. \A k \in Calls : ~ Holds(k)
    BY <1>1, CallsAssumption DEF Suspend, PostgresInv, LockIsHeld, Holds
  <2>2. status' = status /\ pc' = pc /\ since' = since /\ drops' = drops + 1
    BY <1>1 DEF Suspend
  <2>3. Blame'
    BY <2>1, <2>2 DEF Blame, Holds
  <2>4. ASSUME NEW k \in Calls \ Inserts, status'[k] = "raised" PROVE drops' - since'[k] >= 2
    <3>1. drops - since[k] >= 2
      BY <2>2, <2>4 DEF Hidden, OneDropIsHidden
    <3> QED
      BY <1>0, <2>2, <3>1
  <2> QED
    BY <2>3, <2>4 DEF Hidden, OneDropIsHidden
<1>2. CASE Crash
  BY <1>2 DEF Crash, Hidden, Blame, Holds, OneDropIsHidden
<1>3. ASSUME NEW c \in Calls, Step(c) PROVE Hidden'
  BY <1>3, StepHidden
<1>4. CASE UNCHANGED vars
  BY <1>4 DEF vars, Hidden, Blame, Holds, OneDropIsHidden
<1> QED
  BY <1>1, <1>2, <1>3, <1>4 DEF Next

\* A call of PostgresDataStore that may be executed twice fails only when one of its
\* statements met two drops, or one and a connection that could not be made.
THEOREM OneDropHidden == Spec => []OneDropIsHidden
<1>1. Hidden => OneDropIsHidden
  BY DEF Hidden
<1> QED
  BY <1>1, InitHidden, NextHidden, InvHolds, PTL DEF Spec

-----------------------------------------------------------------------------
LEMMA InitPromise == Init => Store!StoreInit
BY DEF Init, Store!StoreInit

LEMMA StepPromise ==
  ASSUME PostgresInv, PostgresInv', [Next]_vars
  PROVE  [Store!StoreNext]_<<stored, status>>
<1> USE CallsAssumption DEF Store!StoreNext
<1>1. CASE Crash
  BY <1>1 DEF Crash, Store!Crash
<1>2. CASE Suspend \/ UNCHANGED vars
  BY <1>2 DEF Suspend, vars
<1>3. ASSUME NEW c \in Calls, Begin(c) PROVE Store!Call(c)
  BY <1>3 DEF Begin, Store!Call, Store!Turn
<1>4. ASSUME NEW c \in Calls, Acquire(c) \/ Reconnect(c) PROVE UNCHANGED <<stored, status>>
  BY <1>4 DEF Acquire, Reconnect
<1>5. ASSUME NEW c \in Calls, Refused(c) \/ ConnectFails(c) PROVE Store!Raise(c)
  BY <1>5 DEF Refused, ConnectFails, Trying, Store!Raise, Store!Turn, Store!Grow,
              PostgresInv, PostgresTypeOK
<1>6. ASSUME NEW c \in Calls, Trying(c), NEW n \in stored[c]..larger(stored[c], target(c)),
             stored' = [stored EXCEPT ![c] = n]
      PROVE  Store!Grow
  BY <1>6, Progress DEF Trying, Store!Grow, PostgresInv, PostgresTypeOK
<1>7. ASSUME NEW c \in Calls, Answered(c)
      PROVE  Store!Return(c) \/ Store!Write
  <2>1. Trying(c) /\ stored[c] \in Nat /\ target(c) \in Nat
    BY <1>7, TargetFacts DEF Answered, PostgresInv, PostgresTypeOK
  <2>2. larger(stored[c], target(c)) \in stored[c]..larger(stored[c], target(c))
    BY <2>1, LargerRange, Zenon
  <2>3. Store!Grow
    BY <1>7, <1>6, <2>1, <2>2 DEF Answered
  <2>4. CASE acked'[c] = Length[c]
    <3>1. acked'[c] <= stored'[c] /\ stored'[c] <= Length[c] /\ stored'[c] \in Nat
      BY DEF PostgresInv, PostgresTypeOK
    <3>2. stored'[c] = Length[c]
      BY <2>4, <3>1
    <3>3. Store!Turn(c, "running", "ok")
      BY <1>7, <2>1, <2>4 DEF Answered, Trying, Store!Turn
    <3> QED
      BY <2>3, <3>2, <3>3 DEF Store!Return
  <2>5. CASE acked'[c] # Length[c]
    BY <1>7, <2>3, <2>5 DEF Answered, Store!Write
  <2> QED
    BY <2>4, <2>5
<1>8. ASSUME NEW c \in Calls, Drop(c) \/ Closed(c)
      PROVE  Store!Raise(c) \/ Store!Write
  <2>1. Trying(c) /\ Fail(c) /\ stored[c] \in Nat /\ target(c) \in Nat
    BY <1>8, TargetFacts DEF Drop, Closed, PostgresInv, PostgresTypeOK
  <2>2. stored[c] \in stored[c]..larger(stored[c], target(c))
    BY <2>1, LargerRange, Zenon
  <2>3. PICK n \in stored[c]..larger(stored[c], target(c)) : stored' = [stored EXCEPT ![c] = n]
    <3>1. CASE Drop(c)
      BY <3>1, <2>2 DEF Drop
    <3>2. CASE Closed(c)
      BY <3>2, <2>2 DEF Closed, PostgresInv, PostgresTypeOK
    <3> QED
      BY <1>8, <3>1, <3>2
  <2>4. Store!Grow
    BY <1>6, <2>1, <2>3
  <2> QED
    BY <2>1, <2>4 DEF Fail, Trying, Store!Raise, Store!Turn, Store!Write
<1> QED
  BY <1>1, <1>2, <1>3, <1>4, <1>5, <1>7, <1>8 DEF Next, Step, Work

\* PostgresDataStore, with its lock, its autocommit and its one retry, keeps the promise
\* of StatementStore, whatever is dropped.
THEOREM PostgresImplementsStore == Spec => KeepsPromise
<1>1. Spec => Store!StoreInit /\ [][Store!StoreNext]_<<stored, status>>
  BY InitPromise, StepPromise, InvHolds, PTL DEF Spec
<1> QED
  BY <1>1 DEF KeepsPromise, Store!StoreSpec

-----------------------------------------------------------------------------
\* Machines and runs.
\* Request m has made its machine: the id it drew is in use and never drawn again.
Made(m) == req[m].kind = "create_machine" /\ req[m].status = 200

\* Request r has inserted its run.
Inserted(r) == req[r].pc \in {"deploy", "done"}

\* Request r is where its kind has business; what it names exists already, and is not
\* the shared machine or its run when r may delete it.
Placed(r) ==
  /\ req[r].pc # "done" => req[r].status = 0
  /\ req[r].pc # "new" => req[r].kind # "none"
  /\ req[r].machine \in Requests => Made(req[r].machine)
  /\ req[r].pc = "check_run" => req[r].kind \in {"create_run", "rename_run", "delete_run"}
  /\ req[r].pc = "end" => req[r].kind = "tool_change"
  /\ req[r].pc \in {"insert", "deploy"} => req[r].kind \in {"create_run", "tool_change"}
  /\ req[r].pc \in {"runs", "machine"} => req[r].kind = "delete_machine"
  /\ req[r].pc \in {"check_run", "runs", "machine"} => req[r].machine # Shared
  /\ req[r].pc = "write" /\ req[r].kind = "delete_run" => req[r].run # Reference
  /\ req[r].kind = "delete_machine" => \A a \in req[r].todo : a.run_id # Reference

\* The runs r has listed: whatever run is one of them by now still has its id.
Listed(r) ==
  \A a \in req[r].todo :
    /\ a.by \in Requests => Inserted(a.by)
    /\ \A x \in runs : x.by = a.by => x.run_id = a.run_id

\* Past end_run, the runs r has listed are ended.
Archived(r) ==
  req[r].kind = "tool_change" /\ (req[r].pc \in {"insert", "deploy"} \/ req[r].status = 200) =>
    \A a \in req[r].todo : \A x \in runs : x.by = a.by => x.ended

\* The machine r deleted is gone and no run is on it.
Gone(r) ==
  req[r].kind = "delete_machine" /\ req[r].status = 200 =>
    ~ MachineExists(req[r].machine) /\ RunsOf(req[r].machine) = {}

\* One run under an id, each on a machine that is there, each made by one request; the
\* reference run is there, and the start times are bounded.
RunsOK ==
  /\ \A x, y \in runs : x.run_id = y.run_id \/ x.by = y.by => x = y
  /\ \A x \in runs : MachineExists(x.machine_id)
  /\ \A x \in runs : x.by \in Requests => Inserted(x.by)
  /\ \A x \in runs : x.run_id = Reference => x.machine_id = Shared
  /\ \E x \in runs : x.run_id = Reference
  /\ \E b \in Nat : \A x \in runs : x.started_at <= b
  /\ \A t \in twins : get_run(t) # {}

\* The shared machine is nobody's; a machine a request made is one it was answered.
MachinesOK ==
  \A m \in machines :
    /\ m.machine_id = Shared => m.owner_id = System
    /\ m.machine_id \in Requests => Made(m.machine_id)

RegistryInv ==
  /\ RegistryTypeOK /\ MachinesOK /\ RunsOK
  /\ \A r \in Requests : Placed(r) /\ Listed(r) /\ Archived(r) /\ Gone(r)

-----------------------------------------------------------------------------
\* The latest of a set of runs whose start times are bounded.
Less == {p \in Nat \X Nat : p[1] < p[2]}

LEMMA LeastNatural ==
  ASSUME NEW T \in SUBSET Nat, T # {}
  PROVE  \E m \in T : \A n \in T : m <= n
<1>1. IsWellFoundedOn(Less, Nat)
  BY NatLessThanWellFounded DEF Less, OpToRel
<1>2. PICK m \in T : \A n \in T : ~ (<<n, m>> \in Less)
  BY <1>1, WFMin
<1>3. ASSUME NEW n \in T  PROVE m <= n
  <2>1. ASSUME n < m  PROVE <<n, m>> \in Less
    <3>1. <<n, m>>[1] = n /\ <<n, m>>[2] = m /\ <<n, m>> \in Nat \X Nat
      OBVIOUS
    <3>2. QED  BY <2>1, <3>1 DEF Less
  <2>2. QED  BY <1>2, <2>1
<1>4. QED  BY <1>3

LEMMA LatestThere ==
  ASSUME NEW S, S # {}, \A x \in S : x.started_at \in Nat,
         NEW b \in Nat, \A x \in S : x.started_at <= b
  PROVE  Latest(S) # {}
<1> DEFINE T == {n \in Nat : \A x \in S : x.started_at <= n}
<1>1. T \in SUBSET Nat /\ T # {}
  OBVIOUS
<1>2. PICK m \in T : \A n \in T : m <= n
  BY <1>1, LeastNatural
<1>3. \E x \in S : x.started_at = m
  <2>1. SUFFICES ASSUME \A x \in S : x.started_at # m  PROVE FALSE
    OBVIOUS
  <2>2. m \in Nat /\ \A x \in S : x.started_at < m
    BY <1>2, <2>1
  <2>3. m - 1 \in Nat /\ \A x \in S : x.started_at <= m - 1
    BY <2>2
  <2>4. m <= m - 1
    BY <1>2, <2>3
  <2>5. QED  BY <2>2, <2>4
<1>4. QED  BY <1>2, <1>3 DEF Latest

-----------------------------------------------------------------------------
\* The rows of req, one field at a time.
Places == {"new", "check", "check_run", "insert", "end", "deploy", "write", "runs", "machine", "done"}

Kept(p, q) == q.kind = p.kind /\ q.user = p.user /\ q.machine = p.machine /\ q.run = p.run

LEMMA WithPc ==
  ASSUME NEW p \in Request, NEW x \in Places, NEW q, q = [p EXCEPT !.pc = x]
  PROVE  q \in Request /\ Kept(p, q) /\ q.pc = x /\ q.status = p.status /\ q.todo = p.todo
  BY DEF Request, Kept, Places

LEMMA WithStatus ==
  ASSUME NEW p \in Request, NEW x \in {0, 200, 400, 404, 409, 500}, NEW q, q = [p EXCEPT !.status = x]
  PROVE  q \in Request /\ Kept(p, q) /\ q.pc = p.pc /\ q.status = x /\ q.todo = p.todo
  BY DEF Request, Kept

LEMMA WithTodo ==
  ASSUME NEW p \in Request, NEW x \in SUBSET Run, NEW q, q = [p EXCEPT !.todo = x]
  PROVE  q \in Request /\ Kept(p, q) /\ q.pc = p.pc /\ q.status = p.status /\ q.todo = x
  BY DEF Request, Kept

\* What a step on behalf of request r leaves alone.
Turn(r) ==
  /\ req' \in [Requests -> Request]
  /\ \A x \in Requests \ {r} : req'[x] = req[x]
  /\ Kept(req[r], req'[r])

LEMMA KeptTwice == ASSUME NEW p, NEW q, NEW s, Kept(p, q), Kept(q, s)  PROVE Kept(p, s)
  BY DEF Kept

LEMMA TurnOf ==
  ASSUME RegistryTypeOK, NEW r \in Requests, NEW q \in Request, Kept(req[r], q),
         req' = [req EXCEPT ![r] = q]
  PROVE  Turn(r) /\ req'[r] = q
<1>1. req \in [Requests -> Request]
  BY DEF RegistryTypeOK
<1>2. req'[r] = q /\ req' \in [Requests -> Request] /\ \A x \in Requests \ {r} : req'[x] = req[x]
  BY <1>1
<1>3. QED  BY <1>2 DEF Turn

LEMMA GoTurn ==
  ASSUME RegistryTypeOK, NEW r \in Requests, NEW p \in Places, Go(r, p)
  PROVE  Turn(r) /\ req'[r].pc = p /\ req'[r].status = req[r].status /\ req'[r].todo = req[r].todo
<1> DEFINE q == [req[r] EXCEPT !.pc = p]
<1>1. req[r] \in Request
  BY DEF RegistryTypeOK
<1>2. req' = [req EXCEPT ![r] = q]
  BY Zenon DEF Go
<1>3. q \in Request /\ Kept(req[r], q) /\ q.pc = p /\ q.status = req[r].status /\ q.todo = req[r].todo
  BY <1>1, WithPc
<1> HIDE DEF q
<1>4. Turn(r) /\ req'[r] = q
  BY <1>2, <1>3, TurnOf
<1>5. QED  BY <1>3, <1>4

LEMMA AnswerTurn ==
  ASSUME RegistryTypeOK, NEW r \in Requests, NEW st \in {0, 200, 400, 404, 409, 500}, Answer(r, st)
  PROVE  Turn(r) /\ req'[r].pc = "done" /\ req'[r].status = st /\ req'[r].todo = req[r].todo
<1> DEFINE q1 == [req[r] EXCEPT !.pc = "done"]
           q  == [q1 EXCEPT !.status = st]
<1>1. req[r] \in Request /\ "done" \in Places
  BY DEF RegistryTypeOK, Places
<1>2. req' = [req EXCEPT ![r] = q]
  BY Zenon DEF Answer
<1>3. q1 \in Request /\ Kept(req[r], q1) /\ q1.pc = "done" /\ q1.todo = req[r].todo
  BY <1>1, WithPc
<1> HIDE DEF q1
<1>4. q \in Request /\ Kept(q1, q) /\ q.pc = q1.pc /\ q.status = st /\ q.todo = q1.todo
  BY <1>3, WithStatus
<1> HIDE DEF q
<1>5. Kept(req[r], q) /\ q \in Request
  BY <1>3, <1>4, KeptTwice
<1>6. Turn(r)
  BY <1>2, <1>5, TurnOf
<1>7. req'[r] = q
  BY <1>2, <1>5 DEF RegistryTypeOK
<1>8. QED  BY <1>3, <1>4, <1>6, <1>7

LEMMA ListTurn ==
  ASSUME RegistryTypeOK, NEW r \in Requests, NEW p \in Places, NEW S \in SUBSET Run,
         req' = [req EXCEPT ![r] = [@ EXCEPT !.todo = S, !.pc = p]]
  PROVE  Turn(r) /\ req'[r].pc = p /\ req'[r].status = req[r].status /\ req'[r].todo = S
<1> DEFINE q1 == [req[r] EXCEPT !.todo = S]
           q  == [q1 EXCEPT !.pc = p]
<1>1. req[r] \in Request
  BY DEF RegistryTypeOK
<1>2. req' = [req EXCEPT ![r] = q]
  BY Zenon
<1>3. q1 \in Request /\ Kept(req[r], q1) /\ q1.status = req[r].status /\ q1.todo = S
  BY <1>1, WithTodo
<1> HIDE DEF q1
<1>4. q \in Request /\ Kept(q1, q) /\ q.pc = p /\ q.status = q1.status /\ q.todo = q1.todo
  BY <1>3, WithPc
<1> HIDE DEF q
<1>5. Kept(req[r], q) /\ q \in Request
  BY <1>3, <1>4, KeptTwice
<1>6. Turn(r) /\ req'[r] = q
  BY <1>2, <1>5, TurnOf
<1>7. QED  BY <1>3, <1>4, <1>6

-----------------------------------------------------------------------------
\* Where the rows of a step of r come from: a run is one that was there, under its id,
\* on its machine and not un-ended, or the one r inserts on a machine that is there; a
\* machine is one that was there, or the one r makes.
RunsFrom(r) ==
  \A x \in runs' :
    \/ \E y \in runs :
         /\ y.by = x.by /\ y.run_id = x.run_id /\ y.machine_id = x.machine_id
         /\ y.ended => x.ended
    \/ x.by = r /\ req[r].pc = "insert" /\ MachineExists(x.machine_id)

MachinesFrom(r) ==
  \A m \in machines' :
    \/ \E n \in machines : n.machine_id = m.machine_id
    \/ m.machine_id = r /\ req[r].kind = "create_machine"

LEMMA PastStays ==
  ASSUME RegistryInv, NEW r \in Requests, Turn(r), req[r].pc # "done",
         req[r].pc = "deploy" => req'[r].pc \in {"deploy", "done"}
  PROVE  /\ ~ Made(r)
         /\ \A m \in Requests : Made(m) => m # r /\ Made(m)'
         /\ \A m \in Requests : Inserted(m) => Inserted(m)'
<1>1. req[r].status = 0
  BY DEF RegistryInv, Placed
<1>2. QED  BY <1>1 DEF Turn, Made, Inserted

\* A step of r keeps what the invariant says of the other requests, and the whole of it
\* if it keeps what it says of r and of the tables.
LEMMA TurnKeeps ==
  ASSUME RegistryInv, NEW r \in Requests, Turn(r), req[r].pc \notin {"new", "done"},
         req[r].pc = "deploy" => req'[r].pc \in {"deploy", "done"},
         RunsFrom(r), MachinesFrom(r),
         (machines \subseteq Machine)', (runs \subseteq Run)', (twins \subseteq RunIds)',
         MachinesOK', RunsOK', (Placed(r) /\ Listed(r) /\ Archived(r) /\ Gone(r))'
  PROVE  RegistryInv'
<1>1. /\ ~ Made(r)
      /\ \A m \in Requests : Made(m) => m # r /\ Made(m)'
      /\ \A m \in Requests : Inserted(m) => Inserted(m)'
  BY PastStays
<1>2. RegistryTypeOK'
  BY DEF RegistryTypeOK, Turn
<1>3. ASSUME NEW s \in Requests, s # r  PROVE (Placed(s) /\ Listed(s) /\ Archived(s) /\ Gone(s))'
  <2>1. req'[s] = req[s] /\ Placed(s) /\ Listed(s) /\ Archived(s) /\ Gone(s)
    BY <1>3 DEF Turn, RegistryInv
  <2>2. Placed(s)'
    BY <1>1, <2>1 DEF Placed
  <2>3. ASSUME NEW a \in req[s].todo, NEW x \in runs', x.by = a.by
        PROVE  \E y \in runs : y.by = x.by /\ y.run_id = x.run_id /\ (y.ended => x.ended)
    <3>1. ~ (a.by = r /\ req[r].pc = "insert")
      BY <2>1 DEF Listed, Inserted
    <3>2. QED  BY <2>3, <3>1 DEF RunsFrom
  <2>4. Listed(s)'
    BY <1>1, <2>1, <2>3 DEF Listed
  <2>5. Archived(s)'
    BY <2>1, <2>3 DEF Archived
  <2>6. Gone(s)'
    <3>1. SUFFICES ASSUME req[s].kind = "delete_machine", req[s].status = 200
                   PROVE  ~ MachineExists(req[s].machine)' /\ RunsOf(req[s].machine)' = {}
      BY <2>1 DEF Gone
    <3>2. ~ MachineExists(req[s].machine) /\ RunsOf(req[s].machine) = {}
      BY <2>1, <3>1 DEF Gone
    <3>3. req[s].machine # r
      BY <2>1, <1>1 DEF Placed
    <3>4. \A m \in machines' : m.machine_id # req[s].machine
      BY <3>2, <3>3 DEF MachinesFrom, MachineExists
    <3>5. \A x \in runs' : x.machine_id # req[s].machine
      BY <3>2 DEF RunsFrom, RunsOf
    <3>6. QED  BY <2>1, <3>4, <3>5 DEF MachineExists, RunsOf
  <2>7. QED  BY <2>2, <2>4, <2>5, <2>6
<1>4. QED  BY <1>2, <1>3 DEF RegistryInv

-----------------------------------------------------------------------------
\* Steps that leave the tables alone.
LEMMA TablesStay ==
  ASSUME RegistryInv, NEW r \in Requests, Turn(r), req[r].pc # "done",
         req[r].pc = "deploy" => req'[r].pc \in {"deploy", "done"}
  PROVE  /\ UNCHANGED machines => MachinesOK' /\ MachinesFrom(r) /\ (machines \subseteq Machine)'
         /\ UNCHANGED runs => RunsFrom(r) /\ (runs \subseteq Run)'
         /\ UNCHANGED twins => (twins \subseteq RunIds)'
         /\ UNCHANGED <<machines, runs, twins>> => RunsOK'
<1>1. /\ \A m \in Requests : Made(m) => Made(m)'
      /\ \A m \in Requests : Inserted(m) => Inserted(m)'
  BY PastStays
<1>2. RegistryTypeOK /\ MachinesOK /\ RunsOK
  BY DEF RegistryInv
<1>3. UNCHANGED machines => MachinesOK' /\ MachinesFrom(r)
  BY <1>1, <1>2 DEF MachinesOK, MachinesFrom
<1>4. UNCHANGED runs => RunsFrom(r)
  BY DEF RunsFrom
<1>5. ASSUME UNCHANGED <<machines, runs, twins>>  PROVE RunsOK'
  <2>1. \A x \in runs' : MachineExists(x.machine_id)'
    BY <1>2, <1>5 DEF RunsOK, MachineExists
  <2>2. \A t \in twins' : get_run(t)' # {}
    BY <1>2, <1>5 DEF RunsOK, get_run
  <2>3. QED  BY <1>1, <1>2, <1>5, <2>1, <2>2 DEF RunsOK
<1>6. QED  BY <1>2, <1>3, <1>4, <1>5 DEF RegistryTypeOK

LEMMA QuietKeeps ==
  ASSUME RegistryInv, NEW r \in Requests, Turn(r), req[r].pc \notin {"new", "done"},
         req[r].pc = "deploy" => req'[r].pc \in {"deploy", "done"},
         UNCHANGED <<machines, runs, twins>>,
         (Placed(r) /\ Listed(r) /\ Archived(r) /\ Gone(r))'
  PROVE  RegistryInv'
<1>1. UNCHANGED machines /\ UNCHANGED runs /\ UNCHANGED twins /\ req[r].pc # "done"
  OBVIOUS
<1>2. QED  BY <1>1, TablesStay, TurnKeeps

\* What r has listed stays listed when runs come or go as they may.
LEMMA StillListed ==
  ASSUME RegistryInv, NEW r \in Requests, Turn(r), req[r].pc # "done",
         req[r].pc = "deploy" => req'[r].pc \in {"deploy", "done"},
         RunsFrom(r), req'[r].todo \subseteq req[r].todo
  PROVE  /\ Listed(r)'
         /\ \A a \in req'[r].todo : \A x \in runs' :
              x.by = a.by => \E y \in runs : y.by = a.by /\ y.run_id = x.run_id /\ (y.ended => x.ended)
<1>1. Listed(r) /\ \A m \in Requests : Inserted(m) => Inserted(m)'
  BY PastStays DEF RegistryInv
<1>2. ASSUME NEW a \in req'[r].todo, NEW x \in runs', x.by = a.by
      PROVE  \E y \in runs : y.by = a.by /\ y.run_id = x.run_id /\ (y.ended => x.ended)
  <2>1. ~ (a.by = r /\ req[r].pc = "insert")
    BY <1>1 DEF Listed, Inserted
  <2>2. QED  BY <1>2, <2>1 DEF RunsFrom
<1>3. QED  BY <1>1, <1>2 DEF Listed

LEMMA FailKeeps ==
  ASSUME RegistryInv, NEW r \in Requests, NEW st \in {400, 404, 409, 500}, Answer(r, st),
         req[r].pc \notin {"new", "done"}, UNCHANGED <<machines, runs, twins>>
  PROVE  RegistryInv'
<1>1. RegistryTypeOK /\ Placed(r) /\ st \in {0, 200, 400, 404, 409, 500} /\ st # 200 /\ req[r].pc # "done"
  BY DEF RegistryInv
<1>2. Turn(r) /\ req'[r].pc = "done" /\ req'[r].status = st /\ req'[r].todo = req[r].todo
  BY <1>1, AnswerTurn
<1>3. \A m \in Requests : Made(m) => Made(m)'
  BY <1>1, <1>2, PastStays
<1>4. Placed(r)'
  BY <1>1, <1>2, <1>3 DEF Placed, Turn, Kept
<1>5. RunsFrom(r)
  BY <1>1, <1>2, TablesStay
<1>6. Listed(r)'
  BY <1>1, <1>2, <1>5, StillListed
<1>7. Archived(r)' /\ Gone(r)'
  BY <1>1, <1>2 DEF Archived, Gone
<1>8. QED  BY <1>2, <1>4, <1>6, <1>7, QuietKeeps

\* A request that goes on to a place where nothing is archived.
LEMMA GoKeeps ==
  ASSUME RegistryInv, NEW r \in Requests, NEW p \in {"check_run", "write", "runs", "insert"}, Go(r, p),
         req[r].pc \notin {"new", "done", "deploy"}, UNCHANGED <<machines, runs, twins>>,
         p = "check_run" => req[r].kind \in {"create_run", "rename_run", "delete_run"},
         p = "runs" => req[r].kind = "delete_machine",
         p \in {"check_run", "runs"} => req[r].machine # Shared,
         p = "write" => req[r].kind # "delete_run" \/ req[r].run # Reference,
         p = "insert" => req[r].kind = "create_run"
  PROVE  RegistryInv'
<1>1. RegistryTypeOK /\ Placed(r) /\ p \in Places /\ req[r].pc # "done" /\ req[r].status = 0
  BY DEF RegistryInv, Places, Placed
<1>2. Turn(r) /\ req'[r].pc = p /\ req'[r].status = 0 /\ req'[r].todo = req[r].todo
  BY <1>1, GoTurn
<1>3. \A m \in Requests : Made(m) => Made(m)'
  BY <1>1, <1>2, PastStays
<1>4. Placed(r)'
  BY <1>1, <1>2, <1>3 DEF Placed, Turn, Kept
<1>5. RunsFrom(r)
  BY <1>1, <1>2, TablesStay
<1>6. Listed(r)'
  BY <1>1, <1>2, <1>5, StillListed
<1>7. Archived(r)' /\ Gone(r)'
  BY <1>1, <1>2 DEF Archived, Gone, Turn, Kept
<1>8. QED  BY <1>2, <1>4, <1>6, <1>7, QuietKeeps

LEMMA InvCheckMachine ==
  ASSUME RegistryInv, NEW r \in Requests, CheckMachine(r)  PROVE RegistryInv'
<1>1. /\ req[r].pc = "check" /\ req[r].kind \notin {"create_machine", "tool_change"}
      /\ UNCHANGED <<machines, runs, twins>> /\ RegistryTypeOK /\ MachinesOK
      /\ req[r].kind \in Kinds \cup {"none"} /\ req[r].user \in Users
  BY DEF RegistryInv, RegistryTypeOK, Request, CheckMachine, At, Is
<1>2. CASE ~ Writable(r)
  BY <1>1, <1>2, FailKeeps DEF CheckMachine
<1>3. CASE Writable(r)
  <2>1. req[r].machine # Shared
    BY <1>1, <1>3, RegistryAssumption DEF Writable, MachinesOK
  <2>2. CASE req[r].kind = "rename_machine"
    BY <1>1, <1>3, <2>1, <2>2, GoKeeps DEF CheckMachine, Is
  <2>3. CASE req[r].kind = "delete_machine"
    BY <1>1, <1>3, <2>1, <2>3, GoKeeps DEF CheckMachine, Is
  <2>4. CASE req[r].kind \in {"create_run", "rename_run", "delete_run"}
    BY <1>1, <1>3, <2>1, <2>4, GoKeeps DEF CheckMachine, Is
  <2>5. req[r].kind # "none"
    BY <1>1 DEF RegistryInv, Placed
  <2>6. QED  BY <1>1, <2>2, <2>3, <2>4, <2>5, RegistryAssumption
<1>4. QED  BY <1>2, <1>3

LEMMA InvCheckRun ==
  ASSUME RegistryInv, NEW r \in Requests, CheckRun(r)  PROVE RegistryInv'
<1>1. /\ req[r].pc = "check_run" /\ req[r].kind \in {"rename_run", "delete_run"}
      /\ UNCHANGED <<machines, runs, twins>> /\ Placed(r) /\ RunsOK
  BY DEF RegistryInv, CheckRun, At, Is
<1>2. CASE OnMachine(r) = {}
  BY <1>1, <1>2, FailKeeps DEF CheckRun
<1>3. CASE OnMachine(r) # {}
  <2>1. req[r].run # Reference
    BY <1>1, <1>3 DEF OnMachine, get_run, RunsOK, Placed
  <2>2. QED  BY <1>1, <1>3, <2>1, GoKeeps DEF CheckRun
<1>4. QED  BY <1>2, <1>3

LEMMA InvRaise ==
  ASSUME RegistryInv, NEW r \in Requests, Raise(r)  PROVE RegistryInv'
  BY FailKeeps DEF Raise

LEMMA InvListRuns ==
  ASSUME RegistryInv, NEW r \in Requests, ListRuns(r)  PROVE RegistryInv'
<1> DEFINE S == RunsOf(req[r].machine)
<1>1. /\ req[r].pc = "runs" /\ req[r].kind = "delete_machine" /\ req[r].machine # Shared
      /\ req[r].status = 0 /\ UNCHANGED <<machines, runs, twins>> /\ Placed(r) /\ RunsOK /\ RegistryTypeOK
      /\ S \in SUBSET Run /\ S \subseteq runs /\ "machine" \in Places
  BY DEF RegistryInv, RegistryTypeOK, ListRuns, At, Placed, RunsOf, Places
<1>2. \A x \in S : x.run_id # Reference
  BY <1>1 DEF RunsOf, RunsOK
<1>3. req' = [req EXCEPT ![r] = [@ EXCEPT !.todo = S, !.pc = "machine"]]
  BY DEF ListRuns
<1> HIDE DEF S
<1>4. Turn(r) /\ req'[r].pc = "machine" /\ req'[r].status = 0 /\ req'[r].todo = S
  BY <1>1, <1>3, ListTurn
<1>5. /\ \A m \in Requests : Made(m) => Made(m)'
      /\ \A m \in Requests : Inserted(m) => Inserted(m)'
  BY <1>1, <1>4, PastStays
<1>6. Placed(r)'
  BY <1>1, <1>2, <1>4, <1>5 DEF Placed, Turn, Kept
<1>7. Listed(r)'
  BY <1>1, <1>4, <1>5 DEF Listed, RunsOK
<1>8. Archived(r)' /\ Gone(r)'
  BY <1>1, <1>4 DEF Archived, Gone, Turn, Kept
<1>9. QED  BY <1>1, <1>4, <1>6, <1>7, <1>8, QuietKeeps

LEMMA InvStartRun ==
  ASSUME RegistryInv, NEW r \in Requests, StartRun(r)  PROVE RegistryInv'
<1>1. /\ UNCHANGED <<machines, runs, twins>> /\ RegistryTypeOK /\ Placed(r) /\ RunsOK
      /\ req[r].pc = "check_run" /\ req[r].kind = "create_run" /\ req[r].status = 0
  BY DEF RegistryInv, RegistryTypeOK, Request, StartRun, At, Is, Placed
<1>2. CASE \E st \in {400, 409} : Answer(r, st)
  BY <1>1, <1>2, FailKeeps
<1>3. CASE Go(r, "insert")
  BY <1>1, <1>3, GoKeeps
<1>4. QED  BY <1>2, <1>3 DEF StartRun

LEMMA InvStartNewRun ==
  ASSUME RegistryInv, NEW r \in Requests, StartNewRun(r)  PROVE RegistryInv'
<1>1. /\ UNCHANGED <<machines, runs, twins>> /\ RegistryTypeOK /\ Placed(r) /\ RunsOK
      /\ req[r].pc = "check" /\ req[r].kind = "tool_change" /\ req[r].status = 0
      /\ req[r].machine \in MachineIds
  BY DEF RegistryInv, RegistryTypeOK, Request, StartNewRun, At, Is, Placed
<1>2. CASE get_run(req[r].run) # {}
  <2>1. Answer(r, 409)
    BY <1>2 DEF StartNewRun
  <2>2. QED  BY <1>1, <2>1, FailKeeps
<1>4. CASE get_run(req[r].run) = {}
  <2> DEFINE S == Latest({x \in RunsOf(req[r].machine) : ~ x.ended})
             p == IF S = {} THEN "insert" ELSE "end"
  <2>1. req' = [req EXCEPT ![r] = [@ EXCEPT !.todo = S, !.pc = p]]
    BY <1>4 DEF StartNewRun
  <2>2. S \subseteq runs /\ S \in SUBSET Run
    BY <1>1 DEF Latest, RunsOf, RegistryTypeOK
  <2>3. p \in Places /\ p \in {"insert", "end"} /\ (p = "insert" => S = {})
    BY DEF Places
  <2> HIDE DEF S, p
  <2>4. Turn(r) /\ req'[r].pc = p /\ req'[r].status = 0 /\ req'[r].todo = S
    BY <1>1, <2>1, <2>2, <2>3, ListTurn
  <2>5. /\ \A m \in Requests : Made(m) => Made(m)'
        /\ \A m \in Requests : Inserted(m) => Inserted(m)'
    BY <1>1, <2>4, PastStays
  <2>6. Placed(r)'
    BY <1>1, <1>4, <2>3, <2>4, <2>5 DEF Placed, Turn, Kept
  <2>7. Listed(r)'
    BY <1>1, <2>2, <2>4, <2>5 DEF Listed, RunsOK
  <2>8. Archived(r)' /\ Gone(r)'
    BY <1>1, <2>3, <2>4 DEF Archived, Gone, Turn, Kept
  <2>9. QED  BY <1>1, <2>4, <2>6, <2>7, <2>8, QuietKeeps
<1>5. QED  BY <1>2, <1>4

-----------------------------------------------------------------------------
\* Steps on the machines table.
LEMMA InvCreateMachine ==
  ASSUME RegistryInv, NEW r \in Requests, create_machine(r)  PROVE RegistryInv'
<1>1. /\ req[r].pc = "check" /\ req[r].kind = "create_machine" /\ req[r].user \in Users
      /\ UNCHANGED <<runs, twins>> /\ RegistryTypeOK /\ MachinesOK /\ RunsOK /\ Placed(r)
  BY DEF RegistryInv, RegistryTypeOK, Request, create_machine, At, Is
<1>2. Turn(r) /\ req'[r].pc = "done" /\ req'[r].status = 200 /\ req'[r].todo = req[r].todo
  BY <1>1, AnswerTurn DEF create_machine
<1>3. SUFFICES ASSUME NEW n, n = [machine_id |-> r, owner_id |-> req[r].user, name |-> FALSE],
                      machines' = machines \cup {n}
               PROVE  RegistryInv'
  BY DEF create_machine
<1>4. n \in Machine /\ n.machine_id = r /\ r # Shared
  BY <1>1, <1>3, RegistryAssumption DEF Machine, MachineIds
<1>5. /\ \A m \in Requests : Made(m) => Made(m)'
      /\ \A m \in Requests : Inserted(m) => Inserted(m)'
      /\ Made(r)'
  BY <1>1, <1>2, PastStays DEF Made, Turn, Kept
<1>6. MachinesOK'
  BY <1>1, <1>3, <1>4, <1>5 DEF MachinesOK
<1>7. MachinesFrom(r) /\ (machines \subseteq Machine)'
  BY <1>1, <1>3, <1>4 DEF MachinesFrom, RegistryTypeOK
<1>8. RunsFrom(r) /\ (runs \subseteq Run)' /\ (twins \subseteq RunIds)'
  BY <1>1, <1>2, TablesStay
<1>9. RunsOK'
  <2>1. \A x \in runs' : MachineExists(x.machine_id)'
    BY <1>1, <1>3 DEF RunsOK, MachineExists
  <2>2. \A t \in twins' : get_run(t)' # {}
    BY <1>1 DEF RunsOK, get_run
  <2>3. QED  BY <1>1, <1>5, <2>1, <2>2 DEF RunsOK
<1>10. Placed(r)'
  BY <1>1, <1>2, <1>5 DEF Placed, Turn, Kept
<1>11. Listed(r)'
  BY <1>1, <1>2, <1>8, StillListed
<1>12. Archived(r)' /\ Gone(r)'
  BY <1>1, <1>2 DEF Archived, Gone, Turn, Kept
<1>13. QED  BY <1>1, <1>2, <1>6, <1>7, <1>8, <1>9, <1>10, <1>11, <1>12, TurnKeeps

LEMMA InvRenameMachine ==
  ASSUME RegistryInv, NEW r \in Requests, rename_machine(r)  PROVE RegistryInv'
<1>1. /\ req[r].pc = "write" /\ req[r].kind = "rename_machine"
      /\ UNCHANGED <<runs, twins>> /\ RegistryTypeOK /\ MachinesOK /\ RunsOK /\ Placed(r)
  BY DEF RegistryInv, rename_machine, At, Is
<1>2. Turn(r) /\ req'[r].pc = "done" /\ req'[r].status = 200 /\ req'[r].todo = req[r].todo
  BY <1>1, AnswerTurn DEF rename_machine
<1> DEFINE new(m) == IF m.machine_id = req[r].machine THEN [m EXCEPT !.name = TRUE] ELSE m
<1>3. machines' = {new(m) : m \in machines}
  BY DEF rename_machine
<1>4. \A m \in machines : /\ new(m) \in Machine /\ new(m).machine_id = m.machine_id
                           /\ new(m).owner_id = m.owner_id
  BY <1>1 DEF RegistryTypeOK, Machine
<1> HIDE DEF new
<1>5. /\ \A m \in Requests : Made(m) => Made(m)'
      /\ \A m \in Requests : Inserted(m) => Inserted(m)'
  BY <1>1, <1>2, PastStays
<1>6. MachinesOK' /\ MachinesFrom(r) /\ (machines \subseteq Machine)'
  BY <1>1, <1>3, <1>4, <1>5 DEF MachinesOK, MachinesFrom
<1>7. RunsFrom(r) /\ (runs \subseteq Run)' /\ (twins \subseteq RunIds)'
  BY <1>1, <1>2, TablesStay
<1>8. RunsOK'
  <2>1. \A x \in runs' : MachineExists(x.machine_id)'
    BY <1>1, <1>3, <1>4 DEF RunsOK, MachineExists
  <2>2. \A t \in twins' : get_run(t)' # {}
    BY <1>1 DEF RunsOK, get_run
  <2>3. QED  BY <1>1, <1>5, <2>1, <2>2 DEF RunsOK
<1>9. Placed(r)'
  BY <1>1, <1>2, <1>5 DEF Placed, Turn, Kept
<1>10. Listed(r)'
  BY <1>1, <1>2, <1>7, StillListed
<1>11. Archived(r)' /\ Gone(r)'
  BY <1>1, <1>2 DEF Archived, Gone, Turn, Kept
<1>12. QED  BY <1>1, <1>2, <1>6, <1>7, <1>8, <1>9, <1>10, <1>11, TurnKeeps

LEMMA InvDeleteMachine ==
  ASSUME RegistryInv, NEW r \in Requests, delete_machine(r)  PROVE RegistryInv'
<1>1. /\ req[r].pc = "machine" /\ req[r].kind = "delete_machine" /\ req[r].machine # Shared
      /\ UNCHANGED <<runs, twins>> /\ RegistryTypeOK /\ MachinesOK /\ RunsOK /\ Placed(r)
  BY DEF RegistryInv, delete_machine, At, Placed
<1>2. CASE ~ Unreferenced(req[r].machine)
  BY <1>1, <1>2, FailKeeps DEF delete_machine
<1>3. CASE Unreferenced(req[r].machine)
  <2>1. Turn(r) /\ req'[r].pc = "done" /\ req'[r].status = 200 /\ req'[r].todo = req[r].todo
    BY <1>1, <1>3, AnswerTurn DEF delete_machine
  <2>2. machines' = {x \in machines : x.machine_id # req[r].machine}
    BY <1>3 DEF delete_machine
  <2>3. \A x \in runs : x.machine_id # req[r].machine
    BY <1>3 DEF Unreferenced, RunsOf
  <2>4. /\ \A m \in Requests : Made(m) => Made(m)'
        /\ \A m \in Requests : Inserted(m) => Inserted(m)'
    BY <1>1, <2>1, PastStays
  <2>5. MachinesOK' /\ MachinesFrom(r) /\ (machines \subseteq Machine)'
    BY <1>1, <2>2, <2>4 DEF MachinesOK, MachinesFrom, RegistryTypeOK
  <2>6. RunsFrom(r) /\ (runs \subseteq Run)' /\ (twins \subseteq RunIds)'
    BY <1>1, <2>1, TablesStay
  <2>7. RunsOK'
    <3>1. \A x \in runs' : MachineExists(x.machine_id)'
      BY <1>1, <2>2, <2>3 DEF RunsOK, MachineExists
    <3>2. \A t \in twins' : get_run(t)' # {}
      BY <1>1 DEF RunsOK, get_run
    <3>3. QED  BY <1>1, <2>4, <3>1, <3>2 DEF RunsOK
  <2>8. Placed(r)'
    BY <1>1, <2>1, <2>4 DEF Placed, Turn, Kept
  <2>9. Listed(r)'
    BY <1>1, <2>1, <2>6, StillListed
  <2>10. Archived(r)' /\ Gone(r)'
    BY <1>1, <2>1, <2>2, <2>3 DEF Archived, Gone, Turn, Kept, MachineExists, RunsOf
  <2>11. QED  BY <1>1, <2>1, <2>5, <2>6, <2>7, <2>8, <2>9, <2>10, TurnKeeps
<1>4. QED  BY <1>2, <1>3

-----------------------------------------------------------------------------
\* Steps on the runs table.

\* Every run is rewritten in place: under its id, on its machine, not un-ended.
Rewritten(new) ==
  /\ \A x \in runs :
       /\ new[x] \in Run /\ new[x].run_id = x.run_id /\ new[x].machine_id = x.machine_id
       /\ new[x].by = x.by /\ new[x].started_at = x.started_at
       /\ x.ended => new[x].ended
  /\ runs' = {new[x] : x \in runs}
  /\ UNCHANGED <<machines, twins>>

LEMMA RewriteKeeps ==
  ASSUME RegistryInv, NEW r \in Requests, Turn(r), req[r].pc # "done",
         req[r].pc = "deploy" => req'[r].pc \in {"deploy", "done"},
         NEW new, Rewritten(new)
  PROVE  RunsFrom(r) /\ RunsOK' /\ (runs \subseteq Run)'
<1>1. RunsOK /\ \A m \in Requests : Inserted(m) => Inserted(m)'
  BY PastStays DEF RegistryInv
<1>2. \A x \in runs' : \E y \in runs :
        /\ x = new[y] /\ x.run_id = y.run_id /\ x.machine_id = y.machine_id /\ x.by = y.by
        /\ x.started_at = y.started_at /\ (y.ended => x.ended)
  BY DEF Rewritten
<1>3. RunsFrom(r) /\ (runs \subseteq Run)'
  BY <1>2 DEF Rewritten, RunsFrom
<1>4. \A x \in runs' : MachineExists(x.machine_id)'
  BY <1>1, <1>2 DEF RunsOK, MachineExists, Rewritten
<1>5. \A y \in runs : \E x \in runs' : x.run_id = y.run_id
  BY DEF Rewritten
<1>6. \A t \in twins' : get_run(t)' # {}
  <2>1. SUFFICES ASSUME NEW t \in twins  PROVE get_run(t)' # {}
    BY DEF Rewritten
  <2>2. PICK y \in runs : y.run_id = t
    BY <1>1 DEF RunsOK, get_run
  <2>3. QED  BY <1>5, <2>2 DEF get_run
<1>7. \A x, y \in runs' : x.run_id = y.run_id \/ x.by = y.by => x = y
  <2>1. SUFFICES ASSUME NEW x \in runs', NEW y \in runs', x.run_id = y.run_id \/ x.by = y.by
                 PROVE  x = y
    OBVIOUS
  <2>2. PICK p \in runs : x = new[p] /\ x.run_id = p.run_id /\ x.by = p.by
    BY <1>2
  <2>3. PICK q \in runs : y = new[q] /\ y.run_id = q.run_id /\ y.by = q.by
    BY <1>2
  <2>4. p = q
    BY <1>1, <2>1, <2>2, <2>3 DEF RunsOK
  <2>5. QED  BY <2>2, <2>3, <2>4
<1>8. \A x \in runs' : /\ x.by \in Requests => Inserted(x.by)'
                       /\ x.run_id = Reference => x.machine_id = Shared
  BY <1>1, <1>2 DEF RunsOK
<1>9. \E x \in runs' : x.run_id = Reference
  BY <1>1, <1>5 DEF RunsOK
<1>10. \E b \in Nat : \A x \in runs' : x.started_at <= b
  BY <1>1, <1>2 DEF RunsOK
<1>11. QED  BY <1>3, <1>4, <1>6, <1>7, <1>8, <1>9, <1>10 DEF RunsOK

LEMMA InvRenameRun ==
  ASSUME RegistryInv, NEW r \in Requests, rename_run(r)  PROVE RegistryInv'
<1>1. /\ req[r].pc = "write" /\ req[r].kind = "rename_run"
      /\ UNCHANGED <<machines, twins>> /\ RegistryTypeOK /\ Placed(r)
  BY DEF RegistryInv, rename_run, At, Is
<1>2. Turn(r) /\ req'[r].pc = "done" /\ req'[r].status = 200 /\ req'[r].todo = req[r].todo
  BY <1>1, AnswerTurn DEF rename_run
<1> DEFINE new == [x \in runs |-> IF x.run_id = req[r].run THEN [x EXCEPT !.label = TRUE] ELSE x]
<1>3. Rewritten(new)
  <2>1. runs' = {new[x] : x \in runs}
    BY DEF rename_run
  <2>2. \A x \in runs : /\ new[x] \in Run /\ new[x].run_id = x.run_id
                        /\ new[x].machine_id = x.machine_id /\ new[x].by = x.by
                        /\ new[x].started_at = x.started_at /\ new[x].ended = x.ended
    BY <1>1 DEF RegistryTypeOK, Run
  <2> HIDE DEF new
  <2>3. QED  BY <1>1, <2>1, <2>2 DEF Rewritten
<1> HIDE DEF new
<1>4. RunsFrom(r) /\ RunsOK' /\ (runs \subseteq Run)'
  BY <1>1, <1>2, <1>3, RewriteKeeps
<1>5. MachinesOK' /\ MachinesFrom(r) /\ (machines \subseteq Machine)' /\ (twins \subseteq RunIds)'
  BY <1>1, <1>2, TablesStay
<1>6. \A m \in Requests : Made(m) => Made(m)'
  BY <1>1, <1>2, PastStays
<1>7. Placed(r)'
  BY <1>1, <1>2, <1>6 DEF Placed, Turn, Kept
<1>8. Listed(r)'
  BY <1>1, <1>2, <1>4, StillListed
<1>9. Archived(r)' /\ Gone(r)'
  BY <1>1, <1>2 DEF Archived, Gone, Turn, Kept
<1>10. QED  BY <1>1, <1>2, <1>4, <1>5, <1>7, <1>8, <1>9, TurnKeeps

LEMMA InvEndRun ==
  ASSUME RegistryInv, NEW r \in Requests, end_run(r)  PROVE RegistryInv'
<1>1. /\ req[r].pc = "end" /\ req[r].kind = "tool_change" /\ req[r].status = 0
      /\ UNCHANGED <<machines, twins>> /\ RegistryTypeOK /\ Placed(r) /\ Listed(r) /\ "insert" \in Places
  BY DEF RegistryInv, end_run, At, Placed, Places
<1>2. Turn(r) /\ req'[r].pc = "insert" /\ req'[r].status = 0 /\ req'[r].todo = req[r].todo
  BY <1>1, GoTurn DEF end_run
<1> DEFINE new == [x \in runs |-> IF \E a \in req[r].todo : a.run_id = x.run_id THEN EndRun(x) ELSE x]
<1>3. \A x \in runs : /\ new[x] \in Run /\ new[x].run_id = x.run_id
                      /\ new[x].machine_id = x.machine_id /\ new[x].by = x.by
                      /\ new[x].started_at = x.started_at
                      /\ x.ended => new[x].ended
                      /\ (\E a \in req[r].todo : a.run_id = x.run_id) => new[x].ended
  BY <1>1 DEF RegistryTypeOK, Run, EndRun
<1>4. runs' = {new[x] : x \in runs}
  BY DEF end_run
<1> HIDE DEF new
<1>5. Rewritten(new)
  BY <1>1, <1>3, <1>4 DEF Rewritten
<1>6. RunsFrom(r) /\ RunsOK' /\ (runs \subseteq Run)'
  BY <1>1, <1>2, <1>5, RewriteKeeps
<1>7. MachinesOK' /\ MachinesFrom(r) /\ (machines \subseteq Machine)' /\ (twins \subseteq RunIds)'
  BY <1>1, <1>2, TablesStay
<1>8. \A m \in Requests : Made(m) => Made(m)'
  BY <1>1, <1>2, PastStays
<1>9. Placed(r)'
  BY <1>1, <1>2, <1>8 DEF Placed, Turn, Kept
<1>10. Listed(r)'
  BY <1>1, <1>2, <1>6, StillListed
<1>11. Archived(r)'
  <2>1. ASSUME NEW a \in req[r].todo, NEW x \in runs', x.by = a.by  PROVE x.ended
    <3>1. PICK y \in runs : x = new[y]
      BY <1>4
    <3>2. y.by = a.by
      BY <1>3, <2>1, <3>1
    <3>3. y.run_id = a.run_id
      BY <1>1, <3>2 DEF Listed
    <3>4. QED  BY <1>3, <3>1, <3>3
  <2>2. QED  BY <1>2, <2>1 DEF Archived
<1>12. Gone(r)'
  BY <1>2 DEF Gone
<1>13. QED  BY <1>1, <1>2, <1>6, <1>7, <1>9, <1>10, <1>11, <1>12, TurnKeeps

LEMMA DropKeeps ==
  ASSUME RegistryInv, NEW r \in Requests, Turn(r), req[r].pc # "done",
         req[r].pc = "deploy" => req'[r].pc \in {"deploy", "done"},
         NEW id, id # Reference, DropRun(id), UNCHANGED machines
  PROVE  /\ RunsFrom(r) /\ RunsOK' /\ (runs \subseteq Run)' /\ (twins \subseteq RunIds)'
<1>1. RegistryTypeOK /\ RunsOK /\ \A m \in Requests : Inserted(m) => Inserted(m)'
  BY PastStays DEF RegistryInv
<1>2. \A x : x \in runs' <=> x \in runs /\ x.run_id # id
  BY DEF DropRun, get_run
<1>3. twins' = twins \ {id}
  BY DEF DropRun
<1>4. \A x \in runs' : MachineExists(x.machine_id)'
  BY <1>1, <1>2 DEF RunsOK, MachineExists
<1>5. \A t \in twins' : get_run(t)' # {}
  <2>1. SUFFICES ASSUME NEW t \in twins, t # id  PROVE get_run(t)' # {}
    BY <1>3
  <2>2. PICK y \in runs : y.run_id = t
    BY <1>1 DEF RunsOK, get_run
  <2>3. y \in runs'
    BY <1>2, <2>1, <2>2
  <2>4. QED  BY <2>2, <2>3 DEF get_run
<1>6. \E x \in runs' : x.run_id = Reference
  BY <1>1, <1>2 DEF RunsOK
<1>7. RunsOK'
  BY <1>1, <1>2, <1>4, <1>5, <1>6 DEF RunsOK
<1>8. QED  BY <1>1, <1>2, <1>3, <1>7 DEF RunsFrom, RegistryTypeOK

LEMMA InvDeleteRun ==
  ASSUME RegistryInv, NEW r \in Requests, delete_run(r)  PROVE RegistryInv'
<1>1. /\ req[r].pc = "write" /\ req[r].kind = "delete_run" /\ req[r].run # Reference
      /\ DropRun(req[r].run) /\ UNCHANGED machines /\ RegistryTypeOK /\ Placed(r)
  BY DEF RegistryInv, delete_run, At, Is, Placed
<1>2. Turn(r) /\ req'[r].pc = "done" /\ req'[r].status = 200 /\ req'[r].todo = req[r].todo
  BY <1>1, AnswerTurn DEF delete_run
<1>3. RunsFrom(r) /\ RunsOK' /\ (runs \subseteq Run)' /\ (twins \subseteq RunIds)'
  BY <1>1, <1>2, DropKeeps
<1>4. MachinesOK' /\ MachinesFrom(r) /\ (machines \subseteq Machine)'
  BY <1>1, <1>2, TablesStay
<1>5. \A m \in Requests : Made(m) => Made(m)'
  BY <1>1, <1>2, PastStays
<1>6. Placed(r)'
  BY <1>1, <1>2, <1>5 DEF Placed, Turn, Kept
<1>7. Listed(r)'
  BY <1>1, <1>2, <1>3, StillListed
<1>8. Archived(r)' /\ Gone(r)'
  BY <1>1, <1>2 DEF Archived, Gone, Turn, Kept
<1>9. QED  BY <1>1, <1>2, <1>3, <1>4, <1>6, <1>7, <1>8, TurnKeeps

LEMMA InvDropNext ==
  ASSUME RegistryInv, NEW r \in Requests, DropNext(r)  PROVE RegistryInv'
<1>1. /\ req[r].pc = "machine" /\ req[r].kind = "delete_machine" /\ req[r].status = 0
      /\ UNCHANGED machines /\ RegistryTypeOK /\ Placed(r)
      /\ req[r] \in Request
  BY DEF RegistryInv, RegistryTypeOK, DropNext, At, Placed
<1>2. PICK d \in Latest(req[r].todo) :
        DropRun(d.run_id) /\ req' = [req EXCEPT ![r].todo = @ \ {d}]
  BY DEF DropNext
<1> SUFFICES ASSUME NEW S, S = req[r].todo \ {d}  PROVE RegistryInv'
  OBVIOUS
<1> DEFINE q == [req[r] EXCEPT !.todo = S]
<1>3. d.run_id # Reference
  BY <1>1, <1>2 DEF Placed, Latest
<1>4. req' = [req EXCEPT ![r] = q]
  BY <1>2, Zenon
<1>5. S \in SUBSET Run /\ S \subseteq req[r].todo
  BY <1>1 DEF Request
<1>6. q \in Request /\ Kept(req[r], q) /\ q.pc = "machine" /\ q.status = 0 /\ q.todo = S
  BY <1>1, <1>5, WithTodo
<1> HIDE DEF q
<1>7. Turn(r) /\ req'[r] = q
  BY <1>1, <1>4, <1>6, TurnOf
<1>8. RunsFrom(r) /\ RunsOK' /\ (runs \subseteq Run)' /\ (twins \subseteq RunIds)'
  BY <1>1, <1>2, <1>3, <1>7, DropKeeps
<1>9. MachinesOK' /\ MachinesFrom(r) /\ (machines \subseteq Machine)'
  BY <1>1, <1>7, TablesStay
<1>10. \A m \in Requests : Made(m) => Made(m)'
  BY <1>1, <1>7, PastStays
<1>11. Placed(r)'
  BY <1>1, <1>5, <1>6, <1>7, <1>10 DEF Placed, Turn, Kept
<1>12. Listed(r)'
  BY <1>1, <1>5, <1>6, <1>7, <1>8, StillListed
<1>13. Archived(r)' /\ Gone(r)'
  BY <1>1, <1>6, <1>7 DEF Archived, Gone, Turn, Kept
<1>14. QED  BY <1>1, <1>7, <1>8, <1>9, <1>11, <1>12, <1>13, TurnKeeps

LEMMA InvCreateRun ==
  ASSUME RegistryInv, NEW r \in Requests, create_run(r)  PROVE RegistryInv'
<1>1. /\ req[r].pc = "insert" /\ req[r].kind \in {"create_run", "tool_change"} /\ req[r].status = 0
      /\ UNCHANGED <<machines, twins>> /\ RegistryTypeOK /\ Placed(r) /\ Listed(r) /\ Archived(r) /\ RunsOK
      /\ req[r].run \in RunIds /\ req[r].machine \in MachineIds /\ "deploy" \in Places /\ r \in RunIds
      /\ req[r].todo \subseteq Run
  BY DEF RegistryInv, RegistryTypeOK, Request, create_run, At, Placed, Places, RunIds
<1>2. CASE ~ (get_run(req[r].run) = {} /\ MachineExists(req[r].machine))
  BY <1>1, <1>2, FailKeeps DEF create_run
<1>3. CASE get_run(req[r].run) = {} /\ MachineExists(req[r].machine)
  <2>1. Turn(r) /\ req'[r].pc = "deploy" /\ req'[r].status = 0 /\ req'[r].todo = req[r].todo
    BY <1>1, <1>3, GoTurn DEF create_run
  <2>2. PICK last : last \in Latest(runs) /\ last = CHOOSE x \in Latest(runs) : TRUE
    <3>1. runs # {} /\ \A x \in runs : x.started_at \in Nat
      BY <1>1 DEF RunsOK, RegistryTypeOK, Run
    <3>2. PICK b \in Nat : \A x \in runs : x.started_at <= b
      BY <1>1 DEF RunsOK
    <3>3. Latest(runs) # {}
      BY <3>1, <3>2, LatestThere
    <3>4. QED  BY <3>3
  <2>3. /\ last.started_at \in Nat /\ \A x \in runs : x.started_at <= last.started_at
        /\ \A x \in runs : x.started_at \in Nat
    BY <1>1, <2>2 DEF Latest, RegistryTypeOK, Run
  <2>4. SUFFICES ASSUME NEW n, n = NewRun(req[r].run, req[r].machine, 1 + last.started_at, r)
                 PROVE  RegistryInv'
    OBVIOUS
  <2>5. runs' = runs \cup {n}
    BY <1>3, <2>2, <2>4 DEF create_run
  <2>6. /\ n.run_id = req[r].run /\ n.machine_id = req[r].machine /\ n.by = r
        /\ n.started_at = 1 + last.started_at /\ n \in Run
    BY <1>1, <2>3, <2>4 DEF NewRun, Run
  <2>7. (\A m \in Requests : Made(m) => Made(m)') /\ (\A m \in Requests : Inserted(m) => Inserted(m)')
        /\ Inserted(r)' /\ ~ Inserted(r)
    BY <1>1, <2>1, PastStays DEF Inserted
  <2>8. \A x \in runs : x.run_id # n.run_id /\ x.by # r
    BY <1>1, <1>3, <2>6, <2>7 DEF get_run, RunsOK
  <2>9. RunsFrom(r)
    BY <1>1, <1>3, <2>5, <2>6 DEF RunsFrom
  <2>10. RunsOK'
    <3>1. \A x \in runs' : MachineExists(x.machine_id)'
      BY <1>1, <1>3, <2>5, <2>6 DEF RunsOK, MachineExists
    <3>2. \A t \in twins' : get_run(t)' # {}
      BY <1>1, <2>5 DEF RunsOK, get_run
    <3>3. \A x, y \in runs' : x.run_id = y.run_id \/ x.by = y.by => x = y
      BY <1>1, <2>5, <2>6, <2>8 DEF RunsOK
    <3>4. \A x \in runs' : x.by \in Requests => Inserted(x.by)'
      BY <1>1, <2>5, <2>6, <2>7 DEF RunsOK
    <3>5. n.run_id # Reference
      BY <1>1, <2>8 DEF RunsOK
    <3>6. (\A x \in runs' : x.run_id = Reference => x.machine_id = Shared) /\ \E x \in runs' : x.run_id = Reference
      BY <1>1, <2>5, <3>5 DEF RunsOK
    <3>7. \A x \in runs' : x.started_at <= 1 + last.started_at
      BY <2>3, <2>5, <2>6
    <3>8. \E b \in Nat : \A x \in runs' : x.started_at <= b
      BY <2>3, <3>7
    <3>9. QED  BY <3>1, <3>2, <3>3, <3>4, <3>6, <3>8 DEF RunsOK
  <2>11. (runs \subseteq Run)'
    BY <1>1, <2>5, <2>6 DEF RegistryTypeOK
  <2>12. MachinesOK' /\ MachinesFrom(r) /\ (machines \subseteq Machine)' /\ (twins \subseteq RunIds)'
    BY <1>1, <2>1, TablesStay
  <2>13. Placed(r)'
    BY <1>1, <2>1, <2>7 DEF Placed, Turn, Kept
  <2>14. Listed(r)'
    BY <1>1, <2>1, <2>9, StillListed
  <2>15. Archived(r)'
    <3>1. \A a \in req[r].todo : a.by # r
      BY <1>1, <2>7 DEF Listed
    <3>2. QED  BY <1>1, <2>1, <2>5, <2>6, <3>1 DEF Archived, Turn, Kept
  <2>16. Gone(r)'
    BY <1>1, <2>1 DEF Gone, Turn, Kept
  <2>17. QED  BY <1>1, <2>1, <2>9, <2>10, <2>11, <2>12, <2>13, <2>14, <2>15, <2>16, TurnKeeps
<1>4. QED  BY <1>2, <1>3

LEMMA InvDeploy ==
  ASSUME RegistryInv, NEW r \in Requests, Deploy(r)  PROVE RegistryInv'
<1>1. /\ req[r].pc = "deploy" /\ req[r].kind \in {"create_run", "tool_change"} /\ req[r].status = 0
      /\ UNCHANGED <<machines, runs>> /\ RegistryTypeOK /\ Placed(r) /\ Archived(r) /\ RunsOK
      /\ req[r].run \in RunIds
  BY DEF RegistryInv, RegistryTypeOK, Request, Deploy, At, Placed
<1>2. CASE get_run(req[r].run) = {}
  BY <1>1, <1>2, FailKeeps DEF Deploy
<1>3. CASE get_run(req[r].run) # {}
  <2>1. Turn(r) /\ req'[r].pc = "done" /\ req'[r].status = 200 /\ req'[r].todo = req[r].todo
    BY <1>1, <1>3, AnswerTurn DEF Deploy
  <2>2. twins' = twins \cup {req[r].run}
    BY <1>3 DEF Deploy
  <2>3. /\ \A m \in Requests : Made(m) => Made(m)'
        /\ \A m \in Requests : Inserted(m) => Inserted(m)'
    BY <1>1, <2>1, PastStays
  <2>4. /\ MachinesOK' /\ MachinesFrom(r) /\ (machines \subseteq Machine)'
        /\ RunsFrom(r) /\ (runs \subseteq Run)'
    BY <1>1, <2>1, TablesStay
  <2>5. (twins \subseteq RunIds)'
    BY <1>1, <2>2 DEF RegistryTypeOK
  <2>6. RunsOK'
    <3>1. \A x \in runs' : MachineExists(x.machine_id)'
      BY <1>1 DEF RunsOK, MachineExists
    <3>2. \A t \in twins' : get_run(t)' # {}
      BY <1>1, <1>3, <2>2 DEF RunsOK, get_run
    <3>3. QED  BY <1>1, <2>3, <3>1, <3>2 DEF RunsOK
  <2>7. Placed(r)'
    BY <1>1, <2>1, <2>3 DEF Placed, Turn, Kept
  <2>8. Listed(r)'
    BY <1>1, <2>1, <2>4, StillListed
  <2>9. Archived(r)' /\ Gone(r)'
    BY <1>1, <2>1 DEF Archived, Gone, Turn, Kept
  <2>10. QED  BY <1>1, <2>1, <2>4, <2>5, <2>6, <2>7, <2>8, <2>9, TurnKeeps
<1>4. QED  BY <1>2, <1>3

-----------------------------------------------------------------------------
\* Steps that are no request's turn.

\* If the tables stay and whoever had made a machine or inserted a run still has, the
\* invariant holds of the tables.
LEMMA TablesKept ==
  ASSUME RegistryInv, UNCHANGED <<machines, runs, twins>>,
         \A m \in Requests : Made(m) => Made(m)',
         \A m \in Requests : Inserted(m) => Inserted(m)'
  PROVE  MachinesOK' /\ RunsOK'
<1>1. MachinesOK /\ RunsOK
  BY DEF RegistryInv
<1>2. \A x \in runs' : MachineExists(x.machine_id)'
  BY <1>1 DEF RunsOK, MachineExists
<1>3. \A t \in twins' : get_run(t)' # {}
  BY <1>1 DEF RunsOK, get_run
<1>4. QED  BY <1>1, <1>2, <1>3 DEF RunsOK, MachinesOK

LEMMA InvArrive ==
  ASSUME RegistryInv, NEW r \in Requests, Arrive(r)  PROVE RegistryInv'
<1>1. /\ req[r].pc = "new" /\ req[r].status = 0 /\ UNCHANGED <<machines, runs, twins>>
      /\ RegistryTypeOK /\ MachinesOK /\ RunsOK
  BY DEF RegistryInv, Placed, Arrive, At
<1>2. PICK k \in Kinds, u \in Users, m \in {x.machine_id : x \in machines},
           id \in {r, Reference} \cup DOMAIN OnOf \cup {x.run_id : x \in runs} :
        req' = [req EXCEPT ![r] = [pc |-> "check", kind |-> k, user |-> u, machine |-> m,
                                   run |-> id, todo |-> {}, status |-> 0]]
  BY Zenon DEF Arrive
<1>3. SUFFICES ASSUME NEW q, q = [pc |-> "check", kind |-> k, user |-> u, machine |-> m,
                                  run |-> id, todo |-> {}, status |-> 0]
               PROVE  RegistryInv'
  OBVIOUS
<1>4. /\ q.pc = "check" /\ q.kind = k /\ q.machine = m /\ q.todo = {} /\ q.status = 0
  BY <1>3
<1>5. PICK x \in machines : m = x.machine_id
  BY <1>2
<1>6. m \in MachineIds /\ (m \in Requests => Made(m))
  BY <1>1, <1>5 DEF RegistryTypeOK, Machine, MachinesOK
<1>7. id \in RunIds
  BY <1>1, <1>2 DEF RegistryTypeOK, Run, RunIds
<1>8. q \in Request
  BY <1>3, <1>6, <1>7 DEF Request
<1>9. req' \in [Requests -> Request] /\ req'[r] = q /\ \A s \in Requests \ {r} : req'[s] = req[s]
  BY <1>1, <1>2, <1>3, <1>8 DEF RegistryTypeOK
<1>10. /\ \A s \in Requests : Made(s) => Made(s)'
       /\ \A s \in Requests : Inserted(s) => Inserted(s)'
  BY <1>1, <1>9 DEF Made, Inserted
<1>11. RegistryTypeOK' /\ MachinesOK' /\ RunsOK'
  BY <1>1, <1>9, <1>10, TablesKept DEF RegistryTypeOK
<1>12. k # "none"
  BY RegistryAssumption
<1>13. (Placed(r) /\ Listed(r) /\ Archived(r) /\ Gone(r))'
  BY <1>4, <1>6, <1>9, <1>10, <1>12 DEF Placed, Listed, Archived, Gone
<1>14. ASSUME NEW s \in Requests, s # r  PROVE (Placed(s) /\ Listed(s) /\ Archived(s) /\ Gone(s))'
  <2>1. req'[s] = req[s] /\ Placed(s) /\ Listed(s) /\ Archived(s) /\ Gone(s)
    BY <1>9, <1>14 DEF RegistryInv
  <2>2. QED  BY <1>1, <1>10, <2>1 DEF Placed, Listed, Archived, Gone, MachineExists, RunsOf
<1>15. QED  BY <1>11, <1>13, <1>14 DEF RegistryInv

LEMMA InvRestart == RegistryInv /\ Restart => RegistryInv'
<1> SUFFICES ASSUME RegistryInv, Restart  PROVE RegistryInv'
  OBVIOUS
<1>1. /\ req \in [Requests -> Request] /\ UNCHANGED <<machines, runs, twins>> /\ RegistryTypeOK
      /\ req' = [r \in Requests |-> IF req[r].pc = "new" THEN req[r] ELSE [req[r] EXCEPT !.pc = "done"]]
  BY DEF RegistryInv, RegistryTypeOK, Restart, At
<1>2. ASSUME NEW r \in Requests
      PROVE  /\ req'[r] \in Request /\ Kept(req[r], req'[r])
             /\ \/ req[r].pc = "new" /\ req'[r].pc = "new"
                \/ req[r].pc # "new" /\ req'[r].pc = "done"
             /\ req'[r].status = req[r].status /\ req'[r].todo = req[r].todo
  <2>1. CASE req[r].pc = "new"
    <3>1. req'[r] = req[r]
      BY <1>1, <2>1
    <3>2. QED  BY <1>1, <2>1, <3>1 DEF Kept
  <2>2. CASE req[r].pc # "new"
    <3> DEFINE q == [req[r] EXCEPT !.pc = "done"]
    <3>1. req'[r] = q
      BY <1>1, <2>2
    <3>2. req[r] \in Request /\ "done" \in Places
      BY <1>1 DEF Places
    <3>3. q \in Request /\ Kept(req[r], q) /\ q.pc = "done" /\ q.status = req[r].status /\ q.todo = req[r].todo
      BY <3>2, WithPc
    <3> HIDE DEF q
    <3>4. QED  BY <2>2, <3>1, <3>3
  <2>3. QED  BY <2>1, <2>2
<1>3. /\ \A m \in Requests : Made(m) => Made(m)'
      /\ \A m \in Requests : Inserted(m) => Inserted(m)'
  BY <1>2 DEF Made, Inserted, Kept
<1>4. RegistryTypeOK'
  <2>1. req' \in [Requests -> Request]
    BY <1>1, <1>2
  <2>2. QED  BY <1>1, <2>1 DEF RegistryTypeOK
<1>5. MachinesOK' /\ RunsOK'
  BY <1>1, <1>3, TablesKept
<1>6. ASSUME NEW s \in Requests  PROVE (Placed(s) /\ Listed(s) /\ Archived(s) /\ Gone(s))'
  <2>1. Placed(s) /\ Listed(s) /\ Archived(s) /\ Gone(s)
    BY DEF RegistryInv
  <2>2. /\ Kept(req[s], req'[s]) /\ req'[s].status = req[s].status /\ req'[s].todo = req[s].todo
        /\ \/ req[s].pc = "new" /\ req'[s].pc = "new"
           \/ req[s].pc # "new" /\ req'[s].pc = "done"
    BY <1>2
  <2>3. Placed(s)'
    BY <1>3, <2>1, <2>2 DEF Placed, Kept
  <2>4. Listed(s)'
    BY <1>1, <1>3, <2>1, <2>2 DEF Listed
  <2>5. Archived(s)' /\ Gone(s)'
    BY <1>1, <2>1, <2>2 DEF Archived, Gone, Kept, MachineExists, RunsOf
  <2>6. QED  BY <2>3, <2>4, <2>5
<1>7. QED  BY <1>4, <1>5, <1>6 DEF RegistryInv

LEMMA RegistryInvInit == RegistryInit => RegistryInv
<1> SUFFICES ASSUME RegistryInit  PROVE RegistryInv
  OBVIOUS
<1>1. PICK u \in Users :
        req = [r \in Requests |-> [pc |-> "new", kind |-> "none", user |-> u, machine |-> Shared,
                                   run |-> Reference, todo |-> {}, status |-> 0]]
  BY DEF RegistryInit
<1>2. ASSUME NEW r \in Requests
      PROVE  /\ req[r] = [pc |-> "new", kind |-> "none", user |-> u, machine |-> Shared,
                          run |-> Reference, todo |-> {}, status |-> 0]
             /\ req[r] \in Request
  BY <1>1 DEF Request, MachineIds, RunIds
<1>3. req \in [Requests -> Request]
  BY <1>1, <1>2
<1>4. /\ \A r \in Requests : Placed(r) /\ Listed(r) /\ Archived(r) /\ Gone(r)
  BY <1>2, RegistryAssumption DEF Placed, Listed, Archived, Gone
<1>5. \A m \in machines :
        /\ m \in Machine
        /\ \/ m.machine_id = Shared /\ m.owner_id = System
           \/ m.machine_id \in DOMAIN OwnerOf
  <2>1. SUFFICES ASSUME NEW m \in machines
                 PROVE  /\ m \in Machine
                        /\ \/ m.machine_id = Shared /\ m.owner_id = System
                           \/ m.machine_id \in DOMAIN OwnerOf
    OBVIOUS
  <2>2. CASE m = [machine_id |-> Shared, owner_id |-> System, name |-> FALSE]
    BY <2>2 DEF Machine, MachineIds
  <2>3. ASSUME NEW d \in DOMAIN OwnerOf, m = [machine_id |-> d, owner_id |-> OwnerOf[d], name |-> FALSE]
        PROVE  m \in Machine /\ m.machine_id = d
    <3>1. OwnerOf[d] \in Users
      BY RegistryAssumption
    <3>2. QED  BY <2>3, <3>1 DEF Machine, MachineIds
  <2>4. QED  BY <2>2, <2>3 DEF RegistryInit
<1>6. MachinesOK
  BY <1>5, RegistryAssumption DEF MachinesOK
<1>7. ASSUME NEW x \in runs
      PROVE  /\ x \in Run /\ x.started_at = 0 /\ x.by = x.run_id
             /\ \/ x = NewRun(Reference, Shared, 0, Reference) /\ x.run_id = Reference /\ x.machine_id = Shared
                \/ \E y \in DOMAIN OnOf : x = NewRun(y, OnOf[y], 0, y) /\ x.run_id = y /\ x.machine_id = OnOf[y]
  <2>1. CASE x = NewRun(Reference, Shared, 0, Reference)
    BY <2>1 DEF NewRun, Run, RunIds, MachineIds
  <2>2. ASSUME NEW y \in DOMAIN OnOf, x = NewRun(y, OnOf[y], 0, y)
        PROVE  /\ x \in Run /\ x.started_at = 0 /\ x.by = x.run_id
               /\ x.run_id = y /\ x.machine_id = OnOf[y]
    <3>1. y \in RunIds /\ OnOf[y] \in MachineIds
      BY RegistryAssumption DEF RunIds, MachineIds
    <3>2. QED  BY <2>2, <3>1 DEF NewRun, Run
  <2>3. x = NewRun(Reference, Shared, 0, Reference) \/ \E y \in DOMAIN OnOf : x = NewRun(y, OnOf[y], 0, y)
    BY DEF RegistryInit
  <2>4. QED  BY <2>1, <2>2, <2>3
<1>8. \A x \in runs : \/ x.run_id = Reference /\ x.machine_id = Shared
                      \/ x.run_id \in DOMAIN OnOf /\ x.machine_id \in DOMAIN OwnerOf
  BY <1>7, RegistryAssumption
<1>9. NewRun(Reference, Shared, 0, Reference) \in runs
  BY DEF RegistryInit
<1>10. NewRun(Reference, Shared, 0, Reference).run_id = Reference
  BY DEF NewRun
<1>11. \A t \in twins : \E x \in runs : x.run_id = t
  <2>1. ASSUME NEW t \in DOMAIN OnOf  PROVE \E x \in runs : x.run_id = t
    <3>1. NewRun(t, OnOf[t], 0, t) \in runs
      BY DEF RegistryInit
    <3>2. NewRun(t, OnOf[t], 0, t).run_id = t
      BY DEF NewRun
    <3>3. QED  BY <3>1, <3>2
  <2>2. twins = {Reference} \cup DOMAIN OnOf
    BY DEF RegistryInit
  <2>3. QED  BY <1>9, <1>10, <2>1, <2>2
<1>12. RunsOK
  <2>1. \A x, y \in runs : x.run_id = y.run_id \/ x.by = y.by => x = y
    BY <1>7, RegistryAssumption
  <2>2. \A x \in runs : MachineExists(x.machine_id)
    <3>1. \E y \in machines : y.machine_id = Shared
      <4>1. [machine_id |-> Shared, owner_id |-> System, name |-> FALSE] \in machines
        BY DEF RegistryInit
      <4>2. QED  BY <4>1
    <3>2. ASSUME NEW d \in DOMAIN OwnerOf  PROVE \E y \in machines : y.machine_id = d
      <4>1. [machine_id |-> d, owner_id |-> OwnerOf[d], name |-> FALSE] \in machines
        BY DEF RegistryInit
      <4>2. QED  BY <4>1
    <3>3. QED  BY <1>8, <3>1, <3>2 DEF MachineExists
  <2>3. \A x \in runs : x.by \notin Requests
    BY <1>7, <1>8, RegistryAssumption
  <2>4. \A x \in runs : x.run_id = Reference => x.machine_id = Shared
    BY <1>8, RegistryAssumption
  <2>5. \E x \in runs : x.run_id = Reference
    BY <1>9, <1>10
  <2>6. \E b \in Nat : \A x \in runs : x.started_at <= b
    BY <1>7
  <2>7. QED  BY <1>11, <2>1, <2>2, <2>3, <2>4, <2>5, <2>6 DEF RunsOK, get_run
<1>13. twins \subseteq RunIds
  BY DEF RegistryInit, RunIds
<1>14. QED  BY <1>3, <1>4, <1>5, <1>6, <1>7, <1>12, <1>13 DEF RegistryInv, RegistryTypeOK

LEMMA RegistryInvNext == RegistryInv /\ [RegistryNext]_registryVars => RegistryInv'
<1> SUFFICES ASSUME RegistryInv, [RegistryNext]_registryVars  PROVE RegistryInv'
  OBVIOUS
<1>1. CASE Restart
  BY <1>1, InvRestart
<1>2. ASSUME NEW r \in Requests, Serve(r)  PROVE RegistryInv'
  BY <1>2, InvArrive, InvCreateMachine, InvCheckMachine, InvRenameMachine, InvStartRun, InvStartNewRun,
     InvEndRun,
     InvCreateRun, InvDeploy, InvCheckRun, InvRenameRun, InvDeleteRun, InvListRuns, InvDropNext,
     InvDeleteMachine, InvRaise DEF Serve
<1>3. CASE UNCHANGED registryVars
  <2>1. UNCHANGED <<machines, runs, twins, req>>
    BY <1>3 DEF registryVars
  <2>2. MachinesOK' /\ RunsOK'
    BY <2>1, TablesKept DEF Made, Inserted
  <2>3. RegistryTypeOK'
    BY <2>1 DEF RegistryInv, RegistryTypeOK
  <2>4. \A r \in Requests : (Placed(r) /\ Listed(r) /\ Archived(r) /\ Gone(r))'
    BY <2>1 DEF RegistryInv, Placed, Listed, Archived, Gone, Made, Inserted, MachineExists, RunsOf
  <2>5. QED  BY <2>2, <2>3, <2>4 DEF RegistryInv
<1>4. QED  BY <1>1, <1>2, <1>3 DEF RegistryNext

-----------------------------------------------------------------------------
\* However requests on machines and runs interleave, fail and die between their
\* statements (app.py:188-313, lifecycle.py:24-50): what a DELETE was answered 200 for is
\* gone for good, no run is left without its machine nor a twin without its run, and a
\* tool change leaves the run it replaced ended.
THEOREM RegistryIsSafe == RegistrySpec => []RegistrySafe
<1>1. RegistryInv => RegistrySafe
  <2> SUFFICES ASSUME RegistryInv  PROVE RegistrySafe
    OBVIOUS
  <2>1. DeletedForGood
    BY DEF RegistryInv, RunsOK, Gone, MachineExists, DeletedForGood
  <2>2. ToolChangeArchives
    BY DEF RegistryInv, Archived, ToolChangeArchives
  <2>3. QED  BY <2>1, <2>2 DEF RegistrySafe, RegistryInv
<1>2. QED  BY <1>1, RegistryInvInit, RegistryInvNext, PTL DEF RegistrySpec
=============================================================================
