---------------------------- MODULE RateLimiter ----------------------------
(***************************************************************************)
(* auth/ratelimit.py: one deque of time stamps per client address, shared  *)
(* by the worker threads that serve signup and login.  allow() reads the   *)
(* clock before it takes the lock, so stamps may enter the deque late and  *)
(* out of order, while its clean-up looks at the head of the deque only.   *)
(***************************************************************************)
EXTENDS SlidingWindow

CONSTANT MaxTime   \* bound: the clock stops here

VARIABLES
  hits,   \* _hits: per key, the deque of stamps, oldest entry first
  stamp   \* per caller, the local variable now

limiterVars == <<time, granted, asks, hits, stamp>>

LimiterInit ==
  /\ WindowInit
  /\ hits = [k \in Keys |-> <<>>]
  /\ stamp = [c \in Callers |-> 0]

\* now = time.monotonic(), before the lock.
ReadClock(c, k) ==
  /\ Ask(c, k)
  /\ stamp' = [stamp EXCEPT ![c] = time]
  /\ UNCHANGED hits

BugStale(at, now) == FALSE   \* no clean-up
Stale(at, now) == at + Window <= now

\* The while loop pops the first n entries of dq: all are stale, the next is not.
Popped(dq, now, n) ==
  /\ \A i \in 1..n : Stale(dq[i], now)
  /\ n < Len(dq) => ~ Stale(dq[n + 1], now)

BugRoom(dq) == Len(dq) <= Limit
Room(dq) == Len(dq) < Limit

\* The body of "with self._lock": nobody sees the deque between its statements.
Decide(c) ==
  LET k == asks[c]
  IN  /\ k \in Keys
      /\ \E n \in 0..Len(hits[k]) :
           LET dq == SubSeq(hits[k], n + 1, Len(hits[k]))
           IN  /\ Popped(hits[k], stamp[c], n)
               /\ IF Room(dq)
                    THEN /\ hits' = [hits EXCEPT ![k] = Append(dq, stamp[c])]
                         /\ granted' = [granted EXCEPT ![k] = Append(@, time)]
                         /\ asks' = [asks EXCEPT ![c] = Yes]
                    ELSE /\ hits' = [hits EXCEPT ![k] = dq]
                         /\ asks' = [asks EXCEPT ![c] = No]
                         /\ UNCHANGED granted
      /\ UNCHANGED <<time, stamp>>

\* Time passes, but no caller takes longer than Slack from its stamp to the lock.
Tick ==
  /\ time < MaxTime
  /\ \A c \in Callers : asks[c] \in Keys => time < stamp[c] + Slack
  /\ Pass
  /\ UNCHANGED <<hits, stamp>>

LimiterNext == Tick \/ \E c \in Callers : Decide(c) \/ \E k \in Keys : ReadClock(c, k)

LimiterSpec == LimiterInit /\ [][LimiterNext]_limiterVars

-----------------------------------------------------------------------------
\* Types: the deque never holds more than Limit stamps.
LimiterTypeOK ==
  /\ time \in Nat
  /\ granted \in [Keys -> Seq(Nat)]
  /\ asks \in [Callers -> Keys \cup {Yes, No}]
  /\ stamp \in [Callers -> Nat]
  /\ hits \in [Keys -> Seq(Nat)]
  /\ \A k \in Keys : Len(hits[k]) <= Limit

\* Behind the deque: it holds the stamps of the last admissions of its key, each
\* at most Slack older than the admission, and every admission it has dropped lies
\* Window - Slack or more in the past, although the loop stops at the first entry
\* that is not stale.
DequeIsRecent ==
  \A k \in Keys :
    LET d == Len(granted[k]) - Len(hits[k])
    IN  /\ d >= 0
        /\ \A i \in 1..Len(hits[k]) :
             hits[k][i] <= granted[k][d + i] /\ granted[k][d + i] <= hits[k][i] + Slack
        /\ \A i \in 1..d : granted[k][i] + (Window - Slack) <= time

\* However the threads' stamps are reordered on their way to the lock, no stretch
\* of Window - Slack sees more than Limit admissions of one address.
NoOverrun ==
  \A k \in Keys : \A i \in 1..Len(granted[k]) :
    i > Limit => granted[k][i] >= granted[k][i - Limit] + (Window - Slack)

\* allow() implements the sliding window: it admits only when the window has room,
\* and it refuses only an address that was admitted Limit times within
\* Window + Slack, even when a stale stamp is hidden behind a younger head.
RefinesWindow == WindowSpec
=============================================================================
