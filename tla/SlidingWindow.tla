--------------------------- MODULE SlidingWindow ---------------------------
(***************************************************************************)
(* What the limiter of the auth endpoints promises its callers: of one key *)
(* it admits at most Limit requests per Window, and it turns a request     *)
(* away only for that reason, both up to a tolerance Slack on real time.   *)
(***************************************************************************)
EXTENDS Naturals, Sequences

CONSTANTS
  Keys,     \* client addresses
  Callers,  \* worker threads that serve /auth/signup or /auth/login
  Limit, Window, Slack,
  Yes, No   \* the two answers

ASSUME WindowAssumption ==
  /\ Limit \in Nat \ {0} /\ Window \in Nat /\ Slack \in Nat /\ Slack <= Window
  /\ Yes # No /\ Yes \notin Keys /\ No \notin Keys

VARIABLES
  time,     \* real time
  granted,  \* per key, when each admitted request was admitted
  asks      \* per caller, the key it is asking about or the answer it was given

windowVars == <<time, granted, asks>>

\* The last Limit admissions of k all happened within the last w.
Crowded(k, w) ==
  LET n == Len(granted[k])
  IN  n >= Limit /\ granted[k][n - Limit + 1] + w > time

WindowInit ==
  /\ time = 0
  /\ granted = [k \in Keys |-> <<>>]
  /\ asks = [c \in Callers |-> No]

Ask(c, k) ==
  /\ asks[c] \notin Keys
  /\ asks' = [asks EXCEPT ![c] = k]
  /\ UNCHANGED <<time, granted>>

Grant(c) ==
  /\ asks[c] \in Keys
  /\ ~ Crowded(asks[c], Window - Slack)
  /\ granted' = [granted EXCEPT ![asks[c]] = Append(@, time)]
  /\ asks' = [asks EXCEPT ![c] = Yes]
  /\ UNCHANGED time

Deny(c) ==
  /\ asks[c] \in Keys
  /\ Crowded(asks[c], Window + Slack)
  /\ asks' = [asks EXCEPT ![c] = No]
  /\ UNCHANGED <<time, granted>>

Pass == time' = time + 1 /\ UNCHANGED <<granted, asks>>

WindowNext ==
  \/ Pass
  \/ \E c \in Callers : Grant(c) \/ Deny(c) \/ \E k \in Keys : Ask(c, k)

WindowSpec == WindowInit /\ [][WindowNext]_windowVars
=============================================================================
