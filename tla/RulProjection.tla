--------------------------- MODULE RulProjection ---------------------------
(***************************************************************************)
(* project_rul (twin/rul.py): samples of the wear cloud walk forward, cut  *)
(* by cut, until each reaches the threshold or the horizon is over.  The   *)
(* walk of every sample is kept in path, to say what the result should be. *)
(***************************************************************************)
EXTENDS Integers, FiniteSets

CONSTANTS
  N,            \* samples
  Top,          \* wear runs from 1 (_WEAR_MIN) to Top (_WEAR_MAX)
  Threshold, Horizon,
  Advance       \* what one cut does to a wear

Samples == 1..N
Wear == 1..Top

ASSUME ProjectionAssumption ==
  /\ N \in Nat \ {0} /\ Top \in Nat \ {0} /\ Horizon \in Nat
  /\ Threshold \in Nat /\ Advance \in [Wear -> Nat]

VARIABLES
  w, rul, alive,
  step,       \* the last step taken
  pc,         \* "walk" or "done"
  path        \* of each sample, the wear before step 1, after it, and so on

vars == <<w, rul, alive, step, pc, path>>

\* The samples the cloud may give; those at or past the threshold have no life left.
Init ==
  /\ w \in [Samples -> Wear]
  /\ alive = {i \in Samples : w[i] < Threshold}
  /\ rul = [i \in Samples |-> IF i \in alive THEN Horizon ELSE 0]
  /\ step = 0 /\ pc = "walk"
  /\ path = [i \in Samples |-> [n \in {0} |-> w[i]]]

Clip(x) == IF x > Top THEN Top ELSE IF x < 1 THEN 1 ELSE x

\* The samples that have crossed go on walking.
BugMoving == Samples
Moving == alive

Just(x) == {i \in Moving : x[i] >= Threshold}

Walk ==
  /\ pc = "walk" /\ step < Horizon /\ alive # {}
  /\ step' = step + 1
  /\ \E noise \in [Moving -> {0 - 1, 0, 1}] :
       w' = [i \in Samples |-> IF i \in Moving THEN Clip(Advance[w[i]] + noise[i]) ELSE w[i]]
  /\ rul' = [i \in Samples |-> IF i \in Just(w') THEN step' ELSE rul[i]]
  /\ alive' = alive \ Just(w')
  /\ path' = [i \in Samples |-> [n \in 0..step' |-> IF n = step' THEN w'[i] ELSE path[i][n]]]
  /\ UNCHANGED pc

Stop ==
  /\ pc = "walk" /\ (step = Horizon \/ alive = {})
  /\ pc' = "done"
  /\ UNCHANGED <<w, rul, alive, step, path>>

Next == Walk \/ Stop

Spec == Init /\ [][Next]_vars

Sorted ==
  LET before(i) == {j \in Samples : rul[j] < rul[i] \/ (rul[j] = rul[i] /\ j < i)}
      at(k) == CHOOSE i \in Samples : Cardinality(before(i)) = k - 1
  IN [k \in Samples |-> rul[at(k)]]

\* np.quantile: q hundredths of the way from the least value to the largest, in
\* proportion between two neighbours.  In hundredths.
quantile(q) ==
  LET at == q * (N - 1)
      i  == at \div 100 + 1
  IN IF i = N THEN 100 * Sorted[N]
     ELSE 100 * Sorted[i] + (at % 100) * (Sorted[i + 1] - Sorted[i])

Censored == Cardinality(alive)

-----------------------------------------------------------------------------
\* The first time the whole path is at the threshold, if it ever is.
crossings(i) == {n \in DOMAIN path[i] : path[i][n] >= Threshold}

ProjectionTypeOK ==
  /\ w \in [Samples -> Wear] /\ rul \in [Samples -> 0..Horizon] /\ alive \subseteq Samples
  /\ step \in 0..Horizon /\ pc \in {"walk", "done"}
  /\ path \in [Samples -> [0..step -> Wear]]

\* The remaining life of a sample is its first crossing, whatever is done after it (the
\* code stops a sample that crossed, so that its path stays); the horizon stands for none.
RulIsFirstCrossing ==
  \A i \in Samples :
    IF crossings(i) = {} THEN rul[i] = Horizon /\ i \in alive
    ELSE rul[i] \in crossings(i) /\ \A n \in crossings(i) : rul[i] <= n

\* Reported as censored are the samples that never crossed, and not one that
\* crossed in the very last step; the loop ends early only when there are none.
CensoredNeverCrossed ==
  pc = "done" =>
    /\ Censored = Cardinality({i \in Samples : crossings(i) = {}})
    /\ Censored > 0 => step = Horizon

\* The bounds and the median are in order; with a median below the horizon no more
\* than half of the samples never crossed; on each side of the interval is no more
\* than a 20th of them, and the one the bound is next to.
IntervalHonest ==
  pc = "done" =>
    /\ 0 <= quantile(5) /\ quantile(5) <= quantile(50) /\ quantile(50) <= quantile(95)
    /\ quantile(95) <= 100 * Horizon
    /\ quantile(50) < 100 * Horizon => 2 * Cardinality({i \in Samples : crossings(i) = {}}) <= N
    /\ Cardinality({i \in Samples : 100 * rul[i] > quantile(95)}) <= 1 + N \div 20
    /\ Cardinality({i \in Samples : 100 * rul[i] < quantile(5)}) <= 1 + N \div 20

\* Types, and the first two.
ProjectionSafe == ProjectionTypeOK /\ RulIsFirstCrossing /\ CensoredNeverCrossed
=============================================================================
