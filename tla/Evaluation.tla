----------------------------- MODULE Evaluation -----------------------------
(***************************************************************************)
(* The RUL part of scripts/validate.py and the metrics it reports          *)
(* (evaluation/metrics.py): the life of the tool from its labels, the true *)
(* RUL of every scored cut, and the loop of prognostic_horizon.            *)
(***************************************************************************)
EXTENDS Integers, Sequences

CONSTANTS
  Cut,            \* the scored cuts, a sequence in ascending order
  Wears, Threshold,
  Extrapolated,   \* the cuts to the threshold that the fitted model may give
  Predictions,    \* the medians the twin may give
  Alpha           \* in tenths

Index == DOMAIN Cut

EvaluationAssumption ==
  /\ Cut \in Seq(Nat \ {0}) /\ \A m, n \in Index : m < n => Cut[m] < Cut[n]
  /\ Wears \cup Extrapolated \cup Predictions \subseteq Nat /\ Alpha \in 0..10

VARIABLES
  wear,      \* the labels
  beyond,    \* cuts_to_threshold(lw[-1])
  pred,      \* the medians
  region,    \* the cuts that are not censored
  i,         \* of the loop over the region
  result     \* of prognostic_horizon; None is 0

vars == <<wear, beyond, pred, region, i, result>>

Init ==
  /\ wear \in [Index -> Wears] /\ beyond \in Extrapolated
  /\ pred \in [Index -> Predictions] /\ region \in SUBSET Index
  /\ i = 0 /\ result = 0

Last == CHOOSE n \in Index : \A j \in Index : j <= n

crossings == {j \in Index : wear[j] >= Threshold}

\* The first cut at the threshold, or where the model expects it.
LifeEnds ==
  IF crossings # {} THEN Cut[CHOOSE j \in crossings : \A k \in crossings : j <= k]
  ELSE Cut[Last] + beyond

truth(j) == IF LifeEnds < Cut[j] THEN 0 ELSE LifeEnds - Cut[j]

inBand(j) ==
  /\ 10 * pred[j] >= (10 - Alpha) * truth(j)
  /\ 10 * pred[j] <= (10 + Alpha) * truth(j)

accurate == {j \in region : inBand(j)}

\* Only the cut at hand is looked at.
BugLocked(j) == inBand(j)
Locked(j) == \A k \in region : k >= j => inBand(k)

Scan ==
  /\ result = 0
  /\ \E j \in region :
       /\ j > i /\ \A k \in region : k > i => j <= k
       /\ i' = j
       /\ result' = IF Locked(j) THEN Cut[j] ELSE 0
  /\ UNCHANGED <<wear, beyond, pred, region>>

Next == Scan

Spec == Init /\ [][Next]_vars

Done == result # 0 \/ \A k \in region : k <= i

-----------------------------------------------------------------------------
\* "Earliest cut from which ALL later predictions stay in the alpha-cone": the
\* horizon is right after the last prediction outside the cone, and there is none
\* exactly if that is the last prediction.
HorizonAfterLastMiss ==
  Done =>
    LET miss  == region \ accurate
        after == {k \in region : \A m \in miss : m < k}
    IN IF after = {} THEN result = 0
       ELSE \E k \in after : result = Cut[k] /\ \A l \in after : k <= l

\* Twins that are right are scored as right, also past the end of the life, where
\* the cone has no width: all accurate, and locked on from the first scored cut.
ExactIsPerfect ==
  Done /\ region # {} /\ (\A j \in region : LifeEnds = Cut[j] + pred[j] \/ (LifeEnds < Cut[j] /\ pred[j] = 0)) =>
    /\ accurate = region
    /\ \E k \in region : result = Cut[k] /\ \A l \in region : k <= l

\* Both.
ScoresRight == HorizonAfterLastMiss /\ ExactIsPerfect
=============================================================================
