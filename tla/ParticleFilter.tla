--------------------------- MODULE ParticleFilter ---------------------------
(***************************************************************************)
(* filter_step and systematic_resample (twin/filter.py) and the weighted   *)
(* quantiles of the cloud (twin/cloud.py), over a grid of wear values.     *)
(* A weight is kept by its logarithm, relative to the largest one; below   *)
(* exp(-Depth) it counts as 0, and as exp(-Depth) in the next update (the  *)
(* code's underflow and its clip at 1e-300).  A floating point sum is off  *)
(* by at most one unit, of which there are Scale to a particle.            *)
(***************************************************************************)
EXTENDS Integers, FiniteSets, Functions

CONSTANTS
  N,           \* particles
  Top,         \* wear runs from 1 (_WEAR_MIN) to Top (_WEAR_MAX)
  Advance,     \* what one cut does to a wear
  Depth,       \* of the weights' logarithms
  Weigh,       \* exp of them, in whole units
  Scale

Particles == 1..N
Wear == 1..Top
Levels == (0 - Depth)..0

FilterAssumption ==
  /\ N \in Nat \ {0} /\ Top \in Nat \ {0} /\ Depth \in Nat \ {0} /\ Scale \in Nat \ {0}
  /\ Advance \in [Wear -> Nat]
  /\ Weigh \in [Levels -> Nat] /\ \A l \in Levels : Weigh[l] = 0 <=> l = 0 - Depth

Unusable == 0 - 1      \* an observation that is no number
Features == 0..Top + 1

VARIABLES
  wear, level,     \* the cloud
  pc,              \* "cut", "predicted", "updated", "resampled"
  u, sums,         \* of systematic_resample: its draw, its cumulative sums
  picks            \* and the particles it returns

vars == <<wear, level, pc, u, sums, picks>>

weight(l) == Weigh[l]

\* np.cumsum
upTo(w, j) ==
  LET sum[i \in 0..N] == IF i = 0 THEN 0 ELSE sum[i - 1] + weight(w[i])
  IN sum[j]

total(w) == upTo(w, N)
larger(x, y) == IF x < y THEN y ELSE x

\* deploy_twin: equal weights
Init ==
  /\ wear \in [Particles -> Wear] /\ level = [i \in Particles |-> 0]
  /\ pc = "cut" /\ u = 0 /\ sums = <<>> /\ picks = <<>>

Clip(w) == IF w > Top THEN Top ELSE larger(w, 1)

Predict ==
  /\ pc = "cut" /\ pc' = "predicted"
  /\ \E noise \in [Particles -> {0 - 1, 0, 1}] :
       wear' = [i \in Particles |-> Clip(Advance[wear[i]] + noise[i])]
  /\ UNCHANGED <<level, u, sums, picks>>

\* Gaussian in what the observation model expects of a wear.
logLikelihood(observed, w) == 0 - (observed - w) * (observed - w)

Posterior(observed) ==
  IF observed = Unusable
    THEN [i \in Particles |-> 0]
    ELSE LET raw == [i \in Particles |-> level[i] + logLikelihood(observed, wear[i])]
             most == CHOOSE x \in Range(raw) : \A y \in Range(raw) : x >= y
         IN [i \in Particles |-> larger(raw[i] - most, 0 - Depth)]

Update(observed) ==
  /\ pc = "predicted" /\ pc' = "updated"
  /\ level' = Posterior(observed)
  /\ UNCHANGED <<wear, u, sums, picks>>

\* The effective sample size is below half the number of particles.
Degenerate ==
  2 * total(level) * total(level)
    < N * FoldFunction(+, 0, [i \in Particles |-> weight(level[i]) * weight(level[i])])

Keep ==
  /\ pc = "updated" /\ ~ Degenerate /\ pc' = "cut"
  /\ UNCHANGED <<wear, level, u, sums, picks>>

exact(j) == (N * Scale * upTo(level, j)) \div total(level)

\* The sums as they are rounded: none is below the one before, the first not below 0,
\* and to add 0 is exact.
Rounded ==
  LET off(e) == [j \in Particles |-> IF upTo(level, j) = 0 THEN 0 ELSE exact(j) + e[j]]
  IN {s \in {off(e) : e \in [Particles -> {0 - 1, 0, 1}]} :
        /\ s[1] >= 0
        /\ \A j \in 1..N - 1 : /\ s[j] <= s[j + 1]
                               /\ weight(level[j + 1]) = 0 => s[j] = s[j + 1]}

BugEnded(s) == s
Ended(s) == [s EXCEPT ![N] = N * Scale]

position(draw, i) == draw + (i - 1) * Scale

\* The binary search of searchsorted, over indices from 0; N is past the end.
found(s, key) ==
  LET search[r \in (0..N) \X (0..N)] ==
        LET mid == (r[1] + r[2]) \div 2 IN
        IF r[1] >= r[2] THEN r[1]
        ELSE IF s[mid + 1] < key THEN search[<<mid + 1, r[2]>>] ELSE search[<<r[1], mid>>]
  IN search[<<0, N>>]

Picked(s, draw) == [i \in Particles |-> 1 + found(s, position(draw, i))]

\* The draw is below 1, but its sum with an index may round up to the next.
Resample(s, draw) ==
  /\ pc = "updated" /\ Degenerate /\ pc' = "resampled"
  /\ u' = draw /\ sums' = Ended(s)
  /\ picks' = Picked(sums', draw)
  /\ UNCHANGED <<wear, level>>

Replace ==
  /\ pc = "resampled" /\ pc' = "cut"
  /\ wear' = [i \in Particles |-> wear[picks[i]]]
  /\ level' = [i \in Particles |-> 0]
  /\ u' = 0 /\ sums' = <<>> /\ picks' = <<>>

Next ==
  \/ Predict \/ Keep \/ Replace
  \/ \E observed \in Features \cup {Unusable} : Update(observed)
  \/ \E s \in Rounded, draw \in 0..Scale : Resample(s, draw)

Spec == Init /\ [][Next]_vars

-----------------------------------------------------------------------------
\* weighted_quantile: of the wear values in order, the one where the cumulated
\* weight meets q, between two of them in proportion.  A result is <<num, den>>.
Sorted ==
  LET before(i) == {j \in Particles : wear[j] < wear[i] \/ (wear[j] = wear[i] /\ j < i)}
      at(k) == CHOOSE i \in Particles : Cardinality(before(i)) = k - 1
  IN [k \in Particles |-> at(k)]

BugOrdered(k) == k
Ordered(k) == Sorted[k]

cumulated(k) == upTo([i \in Particles |-> level[Ordered(i)]], k)

\* q in hundredths.  np.interp takes the last of the points that are not above q.
quantile(q) ==
  LET v(k)   == wear[Sorted[k]]
      below  == {k \in Particles : 100 * cumulated(k) <= q * total(level)}
      k      == CHOOSE m \in below : \A l \in below : l <= m
      width  == cumulated(k + 1) - cumulated(k)
      part   == q * total(level) - 100 * cumulated(k)
  IN IF below = {} THEN <<v(1), 1>>
     ELSE IF k = N THEN <<v(N), 1>>
     ELSE <<100 * width * v(k) + part * (v(k + 1) - v(k)), 100 * width>>

-----------------------------------------------------------------------------
FilterTypeOK ==
  /\ wear \in [Particles -> Wear] /\ level \in [Particles -> Levels]
  /\ pc \in {"cut", "predicted", "updated", "resampled"} /\ u \in 0..Scale
  /\ pc = "resampled" => sums \in [Particles -> 0..N * Scale + 1]

\* Whatever is observed, be it no number, some particle keeps a weight: the cloud
\* can be normalised, and the effective sample size is not a division by 0.
CloudHasWeight == total(level) > 0

\* systematic_resample finds a particle for every position although the sums are
\* rounded, and gives each its share, to one particle and the rounding.
ResampleFair ==
  pc = "resampled" =>
    /\ \A i \in Particles : picks[i] \in Particles
    /\ \A j \in Particles :
         LET given == Cardinality({i \in Particles : picks[i] = j})
             off   == given * total(level) - N * weight(level[j])
         IN \A d \in {off, 0 - off} : d * Scale <= (Scale + 4) * total(level)

\* A particle of no weight comes back only at the ends: the first one at a draw of
\* exactly 0, the last one if the rounded sum before it is short of 1.
DeadStayDead ==
  pc = "resampled" =>
    \A i \in Particles : \A j \in {picks[i]} \cap Particles :
      weight(level[j]) = 0 => \/ j = 1 /\ u = 0
                              \/ j = N /\ sums[N - 1] < N * Scale

\* Without the others.
weighs(S) == upTo([i \in Particles |-> IF i \in S THEN level[i] ELSE 0 - Depth], N)

\* The reported bounds are quantiles of the cloud: no more than q of the weight is
\* strictly below, no less than q is up to any particle that is not; and they are in
\* order.
QuantilesHold ==
  /\ \A q \in {5, 50, 95} :
       LET r     == quantile(q)
           upper == {i \in Particles : wear[i] * r[2] >= r[1]}
       IN /\ upper # {}
          /\ 100 * weighs(Particles \ upper) <= q * total(level)
          /\ \A i \in upper :
               100 * weighs({j \in Particles : wear[j] <= wear[i]}) >= q * total(level)
  /\ quantile(5)[1] * quantile(50)[2] <= quantile(50)[1] * quantile(5)[2]
  /\ quantile(50)[1] * quantile(95)[2] <= quantile(95)[1] * quantile(50)[2]

\* Types, and the first three.
FilterSafe == FilterTypeOK /\ CloudHasWeight /\ ResampleFair /\ DeadStayDead
=============================================================================
