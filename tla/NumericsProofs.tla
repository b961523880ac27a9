--------------------------- MODULE NumericsProofs ---------------------------
(***************************************************************************)
(* Proofs about the numeric parts as Numerics puts them together: the      *)
(* projection of the remaining life (RulProjection), the particle filter   *)
(* (ParticleFilter), the quantiles of both, the onset of the wear-out      *)
(* (WearOnset), the scores of an evaluation (Evaluation) and the features  *)
(* of a waveform (Extractor).  They hold for any number of samples,        *)
(* particles and labels, horizon, threshold, wear law and weights, for any *)
(* scored cuts and predictions, and for any channels and range of numbers. *)
(***************************************************************************)
EXTENDS Numerics, FiniteSetTheorems, SequenceTheorems, WellFoundedInduction,
        TLAPS

(***************************************************************************)
(* RulProjection.  The path of a sample ends where the sample is, and the  *)
(* loop stops only at the horizon or when no sample is alive.              *)
(***************************************************************************)
PathEnds == \A i \in Samples : path[i][step] = w[i]
Uncrossed == \A i \in alive : crossings(i) = {}
Stopped  == pc = "done" => step = Horizon \/ alive = {}

ProjectionInv == ProjectionTypeOK /\ PathEnds /\ RulIsFirstCrossing /\ Uncrossed /\ Stopped

LEMMA ClipFacts == ASSUME NEW x \in Int PROVE Clip(x) \in Wear
BY ProjectionAssumption DEF Clip, Wear

-----------------------------------------------------------------------------
LEMMA ProjectionInitInv == Init => ProjectionInv
<1> SUFFICES ASSUME Init PROVE ProjectionInv
  OBVIOUS
<1> USE ProjectionAssumption DEF Init
<1>0. 0..0 = {0}
  OBVIOUS
<1>1. \A i \in Samples : path[i] = [n \in {0} |-> w[i]] /\ w[i] \in Wear
  OBVIOUS
<1>2. ProjectionTypeOK
  <2>1. \A i \in Samples : path[i] \in [0..0 -> Wear]
    BY <1>0, <1>1
  <2>2. path \in [Samples -> [0..step -> Wear]]
    BY <2>1
  <2>3. rul \in [Samples -> 0..Horizon]
    OBVIOUS
  <2> QED
    BY <2>2, <2>3 DEF ProjectionTypeOK
<1>3. PathEnds
  BY <1>1 DEF PathEnds
<1>4. ASSUME NEW i \in Samples
      PROVE  IF crossings(i) = {} THEN rul[i] = Horizon /\ i \in alive
             ELSE rul[i] \in crossings(i) /\ i \notin alive /\ \A n \in crossings(i) : rul[i] <= n
  <2>1. crossings(i) = {n \in {0} : w[i] >= Threshold}
    BY <1>1 DEF crossings
  <2>2. w[i] \in Nat /\ Threshold \in Nat
    BY <1>1 DEF Wear
  <2>3. CASE w[i] < Threshold
    BY <2>1, <2>2, <2>3
  <2>4. CASE ~ (w[i] < Threshold)
    BY <2>1, <2>2, <2>4
  <2> QED
    BY <2>3, <2>4
<1>5. RulIsFirstCrossing
  BY <1>4 DEF RulIsFirstCrossing
<1>6. Uncrossed
  BY <1>4 DEF Uncrossed
<1> QED
  BY <1>2, <1>3, <1>5, <1>6 DEF ProjectionInv, Stopped

\* The path of a sample after a step: the path before it, and where the step led.
LEMMA PathGrows ==
  ASSUME ProjectionTypeOK, NEW i \in Samples, Walk
  PROVE  /\ DOMAIN path[i] = 0..step /\ DOMAIN path'[i] = 0..step'
         /\ \A n \in 0..step : path'[i][n] = path[i][n]
         /\ path'[i][step'] = w'[i]
         /\ 0..step' = (0..step) \cup {step'} /\ step' \notin 0..step
<1>1. step \in Nat /\ step' = step + 1
  BY ProjectionAssumption DEF Walk, ProjectionTypeOK
<1>2. path'[i] = [n \in 0..step' |-> IF n = step' THEN w'[i] ELSE path[i][n]]
  BY DEF Walk
<1>3. 0..step' = (0..step) \cup {step'} /\ step' \notin 0..step /\ step' \in 0..step'
  BY <1>1
<1> QED
  BY <1>2, <1>3 DEF ProjectionTypeOK

LEMMA CrossingsGrow ==
  ASSUME ProjectionTypeOK, NEW i \in Samples, Walk
  PROVE  crossings(i)' = crossings(i) \cup (IF w'[i] >= Threshold THEN {step'} ELSE {})
BY PathGrows DEF crossings

LEMMA WalkInv == ASSUME ProjectionInv, Walk PROVE ProjectionInv'
<1> USE ProjectionAssumption DEF ProjectionInv
<1>0. /\ step \in Nat /\ step' = step + 1 /\ step' \in 0..Horizon
      /\ Moving = alive /\ alive \subseteq Samples
  BY DEF Walk, ProjectionTypeOK, Moving
<1>1. PICK noise \in [Moving -> {0 - 1, 0, 1}] :
        w' = [i \in Samples |-> IF i \in Moving THEN Clip(Advance[w[i]] + noise[i]) ELSE w[i]]
  BY DEF Walk
<1>2. w' \in [Samples -> Wear]
  <2>1. ASSUME NEW i \in Moving PROVE Clip(Advance[w[i]] + noise[i]) \in Wear
    <3>1. i \in Samples /\ w[i] \in Wear
      BY <1>0 DEF ProjectionTypeOK
    <3>2. Advance[w[i]] \in Int
      BY <3>1
    <3>3. noise[i] \in {0 - 1, 0, 1}
      OBVIOUS
    <3>4. noise[i] \in Int
      BY <3>3
    <3> QED
      BY <3>2, <3>4, ClipFacts
  <2> QED
    BY <1>1, <2>1 DEF ProjectionTypeOK
<1>3. ProjectionTypeOK'
  <2>1. rul' \in [Samples -> 0..Horizon]
    BY <1>0 DEF Walk, ProjectionTypeOK
  <2>2. alive' \subseteq Samples /\ pc' \in {"walk", "done"}
    BY <1>0 DEF Walk, ProjectionTypeOK
  <2>3. ASSUME NEW i \in Samples
        PROVE  [n \in 0..step' |-> IF n = step' THEN w'[i] ELSE path[i][n]] \in [0..step' -> Wear]
    <3>1. \A n \in 0..step' : n # step' => n \in 0..step
      BY <1>0
    <3> QED
      BY <1>2, <3>1 DEF ProjectionTypeOK
  <2>4. path' \in [Samples -> [0..step' -> Wear]]
    BY <2>3 DEF Walk
  <2> QED
    BY <1>0, <1>2, <2>1, <2>2, <2>4 DEF ProjectionTypeOK
<1>4. PathEnds'
  BY PathGrows DEF PathEnds
<1>5. ASSUME NEW i \in Samples
      PROVE  IF crossings(i)' = {} THEN rul'[i] = Horizon /\ i \in alive'
             ELSE rul'[i] \in crossings(i)' /\ i \notin alive' /\ \A n \in crossings(i)' : rul'[i] <= n
  <2>0. /\ rul'[i] = IF i \in Just(w') THEN step' ELSE rul[i]
        /\ i \in alive' <=> i \in alive /\ i \notin Just(w')
        /\ i \in Just(w') <=> i \in alive /\ w'[i] >= Threshold
    BY <1>0 DEF Walk, Just
  <2>1. crossings(i)' = crossings(i) \cup (IF w'[i] >= Threshold THEN {step'} ELSE {})
    BY CrossingsGrow
  <2>2. crossings(i) \subseteq 0..step
    BY DEF crossings, ProjectionTypeOK
  <2>3. CASE crossings(i) = {}
    <3>1. rul[i] = Horizon /\ i \in alive
      BY <2>3 DEF RulIsFirstCrossing
    <3> QED
      BY <1>0, <2>0, <2>1, <2>3, <3>1
  <2>4. CASE crossings(i) # {}
    <3>1. rul[i] \in crossings(i) /\ \A n \in crossings(i) : rul[i] <= n
      BY <2>4 DEF RulIsFirstCrossing
    <3>2. i \notin alive /\ i \notin Just(w')
      BY <2>0, <2>4 DEF Uncrossed
    <3>3. rul'[i] = rul[i] /\ rul[i] <= step'
      BY <1>0, <2>0, <2>2, <3>1, <3>2
    <3> QED
      BY <2>0, <2>1, <3>1, <3>2, <3>3
  <2> QED
    BY <2>3, <2>4
<1>6. RulIsFirstCrossing'
  BY <1>5 DEF RulIsFirstCrossing
<1>7. Uncrossed'
  BY <1>3, <1>5 DEF Uncrossed, ProjectionTypeOK
<1> QED
  BY <1>3, <1>4, <1>6, <1>7 DEF Stopped, Walk

LEMMA StopInv == ASSUME ProjectionInv, Stop PROVE ProjectionInv'
BY DEF Stop, ProjectionInv, ProjectionTypeOK, PathEnds, RulIsFirstCrossing, crossings, Uncrossed,
       Stopped

LEMMA ProjectionNextInv == ASSUME ProjectionInv, [Next]_vars PROVE ProjectionInv'
<1>1. CASE UNCHANGED vars
  BY <1>1 DEF vars, ProjectionInv, ProjectionTypeOK, PathEnds, RulIsFirstCrossing, crossings,
              Uncrossed, Stopped
<1> QED
  BY <1>1, WalkInv, StopInv DEF Next

\* While another part runs the projection waits where it begins.
LEMMA ProjectionRuns == NumericsSpec => Spec
<1>1. NumericsInit => Init
  BY DEF NumericsInit, Waits
<1>2. ASSUME [NumericsNext]_numericVars PROVE [Next]_vars
  BY <1>2 DEF NumericsNext, numericVars
<1> QED
  BY <1>1, <1>2, PTL DEF NumericsSpec, Spec

THEOREM ProjectionInvHolds == NumericsSpec => []ProjectionInv
BY ProjectionInitInv, ProjectionNextInv, ProjectionRuns, PTL DEF Spec

\* The wear of every sample stays within its bounds, its remaining life within the horizon.
THEOREM ProjectionTypeCorrect == NumericsSpec => []ProjectionTypeOK
<1>1. ProjectionInv => ProjectionTypeOK
  BY DEF ProjectionInv
<1> QED
  BY <1>1, ProjectionInvHolds, PTL

\* project_rul gives each sample the step at which its walk first is at the threshold.
THEOREM FirstCrossing == NumericsSpec => []RulIsFirstCrossing
<1>1. ProjectionInv => RulIsFirstCrossing
  BY DEF ProjectionInv
<1> QED
  BY <1>1, ProjectionInvHolds, PTL

\* The censored samples are those that never crossed, within the whole horizon.
THEOREM CensoredAreUncrossed == NumericsSpec => []CensoredNeverCrossed
<1>1. ASSUME ProjectionInv, pc = "done" PROVE CensoredNeverCrossed
  <2>1. alive = {i \in Samples : crossings(i) = {}}
    BY <1>1 DEF ProjectionInv, ProjectionTypeOK, RulIsFirstCrossing, Uncrossed
  <2>2. Cardinality(alive) > 0 => alive # {}
    BY FS_EmptySet
  <2> QED
    BY <1>1, <2>1, <2>2 DEF CensoredNeverCrossed, Censored, ProjectionInv, Stopped
<1>2. ProjectionInv => CensoredNeverCrossed
  BY <1>1 DEF CensoredNeverCrossed
<1> QED
  BY <1>2, ProjectionInvHolds, PTL

\* What a run checks of a projection, for any paths.
THEOREM ProjectionIsSafe == NumericsSpec => []ProjectionSafe
<1>1. ProjectionTypeOK /\ RulIsFirstCrossing /\ CensoredNeverCrossed => ProjectionSafe
  BY DEF ProjectionSafe
<1> QED
  BY <1>1, ProjectionTypeCorrect, FirstCrossing, CensoredAreUncrossed, PTL

-----------------------------------------------------------------------------
(***************************************************************************)
(* ParticleFilter.  Some particle has the largest weight (FilterRuns), and *)
(* what is picked is looked up in rounded sums of the weights as they are. *)
(* That the sums and the binary search are what their recursions say is    *)
(* shown with least counterexamples; a sum is near the share it stands for *)
(* (Near), so many positions are not above it (PositionsUpTo), and what is *)
(* picked between two sums is their difference, to less than four units    *)
(* and one position (SharesFair).                                          *)
(***************************************************************************)
Cloud == [Filter!Particles -> Filter!Levels]

LEMMA FilterFacts ==
  /\ N \in Nat \ {0} /\ Top \in Nat \ {0} /\ Depth \in Nat \ {0} /\ Scale \in Nat \ {0}
  /\ FilterAdvance \in [Filter!Wear -> Nat]
  /\ Filter!Particles = 1..N /\ N \in Filter!Particles
  /\ \A l \in Filter!Levels : Filter!weight(l) \in Nat /\ (Filter!weight(l) = 0 <=> l = 0 - Depth)
BY FilterAssumption
   DEF Filter!FilterAssumption, Filter!Particles, Filter!weight

\* A set of numbers that is not empty has a least one.
LEMMA LeastNumber ==
  ASSUME NEW S \in SUBSET Nat, S # {}
  PROVE  \E n \in S : \A m \in S : n <= m
<1> DEFINE Before == OpToRel(<, Nat)
<1>1. \A x, y \in Nat : y < x => <<y, x>> \in Before
  BY DEF OpToRel
<1>2. IsWellFoundedOn(Before, Nat)
  BY NatLessThanWellFounded
<1> HIDE DEF Before
<1>3. PICK n \in S : \A m \in S : <<m, n>> \notin Before
  BY <1>2, WFMin
<1>4. ASSUME NEW m \in S PROVE n <= m
  <2>1. ~ (m < n)
    BY <1>1, <1>3, Zenon
  <2> QED
    BY <2>1
<1> QED
  BY <1>4

\* There is a function that adds up the weights, for as many particles as there are.
LEMMA SumExists ==
  ASSUME NEW l \in Cloud
  PROVE  \E g : g = [i \in 0..N |-> IF i = 0 THEN 0 ELSE g[i - 1] + Filter!weight(l[i])]
<1> DEFINE Adds(n, g) == g = [i \in 0..n |-> IF i = 0 THEN 0 ELSE g[i - 1] + Filter!weight(l[i])]
           Bad == {n \in Nat : ~ \E g : Adds(n, g)}
<1>1. Bad = {}
  <2> SUFFICES ASSUME Bad # {} PROVE FALSE
    OBVIOUS
  <2>1. PICK n \in Bad : \A m \in Bad : n <= m
    BY LeastNumber
  <2>2. CASE n = 0
    <3>1. Adds(0, [i \in 0..0 |-> 0])
      OBVIOUS
    <3> QED
      BY <2>2, <3>1
  <2>3. CASE n # 0
    <3>1. n - 1 \in Nat /\ n - 1 \notin Bad
      BY <2>1, <2>3
    <3>2. PICK g : Adds(n - 1, g)
      BY <3>1
    <3> DEFINE h == [i \in 0..n |-> IF i = n THEN g[n - 1] + Filter!weight(l[n]) ELSE g[i]]
    <3>3. ASSUME NEW i \in 0..n
          PROVE  h[i] = IF i = 0 THEN 0 ELSE h[i - 1] + Filter!weight(l[i])
      <4>1. CASE i = n
        BY <2>3, <3>1, <4>1
      <4>2. CASE i # n
        <5>1. i \in 0..n - 1 /\ (i # 0 => i - 1 \in 0..n /\ i - 1 # n)
          BY <4>2
        <5>2. g[i] = IF i = 0 THEN 0 ELSE g[i - 1] + Filter!weight(l[i])
          BY <3>2, <5>1
        <5> QED
          BY <4>2, <5>1, <5>2
      <4> QED
        BY <4>1, <4>2
    <3>4. Adds(n, h)
      BY <3>3
    <3> QED
      BY <2>1, <3>4
  <2> QED
    BY <2>2, <2>3
<1>2. N \in Nat /\ N \notin Bad
  BY <1>1, FilterFacts
<1> QED
  BY <1>2

LEMMA SumStep ==
  ASSUME NEW l \in Cloud
  PROVE  /\ Filter!upTo(l, 0) = 0
         /\ \A j \in 1..N : Filter!upTo(l, j) = Filter!upTo(l, j - 1) + Filter!weight(l[j])
<1> DEFINE sum == CHOOSE g : g = [i \in 0..N |-> IF i = 0 THEN 0
                                                 ELSE g[i - 1] + Filter!weight(l[i])]
<1>1. \A j \in 0..N : Filter!upTo(l, j) = sum[j]
  BY DEF Filter!upTo
<1>2. sum = [i \in 0..N |-> IF i = 0 THEN 0 ELSE sum[i - 1] + Filter!weight(l[i])]
  BY SumExists
<1> HIDE DEF sum
<1>3. N \in Nat /\ 0 \in 0..N /\ \A j \in 1..N : j \in 0..N /\ j - 1 \in 0..N /\ j # 0
  BY FilterFacts
<1> QED
  BY <1>1, <1>2, <1>3

\* The sums are numbers, and none is below one before it.
LEMMA SumGrows ==
  ASSUME NEW l \in Cloud
  PROVE  \A j \in 0..N : /\ Filter!upTo(l, j) \in Nat
                         /\ \A i \in 0..j : Filter!upTo(l, i) <= Filter!upTo(l, j)
<1> DEFINE Good(j) == /\ Filter!upTo(l, j) \in Nat
                      /\ \A i \in 0..j : Filter!upTo(l, i) <= Filter!upTo(l, j)
           Bad == {j \in 0..N : ~ Good(j)}
<1> SUFFICES ASSUME Bad # {} PROVE FALSE
  OBVIOUS
<1>0. N \in Nat /\ \A j \in 1..N : Filter!weight(l[j]) \in Nat
  BY FilterFacts DEF Cloud
<1>1. \E j \in Bad : \A m \in Bad : j <= m
  <2>1. Bad \in SUBSET Nat
    BY <1>0
  <2> HIDE DEF Bad
  <2> QED
    BY <2>1, LeastNumber
<1> PICK j \in Bad : \A m \in Bad : j <= m
  BY <1>1
<1>2. j # 0
  BY <1>0, SumStep
<1>3. j - 1 \in 0..N /\ j \in 1..N /\ j - 1 \notin Bad
  BY <1>0, <1>2
<1>4. Good(j - 1)
  BY <1>3
<1>5. Filter!upTo(l, j) = Filter!upTo(l, j - 1) + Filter!weight(l[j]) /\ Filter!weight(l[j]) \in Nat
  BY <1>0, <1>3, SumStep
<1>6. ASSUME NEW i \in 0..j PROVE i = j \/ i \in 0..j - 1
  BY <1>3
<1>7. Good(j)
  <2>1. Filter!upTo(l, j) \in Nat /\ Filter!upTo(l, j - 1) <= Filter!upTo(l, j)
    BY <1>4, <1>5
  <2>2. ASSUME NEW i \in 0..j PROVE Filter!upTo(l, i) <= Filter!upTo(l, j)
    <3>1. CASE i = j
      BY <2>1, <3>1
    <3>2. CASE i \in 0..j - 1
      <4>1. Filter!upTo(l, i) <= Filter!upTo(l, j - 1) /\ Filter!upTo(l, j - 1) \in Nat
        BY <1>4, <3>2
      <4>2. Filter!upTo(l, i) \in Nat
        <5>1. i \in 0..N /\ ~ (j <= i)
          BY <1>0, <1>3, <3>2
        <5>2. i \notin Bad
          BY <5>1
        <5> QED
          BY <5>1, <5>2
      <4> QED
        BY <1>5, <4>1, <4>2
    <3> QED
      BY <1>6, <3>1, <3>2
  <2> QED
    BY <2>1, <2>2
<1> QED
  BY <1>7

\* A cloud with one particle that has a weight has weight.
LEMMA TotalPositive ==
  ASSUME NEW l \in Cloud, NEW k \in Filter!Particles, l[k] = 0
  PROVE  Filter!total(l) \in Nat \ {0}
<1>1. k \in 1..N /\ k - 1 \in 0..N /\ k \in 0..N /\ N \in 0..N
  BY FilterFacts
<1>2. Filter!weight(l[k]) \in Nat \ {0}
  BY FilterFacts DEF Cloud
<1>3. Filter!upTo(l, k - 1) \in Nat /\ Filter!upTo(l, k) = Filter!upTo(l, k - 1) + Filter!weight(l[k])
  BY <1>1, SumStep, SumGrows
<1>4. Filter!upTo(l, k) <= Filter!upTo(l, N) /\ Filter!upTo(l, N) \in Nat
  BY <1>1, SumGrows
<1> QED
  BY <1>2, <1>3, <1>4 DEF Filter!total

\* Whatever is observed, the particle that explains it best has the largest weight.
LEMMA PosteriorFacts ==
  ASSUME NEW observed \in Filter!Features \cup {Filter!Unusable},
         level \in Cloud, wear \in [Filter!Particles -> Filter!Wear]
  PROVE  /\ Filter!Posterior(observed) \in Cloud
         /\ \E k \in Filter!Particles : Filter!Posterior(observed)[k] = 0
<1> DEFINE raw  == [i \in Filter!Particles |-> level[i] + Filter!logLikelihood(observed, wear[i])]
           most == CHOOSE x \in Range(raw) : \A y \in Range(raw) : x >= y
<1>0. /\ N \in Filter!Particles /\ Depth \in Nat \ {0} /\ Top \in Nat
      /\ 0 \in Filter!Levels
  BY FilterFacts DEF Filter!Levels
<1>1. CASE observed = Filter!Unusable
  <2>1. Filter!Posterior(observed) = [i \in Filter!Particles |-> 0]
    BY <1>1 DEF Filter!Posterior
  <2> QED
    BY <1>0, <2>1 DEF Cloud
<1>2. CASE observed # Filter!Unusable
  <2>1. ASSUME NEW i \in Filter!Particles PROVE raw[i] \in Int /\ raw[i] <= 0
    <3>1. level[i] \in Int /\ level[i] <= 0 /\ observed \in Int /\ wear[i] \in Int
      BY <1>0, <1>2 DEF Cloud, Filter!Levels, Filter!Features, Filter!Wear
    <3>2. (observed - wear[i]) * (observed - wear[i]) \in Nat
      BY <3>1
    <3> QED
      BY <3>1, <3>2 DEF Filter!logLikelihood
  <2>2. Range(raw) = {raw[i] : i \in Filter!Particles}
    BY DEF Range
  <2> HIDE DEF raw
  <2>3. \E x \in Range(raw) : \A y \in Range(raw) : x >= y
    <3> DEFINE D == {0 - raw[i] : i \in Filter!Particles}
    <3>0. D \in SUBSET Nat /\ D # {}
      BY <1>0, <2>1
    <3>1. \E n \in D : \A m \in D : n <= m
      <4> HIDE DEF D
      <4> QED
        BY <3>0, LeastNumber
    <3>2. PICK k \in Filter!Particles : \A m \in D : 0 - raw[k] <= m
      BY <3>1
    <3>3. ASSUME NEW i \in Filter!Particles PROVE raw[k] >= raw[i]
      <4>1. 0 - raw[k] <= 0 - raw[i]
        BY <3>2
      <4> QED
        BY <2>1, <4>1
    <3> QED
      BY <2>2, <3>3
  <2>4. most \in Range(raw) /\ \A y \in Range(raw) : most >= y
    BY <2>3
  <2>5. PICK k \in Filter!Particles : most = raw[k]
    BY <2>2, <2>4
  <2>6. \A i \in Filter!Particles : raw[i] <= most
    BY <2>2, <2>4
  <2>7. Filter!Posterior(observed)
          = [i \in Filter!Particles |-> Filter!larger(raw[i] - most, 0 - Depth)]
    BY <1>2 DEF Filter!Posterior, raw, Range, Filter!Range
  <2> HIDE DEF most
  <2>8. ASSUME NEW i \in Filter!Particles
        PROVE  /\ Filter!larger(raw[i] - most, 0 - Depth) \in Filter!Levels
               /\ raw[i] = most => Filter!larger(raw[i] - most, 0 - Depth) = 0
    <3>1. raw[i] \in Int /\ most \in Int /\ raw[i] <= most
      BY <2>1, <2>5, <2>6
    <3> QED
      BY <1>0, <3>1 DEF Filter!larger, Filter!Levels
  <2> QED
    BY <2>5, <2>7, <2>8 DEF Cloud
<1> QED
  BY <1>1, <1>2

\* Where a binary search for key ends between from and to, if k is how many sums are
\* below key.
ends(k, from, to) ==
  IF from >= to THEN from ELSE IF k <= from THEN from ELSE IF k >= to THEN to ELSE k

Ranges == (0..N) \X (0..N)

LEMMA Halves ==
  ASSUME NEW r \in Ranges, r[1] < r[2]
  PROVE  LET mid == (r[1] + r[2]) \div 2
         IN /\ mid \in Nat /\ r[1] <= mid /\ mid < r[2] /\ mid + 1 \in 1..N
            /\ <<mid + 1, r[2]>> \in Ranges /\ <<r[1], mid>> \in Ranges
<1>1. r[1] \in 0..N /\ r[2] \in 0..N /\ N \in Nat
  BY FilterFacts DEF Ranges
<1>2. LET mid == (r[1] + r[2]) \div 2 IN mid \in Nat /\ r[1] <= mid /\ mid < r[2]
  BY <1>1
<1> QED
  BY <1>1, <1>2 DEF Ranges

\* The search finds how many sums are below the key, if those come first.
LEMMA SearchEnds ==
  ASSUME NEW s, NEW key, NEW k \in 0..N, \A m \in 1..N : s[m] < key <=> m <= k
  PROVE  Filter!found(s, key) = k
<1> DEFINE Step(f, r) ==
             LET mid == (r[1] + r[2]) \div 2 IN
             IF r[1] >= r[2] THEN r[1]
             ELSE IF s[mid + 1] < key THEN f[<<mid + 1, r[2]>>] ELSE f[<<r[1], mid>>]
           Ends == [r \in Ranges |-> ends(k, r[1], r[2])]
           search == CHOOSE f : f = [r \in Ranges |-> Step(f, r)]
<1>0. N \in Nat /\ <<0, N>> \in Ranges
  BY FilterFacts DEF Ranges
<1>1. Filter!found(s, key) = search[<<0, N>>]
  BY DEF Filter!found, Ranges
<1>2. ASSUME NEW r \in Ranges, r[1] < r[2], NEW f,
             LET mid == (r[1] + r[2]) \div 2
             IN f[<<mid + 1, r[2]>>] = Ends[<<mid + 1, r[2]>>] /\ f[<<r[1], mid>>] = Ends[<<r[1], mid>>]
      PROVE  Step(f, r) = Ends[r]
  <2> DEFINE mid == (r[1] + r[2]) \div 2
  <2>1. /\ mid \in Nat /\ r[1] <= mid /\ mid < r[2] /\ mid + 1 \in 1..N
        /\ <<mid + 1, r[2]>> \in Ranges /\ <<r[1], mid>> \in Ranges
    BY <1>2, Halves
  <2>2. s[mid + 1] < key <=> mid + 1 <= k
    BY <2>1
  <2>3. r[1] \in 0..N /\ r[2] \in 0..N
    BY DEF Ranges
  <2>4. /\ Ends[<<mid + 1, r[2]>>] = ends(k, mid + 1, r[2])
        /\ Ends[<<r[1], mid>>] = ends(k, r[1], mid)
        /\ Ends[r] = ends(k, r[1], r[2])
    BY <2>1
  <2>5. Step(f, r) = IF mid + 1 <= k THEN Ends[<<mid + 1, r[2]>>] ELSE Ends[<<r[1], mid>>]
    BY <1>0, <1>2, <2>2, <2>3
  <2> HIDE DEF mid, Ends, Step
  <2>6. mid + 1 <= k => ends(k, mid + 1, r[2]) = ends(k, r[1], r[2])
    BY <1>0, <1>2, <2>1, <2>3 DEF ends
  <2>7. ~ (mid + 1 <= k) => ends(k, r[1], mid) = ends(k, r[1], r[2])
    BY <1>0, <1>2, <2>1, <2>3 DEF ends
  <2> QED
    BY <2>4, <2>5, <2>6, <2>7
<1>3. ASSUME NEW r \in Ranges, ~ (r[1] < r[2]), NEW f PROVE Step(f, r) = r[1] /\ Ends[r] = r[1]
  <2>1. r[1] \in 0..N /\ r[2] \in 0..N
    BY DEF Ranges
  <2>2. r[1] >= r[2]
    BY <1>0, <1>3, <2>1
  <2> QED
    BY <2>2 DEF ends
<1> HIDE DEF Step
<1>4. Ends = [r \in Ranges |-> Step(Ends, r)]
  <2>1. ASSUME NEW r \in Ranges PROVE Ends[r] = Step(Ends, r)
    BY <1>2, <1>3
  <2>2. Ends = [r \in Ranges |-> Ends[r]]
    OBVIOUS
  <2> HIDE DEF Ends
  <2> QED
    BY <2>1, <2>2
<1> HIDE DEF Ends
<1>5. search = [r \in Ranges |-> Step(search, r)]
  BY <1>4
<1> HIDE DEF search
<1> DEFINE Bad == {n \in Nat : \E r \in Ranges : r[2] - r[1] <= n /\ search[r] # Ends[r]}
<1>6. Bad = {}
  <2> SUFFICES ASSUME Bad # {} PROVE FALSE
    OBVIOUS
  <2>1. PICK n \in Bad : \A m \in Bad : n <= m
    BY LeastNumber
  <2>2. PICK r \in Ranges : r[2] - r[1] <= n /\ search[r] # Ends[r]
    OBVIOUS
  <2>3. r[1] \in 0..N /\ r[2] \in 0..N /\ search[r] = Step(search, r)
    BY <1>5 DEF Ranges
  <2>4. r[1] < r[2]
    BY <1>3, <2>2, <2>3
  <2>5. n \in Nat /\ n - 1 \in Nat /\ n - 1 \notin Bad
    BY <1>0, <2>1, <2>2, <2>3, <2>4
  <2>6. ASSUME NEW q \in Ranges, q[2] - q[1] <= n - 1 PROVE search[q] = Ends[q]
    BY <2>5, <2>6
  <2> HIDE DEF Bad
  <2> DEFINE mid == (r[1] + r[2]) \div 2
  <2>7. /\ mid \in Nat /\ r[1] <= mid /\ mid < r[2]
        /\ <<mid + 1, r[2]>> \in Ranges /\ <<r[1], mid>> \in Ranges
    BY <2>4, Halves
  <2> HIDE DEF mid
  <2>8. r[2] - (mid + 1) <= n - 1 /\ mid - r[1] <= n - 1
    BY <1>0, <2>2, <2>3, <2>5, <2>7
  <2>9. search[<<mid + 1, r[2]>>] = Ends[<<mid + 1, r[2]>>] /\ search[<<r[1], mid>>] = Ends[<<r[1], mid>>]
    BY <2>6, <2>7, <2>8
  <2>10. Step(search, r) = Ends[r]
    BY <1>2, <2>4, <2>9 DEF mid
  <2> QED
    BY <2>2, <2>3, <2>10
<1>7. N \in Nat /\ N \notin Bad
  BY <1>0, <1>6
<1>8. search[<<0, N>>] = Ends[<<0, N>>]
  BY <1>0, <1>7
<1>9. Ends[<<0, N>>] = ends(k, 0, N)
  BY <1>0 DEF Ends
<1> QED
  BY <1>0, <1>1, <1>8, <1>9 DEF ends

\* What a rounded sum x of the first j weights is: less than two units from the share they
\* have in Scale to each particle.
Near(x, j) ==
  /\ x \in Nat /\ x <= N * Scale + 1
  /\ x * Filter!total(level) - (N * Scale) * Filter!upTo(level, j) <= Filter!total(level)
  /\ (N * Scale) * Filter!upTo(level, j) - x * Filter!total(level) < 2 * Filter!total(level)

Cumulates(s) ==
  /\ \A j \in 1..N : Near(s[j], j) /\ (Filter!upTo(level, j) = 0 => s[j] = 0)
  /\ \A i, j \in 1..N : i <= j => s[i] <= s[j]
  /\ \A j \in 1..N - 1 : Filter!weight(level[j + 1]) = 0 => s[j] = s[j + 1]

LEMMA Quotient ==
  ASSUME NEW a \in Nat, NEW b \in Nat \ {0}
  PROVE  a \div b \in Nat /\ (a \div b) * b <= a /\ a < (a \div b) * b + b
OBVIOUS

LEMMA NearExact ==
  ASSUME level \in Cloud, Filter!total(level) \in Nat \ {0}, NEW j \in 1..N,
         NEW e \in {0 - 1, 0, 1}, Filter!exact(j) + e >= 0
  PROVE  Near(Filter!exact(j) + e, j)
<1> DEFINE T == Filter!total(level)
           S == Filter!upTo(level, j)
           E == N * Scale
           q == Filter!exact(j)
<1>1. j \in 0..N /\ N \in 0..N /\ E \in Nat
  BY FilterFacts
<1>2. S \in Nat /\ S <= T /\ T \in Nat \ {0}
  BY <1>1, SumGrows DEF Filter!total
<1>3. E * S \in Nat /\ E * S <= E * T
  <2> HIDE DEF S, T, E
  <2> QED
    BY <1>1, <1>2
<1>4. q \in Nat /\ q * T <= E * S /\ E * S < q * T + T
  <2>1. q = (E * S) \div T
    BY DEF Filter!exact
  <2> HIDE DEF S, T, E, q
  <2> QED
    BY <1>2, <1>3, <2>1, Quotient
<1> HIDE DEF S, T, E, q
<1>5. q <= E
  <2> SUFFICES ASSUME q > E PROVE FALSE
    BY <1>1, <1>4
  <2>1. E * T + T <= q * T
    BY <1>1, <1>2, <1>4
  <2> QED
    BY <1>1, <1>2, <1>3, <1>4, <2>1
<1>6. (q + e) * T = q * T + e * T /\ e * T <= T /\ 0 - T <= e * T
  BY <1>2, <1>4
<1>7. /\ q + e \in Nat /\ q + e <= E + 1 /\ (q + e) * T - E * S <= T
      /\ E * S - (q + e) * T < 2 * T
  <2>1. q + e \in Nat /\ q + e <= E + 1
    BY <1>1, <1>4, <1>5 DEF q
  <2>2. q * T \in Int /\ e * T \in Int /\ E * S \in Int
    BY <1>1, <1>2, <1>3, <1>4
  <2> QED
    BY <1>2, <1>4, <1>6, <2>1, <2>2
<1> QED
  BY <1>7 DEF Near, S, T, E, q

\* Neighbours in order make a sequence in order.
LEMMA OrderSpreads ==
  ASSUME NEW s, \A j \in 1..N : s[j] \in Int, \A j \in 1..N - 1 : s[j] <= s[j + 1]
  PROVE  \A i, j \in 1..N : i <= j => s[i] <= s[j]
<1> DEFINE Bad == {j \in Nat : j \in 1..N /\ \E i \in 1..N : i <= j /\ ~ (s[i] <= s[j])}
<1>0. N \in Nat
  BY FilterFacts
<1> SUFFICES ASSUME Bad # {} PROVE FALSE
  <2>1. \A j \in 1..N : j \in Nat
    BY <1>0
  <2>2. ASSUME Bad = {}, NEW i \in 1..N, NEW j \in 1..N, i <= j PROVE s[i] <= s[j]
    BY <2>1, <2>2
  <2> QED
    BY <2>2
<1>1. \E j \in Bad : \A m \in Bad : j <= m
  <2>1. Bad \in SUBSET Nat
    OBVIOUS
  <2> HIDE DEF Bad
  <2> QED
    BY <2>1, LeastNumber
<1>2. PICK j \in Bad : \A m \in Bad : j <= m
  BY <1>1
<1>3. PICK i \in 1..N : i <= j /\ ~ (s[i] <= s[j])
  OBVIOUS
<1>4. j \in 1..N /\ i < j /\ s[i] \in Int /\ s[j] \in Int
  <2>1. j \in 1..N
    OBVIOUS
  <2>2. s[i] \in Int /\ s[j] \in Int
    BY <2>1
  <2>3. i # j
    BY <1>3, <2>2
  <2> QED
    BY <1>0, <1>3, <2>1, <2>2, <2>3
<1>5. j - 1 \in 1..N - 1 /\ j - 1 \in 1..N /\ i <= j - 1 /\ j - 1 + 1 = j /\ j - 1 \in Nat
  BY <1>0, <1>4
<1>6. s[j - 1] <= s[j] /\ s[j - 1] \in Int
  BY <1>5
<1>7. j - 1 \notin Bad
  <2>1. ~ (j <= j - 1)
    BY <1>4
  <2> QED
    BY <1>2, <2>1
<1>8. s[i] <= s[j - 1]
  BY <1>5, <1>7
<1> QED
  BY <1>3, <1>4, <1>6, <1>8

LEMMA RoundedFacts ==
  ASSUME level \in Cloud, Filter!total(level) \in Nat \ {0}, NEW s \in Filter!Rounded
  PROVE  s \in [Filter!Particles -> Int] /\ Cumulates(s)
<1>0. N \in Nat \ {0} /\ Filter!Particles = 1..N
  BY FilterFacts
<1>1. PICK e \in [Filter!Particles -> {0 - 1, 0, 1}] :
        s = [j \in Filter!Particles |-> IF Filter!upTo(level, j) = 0 THEN 0 ELSE Filter!exact(j) + e[j]]
  BY DEF Filter!Rounded
<1>2. /\ s[1] >= 0
      /\ \A j \in 1..N - 1 : /\ s[j] <= s[j + 1]
                             /\ Filter!weight(level[j + 1]) = 0 => s[j] = s[j + 1]
  BY DEF Filter!Rounded
<1>3. ASSUME NEW j \in 1..N PROVE s[j] \in Int
  <2>1. Filter!upTo(level, j) \in Nat
    BY <1>0, SumGrows
  <2>2. Filter!exact(j) \in Nat
    <3>1. (N * Scale) * Filter!upTo(level, j) \in Nat
      BY <2>1, FilterFacts
    <3> QED
      BY <3>1, Quotient DEF Filter!exact
  <2>3. e[j] \in Int
    BY <1>0
  <2> QED
    BY <1>0, <1>1, <2>2, <2>3
<1>4. \A i, j \in 1..N : i <= j => s[i] <= s[j]
  BY <1>2, <1>3, OrderSpreads
<1>5. ASSUME NEW j \in 1..N PROVE s[j] >= 0
  <2>1. 1 \in 1..N /\ 1 <= j
    BY <1>0
  <2>2. s[1] <= s[j] /\ s[1] \in Int /\ s[j] \in Int
    BY <1>3, <1>4, <2>1
  <2> QED
    BY <1>2, <2>2
<1>6. ASSUME NEW j \in 1..N PROVE Near(s[j], j) /\ (Filter!upTo(level, j) = 0 => s[j] = 0)
  <2>1. CASE Filter!upTo(level, j) = 0
    <3>1. s[j] = 0
      BY <1>0, <1>1, <2>1
    <3>2. N * Scale \in Nat /\ (N * Scale) * 0 = 0
      BY FilterFacts
    <3> QED
      BY <2>1, <3>1, <3>2 DEF Near
  <2>2. CASE Filter!upTo(level, j) # 0
    <3>1. s[j] = Filter!exact(j) + e[j] /\ e[j] \in {0 - 1, 0, 1}
      BY <1>0, <1>1, <2>2
    <3> QED
      BY <1>5, <2>2, <3>1, NearExact
  <2> QED
    BY <2>1, <2>2
<1>7. s \in [Filter!Particles -> Int]
  <2>1. s = [j \in Filter!Particles |-> s[j]]
    BY <1>1
  <2> QED
    BY <1>0, <1>3, <2>1
<1> QED
  BY <1>2, <1>4, <1>6, <1>7 DEF Cumulates

\* The sums as the draws are looked up in them: the last is all of the weight.
LEMMA EndedFacts ==
  ASSUME level \in Cloud, Filter!total(level) \in Nat \ {0}, NEW s \in Filter!Rounded
  PROVE  /\ \A j \in 1..N : Near(Filter!Ended(s)[j], j) /\ Filter!Ended(s)[j] \in Nat
         /\ \A j \in 1..N - 1 : Filter!Ended(s)[j] = s[j]
         /\ Filter!Ended(s)[N] = N * Scale
         /\ Filter!Ended(s) \in [Filter!Particles -> 0..N * Scale + 1]
<1>0. N \in Nat \ {0} /\ Filter!Particles = 1..N /\ N * Scale \in Nat
  BY FilterFacts
<1>1. s \in [Filter!Particles -> Int] /\ Cumulates(s)
  BY RoundedFacts
<1>2. Filter!Ended(s) = [j \in 1..N |-> IF j = N THEN N * Scale ELSE s[j]]
  BY <1>0, <1>1 DEF Filter!Ended
<1>3. Near(N * Scale, N)
  <2>1. Filter!upTo(level, N) = Filter!total(level)
    BY DEF Filter!total
  <2>2. (N * Scale) * Filter!total(level) \in Nat
    BY <1>0
  <2> QED
    BY <1>0, <2>1, <2>2 DEF Near
<1>4. ASSUME NEW j \in 1..N PROVE Near(Filter!Ended(s)[j], j)
  BY <1>1, <1>2, <1>3 DEF Cumulates
<1>5. \A j \in 1..N : Filter!Ended(s)[j] \in Nat /\ Filter!Ended(s)[j] \in 0..N * Scale + 1
  BY <1>0, <1>4 DEF Near
<1>6. Filter!Ended(s) \in [Filter!Particles -> 0..N * Scale + 1]
  BY <1>0, <1>2, <1>5
<1> QED
  BY <1>0, <1>2, <1>4, <1>5, <1>6

LEMMA PositionFacts ==
  ASSUME NEW draw \in 0..Scale, NEW i \in 1..N
  PROVE  /\ Filter!position(draw, i) \in Nat /\ Filter!position(draw, i) <= N * Scale
         /\ Filter!position(draw, i) = draw + (i - 1) * Scale
<1>1. N \in Nat /\ Scale \in Nat /\ i \in Nat /\ i - 1 \in Nat /\ i - 1 < N /\ draw \in Nat /\ draw <= Scale
  BY FilterFacts
<1>2. (i - 1) * Scale + Scale <= N * Scale /\ (i - 1) * Scale \in Nat /\ N * Scale \in Nat
  BY <1>1
<1> QED
  BY <1>1, <1>2 DEF Filter!position

\* The particle that a position picks is the first whose sum is not below it.
LEMMA PickIsFirst ==
  ASSUME level \in Cloud, Filter!total(level) \in Nat \ {0}, NEW s \in Filter!Rounded,
         NEW draw \in 0..Scale, NEW i \in Filter!Particles
  PROVE  LET x == Filter!Ended(s)
             p == Filter!Picked(x, draw)[i]
         IN /\ p \in Filter!Particles /\ x[p] >= Filter!position(draw, i)
            /\ \A m \in Filter!Particles : m < p => x[m] < Filter!position(draw, i)
<1> DEFINE x == Filter!Ended(s)
           key == Filter!position(draw, i)
           reach == {m \in Nat : m \in 1..N /\ x[m] >= key}
<1>0. N \in Nat \ {0} /\ Filter!Particles = 1..N
  BY FilterFacts
<1>1. /\ \A j \in 1..N : x[j] \in Nat
      /\ \A j \in 1..N - 1 : x[j] = s[j]
      /\ x[N] = N * Scale
  BY EndedFacts
<1>2. key \in Nat /\ key <= N * Scale
  BY <1>0, PositionFacts
<1>3. \A a, b \in 1..N : a <= b => s[a] <= s[b]
  BY RoundedFacts DEF Cumulates
<1> HIDE DEF x, key
<1>4. N \in reach
  BY <1>0, <1>1, <1>2
<1>5. PICK p \in reach : \A m \in reach : p <= m
  BY <1>4, LeastNumber
<1>6. p \in 1..N /\ x[p] >= key /\ p - 1 \in 0..N
  BY <1>0
<1>7. ASSUME NEW m \in 1..N PROVE x[m] < key <=> m <= p - 1
  <2>1. CASE m < p
    <3>1. m \notin reach /\ m \in Nat
      BY <1>0, <1>5, <1>6, <2>1
    <3>2. ~ (x[m] >= key)
      BY <3>1
    <3> QED
      BY <1>0, <1>1, <1>2, <1>6, <2>1, <3>2
  <2>2. CASE m >= p /\ m = N
    BY <1>0, <1>1, <1>2, <1>6, <2>2
  <2>3. CASE m >= p /\ m # N
    <3>1. m \in 1..N - 1 /\ p \in 1..N - 1 /\ p <= m
      BY <1>0, <1>6, <2>3
    <3>2. x[p] <= x[m]
      BY <1>1, <1>3, <1>6, <3>1
    <3> QED
      BY <1>0, <1>1, <1>2, <1>6, <2>3, <3>2
  <2> QED
    BY <1>0, <1>6, <2>1, <2>2, <2>3
<1>8. Filter!found(x, key) = p - 1
  BY <1>6, <1>7, SearchEnds
<1>9. Filter!Picked(x, draw)[i] = 1 + Filter!found(x, key)
  BY DEF Filter!Picked, key
<1>10. Filter!Picked(x, draw)[i] = p
  BY <1>0, <1>6, <1>8, <1>9
<1>11. \A m \in 1..N : m < p => x[m] < key
  BY <1>0, <1>6, <1>7
<1> QED
  BY <1>0, <1>6, <1>10, <1>11 DEF x, key

\* So many positions are not above a sum X, and they are the first.
LEMMA PositionsUpTo ==
  ASSUME NEW draw \in 0..Scale, NEW X \in 0..N * Scale + 1
  PROVE  \E c \in 0..N : /\ \A i \in 1..N : Filter!position(draw, i) <= X <=> i <= c
                         /\ 0 - 1 <= c * Scale - (X - draw) /\ c * Scale - (X - draw) <= Scale
<1>0. /\ N \in Nat \ {0} /\ Scale \in Nat \ {0} /\ draw \in Nat /\ draw <= Scale /\ X \in Nat
      /\ N * Scale \in Nat /\ X <= N * Scale + 1
  BY FilterFacts
<1>1. ASSUME NEW i \in 1..N
      PROVE  Filter!position(draw, i) = draw + (i - 1) * Scale /\ (i - 1) * Scale \in Nat
  BY <1>0, PositionFacts
<1>2. CASE X < draw
  <2>1. \A i \in 1..N : ~ (Filter!position(draw, i) <= X) /\ ~ (i <= 0)
    BY <1>0, <1>1, <1>2
  <2>2. 0 * Scale = 0 /\ 0 \in 0..N
    BY <1>0
  <2> QED
    BY <1>0, <1>2, <2>1, <2>2
<1>3. CASE X >= draw
  <2> DEFINE q == (X - draw) \div Scale
  <2>1. q \in Nat /\ q * Scale <= X - draw /\ X - draw < q * Scale + Scale
    BY <1>0, <1>3, Quotient
  <2> HIDE DEF q
  <2>2. CASE q >= N
    <3>1. q * Scale >= N * Scale
      BY <1>0, <2>1, <2>2
    <3>2. ASSUME NEW i \in 1..N PROVE Filter!position(draw, i) <= X
      <4>1. (i - 1) * Scale <= N * Scale
        BY <1>0
      <4> QED
        BY <1>0, <1>1, <1>3, <2>1, <3>1, <4>1
    <3>3. \A i \in 1..N : i <= N
      BY <1>0
    <3>4. 0 - 1 <= N * Scale - (X - draw) /\ N * Scale - (X - draw) <= Scale
      BY <1>0, <1>3, <2>1, <3>1
    <3> QED
      BY <1>0, <3>2, <3>3, <3>4
  <2>3. CASE q < N
    <3>1. ASSUME NEW i \in 1..N PROVE Filter!position(draw, i) <= X <=> i <= q + 1
      <4>1. CASE i <= q + 1
        <5>1. (i - 1) * Scale <= q * Scale
          BY <1>0, <2>1, <4>1
        <5> QED
          BY <1>0, <1>1, <1>3, <2>1, <4>1, <5>1
      <4>2. CASE ~ (i <= q + 1)
        <5>1. q * Scale + Scale <= (i - 1) * Scale
          BY <1>0, <2>1, <4>2
        <5> QED
          BY <1>0, <1>1, <1>3, <2>1, <4>2, <5>1
      <4> QED
        BY <4>1, <4>2
    <3>2. (q + 1) * Scale = q * Scale + Scale /\ q * Scale \in Nat
      BY <1>0, <2>1
    <3>3. 0 - 1 <= (q + 1) * Scale - (X - draw) /\ (q + 1) * Scale - (X - draw) <= Scale
      BY <1>0, <1>3, <2>1, <3>2
    <3>4. q + 1 \in 0..N
      BY <1>0, <2>1, <2>3
    <3> QED
      BY <3>1, <3>3, <3>4
  <2> QED
    BY <1>0, <2>1, <2>2, <2>3
<1> QED
  BY <1>0, <1>2, <1>3

\* The sum before j.
below(x, j) == IF j = 1 THEN 0 ELSE x[j - 1]

\* The particle j is picked for the positions between two sums: so many there are.
LEMMA GivenShare ==
  ASSUME level \in Cloud, Filter!total(level) \in Nat \ {0}, NEW s \in Filter!Rounded,
         NEW draw \in 0..Scale, NEW j \in Filter!Particles
  PROVE  LET x == Filter!Ended(s)
             G == Cardinality({i \in Filter!Particles : Filter!Picked(x, draw)[i] = j})
         IN /\ G \in Nat
            /\ G * Scale - (x[j] - below(x, j)) <= Scale + 1
            /\ (x[j] - below(x, j)) - G * Scale <= Scale + 1
<1> DEFINE x   == Filter!Ended(s)
           pos(i) == Filter!position(draw, i)
           Given == {i \in Filter!Particles : Filter!Picked(x, draw)[i] = j}
<1>0. /\ N \in Nat \ {0} /\ Scale \in Nat \ {0} /\ Filter!Particles = 1..N /\ j \in 1..N
      /\ draw \in Nat /\ draw <= Scale /\ N * Scale \in Nat
  BY FilterFacts
<1>1. /\ \A m \in 1..N : x[m] \in Nat /\ x[m] \in 0..N * Scale + 1
      /\ \A m \in 1..N - 1 : x[m] = s[m]
      /\ x[N] = N * Scale
  BY <1>0, EndedFacts
<1>2. \A a, b \in 1..N : a <= b => s[a] <= s[b]
  BY RoundedFacts DEF Cumulates
<1>3. \A i \in 1..N : pos(i) \in Nat /\ pos(i) <= N * Scale
  BY PositionFacts
<1>4. ASSUME NEW i \in 1..N
      PROVE  /\ Filter!Picked(x, draw)[i] \in 1..N /\ x[Filter!Picked(x, draw)[i]] >= pos(i)
             /\ \A m \in 1..N : m < Filter!Picked(x, draw)[i] => x[m] < pos(i)
  BY <1>0, PickIsFirst
<1> HIDE DEF x, pos
<1>5. \A m \in 1..N - 1 : j = m + 1 => x[m] <= x[j] \/ x[j] = N * Scale
  <2> SUFFICES ASSUME NEW m \in 1..N - 1, j = m + 1 PROVE x[m] <= x[j] \/ x[j] = N * Scale
    OBVIOUS
  <2>1. CASE j = N
    BY <1>1, <2>1
  <2>2. CASE j # N
    <3>1. j \in 1..N - 1 /\ m \in 1..N /\ m <= j
      BY <1>0, <2>2
    <3> QED
      BY <1>0, <1>1, <1>2, <3>1
  <2> QED
    BY <2>1, <2>2
<1>6. ASSUME NEW i \in 1..N
      PROVE  Filter!Picked(x, draw)[i] = j <=> pos(i) <= x[j] /\ (j = 1 \/ ~ (pos(i) <= x[j - 1]))
  <2> DEFINE p == Filter!Picked(x, draw)[i]
  <2>1. /\ p \in 1..N /\ x[p] >= pos(i) /\ \A m \in 1..N : m < p => x[m] < pos(i)
        /\ pos(i) \in Nat
    BY <1>3, <1>4
  <2> HIDE DEF p
  <2>2. ASSUME p = j PROVE pos(i) <= x[j] /\ (j = 1 \/ ~ (pos(i) <= x[j - 1]))
    <3>1. pos(i) <= x[j]
      BY <1>0, <1>1, <2>1, <2>2
    <3>2. CASE j # 1
      <4>1. j - 1 \in 1..N /\ j - 1 < p
        BY <1>0, <2>2, <3>2
      <4> QED
        BY <1>1, <2>1, <3>1, <4>1
    <3> QED
      BY <3>1, <3>2
  <2>3. ASSUME p < j, pos(i) <= x[j], j = 1 \/ ~ (pos(i) <= x[j - 1]) PROVE FALSE
    <3>1. j - 1 \in 1..N - 1 /\ j - 1 \in 1..N /\ p \in 1..N - 1 /\ p <= j - 1 /\ j # 1
      BY <1>0, <2>1, <2>3
    <3>2. s[p] <= s[j - 1] /\ x[p] = s[p] /\ x[j - 1] = s[j - 1]
      BY <1>1, <1>2, <2>1, <3>1
    <3> QED
      BY <1>1, <2>1, <2>3, <3>1, <3>2
  <2>4. ASSUME p > j, pos(i) <= x[j] PROVE FALSE
    <3>1. x[j] < pos(i) /\ x[j] \in Nat
      BY <1>0, <1>1, <2>1, <2>4
    <3> QED
      BY <2>1, <2>4, <3>1
  <2> QED
    BY <1>0, <2>1, <2>2, <2>3, <2>4 DEF p
<1>7. PICK c \in 0..N : /\ \A i \in 1..N : pos(i) <= x[j] <=> i <= c
                        /\ 0 - 1 <= c * Scale - (x[j] - draw) /\ c * Scale - (x[j] - draw) <= Scale
  <2>1. x[j] \in 0..N * Scale + 1
    BY <1>0, <1>1
  <2> QED
    BY <2>1, PositionsUpTo DEF pos
<1>8. CASE j = 1
  <2>1. Given = 1..c
    BY <1>0, <1>6, <1>7, <1>8
  <2>2. Cardinality(Given) = c
    <3>1. Cardinality(1..c) = IF 1 > c THEN 0 ELSE c - 1 + 1
      BY <1>0, FS_Interval
    <3> HIDE DEF Given
    <3> QED
      BY <1>0, <2>1, <3>1
  <2>3. c * Scale \in Nat /\ x[j] \in Nat /\ below(x, j) = 0
    BY <1>0, <1>1, <1>8 DEF below
  <2>4. /\ Cardinality(Given) \in Nat
        /\ Cardinality(Given) * Scale - (x[j] - below(x, j)) <= Scale + 1
        /\ (x[j] - below(x, j)) - Cardinality(Given) * Scale <= Scale + 1
    <3> DEFINE p == c * Scale
               y == x[j]
    <3>1. /\ p \in Nat /\ y \in Nat /\ below(x, j) = 0 /\ Cardinality(Given) * Scale = p
          /\ 0 - 1 <= p - (y - draw) /\ p - (y - draw) <= Scale
      BY <1>7, <2>2, <2>3
    <3>2. Cardinality(Given) \in Nat
      BY <2>2
    <3> HIDE DEF p, y
    <3>3. p - (y - 0) <= Scale + 1 /\ (y - 0) - p <= Scale + 1
      BY <1>0, <3>1
    <3> HIDE DEF Given
    <3> QED
      BY <3>1, <3>2, <3>3 DEF y
  <2> QED
    BY <2>4 DEF x
<1>9. CASE j # 1
  <2>0. j - 1 \in 1..N /\ j - 1 \in 1..N - 1 /\ j = j - 1 + 1
    BY <1>0, <1>9
  <2>1. x[j - 1] \in 0..N * Scale + 1
    BY <1>1, <2>0
  <2>2. PICK a \in 0..N :
          /\ \A i \in 1..N : pos(i) <= x[j - 1] <=> i <= a
          /\ 0 - 1 <= a * Scale - (x[j - 1] - draw) /\ a * Scale - (x[j - 1] - draw) <= Scale
    BY <2>1, PositionsUpTo DEF pos
  <2>3. a <= c
    <3>1. CASE a = 0
      BY <1>0, <3>1
    <3>2. CASE a # 0
      <4>1. a \in 1..N /\ pos(a) <= x[j - 1] /\ pos(a) \in Nat /\ pos(a) <= N * Scale
        BY <1>0, <1>3, <2>2, <3>2
      <4>2. x[j - 1] <= x[j] \/ x[j] = N * Scale
        BY <1>5, <2>0
      <4>3. pos(a) <= x[j]
        BY <1>0, <1>1, <2>0, <4>1, <4>2
      <4> QED
        BY <1>7, <4>1, <4>3
    <3> QED
      BY <3>1, <3>2
  <2>4. Given = a + 1..c
    <3>1. \A i \in 1..N : i \in Given <=> i <= c /\ ~ (i <= a)
      BY <1>0, <1>6, <1>7, <1>9, <2>2
    <3>2. \A i \in 1..N : i \in a + 1..c <=> i <= c /\ ~ (i <= a)
      BY <1>0
    <3>3. Given \subseteq 1..N /\ a + 1..c \subseteq 1..N
      BY <1>0
    <3> HIDE DEF Given
    <3> QED
      BY <3>1, <3>2, <3>3
  <2>5. Cardinality(Given) = c - a
    <3>1. Cardinality(a + 1..c) = IF a + 1 > c THEN 0 ELSE c - (a + 1) + 1
      BY <1>0, FS_Interval
    <3> HIDE DEF Given
    <3> QED
      BY <1>0, <2>3, <2>4, <3>1
  <2>6. (c - a) * Scale = c * Scale - a * Scale /\ c * Scale \in Nat /\ a * Scale \in Nat
    BY <1>0
  <2>7. x[j] \in Nat /\ x[j - 1] \in Nat /\ below(x, j) = x[j - 1]
    BY <1>0, <1>1, <1>9, <2>0 DEF below
  <2>8. /\ Cardinality(Given) \in Nat
        /\ Cardinality(Given) * Scale - (x[j] - below(x, j)) <= Scale + 1
        /\ (x[j] - below(x, j)) - Cardinality(Given) * Scale <= Scale + 1
    <3> HIDE DEF Given
    <3>1. c - a \in Nat
      BY <1>0, <2>3
    <3>2. /\ (c - a) * Scale - (x[j] - x[j - 1]) <= Scale + 1
          /\ (x[j] - x[j - 1]) - (c - a) * Scale <= Scale + 1
      <4> DEFINE p == c * Scale
                 q == a * Scale
                 y == x[j]
                 z == x[j - 1]
      <4>0. /\ p \in Int /\ q \in Int /\ y \in Int /\ z \in Int /\ draw \in Int /\ Scale \in Int
            /\ 0 - 1 <= p - (y - draw) /\ p - (y - draw) <= Scale
            /\ 0 - 1 <= q - (z - draw) /\ q - (z - draw) <= Scale
        BY <1>0, <1>7, <2>2, <2>6, <2>7
      <4> HIDE DEF p, q, y, z
      <4>1. p - q - (y - z) <= Scale + 1 /\ (y - z) - (p - q) <= Scale + 1
        BY <4>0
      <4> QED
        BY <2>6, <4>1 DEF p, q, y, z
    <3> QED
      BY <2>5, <2>7, <3>1, <3>2
  <2> QED
    BY <2>8 DEF x
<1> QED
  BY <1>8, <1>9

\* The errors add up to less than four units and one position.
LEMMA ErrorsAdd ==
  ASSUME NEW T \in Nat, NEW E \in Nat, NEW A \in Int, NEW B \in Int, NEW SA \in Int, NEW SB \in Int,
         NEW d \in Int, NEW D \in Nat, d <= D + 1, 0 - d <= D + 1,
         B * T - E * SB <= T, E * SB - B * T < 2 * T,
         A * T - E * SA <= T, E * SA - A * T < 2 * T
  PROVE  /\ (B - A + d) * T - E * (SB - SA) <= (D + 4) * T
         /\ E * (SB - SA) - (B - A + d) * T <= (D + 4) * T
<1>1. d * T <= (D + 1) * T /\ (0 - d) * T <= (D + 1) * T /\ (0 - d) * T = 0 - d * T
  OBVIOUS
<1>2. (D + 4) * T = (D + 1) * T + 3 * T
  OBVIOUS
<1>3. (B - A + d) * T - E * (SB - SA) = (B * T - E * SB) - (A * T - E * SA) + d * T
  OBVIOUS
<1>4. /\ B * T \in Int /\ A * T \in Int /\ E * SB \in Int /\ E * SA \in Int /\ d * T \in Int
      /\ (D + 1) * T \in Int /\ (B - A + d) * T \in Int /\ E * (SB - SA) \in Int
  OBVIOUS
<1>5. (B - A + d) * T - E * (SB - SA) <= (D + 4) * T
  BY <1>1, <1>2, <1>3, <1>4
<1>6. E * (SB - SA) - (B - A + d) * T = (A * T - E * SA) - (B * T - E * SB) - d * T
  BY <1>3, <1>4
<1> QED
  BY <1>1, <1>2, <1>4, <1>5, <1>6

LEMMA SharesFair ==
  ASSUME level \in Cloud, Filter!total(level) \in Nat \ {0}, NEW s \in Filter!Rounded,
         NEW draw \in 0..Scale, NEW j \in Filter!Particles
  PROVE  LET G   == Cardinality({i \in Filter!Particles :
                                   Filter!Picked(Filter!Ended(s), draw)[i] = j})
             off == G * Filter!total(level) - N * Filter!weight(level[j])
         IN \A d \in {off, 0 - off} : d * Scale <= (Scale + 4) * Filter!total(level)
<1> DEFINE x == Filter!Ended(s)
           G == Cardinality({i \in Filter!Particles : Filter!Picked(x, draw)[i] = j})
           T == Filter!total(level)
           W == Filter!weight(level[j])
           SA == Filter!upTo(level, j - 1)
           SB == Filter!upTo(level, j)
           A == below(x, j)
           B == x[j]
           d == G * Scale - (B - A)
           E == N * Scale
           off == G * T - N * W
<1>0. N \in Nat \ {0} /\ Scale \in Nat \ {0} /\ j \in 1..N /\ j - 1 \in 0..N /\ j \in 0..N /\ E \in Nat
  BY FilterFacts
<1>1. G \in Nat /\ d <= Scale + 1 /\ 0 - d <= Scale + 1
  <2>1. /\ G \in Nat /\ G * Scale - (B - A) <= Scale + 1 /\ (B - A) - G * Scale <= Scale + 1
    BY GivenShare
  <2>2. B \in Nat /\ A \in Nat
    <3>1. \A m \in 1..N : x[m] \in Nat
      BY EndedFacts
    <3>2. j # 1 => j - 1 \in 1..N
      BY <1>0
    <3> QED
      BY <1>0, <3>1, <3>2 DEF below
  <2> HIDE DEF G, B, A
  <2> QED
    BY <1>0, <2>1, <2>2
<1>2. /\ B \in Nat /\ B * T - E * SB <= T /\ E * SB - B * T < 2 * T
  BY <1>0, EndedFacts DEF Near
<1>3. SA \in Nat /\ SB \in Nat /\ W \in Nat /\ SB = SA + W /\ T \in Nat
  <2>1. SA \in Nat /\ SB \in Nat
    BY <1>0, SumGrows
  <2>2. SB = SA + W
    BY <1>0, SumStep
  <2>3. W \in Nat
    BY FilterFacts DEF Cloud
  <2> QED
    BY <2>1, <2>2, <2>3
<1>4. /\ A \in Nat /\ A * T - E * SA <= T /\ E * SA - A * T < 2 * T
  <2>1. CASE j = 1
    <3>1. A = 0 /\ SA = 0
      BY <2>1, SumStep DEF below
    <3>2. A * T = 0 /\ E * SA = 0 /\ T \in Nat /\ T # 0
      <4> HIDE DEF A, SA, E, T
      <4>1. T \in Nat \ {0}
        BY DEF T
      <4> QED
        BY <1>0, <1>3, <3>1, <4>1
    <3> HIDE DEF A, SA, E, T
    <3> QED
      BY <3>1, <3>2
  <2>2. CASE j # 1
    <3>1. j - 1 \in 1..N /\ A = x[j - 1]
      BY <1>0, <2>2 DEF below
    <3>2. Near(x[j - 1], j - 1)
      BY <3>1, EndedFacts
    <3> QED
      BY <3>1, <3>2 DEF Near
  <2> QED
    BY <2>1, <2>2
<1> HIDE DEF G, T, W, SA, SB, A, B, E, x
<1>5. d \in Int /\ G * Scale = B - A + d
  BY <1>0, <1>1, <1>2, <1>4
<1> HIDE DEF d
<1>6. /\ (B - A + d) * T - E * (SB - SA) <= (Scale + 4) * T
      /\ E * (SB - SA) - (B - A + d) * T <= (Scale + 4) * T
  BY <1>0, <1>1, <1>2, <1>3, <1>4, <1>5, ErrorsAdd
<1>7. off * Scale = (G * Scale) * T - E * W /\ (0 - off) * Scale = E * W - (G * Scale) * T
  <2>1. (G * T - N * W) * Scale = (G * Scale) * T - (N * Scale) * W
    BY <1>0, <1>1, <1>3
  <2>2. (0 - (G * T - N * W)) * Scale = (N * Scale) * W - (G * Scale) * T
    BY <1>0, <1>1, <1>3
  <2> QED
    BY <2>1, <2>2 DEF E
<1>8. SB - SA = W
  BY <1>3
<1>9. off * Scale <= (Scale + 4) * T /\ (0 - off) * Scale <= (Scale + 4) * T
  BY <1>5, <1>6, <1>7, <1>8
<1> QED
  BY <1>9 DEF G, T, W, x

LEMMA DeadEnds ==
  ASSUME level \in Cloud, Filter!total(level) \in Nat \ {0}, NEW s \in Filter!Rounded,
         NEW draw \in 0..Scale, NEW i \in Filter!Particles, NEW j \in Filter!Particles,
         Filter!Picked(Filter!Ended(s), draw)[i] = j, Filter!weight(level[j]) = 0
  PROVE  (j = 1 /\ draw = 0) \/ (j = N /\ Filter!Ended(s)[N - 1] < N * Scale)
<1> DEFINE x == Filter!Ended(s)
           key == Filter!position(draw, i)
<1>0. /\ N \in Nat \ {0} /\ Scale \in Nat \ {0} /\ Filter!Particles = 1..N /\ i \in 1..N /\ j \in 1..N
      /\ draw \in Nat
  BY FilterFacts
<1>1. /\ \A m \in 1..N : x[m] \in Nat
      /\ \A m \in 1..N - 1 : x[m] = s[m]
      /\ x[N] = N * Scale
  BY EndedFacts
<1>2. /\ \A m \in 1..N : Filter!upTo(level, m) = 0 => s[m] = 0
      /\ \A m \in 1..N - 1 : Filter!weight(level[m + 1]) = 0 => s[m] = s[m + 1]
  BY RoundedFacts DEF Cumulates
<1>3. key \in Nat /\ key <= N * Scale /\ draw <= key
  <2>1. (i - 1) * Scale \in Nat
    BY <1>0
  <2>2. key \in Nat /\ key <= N * Scale /\ key = draw + (i - 1) * Scale
    BY <1>0, PositionFacts
  <2> HIDE DEF key
  <2> QED
    BY <1>0, <2>1, <2>2
<1>4. x[j] >= key /\ \A m \in 1..N : m < j => x[m] < key
  BY <1>0, PickIsFirst
<1>5. j = 1 => Filter!upTo(level, j) = 0
  BY <1>0, SumStep
<1> HIDE DEF x, key
<1>6. CASE j = N
  <2>1. N # 1
    <3>1. Filter!upTo(level, N) # 0
      BY DEF Filter!total
    <3> QED
      BY <1>5, <1>6, <3>1
  <2>2. N - 1 \in 1..N /\ N - 1 < j
    BY <1>0, <1>6, <2>1
  <2>3. x[N - 1] < key /\ x[N - 1] \in Nat
    BY <1>1, <1>4, <2>2
  <2>4. x[N - 1] < N * Scale
    BY <1>0, <1>3, <2>3
  <2> QED
    BY <1>6, <2>4 DEF x
<1>7. CASE j # N /\ j = 1
  <2>1. s[1] = 0 /\ x[1] = s[1]
    BY <1>0, <1>1, <1>2, <1>5, <1>7
  <2>2. draw = 0
    BY <1>0, <1>3, <1>4, <1>7, <2>1
  <2> QED
    BY <1>7, <2>2
<1>8. CASE j # N /\ j # 1
  <2>1. j - 1 \in 1..N - 1 /\ j - 1 \in 1..N /\ j \in 1..N - 1 /\ j - 1 + 1 = j /\ j - 1 < j
    BY <1>0, <1>8
  <2>2. x[j - 1] = x[j]
    BY <1>1, <1>2, <2>1
  <2>3. x[j - 1] < key /\ x[j] >= key /\ x[j] \in Nat
    BY <1>0, <1>1, <1>4, <2>1
  <2> QED
    BY <1>3, <2>2, <2>3
<1> QED
  BY <1>6, <1>7, <1>8

FilterRuns ==
  /\ wear \in [Filter!Particles -> Filter!Wear] /\ level \in Cloud
  /\ phase \in {"cut", "predicted", "updated", "resampled"} /\ u \in 0..Scale
  /\ \E k \in Filter!Particles : level[k] = 0
  /\ phase = "resampled" =>
       \E s \in Filter!Rounded : sums = Filter!Ended(s) /\ picks = Filter!Picked(sums, u)

FilterInv == part = "filter" => FilterRuns

LEMMA FilterRight == ASSUME FilterRuns PROVE Filter!FilterSafe
<1>0. /\ level \in Cloud /\ u \in 0..Scale /\ Filter!total(level) \in Nat \ {0}
      /\ Filter!Particles = 1..N /\ N \in Nat \ {0}
  BY TotalPositive, FilterFacts DEF FilterRuns
<1>1. Filter!CloudHasWeight
  BY <1>0 DEF Filter!CloudHasWeight
<1>2. CASE phase # "resampled"
  BY <1>0, <1>1, <1>2
     DEF Filter!FilterSafe, Filter!FilterTypeOK, Filter!ResampleFair, Filter!DeadStayDead, Cloud,
         FilterRuns
<1>3. CASE phase = "resampled"
  <2>1. PICK s \in Filter!Rounded : sums = Filter!Ended(s) /\ picks = Filter!Picked(sums, u)
    BY <1>3 DEF FilterRuns
  <2>2. sums \in [Filter!Particles -> 0..N * Scale + 1]
    BY <1>0, <2>1, EndedFacts
  <2>3. Filter!FilterTypeOK
    BY <1>0, <2>2 DEF FilterRuns, Filter!FilterTypeOK, Cloud
  <2>4. \A i \in Filter!Particles : picks[i] \in Filter!Particles
    BY <1>0, <2>1, PickIsFirst
  <2>5. \A j \in Filter!Particles :
          LET given == Cardinality({i \in Filter!Particles : picks[i] = j})
              off   == given * Filter!total(level) - N * Filter!weight(level[j])
          IN \A d \in {off, 0 - off} : d * Scale <= (Scale + 4) * Filter!total(level)
    BY <1>0, <2>1, SharesFair
  <2>6. Filter!ResampleFair
    <3>1. \A S : Filter!Cardinality(S) = Cardinality(S)
      BY DEF Filter!Cardinality, Cardinality, Filter!IsFiniteSet, IsFiniteSet
    <3> QED
      BY <2>4, <2>5, <3>1 DEF Filter!ResampleFair
  <2>7. Filter!DeadStayDead
    BY <1>0, <2>1, DeadEnds DEF Filter!DeadStayDead
  <2> QED
    BY <1>1, <2>3, <2>6, <2>7 DEF Filter!FilterSafe
<1> QED
  BY <1>2, <1>3

LEMMA RoundedStays == ASSUME level' = level PROVE Filter!Rounded' = Filter!Rounded
BY DEF Filter!Rounded, Filter!exact, Filter!total, Filter!upTo, Filter!weight

LEMMA FilterInit == ASSUME Filter!Init PROVE FilterRuns
<1>1. N \in Filter!Particles /\ 0 \in Filter!Levels /\ 0 \in 0..Scale
  BY FilterFacts DEF Filter!Levels
<1> QED
  BY <1>1 DEF Filter!Init, FilterRuns, Cloud

LEMMA ClipIn == ASSUME NEW x \in Int PROVE Filter!Clip(x) \in Filter!Wear
BY FilterFacts DEF Filter!Clip, Filter!larger, Filter!Wear

LEMMA FilterStep == ASSUME FilterRuns, Filter!Next PROVE FilterRuns'
<1>0. /\ wear \in [Filter!Particles -> Filter!Wear] /\ level \in Cloud /\ u \in 0..Scale
      /\ N \in Filter!Particles /\ 0 \in Filter!Levels /\ 0 \in 0..Scale
      /\ \E k \in Filter!Particles : level[k] = 0
  BY FilterFacts DEF FilterRuns, Filter!Levels
<1>1. CASE Filter!Predict
  <2>1. PICK noise \in [Filter!Particles -> {0 - 1, 0, 1}] :
          wear' = [i \in Filter!Particles |-> Filter!Clip(FilterAdvance[wear[i]] + noise[i])]
    BY <1>1 DEF Filter!Predict
  <2>2. ASSUME NEW i \in Filter!Particles
        PROVE  Filter!Clip(FilterAdvance[wear[i]] + noise[i]) \in Filter!Wear
    <3>1. FilterAdvance[wear[i]] \in Nat
      BY <1>0, FilterFacts
    <3>2. noise[i] \in Int
      OBVIOUS
    <3> QED
      BY <3>1, <3>2, ClipIn
  <2>3. wear' \in [Filter!Particles -> Filter!Wear]
    BY <2>1, <2>2
  <2> QED
    BY <1>0, <1>1, <2>3 DEF Filter!Predict, FilterRuns
<1>2. ASSUME NEW observed \in Filter!Features \cup {Filter!Unusable}, Filter!Update(observed)
      PROVE  FilterRuns'
  BY <1>0, <1>2, PosteriorFacts DEF Filter!Update, FilterRuns
<1>3. CASE Filter!Keep
  BY <1>0, <1>3 DEF Filter!Keep, FilterRuns
<1>4. ASSUME NEW s \in Filter!Rounded, NEW draw \in 0..Scale, Filter!Resample(s, draw)
      PROVE  FilterRuns'
  <2>1. /\ u' = draw /\ sums' = Filter!Ended(s) /\ picks' = Filter!Picked(sums', draw)
        /\ phase' = "resampled" /\ UNCHANGED <<wear, level>>
    BY <1>4 DEF Filter!Resample
  <2>2. s \in Filter!Rounded'
    BY <2>1, RoundedStays
  <2>3. \E q \in Filter!Rounded' : sums' = Filter!Ended(q) /\ picks' = Filter!Picked(sums', u')
    BY <2>1, <2>2
  <2> QED
    BY <1>0, <2>1, <2>3 DEF FilterRuns, Filter!Ended, Filter!Picked, Filter!found, Filter!position
<1>5. CASE Filter!Replace
  <2>1. \A i \in Filter!Particles : picks[i] \in Filter!Particles
    BY <1>5, FilterRight DEF Filter!Replace, Filter!FilterSafe, Filter!ResampleFair
  <2>2. wear' \in [Filter!Particles -> Filter!Wear]
    BY <1>0, <1>5, <2>1 DEF Filter!Replace
  <2>3. level' = [i \in Filter!Particles |-> 0] /\ u' = 0 /\ phase' = "cut"
    BY <1>5 DEF Filter!Replace
  <2>4. level' \in Cloud /\ level'[N] = 0
    BY <1>0, <2>3 DEF Cloud
  <2> QED
    BY <1>0, <2>2, <2>3, <2>4 DEF FilterRuns
<1> QED
  BY <1>1, <1>2, <1>3, <1>4, <1>5 DEF Filter!Next

LEMMA FilterStays ==
  ASSUME FilterInv, part' = part, UNCHANGED <<phase, wear, filterOnly>> PROVE FilterInv'
<1>1. UNCHANGED <<phase, wear, level, u, sums, picks>>
  BY DEF filterOnly
<1>2. Filter!Rounded' = Filter!Rounded
  BY <1>1, RoundedStays
<1>3. ASSUME NEW s PROVE Filter!Ended(s)' = Filter!Ended(s)
  BY DEF Filter!Ended
<1>4. Filter!Picked(sums, u)' = Filter!Picked(sums, u)
  BY <1>1 DEF Filter!Picked, Filter!found, Filter!position
<1> QED
  BY <1>1, <1>2, <1>3, <1>4 DEF FilterInv, FilterRuns

LEMMA FilterInvHolds == NumericsSpec => []FilterInv
<1>1. NumericsInit => FilterInv
  BY FilterInit DEF NumericsInit, FilterInv
<1>2. ASSUME FilterInv, [NumericsNext]_numericVars PROVE FilterInv'
  <2>1. CASE part = "filter" /\ Filter!Next /\ part' = part
    BY <1>2, <2>1, FilterStep DEF FilterInv
  <2>2. CASE part # "filter" /\ part' = part
    BY <2>2 DEF FilterInv
  <2>3. CASE UNCHANGED numericVars
    BY <1>2, <2>3, FilterStays DEF numericVars
  <2> QED
    BY <1>2, <2>1, <2>2, <2>3 DEF NumericsNext
<1> QED
  BY <1>1, <1>2, PTL DEF NumericsSpec

\* The particle filter (filter.py), for any number of particles, wear law, weights and
\* rounding of a unit: the cloud can always be normalised, resampling gives each particle
\* its share, and one without weight comes back only at the ends.
THEOREM FilterIsSafe == NumericsSpec => []FilterSafe
<1>1. FilterInv => FilterSafe
  BY FilterRight DEF FilterInv, FilterSafe
<1> QED
  BY <1>1, FilterInvHolds, PTL

-----------------------------------------------------------------------------
(***************************************************************************)
(* Quantiles.  The rank of an index is the number of those that come       *)
(* before it, by value and then by index.  No two have the same rank, so   *)
(* that every rank is taken (RankTaken), and sorting needs no swap to be   *)
(* followed: a sorted value is below y if and only if its place is within  *)
(* the number of values below y (PlaceCounts).                             *)
(***************************************************************************)
Values == [Samples -> Int]

Precedes(x, j, i) == x[j] < x[i] \/ (x[j] = x[i] /\ j < i)
Before(x, i) == {j \in Samples : Precedes(x, j, i)}
Rank(x, i) == Cardinality(Before(x, i))
Placed(x, k) == CHOOSE i \in Samples : Rank(x, i) = k - 1

LEMMA SamplesFacts ==
  /\ N \in Nat \ {0} /\ Samples = 1..N /\ IsFiniteSet(Samples) /\ Cardinality(Samples) = N
<1>1. N \in Nat \ {0} /\ Samples = 1..N
  BY ProjectionAssumption DEF Samples
<1>2. IsFiniteSet(1..N) /\ Cardinality(1..N) = IF 1 > N THEN 0 ELSE N - 1 + 1
  BY <1>1, FS_Interval
<1> QED
  BY <1>1, <1>2

LEMMA SomeSamples ==
  ASSUME NEW S \in SUBSET Samples
  PROVE  /\ IsFiniteSet(S) /\ Cardinality(S) \in 0..N
         /\ \A T \in SUBSET S : IsFiniteSet(T) /\ Cardinality(T) <= Cardinality(S)
<1>1. IsFiniteSet(S) /\ Cardinality(S) <= N
  BY SamplesFacts, FS_Subset
<1>2. Cardinality(S) \in Nat
  BY <1>1, FS_CardinalityType
<1>3. ASSUME NEW T \in SUBSET S PROVE IsFiniteSet(T) /\ Cardinality(T) <= Cardinality(S)
  BY <1>1, FS_Subset
<1> QED
  BY <1>1, <1>2, <1>3, SamplesFacts

LEMMA OneMore ==
  ASSUME NEW S \in SUBSET Samples, NEW T \in SUBSET S, NEW i \in S, i \notin T
  PROVE  Cardinality(T) + 1 <= Cardinality(S)
<1>1. IsFiniteSet(T) /\ Cardinality(T) \in Nat
  BY SomeSamples
<1>2. Cardinality(T \cup {i}) = Cardinality(T) + 1
  BY <1>1, FS_AddElement
<1>3. Cardinality(T \cup {i}) <= Cardinality(S)
  <2>1. T \cup {i} \in SUBSET S
    OBVIOUS
  <2> QED
    BY <2>1, SomeSamples
<1> QED
  BY <1>2, <1>3

LEMMA RankFacts ==
  ASSUME NEW x \in Values, NEW i \in Samples, NEW j \in Samples
  PROVE  /\ Rank(x, i) \in 0..N - 1
         /\ Precedes(x, i, j) <=> Rank(x, i) < Rank(x, j)
         /\ i # j <=> Rank(x, i) # Rank(x, j)
<1>0. /\ \A k \in Samples : x[k] \in Int /\ k \in Int
      /\ N \in Nat \ {0} /\ Cardinality(Samples) = N
  BY SamplesFacts DEF Values
<1>1. ASSUME NEW k \in Samples, NEW l \in Samples, Precedes(x, k, l)
      PROVE  Rank(x, k) + 1 <= Rank(x, l)
  <2>1. Before(x, k) \subseteq Before(x, l)
    <3> SUFFICES ASSUME NEW m \in Samples, Precedes(x, m, k) PROVE Precedes(x, m, l)
      BY DEF Before
    <3>1. x[m] \in Int /\ x[k] \in Int /\ x[l] \in Int /\ m \in Int /\ k \in Int /\ l \in Int
      BY <1>0
    <3> QED
      BY <1>1, <3>1 DEF Precedes
  <2>2. k \in Before(x, l) /\ k \notin Before(x, k)
    BY <1>0, <1>1 DEF Before, Precedes
  <2>3. Before(x, l) \in SUBSET Samples
    BY DEF Before
  <2> QED
    BY <2>1, <2>2, <2>3, OneMore DEF Rank
<1>2. ASSUME NEW k \in Samples PROVE Rank(x, k) \in 0..N - 1
  <2>1. Before(x, k) \in SUBSET Samples /\ k \notin Before(x, k)
    BY <1>0 DEF Before, Precedes
  <2>2. Cardinality(Before(x, k)) + 1 <= N /\ Cardinality(Before(x, k)) \in 0..N
    BY <1>0, <2>1, OneMore, SomeSamples
  <2> QED
    BY <1>0, <2>2 DEF Rank
<1>3. i = j \/ Precedes(x, i, j) \/ Precedes(x, j, i)
  BY <1>0 DEF Precedes
<1>4. ~ Precedes(x, i, i)
  BY <1>0 DEF Precedes
<1>5. Precedes(x, i, j) \in BOOLEAN
  BY DEF Precedes
<1>6. /\ Rank(x, i) \in 0..N - 1 /\ Rank(x, j) \in 0..N - 1
      /\ Precedes(x, i, j) => Rank(x, i) + 1 <= Rank(x, j)
      /\ Precedes(x, j, i) => Rank(x, j) + 1 <= Rank(x, i)
  BY <1>1, <1>2
<1> QED
  BY <1>3, <1>4, <1>5, <1>6

LEMMA RankTaken ==
  ASSUME NEW x \in Values, NEW k \in Samples
  PROVE  Placed(x, k) \in Samples /\ Rank(x, Placed(x, k)) = k - 1
<1> DEFINE r == [i \in Samples |-> Rank(x, i)]
<1>1. N \in Nat \ {0} /\ Samples = 1..N /\ IsFiniteSet(Samples) /\ Cardinality(Samples) = N
  BY SamplesFacts
<1>2. r \in Injection(Samples, 0..N - 1)
  <2>1. r \in [Samples -> 0..N - 1]
    BY RankFacts
  <2>2. \A i, j \in Samples : r[i] = r[j] => i = j
    BY RankFacts
  <2> QED
    BY <2>1, <2>2 DEF Injection, IsInjective
<1>3. IsFiniteSet(0..N - 1) /\ Cardinality(0..N - 1) = N
  <2>1. IsFiniteSet(0..N - 1) /\ Cardinality(0..N - 1) = IF 0 > N - 1 THEN 0 ELSE N - 1 - 0 + 1
    BY <1>1, FS_Interval
  <2> QED
    BY <1>1, <2>1
<1>4. r \in Surjection(Samples, 0..N - 1)
  <2> HIDE DEF r
  <2> QED
    BY <1>1, <1>2, <1>3, FS_Injection
<1>5. \E i \in Samples : r[i] = k - 1
  <2>1. k - 1 \in 0..N - 1
    BY <1>1
  <2> QED
    BY <1>4, <2>1 DEF Surjection
<1>6. \E i \in Samples : Rank(x, i) = k - 1
  BY <1>5
<1> QED
  BY <1>6 DEF Placed

LEMMA PlacesAscend ==
  ASSUME NEW x \in Values, NEW k \in Samples, NEW l \in Samples, k <= l
  PROVE  x[Placed(x, k)] <= x[Placed(x, l)]
<1>1. /\ Placed(x, k) \in Samples /\ Rank(x, Placed(x, k)) = k - 1
      /\ Placed(x, l) \in Samples /\ Rank(x, Placed(x, l)) = l - 1
  BY RankTaken
<1>2. x[Placed(x, k)] \in Int /\ x[Placed(x, l)] \in Int /\ k \in Int /\ l \in Int
  BY <1>1, SamplesFacts DEF Values
<1>3. CASE k = l
  BY <1>2, <1>3
<1>4. CASE k < l
  <2>1. Precedes(x, Placed(x, k), Placed(x, l))
    <3>1. Precedes(x, Placed(x, k), Placed(x, l)) <=> Rank(x, Placed(x, k)) < Rank(x, Placed(x, l))
      BY <1>1, RankFacts
    <3>2. k - 1 < l - 1
      BY <1>2, <1>4
    <3> QED
      BY <1>1, <3>1, <3>2
  <2> QED
    BY <1>2, <2>1 DEF Precedes
<1> QED
  BY <1>2, <1>3, <1>4

LEMMA PlaceCounts ==
  ASSUME NEW x \in Values, NEW k \in Samples, NEW y \in Int
  PROVE  /\ Cardinality({j \in Samples : x[j] < y}) \in 0..N
         /\ x[Placed(x, k)] < y <=> k <= Cardinality({j \in Samples : x[j] < y})
<1> DEFINE i == Placed(x, k)
           Less == {j \in Samples : x[j] < y}
<1>1. i \in Samples /\ Rank(x, i) = k - 1 /\ k \in Int /\ Less \in SUBSET Samples
  BY RankTaken, SamplesFacts
<1> HIDE DEF i
<1>2. \A j \in Samples : x[j] \in Int /\ j \in Int
  BY SamplesFacts DEF Values
<1>3. Cardinality(Less) \in 0..N
  BY <1>1, SomeSamples
<1>4. CASE x[i] < y
  <2>1. Before(x, i) \subseteq Less /\ i \in Less /\ i \notin Before(x, i)
    <3>1. ASSUME NEW j \in Samples, Precedes(x, j, i) PROVE x[j] < y
      <4>1. x[j] \in Int /\ x[i] \in Int
        BY <1>1, <1>2
      <4>2. x[j] <= x[i]
        BY <3>1, <4>1 DEF Precedes
      <4> QED
        BY <1>4, <4>1, <4>2
    <3>2. ~ Precedes(x, i, i)
      BY <1>1, <1>2 DEF Precedes
    <3> QED
      BY <1>1, <1>4, <3>1, <3>2 DEF Before
  <2>2. Rank(x, i) + 1 <= Cardinality(Less)
    <3> HIDE DEF Less
    <3> QED
      BY <1>1, <2>1, OneMore DEF Rank
  <2> HIDE DEF Less
  <2> QED
    BY <1>1, <1>3, <1>4, <2>2 DEF i, Less
<1>5. CASE ~ (x[i] < y)
  <2>1. Less \subseteq Before(x, i) /\ Before(x, i) \in SUBSET Samples
    <3>1. ASSUME NEW j \in Samples, x[j] < y PROVE Precedes(x, j, i)
      <4>1. x[j] \in Int /\ x[i] \in Int
        BY <1>1, <1>2
      <4> QED
        BY <1>5, <3>1, <4>1 DEF Precedes
    <3> QED
      BY <3>1 DEF Before
  <2>2. Cardinality(Less) <= Rank(x, i)
    <3> HIDE DEF Less
    <3> QED
      BY <2>1, SomeSamples DEF Rank
  <2> HIDE DEF Less
  <2> QED
    BY <1>1, <1>3, <1>5, <2>2 DEF i, Less
<1> QED
  BY <1>4, <1>5

\* More of what is not below 0 is not less.
LEMMA Proportion ==
  ASSUME NEW m \in Nat, NEW n \in Nat, m <= n, NEW d \in Nat
  PROVE  m * d \in Nat /\ n * d \in Nat /\ m * d <= n * d
<1> DEFINE e == n - m
<1>1. e \in Nat /\ n = m + e
  OBVIOUS
<1> HIDE DEF e
<1>2. n * d = m * d + e * d
  BY <1>1
<1>3. e * d \in Nat /\ m * d \in Nat
  BY <1>1
<1> DEFINE p == m * d
           r == e * d
<1>4. n * d = p + r /\ p \in Nat /\ r \in Nat
  BY <1>2, <1>3
<1> HIDE DEF p, r
<1>5. n * d \in Nat /\ p <= n * d
  BY <1>4
<1> QED
  BY <1>4, <1>5 DEF p

LEMMA LivesSorted ==
  ASSUME rul \in [Samples -> 0..Horizon]
  PROVE  /\ rul \in Values
         /\ \A k \in Samples : Sorted[k] = rul[Placed(rul, k)] /\ Sorted[k] \in 0..Horizon
         /\ \A k, l \in Samples : k <= l => Sorted[k] <= Sorted[l]
<1>1. rul \in Values /\ Horizon \in Nat
  BY ProjectionAssumption DEF Values
<1>2. ASSUME NEW k \in Samples PROVE Sorted[k] = rul[Placed(rul, k)]
  BY <1>2 DEF Sorted, Placed, Rank, Before, Precedes
<1>3. ASSUME NEW k \in Samples PROVE Sorted[k] \in 0..Horizon
  BY <1>1, <1>2, RankTaken
<1>4. ASSUME NEW k \in Samples, NEW l \in Samples, k <= l PROVE Sorted[k] <= Sorted[l]
  BY <1>1, <1>2, <1>4, PlacesAscend
<1> QED
  BY <1>1, <1>2, <1>3, <1>4

\* A point p hundredths of a place from the first: quantile(q) is at q * (N - 1).
Point(p) ==
  LET i == p \div 100 + 1
  IN IF i = N THEN 100 * Sorted[N] ELSE 100 * Sorted[i] + (p % 100) * (Sorted[i + 1] - Sorted[i])

LEMMA PointBetween ==
  ASSUME rul \in [Samples -> 0..Horizon], NEW p \in Nat, p <= 100 * (N - 1)
  PROVE  /\ p \div 100 + 1 \in Samples /\ Point(p) \in Nat
         /\ 100 * Sorted[p \div 100 + 1] <= Point(p)
         /\ p \div 100 + 1 < N =>
              /\ p \div 100 + 2 \in Samples /\ Point(p) <= 100 * Sorted[p \div 100 + 2]
         /\ Point(p) <= 100 * Horizon
<1> DEFINE i == p \div 100 + 1
           m == p % 100
<1>1. N \in Nat \ {0} /\ Samples = 1..N /\ Horizon \in Nat
  BY SamplesFacts, ProjectionAssumption
<1>2. i \in Samples /\ m \in 0..99 /\ i + 1 = p \div 100 + 2
  BY <1>1
<1>3. Point(p) = IF i = N THEN 100 * Sorted[N] ELSE 100 * Sorted[i] + m * (Sorted[i + 1] - Sorted[i])
  BY DEF Point
<1> HIDE DEF i, m
<1>4. Sorted[i] \in Nat /\ Sorted[i] <= Horizon
  BY <1>1, <1>2, LivesSorted
<1>5. CASE i = N
  <2>1. Point(p) = 100 * Sorted[i]
    BY <1>3, <1>5
  <2>2. Point(p) \in Nat /\ Point(p) <= 100 * Horizon
    BY <1>1, <1>4, <2>1
  <2> QED
    BY <1>2, <1>5, <2>1, <2>2, <1>1 DEF i
<1>6. CASE i # N
  <2>1. i + 1 \in Samples /\ i < N /\ i \in Nat
    BY <1>1, <1>2, <1>6
  <2>2. Sorted[i + 1] \in Nat /\ Sorted[i + 1] <= Horizon /\ Sorted[i] <= Sorted[i + 1]
    BY <1>1, <1>2, <2>1, LivesSorted
  <2> DEFINE d == Sorted[i + 1] - Sorted[i]
             f == m * d
  <2>3. d \in Nat /\ Sorted[i + 1] = Sorted[i] + d
    BY <1>4, <2>2
  <2> HIDE DEF d
  <2>4. f \in Nat /\ f <= 100 * d
    BY <1>2, <2>3, Proportion
  <2>5. Point(p) = 100 * Sorted[i] + f
    BY <1>3, <1>6 DEF d
  <2> HIDE DEF f
  <2>6. Point(p) \in Nat /\ 100 * Sorted[i] <= Point(p) /\ Point(p) <= 100 * Sorted[i + 1]
    BY <1>4, <2>2, <2>3, <2>4, <2>5
  <2>7. Point(p) <= 100 * Horizon
    BY <1>1, <2>2, <2>6
  <2> QED
    BY <1>2, <2>1, <2>6, <2>7 DEF i
<1> QED
  BY <1>5, <1>6

LEMMA PointGrows ==
  ASSUME rul \in [Samples -> 0..Horizon], NEW p \in Nat, NEW r \in Nat,
         p <= r, r <= 100 * (N - 1)
  PROVE  Point(p) <= Point(r)
<1> DEFINE i == p \div 100 + 1
           j == r \div 100 + 1
<1>1. N \in Nat \ {0} /\ Samples = 1..N
  BY SamplesFacts
<1>2. i \in Nat /\ j \in Nat /\ i <= j /\ j <= N /\ i >= 1
  BY <1>1
<1>3. p <= 100 * (N - 1)
  BY <1>1
<1>4. /\ Point(p) \in Nat /\ Point(r) \in Nat /\ 100 * Sorted[j] <= Point(r)
      /\ i < N => Point(p) <= 100 * Sorted[i + 1]
  <2>1. i + 1 = p \div 100 + 2
    OBVIOUS
  <2> QED
    BY <1>3, <2>1, PointBetween
<1>5. CASE i < j
  <2>1. i + 1 \in Samples /\ j \in Samples /\ i + 1 <= j
    BY <1>1, <1>2, <1>5
  <2>2. Sorted[i + 1] \in Nat /\ Sorted[j] \in Nat /\ Sorted[i + 1] <= Sorted[j]
    BY <2>1, LivesSorted, ProjectionAssumption
  <2> HIDE DEF i, j
  <2>3. Point(p) <= 100 * Sorted[i + 1]
    <3>1. i < N
      BY <1>1, <1>2, <1>5
    <3> QED
      BY <1>4, <3>1
  <2> QED
    BY <1>4, <2>2, <2>3
<1>6. CASE i = j /\ i = N
  BY <1>4, <1>6 DEF Point
<1>7. CASE i = j /\ i # N
  <2>1. i \in Samples /\ i + 1 \in Samples /\ i <= i + 1
    BY <1>1, <1>2, <1>7
  <2>2. Sorted[i] \in Nat /\ Sorted[i + 1] \in Nat /\ Sorted[i] <= Sorted[i + 1]
    BY <2>1, LivesSorted, ProjectionAssumption
  <2> DEFINE d == Sorted[i + 1] - Sorted[i]
             m == p % 100
             n == r % 100
  <2>3. d \in Nat
    <3> HIDE DEF i
    <3> QED
      BY <2>2
  <2>4. m \in Nat /\ n \in Nat /\ m <= n
    BY <1>7
  <2>5. Point(p) = 100 * Sorted[i] + m * d /\ Point(r) = 100 * Sorted[i] + n * d
    BY <1>7 DEF Point
  <2> HIDE DEF i, j, d, m, n
  <2>6. m * d \in Nat /\ n * d \in Nat /\ m * d <= n * d
    BY <2>3, <2>4, Proportion
  <2> DEFINE e == m * d
             f == n * d
  <2>7. /\ e \in Nat /\ f \in Nat /\ e <= f /\ Point(p) = 100 * Sorted[i] + e
        /\ Point(r) = 100 * Sorted[i] + f
    BY <2>5, <2>6
  <2> HIDE DEF e, f
  <2> QED
    BY <2>2, <2>7
<1> HIDE DEF i, j
<1> QED
  BY <1>2, <1>5, <1>6, <1>7

\* Of the lives, so many are above the one at place k, and so many below.
LEMMA LivesAside ==
  ASSUME rul \in [Samples -> 0..Horizon], NEW k \in Samples
  PROVE  /\ Cardinality({j \in Samples : rul[j] > Sorted[k]}) <= N - k
         /\ Cardinality({j \in Samples : rul[j] < Sorted[k]}) <= k - 1
<1>1. /\ N \in Nat \ {0} /\ Samples = 1..N /\ IsFiniteSet(Samples) /\ Cardinality(Samples) = N
      /\ k \in Int
  BY SamplesFacts
<1>2. /\ rul \in Values /\ Sorted[k] = rul[Placed(rul, k)] /\ Sorted[k] \in Int
      /\ \A j \in Samples : rul[j] \in Int
  BY LivesSorted, ProjectionAssumption
<1> DEFINE above == {j \in Samples : rul[j] > Sorted[k]}
           upto  == {j \in Samples : rul[j] < Sorted[k] + 1}
           lower == {j \in Samples : rul[j] < Sorted[k]}
<1>3. Cardinality(upto) \in 0..N /\ k <= Cardinality(upto)
  <2>1. Sorted[k] + 1 \in Int /\ rul[Placed(rul, k)] < Sorted[k] + 1
    BY <1>2
  <2> QED
    BY <1>2, <2>1, PlaceCounts
<1>4. Cardinality(lower) \in 0..N /\ ~ (k <= Cardinality(lower))
  <2>1. ~ (rul[Placed(rul, k)] < Sorted[k])
    BY <1>2
  <2> QED
    BY <1>2, <2>1, PlaceCounts
<1>5. above = Samples \ upto /\ upto = Samples \cap upto
  BY <1>2
<1> HIDE DEF above, upto, lower
<1>6. Cardinality(above) = N - Cardinality(upto)
  <2>1. Cardinality(Samples \ upto) = Cardinality(Samples) - Cardinality(Samples \cap upto)
    BY <1>1, FS_Difference
  <2> QED
    BY <1>1, <1>5, <2>1
<1>7. Cardinality(above) <= N - k
  BY <1>1, <1>3, <1>6
<1>8. Cardinality(lower) <= k - 1
  BY <1>1, <1>4
<1> QED
  BY <1>7, <1>8 DEF above, lower

LEMMA IntervalRight == ASSUME ProjectionInv PROVE IntervalHonest
<1>0. /\ N \in Nat \ {0} /\ Samples = 1..N /\ Horizon \in Nat
      /\ rul \in [Samples -> 0..Horizon] /\ RulIsFirstCrossing
  BY SamplesFacts, ProjectionAssumption DEF ProjectionInv, ProjectionTypeOK
<1>1. /\ quantile(5) = Point(5 * (N - 1)) /\ quantile(50) = Point(50 * (N - 1))
      /\ quantile(95) = Point(95 * (N - 1))
  BY DEF quantile, Point
<1>2. /\ 5 * (N - 1) \in Nat /\ 50 * (N - 1) \in Nat /\ 95 * (N - 1) \in Nat
      /\ 5 * (N - 1) <= 50 * (N - 1) /\ 50 * (N - 1) <= 95 * (N - 1)
      /\ 5 * (N - 1) <= 100 * (N - 1) /\ 50 * (N - 1) <= 100 * (N - 1)
      /\ 95 * (N - 1) <= 100 * (N - 1)
  BY <1>0
<1>3. /\ quantile(5) \in Nat /\ quantile(50) \in Nat /\ quantile(95) \in Nat
      /\ quantile(5) <= quantile(50) /\ quantile(50) <= quantile(95)
      /\ quantile(95) <= 100 * Horizon
  <2> DEFINE a == 5 * (N - 1)
             b == 50 * (N - 1)
             c == 95 * (N - 1)
             z == 100 * (N - 1)
  <2>1. a \in Nat /\ b \in Nat /\ c \in Nat /\ a <= b /\ b <= c /\ a <= z /\ b <= z /\ c <= z
    BY <1>2
  <2>2. quantile(5) = Point(a) /\ quantile(50) = Point(b) /\ quantile(95) = Point(c)
    BY <1>1
  <2>3. Point(a) \in Nat /\ Point(b) \in Nat /\ Point(c) \in Nat /\ Point(c) <= 100 * Horizon
    BY <1>0, <2>1, PointBetween
  <2>4. Point(a) <= Point(b) /\ Point(b) <= Point(c)
    BY <1>0, <2>1, PointGrows
  <2> HIDE DEF a, b, c
  <2> QED
    BY <2>2, <2>3, <2>4
<1>4. ASSUME quantile(50) < 100 * Horizon
      PROVE  2 * Cardinality({i \in Samples : crossings(i) = {}}) <= N
  <2> DEFINE k == (50 * (N - 1)) \div 100 + 1
  <2>1. k \in Samples /\ 100 * Sorted[k] <= quantile(50)
    <3>1. 50 * (N - 1) \in Nat /\ 50 * (N - 1) <= 100 * (N - 1)
      BY <1>0
    <3> QED
      BY <1>0, <1>1, <3>1, PointBetween
  <2>2. k \in Nat /\ 2 * (N - k) <= N
    BY <1>0
  <2> HIDE DEF k
  <2>3. Sorted[k] \in 0..Horizon
    BY <1>0, <2>1, LivesSorted
  <2>4. Sorted[k] < Horizon
    <3>1. quantile(50) \in Nat /\ Horizon \in Nat
      BY <1>0, <1>3
    <3> QED
      BY <1>4, <2>1, <2>3, <3>1
  <2> DEFINE never == {i \in Samples : crossings(i) = {}}
             above == {i \in Samples : rul[i] > Sorted[k]}
  <2>5. never \subseteq above
    <3>1. ASSUME NEW i \in Samples, crossings(i) = {} PROVE rul[i] > Sorted[k]
      <4>1. rul[i] = Horizon
        BY <1>0, <3>1 DEF RulIsFirstCrossing
      <4> QED
        BY <1>0, <2>3, <2>4, <4>1
    <3> QED
      BY <3>1
  <2>6. above \in SUBSET Samples /\ Cardinality(above) <= N - k
    BY <1>0, <2>1, LivesAside
  <2> HIDE DEF never, above
  <2>7. Cardinality(never) \in Nat /\ Cardinality(above) \in Nat
        /\ Cardinality(never) <= Cardinality(above)
    BY <2>5, <2>6, SomeSamples
  <2>8. 2 * Cardinality(never) <= N
    BY <1>0, <2>2, <2>6, <2>7
  <2> QED
    BY <2>8 DEF never
<1>5. Cardinality({i \in Samples : 100 * rul[i] > quantile(95)}) <= 1 + N \div 20
  <2> DEFINE k == (95 * (N - 1)) \div 100 + 1
  <2>1. k \in Samples /\ 100 * Sorted[k] <= quantile(95)
    <3>1. 95 * (N - 1) \in Nat /\ 95 * (N - 1) <= 100 * (N - 1)
      BY <1>0
    <3> QED
      BY <1>0, <1>1, <3>1, PointBetween
  <2>2. k \in Nat /\ N - k <= 1 + N \div 20 /\ N \div 20 \in Nat
    BY <1>0
  <2> HIDE DEF k
  <2>3. Sorted[k] \in 0..Horizon
    BY <1>0, <2>1, LivesSorted
  <2> DEFINE over  == {i \in Samples : 100 * rul[i] > quantile(95)}
             above == {i \in Samples : rul[i] > Sorted[k]}
  <2>4. over \subseteq above
    <3>1. ASSUME NEW i \in Samples, 100 * rul[i] > quantile(95) PROVE rul[i] > Sorted[k]
      <4>1. rul[i] \in Nat
        BY <1>0
      <4>2. 100 * Sorted[k] < 100 * rul[i]
        BY <1>3, <2>1, <2>3, <3>1, <4>1
      <4> QED
        BY <2>3, <4>1, <4>2
    <3> QED
      BY <3>1
  <2>5. above \in SUBSET Samples /\ Cardinality(above) <= N - k
    BY <1>0, <2>1, LivesAside
  <2> HIDE DEF over, above
  <2>6. Cardinality(over) \in Nat /\ Cardinality(above) \in Nat
        /\ Cardinality(over) <= Cardinality(above)
    BY <2>4, <2>5, SomeSamples
  <2>7. Cardinality(over) <= 1 + N \div 20
    BY <1>0, <2>2, <2>5, <2>6
  <2> QED
    BY <2>7 DEF over
<1>6. Cardinality({i \in Samples : 100 * rul[i] < quantile(5)}) <= 1 + N \div 20
  <2> DEFINE j == (5 * (N - 1)) \div 100 + 1
             k == IF j < N THEN j + 1 ELSE N
  <2>1. j \in Samples /\ (j < N => j + 1 \in Samples /\ quantile(5) <= 100 * Sorted[j + 1])
        /\ (j = N => quantile(5) = 100 * Sorted[N])
    <3>1. j + 1 = (5 * (N - 1)) \div 100 + 2
      BY <1>0
    <3>2. j = N => quantile(5) = 100 * Sorted[N]
      BY <1>1 DEF Point
    <3>3. 5 * (N - 1) \in Nat /\ 5 * (N - 1) <= 100 * (N - 1)
      BY <1>0
    <3>4. /\ j \in Samples
          /\ j < N => (5 * (N - 1)) \div 100 + 2 \in Samples
                      /\ quantile(5) <= 100 * Sorted[(5 * (N - 1)) \div 100 + 2]
      BY <1>0, <1>1, <3>3, PointBetween
    <3> HIDE DEF j
    <3> QED
      BY <3>1, <3>2, <3>4
  <2>2. k \in Samples /\ quantile(5) <= 100 * Sorted[k]
    <3> HIDE DEF j
    <3>1. CASE j < N
      BY <2>1, <3>1
    <3>2. CASE ~ (j < N)
      <4>1. j = N
        BY <1>0, <2>1, <3>2
      <4>2. Sorted[N] \in 0..Horizon
        BY <1>0, LivesSorted
      <4> QED
        BY <1>0, <2>1, <3>2, <4>1, <4>2
    <3> QED
      BY <3>1, <3>2
  <2>3. k \in Nat /\ k - 1 <= 1 + N \div 20 /\ N \div 20 \in Nat
    BY <1>0
  <2> HIDE DEF j, k
  <2>4. Sorted[k] \in 0..Horizon
    BY <1>0, <2>2, LivesSorted
  <2> DEFINE short == {i \in Samples : 100 * rul[i] < quantile(5)}
             lower == {i \in Samples : rul[i] < Sorted[k]}
  <2>5. short \subseteq lower
    <3>1. ASSUME NEW i \in Samples, 100 * rul[i] < quantile(5) PROVE rul[i] < Sorted[k]
      <4>1. rul[i] \in Nat
        BY <1>0
      <4>2. 100 * rul[i] < 100 * Sorted[k]
        BY <1>3, <2>2, <2>4, <3>1, <4>1
      <4> QED
        BY <2>4, <4>1, <4>2
    <3> QED
      BY <3>1
  <2>6. lower \in SUBSET Samples /\ Cardinality(lower) <= k - 1
    BY <1>0, <2>2, LivesAside
  <2> HIDE DEF short, lower
  <2>7. Cardinality(short) \in Nat /\ Cardinality(lower) \in Nat
        /\ Cardinality(short) <= Cardinality(lower)
    BY <2>5, <2>6, SomeSamples
  <2>8. Cardinality(short) <= 1 + N \div 20
    BY <1>0, <2>3, <2>6, <2>7
  <2> QED
    BY <2>8 DEF short
<1> QED
  BY <1>3, <1>4, <1>5, <1>6 DEF IntervalHonest

\* The cloud in order of wear: the sums of the ordered weights are what the particles up to
\* a rank weigh together.
Under(k) == {i \in Samples : Rank(wear, i) < k}
Only(S) == [i \in Filter!Particles |-> IF i \in S THEN level[i] ELSE 0 - Depth]
Placing == [i \in Filter!Particles |-> level[Filter!Ordered(i)]]

CloudTyped == wear \in [Filter!Particles -> Filter!Wear] /\ level \in Cloud

LEMMA CloudFacts ==
  ASSUME CloudTyped
  PROVE  /\ Filter!Particles = Samples /\ wear \in Values
         /\ \A i \in Samples : /\ wear[i] \in Nat /\ level[i] \in Filter!Levels
                               /\ Filter!weight(level[i]) \in Nat
         /\ \A k \in Samples : Filter!Sorted[k] = Placed(wear, k)
         /\ \A S : Only(S) \in Cloud
         /\ Placing \in Cloud
<1>1. Filter!Particles = Samples /\ N \in Nat
  BY SamplesFacts DEF Filter!Particles
<1>2. wear \in Values /\ \A i \in Samples : wear[i] \in Nat
  <2>1. Filter!Wear \subseteq Nat /\ Nat \subseteq Int
    BY FilterFacts DEF Filter!Wear
  <2> QED
    BY <1>1, <2>1 DEF CloudTyped, Values
<1>3. \A i \in Samples : level[i] \in Filter!Levels /\ Filter!weight(level[i]) \in Nat
  BY <1>1, FilterFacts DEF CloudTyped, Cloud
<1>4. \A S : Filter!Cardinality(S) = Cardinality(S)
  BY DEF Filter!Cardinality, Cardinality, Filter!IsFiniteSet, IsFiniteSet
<1>5. ASSUME NEW k \in Samples PROVE Filter!Sorted[k] = Placed(wear, k)
  BY <1>1, <1>4, <1>5 DEF Filter!Sorted, Placed, Rank, Before, Precedes
<1>6. 0 - Depth \in Filter!Levels
  BY FilterFacts DEF Filter!Levels
<1>7. \A S : Only(S) \in Cloud
  BY <1>1, <1>3, <1>6 DEF Only, Cloud
<1>8. Placing \in Cloud
  <2>1. ASSUME NEW i \in Samples PROVE level[Filter!Ordered(i)] \in Filter!Levels
    BY <1>2, <1>3, <1>5, RankTaken DEF Filter!Ordered
  <2> QED
    BY <1>1, <2>1 DEF Placing, Cloud
<1> QED
  BY <1>1, <1>2, <1>3, <1>5, <1>7, <1>8

\* Sums of weights compare as the weights do.
LEMMA SumsCompare ==
  ASSUME NEW l \in Cloud, NEW m \in Cloud,
         \A i \in 1..N : Filter!weight(l[i]) <= Filter!weight(m[i])
  PROVE  \A j \in 0..N : Filter!upTo(l, j) <= Filter!upTo(m, j)
<1> DEFINE Bad == {j \in 0..N : ~ (Filter!upTo(l, j) <= Filter!upTo(m, j))}
<1> SUFFICES ASSUME Bad # {} PROVE FALSE
  OBVIOUS
<1>1. N \in Nat
  BY FilterFacts
<1>2. PICK j \in Bad : \A k \in Bad : j <= k
  <2>1. Bad \in SUBSET Nat
    BY <1>1
  <2> HIDE DEF Bad
  <2> QED
    BY <2>1, LeastNumber
<1>3. j # 0
  BY <1>2, SumStep
<1>4. j \in 1..N /\ j - 1 \in 0..N /\ j - 1 \notin Bad
  BY <1>1, <1>2, <1>3
<1>5. Filter!upTo(l, j - 1) <= Filter!upTo(m, j - 1)
  BY <1>4
<1>6. /\ Filter!upTo(l, j) = Filter!upTo(l, j - 1) + Filter!weight(l[j])
      /\ Filter!upTo(m, j) = Filter!upTo(m, j - 1) + Filter!weight(m[j])
  BY <1>4, SumStep
<1>7. /\ Filter!upTo(l, j - 1) \in Nat /\ Filter!upTo(m, j - 1) \in Nat
  BY <1>4, SumGrows
<1>8. Filter!weight(l[j]) \in Nat /\ Filter!weight(m[j]) \in Nat
  BY <1>4, FilterFacts DEF Cloud
<1>9. Filter!upTo(l, j) <= Filter!upTo(m, j)
  BY <1>4, <1>5, <1>6, <1>7, <1>8
<1> QED
  BY <1>2, <1>9

LEMMA WeighsMore ==
  ASSUME CloudTyped, NEW S, NEW T, S \subseteq T
  PROVE  Filter!weighs(S) \in Nat /\ Filter!weighs(S) <= Filter!weighs(T)
<1>1. Filter!weighs(S) = Filter!upTo(Only(S), N) /\ Filter!weighs(T) = Filter!upTo(Only(T), N)
  BY DEF Filter!weighs, Only
<1>2. Only(S) \in Cloud /\ Only(T) \in Cloud /\ N \in 0..N
  BY CloudFacts, SamplesFacts
<1>3. ASSUME NEW i \in 1..N PROVE Filter!weight(Only(S)[i]) <= Filter!weight(Only(T)[i])
  <2>1. /\ Only(S)[i] = IF i \in S THEN level[i] ELSE 0 - Depth
        /\ Only(T)[i] = IF i \in T THEN level[i] ELSE 0 - Depth
    BY DEF Only, Filter!Particles
  <2>2. /\ 0 - Depth \in Filter!Levels /\ Filter!weight(0 - Depth) = 0
        /\ Filter!weight(level[i]) \in Nat
    BY FilterFacts, CloudFacts, SamplesFacts DEF Filter!Levels
  <2> QED
    BY <2>1, <2>2
<1>4. Filter!upTo(Only(S), N) <= Filter!upTo(Only(T), N)
  BY <1>2, <1>3, SumsCompare
<1>5. Filter!upTo(Only(S), N) \in Nat
  BY <1>2, SumGrows
<1> QED
  BY <1>1, <1>4, <1>5

LEMMA WeighsNothing == ASSUME CloudTyped PROVE Filter!weighs({}) = 0
<1> DEFINE l == Only({})
           Bad == {j \in 0..N : Filter!upTo(l, j) # 0}
<1>1. l \in Cloud /\ N \in Nat
  BY CloudFacts, SamplesFacts
<1>2. \A i \in 1..N : l[i] = 0 - Depth
  BY DEF Only, Filter!Particles
<1>3. Filter!weight(0 - Depth) = 0
  BY FilterFacts DEF Filter!Levels
<1> HIDE DEF l
<1>4. Bad = {}
  <2> SUFFICES ASSUME Bad # {} PROVE FALSE
    OBVIOUS
  <2>1. PICK j \in Bad : \A k \in Bad : j <= k
    <3>1. Bad \in SUBSET Nat
      BY <1>1
    <3> HIDE DEF Bad
    <3> QED
      BY <3>1, LeastNumber
  <2>2. j # 0
    BY <1>1, <2>1, SumStep
  <2>3. j \in 1..N /\ j - 1 \in 0..N /\ j - 1 \notin Bad
    BY <1>1, <2>1, <2>2
  <2>4. Filter!upTo(l, j) = Filter!upTo(l, j - 1) + Filter!weight(l[j])
    BY <1>1, <2>3, SumStep
  <2> QED
    BY <1>2, <1>3, <2>1, <2>3, <2>4
<1>5. Filter!upTo(l, N) = 0
  BY <1>1, <1>4
<1> QED
  BY <1>5 DEF Filter!weighs, Only, l

LEMMA WeighsOneMore ==
  ASSUME CloudTyped, NEW S, NEW i \in Samples, i \notin S
  PROVE  Filter!weighs(S \cup {i}) = Filter!weighs(S) + Filter!weight(level[i])
<1> DEFINE l == Only(S)
           m == Only(S \cup {i})
           more(j) == IF i <= j THEN Filter!weight(level[i]) ELSE 0
           Bad == {j \in 0..N : Filter!upTo(m, j) # Filter!upTo(l, j) + more(j)}
<1>1. l \in Cloud /\ m \in Cloud /\ N \in Nat /\ i \in 1..N /\ Filter!weight(level[i]) \in Nat
  BY CloudFacts, SamplesFacts
<1>2. /\ \A j \in 1..N : j # i => m[j] = l[j]
      /\ m[i] = level[i] /\ Filter!weight(l[i]) = 0
  <2>1. Filter!weight(0 - Depth) = 0
    BY FilterFacts DEF Filter!Levels
  <2> QED
    BY <1>1, <2>1 DEF Only, Filter!Particles
<1>3. /\ Filter!weighs(S) = Filter!upTo(l, N) /\ Filter!weighs(S \cup {i}) = Filter!upTo(m, N)
  BY DEF Filter!weighs, Only
<1> HIDE DEF l, m
<1>4. Bad = {}
  <2> SUFFICES ASSUME Bad # {} PROVE FALSE
    OBVIOUS
  <2>1. PICK j \in Bad : \A k \in Bad : j <= k
    <3>1. Bad \in SUBSET Nat
      BY <1>1
    <3> HIDE DEF Bad
    <3> QED
      BY <3>1, LeastNumber
  <2>2. j # 0
    BY <1>1, <2>1, SumStep
  <2>3. j \in 1..N /\ j - 1 \in 0..N /\ j - 1 \notin Bad
    BY <1>1, <2>1, <2>2
  <2>4. /\ Filter!upTo(l, j) = Filter!upTo(l, j - 1) + Filter!weight(l[j])
        /\ Filter!upTo(m, j) = Filter!upTo(m, j - 1) + Filter!weight(m[j])
        /\ Filter!upTo(m, j - 1) = Filter!upTo(l, j - 1) + more(j - 1)
    BY <1>1, <2>3, SumStep
  <2>5. Filter!upTo(l, j - 1) \in Nat /\ Filter!weight(l[j]) \in Nat
    BY <1>1, <2>3, SumGrows, FilterFacts DEF Cloud
  <2>6. more(j - 1) + Filter!weight(m[j]) = Filter!weight(l[j]) + more(j)
    <3>1. CASE j = i
      BY <1>1, <1>2, <3>1
    <3>2. CASE j # i
      <4>1. m[j] = l[j] /\ (i <= j <=> i <= j - 1)
        BY <1>1, <1>2, <2>3, <3>2
      <4> QED
        BY <1>1, <2>5, <4>1
    <3> QED
      BY <3>1, <3>2
  <2>7. more(j) \in Nat /\ more(j - 1) \in Nat /\ Filter!weight(m[j]) \in Nat
    BY <1>1, <2>3, FilterFacts DEF Cloud
  <2> HIDE DEF more
  <2>8. Filter!upTo(m, j) = Filter!upTo(l, j) + more(j)
    BY <2>4, <2>5, <2>6, <2>7
  <2> QED
    BY <2>1, <2>8
<1>5. Filter!upTo(m, N) = Filter!upTo(l, N) + more(N)
  BY <1>1, <1>4
<1> QED
  BY <1>1, <1>3, <1>5

LEMMA CumulatedFacts ==
  ASSUME CloudTyped
  PROVE  /\ \A k \in 0..N : /\ Filter!cumulated(k) \in Nat
                            /\ Filter!cumulated(k) = Filter!weighs(Under(k))
         /\ \A k, l \in 0..N : k <= l => Filter!cumulated(k) <= Filter!cumulated(l)
         /\ Filter!cumulated(0) = 0
         /\ Filter!cumulated(N) = Filter!total(level)
<1>1. /\ Placing \in Cloud /\ N \in Nat /\ Samples = 1..N /\ wear \in Values
      /\ Filter!Particles = Samples
  BY CloudFacts, SamplesFacts
<1>2. \A k : Filter!cumulated(k) = Filter!upTo(Placing, k)
  BY DEF Filter!cumulated, Placing
<1>3. /\ \A k \in 0..N : Filter!cumulated(k) \in Nat
      /\ \A k, l \in 0..N : k <= l => Filter!cumulated(k) <= Filter!cumulated(l)
      /\ Filter!cumulated(0) = 0
  BY <1>1, <1>2, SumGrows, SumStep
<1>4. ASSUME NEW k \in 1..N
      PROVE  Filter!cumulated(k) = Filter!cumulated(k - 1) + Filter!weight(level[Placed(wear, k)])
  <2>1. Placing[k] = level[Placed(wear, k)]
    BY <1>1, CloudFacts DEF Placing, Filter!Ordered
  <2> QED
    BY <1>1, <1>2, <2>1, SumStep
<1> DEFINE Bad == {k \in 0..N : Filter!cumulated(k) # Filter!weighs(Under(k))}
<1>5. Bad = {}
  <2> SUFFICES ASSUME Bad # {} PROVE FALSE
    OBVIOUS
  <2>1. PICK k \in Bad : \A j \in Bad : k <= j
    <3>1. Bad \in SUBSET Nat
      BY <1>1
    <3> HIDE DEF Bad
    <3> QED
      BY <3>1, LeastNumber
  <2>2. k # 0
    <3>1. Under(0) = {}
      BY <1>1, RankFacts DEF Under
    <3> QED
      BY <1>3, <2>1, <3>1, WeighsNothing
  <2>3. k \in 1..N /\ k - 1 \in 0..N /\ k - 1 \notin Bad
    BY <1>1, <2>1, <2>2
  <2> DEFINE i == Placed(wear, k)
  <2>4. i \in Samples /\ Rank(wear, i) = k - 1
    BY <1>1, <2>3, RankTaken
  <2>5. ASSUME NEW j \in Samples, Rank(wear, j) = k - 1 PROVE j = i
    BY <1>1, <2>4, <2>5, RankFacts
  <2> HIDE DEF i
  <2>6. i \notin Under(k - 1) /\ Under(k) = Under(k - 1) \cup {i}
    <3>1. \A j \in Samples : Rank(wear, j) < k <=> Rank(wear, j) < k - 1 \/ Rank(wear, j) = k - 1
      BY <1>1, <2>3, RankFacts
    <3>2. ~ (k - 1 < k - 1)
      BY <2>3
    <3> QED
      BY <2>4, <2>5, <3>1, <3>2 DEF Under
  <2>7. Filter!weighs(Under(k)) = Filter!weighs(Under(k - 1)) + Filter!weight(level[i])
    BY <2>4, <2>6, WeighsOneMore
  <2>8. Filter!cumulated(k) = Filter!cumulated(k - 1) + Filter!weight(level[i])
    BY <1>4, <2>3 DEF i
  <2> QED
    BY <2>1, <2>3, <2>7, <2>8
<1>6. Filter!cumulated(N) = Filter!total(level)
  <2>1. Under(N) = Samples
    BY <1>1, RankFacts DEF Under
  <2>2. Only(Samples) = level
    BY <1>1 DEF Only, CloudTyped, Cloud
  <2>3. Filter!weighs(Samples) = Filter!total(level)
    BY <2>2 DEF Filter!weighs, Only, Filter!total
  <2> QED
    BY <1>1, <1>5, <2>1, <2>3
<1> QED
  BY <1>3, <1>5, <1>6

\* The wear at place k, and the fraction n/d that interpolates at a hundredths of a unit of
\* weight: between places k and k + 1, or at the first.
Height(k) == wear[Placed(wear, k)]

Meets(a, k, n, d) ==
  /\ k \in 0..N - 1 /\ 100 * Filter!cumulated(k) <= a /\ a < 100 * Filter!cumulated(k + 1)
  /\ k = 0 => n = Height(1) /\ d = 1
  /\ k # 0 =>
       LET gap == Filter!cumulated(k + 1) - Filter!cumulated(k)
           due == a - 100 * Filter!cumulated(k)
       IN n = 100 * gap * Height(k) + due * (Height(k + 1) - Height(k)) /\ d = 100 * gap

LEMMA HeightFacts ==
  ASSUME CloudTyped
  PROVE  /\ \A k \in Samples : Height(k) \in Nat /\ Height(k) = wear[Filter!Sorted[k]]
         /\ \A k, l \in Samples : k <= l => Height(k) <= Height(l)
<1>1. /\ wear \in Values /\ \A i \in Samples : wear[i] \in Nat
      /\ \A k \in Samples : Filter!Sorted[k] = Placed(wear, k)
  BY CloudFacts
<1>2. \A k \in Samples : Height(k) \in Nat /\ Height(k) = wear[Filter!Sorted[k]]
  BY <1>1, RankTaken DEF Height
<1>3. \A k, l \in Samples : k <= l => Height(k) <= Height(l)
  BY <1>1, PlacesAscend DEF Height
<1> QED
  BY <1>2, <1>3

LEMMA QuantileMeets ==
  ASSUME CloudTyped, Filter!total(level) \in Nat \ {0}, NEW q \in {5, 50, 95}
  PROVE  \E k \in 0..N - 1 :
           Meets(q * Filter!total(level), k, Filter!quantile(q)[1], Filter!quantile(q)[2])
<1> DEFINE a == q * Filter!total(level)
           C(k) == Filter!cumulated(k)
           lower == {k \in Filter!Particles : 100 * C(k) <= a}
           best == CHOOSE m \in lower : \A l \in lower : l <= m
<1>1. /\ N \in Nat \ {0} /\ Samples = 1..N /\ Filter!Particles = 1..N
  BY SamplesFacts DEF Filter!Particles
<1>2. a \in Nat /\ a < 100 * Filter!total(level)
  <2>1. CASE q = 5
    BY <2>1
  <2>2. CASE q = 50
    BY <2>2
  <2>3. CASE q = 95
    BY <2>3
  <2> QED
    BY <2>1, <2>2, <2>3
<1>3. /\ \A k \in 0..N : C(k) \in Nat
      /\ \A k, l \in 0..N : k <= l => C(k) <= C(l)
      /\ C(0) = 0 /\ C(N) = Filter!total(level)
  BY CumulatedFacts
<1>4. /\ lower = {} => Filter!quantile(q) = <<wear[Filter!Sorted[1]], 1>>
      /\ lower # {} /\ best # N =>
           Filter!quantile(q) =
             <<100 * (C(best + 1) - C(best)) * wear[Filter!Sorted[best]]
                 + (a - 100 * C(best)) * (wear[Filter!Sorted[best + 1]] - wear[Filter!Sorted[best]]),
               100 * (C(best + 1) - C(best))>>
  BY DEF Filter!quantile
<1> HIDE DEF a, C
<1> DEFINE S == {m \in 0..N - 1 : a < 100 * C(m + 1)}
<1>5. PICK k \in S : \A m \in S : k <= m
  <2>1. N - 1 \in S
    <3>1. N - 1 \in 0..N - 1 /\ N - 1 + 1 = N
      BY <1>1
    <3> QED
      BY <1>2, <1>3, <3>1
  <2>2. S \in SUBSET Nat
    BY <1>1
  <2> HIDE DEF S
  <2> QED
    BY <2>1, <2>2, LeastNumber
<1>6. k \in 0..N - 1 /\ a < 100 * C(k + 1)
  BY <1>5
<1>7. ASSUME NEW l \in 1..N PROVE 100 * C(l) <= a <=> l <= k
  <2>1. C(l) \in Nat /\ C(k + 1) \in Nat
    BY <1>1, <1>3, <1>6
  <2>2. CASE l <= k
    <3>1. l - 1 \in 0..N - 1 /\ l - 1 + 1 = l /\ ~ (k <= l - 1)
      BY <1>1, <1>6, <2>2
    <3>2. ~ (a < 100 * C(l))
      BY <1>5, <3>1
    <3> QED
      BY <1>2, <2>1, <2>2, <3>2
  <2>3. CASE ~ (l <= k)
    <3>1. k + 1 \in 0..N /\ l \in 0..N /\ k + 1 <= l
      BY <1>1, <1>6, <2>3
    <3>2. C(k + 1) <= C(l)
      BY <1>3, <3>1
    <3> QED
      BY <1>2, <1>6, <2>1, <2>3, <3>2
  <2> QED
    BY <2>2, <2>3
<1>8. lower = 1..k
  BY <1>1, <1>6, <1>7
<1>9. C(k) \in Nat /\ 100 * C(k) <= a
  <2>1. CASE k = 0
    BY <1>2, <1>3, <1>1, <2>1
  <2>2. CASE k # 0
    BY <1>1, <1>3, <1>6, <1>7, <2>2
  <2> QED
    BY <2>1, <2>2
<1>10. CASE k = 0
  <2>1. lower = {}
    BY <1>8, <1>10
  <2>2. wear[Filter!Sorted[1]] = Height(1)
    BY <1>1, HeightFacts
  <2>3. Filter!quantile(q)[1] = Height(1) /\ Filter!quantile(q)[2] = 1
    BY <1>4, <2>1, <2>2
  <2> QED
    BY <1>6, <1>9, <1>10, <2>3 DEF Meets, a, C
<1>11. CASE k # 0
  <2>1. k \in lower /\ \A l \in lower : l <= k
    BY <1>6, <1>8, <1>11
  <2>2. best \in lower /\ \A l \in lower : l <= best
    <3> HIDE DEF lower
    <3> QED
      BY <2>1
  <2>3. best = k
    <3> HIDE DEF lower, best
    <3>1. best <= k /\ k <= best
      BY <2>1, <2>2
    <3>2. best \in Int /\ k \in Int
      BY <1>6, <1>8, <2>2
    <3> QED
      BY <3>1, <3>2
  <2>4. lower # {} /\ best # N
    BY <1>1, <1>6, <2>1, <2>3
  <2> HIDE DEF lower, best
  <2>5. k \in Samples /\ k + 1 \in Samples
    BY <1>1, <1>6, <1>11
  <2>6. /\ wear[Filter!Sorted[k]] = Height(k) /\ wear[Filter!Sorted[k + 1]] = Height(k + 1)
    BY <2>5, HeightFacts
  <2>7. /\ Filter!quantile(q)[1] = 100 * (C(k + 1) - C(k)) * Height(k)
                                     + (a - 100 * C(k)) * (Height(k + 1) - Height(k))
        /\ Filter!quantile(q)[2] = 100 * (C(k + 1) - C(k))
    BY <1>4, <2>3, <2>4, <2>6
  <2> QED
    BY <1>6, <1>9, <1>11, <2>7 DEF Meets, a, C
<1> QED
  BY <1>10, <1>11

\* Both sides of a fraction between two heights.
LEMMA MetBetween ==
  ASSUME CloudTyped, NEW a \in Nat, NEW k, NEW n, NEW d, Meets(a, k, n, d)
  PROVE  /\ k \in 0..N - 1 /\ n \in Nat /\ d \in Nat \ {0}
         /\ Height(k + 1) \in Nat /\ Height(k + 1) * d \in Nat /\ n <= Height(k + 1) * d
         /\ k = 0 => n = Height(k + 1) * d
         /\ k # 0 =>
              /\ Height(k) \in Nat /\ Height(k) * d \in Nat /\ Height(k) * d <= n
              /\ Height(k) <= Height(k + 1)
              /\ a = 100 * Filter!cumulated(k) => n = Height(k) * d
              /\ a # 100 * Filter!cumulated(k) /\ Height(k) < Height(k + 1) => Height(k) * d < n
<1>1. N \in Nat \ {0} /\ Samples = 1..N /\ k \in 0..N - 1
  BY SamplesFacts DEF Meets
<1>2. Filter!cumulated(k) \in Nat /\ Filter!cumulated(k + 1) \in Nat
  BY <1>1, CumulatedFacts
<1>3. k + 1 \in Samples /\ Height(k + 1) \in Nat
  BY <1>1, HeightFacts
<1>4. CASE k = 0
  <2>1. n = Height(1) /\ d = 1 /\ k + 1 = 1
    BY <1>4 DEF Meets
  <2> QED
    BY <1>1, <1>3, <1>4, <2>1
<1>5. CASE k # 0
  <2> DEFINE gap   == Filter!cumulated(k + 1) - Filter!cumulated(k)
             due   == a - 100 * Filter!cumulated(k)
             x     == Height(k)
             e     == Height(k + 1) - Height(k)
  <2>1. k \in Samples /\ x \in Nat /\ x <= Height(k + 1)
    BY <1>1, <1>3, <1>5, HeightFacts
  <2>2. e \in Nat /\ Height(k + 1) = x + e /\ (Height(k) < Height(k + 1) => e # 0)
    BY <1>3, <2>1
  <2>3. gap \in Nat \ {0} /\ due \in Nat /\ due <= 100 * gap
        /\ (a = 100 * Filter!cumulated(k) <=> due = 0)
    BY <1>2 DEF Meets
  <2>4. n = 100 * gap * x + due * e /\ d = 100 * gap
    BY <1>5 DEF Meets
  <2> HIDE DEF gap, due, x, e
  <2>5. d \in Nat \ {0} /\ due <= d
    BY <2>3, <2>4
  <2> DEFINE p == d * x
             r == due * e
             s == d * e
  <2>6. r \in Nat /\ s \in Nat /\ r <= s
    BY <2>2, <2>3, <2>5, Proportion
  <2>7. p \in Nat /\ n = p + r
    BY <2>1, <2>4, <2>5
  <2>8. Height(k + 1) * d = p + s /\ Height(k) * d = p
    <3>1. (x + e) * d = d * x + d * e /\ x * d = d * x
      BY <2>1, <2>2, <2>5
    <3> QED
      BY <2>2, <3>1 DEF x
  <2>9. due = 0 => r = 0
    BY <2>2
  <2>10. due # 0 /\ e # 0 => r # 0
    BY <2>2, <2>3
  <2> HIDE DEF p, r, s
  <2>11. n \in Nat /\ n <= Height(k + 1) * d /\ Height(k + 1) * d \in Nat
    BY <2>6, <2>7, <2>8
  <2>12. /\ Height(k) * d \in Nat /\ Height(k) * d <= n
         /\ due = 0 => n = Height(k) * d
         /\ due # 0 /\ e # 0 => Height(k) * d < n
    BY <2>6, <2>7, <2>8, <2>9, <2>10
  <2>13. Height(k) \in Nat /\ Height(k) <= Height(k + 1)
    BY <2>1 DEF x
  <2> QED
    BY <1>1, <1>3, <1>5, <2>2, <2>3, <2>5, <2>11, <2>12, <2>13
<1> QED
  BY <1>4, <1>5

\* A fraction that is at most a height is at most one that is at least it.
LEMMA FractionsThrough ==
  ASSUME NEW n \in Nat, NEW d \in Nat, NEW m \in Nat, NEW e \in Nat, NEW x \in Nat, NEW y \in Nat,
         n <= x * d, x <= y, y * e <= m
  PROVE  n * e <= m * d
<1>1. x * d \in Nat /\ x * e \in Nat /\ y * e \in Nat /\ x * e <= y * e
  BY Proportion
<1>2. x * e <= m
  BY <1>1
<1>3. n * e <= (x * d) * e
  BY <1>1, Proportion
<1>4. (x * e) * d <= m * d
  BY <1>1, <1>2, Proportion
<1>5. (x * d) * e = (x * e) * d
  OBVIOUS
<1>6. n * e \in Nat /\ m * d \in Nat /\ (x * e) * d \in Nat
  BY <1>1, Proportion
<1> QED
  BY <1>3, <1>4, <1>5, <1>6

LEMMA MetOrdered ==
  ASSUME CloudTyped, NEW a \in Nat, NEW b \in Nat, a <= b, NEW k, NEW n, NEW d, NEW l, NEW m, NEW e,
         Meets(a, k, n, d), Meets(b, l, m, e)
  PROVE  n * e <= m * d
<1>1. /\ N \in Nat \ {0} /\ Samples = 1..N /\ k \in 0..N - 1 /\ l \in 0..N - 1
      /\ n \in Nat /\ d \in Nat \ {0} /\ m \in Nat /\ e \in Nat \ {0}
  BY SamplesFacts, MetBetween
<1>2. /\ n <= Height(k + 1) * d /\ Height(k + 1) \in Nat
      /\ l # 0 => Height(l) \in Nat /\ Height(l) * e <= m
  BY MetBetween
<1>3. k <= l
  <2> SUFFICES ASSUME l < k PROVE FALSE
    BY <1>1
  <2>1. l + 1 \in 0..N /\ k \in 0..N /\ l + 1 <= k
    BY <1>1
  <2>2. /\ Filter!cumulated(l + 1) \in Nat /\ Filter!cumulated(k) \in Nat
        /\ Filter!cumulated(l + 1) <= Filter!cumulated(k)
    BY <2>1, CumulatedFacts
  <2>3. b < 100 * Filter!cumulated(l + 1) /\ 100 * Filter!cumulated(k) <= a
    BY DEF Meets
  <2> QED
    BY <2>2, <2>3
<1>4. CASE k < l
  <2>1. k + 1 \in Samples /\ l \in Samples /\ k + 1 <= l /\ l # 0
    BY <1>1, <1>4
  <2>2. Height(k + 1) <= Height(l)
    BY <2>1, HeightFacts
  <2> QED
    BY <1>1, <1>2, <2>1, <2>2, FractionsThrough
<1>5. CASE k = l /\ k = 0
  <2>1. n = Height(1) /\ m = Height(1) /\ d = 1 /\ e = 1
    BY <1>5 DEF Meets
  <2> QED
    BY <1>1, <2>1
<1>6. CASE k = l /\ k # 0
  <2> DEFINE gap   == Filter!cumulated(k + 1) - Filter!cumulated(k)
             due   == a - 100 * Filter!cumulated(k)
             rest  == b - 100 * Filter!cumulated(k)
             h     == Height(k + 1) - Height(k)
  <2>1. k + 1 \in 0..N /\ k \in 0..N /\ k \in Samples
    BY <1>1, <1>6
  <2>2. Filter!cumulated(k) \in Nat /\ Filter!cumulated(k + 1) \in Nat
    BY <2>1, CumulatedFacts
  <2>3. due \in Nat /\ rest \in Nat /\ due <= rest
    BY <1>6, <2>2 DEF Meets
  <2>4. h \in Nat /\ Height(k) \in Nat
    BY <1>6, MetBetween
  <2>5. /\ n = 100 * gap * Height(k) + due * h /\ d = 100 * gap
        /\ m = 100 * gap * Height(k) + rest * h /\ e = 100 * gap
    BY <1>6 DEF Meets
  <2> HIDE DEF gap, due, rest, h
  <2>6. due * h \in Nat /\ rest * h \in Nat /\ due * h <= rest * h
    BY <2>3, <2>4, Proportion
  <2> DEFINE p == d * Height(k)
             r == due * h
             s == rest * h
  <2>7. n = p + r /\ m = p + s /\ p \in Nat /\ r \in Nat /\ s \in Nat /\ r <= s /\ d = e
    <3>1. p \in Nat
      BY <1>1, <2>4
    <3>2. n = p + r /\ m = p + s /\ d = e
      BY <2>5
    <3> QED
      BY <2>6, <3>1, <3>2
  <2> HIDE DEF p, r, s
  <2>8. n <= m
    BY <2>7
  <2> QED
    BY <1>1, <2>7, <2>8, Proportion
<1> QED
  BY <1>1, <1>3, <1>4, <1>5, <1>6

\* What is below place k has a lower rank; what has a lower rank is not above it.
LEMMA RanksAtPlace ==
  ASSUME CloudTyped, NEW k \in Samples, NEW j \in Samples
  PROVE  /\ wear[j] < Height(k) => Rank(wear, j) < k - 1
         /\ Rank(wear, j) < k => wear[j] <= Height(k)
<1> DEFINE i == Placed(wear, k)
<1>1. wear \in Values /\ i \in Samples /\ Rank(wear, i) = k - 1 /\ Height(k) = wear[i]
  BY CloudFacts, RankTaken DEF Height
<1> HIDE DEF i
<1>2. /\ wear[i] \in Nat /\ wear[j] \in Nat /\ i \in Int /\ j \in Int /\ k \in Int
  BY <1>1, CloudFacts, SamplesFacts
<1>3. /\ Precedes(wear, j, i) <=> Rank(wear, j) < Rank(wear, i)
      /\ Precedes(wear, i, j) <=> Rank(wear, i) < Rank(wear, j)
      /\ Rank(wear, j) \in Int
  BY <1>1, RankFacts, SamplesFacts
<1>4. wear[j] < wear[i] => Precedes(wear, j, i)
  BY DEF Precedes
<1>5. wear[i] < wear[j] => Precedes(wear, i, j)
  BY DEF Precedes
<1>6. Rank(wear, j) < k => ~ (Rank(wear, i) < Rank(wear, j))
  BY <1>1, <1>2, <1>3
<1> QED
  BY <1>1, <1>2, <1>3, <1>4, <1>5, <1>6

LEMMA MetHonest ==
  ASSUME CloudTyped, NEW a \in Nat, NEW k, NEW n, NEW d, Meets(a, k, n, d)
  PROVE  LET upper == {i \in Samples : wear[i] * d >= n}
         IN /\ upper # {}
            /\ 100 * Filter!weighs(Samples \ upper) <= a
            /\ \A i \in upper : 100 * Filter!weighs({j \in Samples : wear[j] <= wear[i]}) >= a
<1> DEFINE upper == {i \in Samples : wear[i] * d >= n}
           C(j) == Filter!cumulated(j)
<1>1. /\ N \in Nat \ {0} /\ Samples = 1..N /\ k \in 0..N - 1 /\ n \in Nat /\ d \in Nat \ {0}
      /\ k + 1 \in Samples /\ Height(k + 1) \in Nat
  <2>1. N \in Nat \ {0} /\ Samples = 1..N
    BY SamplesFacts
  <2>2. k \in 0..N - 1 /\ n \in Nat /\ d \in Nat \ {0} /\ Height(k + 1) \in Nat
    BY MetBetween
  <2> QED
    BY <2>1, <2>2
<1>2. /\ C(k) \in Nat /\ C(k) = Filter!weighs(Under(k))
      /\ C(k + 1) \in Nat /\ C(k + 1) = Filter!weighs(Under(k + 1))
      /\ 100 * C(k) <= a /\ a < 100 * C(k + 1)
  <2>1. k \in 0..N /\ k + 1 \in 0..N
    BY <1>1
  <2> QED
    BY <2>1, CumulatedFacts DEF Meets
<1> HIDE DEF C
<1>3. \A i \in Samples : wear[i] \in Nat
  BY CloudFacts
<1>4. upper # {}
  <2>1. Placed(wear, k + 1) \in Samples
    BY <1>1, CloudFacts, RankTaken
  <2>2. wear[Placed(wear, k + 1)] * d >= n
    BY MetBetween, <1>1 DEF Height
  <2> QED
    BY <2>1, <2>2
<1>5. 100 * Filter!weighs(Samples \ upper) <= a
  <2>1. ASSUME NEW i \in Samples, ~ (wear[i] * d >= n) PROVE Rank(wear, i) < k
    <3>1. wear[i] < Height(k + 1)
      <4> SUFFICES ASSUME Height(k + 1) <= wear[i] PROVE FALSE
        BY <1>1, <1>3
      <4>1. Height(k + 1) * d <= wear[i] * d /\ wear[i] * d \in Nat
        BY <1>1, <1>3, Proportion
      <4>2. n <= Height(k + 1) * d /\ Height(k + 1) * d \in Nat
        BY MetBetween
      <4> QED
        BY <1>1, <2>1, <4>1, <4>2
    <3>2. Rank(wear, i) < (k + 1) - 1
      BY <1>1, <3>1, RanksAtPlace
    <3> QED
      BY <1>1, <3>2
  <2>2. Samples \ upper \subseteq Under(k)
    BY <2>1 DEF Under
  <2> HIDE DEF upper
  <2>3. /\ Filter!weighs(Samples \ upper) \in Nat
        /\ Filter!weighs(Samples \ upper) <= Filter!weighs(Under(k))
    BY <2>2, WeighsMore
  <2> QED
    BY <1>2, <2>3
<1>6. ASSUME NEW i \in upper
      PROVE  100 * Filter!weighs({j \in Samples : wear[j] <= wear[i]}) >= a
  <2> DEFINE upto == {j \in Samples : wear[j] <= wear[i]}
  <2>1. i \in Samples /\ wear[i] * d >= n /\ wear[i] \in Nat
    BY <1>3
  <2>2. ASSUME NEW l \in {k, k + 1}, l # 0, Height(l) <= wear[i]
        PROVE  Filter!weighs(upto) \in Nat /\ C(l) <= Filter!weighs(upto)
    <3>1. l \in Samples /\ l \in Int
      BY <1>1, <2>2
    <3>2. ASSUME NEW j \in Samples, Rank(wear, j) < l PROVE wear[j] <= wear[i]
      <4>1. wear[j] <= Height(l) /\ Height(l) \in Nat
        BY <3>1, <3>2, RanksAtPlace, HeightFacts
      <4> QED
        BY <1>3, <2>1, <2>2, <4>1
    <3>3. Under(l) \subseteq upto
      BY <3>2 DEF Under
    <3> HIDE DEF upto
    <3>4. Filter!weighs(Under(l)) <= Filter!weighs(upto) /\ Filter!weighs(upto) \in Nat
      BY <3>3, WeighsMore
    <3>5. C(l) = Filter!weighs(Under(l))
      BY <1>2, <2>2
    <3> QED
      BY <3>4, <3>5
  <2>3. CASE Height(k + 1) <= wear[i]
    <3>1. Filter!weighs(upto) \in Nat /\ C(k + 1) <= Filter!weighs(upto)
      BY <1>1, <2>2, <2>3
    <3> HIDE DEF upto
    <3>2. 100 * Filter!weighs(upto) >= a
      BY <1>2, <3>1
    <3> QED
      BY <3>2 DEF upto
  <2>4. CASE wear[i] < Height(k + 1)
    <3>1. k # 0
      <4> SUFFICES ASSUME k = 0 PROVE FALSE
        OBVIOUS
      <4>1. n = Height(k + 1) * d
        BY MetBetween
      <4>2. wear[i] + 1 <= Height(k + 1) /\ wear[i] + 1 \in Nat
        BY <1>1, <2>1, <2>4
      <4>3. (wear[i] + 1) * d <= Height(k + 1) * d
        BY <1>1, <4>2, Proportion
      <4>4. (wear[i] + 1) * d = wear[i] * d + d /\ wear[i] * d \in Nat
        BY <1>1, <2>1
      <4> DEFINE low == wear[i] * d
                 next == (wear[i] + 1) * d
      <4>5. low \in Nat /\ next = low + d /\ next <= n /\ n <= low
        BY <2>1, <4>1, <4>3, <4>4
      <4>6. d \in Nat /\ d > 0 /\ n \in Nat
        BY <1>1
      <4> HIDE DEF low, next
      <4> QED
        BY <4>5, <4>6
    <3>2. k \in Samples /\ Height(k) \in Nat /\ Height(k) * d <= n /\ Height(k) * d \in Nat
      BY <1>1, <3>1, MetBetween
    \* The particle at hand has a rank below k, so it is not above the one at place k.
    <3>3. wear[i] <= Height(k)
      <4>1. Rank(wear, i) < (k + 1) - 1
        BY <1>1, <2>1, <2>4, RanksAtPlace
      <4>2. Rank(wear, i) < k
        BY <1>1, <4>1
      <4> QED
        BY <2>1, <3>2, <4>2, RanksAtPlace
    <3>4. wear[i] * d <= Height(k) * d /\ wear[i] * d \in Nat
      BY <1>1, <2>1, <3>2, <3>3, Proportion
    <3>5. n = Height(k) * d
      <4> DEFINE low == wear[i] * d
                 top == Height(k) * d
      <4>1. low \in Nat /\ top \in Nat /\ low <= top /\ top <= n /\ n <= low
        BY <2>1, <3>2, <3>4
      <4> HIDE DEF low
      <4>2. n \in Nat
        BY <1>1
      <4> QED
        BY <4>1, <4>2
    <3>6. Height(k) <= wear[i]
      <4> SUFFICES ASSUME wear[i] < Height(k) PROVE FALSE
        BY <2>1, <3>2
      <4>1. wear[i] + 1 <= Height(k) /\ wear[i] + 1 \in Nat
        BY <2>1, <3>2
      <4>2. (wear[i] + 1) * d <= Height(k) * d
        BY <1>1, <3>2, <4>1, Proportion
      <4>3. (wear[i] + 1) * d = wear[i] * d + d
        BY <1>1, <2>1
      <4> DEFINE low == wear[i] * d
                 top == Height(k) * d
                 next == (wear[i] + 1) * d
      <4>4. /\ low \in Nat /\ top \in Nat /\ next = low + d
            /\ next <= top
        BY <3>2, <3>4, <4>2, <4>3
      <4>5. n <= low /\ n = top
        BY <2>1, <3>5
      <4>6. d \in Nat /\ d > 0
        BY <1>1
      <4> HIDE DEF low, top, next
      <4> QED
        BY <4>4, <4>5, <4>6
    <3>7. a = 100 * C(k)
      <4>1. Height(k) < Height(k + 1)
        BY <1>1, <2>1, <2>4, <3>2, <3>6
      <4>2. ~ (Height(k) * d < n)
        BY <3>2, <3>5
      <4> QED
        BY <3>1, <4>1, <4>2, MetBetween DEF C
    <3>8. Filter!weighs(upto) \in Nat /\ C(k) <= Filter!weighs(upto)
      BY <2>2, <3>1, <3>6
    <3> HIDE DEF upto
    <3>9. 100 * Filter!weighs(upto) >= a
      BY <1>2, <3>7, <3>8
    <3> QED
      BY <3>9 DEF upto
  <2> QED
    BY <1>1, <2>1, <2>3, <2>4
<1> QED
  BY <1>4, <1>5, <1>6

LEMMA QuantilesRight == ASSUME FilterRuns PROVE Filter!QuantilesHold
<1> DEFINE T == Filter!total(level)
           Q(q) == Filter!quantile(q)
<1>1. CloudTyped /\ Filter!Particles = Samples
  BY CloudFacts DEF FilterRuns, CloudTyped
<1>2. T \in Nat \ {0}
  BY TotalPositive DEF FilterRuns
<1>3. ASSUME NEW q \in {5, 50, 95} PROVE \E k \in 0..N - 1 : Meets(q * T, k, Q(q)[1], Q(q)[2])
  BY <1>1, <1>2, QuantileMeets
<1>4. 5 * T \in Nat /\ 50 * T \in Nat /\ 95 * T \in Nat /\ 5 * T <= 50 * T /\ 50 * T <= 95 * T
  BY <1>2
<1> HIDE DEF T, Q
<1>5. Q(5)[1] * Q(50)[2] <= Q(50)[1] * Q(5)[2]
  <2>1. PICK k \in 0..N - 1 : Meets(5 * T, k, Q(5)[1], Q(5)[2])
    BY <1>3
  <2>2. PICK l \in 0..N - 1 : Meets(50 * T, l, Q(50)[1], Q(50)[2])
    BY <1>3
  <2> QED
    BY <1>1, <1>4, <2>1, <2>2, MetOrdered
<1>6. Q(50)[1] * Q(95)[2] <= Q(95)[1] * Q(50)[2]
  <2>1. PICK k \in 0..N - 1 : Meets(50 * T, k, Q(50)[1], Q(50)[2])
    BY <1>3
  <2>2. PICK l \in 0..N - 1 : Meets(95 * T, l, Q(95)[1], Q(95)[2])
    BY <1>3
  <2> QED
    BY <1>1, <1>4, <2>1, <2>2, MetOrdered
<1>7. ASSUME NEW q \in {5, 50, 95}
      PROVE  LET upper == {i \in Samples : wear[i] * Q(q)[2] >= Q(q)[1]}
             IN /\ upper # {}
                /\ 100 * Filter!weighs(Samples \ upper) <= q * T
                /\ \A i \in upper :
                     100 * Filter!weighs({j \in Samples : wear[j] <= wear[i]}) >= q * T
  <2>1. PICK k \in 0..N - 1 : Meets(q * T, k, Q(q)[1], Q(q)[2])
    BY <1>3
  <2>2. q * T \in Nat
    BY <1>4
  <2> QED
    BY <1>1, <2>1, <2>2, MetHonest
<1> QED
  BY <1>1, <1>5, <1>6, <1>7 DEF Filter!QuantilesHold, T, Q

\* The interval that is reported (cloud.py, rul.py), for any cloud and any lives: its bounds
\* are in order, and each is where its share of the weight or of the samples is met.
THEOREM QuantilesAreHonest == NumericsSpec => []QuantilesHonest
<1>1. ProjectionInv /\ FilterInv => QuantilesHonest
  BY IntervalRight, QuantilesRight DEF FilterInv, QuantilesHonest
<1> QED
  BY <1>1, ProjectionInvHolds, FilterInvHolds, PTL

-----------------------------------------------------------------------------
(***************************************************************************)
(* WearOnset.  A curve falls up to where it stops being steady and rises   *)
(* from where it starts to be (CurveShape), and so do the rates            *)
(* (RatesFall, RatesRise).  A point that comes before the steady cuts is   *)
(* then worse than the third of them (EarlyIsWorse), and one that comes    *)
(* after them is no better than the last (LateIsNoBetter), the two points  *)
(* that are padded with zeros included: the wear-out makes up for them.    *)
(***************************************************************************)
Shaped(a, b, c, d) ==
  /\ a \in 0..K - 2 /\ b \in a..K - 2 /\ c \in b + 1..K - 1 /\ d \in c..K - 1
  /\ added = Onset!curve(a, b, c, d)

OnsetRuns ==
  /\ \E a, b, c, d \in Nat : Shaped(a, b, c, d)
  /\ phase # "labels" => onset = Onset!Detected

OnsetInv == part = "onset" => OnsetRuns

Edges == 1..K - 1

LEMMA OnsetFacts ==
  /\ K \in Nat /\ K >= 5
  /\ Slow \in Nat \ {0} /\ Mid \in Nat \ {0} /\ Fast \in Nat \ {0} /\ Slow < Mid /\ Mid < Fast
BY OnsetAssumption DEF Onset!OnsetAssumption

LEMMA CurveShape ==
  ASSUME NEW a \in Nat, NEW b \in Nat, NEW c \in Nat, NEW d \in Nat, Shaped(a, b, c, d)
  PROVE  /\ \A i \in Edges : added[i] \in Nat \ {0}
         /\ \A i \in Edges : IF i \in b + 1..c THEN added[i] = Slow ELSE added[i] > Slow
         /\ \A i, j \in Edges : i <= j /\ j <= c => added[j] <= added[i]
         /\ \A i, j \in Edges : b < i /\ i <= j => added[i] <= added[j]
         /\ Onset!steady = b + 1..c
<1> USE OnsetFacts DEF Shaped
<1>1. DOMAIN added = Edges
  BY DEF Onset!curve, Edges
<1>2. ASSUME NEW i \in Edges
      PROVE  added[i] = IF i <= a \/ i > d THEN Fast
                        ELSE IF i \in a + 1..b \/ i \in c + 1..d THEN Mid ELSE Slow
  <2>1. /\ i \in Int /\ i >= 1
        /\ a \in Int /\ b \in Int /\ c \in Int /\ d \in Int
        /\ a <= b /\ b < c /\ c <= d
    BY <1>2 DEF Edges
  <2>2. added[i] = Onset!curve(a, b, c, d)[i] /\ i \in 1..K - 1
    BY <1>2 DEF Edges
  <2> QED
    BY <2>1, <2>2 DEF Onset!curve
<1>3. ASSUME NEW i \in Edges
      PROVE  IF i \in b + 1..c THEN added[i] = Slow ELSE added[i] > Slow
  BY <1>2 DEF Edges
<1>4. ASSUME NEW i \in Edges PROVE added[i] \in Nat \ {0}
  BY <1>2 DEF Edges
<1>5. ASSUME NEW i \in Edges, NEW j \in Edges, i <= j, j <= c PROVE added[j] <= added[i]
  BY <1>2, <1>5 DEF Edges
<1>6. ASSUME NEW i \in Edges, NEW j \in Edges, b < i, i <= j PROVE added[i] <= added[j]
  BY <1>2, <1>6 DEF Edges
<1>7. Onset!steady = b + 1..c
  BY <1>1, <1>3 DEF Onset!steady, Edges
<1> QED
  BY <1>3, <1>4, <1>5, <1>6, <1>7

LEMMA RateFacts ==
  ASSUME \A i \in Edges : added[i] \in Nat \ {0}
  PROVE  /\ Onset!rate(1) = 2 * added[1] /\ Onset!rate(K) = 2 * added[K - 1]
         /\ \A i \in 2..K - 1 : Onset!rate(i) = added[i - 1] + added[i]
         /\ \A i \in 1..K : Onset!rate(i) \in Nat
<1>0. K \in Nat /\ K >= 5
  BY OnsetFacts
<1>1. Onset!rate(1) = 2 * added[1] /\ Onset!rate(K) = 2 * added[K - 1]
  BY <1>0 DEF Onset!rate
<1>2. ASSUME NEW i \in 2..K - 1 PROVE Onset!rate(i) = added[i - 1] + added[i]
  BY <1>0 DEF Onset!rate
<1>3. added[1] \in Nat /\ added[K - 1] \in Nat
  BY <1>0 DEF Edges
<1>4. ASSUME NEW i \in 2..K - 1 PROVE added[i - 1] + added[i] \in Nat
  BY <1>0 DEF Edges
<1> QED
  BY <1>0, <1>1, <1>2, <1>3, <1>4

LEMMA RatesFall ==
  ASSUME NEW c \in Edges, \A i \in Edges : added[i] \in Nat \ {0},
         \A i, j \in Edges : i <= j /\ j <= c => added[j] <= added[i],
         NEW i \in 1..c, NEW j \in i..c
  PROVE  Onset!rate(j) <= Onset!rate(i)
<1>0. K \in Nat /\ K >= 5 /\ c \in 1..K - 1
  BY OnsetFacts DEF Edges
<1>1. CASE i >= 2
  <2>1. i - 1 \in Edges /\ i \in Edges /\ j - 1 \in Edges /\ j \in Edges
    BY <1>0, <1>1 DEF Edges
  <2>2. added[j - 1] <= added[i - 1] /\ added[j] <= added[i]
    BY <1>0, <1>1, <2>1
  <2> QED
    BY <1>0, <1>1, <2>1, <2>2, RateFacts
<1>2. CASE i = 1 /\ j >= 2
  <2>1. 1 \in Edges /\ j - 1 \in Edges /\ j \in Edges
    BY <1>0, <1>2 DEF Edges
  <2>2. added[j - 1] <= added[1] /\ added[j] <= added[1]
    BY <1>0, <1>2, <2>1
  <2> QED
    BY <1>0, <1>2, <2>1, <2>2, RateFacts
<1>3. CASE i = 1 /\ j = 1
  BY <1>0, <1>3, RateFacts
<1> QED
  BY <1>0, <1>1, <1>2, <1>3

LEMMA RatesRise ==
  ASSUME NEW b \in Nat, \A i \in Edges : added[i] \in Nat \ {0},
         \A i, j \in Edges : b < i /\ i <= j => added[i] <= added[j],
         NEW i \in b + 2..K, NEW j \in i..K
  PROVE  Onset!rate(i) <= Onset!rate(j)
<1>0. K \in Nat /\ K >= 5
  BY OnsetFacts
<1>1. CASE j < K
  <2>1. i - 1 \in Edges /\ i \in Edges /\ j - 1 \in Edges /\ j \in Edges
    BY <1>0, <1>1 DEF Edges
  <2>2. added[i - 1] <= added[j - 1] /\ added[i] <= added[j]
    BY <1>0, <1>1, <2>1
  <2> QED
    BY <1>0, <1>1, <2>1, <2>2, RateFacts
<1>2. CASE j = K /\ i < K
  <2>1. i - 1 \in Edges /\ i \in Edges /\ K - 1 \in Edges
    BY <1>0, <1>2 DEF Edges
  <2>2. added[i - 1] <= added[K - 1] /\ added[i] <= added[K - 1]
    BY <1>0, <1>2, <2>1
  <2> QED
    BY <1>0, <1>2, <2>1, <2>2, RateFacts
<1>3. CASE j = K /\ i = K
  BY <1>0, <1>3, RateFacts
<1> QED
  BY <1>0, <1>1, <1>2, <1>3

LEMMA SmoothedFacts ==
  ASSUME \A i \in Edges : added[i] \in Nat \ {0}
  PROVE  /\ \A i \in 1..K : Onset!Smoothed(i) \in Nat
         /\ \A i \in 3..K - 2 :
              Onset!Smoothed(i) = Onset!rate(i - 2) + Onset!rate(i - 1) + Onset!rate(i)
                                    + Onset!rate(i + 1) + Onset!rate(i + 2)
         /\ Onset!Smoothed(K - 1) = Onset!rate(K - 3) + Onset!rate(K - 2) + Onset!rate(K - 1)
                                      + Onset!rate(K)
         /\ Onset!Smoothed(K) = Onset!rate(K - 2) + Onset!rate(K - 1) + Onset!rate(K)
<1>0. K \in Nat /\ K >= 5
  BY OnsetFacts
<1>1. \A i \in 1..K : Onset!rate(i) \in Nat /\ Onset!padded(i) = Onset!rate(i)
  BY RateFacts DEF Onset!padded, Onset!Cuts
<1>2. \A i \in Int : i \notin 1..K => Onset!padded(i) = 0
  BY DEF Onset!padded, Onset!Cuts
<1>3. \A i \in Int : Onset!padded(i) \in Nat
  BY <1>1, <1>2
<1>4. \A i \in Int : Onset!Smoothed(i) = Onset!padded(i - 2) + Onset!padded(i - 1)
                       + Onset!padded(i) + Onset!padded(i + 1) + Onset!padded(i + 2)
  BY DEF Onset!Smoothed, Onset!Window
<1>5. ASSUME NEW i \in 1..K PROVE Onset!Smoothed(i) \in Nat
  <2>1. /\ Onset!padded(i - 2) \in Nat /\ Onset!padded(i - 1) \in Nat /\ Onset!padded(i) \in Nat
        /\ Onset!padded(i + 1) \in Nat /\ Onset!padded(i + 2) \in Nat
    BY <1>0, <1>3
  <2> QED
    BY <1>0, <1>4, <2>1
<1>6. ASSUME NEW i \in 3..K - 2
      PROVE  Onset!Smoothed(i) = Onset!rate(i - 2) + Onset!rate(i - 1) + Onset!rate(i)
                                   + Onset!rate(i + 1) + Onset!rate(i + 2)
  BY <1>0, <1>1, <1>4
<1>7. /\ Onset!padded(K - 3) = Onset!rate(K - 3) /\ Onset!padded(K - 2) = Onset!rate(K - 2)
      /\ Onset!padded(K - 1) = Onset!rate(K - 1) /\ Onset!padded(K) = Onset!rate(K)
      /\ Onset!padded(K + 1) = 0 /\ Onset!padded(K + 2) = 0
      /\ Onset!rate(K - 3) \in Nat /\ Onset!rate(K - 2) \in Nat /\ Onset!rate(K - 1) \in Nat
      /\ Onset!rate(K) \in Nat
  BY <1>0, <1>1, <1>2
<1>8. /\ Onset!Smoothed(K - 1) = Onset!padded(K - 3) + Onset!padded(K - 2) + Onset!padded(K - 1)
                                   + Onset!padded(K) + Onset!padded(K + 1)
      /\ Onset!Smoothed(K) = Onset!padded(K - 2) + Onset!padded(K - 1) + Onset!padded(K)
                               + Onset!padded(K + 1) + Onset!padded(K + 2)
  <2>1. /\ (K - 1) - 2 = K - 3 /\ (K - 1) - 1 = K - 2 /\ (K - 1) + 1 = K /\ (K - 1) + 2 = K + 1
        /\ K - 1 \in Int /\ K \in Int
    BY <1>0
  <2> QED
    BY <1>4, <2>1
<1>9. /\ Onset!Smoothed(K - 1) = Onset!rate(K - 3) + Onset!rate(K - 2) + Onset!rate(K - 1)
                                   + Onset!rate(K)
      /\ Onset!Smoothed(K) = Onset!rate(K - 2) + Onset!rate(K - 1) + Onset!rate(K)
  BY <1>7, <1>8
<1> QED
  BY <1>5, <1>6, <1>9

LEMMA EarlyIsWorse ==
  ASSUME NEW a \in Nat, NEW b \in Nat, NEW c \in Nat, NEW d \in Nat, Shaped(a, b, c, d),
         b + 4 <= c, NEW i \in 3..b
  PROVE  Onset!Smoothed(b + 2) < Onset!Smoothed(i)
<1>0. K \in Nat /\ K >= 5 /\ c \in Edges /\ c <= K - 1
  BY OnsetFacts DEF Shaped, Edges
<1>1. /\ \A k \in Edges : added[k] \in Nat \ {0}
      /\ \A k \in Edges : IF k \in b + 1..c THEN added[k] = Slow ELSE added[k] > Slow
      /\ \A k, j \in Edges : k <= j /\ j <= c => added[j] <= added[k]
  BY CurveShape
<1>2. /\ Onset!Smoothed(i) = Onset!rate(i - 2) + Onset!rate(i - 1) + Onset!rate(i)
                               + Onset!rate(i + 1) + Onset!rate(i + 2)
      /\ Onset!Smoothed(b + 2) = Onset!rate(b) + Onset!rate(b + 1) + Onset!rate(b + 2)
                                   + Onset!rate(b + 3) + Onset!rate(b + 4)
  <2>1. i \in 3..K - 2 /\ b + 2 \in 3..K - 2
    BY <1>0
  <2>2. /\ (b + 2) - 2 = b /\ (b + 2) - 1 = b + 1 /\ (b + 2) + 1 = b + 3
        /\ (b + 2) + 2 = b + 4
    OBVIOUS
  <2> QED
    BY <1>1, <2>1, <2>2, SmoothedFacts
<1>3. \A k \in 1..c : \A j \in k..c : Onset!rate(j) <= Onset!rate(k)
  BY <1>0, <1>1, RatesFall
<1>4. /\ Onset!rate(b) <= Onset!rate(i - 2) /\ Onset!rate(b + 1) <= Onset!rate(i - 1)
      /\ Onset!rate(b + 3) <= Onset!rate(i + 1) /\ Onset!rate(b + 4) <= Onset!rate(i + 2)
  BY <1>0, <1>3
<1>5. Onset!rate(b + 2) < Onset!rate(i)
  <2>1. i \in 2..K - 1 /\ b + 2 \in 2..K - 1
    BY <1>0
  <2>2. Onset!rate(i) = added[i - 1] + added[i] /\ Onset!rate(b + 2) = added[b + 1] + added[b + 2]
    <3>1. (b + 2) - 1 = b + 1
      OBVIOUS
    <3> QED
      BY <1>1, <2>1, <3>1, RateFacts
  <2>3. /\ i - 1 \in Edges /\ i \in Edges /\ b + 1 \in Edges /\ b + 2 \in Edges
        /\ b + 1 \in b + 1..c /\ b + 2 \in b + 1..c /\ i - 1 \notin b + 1..c /\ i \notin b + 1..c
    BY <1>0 DEF Edges
  <2>4. added[b + 1] = Slow /\ added[b + 2] = Slow /\ added[i - 1] > Slow /\ added[i] > Slow
    BY <1>1, <2>3
  <2>5. added[i - 1] \in Nat /\ added[i] \in Nat /\ Slow \in Nat
    BY <1>1, <2>3, OnsetFacts
  <2> QED
    BY <2>2, <2>4, <2>5
<1>6. \A k \in 1..c : Onset!rate(k) \in Nat
  BY <1>0, <1>1, RateFacts
<1>7. /\ Onset!rate(i - 2) \in Nat /\ Onset!rate(i - 1) \in Nat /\ Onset!rate(i) \in Nat
      /\ Onset!rate(i + 1) \in Nat /\ Onset!rate(i + 2) \in Nat /\ Onset!rate(b) \in Nat
      /\ Onset!rate(b + 1) \in Nat /\ Onset!rate(b + 2) \in Nat /\ Onset!rate(b + 3) \in Nat
      /\ Onset!rate(b + 4) \in Nat
  BY <1>0, <1>6
<1> QED
  BY <1>2, <1>4, <1>5, <1>7

LEMMA LateIsNoBetter ==
  ASSUME NEW a \in Nat, NEW b \in Nat, NEW c \in Nat, NEW d \in Nat, Shaped(a, b, c, d),
         b + 4 <= c, c <= K - 3, \A j \in K - 2..K - 1 : added[j] >= 3 * Slow,
         NEW i \in c + 2..K
  PROVE  Onset!Smoothed(c) <= Onset!Smoothed(i)
<1>0. K \in Nat /\ K >= 5 /\ c \in Edges /\ Slow \in Nat
  BY OnsetFacts DEF Shaped, Edges
<1>1. /\ \A k \in Edges : added[k] \in Nat \ {0}
      /\ \A k \in Edges : IF k \in b + 1..c THEN added[k] = Slow ELSE added[k] > Slow
      /\ \A k, j \in Edges : b < k /\ k <= j => added[k] <= added[j]
  BY CurveShape
<1>2. Onset!Smoothed(c) = Onset!rate(c - 2) + Onset!rate(c - 1) + Onset!rate(c)
                            + Onset!rate(c + 1) + Onset!rate(c + 2)
  <2>1. c \in 3..K - 2
    BY <1>0
  <2> QED
    BY <1>1, <2>1, SmoothedFacts
<1>3. \A k \in b + 2..K : \A j \in k..K : Onset!rate(k) <= Onset!rate(j)
  BY <1>1, RatesRise
<1>4. \A k \in 1..K : Onset!rate(k) \in Nat
  BY <1>1, RateFacts
<1>5. /\ Onset!rate(c - 2) \in Nat /\ Onset!rate(c - 1) \in Nat /\ Onset!rate(c) \in Nat
      /\ Onset!rate(c + 1) \in Nat /\ Onset!rate(c + 2) \in Nat
  BY <1>0, <1>4
<1>6. CASE i <= K - 2
  <2>1. i \in 3..K - 2
    BY <1>0, <1>6
  <2>2. Onset!Smoothed(i) = Onset!rate(i - 2) + Onset!rate(i - 1) + Onset!rate(i)
                              + Onset!rate(i + 1) + Onset!rate(i + 2)
    BY <1>1, <2>1, SmoothedFacts
  <2>3. /\ Onset!rate(c - 2) <= Onset!rate(i - 2) /\ Onset!rate(c - 1) <= Onset!rate(i - 1)
        /\ Onset!rate(c) <= Onset!rate(i) /\ Onset!rate(c + 1) <= Onset!rate(i + 1)
        /\ Onset!rate(c + 2) <= Onset!rate(i + 2)
    BY <1>0, <1>3, <1>6
  <2>4. /\ Onset!rate(i - 2) \in Nat /\ Onset!rate(i - 1) \in Nat /\ Onset!rate(i) \in Nat
        /\ Onset!rate(i + 1) \in Nat /\ Onset!rate(i + 2) \in Nat
    BY <1>0, <1>4, <1>6
  <2> QED
    BY <1>2, <1>5, <2>2, <2>3, <2>4
\* Two steady cuts have the same rate as the one before; the last two wear three times as fast.
<1>7. /\ Onset!rate(c - 2) = 2 * Slow /\ Onset!rate(c - 1) = 2 * Slow /\ Onset!rate(c) = 2 * Slow
      /\ Onset!rate(K) >= 6 * Slow /\ Onset!rate(K - 1) >= 6 * Slow
  <2>1. /\ c - 3 \in Edges /\ c - 2 \in Edges /\ c - 1 \in Edges /\ c \in Edges
        /\ c - 3 \in b + 1..c /\ c - 2 \in b + 1..c /\ c - 1 \in b + 1..c /\ c \in b + 1..c
    BY <1>0 DEF Edges
  <2>2. added[c - 3] = Slow /\ added[c - 2] = Slow /\ added[c - 1] = Slow /\ added[c] = Slow
    BY <1>1, <2>1
  <2>3. c - 2 \in 2..K - 1 /\ c - 1 \in 2..K - 1 /\ c \in 2..K - 1 /\ K - 1 \in 2..K - 1
    BY <1>0
  <2>4. \A k \in 2..K - 1 : Onset!rate(k) = added[k - 1] + added[k]
    BY <1>1, RateFacts
  <2>5. /\ (c - 2) - 1 = c - 3 /\ (c - 1) - 1 = c - 2 /\ (K - 1) - 1 = K - 2
    BY <1>0
  <2>6. /\ Onset!rate(c - 2) = added[c - 3] + added[c - 2]
        /\ Onset!rate(c - 1) = added[c - 2] + added[c - 1] /\ Onset!rate(c) = added[c - 1] + added[c]
        /\ Onset!rate(K - 1) = added[K - 2] + added[K - 1]
    BY <2>3, <2>4, <2>5
  <2>7. Onset!rate(K) = 2 * added[K - 1]
    BY <1>1, RateFacts
  <2>8. /\ added[K - 2] >= 3 * Slow /\ added[K - 1] >= 3 * Slow
        /\ added[K - 2] \in Nat /\ added[K - 1] \in Nat
    BY <1>0, <1>1 DEF Edges
  <2> QED
    BY <1>0, <2>2, <2>6, <2>7, <2>8
<1>8. CASE i = K - 1
  <2>1. Onset!Smoothed(i) = Onset!rate(K - 3) + Onset!rate(K - 2) + Onset!rate(K - 1)
                              + Onset!rate(K)
    BY <1>1, <1>8, SmoothedFacts
  <2>2. /\ Onset!rate(c) <= Onset!rate(K - 3) /\ Onset!rate(c + 1) <= Onset!rate(K - 2)
        /\ Onset!rate(c + 2) <= Onset!rate(K - 1)
    BY <1>0, <1>3, <1>8
  <2>3. /\ Onset!rate(K - 3) \in Nat /\ Onset!rate(K - 2) \in Nat /\ Onset!rate(K - 1) \in Nat
        /\ Onset!rate(K) \in Nat
    BY <1>0, <1>4
  <2> QED
    BY <1>0, <1>2, <1>5, <1>7, <2>1, <2>2, <2>3
<1>9. CASE i = K
  <2>1. Onset!Smoothed(i) = Onset!rate(K - 2) + Onset!rate(K - 1) + Onset!rate(K)
    BY <1>1, <1>9, SmoothedFacts
  <2>2. Onset!rate(c + 1) <= Onset!rate(K - 2) /\ Onset!rate(c + 2) <= Onset!rate(K - 1)
    BY <1>0, <1>3, <1>9
  <2>3. Onset!rate(K - 2) \in Nat /\ Onset!rate(K - 1) \in Nat /\ Onset!rate(K) \in Nat
    BY <1>0, <1>4
  <2> QED
    BY <1>0, <1>2, <1>5, <1>7, <2>1, <2>2, <2>3
<1> QED
  BY <1>0, <1>6, <1>8, <1>9

\* The search finds the first of the least, and there is one.
LEMMA FirstOfLeast ==
  ASSUME \A i \in 1..K : Onset!Smoothed(i) \in Nat
  PROVE  /\ Onset!Start \in Nat /\ Onset!Start < K
         /\ Onset!Detected \in Onset!Start + 1..K
         /\ \A i \in Onset!Start + 1..K :
              /\ Onset!Smoothed(Onset!Detected) <= Onset!Smoothed(i)
              /\ i < Onset!Detected => Onset!Smoothed(Onset!Detected) < Onset!Smoothed(i)
<1>0. K \in Nat /\ K >= 5
  BY OnsetFacts
<1>1. Onset!Start \in Nat /\ Onset!Start < K
  BY <1>0 DEF Onset!Start
<1> DEFINE after  == {i \in Onset!Cuts : i > Onset!Start}
           values == {Onset!Smoothed(i) : i \in after}
           least  == {i \in after : \A j \in after : Onset!Smoothed(i) <= Onset!Smoothed(j)}
<1>2. after = Onset!Start + 1..K
  BY <1>0, <1>1 DEF Onset!Cuts
<1>3. values \subseteq Nat /\ values # {}
  <2>1. K \in after
    BY <1>0, <1>1, <1>2
  <2>2. \A i \in after : Onset!Smoothed(i) \in Nat
    BY <1>0, <1>1, <1>2
  <2> HIDE DEF after
  <2> QED
    BY <2>1, <2>2
<1>4. PICK n \in values : \A m \in values : n <= m
  <2> HIDE DEF values
  <2> QED
    BY <1>3, LeastNumber
<1>5. least # {}
  <2> HIDE DEF after
  <2> QED
    BY <1>4
<1>6. least \subseteq Nat
  BY <1>0, <1>1, <1>2
<1>7. \E i \in least : \A j \in least : i <= j
  <2> HIDE DEF least
  <2> QED
    BY <1>5, <1>6, LeastNumber
<1>8. Onset!Detected = CHOOSE i \in least : \A j \in least : i <= j
  BY DEF Onset!Detected
<1>9. Onset!Detected \in least /\ \A j \in least : Onset!Detected <= j
  <2> HIDE DEF least
  <2> QED
    BY <1>7, <1>8
<1>10. Onset!Detected \in after /\ \A i \in after : Onset!Smoothed(Onset!Detected) <= Onset!Smoothed(i)
  BY <1>9
<1>11. ASSUME NEW i \in after, i < Onset!Detected
       PROVE  Onset!Smoothed(Onset!Detected) < Onset!Smoothed(i)
  <2>1. i \notin least
    BY <1>0, <1>1, <1>2, <1>9, <1>11
  <2>2. PICK j \in after : ~ (Onset!Smoothed(i) <= Onset!Smoothed(j))
    BY <2>1
  <2>3. Onset!Smoothed(Onset!Detected) <= Onset!Smoothed(j)
    BY <1>10, <2>2
  <2>4. /\ Onset!Smoothed(i) \in Nat /\ Onset!Smoothed(j) \in Nat
        /\ Onset!Smoothed(Onset!Detected) \in Nat
    <3>1. after \subseteq 1..K
      BY <1>0, <1>1, <1>2
    <3> HIDE DEF after, least
    <3> QED
      BY <1>10, <2>2, <3>1, <1>11
  <2> HIDE DEF after, least, values
  <2> QED
    BY <2>2, <2>3, <2>4
<1> HIDE DEF after, least, values
<1> QED
  BY <1>1, <1>2, <1>10, <1>11

\* As many steady cuts as the window has around its middle, after the start.
LEMMA SteadyCounted ==
  ASSUME NEW b \in Nat, NEW c \in Nat, NEW s \in Nat, Onset!steady = b + 1..c,
         Onset!Cardinality({j \in Onset!steady : j > s}) >= 4
  PROVE  b + 4 <= c /\ s + 4 <= c
<1>1. \A S : Onset!Cardinality(S) = Cardinality(S)
  BY DEF Onset!Cardinality, Cardinality, Onset!IsFiniteSet, IsFiniteSet
<1> DEFINE m == IF b < s THEN s ELSE b
<1>2. {j \in Onset!steady : j > s} = m + 1..c
  BY DEF m
<1>3. m \in Nat /\ b <= m /\ s <= m
  BY DEF m
<1> HIDE DEF m
<1>4. Cardinality(m + 1..c) = IF m + 1 > c THEN 0 ELSE c - (m + 1) + 1
  BY <1>3, FS_Interval
<1>5. Cardinality(m + 1..c) >= 4
  BY <1>1, <1>2
<1> QED
  BY <1>3, <1>4, <1>5

LEMMA OnsetRight == ASSUME OnsetRuns PROVE Onset!OnsetIsSteady
<1> SUFFICES ASSUME phase # "labels", Onset!Start >= Onset!Window,
                    Onset!Cardinality({j \in Onset!steady : j > Onset!Start}) >= 2 * Onset!Window,
                    \A j \in K - 2..K - 1 : added[j] >= 3 * Slow
             PROVE  /\ {onset - 1, onset} \cap Onset!steady # {}
                    /\ phase \in {"wear", "spec"} =>
                         K \in Onset!points /\ Onset!Cardinality(Onset!points) >= 3
  BY DEF Onset!OnsetIsSteady
<1>0. K \in Nat /\ K >= 5 /\ Slow \in Nat \ {0}
  BY OnsetFacts
<1>1. PICK a, b, c, d \in Nat : Shaped(a, b, c, d)
  BY DEF OnsetRuns
<1>2. /\ \A k \in Edges : added[k] \in Nat \ {0}
      /\ \A k \in Edges : IF k \in b + 1..c THEN added[k] = Slow ELSE added[k] > Slow
      /\ Onset!steady = b + 1..c
  BY <1>1, CurveShape
<1>3. \A i \in 1..K : Onset!Smoothed(i) \in Nat
  BY <1>2, SmoothedFacts
<1>4. /\ Onset!Start \in Nat /\ Onset!Start >= 2
      /\ onset \in Onset!Start + 1..K
      /\ \A i \in Onset!Start + 1..K :
           /\ Onset!Smoothed(onset) <= Onset!Smoothed(i)
           /\ i < onset => Onset!Smoothed(onset) < Onset!Smoothed(i)
  BY <1>3, FirstOfLeast DEF OnsetRuns, Onset!Window
<1>5. b + 4 <= c /\ Onset!Start + 4 <= c
  BY <1>2, <1>4, SteadyCounted DEF Onset!Window
<1>6. c <= K - 3
  <2>1. c \in Edges
    BY <1>0, <1>1 DEF Shaped, Edges
  <2>2. added[c] = Slow
    BY <1>2, <1>5, <2>1
  <2>3. c \notin K - 2..K - 1
    BY <1>0, <2>1, <2>2
  <2> QED
    BY <1>0, <2>1, <2>3 DEF Edges
<1>7. b < onset
  <2>1. SUFFICES ASSUME onset <= b PROVE FALSE
    BY <1>0, <1>4
  <2>2. onset \in 3..b
    BY <1>4, <2>1
  <2>3. Onset!Smoothed(b + 2) < Onset!Smoothed(onset)
    BY <1>1, <1>5, <2>2, EarlyIsWorse
  <2>4. b + 2 \in Onset!Start + 1..K
    BY <1>0, <1>4, <1>5, <1>6, <2>1
  <2>5. Onset!Smoothed(onset) <= Onset!Smoothed(b + 2)
    BY <1>4, <2>4
  <2>6. Onset!Smoothed(onset) \in Nat /\ Onset!Smoothed(b + 2) \in Nat
    BY <1>3, <1>4, <2>4
  <2> QED
    BY <2>3, <2>5, <2>6
<1>8. onset <= c + 1
  <2>1. SUFFICES ASSUME onset > c + 1 PROVE FALSE
    BY <1>0, <1>4
  <2>2. onset \in c + 2..K /\ c \in Onset!Start + 1..K
    BY <1>0, <1>4, <1>5, <1>6, <2>1
  <2>3. Onset!Smoothed(c) <= Onset!Smoothed(onset)
    BY <1>1, <1>5, <1>6, <2>2, LateIsNoBetter
  <2>4. Onset!Smoothed(onset) < Onset!Smoothed(c)
    BY <1>0, <1>4, <2>1, <2>2
  <2>5. Onset!Smoothed(onset) \in Nat /\ Onset!Smoothed(c) \in Nat
    BY <1>3, <1>4, <2>2
  <2> QED
    BY <2>3, <2>4, <2>5
<1>9. {onset - 1, onset} \cap Onset!steady # {}
  <2>1. onset \in b + 1..c \/ onset - 1 \in b + 1..c
    BY <1>4, <1>5, <1>7, <1>8
  <2> QED
    BY <1>2, <2>1
<1>10. K \in Onset!points /\ Onset!Cardinality(Onset!points) >= 3
  <2>1. Onset!points = onset..K
    BY <1>0, <1>4 DEF Onset!points, Onset!Cuts
  <2>2. Cardinality(onset..K) = IF onset > K THEN 0 ELSE K - onset + 1
    BY <1>0, <1>4, FS_Interval
  <2>3. Onset!Cardinality(Onset!points) = Cardinality(Onset!points)
    BY DEF Onset!Cardinality, Cardinality, Onset!IsFiniteSet, IsFiniteSet
  <2> QED
    BY <1>0, <1>4, <1>6, <1>8, <2>1, <2>2, <2>3
<1> QED
  BY <1>9, <1>10

\* The fit (degradation.py), for any number of labels and any curve that runs in, goes on
\* steadily and wears out: under the conditions of the property it starts on a steady cut
\* and has all of the wear-out.
THEOREM OnsetIsRight == NumericsSpec => []OnsetIsSteady
<1>1. NumericsInit => OnsetInv
  <2>1. ASSUME Onset!Init PROVE OnsetRuns
    <3>1. PICK a \in 0..K - 2 : \E b \in a..K - 2 : \E c \in b + 1..K - 1 :
            \E d \in c..K - 1 : added = Onset!curve(a, b, c, d)
      BY <2>1 DEF Onset!Init
    <3>2. PICK b \in a..K - 2 : \E c \in b + 1..K - 1 :
            \E d \in c..K - 1 : added = Onset!curve(a, b, c, d)
      BY <3>1
    <3>3. PICK c \in b + 1..K - 1 : \E d \in c..K - 1 : added = Onset!curve(a, b, c, d)
      BY <3>2
    <3>4. PICK d \in c..K - 1 : added = Onset!curve(a, b, c, d)
      BY <3>3
    <3>5. a \in Nat /\ b \in Nat /\ c \in Nat /\ d \in Nat /\ Shaped(a, b, c, d)
      BY <3>4, OnsetFacts DEF Shaped
    <3> QED
      BY <2>1, <3>5 DEF OnsetRuns, Onset!Init
  <2> QED
    BY <2>1 DEF NumericsInit, OnsetInv
<1>2. ASSUME OnsetInv, [NumericsNext]_numericVars PROVE OnsetInv'
  <2>1. ASSUME added' = added PROVE /\ Onset!Detected' = Onset!Detected
                                    /\ \A a, b, c, d : Shaped(a, b, c, d)' = Shaped(a, b, c, d)
    BY <2>1 DEF Onset!Detected, Onset!Smoothed, Onset!padded, Onset!rate, Onset!Cuts,
                Onset!Start, Shaped, Onset!curve
  <2>2. CASE part = "onset" /\ Onset!Next /\ part' = part
    <3>1. OnsetRuns
      BY <1>2, <2>2 DEF OnsetInv
    <3>2. added' = added /\ (onset' = Onset!Detected \/ (phase # "labels" /\ onset' = onset))
      BY <2>2 DEF Onset!Next, Onset!Detect, Onset!FitWear, Onset!FitObservation
    <3> QED
      BY <2>1, <3>1, <3>2 DEF OnsetInv, OnsetRuns
  <2>3. CASE part # "onset" /\ part' = part
    BY <2>3 DEF OnsetInv
  <2>4. CASE UNCHANGED numericVars
    <3>1. added' = added /\ onset' = onset /\ phase' = phase /\ part' = part
      BY <2>4 DEF numericVars, onsetOnly
    <3> QED
      BY <1>2, <2>1, <3>1 DEF OnsetInv, OnsetRuns
  <2> QED
    BY <1>2, <2>2, <2>3, <2>4 DEF NumericsNext
<1>3. OnsetInv => OnsetIsSteady
  BY OnsetRight DEF OnsetInv, OnsetIsSteady
<1> QED
  BY <1>1, <1>2, <1>3, PTL DEF NumericsSpec

-----------------------------------------------------------------------------
(***************************************************************************)
(* Evaluation.  The scan has passed only cuts that are not locked, and     *)
(* stands on the one whose cut it returns.                                 *)
(***************************************************************************)
ScanInv ==
  /\ region \subseteq Scores!Index /\ pred \in [Scores!Index -> Predictions]
  /\ scanned \in region \cup {0}
  /\ \A k \in region : k < scanned => ~ Scores!Locked(k)
  /\ result = 0 => \A k \in region : k <= scanned => ~ Scores!Locked(k)
  /\ result # 0 => scanned \in region /\ Scores!Locked(scanned) /\ result = Cut[scanned]

ScoresInv == part = "scores" => ScanInv

LEMMA IndexFacts ==
  /\ Scores!Index \subseteq Nat \ {0}
  /\ \A k \in Scores!Index : Cut[k] \in Nat \ {0}
BY EvaluationAssumption DEF Scores!EvaluationAssumption, Scores!Index

LEMMA ScanInit == ASSUME Scores!Init PROVE ScanInv
BY IndexFacts DEF Scores!Init, ScanInv

LEMMA ScanStep == ASSUME ScanInv, Scores!Next PROVE ScanInv'
<1>1. /\ result = 0 /\ UNCHANGED <<wear, beyond, pred, region>>
      /\ \A k \in region : k <= scanned => ~ Scores!Locked(k)
  BY DEF ScanInv, Scores!Next, Scores!Scan
<1>2. PICK j \in region : /\ j > scanned /\ \A k \in region : k > scanned => j <= k
                          /\ scanned' = j
                          /\ result' = IF Scores!Locked(j) THEN Cut[j] ELSE 0
  BY DEF Scores!Next, Scores!Scan
<1>3. ASSUME NEW k PROVE Scores!Locked(k)' <=> Scores!Locked(k)
  BY <1>1 DEF Scores!Locked, Scores!inBand, Scores!truth, Scores!LifeEnds, Scores!crossings,
              Scores!Last
<1>4. j \in Nat /\ scanned \in Nat /\ Cut[j] # 0 /\ region \subseteq Nat
  BY IndexFacts DEF ScanInv
<1>5. ASSUME NEW k \in region, k < j PROVE ~ Scores!Locked(k)
  BY <1>1, <1>2, <1>4, <1>5
<1>6. result' # 0 => Scores!Locked(j) /\ result' = Cut[j]
  BY <1>2
<1>7. result' = 0 => ~ Scores!Locked(j)
  BY <1>2, <1>4
<1>8. \A k \in region : k <= j => k < j \/ k = j
  BY <1>4
<1> QED
  BY <1>1, <1>2, <1>3, <1>5, <1>6, <1>7, <1>8 DEF ScanInv

LEMMA ScanStays ==
  ASSUME ScoresInv, part' = part, UNCHANGED <<wear, scoresOnly>> PROVE ScoresInv'
<1>1. UNCHANGED <<wear, beyond, pred, region, scanned, result>>
  BY DEF scoresOnly
<1>2. ASSUME NEW k PROVE Scores!Locked(k)' <=> Scores!Locked(k)
  BY <1>1 DEF Scores!Locked, Scores!inBand, Scores!truth, Scores!LifeEnds, Scores!crossings,
              Scores!Last
<1> QED
  BY <1>1, <1>2 DEF ScoresInv, ScanInv

\* What the cone does to a prediction that is right, whatever its width.
LEMMA ConeHoldsTruth ==
  ASSUME NEW a \in 0..10, NEW p \in Nat
  PROVE  10 * p >= (10 - a) * p /\ 10 * p <= (10 + a) * p
<1>1. a * p >= 0
  OBVIOUS
<1>2. (10 - a) * p = 10 * p - a * p /\ (10 + a) * p = 10 * p + a * p
  OBVIOUS
<1> QED
  BY <1>1, <1>2

\* The cuts that are after every miss are those from which the scan would lock on.
LEMMA LockedAfterMisses ==
  ASSUME ScanInv, NEW k \in region
  PROVE  Scores!Locked(k) <=> \A m \in region \ Scores!accurate : m < k
<1>1. \A m \in region : m >= k <=> ~ (m < k)
  BY IndexFacts DEF ScanInv
<1>2. \A m \in region : m \in Scores!accurate <=> Scores!inBand(m)
  BY DEF Scores!accurate
<1> QED
  BY <1>1, <1>2 DEF Scores!Locked

LEMMA HorizonFound == ASSUME ScanInv PROVE Scores!HorizonAfterLastMiss
<1> DEFINE after == {k \in region : \A m \in region \ Scores!accurate : m < k}
<1>1. after = {k \in region : Scores!Locked(k)}
  BY LockedAfterMisses
<1>2. region \subseteq Nat /\ \A k \in region : Cut[k] # 0
  BY IndexFacts DEF ScanInv
<1>3. CASE result = 0
  BY <1>1, <1>3 DEF Scores!HorizonAfterLastMiss, Scores!Done, ScanInv
<1>4. CASE result # 0
  <2>1. scanned \in after /\ result = Cut[scanned]
    BY <1>1, <1>4 DEF ScanInv
  <2>2. \A l \in after : scanned <= l
    BY <1>1, <1>2, <2>1 DEF ScanInv
  <2> QED
    BY <2>1, <2>2 DEF Scores!HorizonAfterLastMiss
<1> QED
  BY <1>3, <1>4

LEMMA PerfectScored == ASSUME ScanInv PROVE Scores!ExactIsPerfect
<1> SUFFICES ASSUME Scores!Done, region # {},
                    \A j \in region : \/ Scores!LifeEnds = Cut[j] + pred[j]
                                      \/ Scores!LifeEnds < Cut[j] /\ pred[j] = 0
             PROVE  /\ Scores!accurate = region
                    /\ \E k \in region : result = Cut[k] /\ \A l \in region : k <= l
  BY DEF Scores!ExactIsPerfect
<1>0. /\ region \subseteq Nat /\ Alpha \in 0..10
      /\ \A j \in region : pred[j] \in Nat /\ Cut[j] \in Nat
  BY IndexFacts, EvaluationAssumption DEF ScanInv, Scores!EvaluationAssumption
<1>1. ASSUME NEW j \in region PROVE Scores!inBand(j)
  <2>1. Scores!truth(j) = pred[j]
    <3>1. CASE Scores!LifeEnds = Cut[j] + pred[j]
      BY <1>0, <3>1 DEF Scores!truth
    <3>2. CASE Scores!LifeEnds < Cut[j] /\ pred[j] = 0
      BY <3>2 DEF Scores!truth
    <3> QED
      BY <3>1, <3>2
  <2> QED
    BY <1>0, <2>1, ConeHoldsTruth DEF Scores!inBand
<1>2. Scores!accurate = region
  BY <1>1 DEF Scores!accurate
<1>3. \A k \in region : Scores!Locked(k)
  BY <1>1 DEF Scores!Locked
<1>4. result # 0
  BY <1>3 DEF Scores!Done, ScanInv
<1>5. \A l \in region : scanned <= l
  BY <1>0, <1>3, <1>4 DEF ScanInv
<1> QED
  BY <1>2, <1>4, <1>5 DEF ScanInv

\* The scores (metrics.py, validate.py): the prognostic horizon is the first cut after the
\* last prediction outside the cone, and twins that are right are scored as right.
THEOREM ScoresAreRight == NumericsSpec => []ScoresRight
<1>1. NumericsInit => ScoresInv
  BY ScanInit DEF NumericsInit, ScoresInv
<1>2. ASSUME ScoresInv, [NumericsNext]_numericVars PROVE ScoresInv'
  <2>1. CASE part = "scores" /\ Scores!Next /\ part' = part
    BY <1>2, <2>1, ScanStep DEF ScoresInv
  <2>2. CASE part # "scores" /\ part' = part
    BY <2>2 DEF ScoresInv
  <2>3. CASE UNCHANGED numericVars
    BY <1>2, <2>3, ScanStays DEF numericVars
  <2> QED
    BY <1>2, <2>1, <2>2, <2>3 DEF NumericsNext
<1>3. ScoresInv => ScoresRight
  BY HorizonFound, PerfectScored DEF ScoresInv, ScoresRight, Scores!ScoresRight
<1> QED
  BY <1>1, <1>2, <1>3, PTL DEF NumericsSpec

-----------------------------------------------------------------------------
(***************************************************************************)
(* Extractor.  A statistic of two words ends in a word that no statistic   *)
(* of one word is, so that the longest that ends a name is the right one.  *)
(* Every column that was read has its features, and a later one has other  *)
(* names.                                                                  *)
(***************************************************************************)
ChannelNames == Seq(Words) \ {<<>>}

\* The words of any name.
AllWords == Words \cup {"rms", "mean", "abs", "peak", "kurtosis", "crest", "factor", "std"}

FeaturesTypeOK ==
  /\ channels \in ChannelLists
  /\ read \in Seq(Features!Columns) /\ Len(read) <= Len(channels)

Valued ==
  \A k \in DOMAIN read : \A st \in Features!STAT_FUNCS :
    LET name == Features!feature_name(channels[k], st)
    IN name \in DOMAIN out /\ out[name] = Features!stats(st, read[k])

FeaturesInv == part = "features" => FeaturesTypeOK /\ Valued

LEMMA ChannelFacts ==
  ASSUME NEW list \in ChannelLists
  PROVE  /\ list \in Seq(ChannelNames) /\ DOMAIN list = 1..Len(list) /\ Len(list) \in Nat
         /\ \A m \in DOMAIN list : list[m] \in ChannelNames
         /\ \A m, n \in DOMAIN list : list[m] = list[n] => m = n
BY ExtractorAssumption DEF Features!ExtractorAssumption, ChannelNames

LEMMA StatisticFacts ==
  ASSUME NEW st \in Features!STAT_FUNCS
  PROVE  /\ st \in Seq(AllWords) /\ Len(st) \in {1, 2}
         /\ Len(st) = 1 => st[1] \notin {"abs", "factor"}
         /\ Len(st) = 2 => st[2] \in {"abs", "factor"}
<1>0. /\ "rms" \in AllWords /\ "peak" \in AllWords /\ "kurtosis" \in AllWords
      /\ "std" \in AllWords /\ "mean" \in AllWords /\ "crest" \in AllWords
      /\ "abs" \in AllWords /\ "factor" \in AllWords
  BY DEF AllWords
<1>1. ASSUME NEW a \in AllWords, a \notin {"abs", "factor"}, st = <<a>>
      PROVE  st \in Seq(AllWords) /\ Len(st) = 1 /\ st[1] \notin {"abs", "factor"}
  BY <1>1
<1>2. ASSUME NEW a \in AllWords, NEW b \in {"abs", "factor"}, st = <<a, b>>
      PROVE  st \in Seq(AllWords) /\ Len(st) = 2 /\ st[2] \in {"abs", "factor"}
  <2>1. b \in AllWords
    BY <1>0
  <2>2. <<a, b>> \in Seq(AllWords) /\ Len(<<a, b>>) = 2 /\ <<a, b>>[2] = b
    BY <2>1
  <2> QED
    BY <1>2, <2>2
<1>3. \/ \E a \in AllWords : st = <<a>> /\ a \notin {"abs", "factor"}
      \/ \E a \in AllWords : \E b \in {"abs", "factor"} : st = <<a, b>>
  <2>1. \/ st = <<"rms">> \/ st = <<"mean", "abs">> \/ st = <<"peak">>
        \/ st = <<"kurtosis">> \/ st = <<"crest", "factor">> \/ st = <<"std">>
    BY DEF Features!STAT_FUNCS
  <2>2. "rms" \notin {"abs", "factor"} /\ "peak" \notin {"abs", "factor"}
    OBVIOUS
  <2>3. "kurtosis" \notin {"abs", "factor"} /\ "std" \notin {"abs", "factor"}
    OBVIOUS
  <2> QED
    BY <1>0, <2>1, <2>2, <2>3, Zenon
<1> QED
  BY <1>1, <1>2, <1>3

\* The end of a sequence of words that has as many words as another it ends in is that one.
LEMMA EndOf ==
  ASSUME NEW ch \in Seq(AllWords), NEW st \in Seq(AllWords)
  PROVE  /\ ch \o st \in Seq(AllWords) /\ Len(ch \o st) = Len(ch) + Len(st)
         /\ SubSeq(ch \o st, Len(ch) + 1, Len(ch) + Len(st)) = st
         /\ SubSeq(ch \o st, 1, Len(ch)) = ch
BY ConcatProperties, SubSeqProperties, SeqEqual

LEMMA NameSplits ==
  ASSUME NEW ch \in ChannelNames, NEW st \in Features!STAT_FUNCS
  PROVE  Features!split_feature_name(Features!feature_name(ch, st)) = <<ch, st>>
<1> DEFINE name  == ch \o st
           known == {t \in Features!STAT_FUNCS : Features!endsWith(name, t)}
<1>1. /\ ch \in Seq(AllWords) /\ Len(ch) \in Nat \ {0} /\ st \in Seq(AllWords) /\ Len(st) \in {1, 2}
      /\ name \in Seq(AllWords) /\ Len(name) = Len(ch) + Len(st)
      /\ SubSeq(name, Len(ch) + 1, Len(ch) + Len(st)) = st /\ SubSeq(name, 1, Len(ch)) = ch
  <2>1. ch \in Seq(AllWords) /\ ch # <<>>
    <3>1. ch \in Seq(Words) /\ Words \subseteq AllWords
      BY DEF ChannelNames, AllWords
    <3> QED
      BY <3>1 DEF ChannelNames
  <2>2. Len(ch) \in Nat \ {0}
    BY <2>1, EmptySeq
  <2>3. st \in Seq(AllWords) /\ Len(st) \in {1, 2}
    BY StatisticFacts
  <2> QED
    BY <2>1, <2>2, <2>3, EndOf
<1>2. st \in known
  BY <1>1 DEF Features!endsWith
<1>3. ASSUME NEW t \in known PROVE Len(t) <= Len(st)
  <2> SUFFICES ASSUME Len(t) > Len(st) PROVE FALSE
    BY <1>1, StatisticFacts
  <2>1. Len(t) = 2 /\ Len(st) = 1
    BY <1>1, StatisticFacts
  <2>2. t[2] \in {"abs", "factor"} /\ st[1] \notin {"abs", "factor"}
    BY <2>1, StatisticFacts
  <2>3. t = SubSeq(name, Len(ch), Len(ch) + 1)
    <3>1. t = SubSeq(name, Len(name) - Len(t) + 1, Len(name))
      BY DEF Features!endsWith
    <3>2. Len(name) - Len(t) + 1 = Len(ch) /\ Len(name) = Len(ch) + 1
      BY <1>1, <2>1
    <3> QED
      BY <3>1, <3>2
  <2>4. t[2] = name[Len(ch) + 1]
    BY <1>1, <2>1, <2>3, SubSeqProperties
  <2>5. name[Len(ch) + 1] = st[1]
    BY <1>1, <2>1, ConcatProperties
  <2> QED
    BY <2>2, <2>4, <2>5
<1>4. ASSUME NEW t \in known, Len(t) = Len(st) PROVE t = st
  <2>1. t = SubSeq(name, Len(name) - Len(t) + 1, Len(name))
    BY DEF Features!endsWith
  <2>2. Len(name) - Len(t) + 1 = Len(ch) + 1 /\ Len(name) = Len(ch) + Len(st)
    BY <1>1, <1>4
  <2> QED
    BY <1>1, <2>1, <2>2
<1> DEFINE stat == CHOOSE t \in known : \A other \in known : Len(other) <= Len(t)
<1>5. stat \in known /\ Len(st) <= Len(stat)
  BY <1>2, <1>3
<1>6. stat = st
  <2>1. Len(stat) \in Nat
    BY <1>5, StatisticFacts
  <2>2. Len(stat) <= Len(st) /\ Len(st) <= Len(stat) /\ Len(st) \in Nat
    BY <1>1, <1>3, <1>5
  <2> HIDE DEF stat
  <2>3. Len(stat) = Len(st)
    BY <2>1, <2>2
  <2> QED
    BY <1>4, <1>5, <2>3
<1>7. Features!split_feature_name(name) = <<SubSeq(name, 1, Len(name) - Len(stat)), stat>>
  BY DEF Features!split_feature_name
<1>8. Len(name) - Len(st) = Len(ch)
  BY <1>1
<1> QED
  BY <1>1, <1>6, <1>7, <1>8 DEF Features!feature_name

\* No two channels or statistics share a name.
LEMMA NamesDiffer ==
  ASSUME NEW c \in ChannelNames, NEW d \in ChannelNames,
         NEW s \in Features!STAT_FUNCS, NEW t \in Features!STAT_FUNCS,
         Features!feature_name(c, s) = Features!feature_name(d, t)
  PROVE  c = d /\ s = t
<1>1. <<c, s>> = <<d, t>>
  BY NameSplits
<1> QED
  BY <1>1

LEMMA ExtractKeeps ==
  ASSUME FeaturesTypeOK, Valued, NEW c \in Features!Columns, Features!Extract(c)
  PROVE  FeaturesTypeOK' /\ Valued'
<1> DEFINE ch    == channels[Len(read) + 1]
           names == {Features!feature_name(ch, st) : st \in Features!STAT_FUNCS}
           new   == [n \in names |->
                      Features!stats(CHOOSE st \in Features!STAT_FUNCS :
                                       n = Features!feature_name(ch, st), c)]
<1>1. /\ channels' = channels /\ read' = Append(read, c) /\ Len(read) < Len(channels)
      /\ out' = Features!merged(out, new)
  BY DEF Features!Extract
<1>2. /\ Len(read) \in Nat /\ DOMAIN read = 1..Len(read)
      /\ read' \in Seq(Features!Columns) /\ Len(read') = Len(read) + 1
      /\ DOMAIN read' = DOMAIN read \cup {Len(read) + 1}
      /\ read'[Len(read) + 1] = c /\ \A k \in DOMAIN read : read'[k] = read[k]
  BY <1>1 DEF FeaturesTypeOK
<1>3. FeaturesTypeOK'
  BY <1>1, <1>2, ChannelFacts DEF FeaturesTypeOK
<1>4. /\ ch \in ChannelNames
      /\ \A k \in DOMAIN read : channels[k] \in ChannelNames /\ channels[k] # ch
  BY <1>1, <1>2, ChannelFacts DEF FeaturesTypeOK
<1>5. /\ DOMAIN out' = DOMAIN out \cup names
      /\ \A n \in DOMAIN out \ names : out'[n] = out[n]
      /\ \A n \in names : out'[n] = new[n]
  BY <1>1 DEF Features!merged
<1>6. ASSUME NEW k \in DOMAIN read, NEW st \in Features!STAT_FUNCS
      PROVE  /\ Features!feature_name(channels[k], st) \in DOMAIN out'
             /\ out'[Features!feature_name(channels[k], st)] = Features!stats(st, read[k])
  <2>1. Features!feature_name(channels[k], st) \notin names
    BY <1>4, NamesDiffer
  <2> QED
    BY <1>5, <2>1 DEF Valued
<1>7. ASSUME NEW st \in Features!STAT_FUNCS
      PROVE  /\ Features!feature_name(ch, st) \in DOMAIN out'
             /\ out'[Features!feature_name(ch, st)] = Features!stats(st, c)
  <2>1. Features!feature_name(ch, st) \in names
    OBVIOUS
  <2>2. (CHOOSE t \in Features!STAT_FUNCS :
           Features!feature_name(ch, st) = Features!feature_name(ch, t)) = st
    BY <1>4, NamesDiffer
  <2> QED
    BY <1>5, <2>1, <2>2
<1> HIDE DEF ch, names, new
<1>8. ASSUME NEW k \in DOMAIN read', NEW st \in Features!STAT_FUNCS
      PROVE  /\ Features!feature_name(channels[k], st) \in DOMAIN out'
             /\ out'[Features!feature_name(channels[k], st)] = Features!stats(st, read'[k])
  BY <1>2, <1>6, <1>7 DEF ch
<1>9. Valued'
  BY <1>1, <1>8 DEF Valued
<1> QED
  BY <1>3, <1>9

\* The statistics of an ordinary column are numbers.
LEMMA OrdinaryFinite ==
  ASSUME NEW c \in Features!Columns, NEW st \in Features!STAT_FUNCS, 4 * c.peak <= Span,
         c.spread = Features!Zero \/ 4 * c.spread >= 0 - Span
  PROVE  Features!stats(st, c) \in Features!Zero..Span
<1> DEFINE Finite == Features!Zero..Span
<1>1. /\ Span \in Nat /\ c.peak \in Int /\ c.spread \in Int /\ c.spread <= c.peak
      /\ c.peak >= 0 - Span - 1 /\ c.spread >= 0 - Span - 1
  <2>1. /\ c.peak \in Exponents \cup {Features!Zero} /\ c.spread \in Exponents \cup {Features!Zero}
        /\ c.spread <= c.peak
    BY DEF Features!Columns
  <2>2. Span \in Nat /\ \A e \in Exponents : e \in Int /\ e >= 0 - Span
    BY ExtractorAssumption DEF Features!ExtractorAssumption
  <2>3. Features!Zero \in Int /\ Features!Zero >= 0 - Span - 1
    BY <2>2 DEF Features!Zero
  <2>4. \A e \in Exponents \cup {Features!Zero} : e \in Int /\ e >= 0 - Span - 1
    BY <2>2, <2>3
  <2> QED
    BY <2>1, <2>2, <2>4
<1>2. ASSUME NEW e \in Int, 0 - Span <= e, e <= Span PROVE Features!fit(e) = e
  BY <1>1, <1>2 DEF Features!fit
<1>3. ASSUME NEW e \in Int, e < 0 - Span PROVE Features!fit(e) = Features!Zero
  BY <1>3 DEF Features!fit
<1>4. ASSUME NEW a \in Int, 0 - Span <= a, a <= Span PROVE Features!over(a, a) = 0
  BY <1>1, <1>2, <1>4 DEF Features!over, Features!Zero, Features!Infinite
<1>5. Features!rms(c) \in {Features!Zero, c.peak} /\ (c.peak < 0 - Span => Features!rms(c) = Features!Zero)
  BY <1>1, <1>2, <1>3 DEF Features!rms, Features!Zero, Features!Infinite
<1>6. Features!std(c) \in {Features!Zero, c.spread}
  BY <1>1, <1>2, <1>3 DEF Features!std, Features!Zero, Features!Infinite
<1>7. c.peak \in Finite /\ c.spread \in Finite /\ Features!Zero \in Finite /\ 0 \in Finite
  BY <1>1 DEF Features!Zero
<1>8. Features!kurtosis(c) \in Finite
  <2>1. CASE c.spread = Features!Zero
    BY <1>1, <1>3, <1>7, <2>1 DEF Features!kurtosis, Features!Zero
  <2>2. CASE c.spread # Features!Zero
    <3>1. 4 * c.spread >= 0 - Span /\ 4 * c.spread <= Span
      BY <1>1, <2>2
    <3>2. Features!fit(2 * c.spread) = 2 * c.spread /\ 2 * (2 * c.spread) = 4 * c.spread
      BY <1>1, <1>2, <3>1
    <3>3. Features!fit(4 * c.spread) = 4 * c.spread
      BY <1>1, <1>2, <3>1
    <3>4. Features!over(4 * c.spread, 4 * c.spread) = 0
      BY <1>1, <1>4, <3>1
    <3> QED
      BY <1>7, <3>2, <3>3, <3>4 DEF Features!kurtosis
  <2> QED
    BY <2>1, <2>2
<1>9. Features!crest_factor(c) \in Finite
  <2>1. CASE Features!rms(c) = Features!Zero
    BY <1>7, <2>1 DEF Features!crest_factor
  <2>2. CASE Features!rms(c) # Features!Zero
    <3>1. Features!rms(c) = c.peak /\ 0 - Span <= c.peak /\ c.peak <= Span
      BY <1>1, <1>5, <2>2
    <3>2. Features!over(c.peak, c.peak) = 0
      BY <1>1, <1>4, <3>1
    <3> QED
      BY <1>7, <2>2, <3>1, <3>2 DEF Features!crest_factor
  <2> QED
    BY <2>1, <2>2
<1>10. Features!rms(c) \in Finite /\ Features!std(c) \in Finite
  BY <1>5, <1>6, <1>7
<1> HIDE DEF Finite
<1>11. Features!stats(st, c) \in Finite
  BY <1>7, <1>8, <1>9, <1>10 DEF Features!stats
<1> QED
  BY <1>11 DEF Finite

LEMMA FeaturesRight == ASSUME FeaturesTypeOK, Valued PROVE Features!FeaturesSafe
<1>1. \A k \in DOMAIN read : channels[k] \in ChannelNames /\ read[k] \in Features!Columns
  BY ChannelFacts DEF FeaturesTypeOK
<1>2. Features!NamesInvert
  BY <1>1, NameSplits DEF Features!NamesInvert, Valued
<1>3. Features!OrdinaryIsFinite
  BY <1>1, OrdinaryFinite DEF Features!OrdinaryIsFinite, Valued
<1> QED
  BY <1>2, <1>3 DEF Features!FeaturesSafe

\* The features (extractor.py): whatever the channels are called, a name is taken apart into
\* the channel and the statistic it was made of, no two are the same, and the features of
\* ordinary columns are numbers, constant and silent ones too.
THEOREM FeaturesAreSafe == NumericsSpec => []FeaturesSafe
<1>1. NumericsInit => FeaturesInv
  <2>1. ASSUME Features!Init PROVE FeaturesTypeOK /\ Valued
    <3>1. read = <<>> /\ channels \in ChannelLists
      BY <2>1 DEF Features!Init
    <3>2. read \in Seq(Features!Columns) /\ Len(read) = 0 /\ DOMAIN read = {}
      BY <3>1
    <3> QED
      BY <3>1, <3>2, ChannelFacts DEF FeaturesTypeOK, Valued
  <2> QED
    BY <2>1 DEF NumericsInit, FeaturesInv
<1>2. ASSUME FeaturesInv, [NumericsNext]_numericVars PROVE FeaturesInv'
  <2>1. CASE part = "features" /\ Features!Next /\ part' = part
    <3>1. ASSUME NEW c \in Features!Columns, Features!Extract(c) PROVE FeaturesInv'
      BY <1>2, <2>1, <3>1, ExtractKeeps DEF FeaturesInv
    <3>2. ASSUME Features!Start \/ Features!Return PROVE FeaturesInv'
      BY <1>2, <2>1, <3>2
         DEF FeaturesInv, FeaturesTypeOK, Valued, Features!Start, Features!Return
    <3> QED
      BY <2>1, <3>1, <3>2 DEF Features!Next
  <2>2. CASE part # "features" /\ part' = part
    BY <2>2 DEF FeaturesInv
  <2>3. CASE UNCHANGED numericVars
    BY <1>2, <2>3 DEF numericVars, readOnly, FeaturesInv, FeaturesTypeOK, Valued
  <2> QED
    BY <1>2, <2>1, <2>2, <2>3 DEF NumericsNext
<1>3. FeaturesInv => FeaturesSafe
  BY FeaturesRight DEF FeaturesInv, FeaturesSafe
<1> QED
  BY <1>1, <1>2, <1>3, PTL DEF NumericsSpec
=============================================================================
