------------------------------ MODULE WearOnset ------------------------------
(***************************************************************************)
(* fit_model_spec (twin/build.py): the wear-out onset from the labels of a *)
(* reference run (PowerLawWear.detect_onset, fit), then the pairs of wear  *)
(* and feature.  Cuts are one apart.  The curves themselves are fitted by  *)
(* scipy, which asks for as many points as parameters.  (An onset that is  *)
(* given, onset_cut, is taken as it is: degradation.py:83.  Left out.)     *)
(***************************************************************************)
EXTENDS Integers, FiniteSets

CONSTANTS
  K,           \* labelled cuts
  Slow, Mid, Fast,  \* the wear a cut may add
  Extra,       \* labels that may have no features
  MinPairs     \* 10

OnsetAssumption ==
  /\ K \in Nat /\ K >= 5 /\ Extra \in Nat /\ MinPairs \in Nat
  /\ {Slow, Mid, Fast} \subseteq Nat \ {0} /\ Slow < Mid /\ Mid < Fast

Cuts == 1..K

VARIABLES
  added,      \* the wear each cut adds: the labels
  features,   \* the labelled cuts that have features
  onset,      \* the onset as an index, as detected
  pc          \* "labels", "onset", "wear", "spec", "raised"

vars == <<added, features, onset, pc>>

\* A tool runs in, goes on steadily, and wears out.
curve(a, b, c, d) ==
  [i \in 1..K - 1 |-> CASE i <= a \/ i > d -> Fast
                       [] i \in a + 1..b \/ i \in c + 1..d -> Mid
                       [] OTHER -> Slow]

Init ==
  /\ \E a \in 0..K - 2 : \E b \in a..K - 2 : \E c \in b + 1..K - 1 : \E d \in c..K - 1 :
       added = curve(a, b, c, d)
  /\ features \in {Cuts \ (1..n) : n \in 0..Extra}
  /\ onset = 0 /\ pc = "labels"

\* Twice np.gradient: one step at the ends, two in between.
rate(i) ==
  CASE i = 1 -> 2 * added[1]
    [] i = K -> 2 * added[K - 1]
    [] OTHER -> added[i - 1] + added[i]

Window == 2
padded(j) == IF j \in Cuts THEN rate(j) ELSE 0

\* np.convolve, mode "same": the sum over five points, with zeros outside the labels.
Smoothed(i) ==
  padded(i - Window) + padded(i - 1) + padded(i) + padded(i + 1) + padded(i + Window)

Start == (15 * K) \div 100     \* int(0.15 * len(cuts))

\* The start is not added to the index of the minimum.
BugDetected ==
  LET after == {i \in Cuts : i > Start}
      least == {i \in after : \A j \in after : Smoothed(i) <= Smoothed(j)}
  IN CHOOSE i \in {j - Start : j \in least} : \A j \in least : i <= j - Start

\* np.argmin: the first of the least.
Detected ==
  LET after == {i \in Cuts : i > Start}
      least == {i \in after : \A j \in after : Smoothed(i) <= Smoothed(j)}
  IN CHOOSE i \in least : \A j \in least : i <= j

Detect ==
  /\ pc = "labels" /\ pc' = "onset"
  /\ onset' = Detected
  /\ UNCHANGED <<added, features>>

points == {i \in Cuts : i >= onset}

FitWear ==
  /\ pc = "onset"
  /\ pc' = IF Cardinality(points) < 2 THEN "raised" ELSE "wear"
  /\ UNCHANGED <<added, features, onset>>

FitObservation ==
  /\ pc = "wear"
  /\ pc' = IF Cardinality(features) < MinPairs THEN "raised" ELSE "spec"
  /\ UNCHANGED <<added, features, onset>>

Next == Detect \/ FitWear \/ FitObservation

Spec == Init /\ [][Next]_vars

-----------------------------------------------------------------------------
steady == {j \in DOMAIN added : added[j] = Slow}

\* A curve that goes on steadily for as many cuts as the window has around its
\* middle, after the transient that is skipped, and wears three times as fast in
\* its last two cuts, is fitted from a steady cut on, with all of the wear-out.
\* (At less than three times the zeros that pad the window may win, and so they
\* may at the other end if the part that is skipped is shorter than they are.)
OnsetIsSteady ==
  /\ pc # "labels" /\ Start >= Window
  /\ Cardinality({j \in steady : j > Start}) >= 2 * Window
  /\ \A j \in K - 2..K - 1 : added[j] >= 3 * Slow
  => /\ {onset - 1, onset} \cap steady # {}
     /\ pc \in {"wear", "spec"} => K \in points /\ Cardinality(points) >= 3

=============================================================================
