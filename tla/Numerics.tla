------------------------------ MODULE Numerics ------------------------------
(***************************************************************************)
(* The numeric parts: the particle filter, the projection of the remaining *)
(* life, the fit of the wear-out onset, the scores of an evaluation and    *)
(* the features of a waveform (ParticleFilter, RulProjection, WearOnset,   *)
(* Evaluation, Extractor).  They call one another only through the twin,   *)
(* with any value their types allow, so that each is checked for all of    *)
(* its inputs: part says which one a behaviour is about.  The projection   *)
(* waits where it begins while another runs; what another does not use     *)
(* is 0.                                                                   *)
(***************************************************************************)
EXTENDS RulProjection, Sequences

CONSTANTS
  FilterAdvance, Depth, Weigh, Scale,                \* ParticleFilter
  K, Slow, Mid, Fast, Extra, MinPairs,               \* WearOnset
  Cut, Wears, Extrapolated, Predictions, Alpha,      \* Evaluation
  Words, ChannelLists, Exponents, Span               \* Extractor

VARIABLES
  part, phase, wear,
  level, u, sums, picks,                   \* ParticleFilter
  added, features, onset,                  \* WearOnset
  beyond, pred, region, scanned, result,   \* Evaluation
  channels, width, read, out               \* Extractor

Filter   == INSTANCE ParticleFilter WITH Advance <- FilterAdvance, pc <- phase
Onset    == INSTANCE WearOnset WITH pc <- phase
Scores   == INSTANCE Evaluation WITH i <- scanned
Features == INSTANCE Extractor WITH pc <- phase

ASSUME FilterAssumption     == Filter!FilterAssumption
ASSUME OnsetAssumption      == Onset!OnsetAssumption
ASSUME EvaluationAssumption == Scores!EvaluationAssumption
ASSUME ExtractorAssumption  == Features!ExtractorAssumption

filterOnly == <<level, u, sums, picks>>
onsetOnly  == <<added, features, onset>>
scoresOnly == <<beyond, pred, region, scanned, result>>
readOnly   == <<channels, width, read, out>>

NoFilter == level = 0 /\ u = 0 /\ sums = 0 /\ picks = 0
NoOnset  == added = 0 /\ features = 0 /\ onset = 0
NoScores == beyond = 0 /\ pred = 0 /\ region = 0 /\ scanned = 0 /\ result = 0
NoRead   == channels = 0 /\ width = 0 /\ read = 0 /\ out = 0

Waits == Init /\ w = [n \in Samples |-> 1]

NumericsInit ==
  \/ part = "rul" /\ Init /\ phase = 0 /\ wear = 0 /\ NoFilter /\ NoOnset /\ NoScores /\ NoRead
  \/ part = "filter" /\ Filter!Init /\ Waits /\ NoOnset /\ NoScores /\ NoRead
  \/ part = "onset" /\ Onset!Init /\ Waits /\ wear = 0 /\ NoFilter /\ NoScores /\ NoRead
  \/ part = "scores" /\ Scores!Init /\ Waits /\ phase = 0 /\ NoFilter /\ NoOnset /\ NoRead
  \/ part = "features" /\ Features!Init /\ Waits /\ wear = 0 /\ NoFilter /\ NoOnset /\ NoScores

NumericsNext ==
  /\ UNCHANGED part
  /\ \/ /\ part = "rul" /\ Next
        /\ UNCHANGED <<phase, wear, filterOnly, onsetOnly, scoresOnly, readOnly>>
     \/ part = "filter" /\ Filter!Next /\ UNCHANGED <<vars, onsetOnly, scoresOnly, readOnly>>
     \/ part = "onset" /\ Onset!Next /\ UNCHANGED <<vars, wear, filterOnly, scoresOnly, readOnly>>
     \/ part = "scores" /\ Scores!Next /\ UNCHANGED <<vars, phase, filterOnly, onsetOnly, readOnly>>
     \/ part = "features" /\ Features!Next /\ UNCHANGED <<vars, wear, filterOnly, onsetOnly, scoresOnly>>

numericVars == <<part, vars, phase, wear, filterOnly, onsetOnly, scoresOnly, readOnly>>

NumericsSpec == NumericsInit /\ [][NumericsNext]_numericVars

\* The particle cloud (filter.py): some particle keeps a weight whatever is observed, and
\* resampling gives each particle its share although sums are rounded.
FilterSafe == part = "filter" => Filter!FilterSafe

\* The interval that is reported (cloud.py, rul.py): its bounds are quantiles of the cloud
\* and of the projected lives, and in order.
QuantilesHonest == IntervalHonest /\ (part = "filter" => Filter!QuantilesHold)

\* The fit of the wear-out starts on a steady cut (degradation.py).
OnsetIsSteady == part = "onset" => Onset!OnsetIsSteady

\* The scores of an evaluation (metrics.py, validate.py).
ScoresRight == part = "scores" => Scores!ScoresRight

\* The features of a waveform (extractor.py): names can be taken apart again, and
\* ordinary channels give numbers.
FeaturesSafe == part = "features" => Features!FeaturesSafe
=============================================================================
