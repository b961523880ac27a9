SPECIFICATION NumericsSpec
CONSTANTS
  N = 3
  Top = 4
  Threshold = 3
  Horizon = 4
  Advance <- MCAdvance
  FilterAdvance <- Singular
  Depth = 3
  Weigh <- Doubling
  Scale = 12
  K = 14
  Slow = 2
  Mid = 4
  Fast = 6
  Extra = 1
  MinPairs = 14
  Cut <- MCCut
  Wears = {2, 3}
  Extrapolated = {5}
  Predictions = {0, 5, 10, 12}
  Alpha = 2
  Words = {"force", "mean", "abs"}
  ChannelLists <- Lists
  Exponents <- Magnitudes
  Span = 4
INVARIANT
  ProjectionSafe
  FilterSafe
  QuantilesHonest
  OnsetIsSteady
  ScoresRight
  FeaturesSafe
CHECK_DEADLOCK FALSE
