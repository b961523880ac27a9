SPECIFICATION ClientsSpec
CONSTANTS
  Seeders = {s1, s2}
  Runs = {r1, r2}
  N = 3
  MaxCrashes = 2
  MinPairs = 2
  Stub = Stub
  MaxIndex = 2
  Levels <- LevelsOneTwo
  MaxTimeouts = 2
  MaxFaults = 1
  MaxSweeps = 2
  Demo = {demo}
  MaxKills = 1
  CutsPerRun = 2
  MaxCuts = 2
  MaxClicks = 3
  MaxOutside = 1
  MaxBreaks = 1
SYMMETRY Alike
INVARIANT
  SeedSafe
  DriverSafe
  ExportSafe
  LoadSafe
  SeriesOfSelection
  RailAgrees
CHECK_DEADLOCK FALSE
