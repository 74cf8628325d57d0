SPECIFICATION CliSpec
CONSTANTS
  Counts = {0, 1, 2}
  Labels = {"a", "b", "c", "p", "q", "x", "y"}
  Found <- MCFound
  Filters <- MCFilters
  Endings <- MCEndings
  MaxPaths = 2
  MaxScenarios = 2
  MaxIncidents = 2
  None = None
INVARIANTS
  AnnouncedIsSent
  EveryVariantSent
  VerdictTellsExit
  JUnitTellsExit
  ExitZeroCoversThePlan
