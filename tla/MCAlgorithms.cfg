SPECIFICATION AllSpec
CONSTANTS
  Inputs <- MCInputs
  Files <- MCFiles
  Texts <- MCTexts
  Names <- MCNames
  Listing = 3
  MaxInt = 50
  Keys <- MCKeys
  Leaves <- MCLeaves
  Nesting = 2
  EnvFiles <- MCEnvFiles
  Settings <- MCSettings
  MaxSettings = 2
  MaxFiles = 2
  MaxLabels = 1
  Paths <- MCPaths
  Limits <- MCLimits
  Chains <- MCChains
INVARIANTS
  ScriptEndsWhereLuaSays
  RequestsAreSections
  TextIsSent
  FilesInNaturalOrder
  LastWriterWins
  OwnClientKeepsLimit
CHECK_DEADLOCK FALSE
