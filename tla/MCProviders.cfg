\* Eight messages, of which each compaction keeps two; six messages for a
\* provider; three directories of two instruction files; two edits under an
\* init.  Two calls of two fragments and two fragments of text, on every
\* route; two processes, three grants, two logins; five model names, any
\* environment; up to seven attempts; three frames.
SPECIFICATION ProvidersSpec
CONSTANTS
  Preserve = 2
  Threshold = 4
  Sizes <- MCSizes
  MaxMessages = 8
  Keep = 3
  MaxTranscript = 6
  Depth = 2
  FileNames <- MCFileNames
  FileSizes = {2, 5}
  PerFile = 4
  Total = 6
  Marker = 1
  MaxUserEdits = 2
  Markers = {"Cargo.toml", "rust/Cargo.toml", "pyproject.toml", "setup.py", "package.json", "tsconfig.json", "React"}
  MaxCalls = 2
  MaxFragments = 2
  MaxText = 2
  p1 = p1
  p2 = p2
  Processes <- MCProcesses
  MaxGrants = 3
  MaxLogins = 2
  Spellings = {"sonnet", "claude-haiku-4-5-20251213", "grok-mini", "grok-4", "other"}
  Values = {"unset", "empty", "set", "garbled"}
  MaxChanges = 1
  RetryLimits = {0, 2, 6}
  Width = 4
  FirstDelay = 2
  MaxDelay = 10
  Attempts = 4
  Parts = 2
  Frames = 3
INVARIANTS
  CompactionInv
  RepositoryInv
  CredentialsInv
  ChoiceInv
  CallInv
  ExchangeInv
PROPERTIES
  CompactionSettles
CHECK_DEADLOCK FALSE
