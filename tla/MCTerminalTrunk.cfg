\* As MCTerminal.cfg: the trunk whose name has a "/" is the one that shows it.
SPECIFICATION TerminalSpec
CONSTANTS
  p1 = p1
  p2 = p2
  Arguments <- MCArguments
  MaxArguments = 4
  Slash <- MCSlash
  Preserved = 4
  FileMessages = 6
  MaxText = 4
  MaxTyped = 4
  MaxHistory = 1
  Completions <- MCCompletions
  Procs <- MCProcs
  MaxTurns = 2
  MaxClock = 1
  MaxSteps = 3
  MaxBeats = 3
  Names = {"main", "a"}
  Trunks = {"master", "release/1.0"}
  LastSegment <- MCLastSegment
  Tags = {"1.0"}
  Slugs = {"a"}
  MaxEdits = 2
INVARIANT
  PublishingLeavesTheTrunk
CHECK_DEADLOCK FALSE
