\* Two turns: what one turn leaves behind is what the next one starts from.
SPECIFICATION Spec
CONSTANTS
  read = read
  bash = bash
  ghost = ghost
  Tools <- MCReadBash
  Requirement <- MCRequirement
  Enabled <- MCReadBash
  Ids = {1}
  MaxIterations = 1
  PreHooks = 1
  PostHooks = 0
  MaxUses = 2
  MaxTurns = 2
PROPERTIES
  TurnEnds
  DialogueSpec
CHECK_DEADLOCK FALSE
