\* One turn of two iterations, two tool uses in a message, hooks on both sides.
SPECIFICATION Spec
CONSTANTS
  read = read
  bash = bash
  ghost = ghost
  Tools <- MCAllTools
  Requirement <- MCRequirement
  Enabled <- MCReadBash
  Ids = {1}
  MaxIterations = 2
  PreHooks = 1
  PostHooks = 1
  MaxUses = 2
  MaxTurns = 1
INVARIANTS
  ConversationInv
  TranscriptTellsTheTruth
  EffectsHaveConsent
CHECK_DEADLOCK FALSE
