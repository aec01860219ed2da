\* Two sessions, three messages, one reader of a channel that keeps one event.
SPECIFICATION Spec
CONSTANTS
  Creators = {r1, r2}
  Messages = {m1, m2, m3}
  Clients = {c1}
  Capacity = 1
INVARIANTS
  ServerInv
PROPERTIES
  ConversationsOnlyGrow
  EveryoneHears
CHECK_DEADLOCK FALSE
