\* Two servers whose tools collide, one frame of noise per child.
SPECIFICATION Spec
CONSTANTS
  alpha = alpha
  beta = beta
  echo = echo
  mcp_alpha_echo = mcp_alpha_echo
  mcp_beta_echo = mcp_beta_echo
  RawTools <- MCRawTools
  ServerOrder <- MCServerOrder
  Qualified <- MCColliding
  MaxRequests = 6
  MaxNoise = 1
INVARIANTS
  ManagerInv
PROPERTIES
  QuietChildrenAreInStep
  OperationEnds
