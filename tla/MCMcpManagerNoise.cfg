\* One server that writes one frame nobody asked for.
SPECIFICATION Spec
CONSTANTS
  alpha = alpha
  beta = beta
  echo = echo
  mcp_alpha_echo = mcp_alpha_echo
  mcp_beta_echo = mcp_beta_echo
  RawTools <- MCRawTools
  ServerOrder <- MCOneServer
  Qualified <- MCOneDistinct
  MaxRequests = 6
  MaxNoise = 1
INVARIANTS
  ResponseIsToTheRequest
