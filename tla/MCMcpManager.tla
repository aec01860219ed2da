---------------------------- MODULE MCMcpManager ----------------------------
(* Small instances of McpManager: two servers whose names, normalised, may *)
(* or may not give their tools the same qualified name.                    *)
EXTENDS McpManager

CONSTANTS alpha, beta, echo, mcp_alpha_echo, mcp_beta_echo

MCServerOrder == <<alpha, beta>>
MCOneServer == <<alpha>>
MCRawTools == {echo}
MCColliding == [s \in {alpha, beta} |-> [t \in MCRawTools |-> mcp_alpha_echo]]
MCOneDistinct == [s \in {alpha} |-> [t \in MCRawTools |-> mcp_alpha_echo]]

=============================================================================
