------------------------------ MODULE McpNames -------------------------------
(***************************************************************************)
(* The names and signatures by which MCP tools and servers are told apart  *)
(* (runtime/src/mcp.rs).  A name is a sequence of letters: "x" stands for  *)
(* one that stays, "." for one that becomes an underscore.  McpManager     *)
(* takes as given which tools have one name; this is when they do.         *)
(***************************************************************************)
EXTENDS Naturals, SequencesExt

CONSTANTS
  ServerLetters, ToolLetters, \* bounds: letters of a name
  PartLetters, MaxParts       \* bounds: letters of a part of a command line, and its parts

ASSUME NamesAssumption ==
  /\ ServerLetters \in Nat /\ ToolLetters \in Nat /\ PartLetters \in Nat /\ MaxParts \in Nat

VARIABLES
  named, \* [connector, server, tool]: a name in two parts; connector: "claude.ai ..."
  argv   \* the parts of a command line

namesVars == <<named, argv>>

Spelled(letters, most) == UNION {[1 .. n -> letters] : n \in 0 .. most}
Letters == {"x", "_", "."}
ToolsOfServers ==
  [connector : BOOLEAN, server : Spelled(Letters, ServerLetters), tool : Spelled(Letters, ToolLetters)]
Parts == Spelled({"a", "\\", "|"}, PartLetters)
Commands == Spelled(Parts, MaxParts)

-----------------------------------------------------------------------------
(* collapse_underscores and trim_matches.                                  *)
CollapseUnderscores(s) ==
  LET kept == SelectSeq([k \in DOMAIN s |-> k], LAMBDA k : s[k] = "_" => k = 1 \/ s[k - 1] # "_")
  IN  [i \in DOMAIN kept |-> s[kept[i]]]
TrimUnderscores(s) ==
  LET inner == SelectSeq([k \in DOMAIN s |-> k],
                         LAMBDA k : (\E j \in 1 .. k : s[j] # "_") /\ (\E j \in k .. Len(s) : s[j] # "_"))
  IN  [i \in DOMAIN inner |-> s[inner[i]]]

Replaced(name) == [k \in DOMAIN name |-> IF name[k] = "." THEN "_" ELSE name[k]]
ConnectorPrefix == <<"c", ".", "c", ".">>  \* claude.ai and a space

(* Slip: a connector's name is trimmed and keeps its double underscores. *)
NormalizeWithoutCollapse(connector, name) ==
  IF connector THEN TrimUnderscores(Replaced(ConnectorPrefix \o name)) ELSE Replaced(name)
(* normalize_name_for_mcp.                                                 *)
NormalizeNameForMcp(connector, name) ==
  IF connector THEN TrimUnderscores(CollapseUnderscores(Replaced(ConnectorPrefix \o name)))
  ELSE Replaced(name)

McpToolPrefix(t) == <<"mcp", "_", "_">> \o NormalizeNameForMcp(t.connector, t.server) \o <<"_", "_">>
McpToolName(t) == McpToolPrefix(t) \o NormalizeNameForMcp(FALSE, t.tool)

(* render_command_signature: a bar between the parts, escaped within.      *)
Escaped(part) ==
  FlattenSeq([k \in DOMAIN part |-> IF part[k] = "a" THEN <<"a">> ELSE <<"\\", part[k]>>])
RenderCommandSignature(parts) ==
  FlattenSeq([k \in DOMAIN parts |-> IF k = 1 THEN Escaped(parts[k]) ELSE <<"|">> \o Escaped(parts[k])])

-----------------------------------------------------------------------------
NoTool == [connector |-> FALSE, server |-> <<>>, tool |-> <<>>]
NamesInit == named = NoTool /\ argv = <<>>

(* The user configures a server; its tools have any names.                 *)
ConfigureTool == named = NoTool /\ argv = <<>> /\ named' \in ToolsOfServers /\ UNCHANGED argv
ConfigureCommand == named = NoTool /\ argv = <<>> /\ argv' \in Commands /\ UNCHANGED named

NamesNext == ConfigureTool \/ ConfigureCommand

NamesSpec == NamesInit /\ [][NamesNext]_namesVars

-----------------------------------------------------------------------------
(* A qualified name can be taken apart at its first double underscore, so  *)
(* that two tools of one name have one server and one name there, if the   *)
(* server's name has none and does not end in an underscore.  That holds   *)
(* of every connector, whatever it is called.                              *)
Double(s, k) == k < Len(s) /\ s[k] = "_" /\ s[k + 1] = "_"
Clean(s) == s # <<>> /\ s[Len(s)] # "_" /\ ~\E k \in DOMAIN s : Double(s, k)
NameComesApart ==
  LET server == NormalizeNameForMcp(named.connector, named.server)
      own == NormalizeNameForMcp(FALSE, named.tool)
      name == SubSeq(McpToolName(named), 4, Len(McpToolName(named)))
      cut == CHOOSE k \in DOMAIN name : Double(name, k) /\ \A j \in 1 .. k - 1 : ~Double(name, j)
  IN  /\ named.connector => Clean(server)
      /\ Clean(server) => SubSeq(name, 1, cut - 1) = server /\ SubSeq(name, cut + 2, Len(name)) = own

(* Two servers that are started by different command lines have different  *)
(* signatures: the escapes leave no two ways to read one.                  *)
SignaturesDiffer ==
  argv # <<>> => \A other \in Commands \ {<<>>} :
    RenderCommandSignature(other) = RenderCommandSignature(argv) => other = argv

NamesInv == NameComesApart /\ SignaturesDiffer

=============================================================================
