--------------------------- MODULE MCConversation ---------------------------
(***************************************************************************)
(* Small instances of Conversation.  The tools stand for one tool of each  *)
(* kind: a reader, one that needs full access and one the policy has no    *)
(* entry for.                                                              *)
(***************************************************************************)
EXTENDS Conversation, TLC

CONSTANTS read, bash, ghost

MCRequirement == (read :> "read-only") @@ (bash :> "danger-full-access")

MCReadBash == {read, bash}
MCAllTools == {read, bash, ghost}

=============================================================================
