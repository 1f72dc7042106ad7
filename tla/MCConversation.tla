--------------------------- MODULE MCConversation ---------------------------
(* Conversation for TLC: a chain of two models of any of the vendors, and a   *)
(* compactor that keeps one or two messages.                                  *)
EXTENDS Conversation
MCRequest == 1..MaxTurns
MCConfigured == {<<"anthropic", "google">>, <<"google", "openai">>}
MCRoles == {"subagent", "lead"}
MCKeepRecents == {1, 2}
MCToolNames == {"spawn_subagents", "search_web", "write_artifact"}
MCAsks == {<<"search_web">>, <<"search_web", "write_artifact">>}
=============================================================================
