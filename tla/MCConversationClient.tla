-------------------------- MODULE MCConversationClient --------------------------
(***************************************************************************)
(* ConversationClient for TLC: the turns of one page.                         *)
(***************************************************************************)
EXTENDS ConversationClient, TLC

CONSTANTS opening, reply, again, more

MCMaxSentences == (opening :> 2) @@ (reply :> 1) @@ (again :> 0) @@ (more :> 0)
MCWorkloads == {{opening, reply}, {reply, again, more}}
=============================================================================
