-------------------------- MODULE MCConversationTurns --------------------------
(***************************************************************************)
(* ConversationTurns for TLC: combinations of the commands and streams of   *)
(* one session.                                                            *)
(***************************************************************************)
EXTENDS ConversationTurns, TLC

CONSTANTS owner, guest, create, update, end, restart, remove, force, replay, recompute, say, invite, hang, greet, wait

MCOpOf == (create :> "create") @@ (update :> "update") @@ (end :> "end") @@ (restart :> "restart")
          @@ (remove :> "remove") @@ (force :> "forceEnd") @@ (replay :> "replay")
          @@ (recompute :> "recompute")
MCUserOf == (say :> owner) @@ (invite :> guest) @@ (hang :> owner) @@ (greet :> owner) @@ (wait :> owner)
MCMaxDeltas == (say :> 1) @@ (invite :> 2) @@ (hang :> 0) @@ (greet :> 1) @@ (wait :> 0)

MCWorkloads ==
  {{create, end, restart}, {create, restart, force}, {create, restart, replay}, {create, end, update},
   {end, force, replay}, {force, replay, remove}, {restart, end, remove},
   {force, recompute, replay}, {hang, recompute},
   {say}, {invite}, {greet, update}, {greet, end}, {greet, remove}, {hang, force}, {hang, restart},
   {hang, wait}, {wait, update}}
MCTalked == {{wait, update}} \cup {w \in MCWorkloads : {end, force} \cap w # {} /\ create \notin w}
=============================================================================
