----------------------------- MODULE MC_SynLine -----------------------------
(* Syn with a history variable: whether the main loop has stalled. *)
EXTENDS MC_Syn

VARIABLE stalled   \* two frames have passed between two calls of Run (history)

LInit == Init /\ stalled = FALSE
LNext == Next /\ stalled' = (stalled \/ (phase' = "ingame" /\ clock' > ran' + 1))
LSpec == LInit /\ [][LNext]_<<vars, stalled>>

\* Until the main loop stalls for two frames or more, the operations of a player
\* are broadcast in the order he sent them: see PlayerOrder.  A later message
\* of his that is late goes to the head slot and can overtake an earlier one.
PlayerOrderUntil == stalled \/ PlayerOrder
=============================================================================
