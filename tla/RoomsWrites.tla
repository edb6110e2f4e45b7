---------------------------- MODULE RoomsWrites ----------------------------
(***************************************************************************)
(* Rooms with a history variable: whether a write has failed.  What        *)
(* clients know, and when a game starts, is right until then; the tables   *)
(* of the server are right always.                                         *)
(***************************************************************************)
EXTENDS Rooms

VARIABLE failed   \* SendMessageToClient has deleted a client (history)

wvars == <<vars, failed>>

\* A send puts the deletion of its client on the stack.
WriteFails == /\ Top("send") \/ Top("everyone")
              /\ stack' # <<>> /\ Head(stack').op = "deleteClient"

WInit == Init /\ failed = FALSE
WNext == Next /\ failed' = (failed \/ WriteFails)
WSpec == WInit /\ [][WNext]_wvars

-----------------------------------------------------------------------------
(* Properties. *)

\* Until a write fails, every player knows his room between two handlers: who
\* sits where while it waits (DetailKnown), his own seat in every phase
\* (PlayerIdKnown), and the phase (PhaseKnown).
RoomKnownUntil == failed \/ (DetailKnown /\ PlayerIdKnown /\ PhaseKnown)

\* Until a write fails, a game starts only when everybody who is still in the
\* room has loaded.  DeletePlayer counts the player it removes as loaded until
\* its broadcast is over, so that an exit nested in it may start the game.
StartsLoadedUntil ==
    [][\A r \in Room :
         ~failed' /\ room[r].status = "loading" /\ room'[r].status = "ingame" =>
            room[r].is_online \subseteq room[r].is_loading_succeed]_wvars
=============================================================================
