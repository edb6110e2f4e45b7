----------------------------- MODULE MC_CMessage -----------------------------
(* The bytes of CMessage objects (Codec) and the memory they own
   (MessageOwner) have no state in common: TLC takes one or the other. *)
EXTENDS Codec

MC_Entries == {[id |-> 0, type |-> "login"], [id |-> 1, type |-> "move"],
               [id |-> 1, type |-> "kill"]}
MC_Ids == {0, 1, 10}
MC_FrameNums == {-1, 9}
MC_Bodies == {<<>>, <<1, 7>>, <<7>>}
MC_Garbage == {-1, 9}
MC_Serialize(c) == CASE c = "a" -> <<>> [] c = "b" -> <<1, 7>>

CONSTANTS Frames, Slots   \* the ring of MessageOwner

VARIABLES side, heap, slots, num, head, locals, at, what

o_vars == <<heap, slots, num, head, locals, at, what>>

O == INSTANCE MessageOwner

ASSUME SlotsAssumption == O!OwnerAssumption

CMessageInit == Init /\ O!Init /\ side \in {"bytes", "memory"}

CMessageNext == /\ UNCHANGED side
                /\ \/ side = "bytes" /\ Next /\ UNCHANGED o_vars
                   \/ side = "memory" /\ O!Next /\ UNCHANGED vars

CMessageSpec == CMessageInit /\ [][CMessageNext]_<<vars, side, o_vars>>

\* A handler gets the message that was sent, with numbers in the range of an
\* int32_t: see HandledAsSent in Codec.
HandledRight == TypeOK /\ HandledAsSent

\* Every protobuf message that is allocated has exactly one CMessage that will
\* delete it, and the one that SYN broadcasts stays until all players have it:
\* see OwnedOnce and SentIntact in MessageOwner.
MessageMemory == O!TypeOK /\ O!OwnedOnce /\ O!SentIntact
=============================================================================
