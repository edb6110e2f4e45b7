---------------------------- MODULE MessageOwner ----------------------------
(***************************************************************************)
(* Who owns the protobuf messages.  A CMessage has a pointer m_proto that  *)
(* its destructor deletes; copying one copies the protobuf message too.    *)
(* The objects are the request that ReceiveMessage has made, the locals of *)
(* handlers and of Room::DeletePlayer, and the slots of the ring of SYN,   *)
(* which outlive the calls.  While SYN broadcasts a slot, a write that     *)
(* fails adds the exit of that player to the ring.                         *)
(*                                                                         *)
(* A protobuf message is a number, and new takes the lowest free one.      *)
(***************************************************************************)
EXTENDS Integers, Sequences, FiniteSets, SequencesExt

CONSTANTS
    Frames,    \* SYNBufferSize (64)
    Slots      \* OneFrameBufferSize (32)

\* What the constants must satisfy
OwnerAssumption == Frames \in Nat \ {0} /\ Slots \in Nat \ {0}

VARIABLES
    heap,     \* the protobuf messages that are allocated, except the lost ones
    slots,    \* m_proto of m_oneframe[f].m_mess[i]; 0 is NULL
    num,      \* m_num of each frame
    head,     \* m_head
    locals,   \* the other objects, by nesting: m_proto and what it is for
    at,       \* the slot that is broadcast, or 0
    what      \* what m_proto of that slot was when its broadcast began

vars == <<heap, slots, num, head, locals, at, what>>

Ring == 0 .. Frames - 1

\* Enough numbers for every object to have one, and one more
Protos == 1 .. Frames * Slots + 4

\* new
New == CHOOSE p \in Protos \ heap : \A q \in Protos \ heap : p <= q

Top == Last(locals)

\* An object is made with a new protobuf message.
Make(use) ==
    /\ heap' = heap \cup {New}
    /\ locals' = Append(locals, [proto |-> New, use |-> use])

\* The object on top is destroyed: CMessage::~CMessage.
Destroy(H) == heap' = H \ {Top.proto} /\ locals' = Front(locals)

-----------------------------------------------------------------------------

\* ParseStrToMessage makes the request.
Receive ==
    /\ locals = <<>> /\ at = 0
    /\ Make("request")
    /\ UNCHANGED <<slots, num, head, at, what>>

\* A handler of the game makes the message it will add to the ring.
NewOperation ==
    /\ locals # <<>> /\ Top.use = "request"
    /\ Make("add")
    /\ UNCHANGED <<slots, num, head, at, what>>

\* A write fails in a broadcast of SYN: Room::DeletePlayer makes the exit.
Broadcasting == IF locals = <<>> THEN at > 0 ELSE Top.use = "send"

NewExit ==
    /\ Broadcasting
    /\ Make("add")
    /\ UNCHANGED <<slots, num, head, at, what>>

\* mess.m_proto->New() and CopyFrom
Copied(p) == New

\* Mutant: the last slot in use is taken again.
Position_Last(f) == IF num[f] = 0 THEN 1 ELSE num[f]

\* m_num++
Position(f) == num[f] + 1

\* The test of OneFrame::Add
HasSlot(f) == num[f] < Slots

\* SYN::Add and OneFrame::Add: CMessage::operator= gives the slot a copy and
\* loses what the slot had without deleting it.  Nothing refers to a lost
\* message any more, so heap forgets it.  Then the local object is destroyed.
Add(f) ==
    /\ locals # <<>> /\ Top.use = "add" /\ HasSlot(f)
    /\ LET old == slots[f][Position(f)]
           p   == Copied(Top.proto)
       IN  /\ slots' = [slots EXCEPT ![f][Position(f)] = p]
           /\ Destroy((heap \ {old}) \cup {p})
    /\ num' = [num EXCEPT ![f] = Position(f)]
    /\ UNCHANGED <<head, at, what>>

\* The frame has no slot left, or SYN::Add throws the message away.
AddFails ==
    /\ locals # <<>> /\ Top.use = "add"
    /\ Destroy(heap)
    /\ UNCHANGED <<slots, num, head, at, what>>

\* ReceiveMessage deletes the request.
DeleteRequest ==
    /\ locals # <<>> /\ Top.use = "request"
    /\ Destroy(heap)
    /\ UNCHANGED <<slots, num, head, at, what>>

\* SendHeadFrameToAll, a frame without messages
SendEmptyFrame ==
    /\ locals = <<>> /\ at = 0 /\ num[head] = 0
    /\ Make("send")
    /\ UNCHANGED <<slots, num, head, at, what>>

\* m_head = (m_head + 1) % SYNBufferSize
NextHead == (head + 1) % Frames

\* The broadcast goes on with slot i, or OneFrame::Init ends it.
Continue(i) ==
    IF i <= num[head]
    THEN at' = i /\ what' = slots[head][i] /\ UNCHANGED <<num, head>>
    ELSE /\ at' = 0 /\ what' = 0
         /\ num' = [num EXCEPT ![head] = 0] /\ head' = NextHead

\* The empty frame is sent.  An exit that was added to it meanwhile is next.
EmptyFrameSent ==
    /\ locals # <<>> /\ Top.use = "send"
    /\ Destroy(heap)
    /\ Continue(1)
    /\ UNCHANGED <<slots>>

\* SendHeadFrameToAll, a frame with messages
SendFrame ==
    /\ locals = <<>> /\ at = 0 /\ num[head] > 0
    /\ Continue(1)
    /\ UNCHANGED <<heap, slots, locals>>

SendNext ==
    /\ locals = <<>> /\ at > 0
    /\ Continue(at + 1)
    /\ UNCHANGED <<heap, slots, locals>>

\* SYN::Init, when a new game begins: the slots keep what they point to.
SynInit ==
    /\ locals = <<>> /\ at = 0
    /\ num' = [f \in Ring |-> 0] /\ head' = 0
    /\ UNCHANGED <<heap, slots, locals, at, what>>

Init ==
    /\ heap = {}
    /\ slots = [f \in Ring |-> [i \in 1 .. Slots |-> 0]]
    /\ num = [f \in Ring |-> 0] /\ head = 0
    /\ locals = <<>> /\ at = 0 /\ what = 0

Next ==
    \/ Receive \/ NewOperation \/ NewExit \/ AddFails \/ DeleteRequest
    \/ \E f \in Ring : Add(f)
    \/ SendEmptyFrame \/ EmptyFrameSent \/ SendFrame \/ SendNext \/ SynInit

Spec == Init /\ [][Next]_vars

-----------------------------------------------------------------------------
(* Properties. *)

\* Every variable has its type.
TypeOK ==
    /\ heap \subseteq Protos
    /\ slots \in [Ring -> [1 .. Slots -> Protos \cup {0}]]
    /\ num \in [Ring -> 0 .. Slots] /\ head \in Ring
    /\ locals \in Seq([proto : Protos, use : {"request", "add", "send"}])
    /\ at \in 0 .. Slots /\ what \in Protos \cup {0}

\* The CMessage objects, and which points to p
Objects ==
    {<<"slot", f, i>> : f \in Ring, i \in 1 .. Slots} \cup
    {<<"local", i, 0>> : i \in DOMAIN locals}

PointsTo(o, p) == IF o[1] = "slot" THEN slots[o[2]][o[3]] = p
                  ELSE locals[o[2]].proto = p

\* No protobuf message is deleted while an object points to it, and none will
\* be deleted twice: what is allocated has exactly one owner, what is not has
\* none, across copies into the ring and the destruction of the originals.  (A
\* message that operator= loses has none either and is never deleted.)
OwnedOnce ==
    \A p \in Protos :
        Cardinality({o \in Objects : PointsTo(o, p)}) = IF p \in heap THEN 1 ELSE 0

\* The message that SYN broadcasts stays the same until all players have it,
\* although exits are added to the frame in between.
SentIntact == at > 0 => /\ at <= num[head] /\ slots[head][at] = what /\ what \in heap
=============================================================================
