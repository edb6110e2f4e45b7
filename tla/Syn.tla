-------------------------------- MODULE Syn ---------------------------------
(***************************************************************************)
(* SYN: the frame synchronisation of one room.  The server cuts the time   *)
(* of a game into frames of 20 ms.  The operations of the players are      *)
(* collected per frame in a ring of slots, and a frame is broadcast when   *)
(* it is AllowedDelay frames old.  A SYN lives as long as its Room object, *)
(* which serves one game after another.                                    *)
(*                                                                         *)
(* The server has one thread: operations arrive between two calls of Run,  *)
(* and inside Run only a failed write adds a message (the exit of the      *)
(* player it was meant for).                                               *)
(***************************************************************************)
EXTENDS Integers, Sequences, FiniteSets

CONSTANTS
    Player,        \* the players of the room
    Namesake,      \* the players whose user_id is the room_id
    Nobody,        \* the sender of the mark for an empty frame
    AllowedDelay,  \* SYN_AllowedDelay (3)
    AllowedAhead,  \* the frames a message may be ahead of the clock (3)
    AllowedExist,  \* SYN_AllowedExist (20)
    BufferSize,    \* SYNBufferSize (64)
    OneFrameSize,  \* OneFrameBufferSize (32)
    LobbyOps,      \* whether clients send operations outside a game
    FirstFrame,    \* the lowest frame number a client uses
    MaxStall,      \* bound: frames that pass between two calls of Run
    MaxFrame,      \* bound: the last frame of the clock
    MaxMess,       \* bound: operations of the players
    MaxGame        \* bound: games played with one Room object

ASSUME SynAssumption ==
    /\ {AllowedDelay, AllowedAhead, AllowedExist, MaxStall} \subseteq Nat
    /\ {BufferSize, OneFrameSize, MaxFrame, MaxGame} \subseteq Nat \ {0}
    /\ MaxMess \in Nat /\ FirstFrame \in Int /\ LobbyOps \in BOOLEAN
    /\ AllowedDelay < AllowedExist /\ Nobody \notin Player
    /\ Namesake \subseteq Player

VARIABLES
    ring,        \* m_oneframe: slot -> the messages m_mess[0 .. m_num-1]
    head,        \* m_head
    head_frame,  \* m_head_frame
    now_frame,   \* m_now_frame, what the last UpdateTime found
    clock,       \* the frame UpdateTime would find now
    phase,       \* "fresh" (SYN::Init not yet called), "lobby" or "ingame"
    run,         \* "idle", or inside Run: "head", "loop"
    i,           \* the loop variable of SendHeadFrameToAll
    online,      \* the players that are online
    count,       \* operations sent so far (history)
    cframe,      \* the frame number the player's client used last
    game,        \* the number of the game (history)
    ran,         \* the clock when Run was last called (history)
    added,       \* the messages that were given a slot in this game (history)
    sent,        \* the broadcasts of this game (history)
    wild         \* m_oneframe was written outside its bounds

vars == <<ring, head, head_frame, now_frame, clock, phase, run, i, online,
          count, cframe, game, ran, added, sent, wild>>

Slot == 0 .. BufferSize - 1
\* SCFrameMess
Mark == [from |-> Nobody, n |-> 0, kind |-> "mark", game |-> 0, due |-> 0]

Mess == [from : Player, n : 0 .. MaxMess, kind : {"op", "role", "exit"},
         game : 0 .. MaxGame, due : Int]

EmptyRing == [k \in Slot |-> <<>>]

-----------------------------------------------------------------------------
(* OneFrame::Add, UpdateTime and SYN::Add. *)

\* OneFrame::Add, which fails on a full slot
OneFrameAdd(s, m) == IF Len(s) >= OneFrameSize THEN s ELSE Append(s, m)

\* SYN::UpdateTime
UpdateTime == now_frame' = clock

\* The first two tests of SYN::Add
OnTime(f) == f <= clock + AllowedAhead /\ f + AllowedDelay >= clock

\* A message of player p with frame number f.  "due" is the frame it is to be
\* broadcast with: its own, or that of the head when it is late (history).
Message(p, k, f) == [from |-> p, n |-> count, kind |-> k, game |-> game,
                     due |-> IF OnTime(f) THEN f ELSE head_frame]

\* Mutant: the late messages go to the slot after the head.
LateSlot_Next == (head + 1) % BufferSize

\* The slot of a message that is late, but not too late
LateSlot == head

\* The third test of SYN::Add
Late(f) == f + AllowedDelay < clock /\ f + AllowedExist >= clock

\* Mutant: the index counts from the clock, not from the head frame.
Index_Clock(f) == (head + f) % BufferSize

\* Mutant: the head slot is taken to belong to the frame after the head frame.
Index_Before(f) ==
    LET pos == head + (f - head_frame) - 1
    IN  IF pos >= 0 THEN pos % BufferSize ELSE -((-pos) % BufferSize)

\* (m_head + diff) % SYNBufferSize; C++ rounds towards zero, so the index of a
\* frame before the head frame is negative.
Index(f) ==
    LET pos == head + (f - head_frame)
    IN  IF pos >= 0 THEN pos % BufferSize ELSE -((-pos) % BufferSize)

\* m_oneframe[k].Add(m)
Store(k, m) ==
    IF k \notin Slot THEN wild' = TRUE /\ UNCHANGED <<ring, added>>
    ELSE /\ ring' = [ring EXCEPT ![k] = OneFrameAdd(ring[k], m)]
         /\ added' = IF Len(ring[k]) < OneFrameSize THEN added \cup {m} ELSE added
         /\ UNCHANGED wild

\* SYN::Add
Add(m, f) ==
    /\ UpdateTime
    /\ \/ OnTime(f) /\ Store(Index(f), m)
       \/ Late(f) /\ Store(LateSlot, m)
       \/ ~OnTime(f) /\ ~Late(f) /\ UNCHANGED <<ring, added, wild>>

\* SYN::Add before SYN::Init: the head, the frame and the time are
\* uninitialised, so the message goes to any slot, nowhere, or outside.
AddUninitialised(m) ==
    /\ UNCHANGED now_frame
    /\ \/ UNCHANGED <<ring, added, wild>>
       \/ \E k \in Slot \cup {-1} : Store(k, m)

-----------------------------------------------------------------------------
(* The messages of the players. *)

\* An operation with the frame number of the client.  A client's frame numbers
\* do not go back.  The handlers do not look at the room's status.
Operation(p, f) ==
    /\ ~wild /\ run = "idle" /\ p \in online /\ count < MaxMess
    /\ phase = "ingame" \/ LobbyOps
    /\ f \in cframe[p] .. clock + AllowedAhead + 1
    /\ cframe' = [cframe EXCEPT ![p] = f]
    /\ count' = count + 1
    /\ IF phase = "fresh" THEN AddUninitialised(Message(p, "op", f))
                          ELSE Add(Message(p, "op", f), f)
    /\ UNCHANGED <<head, head_frame, clock, phase, run, i, online, game, ran, sent>>

\* The handlers of the operations
CSMove(p, f)  == Operation(p, f)
CSKill(p, f)  == Operation(p, f)
CSSkill(p, f) == Operation(p, f)

\* MP_CSGamePause looks the room up by the user's number: it does nothing for
\* a player whose number is not the number of the room.
CSGamePause(p, f) == p \in Namesake /\ Operation(p, f)

\* MP_CSChoseRole: the message gets the frame of the server.  It does not look
\* at the room's status either.
CSChoseRole(p) ==
    /\ ~wild /\ run = "idle" /\ p \in online /\ count < MaxMess
    /\ phase = "ingame" \/ LobbyOps
    /\ count' = count + 1
    /\ IF phase = "fresh" THEN AddUninitialised(Message(p, "role", clock))
                          ELSE Add(Message(p, "role", clock), clock)
    /\ UNCHANGED <<head, head_frame, clock, phase, run, i, online, cframe, game, ran, sent>>

\* Room::DeletePlayer in a game: a connection is lost while messages are
\* received, or a write of the broadcast that Run is in the middle of fails.
ExitGame(p) ==
    /\ ~wild /\ phase = "ingame" /\ p \in online
    /\ \/ run = "idle"
       \/ run = "loop" /\ (i > 0 \/ ring[head] = <<>>)
    /\ online' = online \ {p}
    /\ Add(Message(p, "exit", clock), clock)
    /\ UNCHANGED <<head, head_frame, clock, phase, run, i, count, cframe, game, ran, sent>>

\* MP_CSGameEnd and Room::GameEnd: the player leaves without a message of SYN.
CSGameEnd(p) ==
    /\ ~wild /\ phase = "ingame" /\ run = "idle" /\ p \in online
    /\ online' = online \ {p}
    /\ UpdateTime
    /\ UNCHANGED <<ring, head, head_frame, clock, phase, run, i, count, cframe,
                   game, ran, added, sent, wild>>

-----------------------------------------------------------------------------
(* SYN::Init, SYN::Run and the life of the room. *)

\* Mutant: the slots keep the messages of the last game.
ClearedRing_Keep == ring

\* The loop of SYN::Init
ClearedRing == EmptyRing

\* Room::SendGameStart: SYN::Init, and the room is in the game.
GameStart ==
    /\ ~wild /\ phase # "ingame"
    /\ ring' = ClearedRing
    /\ clock' = 1 /\ now_frame' = 1 /\ ran' = 1
    /\ head' = 0 /\ head_frame' = 1
    /\ phase' = "ingame" /\ game' = game + 1
    /\ added' = {} /\ sent' = <<>>
    /\ cframe' = [p \in Player |-> FirstFrame]
    /\ UNCHANGED <<run, i, online, count, wild>>

\* Everyone has left: RoomManager::OnTick frees the Room object, which is given
\* out again by CreateRoom and gets new players.
GameOver ==
    /\ ~wild /\ phase = "ingame" /\ run = "idle" /\ online = {} /\ game < MaxGame
    /\ phase' = "lobby" /\ online' = Player
    /\ UNCHANGED <<ring, head, head_frame, now_frame, clock, run, i, count,
                   cframe, game, ran, added, sent, wild>>

\* Time goes on, inside Run too.
TimePasses ==
    /\ ~wild /\ phase # "fresh" /\ clock < MaxFrame
    /\ phase = "ingame" => clock < ran + MaxStall
    /\ clock' = clock + 1
    /\ UNCHANGED <<ring, head, head_frame, now_frame, phase, run, i, online, count,
                   cframe, game, ran, added, sent, wild>>

\* The condition of the loop of SYN::Run
Due(h, n) == h + AllowedDelay + 1 <= n

\* Room::OnTick in a game: SYN::Run up to its loop
Run ==
    /\ ~wild /\ phase = "ingame" /\ run = "idle"
    /\ UpdateTime /\ ran' = clock
    /\ run' = IF Due(head_frame, clock) THEN "head" ELSE "idle"
    /\ UNCHANGED <<ring, head, head_frame, clock, phase, i, online, count, cframe,
                   game, added, sent, wild>>

\* Mutant: nothing is sent for an empty frame.
EmptyFrameSent_Not == sent

\* What SendHeadFrameToAll sends before its loop
EmptyFrameSent == IF ring[head] = <<>>
                  THEN Append(sent, [frame |-> head_frame, mess |-> Mark]) ELSE sent

\* SYN::SendHeadFrameToAll before its loop
SendEmptyFrame ==
    /\ ~wild /\ run = "head"
    /\ sent' = EmptyFrameSent
    /\ run' = "loop" /\ i' = 0
    /\ UNCHANGED <<ring, head, head_frame, now_frame, clock, phase, online, count,
                   cframe, game, ran, added, wild>>

\* One iteration of the loop of SendHeadFrameToAll
SendOne ==
    /\ ~wild /\ run = "loop" /\ i < Len(ring[head])
    /\ sent' = Append(sent, [frame |-> head_frame, mess |-> ring[head][i + 1]])
    /\ i' = i + 1
    /\ UNCHANGED <<ring, head, head_frame, now_frame, clock, phase, run, online,
                   count, cframe, game, ran, added, wild>>

\* Mutant: the slot is not emptied.
Emptied_Not == ring

\* OneFrame::Init on the head slot
Emptied == [ring EXCEPT ![head] = <<>>]

\* The end of SendHeadFrameToAll and of one iteration of the loop of Run
SendDone ==
    /\ ~wild /\ run = "loop" /\ i >= Len(ring[head])
    /\ ring' = Emptied
    /\ head' = (head + 1) % BufferSize
    /\ head_frame' = head_frame + 1
    /\ run' = IF Due(head_frame + 1, now_frame) THEN "head" ELSE "idle"
    /\ i' = 0
    /\ UNCHANGED <<now_frame, clock, phase, online, count, cframe, game, ran,
                   added, sent, wild>>

Init ==
    /\ ring = EmptyRing /\ head = 0 /\ head_frame = 1
    /\ now_frame = 1 /\ clock = 1 /\ ran = 1
    /\ phase = "fresh" /\ run = "idle" /\ i = 0
    /\ online = Player /\ count = 0
    /\ cframe = [p \in Player |-> FirstFrame]
    /\ game = 0 /\ added = {} /\ sent = <<>> /\ wild = FALSE

Next ==
    \/ \E p \in Player :
         \/ \E f \in FirstFrame .. MaxFrame + AllowedAhead + 1 :
              CSMove(p, f) \/ CSKill(p, f) \/ CSSkill(p, f) \/ CSGamePause(p, f)
         \/ CSChoseRole(p) \/ ExitGame(p) \/ CSGameEnd(p)
    \/ GameStart \/ GameOver \/ TimePasses
    \/ Run \/ SendEmptyFrame \/ SendOne \/ SendDone

Spec == Init /\ [][Next]_vars

-----------------------------------------------------------------------------
(* Properties. *)

\* Every variable has its type; no slot holds more than its buffer.
TypeOK ==
    /\ ring \in [Slot -> Seq(Mess)] /\ \A k \in Slot : Len(ring[k]) <= OneFrameSize
    /\ head \in Slot /\ head_frame \in Nat /\ now_frame \in Nat /\ clock \in Nat
    /\ phase \in {"fresh", "lobby", "ingame"} /\ run \in {"idle", "head", "loop"}
    /\ i \in Nat /\ online \subseteq Player /\ count \in 0 .. MaxMess
    /\ cframe \in [Player -> Int] /\ game \in 0 .. MaxGame /\ ran \in Nat
    /\ added \subseteq Mess /\ wild \in BOOLEAN
    /\ sent \in Seq([frame : Nat, mess : Mess \cup {Mark}])

\* What the slot k holds and has not been broadcast
Unsent(k) == IF k = head THEN SubSeq(ring[k], i + 1, Len(ring[k])) ELSE ring[k]

Copies(m) ==
    Cardinality({at \in Slot \X (1 .. OneFrameSize) :
                    at[2] \in DOMAIN Unsent(at[1]) /\ Unsent(at[1])[at[2]] = m})
    + Cardinality({j \in DOMAIN sent : sent[j].mess = m})

\* A message that was given a slot is broadcast once: until then it is in one
\* slot of the ring, afterwards in none, whatever the clock did meanwhile and
\* whoever left in the middle of a broadcast.
ExactlyOnce == phase = "ingame" => \A m \in added : Copies(m) = 1

\* No slot holds more than its buffer, and what the slots hold goes out once.
RingRight == TypeOK /\ ExactlyOnce

\* The clients can follow the frames: every frame number before the head frame
\* went out, as messages or as a mark, none was skipped and none came back.
FramesInOrder ==
    phase = "ingame" =>
        /\ \A j, k \in DOMAIN sent : j <= k => sent[j].frame <= sent[k].frame
        /\ 1 .. head_frame - 1 \subseteq {sent[j].frame : j \in DOMAIN sent}
        /\ \A j \in DOMAIN sent : sent[j].frame <= head_frame

\* A message that comes in time is broadcast with its own frame number, a late
\* one with the number of the frame that was next: no two frames share a slot
\* of the ring.
OwnFrame == \A j \in DOMAIN sent : sent[j].mess # Mark => sent[j].frame = sent[j].mess.due

\* No game broadcasts a message of an earlier game or of the lobby, although
\* the Room object and its SYN are used again.
SameGame ==
    phase = "ingame" =>
        \A j \in DOMAIN sent : sent[j].mess # Mark => sent[j].mess.game = game

\* When Run has returned, every frame older than the allowed delay is out: the
\* loop catches up however far the clock went ahead.
Prompt == phase = "ingame" /\ run = "idle" => head_frame + AllowedDelay >= ran

\* What is due goes out when it is due: each message with its frame, and each
\* frame before Run returns.
OnSchedule == OwnFrame /\ Prompt

\* The operations of one player, whose client numbers them in order, are
\* broadcast in order, the late ones among them too.  It holds as long as at
\* most one frame passes between two calls of Run: see the README.
PlayerOrder ==
    \A j, k \in DOMAIN sent :
        LET a == sent[j].mess
            b == sent[k].mess
        IN  a.kind = "op" /\ b.kind = "op" /\ a.from = b.from /\ a.n < b.n => j < k

\* SYN::Add stays inside the ring, when clients number frames from 1 and send
\* operations in games only: the head frame is never ahead of a frame that
\* Add still takes as on time.
InBounds == ~wild

\* The ring implements the unbounded line of frames of module Timeline, as
\* long as the clock stays less than a turn of the ring ahead of the head.
Line == INSTANCE Timeline WITH
    Frame <- 1 .. MaxFrame + AllowedAhead,
    open  <- phase = "ingame",
    next  <- head_frame,
    line  <- [f \in 1 .. MaxFrame + AllowedAhead |->
                IF phase = "ingame" /\ f \in head_frame .. head_frame + BufferSize - 1
                THEN Unsent((head + (f - head_frame)) % BufferSize) ELSE <<>>]

\* SYN as a whole behaves like Timeline.
ImplementsTimeline == Line!Spec
=============================================================================
