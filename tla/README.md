# Verification of the Island Survival game server

The repository is the server of a multiplayer game: one process, one thread,
epoll, messages in protobuf. Clients log in, create and join rooms, load the
map, and then play a game whose operations the server collects into frames and
broadcasts. This directory holds TLA+ models of that server, the TLC
configurations that check them, and TLAPS proofs of what they rest on.

Paths below are relative to `src/Server/`. The server itself is in `Frame/`,
`Include/` and `MessageProcessor/`, about 3450 lines with headers; the map covers
54% of them, which is nearly all the code that has behaviour. The other 175000
lines of the tree are a vendored copy of protobuf.

## 1. Inventory

| Component | State | Operations | Correct when |
|---|---|---|---|
| `Frame/server_main.cpp` main loop | `presec` | `RunOnTick` (rooms at every turn, heartbeat every 40 s), then `ReceiveMessage` | ticks come back however many messages arrive |
| `Frame/message_handler` | `m_connects`, `m_user_id_to_fd`, `m_fd_to_user_id`, free sockets | accept, dispatch, send, delete a client | the maps agree with each other and with the managers below |
| `Frame/person`, `person_manager` | one `Person` per login, in the hall or in a room | login, logout (`OnExit` gives the seat back), change of status | a person exists for each session and its status tells whether it has a room |
| `Frame/room_manager` | `belong_room_`, `rooms_`, `m_free_room` | create, join, leave, game end, reap empty rooms | nobody points to a freed room; an empty room is freed |
| `Frame/room` | seats, teams, online and loaded flags with their counts, status | seats move up (waiting) or go offline (loading, game); broadcasts; loading timeout | counts match seats; a game starts when all have loaded; everyone is told |
| `Frame/syn` | ring of 64 slots of 32 messages, head slot, head frame | `Add`, `Run` | frames in order, each message once, with its frame |
| `Frame/heartbeat` | ordered set of (second, fd) and its inverse map | add, refresh, delete, scan | exactly the silent connections are dropped |
| `MessageProcessor/*` | none | one handler per client message | |
| `Include/server_tcpsocket` | receive and send buffers with head and tail | `RecvData`, `get_one_message`, `SendData` | messages whole, once and in order, however the kernel cuts them |
| `Include/CMessage` | head fields, a protobuf message it owns | encode, decode, copy, destroy | what is decoded is what was encoded; one owner per protobuf message |
| `Frame/login` | MySQL connection; the accounts are rows of a table | check and register accounts | accounts stay with their owners through failures and restarts |
| `Frame/message_processor_register` | type and handler by message id, filled before `main` | create a message, dispatch | a message is handled by the handler for its type |
| `google/` | vendored protobuf | | |

**How they interact.** Everything is a nested call on one stack. A handler
calls `RoomManager` and `Room`, a `Room` broadcasts through
`MessageHandler::SendMessageToClient`, and there a failed write calls
`DeleteClientByFD`, `PlayerLogout`, `PersonLogout`, `Person::OnExit`,
`DeletePlayerFromRoom` and `Room::DeletePlayer`, which broadcasts again. So the
server has no threads and still has interleavings: a loop over the seats of a
room runs while an inner call moves those seats.

**What is hard.** Those re-entrant deletions; room details, counts and
iterators kept across a call that may change what they describe; room objects
and their SYN being reused; messages that are legal in one phase arriving in
another; the wrap-around of the frame ring and stalls of the main loop; a
timeout scan that stops at the first fresh entry; descriptors and socket objects
that are given out again while events and entries of the old connection are
still around; partial reads and writes; a registration that fails halfway or
meets a restart. `PROJECT.json` lists each
hazard at its line with the properties that cover it.

## 2. Modules

| Module | Models |
|---|---|
| `Rooms` | Room, RoomManager, Person, PersonManager, the sessions, sending and client deletion of MessageHandler, the lobby, start and end handlers, `RoomManager::OnTick` |
| `RoomsWrites` | `Rooms` with a history variable for the first failed write, and the properties that hold until then |
| `MC_Rooms`, `MC_RoomsWrites` | users for TLC, symmetry; a bound on what happens with a second room |
| `Timeline` | abstract: an unbounded line of frames |
| `Syn` | SYN and OneFrame of one Room object over several games, the in-game handlers |
| `MC_Syn`, `MC_SynLine` | players for TLC, symmetry; a history variable for the first stall |
| `Heartbeat` | Heartbeat, `RunOnTick`, accept and delete |
| `Session` | the tables of MessageHandler by descriptor, its pool of TcpSocket objects, a batch of epoll events, login and nested logout |
| `MessageStream` | abstract: whole messages, in order, while a connection lives |
| `TcpRecv` | the receiving half of TcpSocket and the loop of `ReceiveMessage` over one connection |
| `TcpSend` | the sending half of TcpSocket |
| `MC_Tcp` | both halves for TLC |
| `Codec` | CMessage to bytes and back, MessageProcessorRegister, `ParseStrToMessage` |
| `MessageOwner` | construction, copy and destruction of CMessage, and the slots of SYN as objects |
| `MC_CMessage` | both sides of CMessage for TLC |
| `Accounts`, `MC_Accounts` | Login, MP_CSLogin, MP_CSRegist, the table of accounts |
| `RoomsProofs`, `SynProofs`, `HeartbeatProofs`, `SessionProofs`, `TcpSendProofs`, `AccountsProofs` | theorems about the module each is named after; `RoomsProofs` also about `RoomsWrites` |
| `TcpProofs` | theorems about `TcpRecv`, and about both halves as `MC_Tcp` combines them |
| `CMessageProofs` | theorems about `Codec` and `MessageOwner` as `MC_CMessage` combines them |

Operators named `X_Something`, commented "Mutant", are mutations of the
operator `X` that follows them; no specification uses them.

### Rooms

`stack` is the call stack of the server: a sequence of frames, each a function
with the locals it still needs (`Call`). The action `Do...` for the frame on
top executes it up to its next call and pushes what remains. Thus
`DoEveryone` is one turn of the loop of `SendMessageToEveryone`; it reads the
seats afresh at every turn, as the code does, after whatever the last send has
done. `SendMessageToClient` chooses among the outcomes of `SendResult`: `ok`
(the client receives it), `lost` (`write_status_not_finish`, the buffer is
full), `error` (the client is deleted before the call returns).

| Variable | Code |
|---|---|
| `sess` | keys of `m_user_id_to_fd` (with `m_fd_to_user_id` and `m_connects`: one descriptor per user) |
| `person` | `m_user_id_to_person` and `Person::m_status` |
| `belong` | `belong_room_`, 0 where there is no entry |
| `rooms`, `freeRoom`, `nextRoom` | keys of `rooms_`, `m_free_room`, `s_room_id` |
| `room` | the Room objects; `late` is the timeout test of `Room::OnTick` |
| `told` | what each client was told since it entered its room (history) |
| `serving` | the user whose message `ReceiveMessage` handles |
| `ticking` | the iterator of `RoomManager::OnTick` |
| `crashed` | which NULL pointer was dereferenced, `"no"` otherwise |

One simplification of data: above `m_player_cnt` a seat holds `NoUser` and team
0, where the code keeps what was there; no code reads those entries. The fields
of the loading phase are not simplified: neither `Room::Room` nor `Room::Init`
sets `m_is_loading_succeed`, `m_loading_succeed_cnt` or `m_loading_time_second`,
so a new Room has any value of the constant `Unset` there, and a reused one what
its last game left, until `SendGameLoading` sets them (`InitRoom`,
`LoadingRoom`). Hence `RoomCounts` speaks of the loading count only once the room
no longer waits.
`SYN::Run` appears here as at most one broadcast per tick, because only the
failure of its writes matters to rooms.

The code dereferences NULL in three places: `MP_CSJoinRoom` never does
(`JoinRoomNeverNull`, proved). `MP_CSPlayerExitRoom` does for a user in no room
(`crashed = "exit"`), and `ReceiveMessage` does when a handler's reply failed
and deleted the client being served (`crashed = "conn"`). The process ends
there, hence `CHECK_DEADLOCK FALSE` in the configurations of `Rooms`.

### Syn and Timeline

The clock is the frame number `UpdateTime` would compute; `now_frame` is the
cached `m_now_frame`. `Run` is cut at each broadcast (`SendEmptyFrame`,
`SendOne`, `SendDone`), since a failed write inside one calls
`Room::DeletePlayer`, which calls `SYN::Add` (`ExitGame`). `Index` follows the
remainder of C++, which is negative for a negative dividend; a write outside
the ring ends the behaviour (`wild`). Before the first `SYN::Init` the members
are uninitialised, and an operation sent in the lobby goes to any slot, none,
or outside; `MP_CSChoseRole` is among these, as no in-game handler looks at the
status of the room. `MP_CSGamePause` looks the room up with the user's number, so it
acts only for the players in `Namesake`. A string literal that spans two lines
(`Frame/syn.cpp:80`) is read as the one message it is meant to be.

`Timeline` is what SYN promises: a message is put on a frame that has not gone
out, frames go out one after the other, each message once, an empty frame as a
mark. The refinement mapping (`Line`) reads the ring from the head on.

### Heartbeat

The scan is one action per deletion, with the iterator in `it`. Deleting a
client may delete others in the same call (`Doomed`); if the entry the iterator
has moved to is among them the iterator is `Wild` and nothing is said about what
follows.

### Session

`Rooms` has one descriptor per user; here descriptors are numbers that the
kernel gives out again, lowest first, and that share their range with user
numbers, since both are `int32_t` and `ReceiveMessage` passes either to a
handler (`Argument`). The tables are functions on both sets of numbers, 0 where
there is no entry. `stack` holds the calls of `PlayerLogout` that have erased
`m_user_id_to_fd` and wait for `PersonLogout`; inside it any other online user's
write may fail (`NestedSendFails`), whoever shares a room with him. `batch` is
what `epoll_wait` reported: its events are handled in any order, deletions and
accepts between them. `owner` is the kernel's view of a descriptor. When a
handler has deleted the client it serves, the process ends there (see Rooms).

### TcpRecv, TcpSend and MessageStream

A byte is a pair of a message and a position in it, so that a byte lost,
repeated or out of place shows. `RecvData` is cut at each `recv()`, which yields
any number of the bytes there are, `SendData` at each `send()`, which takes any
number that the kernel has room for; in between the other end sends, reads,
closes or breaks the connection. The object then serves the next connection,
with its old bytes still in the buffer. In `TcpRecv` the heartbeat is `Sweep`,
once per period; the times are in `Heartbeat`. Every message is longer than its
length field (`TcpRecvAssumption`): what a client declares is the length of a whole
CMessage. A declared length of 0 or less, for which `get_one_message` returns
`error` and `ReceiveMessage` stops reading as it does for `fail`, and one that
ends inside the length field are left out. `MessageStream` is the abstract
specification of both: a queue of messages from which the other side takes the
first. `status = "overflow"` in `TcpSend` is the last branch of `SendData`,
whose comment says that a client is kicked out there; `AlwaysFits` shows that it
is never taken, as the buffer is empty and a message fits it.

The halves share only `Init` and `close_socket`, so `MC_Tcp` has the variables of
both and lets TLC take one half or the other from the start; the properties
of `TcpSend` have names that begin with `Send` there, or are conjoined with those
of `TcpRecv`. The assumptions of both are evaluated. `MC_CMessage` does the same
for `Codec` and `MessageOwner`, which have no state in common.

### Codec and MessageOwner

`Codec` has the bytes of a head in base `Byte`, most significant first, in two's
complement for all but the hash. `recv_data` keeps what earlier messages left,
and the id is read at its fixed place, as `ParseStrToMessage` does. `out` is one
object that is encoded for several players, as `SendMessageToEveryone` and SYN
do; its `m_packetlen` starts with any value. Bodies are protobuf's: what
`ParseFromString` makes of a body it refuses is any content.

`MessageOwner` has the same objects from the side of the heap: `locals` is the
stack of CMessage objects in functions, `slots` those of the ring. In it a write
that fails during a broadcast of SYN adds an exit to the ring (`NewExit`, `Add`).
`CMessage::operator=` gives the slot a copy and forgets the message it had, which
is a leak; `OwnedOnce` says that nothing is deleted twice or used after
its deletion.

### Accounts

A request is a sequence of queries. `QueryFails` may come at each; an insert
that fails may have been carried out. `Restart` keeps the rows and loses the
sessions. Each `mysql_real_query` passes 60 as the length of its statement;
`Whole` says which statements survive that. That statements shorter than 60
bytes end at their NUL is an assumption about MySQL. Of a statement only its
length is modelled, and names and passwords are values that compare as the table
compares them. Login builds its statements by putting the name between quotes as
it is, so `SessionsRight`, `AccountsKept` and `OwnerGetsIn` speak of names and
passwords without a quote; with one, the statement is another than the one
modelled and nothing is claimed.

## 3. Runs

| Run | Instance | Checks |
|---|---|---|
| `rooms_writes` | 3 users; 1 room of 3 seats, both team modes, changes of team and option, writes that arrive or fail; or 2 rooms of 2 players | `TypeOK`, `MemberHasSeat`, `RoomCounts`, `PendingRoomsExist`, `FreeRoomsApart`, `TablesAgree`, `ExitsTold`, `JoinRoomNeverNull`, `RoomKnownUntil`, `StartsLoadedUntil`, `TeamFollowsPlayer` |
| `rooms_live` | 2 users, 1 room, writes that arrive, get lost or fail, fairness | `LoadingEnds`, `EmptyRoomErased` |
| `rooms_stale` | 3 users, 1 room of 3 seats, writes that arrive or fail | `PlayerIdKnown` is violated |
| `rooms_ghost` | 2 users, `CSGameEnd` in a waiting room too, fairness | `EmptyRoomErased` is violated |
| `syn_line` | 1 player, ring of 6, stalls of 2 frames, 7 frames | `InBounds`, `OnSchedule`, `PlayerOrderUntil`, `ImplementsTimeline` |
| `syn_any` | 2 players, ring of 3, slots of 1 message, stalls of 5 frames, 2 games, operations in the lobby, frame 0 | `RingRight`, `SameGame`, `FramesInOrder` |
| `heartbeat` | 3 connections, 9 seconds, deletions that cascade | `MapsRight`, `SilentDropped`, `ScanRight` |
| `session` | 3 users, 3 descriptors, 3 connections | `TablesRight`, `SocketPool`, `OwnConnection` |
| `session_relogin` | 2 users, 2 descriptors, a login on a logged-in connection | `OwnConnection` is violated |
| `tcp` | 2 connections; in: messages of 2, 3 and 5 bytes, buffer of 5, longest message 3; out: messages of 2, 3 and 4 bytes, buffer of 4, kernel of 5; fairness | `BuffersRight`, `StreamIntact`, `NoFalseDisconnect`, `ImplementsStreams`, `Delivered`, `SendLostOnlyWhenFull`, `SendFlushed` |
| `cmessage` | bytes of 8 values, 2 per integer, 3 registrations, 2 with one id; ring of 2 frames of 2 messages | `HandledRight`, `HandlerFits`, `SentDecodes`, `MessageMemory` |
| `accounts` | 4 clients, 2 names, 2 failures, 1 restart, fairness | `SessionsRight`, `AccountsKept`, `OwnerGetsIn` |

A property whose name ends in `Right` or `Agree` is a conjunction of parts that
its module names and comments one by one.

**Why the bounds are enough.** Three users are the least with which a
broadcast about one player can throw out a second and still owe a message to a
third; three seats, the least where a seat in the middle moves up; two rooms,
the least where the reaping loop has a next room. `SecondRoomPlain` in
`MC_RoomsWrites` keeps the two apart: with a second room no write fails, rooms
have two players, one room at a time has a game, and a room is reused only before
its game. A room that is reused after a game, with what the game left in it, is in
the part with one room. Failing writes with any number of rooms are in the proofs
(section 4). A new Room starts with `Leftover` in the fields that nobody sets, a
count and a set that do not agree and a time that is over (in the other runs with
it or with zeros). The ring turns in `syn_line` (frame 7 reuses slot 0) and
collides in `syn_any`, where a stall is longer than the ring. The heartbeat
instance has entries that differ in second and in descriptor, several scans and
descriptors that are given out again. Three users are needed for a logout
nested in a logout; with three descriptors one is given out again while another
is in use. The receive buffer is not a multiple of
the message lengths, so that messages straddle its end, the bytes are moved and
the buffer is full with a whole message and with a part of one. The send buffer
holds the longest message exactly and two of the shortest, and the kernel stops
in the middle of each. A byte of 8 values makes -1 and 9 take both bytes of an
integer. One of the names of `accounts` is too long for the insert.

**Where a run may stop.** `CHECK_DEADLOCK FALSE` is used where the process may
end at a NULL pointer or where the connections of the instance are used up; in
the other runs deadlock is checked.

**Fairness** (`Rooms!Fairness`). A called function returns, so the frames of
the stack, `Return` and `TickNext` are weakly fair. The main loop alternates
`RunOnTick` and one `ReceiveMessage`, which handles finitely many messages:
`Tick` gets its turn although messages keep enabling other actions, which is
strong fairness. The clock advances: `LoadingTimePasses` likewise. Nothing is
assumed of clients.

`TcpRecv!Fairness`: epoll is level-triggered, so a connection with bytes is read
again (weak fairness of the handler), and the heartbeat is due between two calls
of `ReceiveMessage` (strong, since messages keep making the connection busy).
`TcpSend!Fairness`: `SendData` never waits, SYN calls it for every frame of a
game, and the client reads. `Accounts!FairSpec`: handlers return, and a client
that is not logged in keeps trying, also when others make requests in between.

### What the violations show

*Stale player ids* (`rooms_stale`). A joins a waiting room; the room detail is
taken, and the broadcast starts. The write to an earlier player fails; the
nested `DeletePlayer` moves the seats up and sends everyone the new detail. The
outer loop continues and sends the remaining players the old one. The owner
then starts the game, after which no detail is sent any more, and a player's
last known `player_id` is another player's seat.

*A room that is never deleted* (`rooms_ghost`). `GameEndFromRoom` removes the
user from `belong_room_` before `Room::GameEnd` finds that the room is not in a
game. The seat stays online; when the user logs out, `OnExit` finds no room.
`m_online_player_cnt` never reaches 0.

*A user number as a descriptor* (`session_relogin`). A client that is logged in
sends CSLogin for another account. `ReceiveMessage` passes the user's number
where MP_CSLogin expects a descriptor, and `PlayerLogin` stores it: messages to
the new user go to the connection whose descriptor has that number, if any.

### What holds only under a condition

* `RoomKnownUntil` and `StartsLoadedUntil` hold until the first failed write. For
  the first see `rooms_stale`. For the second: `DeletePlayer` on a loaded player
  of a loading room broadcasts before it decrements `m_loading_succeed_cnt`, and
  an exit nested in that broadcast compares the old count.
* `PlayerOrderUntil` holds until calls of `Run` are more than one frame (20 ms)
  apart. With two frames between them, a late operation goes to the head slot, whose
  frame is before that of an operation sent earlier. An exit or a choice of role,
  stamped with the server's frame, may also overtake an operation that is stamped ahead.
* `OwnFrame`, the main part of `OnSchedule`, needs a ring longer than the delay
  plus the larger of one stall plus the frames a client may be ahead, and two
  stalls (one before Run, one inside it). With 64 slots and a delay of 3 that is
  30 frames, or 0.6 s.
* `InBounds` needs clients that number frames from 1 and send operations in
  games only.
* The loading part of `RoomCounts` holds once `SendGameLoading` has set the fields,
  that is while the room loads or is in a game.
* `TeamFollowsPlayer` is about the team mode in which teams are chosen. In the
  other, `ChangeTeamID` accepts a team as well, and it stays with the seat when
  the players move up.
* `RingRight` is about messages that got a slot: `SYN::Add` drops one for which
  there is none.
* `ScanRight` says that the iterator stays valid for deletions that delete no
  other client.
* `TablesRight` and `OwnConnection` need clients that log in once per connection.
* `Delivered`: a message longer than `MAX_MESSAGE_LEN` stops its connection until
  the heartbeat drops it.
* `SendFlushed` needs further messages to the same client. In the lobby the end of
  a message may stay in the buffer until someone causes another one.
* A hang-up that was reported for a connection deleted earlier in the same batch
  deletes the new connection on its descriptor; no table is wrong afterwards.

## 4. Proofs

Each theorem has the form `Spec => []P` for every value of the constants that
the module's own assumption allows, unless a hypothesis is named below. TLC
evaluates the assumptions in the runs. Every proof has one lemma per action, on
lemmas about the operators the action is built from.

### Rooms

From `ConstantsAssumption` alone: any set of users, number of rooms and seats,
any outcome of every write.

    IInv == TypeOK, RoomCounts, MemberHasSeat, FreeRoomsApart,
            PendingRoomsExist, JoinRoomNeverNull

None of the last four is inductive alone. That `MP_CSJoinRoom` finds its room
again (`JoinRoomFound`) rests on `PendingRoomsExist`: rooms are erased by
the tick only, when the stack is empty. That a pending call's room exists rests
on `MemberHasSeat` for the calls that start from a user's room. `MemberHasSeat`
needs `RoomCounts` when a room is erased (no online seat, hence no member) and
when seats move up (in a waiting room the online seats are exactly the first
`m_player_cnt`, so each member keeps one), and `FreeRoomsApart` when a room is
created from the queue. `RoomCounts` compares the counters with cardinalities
and uses the finiteness of the set of seats. Its part about loaded seats holds
where the room no longer waits, and `SendGameStart` sets the status without
looking at it again after its broadcast. So a second invariant is proved with
`IInv`: `StartInv`, the room of a start under way does not wait. It holds because
only `SendGameStart` pushes one (`StartCalls`, `StartNew`), in a loading room, and
a room waits again only when `CreateRoom` initialises it, between two handlers
(`WaitsAgain`). Theorems: `TypeCorrect`,
`MembersSeated`, `CountsCorrect`, `FreeRoomsUnused`, `PendingRoomsSafe`,
`JoinRoomFound`. The same invariant gives the action property `TeamStays`:
when somebody leaves a waiting room, `FirstSeat` moves up together with its team
(`TeamWhenLeft`), and nobody else's steps touch it.

`TablesCorrect` states `TablesAgree` under the hypothesis
`GameEndIn \subseteq {"ingame"}`: clients send `CSGameEnd` in games only. Run
`rooms_ghost` shows what happens when they do not. `TablesAgree` is about the
moments between two handlers. Its invariant `TInv` has to say what is true inside
them, where a failed write may have started a deletion inside another one.

* `SeatsInv`: every online seat of a room in `rooms_` has a member of that room,
  and no member has two. This holds at every step: `DeletePlayer` frees the seat
  in the same step in which `belong_room_` loses its entry.
* `UsersInv`: sessions, persons and `belong_room_` agree except for the users whom
  a call on the stack has still to finish with: a user without a session has a
  `Person` only while `personGone` is on the stack for him, one who is "in room"
  without being in a room only while `leftWaiting` is.
* `EndInv`: the call `gameEndFrom` that `MP_CSGameEnd` leaves behind its reply
  finds its user in a game, or in no room any more. This needs `Bottom`: that call
  and `loadingSet` are made by the handler itself, so no room begins to load
  between the reply and `GameEndFromRoom`.

Most calls neither move anybody nor push or return from one of these calls
(`Neutral`); `QuietStep` treats them all at once.

`ExitsAnnounced` states `ExitsTold` under that hypothesis and
`SendResult \subseteq {"ok", "error"}`: a write arrives or fails. A message that is
lost in a full send buffer is never sent again, so without the second hypothesis
the property is false. The difficulty is a broadcast of an exit during which a write
fails: the deletion starts a broadcast of its own inside the first one, which still
has to visit the later seats. `XInv`, from `IInv` and `TInv`, describes the calls under
way by what they will tell.

* `ExitsInv`: for every member of a loading room and every seat that is offline there,
  the member was told, or is about to be deleted, or a broadcast of that exit is on
  the stack and has not yet passed the member's seat (`Informed`).
* `ToldFits`: nobody was told of a seat that is not offline in his room. A new member
  enters a waiting room only, where all seats are online.
* `CallsFit`: a broadcast of an exit on the stack is about a seat that is offline;
  `loadingSet` finds a waiting room, and `startSet` one that is not.

With an empty stack `Informed` leaves only the first case. Steps that neither
announce nor delete (`Calm`) are treated at once (`CalmStep`), and every way to leave
a room goes through `LeaveExits`.

The last two theorems are about `RoomsWrites`. `failed` becomes TRUE when a send deletes
its client, and until then the calls under way are simple: `Rank` orders them, a
broadcast before what is done after it, that before the end of a deletion, and the loop of
`Room::OnTick` last. `Sorted(stack)` says that no call is nested in one of its own
rank; only a failed write can do that. So no broadcast is interrupted by another one,
except that `SCPlayerExitRoom`, which `MP_CSPlayerExitRoom` sends, comes after all the others.

`StartsLoaded` states `StartsLoadedUntil` under `GameEndIn \subseteq {"ingame"}`;
messages may get lost. `failed \/ (Sorted(stack) /\ LInv)` is its invariant:

* `LoadedInv`: who counts as loaded in a loading room is online, or is the one
  player whose exit is being broadcast (`Leaving`), where the count is one too high.
* `CallsLoaded`: that player is offline already; whoever starts a game
  (`gameStart`, `startSet`) has found everybody loaded; and the loop of
  `Room::OnTick` has deleted everyone it has passed who had not.

A game is started by the last CSLoadSucceed, by the exit of the last one who had not
loaded, or by the timeout. Without `Sorted` a second exit may compare the count that the
first one has not corrected yet.

`RoomKnown` states `RoomKnownUntil` under that hypothesis and
`SendResult \subseteq {"ok", "error"}`, because a lost message is never sent again.
`failed \/ (Sorted(stack) /\ KInv)` is its invariant:

* `UsersKnow`: every user in a room knows its phase, its detail while it waits,
  and his own seat, or a call under way will still tell him (`Reaches`,
  `TellsDetail`). The phase meant is the one the room has once the calls under way
  are over (`Coming`), since `SCGameLoading` and `SCGameStart` go out before
  the status changes.
* `CallsTell`: what the messages under way tell is true by then. A detail is taken
  before its broadcast starts, so this needs that no seat moves in between.

A broadcast that a user has been passed by has told him; one that has not reached his
seat will. An empty stack leaves what was told (`KnownWhenIdle`).

### Heartbeat

From `HeartbeatAssumption`. The invariant is `MapsRight` with `TimesInv` (no
heartbeat is in the future), `FreshInv` (between two scans nobody is connected who was
silent at the last one), `ScanInv` (in a scan the iterator is at the first pair) and
`SilentDropped`. A scan stops at a pair that is younger than the timeout; the pairs are
ordered by their second, so all the others are younger still, and that is `FreshInv`
again. Theorems: `MapsCorrect`, `SilentAreDropped`, and the action property
`ScanCorrect`.

### Accounts

The invariant adds to `SessionsRight` that rows are numbered by their count
(`RowsInv`) and what each query of the request in progress may rely on (`ReqInv`): an
insert is made for a name without a row, the last query for a row with the
client's password. Theorems: `SessionsCorrect` and the action property `AccountsStay`.

### Session

Under `~Relogin`: a client logs in once per connection; `session_relogin` shows
that the tables go wrong otherwise. `TablesRight`, `SocketPool` and `OwnConnection` are
inductive only together. The part that makes them so is `PendingLogouts`: each call
of `PlayerLogout` on the stack is of another user, whose Person is still there and
whose descriptor still has his entry and no client. Theorems: `TablesCorrect`,
`PoolCorrect`, `MessagesReachOwner`.

### TcpSend and TcpRecv

`TcpSendProofs` is for any set of messages that fit the buffer, any sizes and any
kernel. The invariant (`StreamInv`) says that there are positions, one for each
message that waits, such that the bytes of the kernel followed by those of the
buffer are these messages one after the other, and after them the part of its
argument that `SendData` has handed over. Moves between buffer and kernel change
where a byte is and not its position; this gives `SendImplementsStream`.
`RestAlwaysFits` is the type invariant of `TcpSend` and `AlwaysFits`.

`TcpProofs` has the same argument for the receiving half, where the positions are
those of the messages not yet handled and the bytes those of the buffer followed by
those of the kernel, through moves of the buffer to its front and reuse of the object
with the old bytes in it (`BytesIntact`, `NoDisconnectByMistake`). The theorems on
`MC_Tcp` (`BuffersCorrect`, `LostOnlyIfFull`, `StreamsImplemented`) combine both:
receiving is general there, sending has the three messages of the instance, since it is
the instance that joins them.

### Syn

For all constants, `RingCorrect`, `FramesCorrect` and `GamesApart`, by an invariant
of four parts: types, the shape of a call of `Run` (`Shape`), the frames that went out
are consecutive and below the head frame (`Framed`), and each message of the game is
in one slot or in one broadcast, never both (`Once`). How far the clock and the
head frame are apart at each point of `Run` is `Timed`. The other theorems have
hypotheses on the environment:

* `NeverOutside`: `ClientsFollow`, clients number frames from 1 and send operations
  in games only.
* `ScheduleKept` and `SynImplementsTimeline`: `RingFits`, that is
  `AllowedDelay + MaxStall + AllowedAhead < BufferSize` and
  `AllowedDelay + 2 * MaxStall < BufferSize`. With the sizes of the code a stall may
  take 30 frames, 0.6 s. From `Timed` it follows that a slot stands for one frame, so
  each message is in the slot of its frame (`InSlot`).
* `OperationsInOrder`: `RingFits`. Within a frame operations keep their order
  (`FrameOrder`), and until calls of `Run` are more than a frame apart a later
  operation of a player is not due before an earlier one (`DueOrder`).

### CMessage

`HandlersFit`: the type and the handler of an id were entered by the same static
object, whatever the order and however often an id occurs (`RegisterAgrees`).
`MemoryCorrect` is for a ring of any size: whatever is allocated has one owner among
slots and local objects, which own nothing else (`Own`); at most two objects are
nested, the inner one to be added (`Nested`); a slot in use has a message
(`Filled`). Since at most two objects are outside the ring, the numbers that the model
has for messages suffice and `new` always finds a free one.

### Only model-checked, and why

* Liveness (`LoadingEnds`, `EmptyRoomErased`, `Delivered`, `SendFlushed`,
  `OwnerGetsIn`): out of the prover's reach.
* `HandledRight` and `SentDecodes`: that decoding undoes encoding is an induction
  over the digits of a number, which the prover cannot do.

## 5. Not modelled

Protobuf, vendored and generated, except for what the server sees of it; MySQL,
except for the rows; the socket helpers of `Include/server_socket.cpp`, of which
only `set_non_block` is called; `ReadyForListen`, which runs once before
anything can happen; build files. The content of in-game operations and of the
room list is left out: nothing in the server depends on it. How long an encoded
message can get, which `CMessage::encode` does not test against the 4096 bytes
of `send_data_`, depends on that content and is not modelled either. A write to
a connection whose other end is gone is an error of `send()`; that the process
would get SIGPIPE is left out.

## 6. Plan

Done: all components above, each with its runs; the proofs of section 4. What is
left has no run of its own yet: the length of an encoded message (section 5) would need a
model of the room list, and after a failed write it is open what weaker promise about
the players' knowledge still holds.
