------------------------------- MODULE Rooms -------------------------------
(***************************************************************************)
(* The rooms of the Island Survival server: RoomManager, Room,             *)
(* PersonManager and the room side of MessageHandler, driven by the        *)
(* CS* message handlers and by the tick of the main loop.                  *)
(*                                                                         *)
(* The process has one thread, yet its functions interleave: whenever a    *)
(* write to a client fails, MessageHandler::SendMessageToClient deletes    *)
(* that client on the spot, and the deletion runs Room::DeletePlayer of    *)
(* the client's room in the middle of whatever was sending (a broadcast    *)
(* of the same room, another deletion, a game start).  The specification   *)
(* keeps the call stack explicitly: a handler leaves on `stack` the calls  *)
(* it has still to make, every step executes the top frame up to its next  *)
(* send, and a failed send pushes the deletion on top of the rest.         *)
(*                                                                         *)
(* Data that no room operation looks at (names, game_mode, the random      *)
(* seed, message layout) is left out.  Entries of the C arrays beyond      *)
(* m_player_cnt are never read before they are written again and are kept  *)
(* at a fixed value.                                                       *)
(***************************************************************************)
EXTENDS Integers, Sequences, FiniteSets

CONSTANTS
    User,        \* the user ids of the accounts that log in
    NoUser,      \* no user; also the name "default" of an unknown person
    MaxRoom,     \* bound: rooms ever allocated (s_room_id is unbounded)
    MaxPlayer,   \* max_player_cnt (8 in room.h)
    TeamMode,    \* the team_mode values clients ask for
    TeamId,      \* the team ids clients ask for in CSChangeTeam
    GameOption,  \* the game_option values clients ask for
    Unset,       \* what the fields that nobody sets in a new Room may hold
    SendResult,  \* the outcomes of TcpSocket::SendData that may happen
    GameEndIn    \* the room statuses in which clients send CSGameEnd

ASSUME ConstantsAssumption ==
    /\ NoUser \notin User
    /\ MaxRoom \in Nat \ {0}
    /\ MaxPlayer \in Nat \ {0}
    /\ TeamMode \subseteq {1, 2}
    /\ TeamId \subseteq Nat
    /\ GameOption \subseteq Nat
    /\ Unset \subseteq [is_loading_succeed : SUBSET (1..MaxPlayer),
                       loading_succeed_cnt : Int, late : BOOLEAN]
    /\ SendResult \subseteq {"ok", "lost", "error"}
    /\ GameEndIn \subseteq {"waiting", "loading", "ingame"}

VARIABLES
    sess,      \* the users of MessageHandler::m_user_id_to_fd
    person,    \* PersonManager::m_user_id_to_person: m_status, or "none"
    belong,    \* RoomManager::belong_room_ (0: no entry)
    rooms,     \* the keys of RoomManager::rooms_
    freeRoom,  \* RoomManager::m_free_room, the queue of emptied rooms
    nextRoom,  \* s_room_id, counted from 1
    room,      \* the Room objects
    told,      \* what each user was sent about the room he is in (history)
    stack,     \* the calls still to be made, the innermost first
    serving,   \* the user whose message ReceiveMessage is handling
    ticking,   \* the room RoomManager::OnTick is at (0: not in OnTick)
    crashed    \* "no", or the NULL dereference that ended the process

vars == <<sess, person, belong, rooms, freeRoom, nextRoom, room, told,
          stack, serving, ticking, crashed>>

Room   == 1..MaxRoom
Seat   == 1..MaxPlayer
Status == {"waiting", "loading", "ingame"}
Team   == TeamId \cup 0..MaxPlayer
Option == GameOption \cup {10}
Occupant == User \cup {NoUser}

-----------------------------------------------------------------------------
(* The Room object and the messages that describe it. *)

\* The fields of class Room.  `late` is the test of Room::OnTick,
\* GetNowTimeSecond() - m_loading_time_second >= max_loading_time_second.
RoomRec ==
    [players : [Seat -> Occupant], team_id : [Seat -> Team],
     player_cnt : 0..MaxPlayer, is_online : SUBSET Seat,
     online_player_cnt : Int, is_loading_succeed : SUBSET Seat,
     loading_succeed_cnt : Int, status : Status, team_mode : {1, 2},
     game_option : Option, late : BOOLEAN]

\* Room::Init of the room q: what the last game, or a new object, has in the
\* fields of the loading phase stays there until SendGameLoading.
InitRoom(q, team_mode) ==
    [players |-> [i \in Seat |-> NoUser], team_id |-> [i \in Seat |-> 0],
     player_cnt |-> 0, is_online |-> {}, online_player_cnt |-> 0,
     is_loading_succeed |-> q.is_loading_succeed,
     loading_succeed_cnt |-> q.loading_succeed_cnt,
     status |-> "waiting", team_mode |-> team_mode,
     game_option |-> 10, late |-> q.late]

\* The seats GetPlayerID(user_id) may answer with: it takes the first.
SeatsOf(q, u) == {i \in 1..q.player_cnt : i \in q.is_online /\ q.players[i] = u}

\* Room::GetPlayerID
GetPlayerID(q, u) ==
    IF SeatsOf(q, u) = {} THEN 0
    ELSE CHOOSE i \in SeatsOf(q, u) : \A j \in SeatsOf(q, u) : i <= j

\* The content of SCPullOneRoomDetail: who sits where, in which team.
Entry  == [player : Occupant, team : Team, player_id : Seat]
Detail == [entries : SUBSET Entry, game_option : Option]
NoDetail == [entries |-> {}, game_option |-> 10]

\* PersonManager::GetPersonName
GetPersonName(u) == IF u \in User /\ person[u] # "none" THEN u ELSE NoUser

\* Room::GetDetailInfo
GetDetailInfo(q) ==
    [entries |-> {[player |-> GetPersonName(q.players[i]),
                   team |-> q.team_id[i], player_id |-> i]
                     : i \in {j \in q.is_online : j <= q.player_cnt}},
     game_option |-> q.game_option]

\* The messages the server sends, by what the room logic tells apart.
MsgId == {"SCLogin", "SCCreateRoom", "SCCreateRoomFailed", "SCJoinRoom",
          "SCJoinRoomFailed", "SCPullAllRoomInfo", "SCPullOneRoomDetail",
          "SCPlayerExitRoom", "SCGameLoading", "SCGameStart",
          "SCPlayerExitGame", "SCFrameMess", "SCGameEnd"}
Msg == [id : MsgId, detail : Detail, player : 0..MaxPlayer]

Message(id)   == [id |-> id, detail |-> NoDetail, player |-> 0]
DetailMsg(d)  == [id |-> "SCPullOneRoomDetail", detail |-> d, player |-> 0]
ExitGameMsg(i) == [id |-> "SCPlayerExitGame", detail |-> NoDetail, player |-> i]

\* What a client has been told since it entered its room: the phase, the
\* last room detail and the players announced to have left the game.
Phase == {"none", "waiting", "loading", "ingame"}
Told  == [phase : Phase, detail : Detail, exits : SUBSET Seat]
Untold == [phase |-> "none", detail |-> NoDetail, exits |-> {}]

\* A client receives a message (the client program is not in the repository).
Receive(t, m) ==
    [phase  |-> CASE m.id \in {"SCCreateRoom", "SCJoinRoom"} -> "waiting"
                  [] m.id = "SCGameLoading" -> "loading"
                  [] m.id = "SCGameStart"   -> "ingame"
                  [] OTHER                  -> t.phase,
     detail |-> IF m.id = "SCPullOneRoomDetail" THEN m.detail ELSE t.detail,
     exits  |-> IF m.id = "SCPlayerExitGame" THEN t.exits \cup ({m.player} \cap Seat)
                                             ELSE t.exits]

-----------------------------------------------------------------------------
(* The call stack. *)

Op == {"send", "everyone", "createDetail", "joinDetail", "deleteClient",
       "personGone", "leftWaiting", "leftLoading", "loadingSet", "gameStart",
       "startSet", "onTick", "kick", "gameEndFrom"}
RoomOp == {"everyone", "joinDetail", "leftLoading", "loadingSet", "gameStart",
           "startSet", "onTick", "kick"}
UserOp == {"personGone", "leftWaiting", "gameEndFrom"}
Frame == {f \in [op : Op, room : 0..MaxRoom, user : Occupant,
                 seat : 0..MaxPlayer + 1, msg : Msg] :
            /\ f.op \in RoomOp => f.room \in Room
            /\ f.op \in UserOp => f.user \in User}

Call(op, r, u, i, m) ==
    [op |-> op, room |-> r, user |-> u, seat |-> i, msg |-> m]
NoMsg == Message("SCLogin")

Send(u, m)         == Call("send", 0, u, 0, m)
Everyone(r, m)     == Call("everyone", r, NoUser, 1, m)
RoomCall(op, r)    == Call(op, r, NoUser, 0, NoMsg)
UserCall(op, r, u) == Call(op, r, u, 0, NoMsg)
SeatCall(op, r, i) == Call(op, r, NoUser, i, NoMsg)

\* The main loop is between two handlers.
Idle == crashed = "no" /\ stack = <<>> /\ serving = NoUser /\ ticking = 0

\* The frame on top is a call of op.
Top(op) == crashed = "no" /\ stack # <<>> /\ Head(stack).op = op

-----------------------------------------------------------------------------
(* The operations of Room, on the Room object. *)

\* Mutant: the team of a new player is the number of the next seat.
AddPlayer_NextTeam(q, u) ==
    LET n == q.player_cnt + 1 IN
    [q EXCEPT !.player_cnt = n,
              !.online_player_cnt = q.online_player_cnt + 1,
              !.players = [q.players EXCEPT ![n] = u],
              !.team_id = [q.team_id EXCEPT ![n] = IF q.team_mode = 1 THEN n + 1 ELSE 1],
              !.is_online = q.is_online \cup {n}]

\* Room::AddPlayer, its two refusals being guards of the callers
AddPlayer(q, u) ==
    LET n == q.player_cnt + 1 IN
    [q EXCEPT !.player_cnt = n,
              !.online_player_cnt = q.online_player_cnt + 1,
              !.players = [q.players EXCEPT ![n] = u],
              !.team_id = [q.team_id EXCEPT ![n] = IF q.team_mode = 1 THEN n ELSE 1],
              !.is_online = q.is_online \cup {n}]

\* Mutant: the loop stops one seat too early.
ShiftPlayers_OffByOne(q, pos) ==
    [i \in Seat |-> IF i = q.player_cnt THEN NoUser
                    ELSE IF pos <= i /\ i + 1 < q.player_cnt THEN q.players[i + 1]
                    ELSE q.players[i]]

\* The loop of Room::DeletePlayer over m_players: later seats move up by one.
ShiftPlayers(q, pos) ==
    [i \in Seat |-> IF i = q.player_cnt THEN NoUser
                    ELSE IF pos <= i /\ i < q.player_cnt THEN q.players[i + 1]
                    ELSE q.players[i]]

\* Mutant: the team ids stay with the seats in every team mode.
ShiftTeams_Stay(q, pos) ==
    [i \in Seat |-> IF i = q.player_cnt THEN 0 ELSE q.team_id[i]]

\* The same loop over m_team_id, moved only where teams are chosen.
ShiftTeams(q, pos) ==
    [i \in Seat |-> IF i = q.player_cnt THEN 0
                    ELSE IF q.team_mode = 2 /\ pos <= i /\ i < q.player_cnt
                    THEN q.team_id[i + 1] ELSE q.team_id[i]]

\* Room::DeletePlayer in a waiting room
ShiftSeats(q, pos) ==
    [q EXCEPT !.players = ShiftPlayers(q, pos),
              !.team_id = ShiftTeams(q, pos),
              !.is_online = q.is_online \ {q.player_cnt},
              !.player_cnt = q.player_cnt - 1,
              !.online_player_cnt = q.online_player_cnt - 1]

\* Room::DeletePlayer in a loading room or in a game: the seat stays.
SeatOffline(q, pos) ==
    [q EXCEPT !.is_online = q.is_online \ {pos},
              !.online_player_cnt = q.online_player_cnt - 1]

\* Mutant: a player who leaves a game keeps his seat.
DeletePlayer_NotInGame(q, pos) ==
    CASE q.status = "waiting" -> ShiftSeats(q, pos)
      [] q.status = "loading" -> SeatOffline(q, pos)
      [] OTHER -> q

\* Room::DeletePlayer up to its broadcast
DeletePlayer(q, pos) ==
    IF q.status = "waiting" THEN ShiftSeats(q, pos) ELSE SeatOffline(q, pos)

\* Mutant: the detail is taken before the player is removed.
LeaveDetail_Stale(r, pos) == DetailMsg(GetDetailInfo(room[r]))

\* The SCPullOneRoomDetail of Room::DeletePlayer in a waiting room
LeaveDetail(r, pos) == DetailMsg(GetDetailInfo(ShiftSeats(room[r], pos)))

\* What Room::DeletePlayer still does: broadcast, then finish.  In a game the
\* exit is handed to the room's SYN, which sends it with a later frame.
DeletePlayerCalls(r, u, pos) ==
    CASE room[r].status = "waiting" ->
           <<Everyone(r, LeaveDetail(r, pos)), UserCall("leftWaiting", 0, u)>>
      [] room[r].status = "loading" ->
           <<Everyone(r, ExitGameMsg(pos)), SeatCall("leftLoading", r, pos)>>
      [] OTHER -> <<>>

-----------------------------------------------------------------------------
(* MessageHandler and RoomManager operations that the frames share. *)

\* PersonManager::ChangePersonStatus with Person::ChangeStatus
ChangePersonStatus(u, s) ==
    person' = [person EXCEPT ![u] = IF person[u] = "none" THEN "none" ELSE s]

\* MessageHandler::SendMessageToClient; then the calls `rest`.  A message may
\* arrive, get lost in a full send buffer, or fail and delete the client.
SendMessageToClient(u, m, rest) ==
    /\ IF u \notin sess
       THEN stack' = rest /\ UNCHANGED told
       ELSE \E res \in SendResult :
              /\ told' = IF res = "ok" THEN [told EXCEPT ![u] = Receive(told[u], m)]
                                       ELSE told
              /\ stack' = IF res = "error" THEN <<UserCall("deleteClient", 0, u)>> \o rest
                                           ELSE rest
    /\ UNCHANGED <<sess, person, belong, rooms, freeRoom, nextRoom, room,
                   serving, ticking, crashed>>

\* RoomManager::DeletePlayerFromRoom; then the calls `rest`
DeletePlayerFromRoom(u, rest) ==
    /\ belong' = [belong EXCEPT ![u] = 0]
    /\ told' = [told EXCEPT ![u] = Untold]
    /\ LET r   == belong[u]
           pos == IF r = 0 THEN 0 ELSE GetPlayerID(room[r], u)
       IN  IF pos = 0 THEN stack' = rest /\ UNCHANGED room
           ELSE /\ room' = [room EXCEPT ![r] = DeletePlayer(room[r], pos)]
                /\ stack' = DeletePlayerCalls(r, u, pos) \o rest

-----------------------------------------------------------------------------
(* The frames: one action each. *)

\* SendMessageToClient called directly by a handler
DoSend ==
    /\ Top("send")
    /\ SendMessageToClient(Head(stack).user, Head(stack).msg, Tail(stack))

\* Mutant: the loop leaves out the last seat.
Remaining_SkipLast(q, i) == {j \in i..q.player_cnt - 1 : j \in q.is_online}

\* The seats a broadcast that has reached seat i has still to visit.
Remaining(q, i) == {j \in i..q.player_cnt : j \in q.is_online}

\* Room::SendMessageToEveryone: the loop reads m_player_cnt, m_is_online and
\* m_players afresh at every turn, after what the previous send has done.
DoEveryone ==
    /\ Top("everyone")
    /\ LET f  == Head(stack)
           q  == room[f.room]
           on == Remaining(q, f.seat)
       IN  IF on = {}
           THEN /\ stack' = Tail(stack)
                /\ UNCHANGED <<sess, person, belong, rooms, freeRoom, nextRoom,
                               room, told, serving, ticking, crashed>>
           ELSE LET j == CHOOSE j \in on : \A k \in on : j <= k
                IN  SendMessageToClient(q.players[j], f.msg,
                      <<Call("everyone", f.room, NoUser, j + 1, f.msg)>> \o Tail(stack))

\* MP_CSCreateRoom after its first reply, with RoomManager::GetDetailRoomInfo
DoCreateDetail ==
    /\ Top("createDetail")
    /\ LET f == Head(stack)
           d == IF f.room \in rooms THEN GetDetailInfo(room[f.room]) ELSE NoDetail
       IN  stack' = <<Send(f.user, DetailMsg(d))>> \o Tail(stack)
    /\ UNCHANGED <<sess, person, belong, rooms, freeRoom, nextRoom, room, told,
                   serving, ticking, crashed>>

\* Mutant: the room is looked up by the user, who may be gone by now.
JoinedRoom_ByUser == belong[serving]

\* The room_id with which MP_CSJoinRoom looks the room up again
JoinedRoom == Head(stack).room

\* MP_CSJoinRoom after its reply: GetRoomByRoomID is used without a NULL test
DoJoinDetail ==
    /\ Top("joinDetail")
    /\ LET r == JoinedRoom
       IN  IF r \in rooms
           THEN /\ stack' = <<Everyone(r, DetailMsg(GetDetailInfo(room[r])))>> \o Tail(stack)
                /\ UNCHANGED crashed
           ELSE crashed' = "join" /\ UNCHANGED stack
    /\ UNCHANGED <<sess, person, belong, rooms, freeRoom, nextRoom, room, told,
                   serving, ticking>>

\* MessageHandler::DeleteClientByFD, PlayerLogout and PersonLogout up to the
\* end of Person::OnExit
DoDeleteClient ==
    /\ Top("deleteClient")
    /\ LET u    == Head(stack).user
           rest == <<UserCall("personGone", 0, u)>> \o Tail(stack)
       IN  IF u \notin sess
           THEN stack' = Tail(stack) /\ UNCHANGED <<sess, belong, room, told>>
           ELSE /\ sess' = sess \ {u}
                /\ IF person[u] = "room"
                   THEN DeletePlayerFromRoom(u, rest)
                   ELSE stack' = rest /\ UNCHANGED <<belong, room, told>>
    /\ UNCHANGED <<person, rooms, freeRoom, nextRoom, serving, ticking, crashed>>

\* PersonManager::PersonLogout after OnExit: the Person is deleted
DoPersonGone ==
    /\ Top("personGone")
    /\ person' = [person EXCEPT ![Head(stack).user] = "none"]
    /\ stack' = Tail(stack)
    /\ UNCHANGED <<sess, belong, rooms, freeRoom, nextRoom, room, told, serving,
                   ticking, crashed>>

\* Room::DeletePlayer, end of the waiting case
DoLeftWaiting ==
    /\ Top("leftWaiting")
    /\ ChangePersonStatus(Head(stack).user, "hall")
    /\ stack' = Tail(stack)
    /\ UNCHANGED <<sess, belong, rooms, freeRoom, nextRoom, room, told, serving,
                   ticking, crashed>>

\* Mutant: one player too few is waited for.
EveryoneLoaded_OffByOne(q) == q.loading_succeed_cnt + 1 >= q.online_player_cnt

\* The test that starts a game, in AddLoadingSucceed and in DeletePlayer
EveryoneLoaded(q) == q.loading_succeed_cnt >= q.online_player_cnt

\* Room::DeletePlayer, end of the loading case: only now is the departed
\* player taken out of the count of loaded players
DoLeftLoading ==
    /\ Top("leftLoading")
    /\ LET r == Head(stack).room
           i == Head(stack).seat
           q == room[r]
       IN  IF i \in q.is_loading_succeed
           THEN /\ room' = [room EXCEPT ![r] =
                      [q EXCEPT !.is_loading_succeed = q.is_loading_succeed \ {i},
                                !.loading_succeed_cnt = q.loading_succeed_cnt - 1]]
                /\ stack' = Tail(stack)
           ELSE /\ stack' = IF EveryoneLoaded(q)
                            THEN <<RoomCall("gameStart", r)>> \o Tail(stack)
                            ELSE Tail(stack)
                /\ UNCHANGED room
    /\ UNCHANGED <<sess, person, belong, rooms, freeRoom, nextRoom, told, serving,
                   ticking, crashed>>

\* Mutant: the count is not reset.
LoadingRoom_NoCount(q) ==
    [q EXCEPT !.status = "loading", !.is_loading_succeed = {}, !.late = FALSE]

\* The state Room::SendGameLoading leaves once its broadcast is over
LoadingRoom(q) ==
    [q EXCEPT !.status = "loading", !.loading_succeed_cnt = 0,
              !.is_loading_succeed = {}, !.late = FALSE]

\* Room::SendGameLoading, after its broadcast
DoLoadingSet ==
    /\ Top("loadingSet")
    /\ LET r == Head(stack).room
       IN  room' = [room EXCEPT ![r] = LoadingRoom(room[r])]
    /\ stack' = Tail(stack)
    /\ UNCHANGED <<sess, person, belong, rooms, freeRoom, nextRoom, told, serving,
                   ticking, crashed>>

\* Room::SendGameStart up to its broadcast
DoGameStart ==
    /\ Top("gameStart")
    /\ LET r == Head(stack).room
       IN  stack' = IF room[r].status # "loading" THEN Tail(stack)
                    ELSE <<Everyone(r, Message("SCGameStart")),
                           RoomCall("startSet", r)>> \o Tail(stack)
    /\ UNCHANGED <<sess, person, belong, rooms, freeRoom, nextRoom, room, told,
                   serving, ticking, crashed>>

\* Room::SendGameStart after its broadcast (SYN::Init is in module Syn)
DoStartSet ==
    /\ Top("startSet")
    /\ LET r == Head(stack).room
       IN  room' = [room EXCEPT ![r] = [room[r] EXCEPT !.status = "ingame"]]
    /\ stack' = Tail(stack)
    /\ UNCHANGED <<sess, person, belong, rooms, freeRoom, nextRoom, told, serving,
                   ticking, crashed>>

\* The players Room::OnTick has still to kick from seat i on
NotLoaded(q, i) ==
    {j \in i..q.player_cnt : j \in q.is_online /\ j \notin q.is_loading_succeed}

\* Mutant: the loading time is never looked at.
LoadsTooLong_Never(q) == FALSE

\* The two tests of Room::OnTick on a loading room
LoadsTooLong(q) == q.status = "loading" /\ q.late

\* Room::OnTick.  In a game SYN::Run sends the frames that are due: modelled
\* by no broadcast or one, since only which sends fail matters here.
DoOnTick ==
    /\ Top("onTick")
    /\ LET r == Head(stack).room
           q == room[r]
       IN  \/ /\ LoadsTooLong(q)
              /\ stack' = <<SeatCall("kick", r, 1)>> \o Tail(stack)
           \/ /\ q.status = "ingame"
              /\ stack' = <<Everyone(r, Message("SCFrameMess"))>> \o Tail(stack)
           \/ /\ ~LoadsTooLong(q)
              /\ stack' = Tail(stack)
    /\ UNCHANGED <<sess, person, belong, rooms, freeRoom, nextRoom, room, told,
                   serving, ticking, crashed>>

\* The loop of Room::OnTick that drops the players who load too slowly, with
\* MessageHandler::DeleteClientByUserID, and the SendGameStart after it
DoKick ==
    /\ Top("kick")
    /\ LET f == Head(stack)
           q == room[f.room]
           late == NotLoaded(q, f.seat)
           j == CHOOSE j \in late : \A k \in late : j <= k
       IN  stack' = IF late = {} THEN <<RoomCall("gameStart", f.room)>> \o Tail(stack)
                    ELSE <<UserCall("deleteClient", 0, q.players[j]),
                           SeatCall("kick", f.room, j + 1)>> \o Tail(stack)
    /\ UNCHANGED <<sess, person, belong, rooms, freeRoom, nextRoom, room, told,
                   serving, ticking, crashed>>

\* RoomManager::GameEndFromRoom and Room::GameEnd: the entry of belong_room_
\* goes before the room is asked for its status
DoGameEndFrom ==
    /\ Top("gameEndFrom")
    /\ LET u   == Head(stack).user
           r   == belong[u]
           pos == IF r = 0 THEN 0 ELSE GetPlayerID(room[r], u)
       IN  /\ belong' = [belong EXCEPT ![u] = 0]
           /\ told' = [told EXCEPT ![u] = Untold]
           /\ IF pos # 0 /\ room[r].status = "ingame"
              THEN /\ room' = [room EXCEPT ![r] = SeatOffline(room[r], pos)]
                   /\ ChangePersonStatus(u, "hall")
              ELSE UNCHANGED <<room, person>>
    /\ stack' = Tail(stack)
    /\ UNCHANGED <<sess, rooms, freeRoom, nextRoom, serving, ticking, crashed>>

-----------------------------------------------------------------------------
(* Messages from clients: the handlers, up to their first send. *)

\* ReceiveMessage hands a message of u to its handler, which calls `calls`.
Serve(u, calls) ==
    /\ Idle /\ u \in sess
    /\ serving' = u /\ stack' = calls
    /\ UNCHANGED <<sess, nextRoom, freeRoom, ticking, crashed>>

\* MP_CSLogin and MP_CSRegist for an account nobody is logged in to
CSLogin(u) ==
    /\ Idle /\ u \notin sess /\ person[u] = "none"
    /\ person' = [person EXCEPT ![u] = "hall"]
    /\ sess' = sess \cup {u}
    /\ serving' = u /\ stack' = <<Send(u, Message("SCLogin"))>>
    /\ UNCHANGED <<belong, rooms, freeRoom, nextRoom, room, told, ticking, crashed>>

\* MP_CSCreateRoom and RoomManager::CreateRoom
CSCreateRoom(u, team_mode) ==
    /\ Idle /\ u \in sess
    /\ serving' = u
    /\ IF belong[u] # 0
       THEN /\ stack' = <<Send(u, Message("SCCreateRoomFailed"))>>
            /\ UNCHANGED <<person, belong, rooms, freeRoom, nextRoom, room>>
       ELSE /\ freeRoom # <<>> \/ nextRoom <= MaxRoom
            /\ LET r == IF freeRoom # <<>> THEN Head(freeRoom) ELSE nextRoom
               IN  /\ IF freeRoom # <<>>
                      THEN freeRoom' = Tail(freeRoom) /\ UNCHANGED nextRoom
                      ELSE nextRoom' = nextRoom + 1 /\ UNCHANGED freeRoom
                   /\ belong' = [belong EXCEPT ![u] = r]
                   /\ rooms' = rooms \cup {r}
                   /\ room' = [room EXCEPT ![r] = AddPlayer(InitRoom(room[r], team_mode), u)]
                   /\ ChangePersonStatus(u, "room")
                   /\ stack' = <<Send(u, Message("SCCreateRoom")),
                                 UserCall("createDetail", r, u)>>
    /\ UNCHANGED <<sess, told, ticking, crashed>>

\* RoomManager::JoinRoom and Room::AddPlayer accept the user.
CanJoin(u, r) ==
    /\ r \in rooms /\ belong[u] = 0
    /\ room[r].status = "waiting" /\ room[r].player_cnt < MaxPlayer

\* MP_CSJoinRoom and RoomManager::JoinRoom (no reply to a user in a room)
CSJoinRoom(u, r) ==
    /\ r \notin rooms \/ belong[u] = 0
    /\ IF CanJoin(u, r)
       THEN /\ room' = [room EXCEPT ![r] = AddPlayer(room[r], u)]
            /\ belong' = [belong EXCEPT ![u] = r]
            /\ ChangePersonStatus(u, "room")
            /\ Serve(u, <<Send(u, Message("SCJoinRoom")), RoomCall("joinDetail", r)>>)
       ELSE /\ Serve(u, <<Send(u, Message("SCJoinRoomFailed"))>>)
            /\ UNCHANGED <<room, belong, person>>
    /\ UNCHANGED <<rooms, told>>

\* MP_CSPlayerExitRoom: GetRoomByUserID is used without a NULL test; the
\* reply goes to the players who are still in the room
CSPlayerExitRoom(u) ==
    LET r == belong[u]
        reply == <<Everyone(r, Message("SCPlayerExitRoom"))>>
    IN  /\ Idle /\ u \in sess
        /\ IF r = 0
           THEN crashed' = "exit" /\ UNCHANGED <<belong, room, told, stack, serving>>
           ELSE /\ serving' = u /\ UNCHANGED crashed
                /\ IF room[r].status = "waiting"
                   THEN DeletePlayerFromRoom(u, reply)
                   ELSE stack' = reply /\ UNCHANGED <<belong, room, told>>
        /\ UNCHANGED <<sess, person, rooms, freeRoom, nextRoom, ticking>>

\* MP_CSChangeTeam with Room::ChangeTeamID
CSChangeTeam(u, team) ==
    LET r == belong[u]
        pos == GetPlayerID(room[r], u)
        q == [room[r] EXCEPT !.team_id = [room[r].team_id EXCEPT ![pos] = team]]
    IN  /\ r # 0 /\ room[r].status = "waiting" /\ pos # 0
        /\ room' = [room EXCEPT ![r] = q]
        /\ Serve(u, <<Everyone(r, DetailMsg(GetDetailInfo(q)))>>)
        /\ UNCHANGED <<person, belong, rooms, told>>

\* MP_CSChangeTeam with Room::ChangeGameOption, which only the owner may use
CSChangeOption(u, option) ==
    LET r == belong[u]
        q == IF GetPlayerID(room[r], u) = 1
             THEN [room[r] EXCEPT !.game_option = option] ELSE room[r]
    IN  /\ r # 0 /\ room[r].status = "waiting"
        /\ room' = [room EXCEPT ![r] = q]
        /\ Serve(u, <<Everyone(r, DetailMsg(GetDetailInfo(q)))>>)
        /\ UNCHANGED <<person, belong, rooms, told>>

\* MP_CSPullAllRoomInfo
CSPullAllRoomInfo(u) ==
    /\ Serve(u, <<Send(u, Message("SCPullAllRoomInfo"))>>)
    /\ UNCHANGED <<person, belong, rooms, room, told>>

\* MP_CSReadyToStart and Room::SendGameLoading up to its broadcast
CSReadyToStart(u) ==
    LET r == belong[u]
    IN  /\ r # 0 /\ GetPlayerID(room[r], u) = 1 /\ room[r].status = "waiting"
        /\ Serve(u, <<Everyone(r, Message("SCGameLoading")), RoomCall("loadingSet", r)>>)
        /\ UNCHANGED <<person, belong, rooms, room, told>>

\* MP_CSLoadSucceed and Room::AddLoadingSucceed
CSLoadSucceed(u) ==
    LET r == belong[u]
        pos == GetPlayerID(room[r], u)
        q == [room[r] EXCEPT !.is_loading_succeed = room[r].is_loading_succeed \cup {pos},
                             !.loading_succeed_cnt = room[r].loading_succeed_cnt + 1]
    IN  /\ r # 0 /\ room[r].status = "loading"
        /\ pos # 0 /\ pos \notin room[r].is_loading_succeed
        /\ room' = [room EXCEPT ![r] = q]
        /\ Serve(u, IF EveryoneLoaded(q)
                    THEN <<RoomCall("gameStart", r)>> ELSE <<>>)
        /\ UNCHANGED <<person, belong, rooms, told>>

\* MP_CSGameEnd
CSGameEnd(u) ==
    /\ belong[u] # 0 /\ room[belong[u]].status \in GameEndIn
    /\ Serve(u, <<Send(u, Message("SCGameEnd")), UserCall("gameEndFrom", 0, u)>>)
    /\ UNCHANGED <<person, belong, rooms, room, told>>

\* The handler is done.  ReceiveMessage goes on to m_connects[fd], which is
\* NULL when the handler has deleted the client it served.
Return ==
    /\ crashed = "no" /\ stack = <<>> /\ serving # NoUser
    /\ IF serving \in sess THEN serving' = NoUser /\ UNCHANGED crashed
                           ELSE crashed' = "conn" /\ UNCHANGED serving
    /\ UNCHANGED <<sess, person, belong, rooms, freeRoom, nextRoom, room, told,
                   stack, ticking>>

\* The connection breaks, or the heartbeat has run out: DeleteClientByFD
Disconnect(u) ==
    /\ Idle /\ u \in sess
    /\ stack' = <<UserCall("deleteClient", 0, u)>>
    /\ UNCHANGED <<sess, person, belong, rooms, freeRoom, nextRoom, room, told,
                   serving, ticking, crashed>>

-----------------------------------------------------------------------------
(* The tick of the main loop. *)

\* max_loading_time_second have passed since the room began to load.
LoadingTimePasses(r) ==
    /\ Idle /\ r \in rooms /\ room[r].status = "loading" /\ ~room[r].late
    /\ room' = [room EXCEPT ![r] = [room[r] EXCEPT !.late = TRUE]]
    /\ UNCHANGED <<sess, person, belong, rooms, freeRoom, nextRoom, told, stack,
                   serving, ticking, crashed>>

\* The room of S that the iterator of a std::map visits first.
FirstRoom(S) == IF S = {} THEN 0 ELSE CHOOSE r \in S : \A s \in S : r <= s

\* RoomManager::OnTick visits r next, if there is one.
Visit(r) ==
    /\ ticking' = r
    /\ stack' = IF r = 0 THEN <<>> ELSE <<RoomCall("onTick", r)>>

\* RoomManager::OnTick begins.
Tick ==
    /\ Idle /\ rooms # {}
    /\ Visit(FirstRoom(rooms))
    /\ UNCHANGED <<sess, person, belong, rooms, freeRoom, nextRoom, room, told,
                   serving, crashed>>

\* Mutant: a room without players is not empty yet.
IsEmpty_Negative(q) == q.online_player_cnt < 0

\* The test of RoomManager::OnTick
IsEmpty(q) == q.online_player_cnt <= 0

\* Mutant: the room is queued for reuse but stays in rooms_.
EraseRoom_KeepEntry(r) == freeRoom' = Append(freeRoom, r) /\ UNCHANGED rooms

\* RoomManager::OnTick erases an empty room and queues it for reuse.
EraseRoom(r) == freeRoom' = Append(freeRoom, r) /\ rooms' = rooms \ {r}

\* Mutant: the iterator does not move past the room that may be erased.
RoomsAfter_Stay(r) == {s \in rooms : s >= r}

\* The rooms the iterator of RoomManager::OnTick has still to visit
RoomsAfter(r) == {s \in rooms : s > r}

\* RoomManager::OnTick after Room::OnTick: the iterator moves on
TickNext ==
    /\ crashed = "no" /\ stack = <<>> /\ ticking # 0
    /\ IF IsEmpty(room[ticking]) THEN EraseRoom(ticking)
                                  ELSE UNCHANGED <<freeRoom, rooms>>
    /\ Visit(FirstRoom(RoomsAfter(ticking)))
    /\ UNCHANGED <<sess, person, belong, nextRoom, room, told, serving, crashed>>

-----------------------------------------------------------------------------
Init ==
    /\ sess = {} /\ person = [u \in User |-> "none"]
    /\ belong = [u \in User |-> 0]
    /\ rooms = {} /\ freeRoom = <<>> /\ nextRoom = 1
    /\ room \in [Room -> {InitRoom(m, 1) : m \in Unset}]
    /\ told = [u \in User |-> Untold]
    /\ stack = <<>> /\ serving = NoUser /\ ticking = 0 /\ crashed = "no"

\* One step of the function on top of the stack.
Step ==
    \/ DoSend \/ DoEveryone \/ DoCreateDetail \/ DoJoinDetail
    \/ DoDeleteClient \/ DoPersonGone \/ DoLeftWaiting \/ DoLeftLoading
    \/ DoLoadingSet \/ DoGameStart \/ DoStartSet
    \/ DoOnTick \/ DoKick \/ DoGameEndFrom

\* A message or the end of a connection arrives from u.
Event(u) ==
    \/ CSLogin(u) \/ Disconnect(u)
    \/ \E m \in TeamMode : CSCreateRoom(u, m)
    \/ \E r \in Room : CSJoinRoom(u, r)
    \/ CSPlayerExitRoom(u)
    \/ \E t \in TeamId : CSChangeTeam(u, t)
    \/ \E o \in GameOption : CSChangeOption(u, o)
    \/ CSPullAllRoomInfo(u)
    \/ CSReadyToStart(u) \/ CSLoadSucceed(u) \/ CSGameEnd(u)

Next ==
    \/ Step \/ Return \/ Tick \/ TickNext
    \/ \E r \in Room : LoadingTimePasses(r)
    \/ \E u \in User : Event(u)

Spec == Init /\ [][Next]_vars

\* The process runs: a function that was called goes on, the clock advances,
\* and since one ReceiveMessage handles finitely many messages the main loop
\* comes back to RunOnTick however many messages keep arriving.
Fairness ==
    /\ WF_vars(Step) /\ WF_vars(Return) /\ WF_vars(TickNext)
    /\ SF_vars(Tick)
    /\ \A r \in Room : SF_vars(LoadingTimePasses(r))

FairSpec == Spec /\ Fairness

-----------------------------------------------------------------------------
(* Properties. *)

\* Every variable has its type.
TypeOK ==
    /\ sess \subseteq User
    /\ person \in [User -> {"none", "hall", "room"}]
    /\ belong \in [User -> 0..MaxRoom]
    /\ rooms \subseteq Room
    /\ freeRoom \in Seq(Room)
    /\ nextRoom \in 1..MaxRoom + 1
    /\ room \in [Room -> RoomRec]
    /\ told \in [User -> Told]
    /\ stack \in Seq(Frame)
    /\ serving \in Occupant
    /\ ticking \in 0..MaxRoom
    /\ crashed \in {"no", "exit", "conn", "join"}

\* Whoever belong_room_ says is in a room has an online seat in a room that
\* rooms_ holds: at every moment, inside nested deletions too.  Otherwise
\* DeletePlayer would fail and belong_room_ point to a room that is reused.
MemberHasSeat ==
    \A u \in User : belong[u] # 0 =>
        belong[u] \in rooms /\ SeatsOf(room[belong[u]], u) # {}

\* m_online_player_cnt, which decides when a room is erased, and
\* m_loading_succeed_cnt, which decides when a game starts, are the numbers of
\* online and of loaded seats whatever deletions are under way; an online seat
\* is one of the first m_player_cnt.  While a room waits its loading fields are
\* those of an earlier game, or were never set.
CountsOf(q) ==
    /\ q.online_player_cnt = Cardinality(q.is_online)
    /\ q.status # "waiting" => q.loading_succeed_cnt = Cardinality(q.is_loading_succeed)
    /\ q.is_online \subseteq 1..q.player_cnt
    /\ q.status = "waiting" => q.is_online = 1..q.player_cnt
RoomCounts == \A r \in Room : CountsOf(room[r])

\* A room in m_free_room is not in rooms_ and is queued once: CreateRoom never
\* resets a room that is in use, nor hands one room to two owners.
FreeRoomsApart ==
    /\ \A i \in 1..Len(freeRoom) : freeRoom[i] \notin rooms /\ freeRoom[i] < nextRoom
    /\ \A i, j \in 1..Len(freeRoom) : freeRoom[i] = freeRoom[j] => i = j
    /\ \A r \in rooms : r < nextRoom

\* The room MP_CSJoinRoom looks up again after its reply is still there,
\* although the reply may have thrown the joining player out.
JoinRoomNeverNull == crashed # "join"

\* Every room that a call under way will still use, and the room the iterator
\* of OnTick points to, is in rooms_: none has been erased, or reused for
\* other players, between the lookup and the use.
SafeFrame == {f \in Frame : f.room # 0 => f.room \in rooms}
PendingRoomsExist ==
    /\ stack \in Seq(SafeFrame)
    /\ ticking # 0 => ticking \in rooms

\* Between two handlers every online seat is held by a logged-in user who
\* belongs to that room, and nobody has two seats: no player is left behind
\* in a room by a deletion that another deletion interrupted.
SeatHasMember ==
    Idle => \A r \in rooms : \A i \in room[r].is_online :
        /\ room[r].players[i] \in sess
        /\ belong[room[r].players[i]] = r
        /\ SeatsOf(room[r], room[r].players[i]) = {i}

\* Between two handlers the three managers agree: a session exists for exactly
\* the persons, and Person::m_status, on which OnExit relies to give back the
\* seat, says "in room" for exactly the users of belong_room_.
ManagersAgree ==
    Idle => \A u \in User :
        /\ (u \in sess) = (person[u] # "none")
        /\ (person[u] = "room") = (belong[u] # 0)

\* Between two handlers all tables agree on who is in which room.
TablesAgree == SeatHasMember /\ ManagersAgree

\* Between two handlers the last SCPullOneRoomDetail sent to each player of a
\* waiting room lists the players, seats, teams and option the room has.
DetailKnown ==
    Idle => \A u \in User :
        belong[u] # 0 /\ room[belong[u]].status = "waiting" =>
            told[u].detail = GetDetailInfo(room[belong[u]])

\* In the last SCPullOneRoomDetail sent to a player, the player's own
\* player_id is the seat the server uses for him, in the game too.
PlayerIdKnown ==
    Idle => \A u \in User : belong[u] # 0 =>
        \E e \in told[u].detail.entries :
            e.player = u /\ e.player_id = GetPlayerID(room[belong[u]], u)

\* Every player knows the phase of his room: nobody is left out of the
\* broadcast of SCGameLoading or of SCGameStart.
PhaseKnown ==
    Idle => \A u \in User :
        belong[u] # 0 => told[u].phase = room[belong[u]].status

\* While a room loads, every player in it has been told of exactly the players
\* who have left, also of those whom a broadcast about another one threw out.
ExitsTold ==
    Idle => \A u \in User :
        belong[u] # 0 /\ room[belong[u]].status = "loading" =>
            told[u].exits = 1..room[belong[u]].player_cnt \ room[belong[u]].is_online

\* The team of a player, 0 when he has no seat.
TeamOf(q, u) == IF SeatsOf(q, u) = {} THEN 0 ELSE q.team_id[GetPlayerID(q, u)]

\* Where teams are chosen, a player's team changes only through his own
\* CSChangeTeam: not when others leave and the seats move up.
TeamFollowsPlayer ==
    [][\A u \in User :
         /\ belong[u] # 0 /\ belong'[u] = belong[u]
         /\ room[belong[u]].team_mode = 2
         /\ TeamOf(room'[belong[u]], u) # TeamOf(room[belong[u]], u)
         => serving' = u]_vars

\* A room that loads gets into the game, however slow its players are.
LoadingEnds ==
    \A r \in Room :
        room[r].status = "loading" ~> (room[r].status # "loading" \/ crashed # "no")

\* A room all of whose players are offline is erased, or somebody enters it.
EmptyRoomErased ==
    \A r \in Room :
        (r \in rooms /\ \A i \in room[r].is_online : room[r].players[i] \notin sess)
        ~> (\/ r \notin rooms \/ crashed # "no"
            \/ \E i \in room[r].is_online : room[r].players[i] \in sess)
=============================================================================
