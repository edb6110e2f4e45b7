---------------------------- MODULE RoomsProofs ----------------------------
(***************************************************************************)
(* Proofs about modules Rooms and RoomsWrites, for any number of users,    *)
(* rooms and seats and any outcome of every send: the inductive invariant  *)
(* of the rooms, the tables of the managers, teams, what players are told  *)
(* of exits, who has loaded when a game starts, and what players know of   *)
(* their room until a write fails.                                         *)
(***************************************************************************)
EXTENDS RoomsWrites, FiniteSetTheorems, WellFoundedInduction, TLAPS

-----------------------------------------------------------------------------
(* Lemmas about the operations of Room. *)

\* The sets of seats are finite, so counting them means something.
LEMMA SeatsFinite ==
    ASSUME NEW S \in SUBSET Seat PROVE IsFiniteSet(S)
  <1>1. IsFiniteSet(1..MaxPlayer)
    BY ConstantsAssumption, FS_Interval
  <1> QED BY <1>1, FS_Subset DEF Seat

\* A loop over the seats of a set meets a first one.
LEMMA FirstExists ==
    ASSUME NEW T, T \subseteq Nat, T # {}
    PROVE  \E x \in T : \A y \in T : x <= y
  <1> DEFINE Less == OpToRel(<, Nat)
  <1>1. \A a, b \in Nat : a < b => <<a, b>> \in Less
    BY DEF OpToRel
  <1>2. IsWellFoundedOn(Less, Nat)
    BY NatLessThanWellFounded
  <1> HIDE DEF Less
  <1>3. PICK x \in T : \A y \in T : <<y, x>> \notin Less
    BY <1>2, WFMin
  <1>4. ASSUME NEW y \in T PROVE x <= y
    <2>1. x \in Nat /\ y \in Nat
      OBVIOUS
    <2>2. ~ (y < x)
      BY <2>1, <1>1, <1>3
    <2> QED BY <2>1, <2>2
  <1> QED BY <1>4

\* Room::Init leaves an empty room of the right type, whatever the fields hold
\* that it does not set.
LEMMA InitRoomOK ==
    ASSUME NEW m \in {1, 2}, NEW x, x.is_loading_succeed \in SUBSET Seat,
           x.loading_succeed_cnt \in Int, x.late \in BOOLEAN
    PROVE  InitRoom(x, m) \in RoomRec /\ CountsOf(InitRoom(x, m))
  <1>1. InitRoom(x, m) \in RoomRec
    BY ConstantsAssumption DEF InitRoom, RoomRec, Seat, Occupant, Team, Option, Status
  <1>2. 1..0 = {}
    OBVIOUS
  <1>3. Cardinality({}) = 0
    BY FS_EmptySet
  <1> QED BY <1>1, <1>2, <1>3 DEF InitRoom, CountsOf

\* Room::GetPlayerID answers with an online seat of the user, or with 0 when
\* there is none.
LEMMA GetPlayerIDSeat ==
    ASSUME NEW q \in RoomRec, NEW u
    PROVE  /\ GetPlayerID(q, u) \in 0..MaxPlayer
           /\ GetPlayerID(q, u) # 0 => GetPlayerID(q, u) \in SeatsOf(q, u)
  <1>1. CASE SeatsOf(q, u) = {}
    BY <1>1, ConstantsAssumption DEF GetPlayerID
  <1>2. CASE SeatsOf(q, u) # {}
    <2>1. SeatsOf(q, u) \subseteq Nat
      BY DEF SeatsOf, RoomRec
    <2>2. \E i \in SeatsOf(q, u) : \A j \in SeatsOf(q, u) : i <= j
      BY <1>2, <2>1, FirstExists
    <2>3. GetPlayerID(q, u) \in SeatsOf(q, u)
      BY <1>2, <2>2 DEF GetPlayerID
    <2> QED BY <2>3, ConstantsAssumption DEF SeatsOf, RoomRec
  <1> QED BY <1>1, <1>2

\* Room::AddPlayer keeps the counts right, seats the user and unseats nobody.
LEMMA AddPlayerOK ==
    ASSUME NEW q \in RoomRec, CountsOf(q), q.status = "waiting",
           q.player_cnt < MaxPlayer, NEW u \in User
    PROVE  /\ AddPlayer(q, u) \in RoomRec
           /\ CountsOf(AddPlayer(q, u))
           /\ SeatsOf(AddPlayer(q, u), u) # {}
           /\ \A v \in User : SeatsOf(q, v) # {} => SeatsOf(AddPlayer(q, u), v) # {}
  <1> DEFINE p == AddPlayer(q, u)
             n == q.player_cnt + 1
  <1>1. n \in Seat /\ n \in 1..MaxPlayer
    BY ConstantsAssumption DEF RoomRec, Seat
  <1>2. /\ p.player_cnt = n
        /\ p.online_player_cnt = q.online_player_cnt + 1
        /\ p.players = [q.players EXCEPT ![n] = u]
        /\ p.team_id = [q.team_id EXCEPT ![n] = IF q.team_mode = 1 THEN n ELSE 1]
        /\ p.is_online = q.is_online \cup {n}
        /\ p.is_loading_succeed = q.is_loading_succeed
        /\ p.loading_succeed_cnt = q.loading_succeed_cnt
        /\ p.status = q.status
    BY DEF AddPlayer, RoomRec
  <1>3. p \in RoomRec
    <2>1. [q.players EXCEPT ![n] = u] \in [Seat -> Occupant]
      BY <1>1 DEF RoomRec, Occupant
    <2>2. [q.team_id EXCEPT ![n] = IF q.team_mode = 1 THEN n ELSE 1] \in [Seat -> Team]
      BY <1>1, ConstantsAssumption DEF RoomRec, Team
    <2>3. n \in 0..MaxPlayer /\ q.online_player_cnt + 1 \in Int /\ q.is_online \cup {n} \in SUBSET Seat
      BY <1>1 DEF RoomRec
    <2>4. ASSUME NEW a \in [Seat -> Occupant], NEW b \in [Seat -> Team], NEW c \in 0..MaxPlayer,
                 NEW d \in Int, NEW e \in SUBSET Seat
          PROVE [q EXCEPT !.player_cnt = c, !.online_player_cnt = d, !.players = a,
                          !.team_id = b, !.is_online = e] \in RoomRec
      BY DEF RoomRec
    <2> QED BY ONLY <2>1, <2>2, <2>3, <2>4 DEF AddPlayer
  <1>4. Cardinality(q.is_online \cup {n}) = Cardinality(q.is_online) + 1
    <2>1. n \notin q.is_online
      BY DEF CountsOf, RoomRec
    <2>2. IsFiniteSet(q.is_online)
      BY SeatsFinite DEF RoomRec
    <2> QED BY <2>1, <2>2, FS_AddElement
  <1>5. q.is_online \cup {n} = 1..n
    BY DEF CountsOf, RoomRec
  <1>6. CountsOf(p)
    BY <1>2, <1>4, <1>5 DEF CountsOf
  <1>7. n \in SeatsOf(p, u)
    BY <1>1, <1>2 DEF SeatsOf, RoomRec
  <1>8. ASSUME NEW v \in User, NEW i \in SeatsOf(q, v) PROVE i \in SeatsOf(p, v)
    BY <1>1, <1>2 DEF SeatsOf, RoomRec, Seat
  <1> QED BY <1>3, <1>6, <1>7, <1>8

\* Moving the seats up keeps the counts right and unseats only the user who
\* leaves: everybody behind him is found one seat further up.
LEMMA ShiftSeatsOK ==
    ASSUME NEW q \in RoomRec, CountsOf(q), q.status = "waiting",
           NEW u \in User, NEW pos \in SeatsOf(q, u)
    PROVE  /\ ShiftSeats(q, pos) \in RoomRec
           /\ CountsOf(ShiftSeats(q, pos))
           /\ \A v \in User \ {u} : SeatsOf(q, v) # {} => SeatsOf(ShiftSeats(q, pos), v) # {}
  <1> DEFINE p == ShiftSeats(q, pos)
             n == q.player_cnt
  <1>1. /\ n \in 1..MaxPlayer /\ n \in Int /\ pos \in 1..n
        /\ q.is_online = 1..n /\ q.players[pos] = u
    BY ConstantsAssumption DEF RoomRec, SeatsOf, CountsOf
  <1>2. ShiftPlayers(q, pos) \in [Seat -> Occupant]
    BY <1>1, ConstantsAssumption DEF ShiftPlayers, RoomRec, Seat, Occupant
  <1>3. ShiftTeams(q, pos) \in [Seat -> Team]
    BY <1>1, ConstantsAssumption DEF ShiftTeams, RoomRec, Seat, Team
  <1>4. /\ n - 1 \in 0..MaxPlayer /\ q.online_player_cnt - 1 \in Int
        /\ q.is_online \ {n} \in SUBSET Seat
    <2>1. n - 1 \in 0..MaxPlayer
      BY <1>1, ConstantsAssumption
    <2>2. q.online_player_cnt \in Int /\ q.is_online \in SUBSET Seat
      BY DEF RoomRec
    <2> QED BY <2>1, <2>2
  <1>5. p \in RoomRec
    <2>1. ASSUME NEW a \in [Seat -> Occupant], NEW b \in [Seat -> Team],
                 NEW c \in SUBSET Seat, NEW d \in 0..MaxPlayer, NEW e \in Int
          PROVE  [q EXCEPT !.players = a, !.team_id = b, !.is_online = c,
                           !.player_cnt = d, !.online_player_cnt = e] \in RoomRec
      BY DEF RoomRec
    <2> QED BY ONLY <1>2, <1>3, <1>4, <2>1 DEF ShiftSeats
  <1>6. /\ p.players = ShiftPlayers(q, pos)
        /\ p.is_online = q.is_online \ {n}
        /\ p.player_cnt = n - 1
        /\ p.online_player_cnt = q.online_player_cnt - 1
        /\ p.is_loading_succeed = q.is_loading_succeed
        /\ p.loading_succeed_cnt = q.loading_succeed_cnt
        /\ p.status = q.status
    BY DEF ShiftSeats, RoomRec
  <1>7. CountsOf(p)
    <2>1. n \in q.is_online /\ q.is_online \ {n} = 1..(n - 1)
      BY <1>1
    <2>2. Cardinality(q.is_online \ {n}) = Cardinality(q.is_online) - 1
      BY <2>1, SeatsFinite, FS_RemoveElement DEF RoomRec
    <2> QED BY <1>6, <2>1, <2>2 DEF CountsOf
  <1>8. ASSUME NEW v \in User \ {u}, NEW i \in SeatsOf(q, v)
        PROVE  SeatsOf(p, v) # {}
    <2>1. i \in 1..n /\ q.players[i] = v /\ i # pos
      BY <1>1 DEF SeatsOf
    <2>2. CASE i < pos
      <3>1. i \in Seat /\ i \in 1..(n - 1) /\ i \in 1..n \ {n}
        BY <1>1, <2>1, <2>2, ConstantsAssumption DEF Seat
      <3>2. p.players[i] = v
        BY <1>1, <1>6, <2>1, <2>2, <3>1 DEF ShiftPlayers
      <3> QED BY <1>1, <1>6, <3>1, <3>2 DEF SeatsOf
    <2>3. CASE i > pos
      <3>1. i - 1 \in Seat /\ i - 1 \in 1..(n - 1) /\ i - 1 \in 1..n \ {n}
        BY <1>1, <2>1, <2>3, ConstantsAssumption DEF Seat
      <3>2. p.players[i - 1] = v
        BY <1>1, <1>6, <2>1, <2>3, <3>1 DEF ShiftPlayers
      <3> QED BY <1>1, <1>6, <3>1, <3>2 DEF SeatsOf
    <2> QED BY <1>1, <2>1, <2>2, <2>3
  <1> QED BY <1>5, <1>7, <1>8

\* Taking a seat offline keeps the counts right and unseats only its user.
LEMMA SeatOfflineOK ==
    ASSUME NEW q \in RoomRec, CountsOf(q), q.status # "waiting",
           NEW u \in User, NEW pos \in SeatsOf(q, u)
    PROVE  /\ SeatOffline(q, pos) \in RoomRec
           /\ CountsOf(SeatOffline(q, pos))
           /\ \A v \in User \ {u} : SeatsOf(q, v) # {} => SeatsOf(SeatOffline(q, pos), v) # {}
  <1> DEFINE p == SeatOffline(q, pos)
  <1>1. pos \in q.is_online /\ q.players[pos] = u
    BY DEF SeatsOf
  <1>2. p \in RoomRec
    <2>1. q.online_player_cnt - 1 \in Int /\ q.is_online \ {pos} \in SUBSET Seat
      BY DEF RoomRec
    <2>2. ASSUME NEW a \in SUBSET Seat, NEW b \in Int
          PROVE  [q EXCEPT !.is_online = a, !.online_player_cnt = b] \in RoomRec
      BY DEF RoomRec
    <2> QED BY ONLY <2>1, <2>2 DEF SeatOffline
  <1>3. /\ p.players = q.players /\ p.player_cnt = q.player_cnt
        /\ p.is_online = q.is_online \ {pos}
        /\ p.online_player_cnt = q.online_player_cnt - 1
        /\ p.is_loading_succeed = q.is_loading_succeed
        /\ p.loading_succeed_cnt = q.loading_succeed_cnt
        /\ p.status = q.status
    BY DEF SeatOffline, RoomRec
  <1>4. Cardinality(q.is_online \ {pos}) = Cardinality(q.is_online) - 1
    BY <1>1, SeatsFinite, FS_RemoveElement DEF RoomRec
  <1>5. CountsOf(p)
    BY <1>3, <1>4 DEF CountsOf
  <1>6. ASSUME NEW v \in User \ {u}, NEW i \in SeatsOf(q, v) PROVE i \in SeatsOf(p, v)
    BY <1>1, <1>3 DEF SeatsOf
  <1> QED BY <1>2, <1>5, <1>6

\* Room::DeletePlayer, in whatever status the room is.
LEMMA DeletePlayerOK ==
    ASSUME NEW q \in RoomRec, CountsOf(q), NEW u \in User, NEW pos \in SeatsOf(q, u)
    PROVE  /\ DeletePlayer(q, pos) \in RoomRec
           /\ CountsOf(DeletePlayer(q, pos))
           /\ \A v \in User \ {u} : SeatsOf(q, v) # {} => SeatsOf(DeletePlayer(q, pos), v) # {}
  BY ShiftSeatsOK, SeatOfflineOK DEF DeletePlayer

-----------------------------------------------------------------------------
(* Lemmas about messages and the stack. *)

\* The detail of a room is a well-formed message content.
LEMMA DetailOK ==
    ASSUME NEW q \in RoomRec PROVE GetDetailInfo(q) \in Detail
  <1>1. \A i \in q.is_online : i \in Seat /\ q.players[i] \in Occupant /\ q.team_id[i] \in Team
    BY DEF RoomRec
  <1>2. \A v \in Occupant : GetPersonName(v) \in Occupant
    BY DEF GetPersonName, Occupant
  <1>3. q.game_option \in Option
    BY DEF RoomRec
  <1> QED BY <1>1, <1>2, <1>3 DEF GetDetailInfo, Detail, Entry

\* The messages the handlers build are messages.
LEMMA MessagesOK ==
    /\ \A id \in MsgId : Message(id) \in Msg
    /\ \A d \in Detail : DetailMsg(d) \in Msg
    /\ \A i \in Seat : ExitGameMsg(i) \in Msg
    /\ NoMsg \in Msg
    /\ Untold \in Told
  <1>1. NoDetail \in Detail
    BY DEF NoDetail, Detail, Option
  <1>2. 0 \in 0..MaxPlayer
    BY ConstantsAssumption
  <1>3. \A i \in Seat : i \in 0..MaxPlayer
    BY ConstantsAssumption DEF Seat
  <1>4. "none" \in Phase
    BY DEF Phase
  <1> QED BY <1>1, <1>2, <1>3, <1>4
          DEF Message, DetailMsg, ExitGameMsg, NoMsg, Msg, MsgId, Untold, Told

\* Receiving a message leaves a client's record well formed.
LEMMA ReceiveOK ==
    ASSUME NEW t \in Told, NEW m \in Msg PROVE Receive(t, m) \in Told
  BY DEF Receive, Told, Msg, Phase

\* Pushing frames on a stack, and taking the top off.
LEMMA Push ==
    ASSUME NEW S, NEW s \in Seq(S), NEW f \in S, NEW g \in S
    PROVE  <<f>> \o s \in Seq(S) /\ <<f, g>> \o s \in Seq(S) /\ <<>> \o s \in Seq(S)
  OBVIOUS

\* The parts of a stack that is not empty
LEMMA Pop ==
    ASSUME NEW S, NEW s \in Seq(S), s # <<>>
    PROVE  Head(s) \in S /\ Tail(s) \in Seq(S)
  OBVIOUS

\* The calls of the stack s
Calls(s) == {s[i] : i \in 1..Len(s)}

\* The calls of a stack on which one or two were pushed, or from which one
\* returned
LEMMA CallsOf1 ==
    ASSUME NEW S, NEW s \in Seq(S), NEW f
    PROVE  Calls(<<f>> \o s) = {f} \cup Calls(s)
  <1>1. PICK n \in Nat : n = Len(s)
    OBVIOUS
  <1>2. PICK t : t = <<f>> \o s
    OBVIOUS
  <1>3. Len(t) = n + 1 /\ t[1] = f /\ \A i \in 1..n : t[i + 1] = s[i]
    BY <1>1, <1>2
  <1>4. \A k \in 1..n + 1 : k = 1 \/ (k - 1 \in 1..n /\ t[k] = s[k - 1])
    BY <1>3
  <1>5. \A i \in 1..n : i + 1 \in 1..n + 1
    OBVIOUS
  <1>6. 1 \in 1..n + 1
    OBVIOUS
  <1>7. \A k \in 1..n + 1 : t[k] \in {f} \cup Calls(s)
    BY <1>1, <1>3, <1>4 DEF Calls
  <1>8. f \in Calls(t) /\ \A i \in 1..n : s[i] \in Calls(t)
    BY <1>3, <1>5, <1>6 DEF Calls
  <1>9. Calls(t) \subseteq {f} \cup Calls(s)
    BY <1>3, <1>7 DEF Calls
  <1>10. Calls(s) \subseteq Calls(t)
    BY <1>1, <1>8 DEF Calls
  <1> QED BY <1>2, <1>8, <1>9, <1>10

\* Two calls are pushed.
LEMMA CallsOf2 ==
    ASSUME NEW S, NEW s \in Seq(S), NEW f, NEW g
    PROVE  Calls(<<f, g>> \o s) = {f, g} \cup Calls(s)
  <1>1. PICK n \in Nat : n = Len(s)
    OBVIOUS
  <1>2. PICK t : t = <<f, g>> \o s
    OBVIOUS
  <1>3. Len(t) = n + 2 /\ t[1] = f /\ t[2] = g /\ \A i \in 1..n : t[i + 2] = s[i]
    BY <1>1, <1>2
  <1>4. \A k \in 1..n + 2 : k = 1 \/ k = 2 \/ (k - 2 \in 1..n /\ t[k] = s[k - 2])
    BY <1>3
  <1>5. 1 \in 1..n + 2 /\ 2 \in 1..n + 2 /\ \A i \in 1..n : i + 2 \in 1..n + 2
    OBVIOUS
  <1>6. \A k \in 1..n + 2 : t[k] \in {f, g} \cup Calls(s)
    BY <1>1, <1>3, <1>4 DEF Calls
  <1>7. f \in Calls(t) /\ g \in Calls(t) /\ \A i \in 1..n : s[i] \in Calls(t)
    BY <1>3, <1>5 DEF Calls
  <1>8. Calls(t) \subseteq {f, g} \cup Calls(s)
    BY <1>3, <1>6 DEF Calls
  <1>9. Calls(s) \subseteq Calls(t)
    BY <1>1, <1>7 DEF Calls
  <1> QED BY <1>2, <1>7, <1>8, <1>9

\* Stacks of no, one and two calls, and the call on top
LEMMA CallsOfShort ==
    /\ Calls(<<>>) = {}
    /\ \A f : Calls(<<f>>) = {f}
    /\ \A f, g : Calls(<<f, g>>) = {f, g}
  <1>1. Calls(<<>>) = {}
    BY DEF Calls
  <1>2. ASSUME NEW f PROVE Calls(<<f>>) = {f}
    <2>1. Len(<<f>>) = 1 /\ <<f>>[1] = f /\ 1..1 = {1}
      OBVIOUS
    <2> QED BY <2>1 DEF Calls
  <1>3. ASSUME NEW f, NEW g PROVE Calls(<<f, g>>) = {f, g}
    <2>1. Len(<<f, g>>) = 2 /\ <<f, g>>[1] = f /\ <<f, g>>[2] = g /\ 1..2 = {1, 2}
      OBVIOUS
    <2> QED BY <2>1 DEF Calls
  <1> QED BY <1>1, <1>2, <1>3

\* The call on top
LEMMA CallsOfTop ==
    ASSUME NEW s \in Seq(Frame), s # <<>>
    PROVE  Calls(s) = {Head(s)} \cup Calls(Tail(s))
  <1>1. PICK n \in Nat : Len(s) = n + 1
    OBVIOUS
  <1>2. PICK f, t : f = Head(s) /\ t = Tail(s)
    OBVIOUS
  <1>3. f = s[1] /\ Len(t) = n /\ \A i \in 1..n : t[i] = s[i + 1]
    BY <1>1, <1>2
  <1>4. \A k \in 1..n + 1 : k = 1 \/ (k - 1 \in 1..n /\ s[k] = t[k - 1])
    BY <1>3
  <1>5. 1 \in 1..n + 1 /\ \A i \in 1..n : i + 1 \in 1..n + 1
    OBVIOUS
  <1>6. \A k \in 1..n + 1 : s[k] \in {f} \cup Calls(t)
    BY <1>3, <1>4 DEF Calls
  <1>7. f \in Calls(s) /\ \A i \in 1..n : t[i] \in Calls(s)
    BY <1>1, <1>3, <1>5 DEF Calls
  <1>8. Calls(s) \subseteq {f} \cup Calls(t)
    BY <1>1, <1>6 DEF Calls
  <1>9. Calls(t) \subseteq Calls(s)
    BY <1>3, <1>7 DEF Calls
  <1> QED BY <1>2, <1>7, <1>8, <1>9

-----------------------------------------------------------------------------
(* The inductive invariant. *)

IInv ==
    /\ TypeOK
    /\ RoomCounts
    /\ MemberHasSeat
    /\ FreeRoomsApart
    /\ PendingRoomsExist
    /\ JoinRoomNeverNull

\* A game starts in a room that no longer waits.
StartInv == \A f \in Calls(stack) : f.op = "startSet" => room[f.room].status # "waiting"

\* A call whose room is in rooms_ may be left on the stack.
LEMMA CallOK ==
    ASSUME NEW op \in Op, NEW r \in 0..MaxRoom, NEW u \in Occupant,
           NEW i \in 0..MaxPlayer + 1, NEW m \in Msg,
           op \in RoomOp => r \in Room, op \in UserOp => u \in User,
           r # 0 => r \in rooms
    PROVE  Call(op, r, u, i, m) \in SafeFrame
  BY DEF Call, SafeFrame, Frame

\* A step that only moves the stack and tells a client something.
LEMMA OnlyStack ==
    ASSUME IInv,
           UNCHANGED <<sess, person, belong, rooms, freeRoom, nextRoom, room,
                       serving, ticking, crashed>>,
           told' \in [User -> Told], stack' \in Seq(SafeFrame)
    PROVE  IInv'
  <1>1. SafeFrame' = SafeFrame
    BY DEF SafeFrame
  <1>2. stack' \in Seq(Frame)
    BY DEF SafeFrame
  <1>3. TypeOK'
    BY <1>2 DEF IInv, TypeOK
  <1>4. RoomCounts' /\ MemberHasSeat' /\ FreeRoomsApart' /\ JoinRoomNeverNull'
    BY DEF IInv, RoomCounts, MemberHasSeat, FreeRoomsApart, JoinRoomNeverNull
  <1>5. PendingRoomsExist'
    BY <1>1 DEF IInv, PendingRoomsExist
  <1> QED BY <1>3, <1>4, <1>5 DEF IInv

\* The frames under the top one.
LEMMA RestOK ==
    ASSUME IInv, NEW op, Top(op)
    PROVE  /\ Head(stack) \in SafeFrame /\ Head(stack).op = op
           /\ Head(stack) \in Frame
           /\ Tail(stack) \in Seq(SafeFrame)
  <1>1. stack \in Seq(SafeFrame) /\ stack # <<>>
    BY DEF IInv, PendingRoomsExist, Top
  <1>2. Head(stack) \in SafeFrame /\ Tail(stack) \in Seq(SafeFrame)
    BY <1>1, Pop
  <1> QED BY <1>2 DEF Top, SafeFrame

\* MessageHandler::SendMessageToClient, whatever the outcome.
LEMMA SendKeeps ==
    ASSUME IInv, NEW u, NEW m \in Msg, NEW rest \in Seq(SafeFrame),
           SendMessageToClient(u, m, rest)
    PROVE  IInv'
  <1>1. told' \in [User -> Told]
    <2>1. told \in [User -> Told] /\ sess \subseteq User
      BY DEF IInv, TypeOK
    <2>2. CASE u \notin sess
      BY <2>1, <2>2 DEF SendMessageToClient
    <2>3. CASE u \in sess
      <3>1. Receive(told[u], m) \in Told
        BY <2>1, <2>3, ReceiveOK
      <3> QED BY <2>1, <2>3, <3>1 DEF SendMessageToClient
    <2> QED BY <2>2, <2>3
  <1>2. stack' \in Seq(SafeFrame)
    <2>1. CASE u \notin sess
      BY <2>1 DEF SendMessageToClient
    <2>2. CASE u \in sess
      <3>1. u \in Occupant
        BY <2>2 DEF IInv, TypeOK, Occupant
      <3>2. UserCall("deleteClient", 0, u) \in SafeFrame
        BY <3>1, CallOK, MessagesOK, ConstantsAssumption DEF UserCall, Op, RoomOp, UserOp
      <3>3. <<UserCall("deleteClient", 0, u)>> \o rest \in Seq(SafeFrame)
        BY <3>2, Push
      <3> QED BY <2>2, <3>3 DEF SendMessageToClient
    <2> QED BY <2>1, <2>2
  <1>3. UNCHANGED <<sess, person, belong, rooms, freeRoom, nextRoom, room,
                    serving, ticking, crashed>>
    BY DEF SendMessageToClient
  <1> QED BY <1>1, <1>2, <1>3, OnlyStack

\* The room a user belongs to is one of rooms_ (from MemberHasSeat).
LEMMA BelongRoom ==
    ASSUME IInv, NEW u \in User, belong[u] # 0
    PROVE  /\ belong[u] \in Room /\ belong[u] \in rooms
           /\ room[belong[u]] \in RoomRec /\ CountsOf(room[belong[u]])
  <1>1. belong[u] \in 0..MaxRoom
    BY DEF IInv, TypeOK
  <1>2. belong[u] \in Room
    BY <1>1, ConstantsAssumption DEF Room
  <1> QED BY <1>2 DEF IInv, TypeOK, MemberHasSeat, RoomCounts

\* The parts of the invariant that speak about seats survive when the rooms
\* other than r keep theirs and r unseats nobody who still belongs to it.
LEMMA SeatsKeep ==
    ASSUME IInv, NEW r \in Room, NEW q \in RoomRec, CountsOf(q),
           \A v \in User : belong'[v] # 0 => belong'[v] = belong[v],
           \A v \in User : belong'[v] = r /\ SeatsOf(room[r], v) # {} => SeatsOf(q, v) # {},
           room' = [room EXCEPT ![r] = q]
    PROVE  /\ room' \in [Room -> RoomRec]
           /\ \A s \in Room : CountsOf(room'[s])
           /\ \A v \in User : belong'[v] # 0 =>
                 belong'[v] \in rooms /\ SeatsOf(room'[belong'[v]], v) # {}
  <1>1. room \in [Room -> RoomRec]
    BY DEF IInv, TypeOK
  <1>2. room' \in [Room -> RoomRec]
    BY <1>1
  <1>3. \A s \in Room : room'[s] = IF s = r THEN q ELSE room[s]
    BY <1>1
  <1>4. \A s \in Room : CountsOf(room'[s])
    BY <1>3 DEF IInv, RoomCounts
  <1>5. ASSUME NEW v \in User, belong'[v] # 0
        PROVE  belong'[v] \in rooms /\ SeatsOf(room'[belong'[v]], v) # {}
    <2>1. belong'[v] = belong[v] /\ belong[v] # 0
      BY <1>5
    <2>2. belong[v] \in Room /\ belong[v] \in rooms
      BY <2>1, BelongRoom
    <2>3. SeatsOf(room[belong[v]], v) # {}
      BY <2>1 DEF IInv, MemberHasSeat
    <2> QED BY <1>3, <2>1, <2>2, <2>3
  <1> QED BY <1>2, <1>4, <1>5

\* What Room::DeletePlayer leaves on the stack uses a room of rooms_.
LEMMA DeletePlayerCallsOK ==
    ASSUME IInv, NEW u \in User, NEW r \in Room, r \in rooms,
           NEW pos \in SeatsOf(room[r], u), NEW rest \in Seq(SafeFrame)
    PROVE  DeletePlayerCalls(r, u, pos) \o rest \in Seq(SafeFrame)
  <1>1. r \in 0..MaxRoom /\ 0 \in 0..MaxRoom /\ NoUser \in Occupant /\ u \in Occupant
    BY ConstantsAssumption DEF Room, Occupant
  <1>2. room[r] \in RoomRec /\ CountsOf(room[r])
    BY DEF IInv, TypeOK, RoomCounts
  <1>3. pos \in Seat /\ pos \in 0..MaxPlayer + 1 /\ 1 \in 0..MaxPlayer + 1 /\ 0 \in 0..MaxPlayer + 1
    BY <1>2, ConstantsAssumption DEF SeatsOf, RoomRec, Seat
  <1>4. CASE room[r].status = "waiting"
    <2>1. LeaveDetail(r, pos) \in Msg
      BY <1>2, <1>4, ShiftSeatsOK, DetailOK, MessagesOK DEF LeaveDetail
    <2>2. Everyone(r, LeaveDetail(r, pos)) \in SafeFrame
      BY <1>1, <1>3, <2>1, CallOK DEF Everyone, Op, UserOp
    <2>3. UserCall("leftWaiting", 0, u) \in SafeFrame
      BY <1>1, <1>3, MessagesOK, CallOK DEF UserCall, Op, RoomOp
    <2> QED BY <1>4, <2>2, <2>3, Push DEF DeletePlayerCalls
  <1>5. CASE room[r].status = "loading"
    <2>1. Everyone(r, ExitGameMsg(pos)) \in SafeFrame
      BY <1>1, <1>3, MessagesOK, CallOK DEF Everyone, Op, UserOp
    <2>2. SeatCall("leftLoading", r, pos) \in SafeFrame
      BY <1>1, <1>3, MessagesOK, CallOK DEF SeatCall, Op, UserOp
    <2> QED BY <1>5, <2>1, <2>2, Push DEF DeletePlayerCalls
  <1>6. CASE room[r].status = "ingame"
    BY <1>6, Push DEF DeletePlayerCalls
  <1> QED BY <1>2, <1>4, <1>5, <1>6 DEF RoomRec, Status

\* RoomManager::DeletePlayerFromRoom
LEMMA DeleteKeeps ==
    ASSUME IInv, NEW u \in User, NEW rest \in Seq(SafeFrame),
           DeletePlayerFromRoom(u, rest)
    PROVE  /\ belong' \in [User -> 0..MaxRoom]
           /\ told' \in [User -> Told]
           /\ room' \in [Room -> RoomRec]
           /\ \A s \in Room : CountsOf(room'[s])
           /\ \A v \in User : belong'[v] # 0 =>
                 belong'[v] \in rooms /\ SeatsOf(room'[belong'[v]], v) # {}
           /\ stack' \in Seq(SafeFrame)
  <1> DEFINE r == belong[u]
             pos == IF r = 0 THEN 0 ELSE GetPlayerID(room[r], u)
             b == [belong EXCEPT ![u] = 0]
  <1>1. belong \in [User -> 0..MaxRoom] /\ told \in [User -> Told] /\ room \in [Room -> RoomRec]
    BY DEF IInv, TypeOK
  <1>2. b \in [User -> 0..MaxRoom] /\ belong' = b /\ b[u] = 0
        /\ \A v \in User \ {u} : b[v] = belong[v]
    BY <1>1, ConstantsAssumption DEF DeletePlayerFromRoom
  <1>3. told' \in [User -> Told]
    BY <1>1, MessagesOK DEF DeletePlayerFromRoom
  <1>4. CASE pos = 0
    <2>1. stack' = rest /\ room' = room
      BY <1>4 DEF DeletePlayerFromRoom
    <2>2. \A v \in User : belong'[v] # 0 =>
                 belong'[v] \in rooms /\ SeatsOf(room'[belong'[v]], v) # {}
      BY <1>2, <2>1 DEF IInv, MemberHasSeat
    <2> QED BY <1>1, <1>2, <1>3, <2>1, <2>2 DEF IInv, RoomCounts
  <1>5. CASE pos # 0
    <2>1. r # 0 /\ pos = GetPlayerID(room[r], u)
      BY <1>5
    <2>2. r \in Room /\ r \in rooms /\ room[r] \in RoomRec /\ CountsOf(room[r])
      BY <2>1, BelongRoom
    <2>3. pos \in SeatsOf(room[r], u)
      BY <1>5, <2>1, <2>2, GetPlayerIDSeat
    <2>4. /\ room' = [room EXCEPT ![r] = DeletePlayer(room[r], pos)]
          /\ stack' = DeletePlayerCalls(r, u, pos) \o rest
      BY <1>5 DEF DeletePlayerFromRoom
    <2> HIDE DEF r, pos, b
    <2>5. /\ DeletePlayer(room[r], pos) \in RoomRec
          /\ CountsOf(DeletePlayer(room[r], pos))
          /\ \A v \in User \ {u} : SeatsOf(room[r], v) # {} =>
                SeatsOf(DeletePlayer(room[r], pos), v) # {}
      BY <2>2, <2>3, DeletePlayerOK
    <2>6. \A v \in User : belong'[v] # 0 => v # u /\ belong'[v] = belong[v]
      BY <1>2
    <2>7. \A v \in User : belong'[v] = r /\ SeatsOf(room[r], v) # {} =>
                SeatsOf(DeletePlayer(room[r], pos), v) # {}
      BY <2>1, <2>5, <2>6
    <2>8. /\ room' \in [Room -> RoomRec]
          /\ \A s \in Room : CountsOf(room'[s])
          /\ \A v \in User : belong'[v] # 0 =>
                belong'[v] \in rooms /\ SeatsOf(room'[belong'[v]], v) # {}
      BY <2>2, <2>4, <2>5, <2>6, <2>7, SeatsKeep
    <2>9. stack' \in Seq(SafeFrame)
      BY <2>2, <2>3, <2>4, DeletePlayerCallsOK
    <2> QED BY <1>2, <1>3, <2>8, <2>9
  <1> QED BY <1>4, <1>5

-----------------------------------------------------------------------------
(* Every step keeps the invariant. *)

\* A step that leaves the set of rooms alone: what remains to be shown.
LEMMA SameRooms ==
    ASSUME IInv, UNCHANGED <<rooms, freeRoom, nextRoom, ticking>>,
           sess' \subseteq User, person' \in [User -> {"none", "hall", "room"}],
           belong' \in [User -> 0..MaxRoom], told' \in [User -> Told],
           room' \in [Room -> RoomRec], \A s \in Room : CountsOf(room'[s]),
           \A v \in User : belong'[v] # 0 =>
              belong'[v] \in rooms /\ SeatsOf(room'[belong'[v]], v) # {},
           stack' \in Seq(SafeFrame), serving' \in Occupant,
           crashed' \in {"no", "exit", "conn"}
    PROVE  IInv'
  <1>1. SafeFrame' = SafeFrame
    BY DEF SafeFrame
  <1>2. stack' \in Seq(Frame)
    BY DEF SafeFrame
  <1>3. TypeOK'
    BY <1>2 DEF IInv, TypeOK
  <1>4. FreeRoomsApart' /\ JoinRoomNeverNull'
    BY DEF IInv, FreeRoomsApart, JoinRoomNeverNull
  <1>5. RoomCounts' /\ MemberHasSeat'
    BY DEF RoomCounts, MemberHasSeat
  <1>6. PendingRoomsExist'
    BY <1>1 DEF IInv, PendingRoomsExist
  <1> QED BY <1>3, <1>4, <1>5, <1>6 DEF IInv

\* The facts about the current state that the cases below use.
LEMMA Now ==
    ASSUME IInv
    PROVE  /\ sess \subseteq User /\ person \in [User -> {"none", "hall", "room"}]
           /\ belong \in [User -> 0..MaxRoom] /\ told \in [User -> Told]
           /\ room \in [Room -> RoomRec] /\ \A s \in Room : CountsOf(room[s])
           /\ \A v \in User : belong[v] # 0 =>
                belong[v] \in rooms /\ SeatsOf(room[belong[v]], v) # {}
           /\ stack \in Seq(SafeFrame) /\ serving \in Occupant
           /\ rooms \subseteq Room
           /\ crashed \in {"no", "exit", "conn"}
  BY DEF IInv, TypeOK, RoomCounts, MemberHasSeat, PendingRoomsExist, JoinRoomNeverNull

\* The frames the handlers push, for a room of rooms_ and a user.
LEMMA FramesOK ==
    ASSUME NEW r \in Room, r \in rooms, NEW u \in Occupant, NEW i \in 0..MaxPlayer + 1,
           NEW m \in Msg
    PROVE  /\ Send(u, m) \in SafeFrame
           /\ Everyone(r, m) \in SafeFrame
           /\ Call("everyone", r, NoUser, i, m) \in SafeFrame
           /\ UserCall("deleteClient", 0, u) \in SafeFrame
           /\ u \in User => UserCall("personGone", 0, u) \in SafeFrame
           /\ u \in User => UserCall("gameEndFrom", 0, u) \in SafeFrame
           /\ UserCall("createDetail", r, u) \in SafeFrame
           /\ RoomCall("joinDetail", r) \in SafeFrame
           /\ RoomCall("loadingSet", r) \in SafeFrame
           /\ RoomCall("gameStart", r) \in SafeFrame
           /\ RoomCall("startSet", r) \in SafeFrame
           /\ RoomCall("onTick", r) \in SafeFrame
           /\ SeatCall("kick", r, i) \in SafeFrame
  <1>1. /\ r \in 0..MaxRoom /\ 0 \in 0..MaxRoom /\ NoUser \in Occupant
        /\ 0 \in 0..MaxPlayer + 1 /\ 1 \in 0..MaxPlayer + 1 /\ NoMsg \in Msg
    BY ConstantsAssumption, MessagesOK DEF Room, Occupant
  <1>2. /\ Send(u, m) \in SafeFrame
        /\ UserCall("deleteClient", 0, u) \in SafeFrame
        /\ u \in User => UserCall("personGone", 0, u) \in SafeFrame
        /\ u \in User => UserCall("gameEndFrom", 0, u) \in SafeFrame
        /\ UserCall("createDetail", r, u) \in SafeFrame
    BY <1>1, CallOK DEF Send, UserCall, Op, RoomOp, UserOp
  <1>3. Everyone(r, m) \in SafeFrame /\ Call("everyone", r, NoUser, i, m) \in SafeFrame
    BY <1>1, CallOK DEF Everyone, Op, RoomOp, UserOp
  <1>4. RoomCall("joinDetail", r) \in SafeFrame /\ RoomCall("loadingSet", r) \in SafeFrame
    BY <1>1, CallOK DEF RoomCall, Op, RoomOp, UserOp
  <1>5. RoomCall("gameStart", r) \in SafeFrame /\ RoomCall("startSet", r) \in SafeFrame
    BY <1>1, CallOK DEF RoomCall, Op, RoomOp, UserOp
  <1>6. RoomCall("onTick", r) \in SafeFrame /\ SeatCall("kick", r, i) \in SafeFrame
    BY <1>1, CallOK DEF RoomCall, SeatCall, Op, RoomOp, UserOp
  <1> QED BY <1>2, <1>3, <1>4, <1>5, <1>6

\* A frame that works on a room names one of rooms_.
LEMMA TopRoom ==
    ASSUME IInv, NEW op, Top(op), op \in RoomOp
    PROVE  /\ Head(stack).room \in Room /\ Head(stack).room \in rooms
           /\ room[Head(stack).room] \in RoomRec /\ CountsOf(room[Head(stack).room])
           /\ Head(stack).seat \in 0..MaxPlayer + 1 /\ Head(stack).msg \in Msg
  <1>1. Head(stack) \in SafeFrame /\ Head(stack).op = op /\ Head(stack) \in Frame
    BY RestOK
  <1>2. Head(stack).room \in Room /\ Head(stack).seat \in 0..MaxPlayer + 1 /\ Head(stack).msg \in Msg
    BY <1>1 DEF Frame
  <1>3. Head(stack).room # 0
    BY <1>2, ConstantsAssumption DEF Room
  <1>4. Head(stack).room \in rooms
    BY <1>1, <1>3 DEF SafeFrame
  <1> QED BY <1>2, <1>4 DEF IInv, TypeOK, RoomCounts

\* Steps that only send or only schedule further calls.
LEMMA SendingSteps ==
    ASSUME IInv, DoSend \/ DoEveryone \/ DoCreateDetail \/ DoJoinDetail
    PROVE  IInv'
  <1>1. CASE DoSend
    <2>1. Top("send")
      BY <1>1 DEF DoSend
    <2>2. Head(stack).msg \in Msg /\ Tail(stack) \in Seq(SafeFrame)
      BY <2>1, RestOK DEF Frame
    <2> QED BY <1>1, <2>2, SendKeeps DEF DoSend
  <1>2. CASE DoEveryone
    <2> DEFINE f == Head(stack)
               q == room[f.room]
               on == Remaining(q, f.seat)
               j == CHOOSE j \in on : \A k \in on : j <= k
    <2>1. Top("everyone")
      BY <1>2 DEF DoEveryone
    <2>2. /\ f.room \in Room /\ f.room \in rooms /\ q \in RoomRec
          /\ f.seat \in 0..MaxPlayer + 1 /\ f.msg \in Msg
      BY <2>1, TopRoom DEF RoomOp
    <2>3. Tail(stack) \in Seq(SafeFrame)
      BY <2>1, RestOK
    <2>4. CASE on = {}
      <3>1. /\ stack' = Tail(stack) /\ told' = told
            /\ UNCHANGED <<sess, person, belong, rooms, freeRoom, nextRoom, room,
                           serving, ticking, crashed>>
        BY <1>2, <2>4 DEF DoEveryone
      <3> QED BY <2>3, <3>1, Now, OnlyStack
    <2>5. CASE on # {}
      <3>1. on \subseteq Seat /\ on \subseteq Nat
        BY <2>2, ConstantsAssumption DEF Remaining, RoomRec, Seat
      <3>2. j \in on
        <4>1. \E x \in on : \A k \in on : x <= k
          BY <2>5, <3>1, FirstExists
        <4> QED BY <4>1
      <3>3. SendMessageToClient(q.players[j], f.msg,
                <<Call("everyone", f.room, NoUser, j + 1, f.msg)>> \o Tail(stack))
        BY <1>2, <2>5 DEF DoEveryone
      <3> HIDE DEF j, on
      <3>4. j + 1 \in 0..MaxPlayer + 1
        BY <3>1, <3>2, ConstantsAssumption DEF Seat
      <3>5. Call("everyone", f.room, NoUser, j + 1, f.msg) \in SafeFrame
        BY <2>2, <3>4, FramesOK DEF Occupant
      <3>6. <<Call("everyone", f.room, NoUser, j + 1, f.msg)>> \o Tail(stack) \in Seq(SafeFrame)
        BY <2>3, <3>5, Push
      <3> QED BY <2>2, <3>3, <3>6, SendKeeps
    <2> QED BY <2>4, <2>5
  <1>3. CASE DoCreateDetail
    <2> DEFINE f == Head(stack)
               d == IF f.room \in rooms THEN GetDetailInfo(room[f.room]) ELSE NoDetail
    <2>1. Top("createDetail")
      BY <1>3 DEF DoCreateDetail
    <2>2. Tail(stack) \in Seq(SafeFrame) /\ f.user \in Occupant
      BY <2>1, RestOK DEF Frame
    <2>3. d \in Detail
      <3>1. NoDetail \in Detail
        BY DEF NoDetail, Detail, Option
      <3>2. f.room \in rooms => room[f.room] \in RoomRec
        BY Now
      <3> QED BY <3>1, <3>2, DetailOK
    <2>4. Send(f.user, DetailMsg(d)) \in SafeFrame
      <3>1. DetailMsg(d) \in Msg
        BY <2>3, MessagesOK
      <3> QED BY <2>2, <3>1, CallOK, ConstantsAssumption DEF Send, Op, RoomOp, UserOp
    <2>5. <<Send(f.user, DetailMsg(d))>> \o Tail(stack) \in Seq(SafeFrame)
      BY <2>2, <2>4, Push
    <2>6. /\ stack' = <<Send(f.user, DetailMsg(d))>> \o Tail(stack) /\ told' = told
          /\ UNCHANGED <<sess, person, belong, rooms, freeRoom, nextRoom, room,
                         serving, ticking, crashed>>
      BY <1>3 DEF DoCreateDetail
    <2> QED BY <2>5, <2>6, Now, OnlyStack
  <1>4. CASE DoJoinDetail
    <2> DEFINE r == Head(stack).room
               e == Everyone(r, DetailMsg(GetDetailInfo(room[r])))
    <2>1. Top("joinDetail")
      BY <1>4 DEF DoJoinDetail
    <2>2. Tail(stack) \in Seq(SafeFrame) /\ r \in rooms /\ r \in Room
      BY <2>1, RestOK, TopRoom DEF RoomOp
    <2>3. e \in SafeFrame
      BY <2>2, Now, DetailOK, MessagesOK, FramesOK, ConstantsAssumption DEF Occupant
    <2>4. <<e>> \o Tail(stack) \in Seq(SafeFrame)
      BY <2>2, <2>3, Push
    <2>5. /\ stack' = <<e>> \o Tail(stack) /\ told' = told
          /\ UNCHANGED <<sess, person, belong, rooms, freeRoom, nextRoom, room,
                         serving, ticking, crashed>>
      BY <1>4, <2>2 DEF DoJoinDetail, JoinedRoom
    <2> QED BY <2>4, <2>5, Now, OnlyStack
  <1> QED BY <1>1, <1>2, <1>3, <1>4

\* The start of a game, and the turn of a room in OnTick
LEMMA SchedulingSteps ==
    ASSUME IInv, DoGameStart \/ DoOnTick \/ DoKick
    PROVE  IInv'
  <1> DEFINE r == Head(stack).room
  <1>1. Top("gameStart") \/ Top("onTick") \/ Top("kick")
    BY DEF DoGameStart, DoOnTick, DoKick
  <1>2. /\ r \in Room /\ r \in rooms /\ room[r] \in RoomRec
        /\ Head(stack).seat \in 0..MaxPlayer + 1
        /\ Tail(stack) \in Seq(SafeFrame)
    BY <1>1, TopRoom, RestOK DEF RoomOp
  <1>3. NoUser \in Occupant /\ 1 \in 0..MaxPlayer + 1 /\ 0 \in 0..MaxPlayer + 1
    BY ConstantsAssumption DEF Occupant
  <1>4. UNCHANGED <<sess, person, belong, rooms, freeRoom, nextRoom, room, told,
                    serving, ticking, crashed>>
    BY DEF DoGameStart, DoOnTick, DoKick
  <1>5. /\ Everyone(r, Message("SCGameStart")) \in SafeFrame
        /\ Everyone(r, Message("SCFrameMess")) \in SafeFrame
        /\ RoomCall("startSet", r) \in SafeFrame
        /\ RoomCall("gameStart", r) \in SafeFrame
        /\ SeatCall("kick", r, 1) \in SafeFrame
    BY <1>2, <1>3, FramesOK, MessagesOK DEF MsgId
  <1>6. CASE DoGameStart
    <2>1. <<Everyone(r, Message("SCGameStart")), RoomCall("startSet", r)>> \o Tail(stack)
            \in Seq(SafeFrame)
      BY <1>2, <1>5, Push
    <2>2. stack' \in Seq(SafeFrame)
      BY <1>2, <1>6, <2>1 DEF DoGameStart
    <2> QED BY <1>4, <2>2, Now, OnlyStack
  <1>7. CASE DoOnTick
    <2>1. /\ <<SeatCall("kick", r, 1)>> \o Tail(stack) \in Seq(SafeFrame)
          /\ <<Everyone(r, Message("SCFrameMess"))>> \o Tail(stack) \in Seq(SafeFrame)
      BY <1>2, <1>5, Push
    <2>2. stack' \in Seq(SafeFrame)
      BY <1>2, <1>7, <2>1 DEF DoOnTick
    <2> QED BY <1>4, <2>2, Now, OnlyStack
  <1>8. CASE DoKick
    <2> DEFINE f == Head(stack)
               late == NotLoaded(room[f.room], f.seat)
               j == CHOOSE j \in late : \A k \in late : j <= k
               v == room[f.room].players[j]
    <2>1. CASE late = {}
      <3>1. <<RoomCall("gameStart", r)>> \o Tail(stack) \in Seq(SafeFrame)
        BY <1>2, <1>5, Push
      <3>2. stack' = <<RoomCall("gameStart", r)>> \o Tail(stack)
        BY <1>8, <2>1 DEF DoKick
      <3> QED BY <1>4, <3>1, <3>2, Now, OnlyStack
    <2>2. CASE late # {}
      <3>1. late \subseteq Seat /\ late \subseteq Nat
        BY <1>2, ConstantsAssumption DEF NotLoaded, RoomRec, Seat
      <3>2. j \in late
        <4>1. \E x \in late : \A k \in late : x <= k
          BY <2>2, <3>1, FirstExists
        <4> QED BY <4>1
      <3>3. stack' = <<UserCall("deleteClient", 0, v),
                       SeatCall("kick", r, j + 1)>> \o Tail(stack)
        BY <1>8, <2>2 DEF DoKick
      <3> HIDE DEF late, j
      <3>4. j \in Seat /\ j + 1 \in 0..MaxPlayer + 1
        BY <3>1, <3>2, ConstantsAssumption DEF Seat
      <3>5. v \in Occupant
        BY <1>2, <3>4 DEF RoomRec
      <3>6. UserCall("deleteClient", 0, v) \in SafeFrame /\ SeatCall("kick", r, j + 1) \in SafeFrame
        BY <1>2, <3>4, <3>5, FramesOK, MessagesOK
      <3>7. stack' \in Seq(SafeFrame)
        BY <1>2, <3>3, <3>6, Push
      <3> QED BY <1>4, <3>7, Now, OnlyStack
    <2> QED BY <2>1, <2>2
  <1> QED BY <1>6, <1>7, <1>8

\* A step that changes a room but not who sits where.
LEMMA SameSeats ==
    ASSUME IInv, NEW r \in Room, NEW q \in RoomRec, CountsOf(q),
           q.players = room[r].players, q.player_cnt = room[r].player_cnt,
           q.is_online = room[r].is_online,
           room' = [room EXCEPT ![r] = q], belong' = belong
    PROVE  /\ room' \in [Room -> RoomRec]
           /\ \A s \in Room : CountsOf(room'[s])
           /\ \A v \in User : belong'[v] # 0 =>
                 belong'[v] \in rooms /\ SeatsOf(room'[belong'[v]], v) # {}
  <1>1. \A v : SeatsOf(q, v) = SeatsOf(room[r], v)
    BY DEF SeatsOf
  <1> QED BY <1>1, SeatsKeep

\* Setting the status, the option, the team ids or the loaded seats of a room.
LEMMA FieldsOK ==
    ASSUME NEW q \in RoomRec
    PROVE  /\ [q EXCEPT !.status = "ingame"] \in RoomRec
           /\ [q EXCEPT !.late = TRUE] \in RoomRec
           /\ \A o \in Option : [q EXCEPT !.game_option = o] \in RoomRec
           /\ \A t \in [Seat -> Team] : [q EXCEPT !.team_id = t] \in RoomRec
           /\ \A S \in SUBSET Seat, n \in Int :
                [q EXCEPT !.is_loading_succeed = S, !.loading_succeed_cnt = n] \in RoomRec
  <1>2. [q EXCEPT !.status = "ingame"] \in RoomRec
    BY DEF RoomRec, Status
  <1>3. [q EXCEPT !.late = TRUE] \in RoomRec
    BY DEF RoomRec
  <1>4. ASSUME NEW o \in Option PROVE [q EXCEPT !.game_option = o] \in RoomRec
    BY DEF RoomRec
  <1>5. ASSUME NEW t \in [Seat -> Team] PROVE [q EXCEPT !.team_id = t] \in RoomRec
    BY DEF RoomRec
  <1>6. ASSUME NEW S \in SUBSET Seat, NEW n \in Int
        PROVE  [q EXCEPT !.is_loading_succeed = S, !.loading_succeed_cnt = n] \in RoomRec
    BY DEF RoomRec
  <1> QED BY <1>2, <1>3, <1>4, <1>5, <1>6

\* Room::SendGameLoading keeps the seats and clears the loaded ones.
LEMMA LoadingRoomOK ==
    ASSUME NEW q \in RoomRec, CountsOf(q)
    PROVE  /\ LoadingRoom(q) \in RoomRec /\ CountsOf(LoadingRoom(q))
           /\ LoadingRoom(q).players = q.players
           /\ LoadingRoom(q).player_cnt = q.player_cnt
           /\ LoadingRoom(q).is_online = q.is_online
  <1> DEFINE p == LoadingRoom(q)
  <1>1. ASSUME NEW a \in Status, NEW b \in Int, NEW c \in SUBSET Seat
        PROVE  [q EXCEPT !.status = a, !.loading_succeed_cnt = b,
                         !.is_loading_succeed = c, !.late = FALSE] \in RoomRec
    BY DEF RoomRec
  <1>2. p \in RoomRec
    <2>1. "loading" \in Status /\ 0 \in Int /\ {} \in SUBSET Seat
      BY DEF Status
    <2> QED BY ONLY <1>1, <2>1, Zenon DEF LoadingRoom
  <1>3. /\ p.players = q.players /\ p.player_cnt = q.player_cnt
        /\ p.is_online = q.is_online /\ p.online_player_cnt = q.online_player_cnt
        /\ p.is_loading_succeed = {} /\ p.loading_succeed_cnt = 0
        /\ p.status = "loading"
    BY DEF LoadingRoom, RoomRec
  <1>4. CountsOf(p)
    BY <1>3, FS_EmptySet DEF CountsOf
  <1> QED BY <1>2, <1>3, <1>4

\* The steps that finish a call begun earlier.
LEMMA FinishingSteps ==
    ASSUME IInv, StartInv,
           DoPersonGone \/ DoLeftWaiting \/ DoLeftLoading \/ DoLoadingSet \/ DoStartSet
    PROVE  IInv'
  <1> DEFINE r == Head(stack).room
  <1>1. CASE DoPersonGone \/ DoLeftWaiting
    <2>1. Top("personGone") \/ Top("leftWaiting")
      BY <1>1 DEF DoPersonGone, DoLeftWaiting
    <2>2. Tail(stack) \in Seq(SafeFrame)
      BY <2>1, RestOK
    <2>3. person' \in [User -> {"none", "hall", "room"}]
      BY <1>1, Now DEF DoPersonGone, DoLeftWaiting, ChangePersonStatus
    <2>4. /\ stack' = Tail(stack)
          /\ UNCHANGED <<sess, belong, rooms, freeRoom, nextRoom, room, told, serving,
                         ticking, crashed>>
      BY <1>1 DEF DoPersonGone, DoLeftWaiting
    <2> QED BY <2>2, <2>3, <2>4, Now, SameRooms
  <1>2. CASE DoLeftLoading
    <2> DEFINE i == Head(stack).seat
               q == room[r]
               p == [q EXCEPT !.is_loading_succeed = q.is_loading_succeed \ {i},
                              !.loading_succeed_cnt = q.loading_succeed_cnt - 1]
    <2>1. Top("leftLoading")
      BY <1>2 DEF DoLeftLoading
    <2>2. r \in Room /\ r \in rooms /\ q \in RoomRec /\ CountsOf(q)
      BY <2>1, TopRoom DEF RoomOp
    <2>3. Tail(stack) \in Seq(SafeFrame)
      BY <2>1, RestOK
    <2>4. UNCHANGED <<sess, person, belong, rooms, freeRoom, nextRoom, told, serving,
                      ticking, crashed>>
      BY <1>2 DEF DoLeftLoading
    <2>5. CASE i \in q.is_loading_succeed
      <3>1. /\ q.is_loading_succeed \ {i} \in SUBSET Seat /\ q.loading_succeed_cnt - 1 \in Int
            /\ q.is_loading_succeed \in SUBSET Seat
        BY <2>2 DEF RoomRec
      <3>2. p \in RoomRec
        BY <2>2, <3>1, FieldsOK
      <3>3. /\ p.is_loading_succeed = q.is_loading_succeed \ {i}
            /\ p.loading_succeed_cnt = q.loading_succeed_cnt - 1
            /\ p.players = q.players /\ p.player_cnt = q.player_cnt
            /\ p.is_online = q.is_online /\ p.online_player_cnt = q.online_player_cnt
            /\ p.status = q.status
        BY <2>2 DEF RoomRec
      <3>4. Cardinality(q.is_loading_succeed \ {i}) = Cardinality(q.is_loading_succeed) - 1
        BY <2>5, <3>1, SeatsFinite, FS_RemoveElement
      <3>5. CountsOf(p)
        BY <2>2, <3>3, <3>4 DEF CountsOf
      <3>6. room' = [room EXCEPT ![r] = p] /\ stack' = Tail(stack)
        BY <1>2, <2>5 DEF DoLeftLoading
      <3> HIDE DEF p
      <3>7. /\ room' \in [Room -> RoomRec]
            /\ \A s \in Room : CountsOf(room'[s])
            /\ \A v \in User : belong'[v] # 0 =>
                 belong'[v] \in rooms /\ SeatsOf(room'[belong'[v]], v) # {}
        BY <2>2, <2>4, <3>2, <3>3, <3>5, <3>6, SameSeats
      <3> QED BY <2>3, <2>4, <3>6, <3>7, Now, SameRooms
    <2>6. CASE i \notin q.is_loading_succeed
      <3>1. <<RoomCall("gameStart", r)>> \o Tail(stack) \in Seq(SafeFrame)
        BY <2>2, <2>3, FramesOK, MessagesOK, Push, ConstantsAssumption DEF Occupant
      <3>2. stack' \in Seq(SafeFrame) /\ room' = room
        BY <1>2, <2>3, <2>6, <3>1 DEF DoLeftLoading
      <3> QED BY <2>4, <3>2, Now, OnlyStack
    <2> QED BY <2>5, <2>6
  <1>3. CASE DoLoadingSet \/ DoStartSet
    <2>1. Top("loadingSet") \/ Top("startSet")
      BY <1>3 DEF DoLoadingSet, DoStartSet
    <2>2. r \in Room /\ r \in rooms /\ room[r] \in RoomRec /\ CountsOf(room[r])
      BY <2>1, TopRoom DEF RoomOp
    <2>3. Tail(stack) \in Seq(SafeFrame)
      BY <2>1, RestOK
    <2>4. /\ stack' = Tail(stack)
          /\ UNCHANGED <<sess, person, belong, rooms, freeRoom, nextRoom, told, serving,
                         ticking, crashed>>
      BY <1>3 DEF DoLoadingSet, DoStartSet
    <2>5. LoadingRoom(room[r]) \in RoomRec /\ CountsOf(LoadingRoom(room[r]))
          /\ LoadingRoom(room[r]).players = room[r].players
          /\ LoadingRoom(room[r]).player_cnt = room[r].player_cnt
          /\ LoadingRoom(room[r]).is_online = room[r].is_online
      BY <2>2, LoadingRoomOK
    <2>6. PICK x : x = [room[r] EXCEPT !.status = "ingame"]
      OBVIOUS
    <2>7. /\ x \in RoomRec /\ x.players = room[r].players /\ x.player_cnt = room[r].player_cnt
          /\ x.is_online = room[r].is_online /\ x.status = "ingame"
          /\ x.online_player_cnt = room[r].online_player_cnt
          /\ x.is_loading_succeed = room[r].is_loading_succeed
          /\ x.loading_succeed_cnt = room[r].loading_succeed_cnt
      <3>1. x \in RoomRec
        BY <2>2, <2>6, FieldsOK
      <3> QED BY <2>2, <2>6, <3>1 DEF RoomRec
    <2>8. DoStartSet => CountsOf(x)
      <3>1. DoStartSet => Head(stack).op = "startSet" /\ Head(stack) \in Calls(stack)
        BY CallsOfTop DEF DoStartSet, Top, IInv, TypeOK
      <3>2. DoStartSet => room[r].status # "waiting"
        BY <3>1 DEF StartInv
      <3> QED BY <2>2, <2>7, <3>2 DEF CountsOf
    <2>9. /\ \/ room' = [room EXCEPT ![r] = LoadingRoom(room[r])]
             \/ DoStartSet /\ room' = [room EXCEPT ![r] = x]
      BY <1>3, <2>6 DEF DoLoadingSet, DoStartSet
    <2>10. /\ room' \in [Room -> RoomRec]
           /\ \A s \in Room : CountsOf(room'[s])
           /\ \A v \in User : belong'[v] # 0 =>
                belong'[v] \in rooms /\ SeatsOf(room'[belong'[v]], v) # {}
      BY <2>2, <2>4, <2>5, <2>7, <2>8, <2>9, SameSeats
    <2> QED BY <2>3, <2>4, <2>10, Now, SameRooms
  <1> QED BY <1>1, <1>2, <1>3

\* MessageHandler::DeleteClientByFD
LEMMA DeleteClientStep ==
    ASSUME IInv, DoDeleteClient
    PROVE  IInv'
  <1> DEFINE u == Head(stack).user
             rest == <<UserCall("personGone", 0, u)>> \o Tail(stack)
  <1>1. Top("deleteClient")
    BY DEF DoDeleteClient
  <1>2. Tail(stack) \in Seq(SafeFrame)
    BY <1>1, RestOK
  <1>3. UNCHANGED <<person, rooms, freeRoom, nextRoom, serving, ticking, crashed>>
    BY DEF DoDeleteClient
  <1>4. CASE u \notin sess
    <2>1. stack' = Tail(stack) /\ UNCHANGED <<sess, belong, room, told>>
      BY <1>4 DEF DoDeleteClient
    <2> QED BY <1>2, <1>3, <2>1, Now, OnlyStack
  <1>5. CASE u \in sess
    <2>1. u \in User /\ u \in Occupant
      BY <1>5, Now DEF Occupant
    <2>2. UserCall("personGone", 0, u) \in SafeFrame
      BY <2>1, CallOK, MessagesOK, ConstantsAssumption DEF UserCall, Op, RoomOp, UserOp
    <2>3. rest \in Seq(SafeFrame)
      BY <1>2, <2>2, Push
    <2>4. sess' \subseteq User
      BY <1>5, Now DEF DoDeleteClient
    <2>5. CASE person[u] = "room"
      <3>1. DeletePlayerFromRoom(u, rest)
        BY <1>5, <2>5 DEF DoDeleteClient
      <3> HIDE DEF rest, u
      <3>2. /\ belong' \in [User -> 0..MaxRoom] /\ told' \in [User -> Told]
            /\ room' \in [Room -> RoomRec] /\ \A s \in Room : CountsOf(room'[s])
            /\ \A v \in User : belong'[v] # 0 =>
                 belong'[v] \in rooms /\ SeatsOf(room'[belong'[v]], v) # {}
            /\ stack' \in Seq(SafeFrame)
        BY <2>1, <2>3, <3>1, DeleteKeeps
      <3> QED BY <1>3, <2>4, <3>2, Now, SameRooms
    <2>6. CASE person[u] # "room"
      <3>1. stack' = rest /\ UNCHANGED <<belong, room, told>>
        BY <1>5, <2>6 DEF DoDeleteClient
      <3> HIDE DEF rest, u
      <3> QED BY <1>3, <2>3, <2>4, <3>1, Now, SameRooms
    <2> QED BY <2>5, <2>6
  <1> QED BY <1>4, <1>5

\* RoomManager::GameEndFromRoom
LEMMA GameEndStep ==
    ASSUME IInv, DoGameEndFrom
    PROVE  IInv'
  <1> DEFINE u == Head(stack).user
             r == belong[u]
             pos == IF r = 0 THEN 0 ELSE GetPlayerID(room[r], u)
  <1>1. Top("gameEndFrom")
    BY DEF DoGameEndFrom
  <1>2. Tail(stack) \in Seq(SafeFrame) /\ u \in User
    BY <1>1, RestOK DEF Frame, UserOp
  <1>3. /\ stack' = Tail(stack) /\ belong' = [belong EXCEPT ![u] = 0]
        /\ told' = [told EXCEPT ![u] = Untold]
        /\ UNCHANGED <<sess, rooms, freeRoom, nextRoom, serving, ticking, crashed>>
    BY DEF DoGameEndFrom
  <1>4. /\ belong' \in [User -> 0..MaxRoom] /\ told' \in [User -> Told]
        /\ \A v \in User : belong'[v] # 0 => v # u /\ belong'[v] = belong[v]
    BY <1>2, <1>3, Now, MessagesOK, ConstantsAssumption
  <1>5. person' \in [User -> {"none", "hall", "room"}]
    BY Now DEF DoGameEndFrom, ChangePersonStatus
  <1>6. CASE ~(pos # 0 /\ room[r].status = "ingame")
    <2>1. room' = room
      BY <1>6 DEF DoGameEndFrom
    <2>2. \A v \in User : belong'[v] # 0 =>
             belong'[v] \in rooms /\ SeatsOf(room'[belong'[v]], v) # {}
      BY <1>4, <2>1, Now
    <2> HIDE DEF u, r, pos
    <2> QED BY <1>2, <1>3, <1>4, <1>5, <2>1, <2>2, Now, SameRooms
  <1>7. CASE pos # 0 /\ room[r].status = "ingame"
    <2>1. room' = [room EXCEPT ![r] = SeatOffline(room[r], pos)]
      BY <1>7 DEF DoGameEndFrom
    <2>2. r # 0 /\ pos = GetPlayerID(room[r], u)
      BY <1>7
    <2>3. r \in Room /\ r \in rooms /\ room[r] \in RoomRec /\ CountsOf(room[r])
      BY <1>2, <2>2, BelongRoom
    <2>4. pos \in SeatsOf(room[r], u)
      BY <1>7, <2>2, <2>3, GetPlayerIDSeat
    <2> HIDE DEF u, r, pos
    <2>5. /\ SeatOffline(room[r], pos) \in RoomRec
          /\ CountsOf(SeatOffline(room[r], pos))
          /\ \A v \in User \ {u} : SeatsOf(room[r], v) # {} =>
               SeatsOf(SeatOffline(room[r], pos), v) # {}
      BY <1>2, <1>7, <2>3, <2>4, SeatOfflineOK
    <2>6. \A v \in User : belong'[v] = r /\ SeatsOf(room[r], v) # {} =>
               SeatsOf(SeatOffline(room[r], pos), v) # {}
      BY <1>4, <2>2, <2>5
    <2>7. /\ room' \in [Room -> RoomRec] /\ \A s \in Room : CountsOf(room'[s])
          /\ \A v \in User : belong'[v] # 0 =>
               belong'[v] \in rooms /\ SeatsOf(room'[belong'[v]], v) # {}
      BY <1>4, <2>1, <2>3, <2>5, <2>6, SeatsKeep
    <2> QED BY <1>2, <1>3, <1>4, <1>5, <2>7, Now, SameRooms
  <1> QED BY <1>6, <1>7

\* A user logs in, or his connection ends.
LEMMA SessionSteps ==
    ASSUME IInv, NEW u \in User, CSLogin(u) \/ Disconnect(u)
    PROVE  IInv'
  <1>1. u \in Occupant /\ NoUser \in Occupant
    BY DEF Occupant
  <1>2. UserCall("deleteClient", 0, u) \in SafeFrame /\ Send(u, Message("SCLogin")) \in SafeFrame
    BY <1>1, CallOK, MessagesOK, ConstantsAssumption DEF UserCall, Send, Op, RoomOp, UserOp, MsgId
  <1>4. CASE CSLogin(u)
    <2>1. /\ person' \in [User -> {"none", "hall", "room"}] /\ sess' \subseteq User
          /\ serving' \in Occupant /\ stack' = <<Send(u, Message("SCLogin"))>>
          /\ UNCHANGED <<belong, rooms, freeRoom, nextRoom, room, told, ticking, crashed>>
      BY <1>1, <1>4, Now DEF CSLogin
    <2>2. stack' \in Seq(SafeFrame)
      BY <1>2, <2>1
    <2> QED BY <2>1, <2>2, Now, SameRooms
  <1>5. CASE Disconnect(u)
    <2>1. stack' \in Seq(SafeFrame)
      BY <1>2, <1>5 DEF Disconnect
    <2>2. UNCHANGED <<sess, person, belong, rooms, freeRoom, nextRoom, room, told,
                      serving, ticking, crashed>>
      BY <1>5 DEF Disconnect
    <2> QED BY <2>1, <2>2, Now, OnlyStack
  <1> QED BY <1>4, <1>5

\* Handlers that look at the rooms without changing one.
LEMMA ReadingHandlers ==
    ASSUME IInv, NEW u \in User, CSPullAllRoomInfo(u) \/ CSReadyToStart(u) \/ CSGameEnd(u)
    PROVE  IInv'
  <1> DEFINE r == belong[u]
  <1>1. u \in Occupant /\ 0 \in 0..MaxRoom /\ 0 \in 0..MaxPlayer + 1
    BY ConstantsAssumption DEF Occupant
  <1>2. /\ Send(u, Message("SCPullAllRoomInfo")) \in SafeFrame
        /\ Send(u, Message("SCGameEnd")) \in SafeFrame
        /\ UserCall("gameEndFrom", 0, u) \in SafeFrame
    BY <1>1, CallOK, MessagesOK DEF UserCall, Send, Op, RoomOp, UserOp, MsgId
  <1>3. CSReadyToStart(u) => /\ Everyone(r, Message("SCGameLoading")) \in SafeFrame
                             /\ RoomCall("loadingSet", r) \in SafeFrame
    <2>1. CSReadyToStart(u) => r # 0
      BY DEF CSReadyToStart
    <2> QED BY <1>1, <2>1, BelongRoom, FramesOK, MessagesOK DEF MsgId
  <1>4. /\ serving' = u
        /\ UNCHANGED <<sess, person, belong, rooms, freeRoom, nextRoom, room, told,
                       ticking, crashed>>
    BY DEF CSPullAllRoomInfo, CSReadyToStart, CSGameEnd, Serve
  <1>5. stack' \in Seq(SafeFrame)
    <2>1. CASE CSPullAllRoomInfo(u)
      <3>1. stack' = <<Send(u, Message("SCPullAllRoomInfo"))>>
        BY <2>1 DEF CSPullAllRoomInfo, Serve
      <3> QED BY <1>2, <3>1
    <2>2. CASE CSReadyToStart(u)
      <3>1. stack' = <<Everyone(r, Message("SCGameLoading")), RoomCall("loadingSet", r)>>
        BY <2>2 DEF CSReadyToStart, Serve
      <3> QED BY <1>3, <2>2, <3>1
    <2>3. CASE CSGameEnd(u)
      <3>1. stack' = <<Send(u, Message("SCGameEnd")), UserCall("gameEndFrom", 0, u)>>
        BY <2>3 DEF CSGameEnd, Serve
      <3> QED BY <1>2, <3>1
    <2> QED BY <2>1, <2>2, <2>3
  <1> QED BY <1>1, <1>4, <1>5, Now, SameRooms

\* MP_CSPlayerExitRoom
LEMMA ExitRoomStep ==
    ASSUME IInv, NEW u \in User, CSPlayerExitRoom(u)
    PROVE  IInv'
  <1> DEFINE r == belong[u]
             reply == <<Everyone(r, Message("SCPlayerExitRoom"))>>
  <1>1. u \in Occupant
    BY DEF Occupant
  <1>2. UNCHANGED <<sess, person, rooms, freeRoom, nextRoom, ticking>>
    BY DEF CSPlayerExitRoom
  <1>3. CASE r = 0
    <2>1. crashed' = "exit" /\ UNCHANGED <<belong, room, told, stack, serving>>
      BY <1>3 DEF CSPlayerExitRoom
    <2> QED BY <1>2, <2>1, Now, SameRooms
  <1>4. CASE r # 0
    <2>1. r \in Room /\ r \in rooms
      BY <1>4, BelongRoom
    <2>2. Everyone(r, Message("SCPlayerExitRoom")) \in SafeFrame
      BY <1>1, <2>1, FramesOK, MessagesOK, ConstantsAssumption DEF MsgId
    <2>3. reply \in Seq(SafeFrame)
      BY <2>2
    <2>4. serving' = u /\ crashed' = crashed
      BY <1>4 DEF CSPlayerExitRoom
    <2>5. CASE room[r].status = "waiting"
      <3>1. DeletePlayerFromRoom(u, reply)
        BY <1>4, <2>5 DEF CSPlayerExitRoom
      <3> HIDE DEF reply, r
      <3>2. /\ belong' \in [User -> 0..MaxRoom] /\ told' \in [User -> Told]
            /\ room' \in [Room -> RoomRec] /\ \A s \in Room : CountsOf(room'[s])
            /\ \A v \in User : belong'[v] # 0 =>
                 belong'[v] \in rooms /\ SeatsOf(room'[belong'[v]], v) # {}
            /\ stack' \in Seq(SafeFrame)
        BY <2>3, <3>1, DeleteKeeps
      <3> QED BY <1>1, <1>2, <2>4, <3>2, Now, SameRooms
    <2>6. CASE room[r].status # "waiting"
      <3>1. stack' = reply /\ UNCHANGED <<belong, room, told>>
        BY <1>4, <2>6 DEF CSPlayerExitRoom
      <3> HIDE DEF reply, r
      <3> QED BY <1>1, <1>2, <2>3, <2>4, <3>1, Now, SameRooms
    <2> QED BY <2>5, <2>6
  <1> QED BY <1>3, <1>4

\* A handler that sets fields of the user's room other than its seats.
LEMMA RoomHandler ==
    ASSUME IInv, NEW u \in User, belong[u] # 0, NEW q \in RoomRec, CountsOf(q),
           q.players = room[belong[u]].players,
           q.player_cnt = room[belong[u]].player_cnt,
           q.is_online = room[belong[u]].is_online,
           room' = [room EXCEPT ![belong[u]] = q],
           NEW calls \in Seq(SafeFrame), Serve(u, calls),
           UNCHANGED <<person, belong, rooms, told>>
    PROVE  IInv'
  <1>1. u \in Occupant
    BY DEF Occupant
  <1>2. /\ serving' = u /\ stack' = calls
        /\ UNCHANGED <<sess, nextRoom, freeRoom, ticking, crashed>>
    BY DEF Serve
  <1>3. /\ room' \in [Room -> RoomRec] /\ \A s \in Room : CountsOf(room'[s])
        /\ \A v \in User : belong'[v] # 0 =>
             belong'[v] \in rooms /\ SeatsOf(room'[belong'[v]], v) # {}
    BY BelongRoom, SameSeats
  <1> QED BY <1>1, <1>2, <1>3, Now, SameRooms

\* MP_CSChangeTeam, both of its halves
LEMMA ChangeTeamStep ==
    ASSUME IInv, NEW u \in User,
           (\E t \in TeamId : CSChangeTeam(u, t)) \/ (\E o \in GameOption : CSChangeOption(u, o))
    PROVE  IInv'
  <1> DEFINE r == belong[u]
             pos == GetPlayerID(room[r], u)
  <1>1. r # 0
    BY DEF CSChangeTeam, CSChangeOption
  <1>2. r \in Room /\ r \in rooms /\ room[r] \in RoomRec /\ CountsOf(room[r])
    BY <1>1, BelongRoom
  <1>3. ASSUME NEW q \in RoomRec
        PROVE  <<Everyone(r, DetailMsg(GetDetailInfo(q)))>> \in Seq(SafeFrame)
    <2>1. Everyone(r, DetailMsg(GetDetailInfo(q))) \in SafeFrame
      BY <1>2, DetailOK, MessagesOK, FramesOK, ConstantsAssumption DEF Occupant
    <2> QED BY <2>1
  <1>4. ASSUME NEW t \in TeamId, CSChangeTeam(u, t) PROVE IInv'
    <2> DEFINE f == [room[r].team_id EXCEPT ![pos] = t]
               q == [room[r] EXCEPT !.team_id = f]
    <2>1. f \in [Seat -> Team]
      BY <1>2 DEF RoomRec, Team
    <2>2. q \in RoomRec
      BY <1>2, <2>1, FieldsOK
    <2>3. /\ q.players = room[r].players /\ q.player_cnt = room[r].player_cnt
          /\ q.is_online = room[r].is_online /\ q.status = room[r].status
          /\ q.online_player_cnt = room[r].online_player_cnt
          /\ q.is_loading_succeed = room[r].is_loading_succeed
          /\ q.loading_succeed_cnt = room[r].loading_succeed_cnt
      BY <1>2 DEF RoomRec
    <2>4. CountsOf(q)
      BY <1>2, <2>3 DEF CountsOf
    <2>5. /\ room' = [room EXCEPT ![r] = q]
          /\ Serve(u, <<Everyone(r, DetailMsg(GetDetailInfo(q)))>>)
          /\ UNCHANGED <<person, belong, rooms, told>>
      BY <1>4 DEF CSChangeTeam
    <2>6. <<Everyone(r, DetailMsg(GetDetailInfo(q)))>> \in Seq(SafeFrame)
      BY <1>3, <2>2
    <2> HIDE DEF q
    <2> QED BY <1>1, <2>2, <2>3, <2>4, <2>5, <2>6, RoomHandler
  <1>5. ASSUME NEW o \in GameOption, CSChangeOption(u, o) PROVE IInv'
    <2> DEFINE q == IF pos = 1 THEN [room[r] EXCEPT !.game_option = o] ELSE room[r]
    <2>1. q \in RoomRec
      BY <1>2, FieldsOK DEF Option
    <2>2. /\ q.players = room[r].players /\ q.player_cnt = room[r].player_cnt
          /\ q.is_online = room[r].is_online /\ q.status = room[r].status
          /\ q.online_player_cnt = room[r].online_player_cnt
          /\ q.is_loading_succeed = room[r].is_loading_succeed
          /\ q.loading_succeed_cnt = room[r].loading_succeed_cnt
      BY <1>2 DEF RoomRec
    <2>3. CountsOf(q)
      BY <1>2, <2>2 DEF CountsOf
    <2>4. /\ room' = [room EXCEPT ![r] = q]
          /\ Serve(u, <<Everyone(r, DetailMsg(GetDetailInfo(q)))>>)
          /\ UNCHANGED <<person, belong, rooms, told>>
      BY <1>5 DEF CSChangeOption
    <2>5. <<Everyone(r, DetailMsg(GetDetailInfo(q)))>> \in Seq(SafeFrame)
      BY <1>3, <2>1
    <2> HIDE DEF q
    <2> QED BY <1>1, <2>1, <2>2, <2>3, <2>4, <2>5, RoomHandler
  <1> QED BY <1>4, <1>5

\* MP_CSLoadSucceed
LEMMA LoadSucceedStep ==
    ASSUME IInv, NEW u \in User, CSLoadSucceed(u)
    PROVE  IInv'
  <1> DEFINE r == belong[u]
             pos == GetPlayerID(room[r], u)
             S == room[r].is_loading_succeed \cup {pos}
             n == room[r].loading_succeed_cnt + 1
             q == [room[r] EXCEPT !.is_loading_succeed = S, !.loading_succeed_cnt = n]
             calls == IF EveryoneLoaded(q) THEN <<RoomCall("gameStart", r)>> ELSE <<>>
  <1>1. /\ r # 0 /\ pos # 0 /\ pos \notin room[r].is_loading_succeed
        /\ room' = [room EXCEPT ![r] = q] /\ Serve(u, calls)
        /\ UNCHANGED <<person, belong, rooms, told>>
    BY DEF CSLoadSucceed
  <1>2. r \in Room /\ r \in rooms /\ room[r] \in RoomRec /\ CountsOf(room[r])
    BY <1>1, BelongRoom
  <1>3. pos \in Seat
    BY <1>1, <1>2, GetPlayerIDSeat, ConstantsAssumption DEF Seat
  <1> HIDE DEF pos
  <1>4. /\ S \in SUBSET Seat /\ n \in Int /\ room[r].is_loading_succeed \in SUBSET Seat
        /\ room[r].loading_succeed_cnt \in Int
    BY <1>2, <1>3 DEF RoomRec
  <1>5. q \in RoomRec
    BY <1>2, <1>4, FieldsOK
  <1>6. /\ q.players = room[r].players /\ q.player_cnt = room[r].player_cnt
        /\ q.is_online = room[r].is_online /\ q.status = room[r].status
        /\ q.online_player_cnt = room[r].online_player_cnt
        /\ q.is_loading_succeed = S /\ q.loading_succeed_cnt = n
    BY <1>2 DEF RoomRec
  <1>7. Cardinality(S) = Cardinality(room[r].is_loading_succeed) + 1
    BY <1>1, <1>4, SeatsFinite, FS_AddElement
  <1>8. CountsOf(q)
    BY <1>2, <1>6, <1>7 DEF CountsOf
  <1>9. RoomCall("gameStart", r) \in SafeFrame
    BY <1>2, FramesOK, MessagesOK, ConstantsAssumption DEF Occupant
  <1>10. calls \in Seq(SafeFrame)
    BY <1>9
  <1> HIDE DEF q, calls
  <1> QED BY <1>1, <1>5, <1>6, <1>8, <1>10, RoomHandler

\* The clock
LEMMA TimeStep ==
    ASSUME IInv, NEW r \in Room, LoadingTimePasses(r)
    PROVE  IInv'
  <1> DEFINE q == [room[r] EXCEPT !.late = TRUE]
  <1>1. room[r] \in RoomRec /\ CountsOf(room[r])
    BY Now
  <1>2. q \in RoomRec
    BY <1>1, FieldsOK
  <1>3. /\ q.players = room[r].players /\ q.player_cnt = room[r].player_cnt
        /\ q.is_online = room[r].is_online /\ q.status = room[r].status
        /\ q.online_player_cnt = room[r].online_player_cnt
        /\ q.is_loading_succeed = room[r].is_loading_succeed
        /\ q.loading_succeed_cnt = room[r].loading_succeed_cnt
    BY <1>1 DEF RoomRec
  <1>4. CountsOf(q)
    BY <1>1, <1>3 DEF CountsOf
  <1>5. /\ room' = [room EXCEPT ![r] = q]
        /\ UNCHANGED <<sess, person, belong, rooms, freeRoom, nextRoom, told, stack,
                       serving, ticking, crashed>>
    BY DEF LoadingTimePasses
  <1> HIDE DEF q
  <1>6. /\ room' \in [Room -> RoomRec] /\ \A s \in Room : CountsOf(room'[s])
        /\ \A v \in User : belong'[v] # 0 =>
             belong'[v] \in rooms /\ SeatsOf(room'[belong'[v]], v) # {}
    BY <1>2, <1>3, <1>4, <1>5, SameSeats
  <1> QED BY <1>5, <1>6, Now, SameRooms

\* MP_CSJoinRoom
LEMMA JoinRoomStep ==
    ASSUME IInv, NEW u \in User, NEW r \in Room, CSJoinRoom(u, r)
    PROVE  IInv'
  <1>1. u \in Occupant /\ 0 \in 0..MaxRoom /\ 0 \in 0..MaxPlayer + 1
    BY ConstantsAssumption DEF Occupant
  <1>2. CASE CanJoin(u, r)
    <2> DEFINE q == AddPlayer(room[r], u)
    <2>1. /\ room' = [room EXCEPT ![r] = q] /\ belong' = [belong EXCEPT ![u] = r]
          /\ person' \in [User -> {"none", "hall", "room"}]
          /\ stack' = <<Send(u, Message("SCJoinRoom")), RoomCall("joinDetail", r)>>
          /\ serving' = u
          /\ UNCHANGED <<sess, rooms, told, nextRoom, freeRoom, ticking, crashed>>
      BY <1>2, Now DEF CSJoinRoom, Serve, ChangePersonStatus
    <2>2. /\ r \in rooms /\ room[r] \in RoomRec /\ CountsOf(room[r])
          /\ room[r].status = "waiting" /\ room[r].player_cnt < MaxPlayer
      BY <1>2, Now DEF CanJoin
    <2>3. /\ q \in RoomRec /\ CountsOf(q) /\ SeatsOf(q, u) # {}
          /\ \A v \in User : SeatsOf(room[r], v) # {} => SeatsOf(q, v) # {}
      BY <2>2, AddPlayerOK
    <2> HIDE DEF q
    <2>4. /\ Send(u, Message("SCJoinRoom")) \in SafeFrame
          /\ RoomCall("joinDetail", r) \in SafeFrame
      BY <1>1, <2>2, FramesOK, MessagesOK DEF MsgId
    <2>5. stack' \in Seq(SafeFrame)
      BY <2>1, <2>4
    <2>6. belong' \in [User -> 0..MaxRoom]
      BY <2>1, Now DEF Room
    <2>7. room' \in [Room -> RoomRec] /\ \A s \in Room : room'[s] = IF s = r THEN q ELSE room[s]
      BY <2>1, <2>3, Now
    <2>8. \A s \in Room : CountsOf(room'[s])
      BY <2>3, <2>7, Now
    <2>9. ASSUME NEW v \in User, belong'[v] # 0
          PROVE  belong'[v] \in rooms /\ SeatsOf(room'[belong'[v]], v) # {}
      <3>1. CASE v = u
        BY <2>1, <2>2, <2>3, <2>7, <3>1, Now
      <3>2. CASE v # u
        <4>1. belong'[v] = belong[v] /\ belong[v] # 0
          BY <2>1, <2>9, <3>2, Now
        <4>2. belong[v] \in Room /\ belong[v] \in rooms /\ SeatsOf(room[belong[v]], v) # {}
          BY <4>1, BelongRoom, Now
        <4> QED BY <2>3, <2>7, <4>1, <4>2
      <3> QED BY <3>1, <3>2
    <2> QED BY <1>1, <2>1, <2>5, <2>6, <2>7, <2>8, <2>9, Now, SameRooms
  <1>3. CASE ~CanJoin(u, r)
    <2>1. /\ stack' = <<Send(u, Message("SCJoinRoomFailed"))>> /\ serving' = u
          /\ UNCHANGED <<sess, person, belong, room, rooms, told, nextRoom, freeRoom,
                         ticking, crashed>>
      BY <1>3 DEF CSJoinRoom, Serve
    <2>2. Send(u, Message("SCJoinRoomFailed")) \in SafeFrame
      BY <1>1, CallOK, MessagesOK DEF Send, Op, RoomOp, UserOp, MsgId
    <2>3. stack' \in Seq(SafeFrame)
      BY <2>1, <2>2
    <2> QED BY <1>1, <2>1, <2>3, Now, SameRooms
  <1> QED BY <1>2, <1>3

\* MP_CSCreateRoom: the room it takes, queued or new, is nobody's.
LEMMA CreateRoomStep ==
    ASSUME IInv, NEW u \in User, NEW m \in TeamMode, CSCreateRoom(u, m)
    PROVE  IInv'
  <1>1. u \in Occupant /\ 0 \in 0..MaxRoom /\ 0 \in 0..MaxPlayer + 1 /\ m \in {1, 2}
    BY ConstantsAssumption DEF Occupant
  <1>2. CASE belong[u] # 0
    <2>1. /\ stack' = <<Send(u, Message("SCCreateRoomFailed"))>> /\ serving' = u
          /\ UNCHANGED <<sess, person, belong, rooms, freeRoom, nextRoom, room, told,
                         ticking, crashed>>
      BY <1>2 DEF CSCreateRoom
    <2>2. Send(u, Message("SCCreateRoomFailed")) \in SafeFrame
      BY <1>1, CallOK, MessagesOK DEF Send, Op, RoomOp, UserOp, MsgId
    <2>3. stack' \in Seq(SafeFrame)
      BY <2>1, <2>2
    <2> QED BY <1>1, <2>1, <2>3, Now, SameRooms
  <1>3. CASE belong[u] = 0
    <2> DEFINE r == IF freeRoom # <<>> THEN Head(freeRoom) ELSE nextRoom
               q == AddPlayer(InitRoom(room[r], m), u)
    <2>1. /\ freeRoom # <<>> \/ nextRoom <= MaxRoom
          /\ IF freeRoom # <<>> THEN freeRoom' = Tail(freeRoom) /\ nextRoom' = nextRoom
                                ELSE freeRoom' = freeRoom /\ nextRoom' = nextRoom + 1
          /\ belong' = [belong EXCEPT ![u] = r] /\ rooms' = rooms \cup {r}
          /\ room' = [room EXCEPT ![r] = q]
          /\ person' \in [User -> {"none", "hall", "room"}]
          /\ stack' = <<Send(u, Message("SCCreateRoom")), UserCall("createDetail", r, u)>>
          /\ serving' = u
          /\ UNCHANGED <<sess, told, ticking, crashed>>
      BY <1>3, Now DEF CSCreateRoom, ChangePersonStatus
    <2>2. /\ freeRoom \in Seq(Room) /\ nextRoom \in 1..MaxRoom + 1
          /\ FreeRoomsApart /\ ticking = 0
      BY DEF IInv, TypeOK, CSCreateRoom, Idle
    <2>3. r \in Room /\ r \notin rooms
      <3>1. CASE freeRoom # <<>>
        <4>1. Head(freeRoom) = freeRoom[1] /\ 1 \in 1..Len(freeRoom) /\ freeRoom[1] \in Room
          BY <2>2, <3>1
        <4> QED BY <2>2, <3>1, <4>1 DEF FreeRoomsApart
      <3>2. CASE freeRoom = <<>>
        BY <2>1, <2>2, <3>2, ConstantsAssumption DEF FreeRoomsApart, Room
      <3> QED BY <3>1, <3>2
    <2>4. FreeRoomsApart'
      <3>1. CASE freeRoom # <<>>
        <4>1. /\ Tail(freeRoom) \in Seq(Room)
              /\ Len(Tail(freeRoom)) = Len(freeRoom) - 1 /\ Len(freeRoom) \in Nat
              /\ \A i \in 1..Len(Tail(freeRoom)) :
                    Tail(freeRoom)[i] = freeRoom[i + 1] /\ i + 1 \in 1..Len(freeRoom)
              /\ r = freeRoom[1] /\ 1 \in 1..Len(freeRoom)
          BY <2>2, <3>1
        <4>2. freeRoom' = Tail(freeRoom) /\ nextRoom' = nextRoom
          BY <2>1, <3>1
        <4> HIDE DEF r
        <4>3. ASSUME NEW i \in 1..Len(freeRoom')
              PROVE  freeRoom'[i] \notin rooms' /\ freeRoom'[i] < nextRoom'
          <5>1. freeRoom[i + 1] \notin rooms /\ freeRoom[i + 1] < nextRoom
            BY <2>2, <4>1, <4>2 DEF FreeRoomsApart
          <5>2. freeRoom[i + 1] # r
            BY <2>2, <4>1, <4>2 DEF FreeRoomsApart
          <5> QED BY <2>1, <4>1, <4>2, <5>1, <5>2
        <4>4. ASSUME NEW i \in 1..Len(freeRoom'), NEW j \in 1..Len(freeRoom'),
                     freeRoom'[i] = freeRoom'[j]
              PROVE  i = j
          BY <2>2, <4>1, <4>2, <4>4 DEF FreeRoomsApart
        <4>5. \A s \in rooms' : s < nextRoom'
          BY <2>1, <2>2, <4>1, <4>2 DEF FreeRoomsApart
        <4> QED BY <4>3, <4>4, <4>5 DEF FreeRoomsApart
      <3>2. CASE freeRoom = <<>>
        <4>1. freeRoom' = freeRoom /\ nextRoom' = nextRoom + 1 /\ r = nextRoom /\ Len(freeRoom) = 0
          BY <2>1, <3>2
        <4>2. \A s \in rooms' : s < nextRoom'
          BY <2>1, <2>2, <4>1, Now DEF FreeRoomsApart, Room
        <4> QED BY <4>1, <4>2 DEF FreeRoomsApart
      <3> QED BY <3>1, <3>2
    <2>5. freeRoom' \in Seq(Room) /\ nextRoom' \in 1..MaxRoom + 1
      <3>1. freeRoom # <<>> => Tail(freeRoom) \in Seq(Room)
        BY <2>2, Pop
      <3>2. freeRoom' \in Seq(Room)
        BY <2>1, <2>2, <3>1
      <3>3. nextRoom' \in 1..MaxRoom + 1
        BY <2>1, <2>2, ConstantsAssumption
      <3> QED BY <3>2, <3>3
    <2>6. q \in RoomRec /\ CountsOf(q) /\ SeatsOf(q, u) # {}
      <3>1. PICK x : x = room[r] /\ x \in RoomRec
        BY <2>3, Now
      <3>2. /\ x.is_loading_succeed \in SUBSET Seat /\ x.loading_succeed_cnt \in Int
            /\ x.late \in BOOLEAN
        BY <3>1 DEF RoomRec
      <3>3. /\ InitRoom(x, m) \in RoomRec /\ CountsOf(InitRoom(x, m))
            /\ InitRoom(x, m).status = "waiting" /\ InitRoom(x, m).player_cnt < MaxPlayer
        <4>1. InitRoom(x, m).status = "waiting" /\ InitRoom(x, m).player_cnt = 0
          BY DEF InitRoom
        <4> QED BY <1>1, <3>2, <4>1, InitRoomOK, ConstantsAssumption
      <3> QED BY <3>1, <3>3, AddPlayerOK
    <2> HIDE DEF q, r
    <2>7. /\ belong' \in [User -> 0..MaxRoom]
          /\ room' \in [Room -> RoomRec]
          /\ rooms' \subseteq Room
          /\ \A s \in Room : room'[s] = IF s = r THEN q ELSE room[s]
      BY <2>1, <2>3, <2>6, Now DEF Room
    <2>8. RoomCounts'
      BY <2>6, <2>7, Now DEF RoomCounts
    <2>9. MemberHasSeat'
      <3> SUFFICES ASSUME NEW v \in User, belong'[v] # 0
                   PROVE  belong'[v] \in rooms' /\ SeatsOf(room'[belong'[v]], v) # {}
        BY DEF MemberHasSeat
      <3>1. CASE v = u
        BY <2>1, <2>3, <2>6, <2>7, <3>1, Now
      <3>2. CASE v # u
        <4>1. belong'[v] = belong[v] /\ belong[v] # 0
          BY <2>1, <3>2, Now
        <4>2. belong[v] \in Room /\ belong[v] \in rooms /\ SeatsOf(room[belong[v]], v) # {}
          BY <4>1, BelongRoom, Now
        <4> QED BY <2>1, <2>3, <2>7, <4>1, <4>2
      <3> QED BY <3>1, <3>2
    <2>10. stack' \in Seq(Frame) /\ PendingRoomsExist'
      <3>1. /\ Send(u, Message("SCCreateRoom")) \in Frame /\ Send(u, Message("SCCreateRoom")).room = 0
            /\ UserCall("createDetail", r, u) \in Frame /\ UserCall("createDetail", r, u).room = r
        BY <1>1, <2>3, MessagesOK, ConstantsAssumption
           DEF Send, UserCall, Call, Frame, Op, RoomOp, UserOp, MsgId, Room
      <3>2. Send(u, Message("SCCreateRoom")) \in SafeFrame' /\ UserCall("createDetail", r, u) \in SafeFrame'
        BY <2>1, <3>1 DEF SafeFrame
      <3> QED BY <2>1, <2>2, <3>1, <3>2 DEF PendingRoomsExist
    <2>11. TypeOK'
      BY <1>1, <2>1, <2>5, <2>7, <2>10, Now DEF IInv, TypeOK
    <2>12. JoinRoomNeverNull'
      BY <2>1 DEF IInv, JoinRoomNeverNull
    <2> QED BY <2>4, <2>8, <2>9, <2>10, <2>11, <2>12 DEF IInv
  <1> QED BY <1>2, <1>3

\* RoomManager::OnTick picks rooms of rooms_.
LEMMA VisitOK ==
    ASSUME IInv, NEW S, S \subseteq rooms, Visit(FirstRoom(S))
    PROVE  /\ ticking' \in S \cup {0}
           /\ stack' \in Seq({f \in Frame : f.room = ticking'})
  <1> DEFINE r == FirstRoom(S)
             F == {f \in Frame : f.room = r}
  <1>1. ticking' = r /\ stack' = IF r = 0 THEN <<>> ELSE <<RoomCall("onTick", r)>>
    BY DEF Visit
  <1>2. S \subseteq Nat /\ S \subseteq Room
    BY Now DEF Room
  <1>3. r \in S \cup {0}
    <2>1. CASE S = {}
      BY <2>1 DEF FirstRoom
    <2>2. CASE S # {}
      <3>1. \E x \in S : \A y \in S : x <= y
        BY <1>2, <2>2, FirstExists
      <3> QED BY <2>2, <3>1 DEF FirstRoom
    <2> QED BY <2>1, <2>2
  <1> HIDE DEF r
  <1>4. r # 0 => RoomCall("onTick", r) \in F
    BY <1>2, <1>3, MessagesOK, ConstantsAssumption
       DEF RoomCall, Call, Frame, Op, RoomOp, UserOp, Occupant, Room
  <1>5. stack' \in Seq(F)
    <2> HIDE DEF F
    <2>1. CASE r = 0
      BY <1>1, <2>1
    <2>2. CASE r # 0
      BY <1>1, <1>4, <2>2
    <2> QED BY <2>1, <2>2
  <1> QED BY <1>1, <1>3, <1>5

\* RoomManager::OnTick begins.
LEMMA TickStep ==
    ASSUME IInv, Tick
    PROVE  IInv'
  <1>1. /\ Visit(FirstRoom(rooms))
        /\ UNCHANGED <<sess, person, belong, rooms, freeRoom, nextRoom, room, told,
                       serving, crashed>>
    BY DEF Tick
  <1>2. ticking' \in rooms \cup {0} /\ stack' \in Seq({f \in Frame : f.room = ticking'})
    BY <1>1, VisitOK
  <1>3. {f \in Frame : f.room = ticking'} \subseteq SafeFrame' /\ SafeFrame' \subseteq Frame
    BY <1>1, <1>2 DEF SafeFrame, Frame
  <1>4. stack' \in Seq(SafeFrame') /\ stack' \in Seq(Frame)
    BY <1>2, <1>3
  <1>5. PendingRoomsExist'
    BY <1>1, <1>2, <1>4 DEF PendingRoomsExist
  <1>6. TypeOK'
    BY <1>1, <1>2, <1>4, ConstantsAssumption DEF IInv, TypeOK, Room
  <1>7. RoomCounts' /\ MemberHasSeat' /\ FreeRoomsApart' /\ JoinRoomNeverNull'
    BY <1>1 DEF IInv, RoomCounts, MemberHasSeat, FreeRoomsApart, JoinRoomNeverNull
  <1> QED BY <1>5, <1>6, <1>7 DEF IInv

\* RoomManager::OnTick erases only a room without online seats, so nobody
\* belongs to it, and queues it once.
LEMMA TickNextStep ==
    ASSUME IInv, TickNext
    PROVE  IInv'
  <1>1. /\ ticking # 0 /\ Visit(FirstRoom(RoomsAfter(ticking)))
        /\ UNCHANGED <<sess, person, belong, nextRoom, room, told, serving, crashed>>
    BY DEF TickNext
  <1>2. ticking \in rooms /\ ticking \in Room /\ room[ticking] \in RoomRec /\ CountsOf(room[ticking])
    BY <1>1, Now DEF IInv, PendingRoomsExist
  <1>3. RoomsAfter(ticking) \subseteq rooms \ {ticking}
    BY <1>2, Now DEF RoomsAfter, Room
  <1>4. ticking' \in RoomsAfter(ticking) \cup {0}
        /\ stack' \in Seq({f \in Frame : f.room = ticking'})
    BY <1>1, <1>3, VisitOK
  <1>5. \/ IsEmpty(room[ticking]) /\ EraseRoom(ticking)
        \/ UNCHANGED <<freeRoom, rooms>>
    BY DEF TickNext
  <1>6. rooms \ {ticking} \subseteq rooms' /\ rooms' \subseteq rooms
    BY <1>5 DEF EraseRoom
  <1>7. ticking' # 0 => ticking' \in rooms'
    BY <1>3, <1>4, <1>6
  <1>8. {f \in Frame : f.room = ticking'} \subseteq SafeFrame'
    BY <1>7 DEF SafeFrame, Frame
  <1>9. stack' \in Seq(SafeFrame') /\ stack' \in Seq(Frame)
    BY <1>4, <1>8
  <1>10. freeRoom' \in Seq(Room) /\ FreeRoomsApart'
    <2>1. freeRoom \in Seq(Room) /\ FreeRoomsApart /\ nextRoom' = nextRoom
      BY <1>1 DEF IInv, TypeOK
    <2>2. CASE UNCHANGED <<freeRoom, rooms>>
      BY <2>1, <2>2 DEF FreeRoomsApart
    <2>3. CASE EraseRoom(ticking)
      <3>1. /\ freeRoom' = Append(freeRoom, ticking) /\ rooms' = rooms \ {ticking}
        BY <2>3 DEF EraseRoom
      <3>2. /\ Len(freeRoom) \in Nat /\ Len(freeRoom') = Len(freeRoom) + 1
            /\ freeRoom'[Len(freeRoom) + 1] = ticking
            /\ \A i \in 1..Len(freeRoom) : freeRoom'[i] = freeRoom[i]
            /\ freeRoom' \in Seq(Room)
        BY <1>2, <2>1, <3>1
      <3>3. /\ \A i \in 1..Len(freeRoom) : freeRoom[i] # ticking
            /\ ticking < nextRoom
        BY <1>2, <2>1 DEF FreeRoomsApart
      <3>4. ASSUME NEW i \in 1..Len(freeRoom')
            PROVE  freeRoom'[i] \notin rooms' /\ freeRoom'[i] < nextRoom'
        <4>1. CASE i = Len(freeRoom) + 1
          BY <2>1, <3>1, <3>2, <3>3, <4>1
        <4>2. CASE i # Len(freeRoom) + 1
          <5>1. i \in 1..Len(freeRoom)
            BY <3>2, <4>2
          <5> QED BY <2>1, <3>1, <3>2, <5>1 DEF FreeRoomsApart
        <4> QED BY <4>1, <4>2
      <3>5. ASSUME NEW i \in 1..Len(freeRoom'), NEW j \in 1..Len(freeRoom'),
                   freeRoom'[i] = freeRoom'[j]
            PROVE  i = j
        <4>1. i \in 1..Len(freeRoom) \/ i = Len(freeRoom) + 1
          BY <3>2
        <4>2. j \in 1..Len(freeRoom) \/ j = Len(freeRoom) + 1
          BY <3>2
        <4> QED BY <2>1, <3>2, <3>3, <3>5, <4>1, <4>2 DEF FreeRoomsApart
      <3>6. \A s \in rooms' : s < nextRoom'
        BY <2>1, <3>1 DEF FreeRoomsApart
      <3> QED BY <3>2, <3>4, <3>5, <3>6 DEF FreeRoomsApart
    <2> QED BY <1>5, <2>2, <2>3
  <1>11. MemberHasSeat'
    <2> SUFFICES ASSUME NEW v \in User, belong'[v] # 0
                 PROVE  belong'[v] \in rooms' /\ SeatsOf(room'[belong'[v]], v) # {}
      BY DEF MemberHasSeat
    <2>1. /\ belong'[v] = belong[v] /\ room' = room /\ belong[v] # 0
          /\ belong[v] \in rooms /\ SeatsOf(room[belong[v]], v) # {}
      BY <1>1, Now
    <2>2. CASE belong[v] # ticking
      BY <1>6, <2>1, <2>2
    <2>3. CASE belong[v] = ticking
      <3>1. room[ticking].is_online # {} /\ IsFiniteSet(room[ticking].is_online)
        BY <1>2, <2>1, <2>3, SeatsFinite DEF SeatsOf, RoomRec
      <3>2. Cardinality(room[ticking].is_online) # 0 /\ Cardinality(room[ticking].is_online) \in Nat
        BY <3>1, FS_EmptySet, FS_CardinalityType
      <3>3. ~IsEmpty(room[ticking])
        BY <1>2, <3>2 DEF IsEmpty, CountsOf
      <3> QED BY <1>5, <2>1, <3>3
    <2> QED BY <2>2, <2>3
  <1>12. PendingRoomsExist'
    BY <1>7, <1>9 DEF PendingRoomsExist
  <1>13. TypeOK'
    <2>1. ticking' \in 0..MaxRoom /\ rooms' \subseteq Room
      BY <1>3, <1>4, <1>6, Now, ConstantsAssumption DEF Room
    <2> QED BY <1>1, <1>9, <1>10, <2>1 DEF IInv, TypeOK
  <1>14. RoomCounts' /\ JoinRoomNeverNull'
    BY <1>1 DEF IInv, RoomCounts, JoinRoomNeverNull
  <1> QED BY <1>10, <1>11, <1>12, <1>13, <1>14 DEF IInv

-----------------------------------------------------------------------------
(* A game starts in a room that no longer waits. *)

\* The starts of a game that the calls s will make were under way before.
OldStarts(s) == \A f \in Calls(s) : f.op = "startSet" => f \in Calls(stack)

\* Any other call is pushed.
LEMMA StartPush ==
    ASSUME NEW S, NEW s \in Seq(S), OldStarts(s), NEW g, g.op # "startSet"
    PROVE  OldStarts(<<g>> \o s) /\ <<g>> \o s \in Seq(S \cup {g})
  <1>1. Calls(<<g>> \o s) = {g} \cup Calls(s)
    BY CallsOf1
  <1>2. s \in Seq(S \cup {g}) /\ g \in S \cup {g}
    OBVIOUS
  <1> QED BY <1>1, <1>2, Push DEF OldStarts

\* Two others are pushed.
LEMMA StartPush2 ==
    ASSUME NEW S, NEW s \in Seq(S), OldStarts(s), NEW g, NEW h, g.op # "startSet", h.op # "startSet"
    PROVE  OldStarts(<<g, h>> \o s)
  <1>1. Calls(<<g, h>> \o s) = {g, h} \cup Calls(s)
    BY CallsOf2
  <1> QED BY <1>1 DEF OldStarts

\* The same for a write, which may fail and push the deletion of the client.
LEMMA StartSend ==
    ASSUME NEW S, NEW s \in Seq(S), OldStarts(s), NEW u, NEW m, SendMessageToClient(u, m, s)
    PROVE  OldStarts(stack')
  <1>1. PICK d : d = UserCall("deleteClient", 0, u)
    OBVIOUS
  <1>2. stack' = s \/ stack' = <<d>> \o s
    BY <1>1 DEF SendMessageToClient
  <1>3. d.op # "startSet"
    BY <1>1 DEF UserCall, Call
  <1> QED BY <1>2, <1>3, StartPush

\* What Room::DeletePlayer still does is no start.
LEMMA StartDelete ==
    ASSUME NEW S, NEW s \in Seq(S), OldStarts(s), NEW r, NEW u, NEW i
    PROVE  OldStarts(DeletePlayerCalls(r, u, i) \o s)
  <1>1. PICK f, g, k, l : /\ f = Everyone(r, LeaveDetail(r, i)) /\ g = UserCall("leftWaiting", 0, u)
                          /\ k = Everyone(r, ExitGameMsg(i)) /\ l = SeatCall("leftLoading", r, i)
    OBVIOUS
  <1>2. f.op # "startSet" /\ g.op # "startSet" /\ k.op # "startSet" /\ l.op # "startSet"
    BY <1>1 DEF Everyone, UserCall, SeatCall, Call
  <1>3. OldStarts(<<f, g>> \o s) /\ OldStarts(<<k, l>> \o s) /\ <<>> \o s = s
    BY <1>2, StartPush2
  <1> QED BY <1>1, <1>3 DEF DeletePlayerCalls

\* Only Room::SendGameStart adds one to the calls under way.
LEMMA StartCalls ==
    ASSUME IInv, Step, ~DoGameStart
    PROVE  OldStarts(stack')
  <1> DEFINE h == Head(stack)
             r == h.room
             u == h.user
             t == Tail(stack)
  <1>1. stack # <<>>
    BY DEF Step, Top, DoSend, DoEveryone, DoCreateDetail, DoJoinDetail, DoDeleteClient, DoPersonGone,
           DoLeftWaiting, DoLeftLoading, DoLoadingSet, DoGameStart, DoStartSet, DoOnTick, DoKick, DoGameEndFrom
  <1>2. t \in Seq(Frame) /\ OldStarts(t) /\ OldStarts(stack)
    BY <1>1, Pop, CallsOfTop DEF IInv, TypeOK, OldStarts
  <1>3. /\ \A g : g.op # "startSet" => OldStarts(<<g>> \o t)
        /\ \A f, g : f.op # "startSet" /\ g.op # "startSet" => OldStarts(<<f, g>> \o t)
    <2> HIDE DEF t
    <2> QED BY <1>2, StartPush, StartPush2
  <1>4. CASE DoSend
    <2>1. SendMessageToClient(u, h.msg, t)
      BY <1>4 DEF DoSend
    <2> HIDE DEF h, u, t
    <2> QED BY <1>2, <2>1, StartSend
  <1>5. CASE DoEveryone
    <2>1. stack' = t \/ \E i, v : SendMessageToClient(v, h.msg, <<Call("everyone", r, NoUser, i, h.msg)>> \o t)
      BY <1>5 DEF DoEveryone
    <2>2. ASSUME NEW i, NEW v, SendMessageToClient(v, h.msg, <<Call("everyone", r, NoUser, i, h.msg)>> \o t)
          PROVE  OldStarts(stack')
      <3>1. PICK g : g = Call("everyone", r, NoUser, i, h.msg)
        OBVIOUS
      <3>2. g.op # "startSet"
        BY <3>1 DEF Call
      <3> HIDE DEF h, t
      <3>3. OldStarts(<<g>> \o t) /\ <<g>> \o t \in Seq(Frame \cup {g})
        BY <1>2, <3>2, StartPush
      <3> QED BY <2>2, <3>1, <3>3, StartSend
    <2> QED BY <1>2, <2>1, <2>2
  <1>6. CASE DoPersonGone \/ DoLeftWaiting \/ DoLoadingSet \/ DoStartSet \/ DoGameEndFrom
    <2>1. stack' = t
      BY <1>6 DEF DoPersonGone, DoLeftWaiting, DoLoadingSet, DoStartSet, DoGameEndFrom
    <2> QED BY <1>2, <2>1
  <1>7. CASE DoDeleteClient
    <2>1. PICK p : p = UserCall("personGone", 0, u)
      OBVIOUS
    <2>2. p.op # "startSet"
      BY <2>1 DEF UserCall, Call
    <2>3. \/ stack' = t \/ stack' = <<p>> \o t
          \/ \E s, i : stack' = DeletePlayerCalls(s, u, i) \o (<<p>> \o t)
      BY <1>7, <2>1 DEF DoDeleteClient, DeletePlayerFromRoom
    <2> HIDE DEF h, u, t
    <2>4. OldStarts(<<p>> \o t) /\ <<p>> \o t \in Seq(Frame \cup {p})
      BY <1>2, <2>2, StartPush
    <2>5. \A s, i : OldStarts(DeletePlayerCalls(s, u, i) \o (<<p>> \o t))
      BY <2>4, StartDelete
    <2> QED BY <1>2, <2>3, <2>4, <2>5
  <1>8. CASE DoCreateDetail \/ DoJoinDetail \/ DoLeftLoading \/ DoOnTick
    <2>1. \/ stack' = stack \/ stack' = t
          \/ \E m : stack' = <<Send(u, m)>> \o t \/ stack' = <<Everyone(r, m)>> \o t
          \/ stack' = <<RoomCall("gameStart", r)>> \o t
          \/ stack' = <<SeatCall("kick", r, 1)>> \o t
      BY <1>8 DEF DoCreateDetail, DoJoinDetail, JoinedRoom, DoLeftLoading, DoOnTick
    <2>2. /\ \A m : Send(u, m).op # "startSet" /\ Everyone(r, m).op # "startSet"
          /\ RoomCall("gameStart", r).op # "startSet" /\ SeatCall("kick", r, 1).op # "startSet"
      BY DEF Send, Everyone, RoomCall, SeatCall, Call
    <2> HIDE DEF h, u, r, t
    <2> QED BY <1>2, <1>3, <2>1, <2>2
  <1>9. CASE DoKick
    <2>1. PICK v, i : \/ stack' = <<RoomCall("gameStart", r)>> \o t
                      \/ stack' = <<UserCall("deleteClient", 0, v), SeatCall("kick", r, i)>> \o t
      BY <1>9 DEF DoKick
    <2>2. /\ RoomCall("gameStart", r).op # "startSet" /\ UserCall("deleteClient", 0, v).op # "startSet"
          /\ SeatCall("kick", r, i).op # "startSet"
      BY DEF RoomCall, UserCall, SeatCall, Call
    <2> HIDE DEF h, r, t
    <2> QED BY <1>3, <2>1, <2>2
  <1> QED BY <1>4, <1>5, <1>6, <1>7, <1>8, <1>9 DEF Step

\* No handler and no tick begins with one.
LEMMA StartNew ==
    ASSUME IInv, Next, ~Step
    PROVE  OldStarts(stack')
  <1> USE DEF Serve, Visit
  <1>1. /\ OldStarts(<<>>) /\ OldStarts(stack)
        /\ \A f : f.op # "startSet" => OldStarts(<<f>>)
        /\ \A f, g : f.op # "startSet" /\ g.op # "startSet" => OldStarts(<<f, g>>)
    BY CallsOfShort DEF OldStarts
  <1>2. /\ \A u, m : Send(u, m).op # "startSet"
        /\ \A r, m : Everyone(r, m).op # "startSet"
        /\ \A r : /\ RoomCall("onTick", r).op # "startSet" /\ RoomCall("joinDetail", r).op # "startSet"
                  /\ RoomCall("loadingSet", r).op # "startSet" /\ RoomCall("gameStart", r).op # "startSet"
        /\ \A u, r : /\ UserCall("deleteClient", r, u).op # "startSet"
                     /\ UserCall("createDetail", r, u).op # "startSet"
                     /\ UserCall("gameEndFrom", r, u).op # "startSet"
    BY DEF Send, Everyone, RoomCall, UserCall, Call
  <1>3. CASE Return \/ Tick \/ TickNext \/ \E r \in Room : LoadingTimePasses(r)
    <2>1. stack' = stack \/ stack' = <<>> \/ \E r : stack' = <<RoomCall("onTick", r)>>
      BY <1>3 DEF Return, Tick, TickNext, LoadingTimePasses
    <2> QED BY <1>1, <1>2, <2>1
  <1>4. ASSUME NEW u \in User, Event(u)
        PROVE  OldStarts(stack')
    <2> DEFINE r == belong[u]
    <2>1. CASE CSLogin(u) \/ Disconnect(u) \/ CSPullAllRoomInfo(u) \/ CSGameEnd(u)
      <3>1. \/ \E m : stack' = <<Send(u, m)>>
            \/ stack' = <<UserCall("deleteClient", 0, u)>>
            \/ \E m : stack' = <<Send(u, m), UserCall("gameEndFrom", 0, u)>>
        BY <2>1 DEF CSLogin, Disconnect, CSPullAllRoomInfo, CSGameEnd
      <3> QED BY <1>1, <1>2, <3>1
    <2>2. ASSUME NEW m, CSCreateRoom(u, m) PROVE OldStarts(stack')
      <3>1. \E s, k : stack' = <<Send(u, k)>> \/ stack' = <<Send(u, k), UserCall("createDetail", s, u)>>
        BY <2>2 DEF CSCreateRoom
      <3> QED BY <1>1, <1>2, <3>1
    <2>3. ASSUME NEW s, CSJoinRoom(u, s) PROVE OldStarts(stack')
      <3>1. \E k : stack' = <<Send(u, k)>> \/ stack' = <<Send(u, k), RoomCall("joinDetail", s)>>
        BY <2>3 DEF CSJoinRoom
      <3> QED BY <1>1, <1>2, <3>1
    <2>4. ASSUME NEW o, CSChangeTeam(u, o) \/ CSChangeOption(u, o) PROVE OldStarts(stack')
      <3>1. \E k : stack' = <<Everyone(r, k)>>
        BY <2>4 DEF CSChangeTeam, CSChangeOption
      <3> QED BY <1>1, <1>2, <3>1
    <2>5. CASE CSReadyToStart(u) \/ CSLoadSucceed(u)
      <3>1. \/ \E k : stack' = <<Everyone(r, k), RoomCall("loadingSet", r)>>
            \/ stack' = <<RoomCall("gameStart", r)>> \/ stack' = <<>>
        BY <2>5 DEF CSReadyToStart, CSLoadSucceed
      <3> QED BY <1>1, <1>2, <3>1
    <2>6. CASE CSPlayerExitRoom(u)
      <3>1. PICK g : g = Everyone(r, Message("SCPlayerExitRoom"))
        OBVIOUS
      <3>2. \/ stack' = stack \/ stack' = <<g>>
            \/ \E s, i : stack' = DeletePlayerCalls(s, u, i) \o <<g>>
        BY <2>6, <3>1 DEF CSPlayerExitRoom, DeletePlayerFromRoom
      <3>3. OldStarts(<<g>>) /\ <<g>> \in Seq({g})
        BY <1>1, <1>2, <3>1
      <3>4. \A s, i : OldStarts(DeletePlayerCalls(s, u, i) \o <<g>>)
        BY <3>3, StartDelete
      <3> QED BY <1>1, <3>2, <3>3, <3>4
    <2> QED BY <1>4, <2>1, <2>2, <2>3, <2>4, <2>5, <2>6 DEF Event
  <1> QED BY <1>3, <1>4 DEF Next

\* A room waits again only when RoomManager::CreateRoom initialises it.
LEMMA WaitsAgain ==
    ASSUME IInv, Next, NEW r \in Room, room[r].status # "waiting", room'[r].status = "waiting"
    PROVE  stack = <<>>
  <1> USE DEF Serve
  <1>1. \A s \in Room : room[s] \in RoomRec
    BY DEF IInv, TypeOK
  <1>2. room' # room
    OBVIOUS
  <1>3. \A s, x : room' = [room EXCEPT ![s] = x] => (s = r /\ x.status = "waiting")
    BY DEF IInv, TypeOK
  <1>4. ASSUME NEW u, NEW s, DeletePlayerFromRoom(u, s) PROVE FALSE
    <2>1. PICK b, pos : room' = [room EXCEPT ![b] = DeletePlayer(room[b], pos)]
      BY <1>2, <1>4 DEF DeletePlayerFromRoom
    <2>2. PICK x : x = DeletePlayer(room[r], pos)
      OBVIOUS
    <2>3. b = r /\ x.status = "waiting"
      BY <1>3, <2>1, <2>2
    <2>4. x.status = room[r].status
      BY <1>1, <2>2 DEF DeletePlayer, SeatOffline, RoomRec
    <2> QED BY <2>3, <2>4
  <1>5. CASE Step
    <2>1. CASE DoSend \/ DoEveryone \/ DoCreateDetail \/ DoJoinDetail \/ DoPersonGone \/ DoLeftWaiting
               \/ DoGameStart \/ DoOnTick \/ DoKick
      BY <1>2, <2>1 DEF DoSend, DoEveryone, SendMessageToClient, DoCreateDetail, DoJoinDetail, DoPersonGone,
         DoLeftWaiting, DoGameStart, DoOnTick, DoKick
    <2>2. CASE DoDeleteClient
      BY <1>2, <1>4, <2>2 DEF DoDeleteClient
    <2>3. CASE DoLeftLoading
      <3> DEFINE s == Head(stack).room
      <3>1. PICK a, b : room' = [room EXCEPT ![s] =
                          [room[s] EXCEPT !.is_loading_succeed = a, !.loading_succeed_cnt = b]]
        BY <1>2, <2>3 DEF DoLeftLoading
      <3>2. PICK x : x = [room[s] EXCEPT !.is_loading_succeed = a, !.loading_succeed_cnt = b]
        OBVIOUS
      <3>3. s = r /\ x.status = "waiting"
        BY <1>3, <3>1, <3>2
      <3> QED BY <1>1, <3>2, <3>3 DEF RoomRec
    <2>4. CASE DoLoadingSet
      <3>1. PICK s, x : room' = [room EXCEPT ![s] = x] /\ x = LoadingRoom(room[s])
        BY <2>4 DEF DoLoadingSet
      <3>2. s = r /\ x.status = "waiting"
        BY <1>3, <3>1
      <3> QED BY <1>1, <3>1, <3>2 DEF LoadingRoom, RoomRec
    <2>5. CASE DoStartSet
      <3>1. PICK s, x : room' = [room EXCEPT ![s] = x] /\ x = [room[s] EXCEPT !.status = "ingame"]
        BY <2>5 DEF DoStartSet
      <3>2. s = r /\ x.status = "waiting"
        BY <1>3, <3>1
      <3> QED BY <1>1, <3>1, <3>2 DEF RoomRec
    <2>6. CASE DoGameEndFrom
      <3>1. PICK s, pos, x : room' = [room EXCEPT ![s] = x] /\ x = SeatOffline(room[s], pos)
        BY <1>2, <2>6 DEF DoGameEndFrom
      <3>2. s = r /\ x.status = "waiting"
        BY <1>3, <3>1
      <3> QED BY <1>1, <3>1, <3>2 DEF SeatOffline, RoomRec
    <2> QED BY <1>5, <2>1, <2>2, <2>3, <2>4, <2>5, <2>6 DEF Step
  <1>6. CASE Return \/ Tick \/ TickNext \/ \E s \in Room : LoadingTimePasses(s)
    BY <1>6 DEF Return, Tick, TickNext, LoadingTimePasses, Idle
  <1>7. ASSUME NEW u \in User, Event(u) PROVE stack = <<>>
    BY <1>7 DEF Event, CSLogin, Disconnect, CSCreateRoom, CSJoinRoom, CSPlayerExitRoom, CSChangeTeam,
       CSChangeOption, CSPullAllRoomInfo, CSReadyToStart, CSLoadSucceed, CSGameEnd, Idle
  <1> QED BY <1>5, <1>6, <1>7 DEF Next

\* Every step keeps it.
LEMMA StartStep ==
    ASSUME IInv, StartInv, [Next]_vars
    PROVE  StartInv'
  <1>1. CASE UNCHANGED vars
    BY <1>1 DEF vars, StartInv
  <1>2. ASSUME Next, NEW f \in Calls(stack), f.op = "startSet"
        PROVE  room'[f.room].status # "waiting"
    <2>1. f \in Frame
      BY DEF Calls, IInv, TypeOK
    <2>2. f.room \in Room
      BY <1>2, <2>1 DEF Frame, RoomOp
    <2>3. room[f.room].status # "waiting"
      BY <1>2 DEF StartInv
    <2>4. stack # <<>>
      BY CallsOfShort
    <2> QED BY <1>2, <2>2, <2>3, <2>4, WaitsAgain
  <1>3. CASE Next /\ ~DoGameStart
    <2>1. OldStarts(stack')
      BY <1>3, StartCalls, StartNew
    <2> QED BY <1>2, <1>3, <2>1 DEF OldStarts, StartInv
  <1>4. CASE DoGameStart
    <2> DEFINE r == Head(stack).room
               t == Tail(stack)
    <2>1. t \in Seq(Frame) /\ Calls(t) \subseteq Calls(stack) /\ room' = room
      BY <1>4, Pop, CallsOfTop DEF DoGameStart, Top, IInv, TypeOK
    <2>2. PICK f, g : f = Everyone(r, Message("SCGameStart")) /\ g = RoomCall("startSet", r)
      OBVIOUS
    <2>3. f.op # "startSet" /\ g.room = r
      BY <2>2 DEF Everyone, RoomCall, Call
    <2>4. stack' = t \/ (room[r].status = "loading" /\ stack' = <<f, g>> \o t)
      BY <1>4, <2>2 DEF DoGameStart
    <2> HIDE DEF t, r
    <2>5. Calls(<<f, g>> \o t) = {f, g} \cup Calls(t)
      BY <2>1, CallsOf2
    <2> QED BY <2>1, <2>3, <2>4, <2>5 DEF StartInv
  <1> QED BY <1>1, <1>3, <1>4

-----------------------------------------------------------------------------
(* The theorems. *)

\* The invariant holds at first and every step of the server keeps it.
THEOREM Invariant == Spec => []IInv
  <1>1. Init => IInv /\ StartInv
    <2> SUFFICES ASSUME Init PROVE IInv /\ StartInv
      OBVIOUS
    <2>1. \A x \in Unset : InitRoom(x, 1) \in RoomRec /\ CountsOf(InitRoom(x, 1))
      <3>1. \A x \in Unset : /\ x.is_loading_succeed \in SUBSET Seat
                             /\ x.loading_succeed_cnt \in Int /\ x.late \in BOOLEAN
        BY ConstantsAssumption DEF Seat
      <3> QED BY <3>1, InitRoomOK
    <2>2. /\ room \in [Room -> RoomRec]
          /\ \A r \in Room : CountsOf(room[r])
      BY <2>1 DEF Init
    <2>3. TypeOK
      BY <2>2, MessagesOK, ConstantsAssumption DEF Init, TypeOK, Occupant
    <2>4. StartInv
      BY CallsOfShort DEF Init, StartInv
    <2> QED BY <2>2, <2>3, <2>4 DEF Init, IInv, RoomCounts, MemberHasSeat, FreeRoomsApart,
                                    PendingRoomsExist, JoinRoomNeverNull
  <1>2. IInv /\ StartInv /\ [Next]_vars => IInv'
    <2> SUFFICES ASSUME IInv, StartInv, [Next]_vars PROVE IInv'
      OBVIOUS
    <2>1. CASE Step
      BY <2>1, SendingSteps, SchedulingSteps, FinishingSteps, DeleteClientStep,
         GameEndStep DEF Step
    <2>2. CASE Return
      <3>1. /\ serving' \in Occupant /\ crashed' \in {"no", "exit", "conn"}
            /\ UNCHANGED <<sess, person, belong, rooms, freeRoom, nextRoom, room, told,
                           stack, ticking>>
        BY <2>2, Now DEF Return, Occupant
      <3> QED BY <3>1, Now, SameRooms
    <2>3. CASE Tick
      BY <2>3, TickStep
    <2>4. CASE TickNext
      BY <2>4, TickNextStep
    <2>5. ASSUME NEW r \in Room, LoadingTimePasses(r) PROVE IInv'
      BY <2>5, TimeStep
    <2>6. ASSUME NEW u \in User, Event(u) PROVE IInv'
      BY <2>6, SessionSteps, ReadingHandlers, ExitRoomStep, ChangeTeamStep, LoadSucceedStep,
         JoinRoomStep, CreateRoomStep DEF Event
    <2>7. CASE UNCHANGED vars
      BY <2>7, Now, OnlyStack DEF vars
    <2> QED BY <2>1, <2>2, <2>3, <2>4, <2>5, <2>6, <2>7 DEF Next
  <1>3. IInv /\ StartInv /\ [Next]_vars => StartInv'
    BY StartStep
  <1> QED BY <1>1, <1>2, <1>3, PTL DEF Spec

\* Every variable keeps its type, however the calls of the server nest.
THEOREM TypeCorrect == Spec => []TypeOK
  <1>1. IInv => TypeOK
    BY DEF IInv
  <1> QED BY <1>1, Invariant, PTL

\* Whoever belong_room_ places in a room has a seat there, in a room of rooms_.
THEOREM MembersSeated == Spec => []MemberHasSeat
  <1>1. IInv => MemberHasSeat
    BY DEF IInv
  <1> QED BY <1>1, Invariant, PTL

\* The counters of a room are the numbers of its online seats and, once it no
\* longer waits, of its loaded seats, whatever Room::Init finds in the fields of
\* the loading phase, which it does not set.
THEOREM CountsCorrect == Spec => []RoomCounts
  <1>1. IInv => RoomCounts
    BY DEF IInv
  <1> QED BY <1>1, Invariant, PTL

\* No room is reused while it is in use, and none is queued twice.
THEOREM FreeRoomsUnused == Spec => []FreeRoomsApart
  <1>1. IInv => FreeRoomsApart
    BY DEF IInv
  <1> QED BY <1>1, Invariant, PTL

\* No call under way, and not the iterator of OnTick, refers to an erased room.
THEOREM PendingRoomsSafe == Spec => []PendingRoomsExist
  <1>1. IInv => PendingRoomsExist
    BY DEF IInv
  <1> QED BY <1>1, Invariant, PTL

\* MP_CSJoinRoom finds its room again after the broadcasts of JoinRoom, and so
\* never dereferences NULL.
THEOREM JoinRoomFound == Spec => []JoinRoomNeverNull
  <1>1. IInv => JoinRoomNeverNull
    BY DEF IInv
  <1> QED BY <1>1, Invariant, PTL

-----------------------------------------------------------------------------
(* The tables of the managers, for clients that send CSGameEnd in games only. *)

\* The users of the calls of op in the stack s
OnStack(op, s) == {s[i].user : i \in {k \in 1..Len(s) : s[k].op = op}}

\* MP_CSReadyToStart and MP_CSGameEnd leave their last call at the bottom.
LastOp == {"loadingSet", "gameEndFrom"}
Bottom(s) == \A i \in 1..Len(s) : s[i].op \in LastOp => i = Len(s)

\* In the room q with number r every online seat has a member of r, and nobody
\* has two; b is belong_room_.
Seated(q, r, b) ==
    \A i \in q.is_online :
        /\ q.players[i] \in User /\ b[q.players[i]] = r
        /\ \A j \in q.is_online : q.players[j] = q.players[i] => j = i

SeatsInv == \A r \in rooms : Seated(room[r], r, belong)

\* A user who is being deleted has a Person until PersonLogout is back from
\* OnExit, and one who leaves a waiting room is "in room" until DeletePlayer is
\* over; otherwise sessions, persons and belong_room_ agree.
UsersInv ==
    \A u \in User :
        /\ belong[u] # 0 => u \in sess /\ person[u] = "room" /\ u \notin OnStack("leftWaiting", stack)
        /\ u \in sess => person[u] # "none" /\ u \notin OnStack("personGone", stack)
        /\ u \notin sess => person[u] = "none" \/ u \in OnStack("personGone", stack)
        /\ u \in sess /\ person[u] = "room" /\ belong[u] = 0 => u \in OnStack("leftWaiting", stack)

\* GameEndFromRoom finds its user in a game, or in no room any more.
EndInv ==
    /\ Bottom(stack)
    /\ \A u \in User : u \in OnStack("gameEndFrom", stack) /\ belong[u] # 0
                         => room[belong[u]].status = "ingame"

TInv == SeatsInv /\ UsersInv /\ EndInv

\* A call is pushed.
LEMMA PushOne ==
    ASSUME NEW S, NEW s \in Seq(S), NEW f, NEW op
    PROVE  /\ f.op = op => OnStack(op, <<f>> \o s) = OnStack(op, s) \cup {f.user}
           /\ f.op # op => OnStack(op, <<f>> \o s) = OnStack(op, s)
           /\ Bottom(s) /\ f.op \notin LastOp => Bottom(<<f>> \o s)
  <1>1. PICK n \in Nat : n = Len(s)
    OBVIOUS
  <1>2. /\ Len(<<f>> \o s) = n + 1 /\ (<<f>> \o s)[1] = f
        /\ \A i \in 1..n : (<<f>> \o s)[i + 1] = s[i]
    BY <1>1
  <1>3. PICK t : t = <<f>> \o s
    OBVIOUS
  <1>4. Len(t) = n + 1 /\ t[1] = f /\ \A i \in 1..n : t[i + 1] = s[i]
    BY <1>2, <1>3
  <1>5. \A k \in 1..n + 1 : k = 1 \/ (k - 1 \in 1..n /\ t[k] = s[k - 1] /\ (k - 1) + 1 = k)
    BY <1>4
  <1>6. \A i \in 1..n : i + 1 \in 1..n + 1
    OBVIOUS
  <1>7. 1 \in 1..n + 1
    OBVIOUS
  <1>8. OnStack(op, t) = IF f.op = op THEN OnStack(op, s) \cup {f.user} ELSE OnStack(op, s)
    <2>1. ASSUME NEW k \in 1..n + 1, t[k].op = op
          PROVE  t[k].user \in OnStack(op, s) \/ (f.op = op /\ t[k].user = f.user)
      BY <1>1, <1>4, <1>5, <2>1 DEF OnStack
    <2>2. ASSUME NEW k \in 1..n, s[k].op = op PROVE s[k].user \in OnStack(op, t)
      BY <1>4, <1>6, <2>2 DEF OnStack
    <2>3. f.op = op => f.user \in OnStack(op, t)
      BY <1>4, <1>7 DEF OnStack
    <2>4. OnStack(op, s) \subseteq OnStack(op, t)
      BY <1>1, <2>2 DEF OnStack
    <2>5. \A u \in OnStack(op, t) : u \in OnStack(op, s) \/ (f.op = op /\ u = f.user)
      BY <1>4, <2>1 DEF OnStack
    <2> QED BY <2>3, <2>4, <2>5
  <1>9. Bottom(s) /\ f.op \notin LastOp => Bottom(t)
    BY <1>1, <1>4, <1>5 DEF Bottom
  <1> QED BY <1>3, <1>8, <1>9

\* Two calls are pushed.
LEMMA PushTwo ==
    ASSUME NEW S, NEW s \in Seq(S), NEW f, NEW g
    PROVE  /\ \A op : f.op # op /\ g.op = op => OnStack(op, <<f, g>> \o s) = OnStack(op, s) \cup {g.user}
           /\ \A op : f.op # op /\ g.op # op => OnStack(op, <<f, g>> \o s) = OnStack(op, s)
           /\ Bottom(s) /\ f.op \notin LastOp /\ g.op \notin LastOp => Bottom(<<f, g>> \o s)
  <1>1. PICK n \in Nat : n = Len(s)
    OBVIOUS
  <1>2. /\ Len(<<f, g>> \o s) = n + 2 /\ (<<f, g>> \o s)[1] = f /\ (<<f, g>> \o s)[2] = g
        /\ \A i \in 1..n : (<<f, g>> \o s)[i + 2] = s[i]
    BY <1>1
  <1>3. PICK t : t = <<f, g>> \o s
    OBVIOUS
  <1>4. Len(t) = n + 2 /\ t[1] = f /\ t[2] = g /\ \A i \in 1..n : t[i + 2] = s[i]
    BY <1>2, <1>3
  <1>5. \A k \in 1..n + 2 : k = 1 \/ k = 2 \/ (k - 2 \in 1..n /\ t[k] = s[k - 2] /\ (k - 2) + 2 = k)
    BY <1>4
  <1>6. 1 \in 1..n + 2 /\ 2 \in 1..n + 2 /\ \A i \in 1..n : i + 2 \in 1..n + 2
    OBVIOUS
  <1>7. \A op : f.op # op => OnStack(op, t) = IF g.op = op THEN OnStack(op, s) \cup {g.user} ELSE OnStack(op, s)
    <2> SUFFICES ASSUME NEW op, f.op # op
                 PROVE  OnStack(op, t) = IF g.op = op THEN OnStack(op, s) \cup {g.user} ELSE OnStack(op, s)
      OBVIOUS
    <2>1. ASSUME NEW k \in 1..n + 2, t[k].op = op
          PROVE  t[k].user \in OnStack(op, s) \/ (g.op = op /\ t[k].user = g.user)
      BY <1>1, <1>4, <1>5, <2>1 DEF OnStack
    <2>2. ASSUME NEW k \in 1..n, s[k].op = op PROVE s[k].user \in OnStack(op, t)
      BY <1>4, <1>6, <2>2 DEF OnStack
    <2>3. g.op = op => g.user \in OnStack(op, t)
      BY <1>4, <1>6 DEF OnStack
    <2>4. OnStack(op, s) \subseteq OnStack(op, t)
      BY <1>1, <2>2 DEF OnStack
    <2>5. \A u \in OnStack(op, t) : u \in OnStack(op, s) \/ (g.op = op /\ u = g.user)
      BY <1>4, <2>1 DEF OnStack
    <2> QED BY <2>3, <2>4, <2>5
  <1>8. Bottom(s) /\ f.op \notin LastOp /\ g.op \notin LastOp => Bottom(t)
    BY <1>1, <1>4, <1>5 DEF Bottom
  <1> QED BY <1>3, <1>7, <1>8

\* The call on top returns.
LEMMA PopOne ==
    ASSUME NEW s \in Seq(Frame), s # <<>>, NEW op
    PROVE  /\ Head(s).op = op => OnStack(op, s) = OnStack(op, Tail(s)) \cup {Head(s).user}
           /\ Head(s).op # op => OnStack(op, s) = OnStack(op, Tail(s))
           /\ Bottom(s) => Bottom(Tail(s))
           /\ Bottom(s) /\ Head(s).op \in LastOp => Tail(s) = <<>>
  <1>1. PICK n \in Nat : Len(s) = n + 1
    OBVIOUS
  <1>2. PICK f \in Frame, t \in Seq(Frame) : f = Head(s) /\ t = Tail(s)
    <2>1. Head(s) \in Frame /\ Tail(s) \in Seq(Frame)
      BY Pop
    <2> QED BY <2>1, Zenon
  <1>3. f = s[1] /\ Len(t) = n /\ \A i \in 1..n : t[i] = s[i + 1]
    BY <1>1, <1>2
  <1>5. \A k \in 1..n + 1 : k = 1 \/ (k - 1 \in 1..n /\ s[k] = t[k - 1] /\ (k - 1) + 1 = k)
    BY <1>3
  <1>6. \A i \in 1..n : i + 1 \in 1..n + 1
    OBVIOUS
  <1>7. 1 \in 1..n + 1
    OBVIOUS
  <1>8. OnStack(op, s) = IF f.op = op THEN OnStack(op, t) \cup {f.user} ELSE OnStack(op, t)
    BY <1>1, <1>3, <1>5, <1>6, <1>7 DEF OnStack
  <1>9. Bottom(s) => Bottom(t)
    BY <1>1, <1>3, <1>6 DEF Bottom
  <1>10. Bottom(s) /\ f.op \in LastOp => n = 0
    BY <1>1, <1>3, <1>7 DEF Bottom
  <1>11. n = 0 => t = <<>>
    BY <1>3
  <1> QED BY <1>2, <1>8, <1>9, <1>10, <1>11

\* Nothing is called.
LEMMA NoneOnStack ==
    (\A op : OnStack(op, <<>>) = {}) /\ Bottom(<<>>) /\ <<>> \in Seq(Frame)
  BY DEF OnStack, Bottom

\* The calls that the invariant speaks of
MarkOp == {"personGone", "leftWaiting", "gameEndFrom"}
Quiet(f) == f.op \notin MarkOp \cup LastOp

\* The stack t has the same calls of these as s.
Neutral(s, t) == Bottom(t) /\ \A op \in MarkOp : OnStack(op, t) = OnStack(op, s)

\* Other calls may be pushed and return.
LEMMA NeutralPush ==
    ASSUME NEW S, NEW s, NEW t \in Seq(S), Neutral(s, t), NEW f, Quiet(f)
    PROVE  Neutral(s, <<f>> \o t)
  BY PushOne DEF Neutral, Quiet

\* Two calls are pushed.
LEMMA NeutralPush2 ==
    ASSUME NEW S, NEW s, NEW t \in Seq(S), Neutral(s, t), NEW f, Quiet(f), NEW g, Quiet(g)
    PROVE  Neutral(s, <<f, g>> \o t)
  BY PushTwo DEF Neutral, Quiet

\* A call returns.
LEMMA NeutralPop ==
    ASSUME NEW s \in Seq(Frame), s # <<>>, Bottom(s), Quiet(Head(s))
    PROVE  Neutral(s, Tail(s))
  BY PopOne DEF Neutral, Quiet

\* A stack of one or two calls
LEMMA NeutralNew ==
    ASSUME NEW f, NEW g
    PROVE  /\ Neutral(<<>>, <<>>)
           /\ Quiet(f) => Neutral(<<>>, <<f>>)
           /\ Quiet(f) /\ Quiet(g) => Neutral(<<>>, <<f, g>>)
           /\ Quiet(f) => Bottom(<<f, g>>) /\ \A op \in MarkOp : OnStack(op, <<f, g>>) = OnStack(op, <<g>>)
           /\ \A op : OnStack(op, <<f>>) \subseteq {f.user}
           /\ \A op : f.op # op => OnStack(op, <<f>>) = {}
  <1>1. Neutral(<<>>, <<>>)
    BY NoneOnStack DEF Neutral
  <1>2. ASSUME NEW x
        PROVE  Bottom(<<x>>) /\ \A op : OnStack(op, <<x>>) = IF x.op = op THEN {x.user} ELSE {}
    <2>1. Len(<<x>>) = 1 /\ <<x>>[1] = x /\ 1..1 = {1}
      OBVIOUS
    <2> QED BY <2>1 DEF OnStack, Bottom
  <1>3. Quiet(f) => Bottom(<<f, g>>) /\ \A op \in MarkOp : OnStack(op, <<f, g>>) = OnStack(op, <<g>>)
    <2>1. Len(<<f, g>>) = 2 /\ <<f, g>>[1] = f /\ <<f, g>>[2] = g /\ 1..2 = {1, 2}
      OBVIOUS
    <2>2. \A op : OnStack(op, <<f, g>>) = (IF f.op = op THEN {f.user} ELSE {}) \cup (IF g.op = op THEN {g.user} ELSE {})
      BY <2>1 DEF OnStack
    <2>3. Quiet(f) => Bottom(<<f, g>>)
      BY <2>1 DEF Bottom, Quiet
    <2> QED BY <1>2, <2>2, <2>3 DEF Quiet
  <1>4. Quiet(f) => \A op \in MarkOp : OnStack(op, <<f>>) = {}
    BY <1>2 DEF Quiet
  <1>5. Quiet(g) => \A op \in MarkOp : OnStack(op, <<g>>) = {}
    BY <1>2 DEF Quiet
  <1> QED BY <1>1, <1>2, <1>3, <1>4, <1>5, NoneOnStack DEF Neutral

\* A step that changes neither who is where nor these calls.
LEMMA QuietStep ==
    ASSUME IInv, IInv', TInv, UNCHANGED <<sess, person, belong>>, rooms' \subseteq rooms,
           \A r \in rooms' : /\ room'[r].players = room[r].players
                             /\ room'[r].is_online = room[r].is_online
                             /\ room[r].status = "ingame" => room'[r].status = "ingame",
           Neutral(stack, stack')
    PROVE  TInv'
  <1>1. SeatsInv'
    BY DEF TInv, SeatsInv, Seated
  <1>2. UsersInv'
    BY DEF TInv, UsersInv, Neutral, MarkOp
  <1>3. EndInv'
    <2>1. \A u \in User : belong'[u] # 0 => belong'[u] \in rooms'
      BY DEF IInv, MemberHasSeat
    <2> QED BY <2>1 DEF TInv, EndInv, Neutral, MarkOp
  <1> QED BY <1>1, <1>2, <1>3 DEF TInv

\* The calls under one that the invariant does not speak of
LEMMA TopQuiet ==
    ASSUME IInv, TInv, NEW op, Top(op), op \notin MarkOp \cup LastOp
    PROVE  Tail(stack) \in Seq(SafeFrame) /\ Neutral(stack, Tail(stack))
  <1>1. Head(stack).op = op /\ Tail(stack) \in Seq(SafeFrame) /\ stack # <<>> /\ stack \in Seq(Frame)
    BY RestOK DEF Top, IInv, TypeOK
  <1> QED BY <1>1, NeutralPop DEF Quiet, TInv, EndInv

\* A send, whatever its outcome
LEMMA SendQuiet ==
    ASSUME IInv, IInv', TInv, NEW u, NEW m, NEW rest, NEW S, rest \in Seq(S), Neutral(stack, rest),
           SendMessageToClient(u, m, rest)
    PROVE  TInv'
  <1>1. Quiet(UserCall("deleteClient", 0, u))
    BY DEF Quiet, UserCall, Call, MarkOp, LastOp
  <1>2. Neutral(stack, stack')
    <2>1. Neutral(stack, <<UserCall("deleteClient", 0, u)>> \o rest)
      BY <1>1, NeutralPush
    <2>2. stack' = rest \/ stack' = <<UserCall("deleteClient", 0, u)>> \o rest
      BY DEF SendMessageToClient
    <2> QED BY <2>1, <2>2
  <1>3. UNCHANGED <<sess, person, belong, rooms, room>>
    BY DEF SendMessageToClient
  <1> QED BY <1>2, <1>3, QuietStep

\* Calls that send, or call others
LEMMA QuietCalls ==
    ASSUME IInv, IInv', TInv,
           \/ DoSend \/ DoEveryone \/ DoCreateDetail \/ DoJoinDetail \/ DoGameStart \/ DoOnTick
           \/ DoKick
    PROVE  TInv'
  <1> USE DEF Quiet, Call, MarkOp, LastOp
  <1>1. CASE DoSend
    BY <1>1, TopQuiet, SendQuiet DEF DoSend
  <1>2. CASE DoEveryone
    <2>1. Tail(stack) \in Seq(SafeFrame) /\ Neutral(stack, Tail(stack))
      BY <1>2, TopQuiet DEF DoEveryone
    <2>2. CASE Remaining(room[Head(stack).room], Head(stack).seat) = {}
      <3>1. stack' = Tail(stack) /\ UNCHANGED <<sess, person, belong, rooms, room>>
        BY <1>2, <2>2 DEF DoEveryone
      <3> QED BY <2>1, <3>1, QuietStep
    <2>3. CASE Remaining(room[Head(stack).room], Head(stack).seat) # {}
      <3>1. PICK v, i, f : f = Call("everyone", Head(stack).room, NoUser, i, Head(stack).msg)
              /\ SendMessageToClient(v, Head(stack).msg, <<f>> \o Tail(stack))
        BY <1>2, <2>3 DEF DoEveryone
      <3>2. Neutral(stack, <<f>> \o Tail(stack)) /\ <<f>> \o Tail(stack) \in Seq(SafeFrame \cup {f})
        <4>1. Quiet(f)
          BY <3>1
        <4>2. Tail(stack) \in Seq(SafeFrame \cup {f})
          BY <2>1
        <4>3. Neutral(stack, <<f>> \o Tail(stack))
          BY <2>1, <4>1, NeutralPush
        <4>4. <<f>> \o Tail(stack) \in Seq(SafeFrame \cup {f})
          BY <4>2, Push
        <4> QED BY <4>3, <4>4
      <3> QED BY <3>1, <3>2, SendQuiet
    <2> QED BY <2>2, <2>3
  <1>3. CASE DoCreateDetail
    <2>1. Tail(stack) \in Seq(SafeFrame) /\ Neutral(stack, Tail(stack))
      BY <1>3, TopQuiet DEF DoCreateDetail
    <2>2. PICK f : Quiet(f) /\ stack' = <<f>> \o Tail(stack)
      <3>1. PICK u, d : stack' = <<Send(u, DetailMsg(d))>> \o Tail(stack)
        BY <1>3 DEF DoCreateDetail
      <3>2. Quiet(Send(u, DetailMsg(d)))
        BY DEF Send
      <3> QED BY <3>1, <3>2
    <2>3. UNCHANGED <<sess, person, belong, rooms, room>>
      BY <1>3 DEF DoCreateDetail
    <2> QED BY <2>1, <2>2, <2>3, NeutralPush, QuietStep
  <1>4. CASE DoJoinDetail
    <2>1. Tail(stack) \in Seq(SafeFrame) /\ Neutral(stack, Tail(stack)) /\ Neutral(stack, stack)
      BY <1>4, TopQuiet DEF DoJoinDetail, Neutral, TInv, EndInv
    <2>2. \/ \E f : Quiet(f) /\ stack' = <<f>> \o Tail(stack)
          \/ stack' = stack
      BY <1>4 DEF DoJoinDetail, Everyone
    <2>3. UNCHANGED <<sess, person, belong, rooms, room>>
      BY <1>4 DEF DoJoinDetail
    <2>4. Neutral(stack, stack')
      BY <2>1, <2>2, NeutralPush
    <2> QED BY <2>3, <2>4, QuietStep
  <1>5. CASE DoGameStart
    <2>1. Tail(stack) \in Seq(SafeFrame) /\ Neutral(stack, Tail(stack))
      BY <1>5, TopQuiet DEF DoGameStart
    <2>2. \/ \E f, g : Quiet(f) /\ Quiet(g) /\ stack' = <<f, g>> \o Tail(stack)
          \/ stack' = Tail(stack)
      BY <1>5 DEF DoGameStart, Everyone, RoomCall
    <2>3. UNCHANGED <<sess, person, belong, rooms, room>>
      BY <1>5 DEF DoGameStart
    <2>4. Neutral(stack, stack')
      BY <2>1, <2>2, NeutralPush2
    <2> QED BY <2>3, <2>4, QuietStep
  <1>6. CASE DoOnTick
    <2>1. Tail(stack) \in Seq(SafeFrame) /\ Neutral(stack, Tail(stack))
      BY <1>6, TopQuiet DEF DoOnTick
    <2>2. \/ \E f : Quiet(f) /\ stack' = <<f>> \o Tail(stack)
          \/ stack' = Tail(stack)
      BY <1>6 DEF DoOnTick, Everyone, SeatCall
    <2>3. UNCHANGED <<sess, person, belong, rooms, room>>
      BY <1>6 DEF DoOnTick
    <2>4. Neutral(stack, stack')
      BY <2>1, <2>2, NeutralPush
    <2> QED BY <2>3, <2>4, QuietStep
  <1>7. CASE DoKick
    <2>1. Tail(stack) \in Seq(SafeFrame) /\ Neutral(stack, Tail(stack))
      BY <1>7, TopQuiet DEF DoKick
    <2>2. \/ \E f, g : Quiet(f) /\ Quiet(g) /\ stack' = <<f, g>> \o Tail(stack)
          \/ \E f : Quiet(f) /\ stack' = <<f>> \o Tail(stack)
      <3>1. PICK r, i, u : \/ stack' = <<RoomCall("gameStart", r)>> \o Tail(stack)
                           \/ stack' = <<UserCall("deleteClient", 0, u), SeatCall("kick", r, i)>> \o Tail(stack)
        BY <1>7 DEF DoKick
      <3>2. /\ Quiet(RoomCall("gameStart", r)) /\ Quiet(UserCall("deleteClient", 0, u))
            /\ Quiet(SeatCall("kick", r, i))
        BY DEF RoomCall, UserCall, SeatCall
      <3> QED BY <3>1, <3>2
    <2>3. UNCHANGED <<sess, person, belong, rooms, room>>
      BY <1>7 DEF DoKick
    <2>4. Neutral(stack, stack')
      BY <2>1, <2>2, NeutralPush, NeutralPush2
    <2> QED BY <2>3, <2>4, QuietStep
  <1> QED BY <1>1, <1>2, <1>3, <1>4, <1>5, <1>6, <1>7

\* One room changes, and not in its seats.
LEMMA OneRoom ==
    ASSUME IInv, NEW r \in Room, NEW q, room' = [room EXCEPT ![r] = q],
           q.players = room[r].players, q.is_online = room[r].is_online
    PROVE  \A s \in rooms : /\ room'[s].players = room[s].players
                            /\ room'[s].is_online = room[s].is_online
                            /\ s # r \/ (room[r].status = "ingame" => q.status = "ingame")
                                 => (room[s].status = "ingame" => room'[s].status = "ingame")
  <1>1. room \in [Room -> RoomRec] /\ rooms \subseteq Room
    BY DEF IInv, TypeOK
  <1>2. \A s \in rooms : room'[s] = IF s = r THEN q ELSE room[s]
    BY <1>1
  <1> QED BY <1>2

\* What remains to be done after the broadcasts of a loading room.
LEMMA QuietEnds ==
    ASSUME IInv, IInv', TInv, DoLeftLoading \/ DoStartSet
    PROVE  TInv'
  <1> USE DEF Quiet, Call, MarkOp, LastOp
  <1> DEFINE r == Head(stack).room
  <1>1. PICK op \in {"leftLoading", "startSet"} : Top(op)
    BY DEF DoLeftLoading, DoStartSet
  <1>2. Tail(stack) \in Seq(SafeFrame) /\ Neutral(stack, Tail(stack)) /\ r \in Room /\ room[r] \in RoomRec
    BY <1>1, TopQuiet, TopRoom DEF RoomOp
  <1>3. Neutral(stack, stack')
    <2>1. stack' = Tail(stack) \/ stack' = <<RoomCall("gameStart", r)>> \o Tail(stack)
      BY DEF DoLeftLoading, DoStartSet
    <2>2. Quiet(RoomCall("gameStart", r))
      BY DEF RoomCall
    <2> QED BY <1>2, <2>1, <2>2, NeutralPush
  <1>4. UNCHANGED <<sess, person, belong, rooms>>
    BY DEF DoLeftLoading, DoStartSet
  <1>5. \A s \in rooms : /\ room'[s].players = room[s].players
                         /\ room'[s].is_online = room[s].is_online
                         /\ room[s].status = "ingame" => room'[s].status = "ingame"
    <2>1. CASE room' = room
      BY <2>1
    <2>2. CASE DoStartSet
      <3>1. PICK q : q = [room[r] EXCEPT !.status = "ingame"] /\ room' = [room EXCEPT ![r] = q]
        BY <2>2 DEF DoStartSet
      <3>2. q.players = room[r].players /\ q.is_online = room[r].is_online /\ q.status = "ingame"
        BY <1>2, <3>1 DEF RoomRec
      <3> QED BY <1>2, <3>1, <3>2, OneRoom
    <2>3. CASE DoLeftLoading /\ room' # room
      <3>1. PICK a, b, q : /\ q = [room[r] EXCEPT !.is_loading_succeed = a, !.loading_succeed_cnt = b]
                           /\ room' = [room EXCEPT ![r] = q]
        BY <2>3 DEF DoLeftLoading
      <3>2. q.players = room[r].players /\ q.is_online = room[r].is_online /\ q.status = room[r].status
        BY <1>2, <3>1 DEF RoomRec
      <3> QED BY <1>2, <3>1, <3>2, OneRoom
    <2> QED BY <2>1, <2>2, <2>3
  <1> HIDE DEF r
  <1> QED BY <1>3, <1>4, <1>5, QuietStep

\* The end of Room::SendGameLoading: no GameEndFromRoom waits below it.
LEMMA LoadingSetTables ==
    ASSUME IInv, IInv', TInv, DoLoadingSet
    PROVE  TInv'
  <1> DEFINE r == Head(stack).room
             q == LoadingRoom(room[r])
  <1>1. Top("loadingSet") /\ stack' = Tail(stack) /\ room' = [room EXCEPT ![r] = q]
        /\ UNCHANGED <<sess, person, belong, rooms>>
    BY DEF DoLoadingSet
  <1>2. r \in Room /\ room[r] \in RoomRec
    BY <1>1, TopRoom DEF RoomOp
  <1>3. q.players = room[r].players /\ q.is_online = room[r].is_online
    BY <1>2 DEF LoadingRoom, RoomRec
  <1>4. stack \in Seq(Frame) /\ stack # <<>> /\ Head(stack).op = "loadingSet" /\ Bottom(stack)
    BY <1>1 DEF Top, IInv, TypeOK, TInv, EndInv
  <1>5. /\ stack' = <<>>
        /\ \A op \in MarkOp : OnStack(op, stack') = {} /\ OnStack(op, stack) = {}
        /\ Bottom(stack')
    BY <1>1, <1>4, PopOne, NoneOnStack DEF LastOp, MarkOp
  <1> HIDE DEF r, q
  <1>6. \A s \in rooms : room'[s].players = room[s].players /\ room'[s].is_online = room[s].is_online
    BY <1>1, <1>2, <1>3, OneRoom
  <1>7. SeatsInv'
    BY <1>1, <1>6 DEF TInv, SeatsInv, Seated
  <1>8. UsersInv'
    BY <1>1, <1>5 DEF TInv, UsersInv, MarkOp
  <1>9. EndInv'
    BY <1>5 DEF EndInv, MarkOp
  <1> QED BY <1>7, <1>8, <1>9 DEF TInv

\* The ends of PersonLogout and of DeletePlayer in a waiting room.
LEMMA PersonTables ==
    ASSUME IInv, IInv', TInv, DoPersonGone \/ DoLeftWaiting
    PROVE  TInv'
  <1> DEFINE u == Head(stack).user
  <1>1. PICK op \in {"personGone", "leftWaiting"} :
          /\ Top(op) /\ Head(stack).op = op
          /\ op = "personGone" => person' = [person EXCEPT ![u] = "none"]
          /\ op = "leftWaiting" => person' = [person EXCEPT ![u] = IF person[u] = "none" THEN "none" ELSE "hall"]
    BY DEF DoPersonGone, DoLeftWaiting, ChangePersonStatus, Top
  <1>2. stack' = Tail(stack) /\ UNCHANGED <<sess, belong, rooms, room>>
    BY DEF DoPersonGone, DoLeftWaiting
  <1>3. /\ u \in User /\ stack \in Seq(Frame) /\ stack # <<>> /\ Bottom(stack)
        /\ person \in [User -> {"none", "hall", "room"}]
    BY <1>1, RestOK DEF Frame, UserOp, Top, IInv, TypeOK, TInv, EndInv
  <1>4. /\ OnStack(op, stack) = OnStack(op, stack') \cup {u}
        /\ \A o : o # op => OnStack(o, stack) = OnStack(o, stack')
        /\ Bottom(stack')
    BY <1>1, <1>2, <1>3, PopOne
  <1> HIDE DEF u
  <1>5. SeatsInv'
    BY <1>2 DEF TInv, SeatsInv, Seated
  <1>6. UsersInv'
    BY <1>1, <1>2, <1>3, <1>4 DEF TInv, UsersInv
  <1>7. EndInv'
    BY <1>2, <1>4 DEF TInv, EndInv
  <1> QED BY <1>5, <1>6, <1>7 DEF TInv

\* Where the player of seat i sat before DeletePlayer emptied seat pos
Came(q, pos, i) == IF q.status = "waiting" /\ pos <= i THEN i + 1 ELSE i

\* Room::DeletePlayer moves seats with all that belongs to them.
LEMMA DeleteSeats ==
    ASSUME NEW q \in RoomRec, CountsOf(q), NEW u, NEW pos \in SeatsOf(q, u),
           NEW p, p = DeletePlayer(q, pos)
    PROVE  /\ p.status = q.status /\ p.team_mode = q.team_mode
           /\ p.is_online \subseteq Nat /\ pos \in q.is_online /\ q.players[pos] = u
           /\ \A i \in p.is_online :
                /\ Came(q, pos, i) \in q.is_online /\ Came(q, pos, i) # pos
                /\ p.players[i] = q.players[Came(q, pos, i)]
                /\ q.team_mode = 2 \/ q.status # "waiting" => p.team_id[i] = q.team_id[Came(q, pos, i)]
           /\ \A i, j \in p.is_online : Came(q, pos, i) = Came(q, pos, j) => i = j
  <1>1. PICK n \in Nat : n = q.player_cnt /\ n <= MaxPlayer
    BY DEF RoomRec
  <1>2. pos \in 1..n /\ pos \in q.is_online /\ q.players[pos] = u /\ q.is_online \subseteq 1..n
    BY <1>1 DEF SeatsOf, CountsOf
  <1>3. CASE q.status = "waiting"
    <2>1. /\ p.players = ShiftPlayers(q, pos) /\ p.team_id = ShiftTeams(q, pos)
          /\ p.is_online = q.is_online \ {n} /\ p.status = q.status /\ p.team_mode = q.team_mode
      BY <1>1, <1>3 DEF DeletePlayer, ShiftSeats, RoomRec
    <2>2. q.is_online = 1..n
      BY <1>1, <1>3 DEF CountsOf
    <2>3. ASSUME NEW i \in p.is_online
          PROVE  /\ i \in 1..n /\ i # n /\ i \in Seat /\ Came(q, pos, i) \in 1..n
                 /\ Came(q, pos, i) = IF pos <= i THEN i + 1 ELSE i
      <3>1. i \in 1..n /\ i # n
        BY <2>1, <2>2
      <3>2. i \in Seat
        BY <1>1, <3>1, ConstantsAssumption DEF Seat
      <3> QED BY <1>1, <1>2, <1>3, <3>1, <3>2 DEF Came
    <2>4. ASSUME NEW i \in p.is_online
          PROVE  /\ p.players[i] = q.players[Came(q, pos, i)]
                 /\ q.team_mode = 2 => p.team_id[i] = q.team_id[Came(q, pos, i)]
      <3>1. /\ i \in Seat /\ i # n /\ (pos <= i => i < n)
            /\ Came(q, pos, i) = IF pos <= i THEN i + 1 ELSE i
        BY <1>1, <2>3
      <3>2. p.players[i] = q.players[Came(q, pos, i)]
        BY <1>1, <2>1, <3>1 DEF ShiftPlayers
      <3>3. q.team_mode = 2 => p.team_id[i] = q.team_id[Came(q, pos, i)]
        BY <1>1, <2>1, <3>1 DEF ShiftTeams
      <3> QED BY <3>2, <3>3
    <2>5. \A i \in p.is_online : Came(q, pos, i) # pos
      BY <1>2, <2>3
    <2>6. \A i, j \in p.is_online : Came(q, pos, i) = Came(q, pos, j) => i = j
      BY <1>2, <2>3
    <2> QED BY <1>2, <1>3, <2>1, <2>2, <2>3, <2>4, <2>5, <2>6
  <1>4. CASE q.status # "waiting"
    <2>1. /\ p.players = q.players /\ p.team_id = q.team_id /\ p.is_online = q.is_online \ {pos}
          /\ p.status = q.status /\ p.team_mode = q.team_mode
      BY <1>4 DEF DeletePlayer, SeatOffline, RoomRec
    <2>2. \A i : Came(q, pos, i) = i
      BY <1>4 DEF Came
    <2> QED BY <1>2, <2>1, <2>2
  <1> QED BY <1>3, <1>4

\* Whoever belongs to a room is found there by GetPlayerID.
LEMMA MemberFound ==
    ASSUME IInv, NEW u \in User, belong[u] # 0
    PROVE  /\ belong[u] \in Room /\ belong[u] \in rooms
           /\ room[belong[u]] \in RoomRec /\ CountsOf(room[belong[u]])
           /\ GetPlayerID(room[belong[u]], u) \in SeatsOf(room[belong[u]], u)
           /\ GetPlayerID(room[belong[u]], u) # 0
  <1> DEFINE q == room[belong[u]]
  <1>1. belong[u] \in Room /\ belong[u] \in rooms /\ q \in RoomRec /\ CountsOf(q)
    BY BelongRoom
  <1>2. SeatsOf(q, u) # {}
    BY DEF IInv, MemberHasSeat
  <1>3. SeatsOf(q, u) \subseteq Nat \ {0}
    BY <1>1 DEF SeatsOf, RoomRec
  <1> HIDE DEF q
  <1>4. \E i \in SeatsOf(q, u) : \A j \in SeatsOf(q, u) : i <= j
    BY <1>2, <1>3, FirstExists
  <1>5. GetPlayerID(q, u) \in SeatsOf(q, u)
    BY <1>2, <1>4 DEF GetPlayerID
  <1> QED BY <1>1, <1>3, <1>5 DEF q

\* Room::DeletePlayer leaves the others seated.
LEMMA DeleteSeated ==
    ASSUME IInv, SeatsInv, NEW u \in User, NEW r, r = belong[u], r # 0, NEW pos, pos = GetPlayerID(room[r], u),
           rooms' = rooms, room' = [room EXCEPT ![r] = DeletePlayer(room[r], pos)],
           belong' = [belong EXCEPT ![u] = 0]
    PROVE  SeatsInv' /\ \A s \in rooms : room'[s].status = room[s].status
  <1>1. /\ r \in Room /\ r \in rooms /\ room[r] \in RoomRec /\ CountsOf(room[r])
        /\ pos \in SeatsOf(room[r], u)
    BY MemberFound
  <1>2. PICK q, p : q = room[r] /\ q \in RoomRec /\ p = DeletePlayer(q, pos)
    BY <1>1
  <1>3. /\ p.status = q.status /\ pos \in q.is_online /\ q.players[pos] = u
        /\ \A i \in p.is_online :
                /\ Came(q, pos, i) \in q.is_online /\ Came(q, pos, i) # pos
                /\ p.players[i] = q.players[Came(q, pos, i)]
        /\ \A i, j \in p.is_online : Came(q, pos, i) = Came(q, pos, j) => i = j
    BY <1>1, <1>2, DeleteSeats
  <1>4. room \in [Room -> RoomRec] /\ rooms \subseteq Room /\ belong \in [User -> 0..MaxRoom]
    BY DEF IInv, TypeOK
  <1>5. \A s \in rooms : room'[s] = IF s = r THEN p ELSE room[s]
    BY <1>2, <1>4
  <1>6. \A v \in User : belong'[v] = IF v = u THEN 0 ELSE belong[v]
    BY <1>4
  <1>7. ASSUME NEW s \in rooms, s # r PROVE Seated(room'[s], s, belong')
    BY <1>5, <1>6, <1>7 DEF SeatsInv, Seated
  <1>8. Seated(q, r, belong)
    BY <1>1, <1>2 DEF SeatsInv
  <1>9. Seated(p, r, belong')
    <2>1. ASSUME NEW i \in p.is_online
          PROVE  p.players[i] \in User /\ belong'[p.players[i]] = r
      <3>1. PICK k \in q.is_online : k # pos /\ p.players[i] = q.players[k]
        BY <1>3
      <3>2. q.players[k] \in User /\ belong[q.players[k]] = r /\ q.players[k] # u
        BY <1>3, <1>8, <3>1 DEF Seated
      <3> QED BY <1>6, <3>1, <3>2
    <2>2. ASSUME NEW i \in p.is_online, NEW j \in p.is_online, p.players[j] = p.players[i]
          PROVE  j = i
      <3>1. q.players[Came(q, pos, i)] = q.players[Came(q, pos, j)]
        BY <1>3, <2>2
      <3>2. Came(q, pos, i) = Came(q, pos, j)
        BY <1>3, <1>8, <3>1 DEF Seated
      <3> QED BY <1>3, <3>2
    <2> QED BY <2>1, <2>2 DEF Seated
  <1>10. \A s \in rooms' : Seated(room'[s], s, belong')
    BY <1>5, <1>7, <1>9
  <1>11. \A s \in rooms : room'[s].status = room[s].status
    BY <1>2, <1>3, <1>5
  <1> QED BY <1>10, <1>11 DEF SeatsInv

\* RoomManager::DeletePlayerFromRoom; `rest` is what is called after it.
LEMMA DeleteTables ==
    ASSUME IInv, SeatsInv, NEW u \in User, NEW S, NEW rest \in Seq(S), Bottom(rest), rooms' = rooms,
           DeletePlayerFromRoom(u, rest)
    PROVE  /\ SeatsInv' /\ \A s \in rooms : room'[s].status = room[s].status
           /\ belong' = [belong EXCEPT ![u] = 0]
           /\ Bottom(stack') /\ OnStack("personGone", stack') = OnStack("personGone", rest)
           /\ OnStack("gameEndFrom", stack') = OnStack("gameEndFrom", rest)
           /\ OnStack("leftWaiting", stack') =
                IF belong[u] # 0 /\ room[belong[u]].status = "waiting"
                THEN OnStack("leftWaiting", rest) \cup {u} ELSE OnStack("leftWaiting", rest)
  <1> DEFINE r == belong[u]
             pos == GetPlayerID(room[r], u)
  <1>1. belong' = [belong EXCEPT ![u] = 0]
    BY DEF DeletePlayerFromRoom
  <1>2. CASE r = 0
    <2>1. stack' = rest /\ room' = room
      BY <1>2 DEF DeletePlayerFromRoom
    <2>2. belong' = belong
      BY <1>1, <1>2 DEF IInv, TypeOK
    <2>3. SeatsInv'
      BY <2>1, <2>2 DEF SeatsInv
    <2> QED BY <1>1, <1>2, <2>1, <2>3
  <1>3. CASE r # 0
    <2>1. r \in rooms /\ pos # 0 /\ room[r] \in RoomRec
      BY <1>3, MemberFound
    <2>2. room' = [room EXCEPT ![r] = DeletePlayer(room[r], pos)] /\ stack' = DeletePlayerCalls(r, u, pos) \o rest
      BY <1>3, <2>1 DEF DeletePlayerFromRoom
    <2>3. SeatsInv' /\ \A s \in rooms : room'[s].status = room[s].status
      BY <1>1, <1>3, <2>2, DeleteSeated
    <2>4. PICK f, g, k : /\ f = Everyone(r, LeaveDetail(r, pos)) /\ g = UserCall("leftWaiting", 0, u)
                         /\ k = Everyone(r, ExitGameMsg(pos))
      OBVIOUS
    <2>5. PICK h : h = SeatCall("leftLoading", r, pos)
      OBVIOUS
    <2>6. /\ f.op = "everyone" /\ g.op = "leftWaiting" /\ k.op = "everyone" /\ h.op = "leftLoading"
          /\ g.user = u
      BY <2>4, <2>5 DEF Everyone, UserCall, SeatCall, Call
    <2>7. \/ room[r].status = "waiting" /\ stack' = <<f, g>> \o rest
          \/ room[r].status = "loading" /\ stack' = <<k, h>> \o rest
          \/ room[r].status = "ingame" /\ stack' = <<>> \o rest
      BY <2>1, <2>2, <2>4, <2>5 DEF DeletePlayerCalls, RoomRec, Status
    <2>9. <<>> \o rest = rest
      OBVIOUS
    <2>10. CASE room[r].status = "waiting"
      <3>1. stack' = <<f, g>> \o rest
        BY <2>7, <2>10
      <3>2. /\ Bottom(<<f, g>> \o rest)
            /\ \A op : f.op # op /\ g.op = op => OnStack(op, <<f, g>> \o rest) = OnStack(op, rest) \cup {g.user}
            /\ \A op : f.op # op /\ g.op # op => OnStack(op, <<f, g>> \o rest) = OnStack(op, rest)
        BY <2>6, PushTwo DEF LastOp
      <3> QED BY <1>1, <1>3, <2>3, <2>6, <2>10, <3>1, <3>2
    <2>11. CASE room[r].status = "loading"
      <3>1. stack' = <<k, h>> \o rest
        BY <2>7, <2>11
      <3>2. /\ Bottom(<<k, h>> \o rest)
            /\ \A op : k.op # op /\ h.op # op => OnStack(op, <<k, h>> \o rest) = OnStack(op, rest)
        BY <2>6, PushTwo DEF LastOp
      <3> QED BY <1>1, <1>3, <2>3, <2>6, <2>11, <3>1, <3>2
    <2>12. CASE room[r].status = "ingame"
      <3>1. stack' = rest
        BY <2>7, <2>9, <2>12
      <3> QED BY <1>1, <1>3, <2>3, <2>12, <3>1
    <2> QED BY <2>7, <2>10, <2>11, <2>12
  <1> QED BY <1>2, <1>3

\* MessageHandler::DeleteClientByFD up to the end of Person::OnExit
LEMMA DeleteClientTables ==
    ASSUME IInv, IInv', TInv, DoDeleteClient
    PROVE  TInv'
  <1>1. PICK u : u = Head(stack).user
    OBVIOUS
  <1>2. Tail(stack) \in Seq(SafeFrame) /\ Neutral(stack, Tail(stack))
    BY TopQuiet DEF DoDeleteClient, MarkOp, LastOp
  <1>3. UNCHANGED <<person, rooms>> /\ sess \subseteq User /\ belong \in [User -> 0..MaxRoom]
    BY DEF DoDeleteClient, IInv, TypeOK
  <1>4. CASE u \notin sess
    <2>1. stack' = Tail(stack) /\ UNCHANGED <<sess, belong, room>>
      BY <1>1, <1>4 DEF DoDeleteClient
    <2> QED BY <1>2, <1>3, <2>1, QuietStep
  <1>5. CASE u \in sess
    <2>1. PICK g : g = UserCall("personGone", 0, u)
      OBVIOUS
    <2>2. g.op = "personGone" /\ g.user = u
      BY <2>1 DEF UserCall, Call
    <2>3. PICK rest \in Seq(SafeFrame \cup {g}) : rest = <<g>> \o Tail(stack)
      <3>1. <<g>> \o Tail(stack) \in Seq(SafeFrame \cup {g})
        <4>1. Tail(stack) \in Seq(SafeFrame \cup {g}) /\ g \in SafeFrame \cup {g}
          BY <1>2
        <4> QED BY <4>1, Push
      <3> QED BY <3>1, Zenon
    <2>4. /\ Bottom(rest) /\ OnStack("personGone", rest) = OnStack("personGone", stack) \cup {u}
          /\ OnStack("leftWaiting", rest) = OnStack("leftWaiting", stack)
          /\ OnStack("gameEndFrom", rest) = OnStack("gameEndFrom", stack)
      <3>1. Tail(stack) \in Seq(SafeFrame) /\ Bottom(Tail(stack))
        BY <1>2 DEF Neutral
      <3>2. /\ OnStack("personGone", rest) = OnStack("personGone", Tail(stack)) \cup {u}
            /\ \A op : op # "personGone" => OnStack(op, rest) = OnStack(op, Tail(stack))
            /\ Bottom(rest)
        <4>1. /\ \A op : g.op = op => OnStack(op, <<g>> \o Tail(stack)) = OnStack(op, Tail(stack)) \cup {g.user}
              /\ \A op : g.op # op => OnStack(op, <<g>> \o Tail(stack)) = OnStack(op, Tail(stack))
              /\ g.op \notin LastOp => Bottom(<<g>> \o Tail(stack))
          BY <3>1, PushOne
        <4> QED BY <2>2, <2>3, <4>1 DEF LastOp
      <3> QED BY <1>2, <3>2 DEF Neutral, MarkOp
    <2>5. u \in User /\ sess' = sess \ {u}
      BY <1>1, <1>3, <1>5 DEF DoDeleteClient
    <2>6. /\ SeatsInv' /\ \A s \in rooms : room'[s].status = room[s].status
          /\ \A v \in User : belong'[v] = IF v = u THEN 0 ELSE belong[v]
          /\ Bottom(stack') /\ OnStack("personGone", stack') = OnStack("personGone", stack) \cup {u}
          /\ OnStack("gameEndFrom", stack') = OnStack("gameEndFrom", stack)
          /\ \A v \in User \ {u} : v \in OnStack("leftWaiting", stack') <=> v \in OnStack("leftWaiting", stack)
      <3>1. CASE person[u] = "room"
        <4>1. DeletePlayerFromRoom(u, rest)
          BY <1>1, <1>5, <2>1, <2>3, <3>1 DEF DoDeleteClient
        <4>2. /\ SeatsInv' /\ \A s \in rooms : room'[s].status = room[s].status
              /\ belong' = [belong EXCEPT ![u] = 0]
              /\ Bottom(stack') /\ OnStack("personGone", stack') = OnStack("personGone", rest)
              /\ OnStack("gameEndFrom", stack') = OnStack("gameEndFrom", rest)
              /\ OnStack("leftWaiting", stack') = OnStack("leftWaiting", rest) \cup {u}
                 \/ OnStack("leftWaiting", stack') = OnStack("leftWaiting", rest)
          <5>1. SeatsInv /\ rooms' = rooms /\ Bottom(rest)
            BY <1>3, <2>4 DEF TInv
          <5> QED BY ONLY IInv, <2>5, <4>1, <5>1, rest \in Seq(SafeFrame \cup {g}), DeleteTables
        <4> QED BY <1>3, <2>4, <4>2
      <3>2. CASE person[u] # "room"
        <4>1. stack' = rest /\ UNCHANGED <<belong, room>>
          BY <1>1, <1>5, <2>1, <2>3, <3>2 DEF DoDeleteClient
        <4>2. belong[u] = 0
          BY <2>5, <3>2 DEF TInv, UsersInv
        <4>3. SeatsInv'
          BY <1>3, <4>1 DEF TInv, SeatsInv
        <4> QED BY <2>4, <4>1, <4>2, <4>3
      <3> QED BY <3>1, <3>2
    <2>7. UsersInv'
      BY <1>3, <1>5, <2>5, <2>6 DEF TInv, UsersInv
    <2>8. EndInv'
      <3>1. \A v \in User : belong[v] # 0 => belong[v] \in rooms
        BY DEF IInv, MemberHasSeat
      <3> QED BY <2>6, <3>1 DEF TInv, EndInv
    <2> QED BY <2>6, <2>7, <2>8 DEF TInv
  <1> QED BY <1>4, <1>5

\* RoomManager::GameEndFromRoom and Room::GameEnd, for a user in a game
LEMMA GameEndTables ==
    ASSUME IInv, IInv', TInv, DoGameEndFrom
    PROVE  TInv'
  <1> DEFINE u == Head(stack).user
             r == belong[u]
             pos == IF r = 0 THEN 0 ELSE GetPlayerID(room[r], u)
  <1>1. Top("gameEndFrom") /\ stack' = Tail(stack) /\ belong' = [belong EXCEPT ![u] = 0]
        /\ UNCHANGED <<sess, rooms>>
    BY DEF DoGameEndFrom
  <1>2. stack \in Seq(Frame) /\ stack # <<>> /\ Head(stack).op = "gameEndFrom" /\ Bottom(stack)
        /\ u \in User
    BY <1>1, RestOK DEF Top, IInv, TypeOK, TInv, EndInv, Frame, UserOp
  <1>3. /\ stack' = <<>> /\ u \in OnStack("gameEndFrom", stack)
        /\ \A op : OnStack(op, stack') = {} /\ (op # "gameEndFrom" => OnStack(op, stack) = {})
        /\ Bottom(stack')
    BY <1>1, <1>2, PopOne, NoneOnStack DEF LastOp
  <1>4. /\ belong \in [User -> 0..MaxRoom] /\ sess \subseteq User
        /\ person \in [User -> {"none", "hall", "room"}]
    BY DEF IInv, TypeOK
  <1>5. CASE r = 0
    <2>1. room' = room /\ person' = person /\ belong' = belong
      BY <1>1, <1>4, <1>5 DEF DoGameEndFrom
    <2>2. SeatsInv'
      BY <1>1, <2>1 DEF TInv, SeatsInv
    <2>3. UsersInv'
      BY <1>1, <1>3, <2>1 DEF TInv, UsersInv
    <2>4. EndInv'
      BY <1>3 DEF EndInv
    <2> QED BY <2>2, <2>3, <2>4 DEF TInv
  <1>6. CASE r # 0
    <2>1. room[r].status = "ingame" /\ pos # 0 /\ pos = GetPlayerID(room[r], u)
      BY <1>2, <1>3, <1>6, MemberFound DEF TInv, EndInv
    <2>2. room' = [room EXCEPT ![r] = DeletePlayer(room[r], pos)]
      BY <2>1 DEF DoGameEndFrom, DeletePlayer
    <2>3. person' = [person EXCEPT ![u] = IF person[u] = "none" THEN "none" ELSE "hall"]
      BY <2>1 DEF DoGameEndFrom, ChangePersonStatus
    <2> HIDE DEF u, r, pos
    <2>4. SeatsInv'
      BY <1>1, <1>2, <1>6, <2>1, <2>2, DeleteSeated DEF TInv, r
    <2>5. UsersInv'
      BY <1>1, <1>2, <1>3, <1>4, <2>3 DEF TInv, UsersInv
    <2>6. EndInv'
      BY <1>3 DEF EndInv
    <2> QED BY <2>4, <2>5, <2>6 DEF TInv
  <1> QED BY <1>5, <1>6

\* MP_CSPlayerExitRoom
LEMMA ExitTables ==
    ASSUME IInv, IInv', TInv, NEW u \in User, CSPlayerExitRoom(u)
    PROVE  TInv'
  <1> DEFINE r == belong[u]
             reply == <<Everyone(r, Message("SCPlayerExitRoom"))>>
  <1>1. stack = <<>> /\ u \in sess /\ UNCHANGED <<sess, person, rooms>>
    BY DEF CSPlayerExitRoom, Idle
  <1>2. Quiet(Everyone(r, Message("SCPlayerExitRoom")))
    BY DEF Quiet, Everyone, Call, MarkOp, LastOp
  <1>3. Neutral(stack, reply) /\ Neutral(stack, stack)
    BY <1>1, <1>2, NeutralNew
  <1>4. CASE ~(r # 0 /\ room[r].status = "waiting")
    <2>1. (stack' = reply \/ stack' = stack) /\ UNCHANGED <<belong, room>>
      BY <1>4 DEF CSPlayerExitRoom
    <2> QED BY <1>1, <1>3, <2>1, QuietStep
  <1>5. CASE r # 0 /\ room[r].status = "waiting"
    <2>1. DeletePlayerFromRoom(u, reply)
      BY <1>5 DEF CSPlayerExitRoom
    <2>2. reply \in Seq({Everyone(r, Message("SCPlayerExitRoom"))}) /\ Bottom(reply)
      BY <1>3 DEF Neutral
    <2>3. belong \in [User -> 0..MaxRoom]
      BY DEF IInv, TypeOK
    <2> HIDE DEF reply
    <2>4. /\ SeatsInv' /\ \A s \in rooms : room'[s].status = room[s].status
          /\ belong' = [belong EXCEPT ![u] = 0] /\ Bottom(stack')
          /\ OnStack("personGone", stack') = {} /\ OnStack("gameEndFrom", stack') = {}
          /\ OnStack("leftWaiting", stack') = {u}
      <3>1. \A op \in MarkOp : OnStack(op, reply) = {}
        BY <1>1, <1>3, NoneOnStack DEF Neutral
      <3> QED BY <1>1, <1>5, <2>1, <2>2, <3>1, DeleteTables DEF TInv, MarkOp
    <2>5. UsersInv'
      BY <1>1, <2>3, <2>4, NoneOnStack DEF TInv, UsersInv
    <2>6. EndInv'
      BY <2>4 DEF EndInv
    <2> QED BY <2>4, <2>5, <2>6 DEF TInv
  <1> QED BY <1>4, <1>5

\* A handler that finds nothing on the stack, moves nobody and leaves calls
\* that the invariant does not speak of
LEMMA QuietNew ==
    ASSUME IInv, IInv', TInv, stack = <<>>, UNCHANGED <<sess, person, belong, rooms>>,
           \/ stack' = <<>>
           \/ \E f : Quiet(f) /\ stack' = <<f>>
           \/ \E f, g : Quiet(f) /\ Quiet(g) /\ stack' = <<f, g>>,
           \/ room' = room
           \/ \E r \in Room : \E q :
                /\ room' = [room EXCEPT ![r] = q]
                /\ q.players = room[r].players /\ q.is_online = room[r].is_online
                /\ q.status = room[r].status
    PROVE  TInv'
  <1>1. Neutral(stack, stack')
    <2>1. CASE stack' = <<>>
      BY <2>1, NeutralNew
    <2>2. CASE \E f : Quiet(f) /\ stack' = <<f>>
      BY <2>2, NeutralNew
    <2>3. CASE \E f, g : Quiet(f) /\ Quiet(g) /\ stack' = <<f, g>>
      <3>1. PICK f, g : Quiet(f) /\ Quiet(g) /\ stack' = <<f, g>>
        BY <2>3
      <3>2. Neutral(<<>>, <<f, g>>)
        BY <3>1, NeutralNew
      <3> QED BY <3>1, <3>2
    <2> QED BY <2>1, <2>2, <2>3
  <1>2. \A s \in rooms : /\ room'[s].players = room[s].players
                         /\ room'[s].is_online = room[s].is_online
                         /\ room[s].status = "ingame" => room'[s].status = "ingame"
    BY OneRoom
  <1> QED BY <1>1, <1>2, QuietStep

\* A room of rooms_ loads for too long; the tick goes from room to room.
LEMMA TickTables ==
    ASSUME IInv, IInv', TInv, Tick \/ TickNext \/ \E r \in Room : LoadingTimePasses(r)
    PROVE  TInv'
  <1> DEFINE Kept == \A s \in rooms' : /\ room'[s].players = room[s].players
                                       /\ room'[s].is_online = room[s].is_online
                                       /\ room[s].status = "ingame" => room'[s].status = "ingame"
  <1>1. stack = <<>> /\ UNCHANGED <<sess, person, belong>> /\ rooms' \subseteq rooms
    BY DEF Tick, TickNext, LoadingTimePasses, EraseRoom, Idle
  <1>2. Neutral(stack, stack')
    <2>1. stack' = <<>> \/ \E r : stack' = <<RoomCall("onTick", r)>>
      BY <1>1 DEF Tick, TickNext, LoadingTimePasses, Visit
    <2>2. \A r : Quiet(RoomCall("onTick", r))
      BY DEF Quiet, RoomCall, Call, MarkOp, LastOp
    <2> QED BY <1>1, <2>1, <2>2, NeutralNew
  <1>3. Kept
    <2>1. CASE room' = room
      BY <2>1
    <2>2. CASE room' # room
      <3>1. PICK r \in Room : LoadingTimePasses(r)
        BY <2>2 DEF Tick, TickNext
      <3>2. PICK q : q = [room[r] EXCEPT !.late = TRUE] /\ room' = [room EXCEPT ![r] = q]
        BY <3>1 DEF LoadingTimePasses
      <3>3. room[r] \in RoomRec
        BY DEF IInv, TypeOK
      <3>4. /\ q.players = room[r].players /\ q.is_online = room[r].is_online
            /\ q.status = room[r].status
        BY <3>2, <3>3 DEF RoomRec
      <3> QED BY <1>1, <3>2, <3>4, OneRoom
    <2> QED BY <2>1, <2>2
  <1> QED BY <1>1, <1>2, <1>3, QuietStep

\* Handlers that move nobody
LEMMA QuietHandlers ==
    ASSUME IInv, IInv', TInv, NEW u \in User,
           \/ Disconnect(u) \/ CSPullAllRoomInfo(u) \/ CSLoadSucceed(u)
           \/ \E t \in TeamId : CSChangeTeam(u, t)
           \/ \E o \in GameOption : CSChangeOption(u, o)
    PROVE  TInv'
  <1> DEFINE r == belong[u]
  <1>1. stack = <<>> /\ UNCHANGED <<sess, person, belong, rooms>>
    BY DEF Disconnect, CSPullAllRoomInfo, CSLoadSucceed, CSChangeTeam, CSChangeOption, Serve, Idle
  <1>2. \/ stack' = <<>>
        \/ \E f : Quiet(f) /\ stack' = <<f>>
    <2>1. \/ stack' = <<>>
          \/ stack' = <<UserCall("deleteClient", 0, u)>>
          \/ \E m : stack' = <<Send(u, m)>>
          \/ \E s, m : stack' = <<Everyone(s, m)>>
          \/ \E s : stack' = <<RoomCall("gameStart", s)>>
      BY <1>1 DEF Disconnect, CSPullAllRoomInfo, CSLoadSucceed, CSChangeTeam, CSChangeOption, Serve
    <2>2. /\ Quiet(UserCall("deleteClient", 0, u))
          /\ \A m : Quiet(Send(u, m))
          /\ \A s, m : Quiet(Everyone(s, m))
          /\ \A s : Quiet(RoomCall("gameStart", s))
      BY DEF Quiet, UserCall, Send, Everyone, RoomCall, Call, MarkOp, LastOp
    <2> QED BY <2>1, <2>2
  <1>3. \/ room' = room
        \/ \E q : /\ r \in Room /\ room' = [room EXCEPT ![r] = q]
                  /\ q.players = room[r].players /\ q.is_online = room[r].is_online
                  /\ q.status = room[r].status
    <2>1. CASE room' = room
      BY <2>1
    <2>2. CASE room' # room
      <3>1. PICK q : /\ r # 0 /\ room' = [room EXCEPT ![r] = q]
                     /\ \/ \E a, b : q = [room[r] EXCEPT !.is_loading_succeed = a, !.loading_succeed_cnt = b]
                        \/ \E a : q = [room[r] EXCEPT !.team_id = a]
                        \/ \E a : q = [room[r] EXCEPT !.game_option = a]
                        \/ q = room[r]
        <4>1. CASE CSLoadSucceed(u)
          <5>1. PICK a, b : /\ r # 0
                            /\ room' = [room EXCEPT ![r] =
                                 [room[r] EXCEPT !.is_loading_succeed = a, !.loading_succeed_cnt = b]]
            BY <4>1 DEF CSLoadSucceed
          <5> QED BY <5>1
        <4>2. CASE \E t \in TeamId : CSChangeTeam(u, t)
          <5>1. PICK a : r # 0 /\ room' = [room EXCEPT ![r] = [room[r] EXCEPT !.team_id = a]]
            BY <4>2 DEF CSChangeTeam
          <5> QED BY <5>1
        <4>3. CASE \E o \in GameOption : CSChangeOption(u, o)
          <5>1. PICK q, o : /\ r # 0 /\ room' = [room EXCEPT ![r] = q]
                            /\ q = [room[r] EXCEPT !.game_option = o] \/ q = room[r]
            BY <4>3 DEF CSChangeOption
          <5> QED BY <5>1
        <4> QED BY <2>2, <4>1, <4>2, <4>3 DEF Disconnect, CSPullAllRoomInfo
      <3>2. r \in Room /\ room[r] \in RoomRec
        BY <3>1, MemberFound
      <3> HIDE DEF r
      <3>3. q.players = room[r].players /\ q.is_online = room[r].is_online /\ q.status = room[r].status
        BY <3>1, <3>2 DEF RoomRec
      <3> QED BY <3>1, <3>2, <3>3
    <2> QED BY <2>1, <2>2
  <1> HIDE DEF r
  <1> QED BY <1>1, <1>2, <1>3, QuietNew

\* A login: a session and a Person, in no room.
LEMMA LoginTables ==
    ASSUME IInv, IInv', TInv, NEW u \in User, CSLogin(u)
    PROVE  TInv'
  <1>1. /\ stack = <<>> /\ u \notin sess /\ UNCHANGED <<belong, rooms, room>>
        /\ sess' = sess \cup {u} /\ person' = [person EXCEPT ![u] = "hall"]
        /\ stack' = <<Send(u, Message("SCLogin"))>>
    BY DEF CSLogin, Idle
  <1>2. Quiet(Send(u, Message("SCLogin")))
    BY DEF Quiet, Send, Call, MarkOp, LastOp
  <1>3. Bottom(stack') /\ \A op \in MarkOp : OnStack(op, stack) = {} /\ OnStack(op, stack') = {}
    BY <1>1, <1>2, NeutralNew, NoneOnStack DEF Neutral
  <1>4. \A v \in User : person'[v] = IF v = u THEN "hall" ELSE person[v]
    BY <1>1 DEF IInv, TypeOK
  <1>5. SeatsInv'
    BY <1>1 DEF TInv, SeatsInv
  <1>6. UsersInv'
    BY <1>1, <1>3, <1>4 DEF TInv, UsersInv, MarkOp
  <1>7. EndInv'
    BY <1>3 DEF EndInv, MarkOp
  <1> QED BY <1>5, <1>6, <1>7 DEF TInv

\* Room::AddPlayer takes a free seat.
LEMMA AddSeat ==
    ASSUME NEW q \in RoomRec, CountsOf(q), q.player_cnt < MaxPlayer, NEW u, NEW p, p = AddPlayer(q, u)
    PROVE  \E n : /\ n \notin q.is_online /\ p.is_online = q.is_online \cup {n} /\ p.players[n] = u
                  /\ \A i \in q.is_online : p.players[i] = q.players[i]
  <1>1. PICK n \in Nat : n = q.player_cnt + 1 /\ n <= MaxPlayer /\ n # 0
    BY ConstantsAssumption DEF RoomRec
  <1>2. n \in Seat
    BY <1>1, ConstantsAssumption DEF Seat
  <1>3. q.is_online \subseteq 1..n - 1 /\ n \notin q.is_online
    BY <1>1 DEF CountsOf, RoomRec
  <1>4. p.players = [q.players EXCEPT ![n] = u] /\ p.is_online = q.is_online \cup {n}
    BY <1>1 DEF AddPlayer, RoomRec
  <1>5. q.players \in [Seat -> Occupant] /\ q.is_online \subseteq Seat
    BY DEF RoomRec
  <1> QED BY <1>2, <1>3, <1>4, <1>5

\* A user who is in no room enters one.
LEMMA EnterTables ==
    ASSUME IInv, IInv', TInv, stack = <<>>, Neutral(stack, stack'),
           NEW u \in User, u \in sess, belong[u] = 0, NEW r \in Room,
           NEW q \in RoomRec, CountsOf(q), q.player_cnt < MaxPlayer, Seated(q, r, belong),
           room' = [room EXCEPT ![r] = AddPlayer(q, u)], belong' = [belong EXCEPT ![u] = r],
           rooms' = rooms \cup {r}, ChangePersonStatus(u, "room"), sess' = sess
    PROVE  TInv'
  <1>1. /\ room \in [Room -> RoomRec] /\ rooms \subseteq Room /\ belong \in [User -> 0..MaxRoom]
        /\ person \in [User -> {"none", "hall", "room"}] /\ r # 0
    BY DEF IInv, TypeOK, Room
  <1>2. PICK p : p = AddPlayer(q, u)
    OBVIOUS
  <1>3. PICK n : /\ n \notin q.is_online /\ p.is_online = q.is_online \cup {n} /\ p.players[n] = u
                 /\ \A i \in q.is_online : p.players[i] = q.players[i]
    BY <1>2, AddSeat
  <1>4. \A s \in Room : room'[s] = IF s = r THEN p ELSE room[s]
    BY <1>1, <1>2
  <1>5. \A v \in User : belong'[v] = IF v = u THEN r ELSE belong[v]
    BY <1>1
  <1>6. ASSUME NEW s \in rooms, s # r PROVE Seated(room'[s], s, belong')
    <2>1. Seated(room[s], s, belong) /\ room'[s] = room[s] /\ s # 0
      BY <1>1, <1>4, <1>6 DEF TInv, SeatsInv, Room
    <2> QED BY <1>5, <2>1 DEF Seated
  <1>7. Seated(p, r, belong')
    <2>1. \A i \in q.is_online : q.players[i] \in User /\ q.players[i] # u /\ belong'[q.players[i]] = r
      BY <1>1, <1>5 DEF Seated
    <2>2. ASSUME NEW i \in p.is_online
          PROVE  p.players[i] \in User /\ belong'[p.players[i]] = r
      BY <1>3, <1>5, <2>1
    <2>3. ASSUME NEW i \in p.is_online, NEW j \in p.is_online, p.players[j] = p.players[i]
          PROVE  j = i
      BY <1>3, <2>1, <2>3 DEF Seated
    <2> QED BY <2>2, <2>3 DEF Seated
  <1>8. SeatsInv'
    <2>1. \A s \in rooms' : Seated(room'[s], s, belong')
      BY <1>1, <1>4, <1>6, <1>7
    <2> QED BY <2>1 DEF SeatsInv
  <1>9. Bottom(stack') /\ \A op \in MarkOp : OnStack(op, stack) = {} /\ OnStack(op, stack') = {}
    BY NoneOnStack DEF Neutral
  <1>10. \A v \in User : person'[v] = IF v = u THEN "room" ELSE person[v]
    BY <1>1 DEF ChangePersonStatus, TInv, UsersInv
  <1>11. UsersInv'
    BY <1>1, <1>5, <1>9, <1>10 DEF TInv, UsersInv, MarkOp
  <1>12. EndInv'
    BY <1>9 DEF EndInv, MarkOp
  <1> QED BY <1>8, <1>11, <1>12 DEF TInv

\* MP_CSJoinRoom
LEMMA JoinTables ==
    ASSUME IInv, IInv', TInv, NEW u \in User, NEW r \in Room, CSJoinRoom(u, r)
    PROVE  TInv'
  <1>1. stack = <<>> /\ u \in sess /\ UNCHANGED <<sess, rooms>>
    BY DEF CSJoinRoom, Serve, Idle
  <1>2. CASE CanJoin(u, r)
    <2>1. /\ room' = [room EXCEPT ![r] = AddPlayer(room[r], u)]
          /\ belong' = [belong EXCEPT ![u] = r] /\ ChangePersonStatus(u, "room")
          /\ stack' = <<Send(u, Message("SCJoinRoom")), RoomCall("joinDetail", r)>>
      BY <1>2 DEF CSJoinRoom, Serve
    <2>2. Quiet(Send(u, Message("SCJoinRoom"))) /\ Quiet(RoomCall("joinDetail", r))
      BY DEF Quiet, Send, RoomCall, Call, MarkOp, LastOp
    <2>3. Neutral(stack, stack')
      BY <1>1, <2>1, <2>2, NeutralNew
    <2>4. /\ r \in rooms /\ belong[u] = 0 /\ room[r].player_cnt < MaxPlayer
          /\ room[r] \in RoomRec /\ CountsOf(room[r]) /\ Seated(room[r], r, belong)
      BY <1>2 DEF CanJoin, IInv, TypeOK, RoomCounts, TInv, SeatsInv
    <2>5. rooms' = rooms \cup {r}
      BY <1>1, <2>4
    <2> QED BY <1>1, <2>1, <2>3, <2>4, <2>5, EnterTables
  <1>3. CASE ~CanJoin(u, r)
    <2>1. stack' = <<Send(u, Message("SCJoinRoomFailed"))>> /\ UNCHANGED <<room, belong, person>>
      BY <1>3 DEF CSJoinRoom, Serve
    <2>2. Quiet(Send(u, Message("SCJoinRoomFailed")))
      BY DEF Quiet, Send, Call, MarkOp, LastOp
    <2> QED BY <1>1, <2>1, <2>2, QuietNew
  <1> QED BY <1>2, <1>3

\* MP_CSCreateRoom
LEMMA CreateTables ==
    ASSUME IInv, IInv', TInv, NEW u \in User, NEW m \in TeamMode, CSCreateRoom(u, m)
    PROVE  TInv'
  <1>1. stack = <<>> /\ u \in sess /\ sess' = sess
    BY DEF CSCreateRoom, Idle
  <1>2. CASE belong[u] # 0
    <2>1. stack' = <<Send(u, Message("SCCreateRoomFailed"))>> /\ UNCHANGED <<room, rooms, belong, person>>
      BY <1>2 DEF CSCreateRoom
    <2>2. Quiet(Send(u, Message("SCCreateRoomFailed")))
      BY DEF Quiet, Send, Call, MarkOp, LastOp
    <2> QED BY <1>1, <2>1, <2>2, QuietNew
  <1>3. CASE belong[u] = 0
    <2>1. PICK r : /\ r = IF freeRoom # <<>> THEN Head(freeRoom) ELSE nextRoom
                   /\ freeRoom # <<>> \/ nextRoom <= MaxRoom
                   /\ belong' = [belong EXCEPT ![u] = r] /\ rooms' = rooms \cup {r}
                   /\ room' = [room EXCEPT ![r] = AddPlayer(InitRoom(room[r], m), u)]
                   /\ ChangePersonStatus(u, "room")
                   /\ stack' = <<Send(u, Message("SCCreateRoom")), UserCall("createDetail", r, u)>>
      BY <1>3 DEF CSCreateRoom
    <2>2. r \in Room
      <3>1. freeRoom \in Seq(Room) /\ nextRoom \in 1..MaxRoom + 1
        BY DEF IInv, TypeOK
      <3>2. freeRoom # <<>> => Head(freeRoom) \in Room
        BY <3>1, Pop
      <3> QED BY <2>1, <3>1, <3>2, ConstantsAssumption DEF Room
    <2>3. Neutral(stack, stack')
      <3>1. Quiet(Send(u, Message("SCCreateRoom"))) /\ Quiet(UserCall("createDetail", r, u))
        BY DEF Quiet, Send, UserCall, Call, MarkOp, LastOp
      <3> QED BY <1>1, <2>1, <3>1, NeutralNew
    <2>4. PICK x : x = InitRoom(room[r], m)
      OBVIOUS
    <2>5. x \in RoomRec /\ CountsOf(x) /\ x.player_cnt < MaxPlayer /\ Seated(x, r, belong)
      <3>1. x.player_cnt = 0 /\ x.is_online = {}
        BY <2>4 DEF InitRoom
      <3>2. m \in {1, 2}
        BY ConstantsAssumption
      <3>3. /\ room[r].is_loading_succeed \in SUBSET Seat /\ room[r].loading_succeed_cnt \in Int
            /\ room[r].late \in BOOLEAN
        BY <2>2 DEF IInv, TypeOK, RoomRec
      <3> QED BY <2>4, <3>1, <3>2, <3>3, InitRoomOK, ConstantsAssumption DEF Seated
    <2> QED BY <1>1, <1>3, <2>1, <2>2, <2>3, <2>4, <2>5, EnterTables
  <1> QED BY <1>2, <1>3

\* MP_CSReadyToStart and MP_CSGameEnd leave a call for the end; the second
\* finds its user in a game.
LEMMA LastCallTables ==
    ASSUME GameEndIn \subseteq {"ingame"}, IInv, IInv', TInv, NEW u \in User,
           CSReadyToStart(u) \/ CSGameEnd(u)
    PROVE  TInv'
  <1>1. stack = <<>> /\ UNCHANGED <<sess, person, belong, rooms, room>>
    BY DEF CSReadyToStart, CSGameEnd, Serve, Idle
  <1>2. PICK f, g : /\ Quiet(f) /\ stack' = <<f, g>>
                    /\ \/ g.op = "loadingSet"
                       \/ g.op = "gameEndFrom" /\ g.user = u /\ room[belong[u]].status = "ingame"
    <2>1. \/ stack' = <<Everyone(belong[u], Message("SCGameLoading")), RoomCall("loadingSet", belong[u])>>
          \/ /\ stack' = <<Send(u, Message("SCGameEnd")), UserCall("gameEndFrom", 0, u)>>
             /\ room[belong[u]].status = "ingame"
      BY DEF CSReadyToStart, CSGameEnd, Serve
    <2>2. /\ Quiet(Everyone(belong[u], Message("SCGameLoading"))) /\ Quiet(Send(u, Message("SCGameEnd")))
          /\ RoomCall("loadingSet", belong[u]).op = "loadingSet"
          /\ UserCall("gameEndFrom", 0, u).op = "gameEndFrom" /\ UserCall("gameEndFrom", 0, u).user = u
      BY DEF Quiet, Everyone, Send, RoomCall, UserCall, Call, MarkOp, LastOp
    <2> QED BY <2>1, <2>2
  <1>3. /\ Bottom(stack')
        /\ \A op \in MarkOp : OnStack(op, stack) = {} /\ OnStack(op, stack') \subseteq {g.user}
        /\ \A op \in MarkOp : g.op # op => OnStack(op, stack') = {}
    <2>1. Bottom(<<f, g>>) /\ \A op \in MarkOp : OnStack(op, <<f, g>>) = OnStack(op, <<g>>)
      BY <1>2, NeutralNew
    <2>2. \A op : OnStack(op, <<g>>) \subseteq {g.user} /\ (g.op # op => OnStack(op, <<g>>) = {})
      BY NeutralNew
    <2> QED BY <1>1, <1>2, <2>1, <2>2, NoneOnStack
  <1>4. SeatsInv'
    BY <1>1 DEF TInv, SeatsInv
  <1>5. UsersInv'
    BY <1>1, <1>2, <1>3 DEF TInv, UsersInv, MarkOp
  <1>6. EndInv'
    BY <1>1, <1>2, <1>3 DEF EndInv, MarkOp
  <1> QED BY <1>4, <1>5, <1>6 DEF TInv

\* At first, and after every step of the server, the tables fit the calls.
LEMMA TablesInvariant ==
    ASSUME GameEndIn \subseteq {"ingame"}
    PROVE  Spec => []TInv
  <1>1. Init => TInv
    <2> SUFFICES ASSUME Init PROVE TInv
      OBVIOUS
    <2>1. Bottom(stack) /\ \A op : OnStack(op, stack) = {}
      BY NoneOnStack DEF Init
    <2> QED BY <2>1 DEF Init, TInv, SeatsInv, UsersInv, EndInv
  <1>2. IInv /\ IInv' /\ TInv /\ [Next]_vars => TInv'
    <2> SUFFICES ASSUME IInv, IInv', TInv, [Next]_vars PROVE TInv'
      OBVIOUS
    <2>1. CASE Step
      BY <2>1, QuietCalls, QuietEnds, LoadingSetTables, PersonTables, DeleteClientTables,
         GameEndTables DEF Step
    <2>2. CASE Return \/ UNCHANGED vars
      <3>1. UNCHANGED <<sess, person, belong, rooms, room, stack>>
        BY <2>2 DEF Return, vars
      <3>2. Neutral(stack, stack')
        BY <3>1 DEF Neutral, TInv, EndInv
      <3> QED BY <3>1, <3>2, QuietStep
    <2>3. CASE Tick \/ TickNext \/ \E r \in Room : LoadingTimePasses(r)
      BY <2>3, TickTables
    <2>4. ASSUME NEW u \in User, Event(u) PROVE TInv'
      BY <2>4, QuietHandlers, LoginTables, JoinTables, CreateTables, ExitTables, LastCallTables
         DEF Event
    <2> QED BY <2>1, <2>2, <2>3, <2>4 DEF Next
  <1> QED BY <1>1, <1>2, Invariant, PTL DEF Spec

\* Between two handlers the sessions, the persons, belong_room_ and the seats
\* of the rooms tell the same story, whatever deletions interrupted the calls
\* before, provided that no client sends CSGameEnd outside a game.
THEOREM TablesCorrect ==
    ASSUME GameEndIn \subseteq {"ingame"}
    PROVE  Spec => []TablesAgree
  <1>1. IInv /\ TInv => TablesAgree
    <2> SUFFICES ASSUME IInv, TInv, Idle PROVE TablesAgree
      BY DEF TablesAgree, SeatHasMember, ManagersAgree
    <2>1. \A op : OnStack(op, stack) = {}
      BY NoneOnStack DEF Idle
    <2>2. ManagersAgree
      BY <2>1 DEF ManagersAgree, TInv, UsersInv
    <2>3. ASSUME NEW r \in rooms, NEW i \in room[r].is_online
          PROVE  /\ room[r].players[i] \in sess
                 /\ belong[room[r].players[i]] = r
                 /\ SeatsOf(room[r], room[r].players[i]) = {i}
      <3>1. r \in Room /\ room[r] \in RoomRec /\ CountsOf(room[r]) /\ r # 0
        <4>1. r \in Room /\ room[r] \in RoomRec
          BY DEF IInv, TypeOK
        <4> QED BY <4>1 DEF IInv, RoomCounts, Room
      <3>2. /\ room[r].players[i] \in User /\ belong[room[r].players[i]] = r
            /\ \A j \in room[r].is_online : room[r].players[j] = room[r].players[i] => j = i
        BY DEF TInv, SeatsInv, Seated
      <3>3. room[r].players[i] \in sess
        BY <3>1, <3>2 DEF TInv, UsersInv
      <3>4. SeatsOf(room[r], room[r].players[i]) = {i}
        BY <3>1, <3>2 DEF SeatsOf, CountsOf
      <3> QED BY <3>2, <3>3, <3>4
    <2> QED BY <2>2, <2>3 DEF TablesAgree, SeatHasMember
  <1> QED BY <1>1, Invariant, TablesInvariant, PTL

-----------------------------------------------------------------------------
(* The team of a player. *)

\* GetPlayerID answers with the first seat of the user.
FirstSeat(q, u, i) == i \in SeatsOf(q, u) /\ \A k \in SeatsOf(q, u) : i <= k

\* GetPlayerID finds that seat, and the team is the one of that seat.
LEMMA FirstSeatFound ==
    ASSUME NEW q, q.player_cnt \in Nat, NEW u
    PROVE  /\ SeatsOf(q, u) # {} => FirstSeat(q, u, GetPlayerID(q, u))
           /\ \A i : FirstSeat(q, u, i) => GetPlayerID(q, u) = i /\ TeamOf(q, u) = q.team_id[i]
  <1>1. SeatsOf(q, u) \subseteq Nat
    BY DEF SeatsOf
  <1>2. ASSUME SeatsOf(q, u) # {}
        PROVE  FirstSeat(q, u, GetPlayerID(q, u))
    <2>1. \E i \in SeatsOf(q, u) : \A j \in SeatsOf(q, u) : i <= j
      BY <1>1, <1>2, FirstExists
    <2> QED BY <1>2, <2>1 DEF GetPlayerID, FirstSeat
  <1>3. ASSUME NEW i, FirstSeat(q, u, i)
        PROVE  GetPlayerID(q, u) = i /\ TeamOf(q, u) = q.team_id[i]
    <2>1. SeatsOf(q, u) # {} /\ i \in SeatsOf(q, u)
      BY <1>3 DEF FirstSeat
    <2>2. FirstSeat(q, u, GetPlayerID(q, u))
      BY <1>2, <2>1
    <2>3. GetPlayerID(q, u) \in SeatsOf(q, u) /\ i <= GetPlayerID(q, u) /\ GetPlayerID(q, u) <= i
      BY <1>3, <2>2 DEF FirstSeat
    <2>4. GetPlayerID(q, u) = i
      BY <1>1, <2>1, <2>3
    <2> QED BY <2>1, <2>4 DEF TeamOf
  <1> QED BY <1>2, <1>3

\* The same seats and teams
LEMMA TeamSame ==
    ASSUME NEW q, NEW p, NEW u, p.players = q.players, p.player_cnt = q.player_cnt,
           p.is_online = q.is_online, p.team_id = q.team_id
    PROVE  TeamOf(p, u) = TeamOf(q, u)
  <1>1. SeatsOf(p, u) = SeatsOf(q, u)
    BY DEF SeatsOf
  <1>2. GetPlayerID(p, u) = GetPlayerID(q, u)
    BY <1>1 DEF GetPlayerID
  <1> QED BY <1>1, <1>2 DEF TeamOf

\* Another player leaves a room where teams are chosen: the team moves up with
\* the seat.
LEMMA TeamWhenLeft ==
    ASSUME NEW q \in RoomRec, CountsOf(q), q.team_mode = 2, NEW u, SeatsOf(q, u) # {},
           NEW v, v # u, NEW pos \in SeatsOf(q, v)
    PROVE  TeamOf(DeletePlayer(q, pos), u) = TeamOf(q, u)
  <1>1. PICK n \in Nat : n = q.player_cnt /\ n <= MaxPlayer
    BY DEF RoomRec
  <1>2. PICK p : p = DeletePlayer(q, pos)
    OBVIOUS
  <1>3. PICK i : FirstSeat(q, u, i)
    BY <1>1, FirstSeatFound
  <1>4. /\ pos \in 1..n /\ pos \in q.is_online /\ q.players[pos] = v
        /\ i \in 1..n /\ i \in q.is_online /\ q.players[i] = u
        /\ \A k \in 1..n : k \in q.is_online /\ q.players[k] = u => i <= k
    BY <1>1, <1>3 DEF SeatsOf, FirstSeat
  <1>5. i # pos
    BY <1>4
  <1>6. CASE q.status = "waiting"
    <2>1. /\ p.players = ShiftPlayers(q, pos) /\ p.team_id = ShiftTeams(q, pos)
          /\ p.is_online = q.is_online \ {n} /\ p.player_cnt = n - 1
      BY <1>1, <1>2, <1>6 DEF DeletePlayer, ShiftSeats, RoomRec
    <2>2. q.is_online = 1..n
      BY <1>1, <1>6 DEF CountsOf
    <2>3. PICK j \in 1..n : j = IF pos < i THEN i - 1 ELSE i
      <3>1. (IF pos < i THEN i - 1 ELSE i) \in 1..n
        BY <1>1, <1>4
      <3> QED BY <3>1
    <2>4. j \in 1..n - 1 /\ j # n /\ (pos <= j => i = j + 1) /\ (~(pos <= j) => i = j)
      BY <1>1, <1>4, <1>5, <2>3
    <2>5. ASSUME NEW k \in 1..n - 1
          PROVE  /\ k \in Seat /\ k # n /\ k \in 1..n /\ k + 1 \in 1..n /\ k < n
                 /\ p.players[k] = IF pos <= k THEN q.players[k + 1] ELSE q.players[k]
                 /\ p.team_id[k] = IF pos <= k THEN q.team_id[k + 1] ELSE q.team_id[k]
      <3>1. k \in Seat /\ k # n /\ k \in 1..n /\ k + 1 \in 1..n /\ k < n
        BY <1>1, ConstantsAssumption DEF Seat
      <3>2. p.players[k] = IF pos <= k THEN q.players[k + 1] ELSE q.players[k]
        BY <1>1, <2>1, <3>1 DEF ShiftPlayers
      <3>3. p.team_id[k] = IF pos <= k THEN q.team_id[k + 1] ELSE q.team_id[k]
        BY <1>1, <2>1, <3>1 DEF ShiftTeams
      <3> QED BY <3>1, <3>2, <3>3
    <2>6. p.players[j] = u /\ p.team_id[j] = q.team_id[i]
      BY <1>4, <2>4, <2>5
    <2>7. ASSUME NEW k \in SeatsOf(p, u)
          PROVE  j <= k
      <3>1. k \in 1..n - 1 /\ p.players[k] = u
        BY <1>1, <2>1, <2>7 DEF SeatsOf
      <3>2. CASE pos <= k
        <4>1. k + 1 \in 1..n /\ q.players[k + 1] = u
          BY <2>5, <3>1, <3>2
        <4>2. i <= k + 1
          BY <1>4, <2>2, <4>1
        <4> QED BY <1>1, <1>4, <2>3, <3>1, <3>2, <4>2
      <3>3. CASE ~(pos <= k)
        <4>1. k \in 1..n /\ q.players[k] = u
          BY <2>5, <3>1, <3>3
        <4>2. i <= k
          BY <1>4, <2>2, <4>1
        <4> QED BY <1>1, <1>4, <2>3, <3>1, <3>3, <4>2
      <3> QED BY <3>2, <3>3
    <2>8. j \in SeatsOf(p, u)
      BY <1>1, <2>1, <2>2, <2>4, <2>5, <2>6 DEF SeatsOf
    <2>9. FirstSeat(p, u, j) /\ p.player_cnt \in Nat
      BY <1>1, <1>4, <2>1, <2>7, <2>8 DEF FirstSeat
    <2>10. TeamOf(p, u) = p.team_id[j]
      BY <2>9, FirstSeatFound
    <2>11. TeamOf(q, u) = q.team_id[i]
      BY <1>1, <1>3, FirstSeatFound
    <2> QED BY <1>2, <2>6, <2>10, <2>11
  <1>7. CASE q.status # "waiting"
    <2>1. /\ p.players = q.players /\ p.team_id = q.team_id /\ p.is_online = q.is_online \ {pos}
          /\ p.player_cnt = n
      BY <1>1, <1>2, <1>7 DEF DeletePlayer, SeatOffline, RoomRec
    <2>2. SeatsOf(p, u) = SeatsOf(q, u)
      BY <1>1, <1>4, <2>1 DEF SeatsOf
    <2>3. GetPlayerID(p, u) = GetPlayerID(q, u)
      BY <2>2 DEF GetPlayerID
    <2> QED BY <1>2, <2>1, <2>2, <2>3 DEF TeamOf
  <1> QED BY <1>6, <1>7

\* Another player enters the room, or changes his own team.
LEMMA TeamOfOthers ==
    ASSUME NEW q \in RoomRec, CountsOf(q), NEW u, NEW v, v # u
    PROVE  /\ q.player_cnt < MaxPlayer => TeamOf(AddPlayer(q, v), u) = TeamOf(q, u)
           /\ \A pos \in SeatsOf(q, v) : \A t :
                TeamOf([q EXCEPT !.team_id = [q.team_id EXCEPT ![pos] = t]], u) = TeamOf(q, u)
  <1>1. PICK n \in Nat : n = q.player_cnt /\ n <= MaxPlayer
    BY DEF RoomRec
  <1>2. /\ q.players \in [Seat -> Occupant] /\ q.team_id \in [Seat -> Team]
        /\ q.is_online \subseteq 1..n /\ SeatsOf(q, u) \subseteq 1..n
    BY <1>1 DEF CountsOf, RoomRec, SeatsOf
  <1>3. ASSUME q.player_cnt < MaxPlayer
        PROVE  TeamOf(AddPlayer(q, v), u) = TeamOf(q, u)
    <2> DEFINE p == AddPlayer(q, v)
    <2>1. /\ p.player_cnt = n + 1 /\ p.players = [q.players EXCEPT ![n + 1] = v]
          /\ p.team_id = [q.team_id EXCEPT ![n + 1] = IF q.team_mode = 1 THEN n + 1 ELSE 1]
          /\ p.is_online = q.is_online \cup {n + 1}
      BY <1>1 DEF AddPlayer, RoomRec
    <2> HIDE DEF p
    <2>2. n + 1 \in Seat /\ n + 1 \notin 1..n
      BY <1>1, <1>3, ConstantsAssumption DEF Seat
    <2>3. \A k \in 1..n : /\ k \in Seat /\ k \in 1..n + 1 /\ k # n + 1
                          /\ p.players[k] = q.players[k] /\ p.team_id[k] = q.team_id[k]
      BY <1>1, <1>2, <1>3, <2>1, <2>2, ConstantsAssumption DEF Seat
    <2>4. p.players[n + 1] = v
      BY <1>2, <2>1, <2>2
    <2>5. \A k \in 1..n + 1 : k \in 1..n \/ k = n + 1
      BY <1>1
    <2>6. SeatsOf(p, u) = SeatsOf(q, u)
      BY <1>1, <2>1, <2>3, <2>4, <2>5 DEF SeatsOf
    <2>7. SeatsOf(q, u) # {} => GetPlayerID(q, u) \in 1..n
      BY <1>1, <1>2, FirstSeatFound DEF FirstSeat
    <2>8. GetPlayerID(p, u) = GetPlayerID(q, u)
      BY <2>6 DEF GetPlayerID
    <2>9. TeamOf(p, u) = TeamOf(q, u)
      BY <2>3, <2>6, <2>7, <2>8 DEF TeamOf
    <2> QED BY <2>9 DEF p
  <1>4. ASSUME NEW pos \in SeatsOf(q, v), NEW t
        PROVE  TeamOf([q EXCEPT !.team_id = [q.team_id EXCEPT ![pos] = t]], u) = TeamOf(q, u)
    <2> DEFINE p == [q EXCEPT !.team_id = [q.team_id EXCEPT ![pos] = t]]
    <2>1. /\ p.players = q.players /\ p.is_online = q.is_online
          /\ p.player_cnt = q.player_cnt /\ p.team_id = [q.team_id EXCEPT ![pos] = t]
      BY DEF RoomRec
    <2> HIDE DEF p
    <2>2. SeatsOf(p, u) = SeatsOf(q, u) /\ pos \notin SeatsOf(q, u)
      BY <2>1 DEF SeatsOf
    <2>3. GetPlayerID(p, u) = GetPlayerID(q, u)
      BY <2>2 DEF GetPlayerID
    <2>4. SeatsOf(q, u) # {} => GetPlayerID(q, u) \in SeatsOf(q, u)
      BY <1>1, FirstSeatFound DEF FirstSeat
    <2>5. \A k \in SeatsOf(q, u) : p.team_id[k] = q.team_id[k]
      <3>1. \A k \in SeatsOf(q, u) : k \in Seat /\ k # pos
        BY <1>1, <1>2, <2>2, ConstantsAssumption DEF Seat
      <3> QED BY <1>2, <2>1, <3>1
    <2>6. TeamOf(p, u) = TeamOf(q, u)
      BY <2>2, <2>3, <2>4, <2>5 DEF TeamOf
    <2> QED BY <2>6 DEF p
  <1> QED BY <1>3, <1>4

\* One room changes, and not in its seats and teams.
LEMMA TeamOneRoom ==
    ASSUME IInv, NEW u \in User, belong[u] # 0, NEW s \in Room, NEW x,
           room' = [room EXCEPT ![s] = x],
           x.players = room[s].players, x.player_cnt = room[s].player_cnt,
           x.is_online = room[s].is_online, x.team_id = room[s].team_id
    PROVE  TeamOf(room'[belong[u]], u) = TeamOf(room[belong[u]], u)
  <1>1. belong[u] \in Room /\ room \in [Room -> RoomRec]
    BY MemberFound DEF IInv, TypeOK
  <1>2. room'[belong[u]] = IF belong[u] = s THEN x ELSE room[belong[u]]
    BY <1>1
  <1>3. TeamOf(x, u) = TeamOf(room[s], u)
    BY TeamSame
  <1> QED BY <1>2, <1>3

\* RoomManager::DeletePlayerFromRoom and RoomManager::GameEndFromRoom take
\* another player out of his room.
LEMMA TeamWhenDeleted ==
    ASSUME IInv, NEW u \in User, belong[u] # 0, belong'[u] = belong[u],
           room[belong[u]].team_mode = 2, NEW v \in User,
           belong' = [belong EXCEPT ![v] = 0],
           \/ room' = room
           \/ belong[v] # 0 /\ room' = [room EXCEPT ![belong[v]] =
                                 DeletePlayer(room[belong[v]], GetPlayerID(room[belong[v]], v))]
    PROVE  TeamOf(room'[belong[u]], u) = TeamOf(room[belong[u]], u)
  <1>1. /\ belong[u] \in Room /\ room[belong[u]] \in RoomRec /\ CountsOf(room[belong[u]])
        /\ SeatsOf(room[belong[u]], u) # {}
    BY MemberFound
  <1>2. room \in [Room -> RoomRec] /\ belong \in [User -> 0..MaxRoom]
    BY DEF IInv, TypeOK
  <1>3. v # u
    BY <1>2
  <1>4. CASE room' = room
    BY <1>4
  <1>5. CASE belong[v] # 0 /\ room' = [room EXCEPT ![belong[v]] =
               DeletePlayer(room[belong[v]], GetPlayerID(room[belong[v]], v))]
    <2>1. GetPlayerID(room[belong[v]], v) \in SeatsOf(room[belong[v]], v)
      BY <1>5, MemberFound
    <2>2. CASE belong[v] # belong[u]
      <3>1. room'[belong[u]] = room[belong[u]]
        BY <1>1, <1>2, <1>5, <2>2
      <3> QED BY <3>1
    <2>3. CASE belong[v] = belong[u]
      <3>1. room'[belong[u]] = DeletePlayer(room[belong[u]], GetPlayerID(room[belong[u]], v))
        BY <1>1, <1>2, <1>5, <2>3
      <3> QED BY <1>1, <1>3, <2>1, <2>3, <3>1, TeamWhenLeft
    <2> QED BY <2>2, <2>3
  <1> QED BY <1>4, <1>5

\* The calls under way that change a room
LEMMA TeamCalls ==
    ASSUME IInv, NEW u \in User, belong[u] # 0, belong'[u] = belong[u],
           room[belong[u]].team_mode = 2, Step
    PROVE  TeamOf(room'[belong[u]], u) = TeamOf(room[belong[u]], u)
  <1> DEFINE r == Head(stack).room
             v == Head(stack).user
  <1>1. CASE room' = room
    BY <1>1
  <1>2. CASE DoLeftLoading /\ room' # room
    <2>1. PICK a, b : room' = [room EXCEPT ![r] =
                        [room[r] EXCEPT !.is_loading_succeed = a, !.loading_succeed_cnt = b]]
      BY <1>2 DEF DoLeftLoading
    <2>2. r \in Room /\ room[r] \in RoomRec
      BY <1>2, TopRoom DEF DoLeftLoading, RoomOp
    <2>3. PICK x : x = [room[r] EXCEPT !.is_loading_succeed = a, !.loading_succeed_cnt = b]
      OBVIOUS
    <2>4. /\ x.players = room[r].players /\ x.player_cnt = room[r].player_cnt
          /\ x.is_online = room[r].is_online /\ x.team_id = room[r].team_id
      BY <2>2, <2>3 DEF RoomRec
    <2> QED BY <2>1, <2>2, <2>3, <2>4, TeamOneRoom
  <1>3. CASE DoLoadingSet
    <2>1. room' = [room EXCEPT ![r] = LoadingRoom(room[r])]
      BY <1>3 DEF DoLoadingSet
    <2>2. r \in Room /\ room[r] \in RoomRec
      BY <1>3, TopRoom DEF DoLoadingSet, RoomOp
    <2>3. PICK x : x = LoadingRoom(room[r])
      OBVIOUS
    <2>4. /\ x.players = room[r].players /\ x.player_cnt = room[r].player_cnt
          /\ x.is_online = room[r].is_online /\ x.team_id = room[r].team_id
      BY <2>2, <2>3 DEF LoadingRoom, RoomRec
    <2> QED BY <2>1, <2>2, <2>3, <2>4, TeamOneRoom
  <1>4. CASE DoStartSet
    <2>1. room' = [room EXCEPT ![r] = [room[r] EXCEPT !.status = "ingame"]]
      BY <1>4 DEF DoStartSet
    <2>2. r \in Room /\ room[r] \in RoomRec
      BY <1>4, TopRoom DEF DoStartSet, RoomOp
    <2>3. PICK x : x = [room[r] EXCEPT !.status = "ingame"]
      OBVIOUS
    <2>4. /\ x.players = room[r].players /\ x.player_cnt = room[r].player_cnt
          /\ x.is_online = room[r].is_online /\ x.team_id = room[r].team_id
      BY <2>2, <2>3 DEF RoomRec
    <2> QED BY <2>1, <2>2, <2>3, <2>4, TeamOneRoom
  <1>5. CASE DoDeleteClient /\ room' # room
    <2>1. PICK rest : v \in sess /\ DeletePlayerFromRoom(v, rest)
      BY <1>5 DEF DoDeleteClient
    <2>2. v \in User
      BY <2>1 DEF IInv, TypeOK
    <2> QED BY <1>5, <2>1, <2>2, TeamWhenDeleted DEF DeletePlayerFromRoom
  <1>6. CASE DoGameEndFrom /\ room' # room
    <2>1. /\ belong[v] # 0 /\ room[belong[v]].status = "ingame"
          /\ room' = [room EXCEPT ![belong[v]] = SeatOffline(room[belong[v]], GetPlayerID(room[belong[v]], v))]
          /\ belong' = [belong EXCEPT ![v] = 0]
      BY <1>6 DEF DoGameEndFrom
    <2>2. v \in User
      <3>1. Head(stack).op = "gameEndFrom" /\ Head(stack) \in Frame
        BY <1>6, RestOK DEF DoGameEndFrom, Top
      <3> QED BY <3>1 DEF Frame, UserOp
    <2>3. SeatOffline(room[belong[v]], GetPlayerID(room[belong[v]], v))
            = DeletePlayer(room[belong[v]], GetPlayerID(room[belong[v]], v))
      BY <2>1 DEF DeletePlayer
    <2> QED BY <2>1, <2>2, <2>3, TeamWhenDeleted
  <1>7. \/ room' = room \/ DoLeftLoading \/ DoLoadingSet \/ DoStartSet \/ DoDeleteClient \/ DoGameEndFrom
    BY DEF Step, DoSend, SendMessageToClient, DoEveryone, DoCreateDetail, DoJoinDetail, DoPersonGone,
           DoLeftWaiting, DoGameStart, DoOnTick, DoKick
  <1> QED BY <1>1, <1>2, <1>3, <1>4, <1>5, <1>6, <1>7

\* The handlers, when they serve another user
LEMMA TeamHandlers ==
    ASSUME IInv, NEW u \in User, belong[u] # 0, belong'[u] = belong[u],
           room[belong[u]].team_mode = 2, NEW v \in User, Event(v), serving' # u
    PROVE  TeamOf(room'[belong[u]], u) = TeamOf(room[belong[u]], u)
  <1>1. /\ belong[u] \in Room /\ belong[u] \in rooms /\ room[belong[u]] \in RoomRec
        /\ CountsOf(room[belong[u]])
    BY MemberFound
  <1>2. room \in [Room -> RoomRec] /\ belong \in [User -> 0..MaxRoom] /\ rooms \subseteq Room
    BY DEF IInv, TypeOK
  <1>3. CASE room' = room
    BY <1>3
  <1>4. ASSUME NEW m \in TeamMode, CSCreateRoom(v, m), room' # room
        PROVE  TeamOf(room'[belong[u]], u) = TeamOf(room[belong[u]], u)
    <2>1. PICK r, x : /\ r = IF freeRoom # <<>> THEN Head(freeRoom) ELSE nextRoom
                      /\ room' = [room EXCEPT ![r] = x]
      BY <1>4 DEF CSCreateRoom
    <2>2. r \notin rooms
      <3>1. freeRoom \in Seq(Room) /\ nextRoom \in Nat /\ FreeRoomsApart
        BY DEF IInv, TypeOK
      <3>2. CASE freeRoom # <<>>
        <4>1. Head(freeRoom) = freeRoom[1] /\ 1 \in 1..Len(freeRoom)
          BY <3>1, <3>2
        <4> QED BY <2>1, <3>1, <3>2, <4>1 DEF FreeRoomsApart
      <3>3. CASE freeRoom = <<>>
        BY <1>2, <2>1, <3>1, <3>3 DEF FreeRoomsApart, Room
      <3> QED BY <3>2, <3>3
    <2>3. room'[belong[u]] = room[belong[u]]
      BY <1>1, <1>2, <2>1, <2>2
    <2> QED BY <2>3
  <1>5. ASSUME NEW r \in Room, CSJoinRoom(v, r), room' # room
        PROVE  TeamOf(room'[belong[u]], u) = TeamOf(room[belong[u]], u)
    <2>1. CanJoin(v, r) /\ room' = [room EXCEPT ![r] = AddPlayer(room[r], v)] /\ v # u
      BY <1>5 DEF CSJoinRoom, CanJoin
    <2>2. room[r].player_cnt < MaxPlayer
      BY <2>1 DEF CanJoin
    <2>3. CASE r = belong[u]
      <3>1. room'[belong[u]] = AddPlayer(room[belong[u]], v)
        BY <1>1, <1>2, <2>1, <2>3
      <3> QED BY <1>1, <2>1, <2>2, <2>3, <3>1, TeamOfOthers
    <2>4. CASE r # belong[u]
      <3>1. room'[belong[u]] = room[belong[u]]
        BY <1>1, <1>2, <2>1, <2>4
      <3> QED BY <3>1
    <2> QED BY <2>3, <2>4
  <1>6. CASE CSPlayerExitRoom(v) /\ room' # room
    <2>1. PICK rest : DeletePlayerFromRoom(v, rest)
      BY <1>6 DEF CSPlayerExitRoom
    <2> QED BY <1>6, <2>1, TeamWhenDeleted DEF DeletePlayerFromRoom
  <1>7. ASSUME NEW t \in TeamId, CSChangeTeam(v, t)
        PROVE  TeamOf(room'[belong[u]], u) = TeamOf(room[belong[u]], u)
    <2> DEFINE pos == GetPlayerID(room[belong[v]], v)
               x == [room[belong[v]] EXCEPT !.team_id = [room[belong[v]].team_id EXCEPT ![pos] = t]]
    <2>1. belong[v] # 0 /\ serving' = v /\ room' = [room EXCEPT ![belong[v]] = x]
      BY <1>7 DEF CSChangeTeam, Serve
    <2>2. belong[v] \in Room /\ pos \in SeatsOf(room[belong[v]], v) /\ v # u
      BY <2>1, MemberFound
    <2> HIDE DEF pos
    <2>3. CASE belong[v] = belong[u]
      <3>1. room'[belong[u]] = [room[belong[u]] EXCEPT !.team_id = [room[belong[u]].team_id EXCEPT ![pos] = t]]
        BY <1>1, <1>2, <2>1, <2>3
      <3>2. PICK q \in RoomRec : q = room[belong[u]] /\ CountsOf(q)
        BY <1>1
      <3>3. \A i \in SeatsOf(q, v) : \A team :
              TeamOf([q EXCEPT !.team_id = [q.team_id EXCEPT ![i] = team]], u) = TeamOf(q, u)
        <4>1. v # u /\ CountsOf(q)
          BY <2>2, <3>2
        <4> QED BY <4>1, TeamOfOthers, Zenon
      <3>4. pos \in SeatsOf(q, v)
        BY <2>2, <2>3, <3>2
      <3> QED BY <3>1, <3>2, <3>3, <3>4
    <2>4. CASE belong[v] # belong[u]
      <3>1. room'[belong[u]] = room[belong[u]]
        BY <1>1, <1>2, <2>1, <2>4
      <3> QED BY <3>1
    <2> QED BY <2>3, <2>4
  <1>8. CASE CSLoadSucceed(v)
    <2>1. PICK a, b : /\ belong[v] # 0
                      /\ room' = [room EXCEPT ![belong[v]] =
                           [room[belong[v]] EXCEPT !.is_loading_succeed = a, !.loading_succeed_cnt = b]]
      BY <1>8 DEF CSLoadSucceed
    <2>2. belong[v] \in Room /\ room[belong[v]] \in RoomRec
      BY <2>1, MemberFound
    <2>3. PICK x : x = [room[belong[v]] EXCEPT !.is_loading_succeed = a, !.loading_succeed_cnt = b]
      OBVIOUS
    <2>4. /\ x.players = room[belong[v]].players /\ x.player_cnt = room[belong[v]].player_cnt
          /\ x.is_online = room[belong[v]].is_online /\ x.team_id = room[belong[v]].team_id
      BY <2>2, <2>3 DEF RoomRec
    <2> QED BY <2>1, <2>2, <2>3, <2>4, TeamOneRoom
  <1>9. ASSUME NEW o \in GameOption, CSChangeOption(v, o)
        PROVE  TeamOf(room'[belong[u]], u) = TeamOf(room[belong[u]], u)
    <2>1. PICK x : /\ belong[v] # 0 /\ room' = [room EXCEPT ![belong[v]] = x]
                   /\ x = [room[belong[v]] EXCEPT !.game_option = o] \/ x = room[belong[v]]
      BY <1>9 DEF CSChangeOption
    <2>2. belong[v] \in Room /\ room[belong[v]] \in RoomRec
      BY <2>1, MemberFound
    <2>3. /\ x.players = room[belong[v]].players /\ x.player_cnt = room[belong[v]].player_cnt
          /\ x.is_online = room[belong[v]].is_online /\ x.team_id = room[belong[v]].team_id
      BY <2>1, <2>2 DEF RoomRec
    <2> QED BY <2>1, <2>2, <2>3, TeamOneRoom
  <1>10. \/ room' = room
         \/ \E m \in TeamMode : CSCreateRoom(v, m)
         \/ \E r \in Room : CSJoinRoom(v, r)
         \/ CSPlayerExitRoom(v) \/ CSLoadSucceed(v)
         \/ \E t \in TeamId : CSChangeTeam(v, t)
         \/ \E o \in GameOption : CSChangeOption(v, o)
    BY DEF Event, CSLogin, Disconnect, CSPullAllRoomInfo, CSReadyToStart, CSGameEnd
  <1> QED BY <1>3, <1>4, <1>5, <1>6, <1>7, <1>8, <1>9, <1>10

\* Where teams are chosen nobody else changes the team of a player: not by
\* entering, by leaving, by being thrown out, nor by choosing a team himself.
THEOREM TeamStays == Spec => TeamFollowsPlayer
  <1> DEFINE P == \A u \in User :
                    /\ belong[u] # 0 /\ belong'[u] = belong[u]
                    /\ room[belong[u]].team_mode = 2
                    /\ TeamOf(room'[belong[u]], u) # TeamOf(room[belong[u]], u)
                    => serving' = u
  <1>1. IInv /\ [Next]_vars => [P]_vars
    <2> SUFFICES ASSUME IInv, Next, NEW u \in User, belong[u] # 0, belong'[u] = belong[u],
                        room[belong[u]].team_mode = 2, serving' # u
                 PROVE  TeamOf(room'[belong[u]], u) = TeamOf(room[belong[u]], u)
      OBVIOUS
    <2>1. CASE Step
      BY <2>1, TeamCalls
    <2>2. CASE Return \/ Tick \/ TickNext
      <3>1. room' = room
        BY <2>2 DEF Return, Tick, TickNext
      <3> QED BY <3>1
    <2>3. ASSUME NEW r \in Room, LoadingTimePasses(r)
          PROVE  TeamOf(room'[belong[u]], u) = TeamOf(room[belong[u]], u)
      <3>1. PICK x : x = [room[r] EXCEPT !.late = TRUE] /\ room' = [room EXCEPT ![r] = x]
        BY <2>3 DEF LoadingTimePasses
      <3>2. room[r] \in RoomRec
        BY DEF IInv, TypeOK
      <3>3. /\ x.players = room[r].players /\ x.player_cnt = room[r].player_cnt
            /\ x.is_online = room[r].is_online /\ x.team_id = room[r].team_id
        BY <3>1, <3>2 DEF RoomRec
      <3> QED BY <3>1, <3>3, TeamOneRoom
    <2>4. ASSUME NEW v \in User, Event(v)
          PROVE  TeamOf(room'[belong[u]], u) = TeamOf(room[belong[u]], u)
      BY <2>4, TeamHandlers
    <2> QED BY <2>1, <2>2, <2>3, <2>4 DEF Next
  <1> QED BY <1>1, Invariant, PTL DEF Spec, TeamFollowsPlayer

-----------------------------------------------------------------------------
(* What the players of a loading room are told. *)

\* The seats of the players who have left a room that loads, or a game
Absent(q) == 1..q.player_cnt \ q.is_online

\* A broadcast about an exit is about somebody who has left.  A room begins to
\* load from a waiting room, and a game from another one; rm is room.
CallFits(f, rm) ==
    /\ f.op = "everyone" /\ f.msg.id = "SCPlayerExitGame" => f.msg.player \in Absent(rm[f.room])
    /\ f.op = "send" => f.msg.id # "SCPlayerExitGame"
    /\ f.op = "startSet" => rm[f.room].status # "waiting"
    /\ f.op = "loadingSet" => rm[f.room].status = "waiting"

\* A call that neither announces an exit nor deletes a client
Calm(f) == f.op # "deleteClient" /\ (f.op = "everyone" => f.msg.id # "SCPlayerExitGame")

\* The call f deletes the client u.
Deletes(f, u) == f.op = "deleteClient" /\ f.user = u

\* The broadcast f tells the room r of the exit from seat j.
TellsExit(f, r, j) == f.op = "everyone" /\ f.room = r /\ f.msg = ExitGameMsg(j)

\* The user u in the room q with number r was told of every exit, or will be by
\* a call of S, or is about to be deleted; e is what he was told.
Informed(u, q, r, e, S) ==
    \A j \in Absent(q) :
        \/ j \in e
        \/ UserCall("deleteClient", 0, u) \in S
        \/ \E f \in S : TellsExit(f, r, j) /\ \A k \in SeatsOf(q, u) : f.seat <= k

CallsFit == \A f \in Calls(stack) : CallFits(f, room)
ToldFits == \A u \in User : told[u].exits \subseteq IF belong[u] = 0 THEN {} ELSE Absent(room[belong[u]])
ExitsInv ==
    \A u \in User : belong[u] # 0 /\ room[belong[u]].status = "loading" =>
        Informed(u, room[belong[u]], belong[u], told[u].exits, Calls(stack))

XInv == CallsFit /\ ToldFits /\ ExitsInv

\* A step that changes no seats and no status, and tells nobody anything
LEMMA CalmStep ==
    ASSUME IInv, IInv', XInv, UNCHANGED belong,
           \A u \in User : told'[u].exits = told[u].exits,
           \A r \in Room : /\ room'[r].players = room[r].players
                           /\ room'[r].player_cnt = room[r].player_cnt
                           /\ room'[r].is_online = room[r].is_online
                           /\ room'[r].status = room[r].status,
           \A f \in Calls(stack) : f \in Calls(stack') \/ Calm(f),
           \A f \in Calls(stack') : f \in Calls(stack) \/ CallFits(f, room')
    PROVE  XInv'
  <1>1. \A r \in Room : Absent(room'[r]) = Absent(room[r]) /\ \A u : SeatsOf(room'[r], u) = SeatsOf(room[r], u)
    BY DEF Absent, SeatsOf
  <1>2. \A u \in User : belong[u] # 0 => belong[u] \in Room
    BY MemberFound
  <1>3. CallsFit'
    <2> SUFFICES ASSUME NEW f \in Calls(stack'), f \in Calls(stack) PROVE CallFits(f, room')
      BY DEF CallsFit
    <2>1. CallFits(f, room)
      BY DEF XInv, CallsFit
    <2>2. f \in Frame
      BY DEF Calls, IInv, TypeOK
    <2>3. f.op \in RoomOp => f.room \in Room
      BY <2>2 DEF Frame
    <2> QED BY <1>1, <2>1, <2>3 DEF CallFits, RoomOp
  <1>4. ToldFits'
    BY <1>1, <1>2 DEF XInv, ToldFits
  <1>5. ExitsInv'
    <2> SUFFICES ASSUME NEW u \in User, belong[u] # 0, room[belong[u]].status = "loading"
                 PROVE  Informed(u, room'[belong[u]], belong[u], told[u].exits, Calls(stack'))
      BY <1>2 DEF ExitsInv
    <2>1. Informed(u, room[belong[u]], belong[u], told[u].exits, Calls(stack))
      BY DEF XInv, ExitsInv
    <2>2. ~Calm(UserCall("deleteClient", 0, u)) /\ \A f, j : TellsExit(f, belong[u], j) => ~Calm(f)
      BY DEF Calm, TellsExit, UserCall, Call, ExitGameMsg
    <2> QED BY <1>1, <1>2, <2>1, <2>2 DEF Informed
  <1> QED BY <1>3, <1>4, <1>5 DEF XInv

\* The same for a step that leaves told and room alone
LEMMA CalmCalls ==
    ASSUME IInv, IInv', XInv, UNCHANGED <<told, belong, room>>,
           \A f \in Calls(stack) : f \in Calls(stack') \/ Calm(f),
           \A f \in Calls(stack') : f \in Calls(stack) \/ CallFits(f, room)
    PROVE  XInv'
  BY CalmStep

\* A message that announces no exit is sent, whatever the outcome.
LEMMA CalmSend ==
    ASSUME IInv, IInv', XInv, NEW u, NEW m, m.id # "SCPlayerExitGame", NEW S, NEW rest \in Seq(S),
           SendMessageToClient(u, m, rest),
           \A f \in Calls(stack) : f \in Calls(rest) \/ Calm(f),
           \A f \in Calls(rest) : f \in Calls(stack) \/ CallFits(f, room)
    PROVE  XInv'
  <1>1. UNCHANGED <<belong, room>>
    BY DEF SendMessageToClient
  <1>2. \A v \in User : told'[v].exits = told[v].exits
    <2>1. Receive(told[u], m).exits = told[u].exits
      BY DEF Receive
    <2>2. told' = told \/ told' = [told EXCEPT ![u] = Receive(told[u], m)]
      BY DEF SendMessageToClient
    <2> QED BY <2>1, <2>2 DEF IInv, TypeOK
  <1>3. PICK d : d = UserCall("deleteClient", 0, u)
    OBVIOUS
  <1>4. CallFits(d, room)
    BY <1>3 DEF CallFits, UserCall, Call
  <1>5. Calls(<<d>> \o rest) = {d} \cup Calls(rest)
    BY CallsOf1
  <1>6. stack' = rest \/ stack' = <<d>> \o rest
    BY <1>3 DEF SendMessageToClient
  <1>7. /\ \A f \in Calls(stack) : f \in Calls(stack') \/ Calm(f)
        /\ \A f \in Calls(stack') : f \in Calls(stack) \/ CallFits(f, room)
    BY <1>4, <1>5, <1>6
  <1> QED BY <1>1, <1>2, <1>7, CalmStep

\* A calm call on top, and what is under it
LEMMA TopCalm ==
    ASSUME IInv, XInv, NEW op, Top(op)
    PROVE  /\ Tail(stack) \in Seq(Frame) /\ Head(stack) \in Frame /\ Head(stack).op = op
           /\ Calls(stack) = {Head(stack)} \cup Calls(Tail(stack))
           /\ CallFits(Head(stack), room)
           /\ op \notin {"deleteClient", "everyone"} => Calm(Head(stack))
  <1>1. stack \in Seq(Frame) /\ stack # <<>> /\ Head(stack).op = op
    BY DEF Top, IInv, TypeOK
  <1>2. Tail(stack) \in Seq(Frame) /\ Head(stack) \in Frame
    BY <1>1, Pop
  <1>3. Calls(stack) = {Head(stack)} \cup Calls(Tail(stack))
    BY <1>1, CallsOfTop
  <1>4. CallFits(Head(stack), room)
    BY <1>3 DEF XInv, CallsFit
  <1> QED BY <1>1, <1>2, <1>3, <1>4 DEF Calm

\* Calls that push others and send nothing themselves
LEMMA CalmPushes ==
    ASSUME IInv, IInv', TInv, XInv,
           \/ DoCreateDetail \/ DoJoinDetail \/ DoGameStart \/ DoOnTick \/ DoKick
           \/ DoPersonGone \/ DoLeftWaiting
    PROVE  XInv'
  <1> DEFINE r == Head(stack).room
  <1>1. UNCHANGED <<told, belong, room>>
    BY DEF DoCreateDetail, DoJoinDetail, DoGameStart, DoOnTick, DoKick, DoPersonGone, DoLeftWaiting
  <1>2. PICK op \in Op \ {"deleteClient", "everyone"} : Top(op)
    BY DEF DoCreateDetail, DoJoinDetail, DoGameStart, DoOnTick, DoKick, DoPersonGone, DoLeftWaiting, Op
  <1>3. /\ Tail(stack) \in Seq(Frame) /\ Calls(stack) = {Head(stack)} \cup Calls(Tail(stack))
        /\ Calm(Head(stack))
    BY <1>2, TopCalm
  <1>4. \/ stack' = stack \/ stack' = Tail(stack)
        \/ \E f : CallFits(f, room) /\ stack' = <<f>> \o Tail(stack)
        \/ \E f, g : CallFits(f, room) /\ CallFits(g, room) /\ stack' = <<f, g>> \o Tail(stack)
    <2> USE DEF CallFits, Send, Everyone, RoomCall, UserCall, SeatCall, Call
    <2>1. CASE DoCreateDetail
      <3>1. PICK u, d : stack' = <<Send(u, DetailMsg(d))>> \o Tail(stack)
        BY <2>1 DEF DoCreateDetail
      <3>2. CallFits(Send(u, DetailMsg(d)), room)
        BY DEF DetailMsg
      <3> QED BY <3>1, <3>2
    <2>2. CASE DoJoinDetail
      <3>1. stack' = stack \/ \E d : stack' = <<Everyone(r, DetailMsg(d))>> \o Tail(stack)
        BY <2>2 DEF DoJoinDetail, JoinedRoom
      <3>2. \A d : CallFits(Everyone(r, DetailMsg(d)), room)
        BY DEF DetailMsg
      <3> QED BY <3>1, <3>2
    <2>3. CASE DoGameStart
      <3>1. \/ stack' = Tail(stack)
            \/ /\ room[r].status = "loading"
               /\ stack' = <<Everyone(r, Message("SCGameStart")), RoomCall("startSet", r)>> \o Tail(stack)
        BY <2>3 DEF DoGameStart
      <3>2. room[r].status = "loading" => CallFits(RoomCall("startSet", r), room)
        OBVIOUS
      <3>3. CallFits(Everyone(r, Message("SCGameStart")), room)
        BY DEF Message
      <3> QED BY <3>1, <3>2, <3>3
    <2>4. CASE DoOnTick
      <3>1. \/ stack' = Tail(stack)
            \/ stack' = <<SeatCall("kick", r, 1)>> \o Tail(stack)
            \/ stack' = <<Everyone(r, Message("SCFrameMess"))>> \o Tail(stack)
        BY <2>4 DEF DoOnTick
      <3>2. CallFits(SeatCall("kick", r, 1), room) /\ CallFits(Everyone(r, Message("SCFrameMess")), room)
        BY DEF Message
      <3> QED BY <3>1, <3>2
    <2>5. CASE DoKick
      <3>1. PICK i, u : \/ stack' = <<RoomCall("gameStart", r)>> \o Tail(stack)
                        \/ stack' = <<UserCall("deleteClient", 0, u), SeatCall("kick", r, i)>> \o Tail(stack)
        BY <2>5 DEF DoKick
      <3>2. /\ CallFits(RoomCall("gameStart", r), room) /\ CallFits(UserCall("deleteClient", 0, u), room)
            /\ CallFits(SeatCall("kick", r, i), room)
        OBVIOUS
      <3> QED BY <3>1, <3>2
    <2>6. CASE DoPersonGone \/ DoLeftWaiting
      BY <2>6 DEF DoPersonGone, DoLeftWaiting
    <2> QED BY <2>1, <2>2, <2>3, <2>4, <2>5, <2>6
  <1> HIDE DEF r
  <1> DEFINE Fit == /\ \A f \in Calls(stack) : f \in Calls(stack') \/ Calm(f)
                    /\ \A f \in Calls(stack') : f \in Calls(stack) \/ CallFits(f, room)
  <1>5. Fit
    <2>1. CASE stack' = stack \/ stack' = Tail(stack)
      BY <1>3, <2>1
    <2>2. ASSUME NEW f, CallFits(f, room), stack' = <<f>> \o Tail(stack)
          PROVE  Fit
      <3>1. Calls(stack') = {f} \cup Calls(Tail(stack))
        BY <1>3, <2>2, CallsOf1
      <3> QED BY <1>3, <2>2, <3>1
    <2>3. ASSUME NEW f, NEW g, CallFits(f, room), CallFits(g, room), stack' = <<f, g>> \o Tail(stack)
          PROVE  Fit
      <3>1. Calls(stack') = {f, g} \cup Calls(Tail(stack))
        BY <1>3, <2>3, CallsOf2
      <3> QED BY <1>3, <2>3, <3>1
    <2> QED BY <1>4, <2>1, <2>2, <2>3
  <1> QED BY <1>1, <1>5, CalmCalls

\* A message to one client
LEMMA SendExits ==
    ASSUME IInv, IInv', XInv, DoSend
    PROVE  XInv'
  <1>1. Top("send") /\ SendMessageToClient(Head(stack).user, Head(stack).msg, Tail(stack))
    BY DEF DoSend
  <1>2. /\ Tail(stack) \in Seq(Frame) /\ Head(stack).op = "send"
        /\ Calls(stack) = {Head(stack)} \cup Calls(Tail(stack))
        /\ CallFits(Head(stack), room) /\ Calm(Head(stack))
    BY <1>1, TopCalm
  <1>3. Head(stack).msg.id # "SCPlayerExitGame"
    BY <1>2 DEF CallFits
  <1> QED BY <1>1, <1>2, <1>3, CalmSend

\* A broadcast about an exit tells the next player, or deletes him, and goes on
\* with the seat after his.
LEMMA EveryoneExits ==
    ASSUME SendResult \subseteq {"ok", "error"}, IInv, IInv', TInv, XInv, DoEveryone
    PROVE  XInv'
  <1> DEFINE h == Head(stack)
             r == h.room
             q == room[r]
             on == Remaining(q, h.seat)
             i == CHOOSE j \in on : \A k \in on : j <= k
             g == Call("everyone", r, NoUser, i + 1, h.msg)
             v == q.players[i]
             d == UserCall("deleteClient", 0, v)
  <1>1. /\ Tail(stack) \in Seq(Frame) /\ h \in Frame /\ h.op = "everyone"
        /\ Calls(stack) = {h} \cup Calls(Tail(stack)) /\ CallFits(h, room)
    BY TopCalm DEF DoEveryone
  <1>2. /\ r \in Room /\ r \in rooms /\ q \in RoomRec /\ CountsOf(q) /\ h.seat \in Nat
    <2>1. r \in Room /\ h.seat \in Nat
      BY <1>1, ConstantsAssumption DEF Frame, RoomOp
    <2>2. r \in rooms
      <3>1. h \in SafeFrame
        BY RestOK DEF DoEveryone
      <3> QED BY <2>1, <3>1 DEF SafeFrame, Room
    <2> QED BY <2>1, <2>2 DEF IInv, TypeOK, RoomCounts
  <1>3. CASE on = {}
    <2>1. stack' = Tail(stack) /\ UNCHANGED <<told, belong, room>>
      BY <1>3 DEF DoEveryone
    <2>2. CallsFit' /\ ToldFits'
      BY <1>1, <2>1 DEF XInv, CallsFit, ToldFits
    <2>3. ExitsInv'
      <3> SUFFICES ASSUME NEW u \in User, belong[u] # 0, room[belong[u]].status = "loading"
                   PROVE  Informed(u, room[belong[u]], belong[u], told[u].exits, Calls(Tail(stack)))
        BY <2>1 DEF ExitsInv
      <3>1. Informed(u, room[belong[u]], belong[u], told[u].exits, Calls(stack))
        BY DEF XInv, ExitsInv
      <3>2. UserCall("deleteClient", 0, u) # h
        BY <1>1 DEF UserCall, Call
      <3>3. ~(h.room = belong[u] /\ \A k \in SeatsOf(room[belong[u]], u) : h.seat <= k)
        <4>1. SUFFICES ASSUME r = belong[u], \A k \in SeatsOf(q, u) : h.seat <= k PROVE FALSE
          OBVIOUS
        <4>2. PICK k : k \in SeatsOf(q, u)
          BY <4>1, MemberFound
        <4>3. k \in on
          BY <1>2, <4>1, <4>2 DEF SeatsOf, Remaining, RoomRec
        <4> QED BY <1>3, <4>3
      <3> QED BY <1>1, <3>1, <3>2, <3>3 DEF Informed, TellsExit
    <2> QED BY <2>2, <2>3 DEF XInv
  <1>4. CASE on # {}
    <2>1. on \subseteq Nat /\ on \subseteq 1..q.player_cnt \cap q.is_online
      <3>1. h.seat \in Nat /\ q.player_cnt \in Nat /\ q.is_online \subseteq 1..q.player_cnt
        BY <1>2 DEF CountsOf, RoomRec
      <3> HIDE DEF q, h
      <3>2. on = {k \in h.seat..q.player_cnt : k \in q.is_online}
        BY DEF Remaining
      <3> HIDE DEF on
      <3> QED BY <3>1, <3>2
    <2>2. i \in on /\ \A k \in on : i <= k
      <3> HIDE DEF on
      <3>1. \E j \in on : \A k \in on : j <= k
        BY <1>4, <2>1, FirstExists
      <3> QED BY <3>1
    <2>3. SendMessageToClient(v, h.msg, <<g>> \o Tail(stack))
      BY <1>4 DEF DoEveryone
    <2>4. Calls(<<g>> \o Tail(stack)) = {g} \cup Calls(Tail(stack))
      BY <1>1, CallsOf1
    <2>5. g.op = "everyone" /\ g.room = r /\ g.seat = i + 1 /\ g.msg = h.msg
      BY DEF Call
    <2>6. <<g>> \o Tail(stack) \in Seq(Frame \cup {g})
      <3> HIDE DEF g
      <3>1. Tail(stack) \in Seq(Frame \cup {g}) /\ g \in Frame \cup {g}
        BY <1>1
      <3> QED BY <3>1, Push
    <2>7. CASE h.msg.id # "SCPlayerExitGame"
      <3>2. Calm(h)
        BY <1>1, <2>7 DEF Calm
      <3>3. CallFits(g, room)
        BY <2>5, <2>7 DEF CallFits
      <3> HIDE DEF g, v, h
      <3> QED BY <1>1, <2>3, <2>4, <2>6, <2>7, <3>2, <3>3, CalmSend
    <2>8. CASE h.msg.id = "SCPlayerExitGame"
      <3> DEFINE j == h.msg.player
      <3>1. j \in Absent(q) /\ j \in Seat
        <4>1. j \in Absent(q)
          BY <1>1, <2>8 DEF CallFits
        <4> QED BY <1>2, <4>1, ConstantsAssumption DEF Absent, RoomRec, Seat
      <3>2. /\ v \in User /\ belong[v] = r /\ v \in sess /\ r # 0
            /\ \A k \in q.is_online : q.players[k] = v => k = i
        <4>1. i \in q.is_online
          <5> HIDE DEF on, i, q
          <5> QED BY <2>1, <2>2
        <4>2. Seated(q, r, belong) /\ r # 0
          BY <1>2 DEF TInv, SeatsInv, Room
        <4> HIDE DEF i, q, r, on
        <4>3. /\ v \in User /\ belong[v] = r
              /\ \A k \in q.is_online : q.players[k] = v => k = i
          BY <4>1, <4>2 DEF Seated
        <4>4. v \in sess
          BY <4>2, <4>3 DEF TInv, UsersInv
        <4> QED BY <4>2, <4>3, <4>4
      <3>3. /\ UNCHANGED <<belong, room>>
            /\ \/ /\ told' = [told EXCEPT ![v] = Receive(told[v], h.msg)]
                  /\ stack' = <<g>> \o Tail(stack)
               \/ told' = told /\ stack' = <<d>> \o (<<g>> \o Tail(stack))
        BY <2>3, <3>2 DEF SendMessageToClient
      <3>4. /\ Receive(told[v], h.msg).exits = told[v].exits \cup {j}
            /\ told \in [User -> Told]
        BY <2>8, <3>1 DEF Receive, IInv, TypeOK
      <3>6. Calls(<<d>> \o (<<g>> \o Tail(stack))) = {d} \cup ({g} \cup Calls(Tail(stack)))
        BY <2>4, <2>6, CallsOf1
      <3>7. /\ {g} \cup Calls(Tail(stack)) \subseteq Calls(stack')
            /\ Calls(stack') \subseteq {d, g} \cup Calls(Tail(stack))
            /\ \/ told' = [told EXCEPT ![v] = Receive(told[v], h.msg)]
               \/ told' = told /\ d \in Calls(stack')
        BY <2>4, <3>3, <3>6
      <3>8. CallFits(g, room) /\ CallFits(d, room)
        <4>1. CallFits(g, room)
          BY <2>5, <3>1 DEF CallFits
        <4>2. CallFits(d, room)
          BY DEF CallFits, UserCall, Call
        <4> QED BY <4>1, <4>2
      <3>9. CallsFit'
        <4> HIDE DEF g, d, q, h
        <4> QED BY <1>1, <3>3, <3>7, <3>8 DEF XInv, CallsFit
      <3>10. ASSUME NEW u \in User
             PROVE  /\ told[u].exits \subseteq told'[u].exits
                    /\ told'[u].exits \subseteq told[u].exits \cup (IF u = v THEN {j} ELSE {})
                    /\ u = v => j \in told'[u].exits \/ d \in Calls(stack')
        <4> HIDE DEF g, d, q, h, j, v
        <4> QED BY <3>2, <3>4, <3>7
      <3>11. ToldFits'
        <4> SUFFICES ASSUME NEW u \in User
                     PROVE  told'[u].exits \subseteq IF belong[u] = 0 THEN {} ELSE Absent(room[belong[u]])
          BY <3>3 DEF ToldFits
        <4> HIDE DEF g, d, h, j, v
        <4> QED BY <3>1, <3>2, <3>10 DEF XInv, ToldFits
      <3>12. ExitsInv'
        <4> SUFFICES ASSUME NEW u \in User, belong[u] # 0, room[belong[u]].status = "loading",
                            NEW k \in Absent(room[belong[u]])
                     PROVE  \/ k \in told'[u].exits
                            \/ UserCall("deleteClient", 0, u) \in Calls(stack')
                            \/ \E f \in Calls(stack') :
                                 TellsExit(f, belong[u], k) /\ \A s \in SeatsOf(room[belong[u]], u) : f.seat <= s
          BY <3>3 DEF ExitsInv, Informed
        <4>1. Informed(u, room[belong[u]], belong[u], told[u].exits, Calls(stack))
          BY DEF XInv, ExitsInv
        <4>2. CASE k \in told[u].exits
          BY <3>10, <4>2
        <4>3. CASE UserCall("deleteClient", 0, u) \in Calls(stack)
          <5>1. UserCall("deleteClient", 0, u) # h
            BY <1>1 DEF UserCall, Call
          <5> QED BY <1>1, <3>7, <4>3, <5>1
        <4>4. ASSUME NEW f \in Calls(stack), TellsExit(f, belong[u], k),
                     \A s \in SeatsOf(room[belong[u]], u) : f.seat <= s
              PROVE  \/ k \in told'[u].exits
                     \/ UserCall("deleteClient", 0, u) \in Calls(stack')
                     \/ \E x \in Calls(stack') :
                          TellsExit(x, belong[u], k) /\ \A s \in SeatsOf(room[belong[u]], u) : x.seat <= s
          <5>1. CASE f # h
            BY <1>1, <3>7, <4>4, <5>1
          <5>2. CASE f = h
            <6>1. r = belong[u] /\ h.msg = ExitGameMsg(k) /\ j = k
              BY <4>4, <5>2 DEF TellsExit, ExitGameMsg
            <6>2. CASE u = v
              BY <3>10, <6>1, <6>2
            <6>3. CASE u # v
              <7>1. ASSUME NEW s \in SeatsOf(q, u) PROVE g.seat <= s
                <8>1. s \in 1..q.player_cnt /\ s \in q.is_online /\ q.players[s] = u
                  BY DEF SeatsOf
                <8>2. h.seat <= s /\ h.seat \in Nat /\ q.player_cnt \in Nat
                  BY <1>2, <4>4, <5>2, <6>1 DEF RoomRec
                <8>3. s \in h.seat..q.player_cnt /\ s \in Nat
                  BY <8>1, <8>2
                <8>4. s \in on /\ s # i
                  BY <6>3, <8>1, <8>3 DEF Remaining
                <8>5. i <= s /\ i \in Nat
                  BY <2>1, <2>2, <8>4
                <8> HIDE DEF g, i
                <8> QED BY <2>5, <8>3, <8>4, <8>5
              <7>2. TellsExit(g, belong[u], k)
                BY <2>5, <6>1 DEF TellsExit
              <7> QED BY <3>7, <6>1, <7>1, <7>2
            <6> QED BY <6>2, <6>3
          <5> QED BY <5>1, <5>2
        <4> QED BY <4>1, <4>2, <4>3, <4>4 DEF Informed
      <3> QED BY <3>9, <3>11, <3>12 DEF XInv
    <2> QED BY <2>7, <2>8
  <1> QED BY <1>3, <1>4

\* Room::DeletePlayer adds the seat to those who have left, in a waiting room to
\* none.
LEMMA DeleteAbsent ==
    ASSUME NEW q \in RoomRec, CountsOf(q), NEW u, NEW pos \in SeatsOf(q, u), NEW p, p = DeletePlayer(q, pos)
    PROVE  /\ p.status = q.status /\ Absent(q) \subseteq Absent(p)
           /\ q.status # "waiting" => /\ Absent(p) = Absent(q) \cup {pos}
                                      /\ \A w : SeatsOf(p, w) \subseteq SeatsOf(q, w)
  <1>1. PICK n \in Nat : n = q.player_cnt
    BY DEF RoomRec
  <1>2. pos \in 1..n /\ pos \in q.is_online /\ q.is_online \subseteq 1..n
    BY <1>1 DEF SeatsOf, CountsOf
  <1>3. CASE q.status = "waiting"
    <2>1. Absent(q) = {}
      BY <1>1, <1>3 DEF CountsOf, Absent
    <2>2. p.status = q.status
      BY <1>3 DEF DeletePlayer, ShiftSeats, RoomRec
    <2> QED BY <1>3, <2>1, <2>2
  <1>4. CASE q.status # "waiting"
    <2>1. /\ p.players = q.players /\ p.is_online = q.is_online \ {pos} /\ p.player_cnt = n
          /\ p.status = q.status
      BY <1>1, <1>4 DEF DeletePlayer, SeatOffline, RoomRec
    <2>2. Absent(p) = Absent(q) \cup {pos}
      BY <1>1, <1>2, <2>1 DEF Absent
    <2>3. \A w : SeatsOf(p, w) \subseteq SeatsOf(q, w)
      BY <1>1, <2>1 DEF SeatsOf
    <2> QED BY <2>1, <2>2, <2>3
  <1> QED BY <1>3, <1>4

\* A player leaves his room, and the others will be told.
LEMMA LeaveExits ==
    ASSUME IInv, IInv', XInv, NEW u \in User, NEW r, r = belong[u], r # 0,
           NEW pos, pos = GetPlayerID(room[r], u),
           room' = [room EXCEPT ![r] = DeletePlayer(room[r], pos)],
           belong' = [belong EXCEPT ![u] = 0], told' = [told EXCEPT ![u] = Untold],
           \A f \in Calls(stack) : f \in Calls(stack') \/ Calm(f) \/ Deletes(f, u),
           \A f \in Calls(stack') : f \in Calls(stack) \/ CallFits(f, room'),
           room[r].status = "loading" => Everyone(r, ExitGameMsg(pos)) \in Calls(stack')
    PROVE  XInv'
  <1>1. /\ r \in Room /\ room[r] \in RoomRec /\ CountsOf(room[r]) /\ pos \in SeatsOf(room[r], u)
    BY MemberFound
  <1>2. /\ room \in [Room -> RoomRec] /\ belong \in [User -> 0..MaxRoom] /\ told \in [User -> Told]
    BY DEF IInv, TypeOK
  <1>3. PICK p : p = DeletePlayer(room[r], pos)
    OBVIOUS
  <1>4. /\ p.status = room[r].status /\ Absent(room[r]) \subseteq Absent(p)
        /\ room[r].status # "waiting" => /\ Absent(p) = Absent(room[r]) \cup {pos}
                                         /\ \A w : SeatsOf(p, w) \subseteq SeatsOf(room[r], w)
    BY <1>1, <1>3, DeleteAbsent
  <1>5. \A s \in Room : room'[s] = IF s = r THEN p ELSE room[s]
    BY <1>2, <1>3
  <1>6. \A w \in User : /\ belong'[w] = IF w = u THEN 0 ELSE belong[w]
                        /\ told'[w] = IF w = u THEN Untold ELSE told[w]
    BY <1>2
  <1>7. \A s \in Room : room'[s].status = room[s].status /\ Absent(room[s]) \subseteq Absent(room'[s])
    BY <1>4, <1>5
  <1>8. \A w \in User : belong[w] # 0 => belong[w] \in Room
    BY MemberFound
  <1>9. CallsFit'
    <2> SUFFICES ASSUME NEW f \in Calls(stack'), f \in Calls(stack) PROVE CallFits(f, room')
      BY DEF CallsFit
    <2>1. CallFits(f, room)
      BY DEF XInv, CallsFit
    <2>2. f \in Frame
      BY DEF Calls, IInv, TypeOK
    <2>3. f.op \in RoomOp => f.room \in Room
      BY <2>2 DEF Frame
    <2> QED BY <1>7, <2>1, <2>3 DEF CallFits, RoomOp
  <1>10. ToldFits'
    BY <1>6, <1>7, <1>8 DEF XInv, ToldFits, Untold
  <1>11. ExitsInv'
    <2> SUFFICES ASSUME NEW w \in User, w # u, belong[w] # 0, room[belong[w]].status = "loading",
                        NEW j \in Absent(room'[belong[w]])
                 PROVE  \/ j \in told[w].exits
                        \/ UserCall("deleteClient", 0, w) \in Calls(stack')
                        \/ \E f \in Calls(stack') : TellsExit(f, belong[w], j)
                             /\ \A k \in SeatsOf(room'[belong[w]], w) : f.seat <= k
      BY <1>6, <1>7, <1>8 DEF ExitsInv, Informed
    <2>1. Informed(w, room[belong[w]], belong[w], told[w].exits, Calls(stack))
      BY DEF XInv, ExitsInv
    <2>2. SeatsOf(room'[belong[w]], w) \subseteq SeatsOf(room[belong[w]], w)
      BY <1>4, <1>5, <1>8
    <2>3. CASE j \in Absent(room[belong[w]])
      <3>1. ~Deletes(UserCall("deleteClient", 0, w), u) /\ ~Calm(UserCall("deleteClient", 0, w))
        BY DEF UserCall, Call, Calm, Deletes
      <3>2. \A f, k : TellsExit(f, belong[w], k) => ~Calm(f) /\ ~Deletes(f, u)
        BY DEF TellsExit, Calm, ExitGameMsg, Deletes
      <3> QED BY <2>1, <2>2, <2>3, <3>1, <3>2 DEF Informed
    <2>4. CASE j \notin Absent(room[belong[w]])
      <3>1. belong[w] = r /\ j = pos
        BY <1>4, <1>5, <1>8, <2>4
      <3>2. PICK f : f = Everyone(r, ExitGameMsg(pos))
        OBVIOUS
      <3>3. f \in Calls(stack') /\ TellsExit(f, belong[w], j) /\ f.seat = 1
        BY <3>1, <3>2 DEF TellsExit, Everyone, Call
      <3>4. \A k \in SeatsOf(room[r], w) : 1 <= k
        BY <1>1 DEF SeatsOf, RoomRec
      <3> QED BY <2>2, <3>1, <3>3, <3>4
    <2> QED BY <2>3, <2>4
  <1> QED BY <1>9, <1>10, <1>11 DEF XInv

\* RoomManager::DeletePlayerFromRoom; `rest` is what is called after it.
LEMMA DeleteExits ==
    ASSUME IInv, IInv', XInv, NEW u \in User, NEW S, NEW rest \in Seq(S), DeletePlayerFromRoom(u, rest),
           \A f \in Calls(stack) : f \in Calls(rest) \/ Calm(f) \/ Deletes(f, u),
           \A f \in Calls(rest) : f \in Calls(stack) \/ (Calm(f) /\ f.op \notin {"send", "startSet", "loadingSet"})
    PROVE  XInv'
  <1> DEFINE r == belong[u]
             pos == GetPlayerID(room[r], u)
  <1>1. belong' = [belong EXCEPT ![u] = 0] /\ told' = [told EXCEPT ![u] = Untold]
    BY DEF DeletePlayerFromRoom
  <1>2. /\ room \in [Room -> RoomRec] /\ belong \in [User -> 0..MaxRoom] /\ told \in [User -> Told]
    BY DEF IInv, TypeOK
  <1>3. \A f, rm : Calm(f) /\ f.op \notin {"send", "startSet", "loadingSet"} => CallFits(f, rm)
    BY DEF Calm, CallFits
  <1>4. CASE r = 0
    <2>1. stack' = rest /\ room' = room /\ belong' = belong
      BY <1>1, <1>2, <1>4 DEF DeletePlayerFromRoom
    <2>2. \A w \in User : told'[w].exits = told[w].exits
      BY <1>1, <1>2, <1>4 DEF XInv, ToldFits, Untold
    <2>3. CallsFit'
      BY <1>3, <2>1 DEF XInv, CallsFit
    <2>4. ToldFits'
      BY <2>1, <2>2 DEF XInv, ToldFits
    <2>5. ExitsInv'
      <3> SUFFICES ASSUME NEW w \in User, belong[w] # 0, room[belong[w]].status = "loading"
                   PROVE  Informed(w, room[belong[w]], belong[w], told[w].exits, Calls(rest))
        BY <2>1, <2>2 DEF ExitsInv
      <3>1. Informed(w, room[belong[w]], belong[w], told[w].exits, Calls(stack))
        BY DEF XInv, ExitsInv
      <3>2. ~Deletes(UserCall("deleteClient", 0, w), u) /\ ~Calm(UserCall("deleteClient", 0, w))
        BY <1>4 DEF UserCall, Call, Calm, Deletes
      <3>3. \A f, k : TellsExit(f, belong[w], k) => ~Calm(f) /\ ~Deletes(f, u)
        BY DEF TellsExit, Calm, ExitGameMsg, Deletes
      <3> QED BY <3>1, <3>2, <3>3 DEF Informed
    <2> QED BY <2>3, <2>4, <2>5 DEF XInv
  <1>5. CASE r # 0
    <2>1. r \in rooms /\ r \in Room /\ pos # 0 /\ room[r] \in RoomRec /\ CountsOf(room[r]) /\ pos \in SeatsOf(room[r], u)
      BY <1>5, MemberFound
    <2>2. room' = [room EXCEPT ![r] = DeletePlayer(room[r], pos)] /\ stack' = DeletePlayerCalls(r, u, pos) \o rest
      BY <1>5, <2>1 DEF DeletePlayerFromRoom
    <2>3. room'[r] = DeletePlayer(room[r], pos)
      BY <1>2, <2>1, <2>2
    <2>4. room[r].status # "waiting" => pos \in Absent(room'[r])
      BY <2>1, <2>3, DeleteAbsent
    <2>5. PICK f, g, k, h : /\ f = Everyone(r, LeaveDetail(r, pos)) /\ g = UserCall("leftWaiting", 0, u)
                            /\ k = Everyone(r, ExitGameMsg(pos)) /\ h = SeatCall("leftLoading", r, pos)
      OBVIOUS
    <2>6. /\ CallFits(f, room') /\ CallFits(g, room') /\ CallFits(h, room')
          /\ room[r].status # "waiting" => CallFits(k, room')
      <3>1. f.op = "everyone" /\ f.msg.id = "SCPullOneRoomDetail" /\ g.op = "leftWaiting" /\ h.op = "leftLoading"
        BY <2>5 DEF Everyone, UserCall, SeatCall, Call, LeaveDetail, DetailMsg
      <3>2. k.op = "everyone" /\ k.room = r /\ k.msg.player = pos
        BY <2>5 DEF Everyone, Call, ExitGameMsg
      <3> QED BY <2>4, <3>1, <3>2 DEF CallFits
    <2>7. \/ room[r].status = "waiting" /\ stack' = <<f, g>> \o rest
          \/ room[r].status = "loading" /\ stack' = <<k, h>> \o rest
          \/ room[r].status = "ingame" /\ stack' = <<>> \o rest
      BY <2>1, <2>2, <2>5 DEF DeletePlayerCalls, RoomRec, Status
    <2>8. /\ <<>> \o rest = rest
          /\ Calls(<<f, g>> \o rest) = {f, g} \cup Calls(rest)
          /\ Calls(<<k, h>> \o rest) = {k, h} \cup Calls(rest)
      BY CallsOf2
    <2>9. /\ Calls(rest) \subseteq Calls(stack')
          /\ \A x \in Calls(stack') : x \in Calls(rest) \/ CallFits(x, room')
          /\ room[r].status = "loading" => k \in Calls(stack')
      <3>1. CASE room[r].status = "waiting"
        BY <2>6, <2>7, <2>8, <3>1
      <3>2. CASE room[r].status = "loading"
        BY <2>6, <2>7, <2>8, <3>2
      <3>3. CASE room[r].status = "ingame"
        BY <2>7, <2>8, <3>3
      <3> QED BY <2>7, <3>1, <3>2, <3>3
    <2>10. \A x \in Calls(stack') : x \in Calls(stack) \/ CallFits(x, room')
      BY <1>3, <2>9
    <2> HIDE DEF r, pos
    <2>11. \A x \in Calls(stack) : x \in Calls(stack') \/ Calm(x) \/ Deletes(x, u)
      BY <2>9
    <2> QED BY <1>1, <1>5, <2>2, <2>5, <2>9, <2>10, <2>11, LeaveExits DEF r, pos
  <1> QED BY <1>4, <1>5

\* Calls that delete a client who is in no room may return.
LEMMA NobodyExits ==
    ASSUME IInv, XInv, UNCHANGED <<told, belong, room>>,
           \A f \in Calls(stack) : \/ f \in Calls(stack') \/ Calm(f)
                                   \/ (f.op = "deleteClient" /\ \A w \in User : f.user = w => belong[w] = 0),
           \A f \in Calls(stack') : f \in Calls(stack) \/ CallFits(f, room)
    PROVE  XInv'
  <1>1. CallsFit' /\ ToldFits'
    BY DEF XInv, CallsFit, ToldFits
  <1>2. ExitsInv'
    <2> SUFFICES ASSUME NEW w \in User, belong[w] # 0, room[belong[w]].status = "loading"
                 PROVE  Informed(w, room[belong[w]], belong[w], told[w].exits, Calls(stack'))
      BY DEF ExitsInv
    <2>1. Informed(w, room[belong[w]], belong[w], told[w].exits, Calls(stack))
      BY DEF XInv, ExitsInv
    <2>2. PICK d : d = UserCall("deleteClient", 0, w)
      OBVIOUS
    <2>3. d.user = w /\ ~Calm(d)
      BY <2>2 DEF UserCall, Call, Calm
    <2>4. \A f, k : TellsExit(f, belong[w], k) => ~Calm(f) /\ f.op # "deleteClient"
      BY DEF TellsExit, Calm, ExitGameMsg
    <2>5. d \in Calls(stack) => d \in Calls(stack')
      BY <2>3
    <2>6. \A f \in Calls(stack) : \A k : TellsExit(f, belong[w], k) => f \in Calls(stack')
      BY <2>4
    <2> QED BY <2>1, <2>2, <2>5, <2>6 DEF Informed
  <1> QED BY <1>1, <1>2 DEF XInv

\* MessageHandler::DeleteClientByFD
LEMMA DeleteClientExits ==
    ASSUME IInv, IInv', TInv, XInv, DoDeleteClient
    PROVE  XInv'
  <1> DEFINE u == Head(stack).user
             p == UserCall("personGone", 0, u)
             rest == <<p>> \o Tail(stack)
  <1>1. /\ Tail(stack) \in Seq(Frame) /\ Head(stack).op = "deleteClient"
        /\ Calls(stack) = {Head(stack)} \cup Calls(Tail(stack))
    BY TopCalm DEF DoDeleteClient
  <1>2. \A w \in User : belong[w] # 0 => w \in sess /\ person[w] = "room"
    BY DEF TInv, UsersInv
  <1>3. Calls(rest) = {p} \cup Calls(Tail(stack))
    BY <1>1, CallsOf1
  <1>4. p.op = "personGone" /\ Calm(p) /\ CallFits(p, room)
    BY DEF UserCall, Call, Calm, CallFits
  <1>5. CASE u \notin sess
    <2>1. stack' = Tail(stack) /\ UNCHANGED <<told, belong, room>>
      BY <1>5 DEF DoDeleteClient
    <2> QED BY <1>1, <1>2, <1>5, <2>1, NobodyExits
  <1>6. CASE u \in sess /\ person[u] = "room"
    <2>1. DeletePlayerFromRoom(u, rest) /\ u \in User
      BY <1>6 DEF DoDeleteClient, IInv, TypeOK
    <2> HIDE DEF p
    <2>2. rest \in Seq(Frame \cup {p})
      <3>1. Tail(stack) \in Seq(Frame \cup {p}) /\ p \in Frame \cup {p}
        BY <1>1
      <3> QED BY <3>1, Push
    <2>3. \A f \in Calls(stack) : f \in Calls(rest) \/ Calm(f) \/ Deletes(f, u)
      BY <1>1, <1>3 DEF Deletes
    <2> HIDE DEF u, rest
    <2>4. \A f \in Calls(rest) : f \in Calls(stack) \/ (Calm(f) /\ f.op \notin {"send", "startSet", "loadingSet"})
      <3>1. Calls(Tail(stack)) \subseteq Calls(stack)
        BY <1>1
      <3>2. Calm(p) /\ p.op \notin {"send", "startSet", "loadingSet"}
        BY <1>4
      <3> QED BY <1>3, <3>1, <3>2
    <2> QED BY <2>1, <2>2, <2>3, <2>4, DeleteExits
  <1>7. CASE u \in sess /\ person[u] # "room"
    <2>1. stack' = rest /\ UNCHANGED <<told, belong, room>>
      BY <1>7 DEF DoDeleteClient
    <2> HIDE DEF p, rest
    <2> QED BY <1>1, <1>2, <1>3, <1>4, <1>7, <2>1, NobodyExits
  <1> QED BY <1>5, <1>6, <1>7

\* RoomManager::GameEndFromRoom takes a player out of a game.
LEMMA GameEndExits ==
    ASSUME IInv, IInv', TInv, XInv, DoGameEndFrom
    PROVE  XInv'
  <1> DEFINE u == Head(stack).user
             r == belong[u]
             pos == GetPlayerID(room[r], u)
  <1>1. /\ Tail(stack) \in Seq(Frame) /\ Head(stack) \in Frame /\ Head(stack).op = "gameEndFrom"
        /\ Calls(stack) = {Head(stack)} \cup Calls(Tail(stack)) /\ Calm(Head(stack))
    BY TopCalm DEF DoGameEndFrom
  <1>2. u \in User
    BY <1>1 DEF Frame, UserOp
  <1>3. stack' = Tail(stack) /\ belong' = [belong EXCEPT ![u] = 0] /\ told' = [told EXCEPT ![u] = Untold]
    BY DEF DoGameEndFrom
  <1>4. belong \in [User -> 0..MaxRoom] /\ told \in [User -> Told]
    BY DEF IInv, TypeOK
  <1>5. /\ \A f \in Calls(stack) : f \in Calls(stack') \/ Calm(f)
        /\ \A f \in Calls(stack') : f \in Calls(stack)
    BY <1>1, <1>3
  <1>6. CASE r = 0
    <2>1. room' = room /\ belong' = belong
      BY <1>3, <1>4, <1>6 DEF DoGameEndFrom
    <2>2. \A w \in User : told'[w].exits = told[w].exits
      BY <1>3, <1>4, <1>6 DEF XInv, ToldFits, Untold
    <2> QED BY <1>5, <2>1, <2>2, CalmStep
  <1>7. CASE r # 0
    <2>1. pos # 0
      BY <1>2, <1>7, MemberFound
    <2>2. room[r].status = "ingame"
      <3>1. u \in OnStack("gameEndFrom", stack)
        BY <1>1, PopOne DEF Top, DoGameEndFrom, IInv, TypeOK
      <3> QED BY <1>2, <1>7, <3>1 DEF TInv, EndInv
    <2>3. room' = [room EXCEPT ![r] = DeletePlayer(room[r], pos)]
      BY <1>7, <2>1, <2>2 DEF DoGameEndFrom, DeletePlayer
    <2> HIDE DEF u, pos
    <2> QED BY <1>2, <1>3, <1>5, <1>7, <2>2, <2>3, LeaveExits DEF pos
  <1> QED BY <1>6, <1>7

\* MP_CSPlayerExitRoom: who leaves a loading room with it stays in it.
LEMMA ExitRoomExits ==
    ASSUME IInv, IInv', XInv, NEW u \in User, CSPlayerExitRoom(u)
    PROVE  XInv'
  <1> DEFINE r == belong[u]
             g == Everyone(r, Message("SCPlayerExitRoom"))
  <1>1. stack = <<>>
    BY DEF CSPlayerExitRoom, Idle
  <1>2. Calls(stack) = {} /\ Calls(<<g>>) = {g}
    BY <1>1, CallsOfShort
  <1>3. g.op = "everyone" /\ g.msg.id = "SCPlayerExitRoom"
    BY DEF Everyone, Call, Message
  <1>4. Calm(g) /\ CallFits(g, room)
    BY <1>3 DEF Calm, CallFits
  <1>5. CASE r = 0
    <2>1. UNCHANGED <<told, belong, room, stack>>
      BY <1>5 DEF CSPlayerExitRoom
    <2> QED BY <1>2, <2>1, CalmCalls
  <1>6. CASE r # 0 /\ room[r].status = "waiting"
    <2>1. DeletePlayerFromRoom(u, <<g>>)
      BY <1>6 DEF CSPlayerExitRoom
    <2> HIDE DEF g
    <2>2. <<g>> \in Seq({g})
      OBVIOUS
    <2>3. \A f \in Calls(<<g>>) : Calm(f) /\ f.op \notin {"send", "startSet", "loadingSet"}
      BY <1>2, <1>3, <1>4
    <2> QED BY <1>2, <2>1, <2>2, <2>3, DeleteExits
  <1>7. CASE r # 0 /\ room[r].status # "waiting"
    <2>1. stack' = <<g>> /\ UNCHANGED <<told, belong, room>>
      BY <1>7 DEF CSPlayerExitRoom
    <2> HIDE DEF g
    <2> QED BY <1>2, <1>4, <2>1, CalmCalls
  <1> QED BY <1>5, <1>6, <1>7

\* One room changes, and neither in its seats nor in its status.
LEMMA CalmRoom ==
    ASSUME IInv, IInv', XInv, UNCHANGED <<told, belong>>, NEW s \in Room, NEW x,
           room' = [room EXCEPT ![s] = x],
           x.players = room[s].players, x.player_cnt = room[s].player_cnt,
           x.is_online = room[s].is_online, x.status = room[s].status,
           \A f \in Calls(stack) : f \in Calls(stack') \/ Calm(f),
           \A f \in Calls(stack') : f \in Calls(stack) \/ CallFits(f, room')
    PROVE  XInv'
  <1>1. \A r \in Room : room'[r] = IF r = s THEN x ELSE room[r]
    BY DEF IInv, TypeOK
  <1>2. \A r \in Room : /\ room'[r].players = room[r].players
                        /\ room'[r].player_cnt = room[r].player_cnt
                        /\ room'[r].is_online = room[r].is_online
                        /\ room'[r].status = room[r].status
    BY <1>1
  <1> QED BY <1>2, CalmStep

\* Room::DeletePlayer, end of the loading case
LEMMA LeftLoadingExits ==
    ASSUME IInv, IInv', XInv, DoLeftLoading
    PROVE  XInv'
  <1> DEFINE r == Head(stack).room
             g == RoomCall("gameStart", r)
  <1>1. /\ Tail(stack) \in Seq(Frame) /\ Calls(stack) = {Head(stack)} \cup Calls(Tail(stack))
        /\ Calm(Head(stack))
    BY TopCalm DEF DoLeftLoading
  <1>2. r \in Room /\ room[r] \in RoomRec
    BY TopRoom DEF DoLeftLoading, RoomOp
  <1>3. CASE stack' = Tail(stack) /\ room' # room
    <2>1. PICK a, b : room' = [room EXCEPT ![r] =
                        [room[r] EXCEPT !.is_loading_succeed = a, !.loading_succeed_cnt = b]]
      BY <1>3 DEF DoLeftLoading
    <2>2. PICK x : x = [room[r] EXCEPT !.is_loading_succeed = a, !.loading_succeed_cnt = b]
      OBVIOUS
    <2>3. /\ x.players = room[r].players /\ x.player_cnt = room[r].player_cnt
          /\ x.is_online = room[r].is_online /\ x.status = room[r].status
      BY <1>2, <2>2 DEF RoomRec
    <2>4. UNCHANGED <<told, belong>>
      BY DEF DoLeftLoading
    <2>5. /\ \A f \in Calls(stack) : f \in Calls(stack') \/ Calm(f)
          /\ \A f \in Calls(stack') : f \in Calls(stack)
      BY <1>1, <1>3
    <2> QED BY <1>2, <2>1, <2>2, <2>3, <2>4, <2>5, CalmRoom
  <1>4. CASE room' = room
    <2>1. UNCHANGED <<told, belong>> /\ (stack' = Tail(stack) \/ stack' = <<g>> \o Tail(stack))
      BY DEF DoLeftLoading
    <2>2. CallFits(g, room)
      BY DEF CallFits, RoomCall, Call
    <2>3. Calls(<<g>> \o Tail(stack)) = {g} \cup Calls(Tail(stack))
      BY <1>1, CallsOf1
    <2> HIDE DEF g
    <2>4. /\ \A f \in Calls(stack) : f \in Calls(stack') \/ Calm(f)
          /\ \A f \in Calls(stack') : f \in Calls(stack) \/ CallFits(f, room)
      BY <1>1, <2>1, <2>2, <2>3
    <2> QED BY <1>4, <2>1, <2>4, CalmCalls
  <1>5. stack' = Tail(stack) \/ room' = room
    BY DEF DoLeftLoading
  <1> QED BY <1>3, <1>4, <1>5

\* Room::SendGameLoading, after its broadcast: nobody has left yet.
LEMMA LoadingSetExits ==
    ASSUME IInv, TInv, XInv, DoLoadingSet
    PROVE  XInv'
  <1> DEFINE r == Head(stack).room
             h == Head(stack)
  <1>1. /\ Calls(stack) = {h} \cup Calls(Tail(stack)) /\ Calm(h) /\ CallFits(h, room)
        /\ h.op = "loadingSet"
    BY TopCalm DEF DoLoadingSet
  <1>2. r \in Room /\ room[r] \in RoomRec /\ CountsOf(room[r])
    BY TopRoom DEF DoLoadingSet, RoomOp, IInv, RoomCounts
  <1>3. stack' = <<>> /\ Tail(stack) = <<>>
    BY <1>1, PopOne DEF DoLoadingSet, Top, TInv, EndInv, LastOp, IInv, TypeOK
  <1>4. Calls(stack) = {h} /\ Calls(stack') = {}
    BY <1>1, <1>3, CallsOfShort
  <1>5. PICK x : x = LoadingRoom(room[r])
    OBVIOUS
  <1>6. UNCHANGED <<told, belong>> /\ room' = [room EXCEPT ![r] = x]
    BY <1>5 DEF DoLoadingSet
  <1>7. x.player_cnt = room[r].player_cnt /\ x.is_online = room[r].is_online
    BY <1>2, <1>5 DEF LoadingRoom, RoomRec
  <1>8. Absent(room[r]) = {} /\ Absent(x) = {}
    BY <1>1, <1>2, <1>7 DEF CallFits, CountsOf, Absent
  <1>9. \A s \in Room : room'[s] = IF s = r THEN x ELSE room[s]
    BY <1>6 DEF IInv, TypeOK
  <1>10. \A u \in User : belong[u] # 0 => belong[u] \in Room
    BY MemberFound
  <1>11. CallsFit'
    BY <1>4 DEF CallsFit
  <1>12. ToldFits'
    BY <1>6, <1>8, <1>9, <1>10 DEF XInv, ToldFits
  <1>13. ExitsInv'
    <2> SUFFICES ASSUME NEW u \in User, belong[u] # 0, belong[u] # r, room[belong[u]].status = "loading"
                 PROVE  Informed(u, room[belong[u]], belong[u], told[u].exits, {})
      BY <1>4, <1>6, <1>8, <1>9, <1>10 DEF ExitsInv, Informed
    <2>1. Informed(u, room[belong[u]], belong[u], told[u].exits, {h})
      BY <1>4 DEF XInv, ExitsInv
    <2>2. ~Calm(UserCall("deleteClient", 0, u)) /\ \A f, j : TellsExit(f, belong[u], j) => ~Calm(f)
      BY DEF Calm, TellsExit, UserCall, Call, ExitGameMsg
    <2> QED BY <1>1, <2>1, <2>2 DEF Informed
  <1> QED BY <1>11, <1>12, <1>13 DEF XInv

\* Room::SendGameStart, after its broadcast: the room loads no longer.
LEMMA StartSetExits ==
    ASSUME IInv, XInv, DoStartSet
    PROVE  XInv'
  <1> DEFINE r == Head(stack).room
             h == Head(stack)
  <1>1. /\ Calls(stack) = {h} \cup Calls(Tail(stack)) /\ Calm(h) /\ CallFits(h, room)
        /\ h.op = "startSet"
    BY TopCalm DEF DoStartSet
  <1>2. r \in Room /\ room[r] \in RoomRec
    BY TopRoom DEF DoStartSet, RoomOp
  <1>3. room[r].status # "waiting"
    BY <1>1 DEF CallFits
  <1>4. PICK x : x = [room[r] EXCEPT !.status = "ingame"]
    OBVIOUS
  <1>5. UNCHANGED <<told, belong>> /\ room' = [room EXCEPT ![r] = x] /\ stack' = Tail(stack)
    BY <1>4 DEF DoStartSet
  <1>6. x.player_cnt = room[r].player_cnt /\ x.is_online = room[r].is_online /\ x.status = "ingame"
    BY <1>2, <1>4 DEF RoomRec
  <1>7. \A s \in Room : room'[s] = IF s = r THEN x ELSE room[s]
    BY <1>5 DEF IInv, TypeOK
  <1>8. \A s \in Room : Absent(room'[s]) = Absent(room[s])
    BY <1>6, <1>7 DEF Absent
  <1>9. \A u \in User : belong[u] # 0 => belong[u] \in Room
    BY MemberFound
  <1>10. CallsFit'
    <2> SUFFICES ASSUME NEW f \in Calls(Tail(stack)) PROVE CallFits(f, room')
      BY <1>5 DEF CallsFit
    <2>1. CallFits(f, room) /\ f \in Calls(stack)
      BY <1>1 DEF XInv, CallsFit
    <2>2. f \in Frame
      BY <2>1 DEF Calls, IInv, TypeOK
    <2>3. f.op \in RoomOp => f.room \in Room
      BY <2>2 DEF Frame
    <2> QED BY <1>3, <1>6, <1>7, <1>8, <2>1, <2>3 DEF CallFits, RoomOp
  <1>11. ToldFits'
    BY <1>5, <1>8, <1>9 DEF XInv, ToldFits
  <1>12. ExitsInv'
    <2> SUFFICES ASSUME NEW u \in User, belong[u] # 0, belong[u] # r, room[belong[u]].status = "loading"
                 PROVE  Informed(u, room[belong[u]], belong[u], told[u].exits, Calls(Tail(stack)))
      BY <1>5, <1>6, <1>7, <1>9 DEF ExitsInv
    <2>1. Informed(u, room[belong[u]], belong[u], told[u].exits, {h} \cup Calls(Tail(stack)))
      BY <1>1 DEF XInv, ExitsInv
    <2>2. ~Calm(UserCall("deleteClient", 0, u)) /\ \A f, j : TellsExit(f, belong[u], j) => ~Calm(f)
      BY DEF Calm, TellsExit, UserCall, Call, ExitGameMsg
    <2> HIDE DEF h
    <2> QED BY <1>1, <2>1, <2>2 DEF Informed
  <1> QED BY <1>10, <1>11, <1>12 DEF XInv

\* The handlers and the ticks that change no room
LEMMA CalmHandlers ==
    ASSUME IInv, IInv', XInv, UNCHANGED <<told, belong, room>>, NEW u, NEW m, NEW r,
           \/ CSLogin(u) \/ Disconnect(u) \/ CSPullAllRoomInfo(u) \/ CSReadyToStart(u) \/ CSGameEnd(u)
           \/ CSJoinRoom(u, r) /\ ~CanJoin(u, r)
           \/ CSCreateRoom(u, m) /\ belong[u] # 0
           \/ Return \/ Tick \/ TickNext
    PROVE  XInv'
  <1> USE DEF Serve, Idle, Visit
  <1>1. stack = <<>>
    BY DEF CSLogin, Disconnect, CSPullAllRoomInfo, CSReadyToStart, CSGameEnd, CSJoinRoom, CSCreateRoom,
           Return, Tick, TickNext
  <1>2. Calls(stack) = {}
    BY <1>1, CallsOfShort
  <1>3. ASSUME NEW f, CallFits(f, room), stack' = <<f>> PROVE XInv'
    <2>1. Calls(stack') = {f}
      BY <1>3, CallsOfShort
    <2> QED BY <1>2, <1>3, <2>1, CalmCalls
  <1>4. ASSUME NEW f, NEW g, CallFits(f, room), CallFits(g, room), stack' = <<f, g>> PROVE XInv'
    <2>1. Calls(stack') = {f, g}
      BY <1>4, CallsOfShort
    <2> QED BY <1>2, <1>4, <2>1, CalmCalls
  <1>5. CASE stack' = <<>>
    <2>1. Calls(stack') = {}
      BY <1>5, CallsOfShort
    <2> QED BY <1>2, <2>1, CalmCalls
  <1>6. \A id \in MsgId \ {"SCPlayerExitGame"} : \A s :
          CallFits(Send(u, Message(id)), room) /\ CallFits(Everyone(s, Message(id)), room)
    BY DEF CallFits, Send, Everyone, Call, Message
  <1>7. \A op \in Op \ {"everyone", "send", "startSet", "loadingSet"} : \A s, w :
          CallFits(UserCall(op, s, w), room) /\ CallFits(RoomCall(op, s), room)
    BY DEF CallFits, UserCall, RoomCall, Call
  <1>8. CASE CSLogin(u)
    <2>1. stack' = <<Send(u, Message("SCLogin"))>>
      BY <1>8 DEF CSLogin
    <2> QED BY <1>3, <1>6, <2>1 DEF MsgId
  <1>9. CASE Disconnect(u)
    <2>1. stack' = <<UserCall("deleteClient", 0, u)>>
      BY <1>9 DEF Disconnect
    <2> QED BY <1>3, <1>7, <2>1 DEF Op
  <1>10. CASE CSPullAllRoomInfo(u)
    <2>1. stack' = <<Send(u, Message("SCPullAllRoomInfo"))>>
      BY <1>10 DEF CSPullAllRoomInfo
    <2> QED BY <1>3, <1>6, <2>1 DEF MsgId
  <1>11. CASE CSReadyToStart(u)
    <2>1. /\ room[belong[u]].status = "waiting"
          /\ stack' = <<Everyone(belong[u], Message("SCGameLoading")), RoomCall("loadingSet", belong[u])>>
      BY <1>11 DEF CSReadyToStart
    <2>2. CallFits(RoomCall("loadingSet", belong[u]), room)
      BY <2>1 DEF CallFits, RoomCall, Call
    <2> QED BY <1>4, <1>6, <2>1, <2>2 DEF MsgId
  <1>12. CASE CSGameEnd(u)
    <2>1. stack' = <<Send(u, Message("SCGameEnd")), UserCall("gameEndFrom", 0, u)>>
      BY <1>12 DEF CSGameEnd
    <2> QED BY <1>4, <1>6, <1>7, <2>1 DEF MsgId, Op
  <1>13. CASE CSJoinRoom(u, r) /\ ~CanJoin(u, r)
    <2>1. stack' = <<Send(u, Message("SCJoinRoomFailed"))>>
      BY <1>13 DEF CSJoinRoom
    <2> QED BY <1>3, <1>6, <2>1 DEF MsgId
  <1>14. CASE CSCreateRoom(u, m) /\ belong[u] # 0
    <2>1. stack' = <<Send(u, Message("SCCreateRoomFailed"))>>
      BY <1>14 DEF CSCreateRoom
    <2> QED BY <1>3, <1>6, <2>1 DEF MsgId
  <1>15. CASE Return \/ Tick \/ TickNext
    <2>1. stack' = <<>> \/ \E s : stack' = <<RoomCall("onTick", s)>>
      BY <1>1, <1>15 DEF Return, Tick, TickNext
    <2> QED BY <1>3, <1>5, <1>7, <2>1 DEF Op
  <1> QED BY <1>8, <1>9, <1>10, <1>11, <1>12, <1>13, <1>14, <1>15

\* The handlers that change a room but none of its seats
LEMMA RoomHandlersExits ==
    ASSUME IInv, IInv', XInv, NEW u \in User, NEW t, NEW o,
           \/ CSChangeTeam(u, t) \/ CSChangeOption(u, o) \/ CSLoadSucceed(u)
    PROVE  XInv'
  <1> USE DEF Serve, Idle
  <1> DEFINE r == belong[u]
  <1>1. stack = <<>> /\ UNCHANGED <<told, belong>>
    BY DEF CSChangeTeam, CSChangeOption, CSLoadSucceed
  <1>2. Calls(stack) = {} /\ Calls(<<>>) = {} /\ \A f : Calls(<<f>>) = {f}
    BY <1>1, CallsOfShort
  <1>3. r # 0 => r \in Room /\ room[r] \in RoomRec
    BY MemberFound
  <1>4. \A d, rm : CallFits(Everyone(r, DetailMsg(d)), rm)
    BY DEF CallFits, Everyone, Call, DetailMsg
  <1>5. CASE CSChangeTeam(u, t)
    <2>1. PICK a, d : /\ r # 0 /\ room' = [room EXCEPT ![r] = [room[r] EXCEPT !.team_id = a]]
                      /\ stack' = <<Everyone(r, DetailMsg(d))>>
      BY <1>5 DEF CSChangeTeam
    <2>2. PICK x : x = [room[r] EXCEPT !.team_id = a]
      OBVIOUS
    <2>3. /\ x.players = room[r].players /\ x.player_cnt = room[r].player_cnt
          /\ x.is_online = room[r].is_online /\ x.status = room[r].status
      BY <1>3, <2>1, <2>2 DEF RoomRec
    <2>4. \A f \in Calls(stack') : CallFits(f, room')
      BY <1>2, <1>4, <2>1
    <2> QED BY <1>1, <1>2, <1>3, <2>1, <2>2, <2>3, <2>4, CalmRoom
  <1>6. CASE CSChangeOption(u, o)
    <2>1. PICK x, d : /\ r # 0 /\ room' = [room EXCEPT ![r] = x]
                      /\ x = [room[r] EXCEPT !.game_option = o] \/ x = room[r]
                      /\ stack' = <<Everyone(r, DetailMsg(d))>>
      BY <1>6 DEF CSChangeOption
    <2>2. /\ x.players = room[r].players /\ x.player_cnt = room[r].player_cnt
          /\ x.is_online = room[r].is_online /\ x.status = room[r].status
      BY <1>3, <2>1 DEF RoomRec
    <2>3. \A f \in Calls(stack') : CallFits(f, room')
      BY <1>2, <1>4, <2>1
    <2> QED BY <1>1, <1>2, <1>3, <2>1, <2>2, <2>3, CalmRoom
  <1>7. CASE CSLoadSucceed(u)
    <2>1. PICK a, b : /\ r # 0
                      /\ room' = [room EXCEPT ![r] =
                           [room[r] EXCEPT !.is_loading_succeed = a, !.loading_succeed_cnt = b]]
                      /\ stack' = <<>> \/ stack' = <<RoomCall("gameStart", r)>>
      BY <1>7 DEF CSLoadSucceed
    <2>2. PICK x : x = [room[r] EXCEPT !.is_loading_succeed = a, !.loading_succeed_cnt = b]
      OBVIOUS
    <2>3. /\ x.players = room[r].players /\ x.player_cnt = room[r].player_cnt
          /\ x.is_online = room[r].is_online /\ x.status = room[r].status
      BY <1>3, <2>1, <2>2 DEF RoomRec
    <2>4. \A f \in Calls(stack') : CallFits(f, room')
      <3>1. CallFits(RoomCall("gameStart", r), room')
        BY DEF CallFits, RoomCall, Call
      <3> QED BY <1>2, <2>1, <3>1
    <2> QED BY <1>1, <1>2, <1>3, <2>1, <2>2, <2>3, <2>4, CalmRoom
  <1> QED BY <1>5, <1>6, <1>7

\* The loading time of a room runs out.
LEMMA TimeExits ==
    ASSUME IInv, IInv', XInv, NEW s \in Room, LoadingTimePasses(s)
    PROVE  XInv'
  <1>1. PICK x : x = [room[s] EXCEPT !.late = TRUE] /\ room' = [room EXCEPT ![s] = x]
    BY DEF LoadingTimePasses
  <1>2. UNCHANGED <<told, belong, stack>>
    BY DEF LoadingTimePasses
  <1>3. /\ x.players = room[s].players /\ x.player_cnt = room[s].player_cnt
        /\ x.is_online = room[s].is_online /\ x.status = room[s].status
    BY <1>1 DEF RoomRec, IInv, TypeOK
  <1> QED BY <1>1, <1>2, <1>3, CalmRoom

\* Somebody enters a waiting room: nobody has left it.
LEMMA EnterExits ==
    ASSUME IInv, IInv', XInv, stack = <<>>, UNCHANGED told, NEW u \in User, NEW r \in Room, NEW x,
           belong[u] = 0, belong' = [belong EXCEPT ![u] = r], room' = [room EXCEPT ![r] = x],
           x.status = "waiting",
           \A w \in User : belong[w] = r => Absent(room[r]) = {},
           \A f \in Calls(stack') : CallFits(f, room')
    PROVE  XInv'
  <1>1. \A s \in Room : room'[s] = IF s = r THEN x ELSE room[s]
    BY DEF IInv, TypeOK
  <1>2. \A w \in User : belong'[w] = IF w = u THEN r ELSE belong[w]
    BY DEF IInv, TypeOK
  <1>3. Absent(x) = {}
    <2>1. room'[r] = x /\ CountsOf(room'[r])
      BY <1>1 DEF IInv, RoomCounts
    <2> QED BY <2>1 DEF CountsOf, Absent
  <1>4. \A w \in User : belong[w] # 0 => belong[w] \in Room
    BY MemberFound
  <1>5. r # 0
    BY DEF Room
  <1>6. Calls(stack) = {}
    BY CallsOfShort
  <1>7. CallsFit'
    BY DEF CallsFit
  <1>8. ToldFits'
    <2> SUFFICES ASSUME NEW w \in User
                 PROVE  told[w].exits \subseteq IF belong'[w] = 0 THEN {} ELSE Absent(room'[belong'[w]])
      BY DEF ToldFits
    <2>1. told[w].exits \subseteq IF belong[w] = 0 THEN {} ELSE Absent(room[belong[w]])
      BY DEF XInv, ToldFits
    <2>2. CASE w = u
      BY <2>1, <2>2
    <2>3. CASE w # u /\ belong[w] = r
      BY <1>5, <2>1, <2>3
    <2>4. CASE w # u /\ belong[w] # r
      BY <1>1, <1>2, <1>4, <2>1, <2>4
    <2> QED BY <2>2, <2>3, <2>4
  <1>9. ExitsInv'
    <2> SUFFICES ASSUME NEW w \in User, belong[w] # 0, belong[w] # r, room[belong[w]].status = "loading"
                 PROVE  Informed(w, room[belong[w]], belong[w], told[w].exits, Calls(stack'))
      BY <1>1, <1>2, <1>4 DEF ExitsInv
    <2>1. Informed(w, room[belong[w]], belong[w], told[w].exits, {})
      BY <1>6 DEF XInv, ExitsInv
    <2> QED BY <2>1 DEF Informed
  <1> QED BY <1>7, <1>8, <1>9 DEF XInv

\* MP_CSJoinRoom
LEMMA JoinExits ==
    ASSUME IInv, IInv', XInv, NEW u \in User, NEW s \in Room, CSJoinRoom(u, s), CanJoin(u, s)
    PROVE  XInv'
  <1>1. room \in [Room -> RoomRec] /\ RoomCounts
    BY DEF IInv, TypeOK
  <1>2. PICK x : x = AddPlayer(room[s], u)
    OBVIOUS
  <1>3. PICK f, g : f = Send(u, Message("SCJoinRoom")) /\ g = RoomCall("joinDetail", s)
    OBVIOUS
  <1>4. /\ stack = <<>> /\ UNCHANGED told /\ belong[u] = 0 /\ belong' = [belong EXCEPT ![u] = s]
        /\ room' = [room EXCEPT ![s] = x] /\ stack' = <<f, g>> /\ room[s].status = "waiting"
    BY <1>2, <1>3 DEF CSJoinRoom, CanJoin, Serve, Idle
  <1>5. x.status = "waiting"
    BY <1>1, <1>2, <1>4 DEF AddPlayer, RoomRec
  <1>6. Absent(room[s]) = {}
    BY <1>1, <1>4 DEF RoomCounts, CountsOf, Absent
  <1>7. CallFits(f, room') /\ CallFits(g, room')
    BY <1>3 DEF CallFits, Send, RoomCall, Call, Message
  <1>8. \A k \in Calls(stack') : CallFits(k, room')
    BY <1>4, <1>7, CallsOfShort
  <1> QED BY <1>4, <1>5, <1>6, <1>8, EnterExits

\* MP_CSCreateRoom
LEMMA CreateExits ==
    ASSUME IInv, IInv', XInv, NEW u \in User, NEW m \in TeamMode, CSCreateRoom(u, m), belong[u] = 0
    PROVE  XInv'
  <1>1. PICK r : r = IF freeRoom # <<>> THEN Head(freeRoom) ELSE nextRoom
    OBVIOUS
  <1>2. PICK x : x = AddPlayer(InitRoom(room[r], m), u)
    OBVIOUS
  <1>3. PICK f, g : f = Send(u, Message("SCCreateRoom")) /\ g = UserCall("createDetail", r, u)
    OBVIOUS
  <1>4. /\ stack = <<>> /\ UNCHANGED told /\ belong' = [belong EXCEPT ![u] = r]
        /\ room' = [room EXCEPT ![r] = x] /\ stack' = <<f, g>> /\ (freeRoom # <<>> \/ nextRoom <= MaxRoom)
    BY <1>1, <1>2, <1>3 DEF CSCreateRoom, Idle
  <1>5. r \in Room /\ r \notin rooms
    <2>1. freeRoom \in Seq(Room) /\ nextRoom \in 1..MaxRoom + 1 /\ FreeRoomsApart /\ rooms \subseteq Room
      BY DEF IInv, TypeOK
    <2>2. CASE freeRoom # <<>>
      <3>1. Head(freeRoom) = freeRoom[1] /\ 1 \in 1..Len(freeRoom) /\ Head(freeRoom) \in Room
        BY <2>1, <2>2
      <3> QED BY <1>1, <2>1, <2>2, <3>1 DEF FreeRoomsApart
    <2>3. CASE freeRoom = <<>>
      BY <1>1, <1>4, <2>1, <2>3, ConstantsAssumption DEF FreeRoomsApart, Room
    <2> QED BY <2>2, <2>3
  <1>6. x.status = "waiting"
    BY <1>2 DEF AddPlayer, InitRoom
  <1>7. \A w \in User : belong[w] # r
    <2>1. \A w \in User : belong[w] # 0 => belong[w] \in rooms
      BY MemberFound
    <2> QED BY <1>5, <2>1 DEF Room
  <1>8. CallFits(f, room') /\ CallFits(g, room')
    BY <1>3 DEF CallFits, Send, UserCall, Call, Message
  <1>9. \A k \in Calls(stack') : CallFits(k, room')
    BY <1>4, <1>8, CallsOfShort
  <1> QED BY <1>4, <1>5, <1>6, <1>7, <1>9, EnterExits

\* No step loses an exit, whatever is under way.
LEMMA ExitsStep ==
    ASSUME SendResult \subseteq {"ok", "error"}, IInv, IInv', TInv, XInv, Next
    PROVE  XInv'
  <1>1. CASE Step
    BY <1>1, SendExits, EveryoneExits, CalmPushes, DeleteClientExits, LeftLoadingExits, LoadingSetExits,
       StartSetExits, GameEndExits DEF Step
  <1>2. CASE Return \/ Tick \/ TickNext
    <2>1. UNCHANGED <<told, belong, room>>
      BY <1>2 DEF Return, Tick, TickNext
    <2> QED BY <1>2, <2>1, CalmHandlers
  <1>3. CASE \E r \in Room : LoadingTimePasses(r)
    BY <1>3, TimeExits
  <1>4. ASSUME NEW u \in User, Event(u)
        PROVE  XInv'
    <2>1. CASE \/ CSLogin(u) \/ Disconnect(u) \/ CSPullAllRoomInfo(u) \/ CSReadyToStart(u) \/ CSGameEnd(u)
      <3>1. UNCHANGED <<told, belong, room>>
        BY <2>1 DEF CSLogin, Disconnect, CSPullAllRoomInfo, CSReadyToStart, CSGameEnd
      <3> QED BY <2>1, <3>1, CalmHandlers
    <2>2. CASE CSPlayerExitRoom(u)
      BY <2>2, ExitRoomExits
    <2>3. ASSUME NEW m \in TeamMode, CSCreateRoom(u, m)
          PROVE  XInv'
      <3>1. CASE belong[u] # 0
        <4>1. UNCHANGED <<told, belong, room>>
          BY <2>3, <3>1 DEF CSCreateRoom
        <4> QED BY <2>3, <3>1, <4>1, CalmHandlers
      <3>2. CASE belong[u] = 0
        BY <2>3, <3>2, CreateExits
      <3> QED BY <3>1, <3>2
    <2>4. ASSUME NEW r \in Room, CSJoinRoom(u, r)
          PROVE  XInv'
      <3>1. CASE ~CanJoin(u, r)
        <4>1. UNCHANGED <<told, belong, room>>
          BY <2>4, <3>1 DEF CSJoinRoom
        <4> QED BY <2>4, <3>1, <4>1, CalmHandlers
      <3>2. CASE CanJoin(u, r)
        BY <2>4, <3>2, JoinExits
      <3> QED BY <3>1, <3>2
    <2>5. ASSUME NEW t, NEW o, CSChangeTeam(u, t) \/ CSChangeOption(u, o) \/ CSLoadSucceed(u)
          PROVE  XInv'
      BY <2>5, RoomHandlersExits
    <2> QED BY <1>4, <2>1, <2>2, <2>3, <2>4, <2>5 DEF Event
  <1> QED BY <1>1, <1>2, <1>3, <1>4 DEF Next

\* A room that loads keeps its players informed of who has left.  Where nobody
\* claims the end of a game that is not on, and no message is lost in a full
\* send buffer, every player of a loading room has been sent SCPlayerExitGame
\* for exactly the seats that are offline once the server is idle: also for
\* those whom a broadcast about another exit threw out.
THEOREM ExitsAnnounced ==
    ASSUME GameEndIn \subseteq {"ingame"}, SendResult \subseteq {"ok", "error"}
    PROVE  Spec => []ExitsTold
  <1>1. Init => XInv
    <2> SUFFICES ASSUME Init PROVE XInv
      OBVIOUS
    <2>1. Calls(stack) = {}
      BY CallsOfShort DEF Init
    <2> QED BY <2>1 DEF Init, XInv, CallsFit, ToldFits, ExitsInv, Untold
  <1>2. IInv /\ IInv' /\ TInv /\ XInv /\ [Next]_vars => XInv'
    <2> SUFFICES ASSUME IInv, IInv', TInv, XInv, [Next]_vars PROVE XInv'
      OBVIOUS
    <2>1. CASE Next
      BY <2>1, ExitsStep
    <2>2. CASE UNCHANGED vars
      BY <2>2 DEF vars, XInv, CallsFit, ToldFits, ExitsInv
    <2> QED BY <2>1, <2>2
  <1>3. IInv /\ XInv => ExitsTold
    <2> SUFFICES ASSUME IInv, XInv, Idle, NEW u \in User, belong[u] # 0, room[belong[u]].status = "loading"
                 PROVE  told[u].exits = Absent(room[belong[u]])
      BY DEF ExitsTold, Absent
    <2>1. Calls(stack) = {}
      BY CallsOfShort DEF Idle
    <2>2. told[u].exits \subseteq Absent(room[belong[u]])
      BY DEF XInv, ToldFits
    <2>3. Informed(u, room[belong[u]], belong[u], told[u].exits, {})
      BY <2>1 DEF XInv, ExitsInv
    <2>4. Absent(room[belong[u]]) \subseteq told[u].exits
      BY <2>3 DEF Informed
    <2> QED BY <2>2, <2>4
  <1> QED BY <1>1, <1>2, <1>3, Invariant, TablesInvariant, PTL DEF Spec

-----------------------------------------------------------------------------
(* The order of the calls under way, until a write fails. *)

\* How far the calls that start from one handler have got: a broadcast comes
\* before what is done after it, the end of a room's part of a deletion before
\* the end of the deletion, and the loop of Room::OnTick or the reply of
\* MP_CSPlayerExitRoom is last.
Rank(f) ==
    IF f.op \in {"onTick", "kick"} \/ (f.op = "everyone" /\ f.msg.id = "SCPlayerExitRoom") THEN 4
    ELSE IF f.op \in {"deleteClient", "personGone"} THEN 3
    ELSE IF f.op \in {"send", "everyone"} THEN 1 ELSE 2

\* No call is nested in another one of its rank: that takes a failed write.
Sorted(s) == \A i, k \in 1..Len(s) : i < k => Rank(s[i]) < Rank(s[k])

\* What is under the call on top comes later.
LEMMA SortedPop ==
    ASSUME NEW s \in Seq(Frame), s # <<>>, Sorted(s)
    PROVE  Sorted(Tail(s)) /\ \A g \in Calls(Tail(s)) : Rank(Head(s)) < Rank(g)
  <1>1. PICK n \in Nat : Len(s) = n + 1
    OBVIOUS
  <1>2. PICK f, t : f = Head(s) /\ t = Tail(s)
    OBVIOUS
  <1>3. f = s[1] /\ Len(t) = n /\ \A i \in 1..n : t[i] = s[i + 1]
    BY <1>1, <1>2
  <1>4. \A i \in 1..n : i + 1 \in 1..n + 1 /\ 1 < i + 1
    OBVIOUS
  <1>5. 1 \in 1..n + 1 /\ \A i, k \in 1..n : i < k => i + 1 < k + 1
    OBVIOUS
  <1>6. \A i \in 1..n : Rank(f) < Rank(t[i])
    BY <1>1, <1>3, <1>4, <1>5 DEF Sorted
  <1>7. \A i, k \in 1..n : i < k => Rank(t[i]) < Rank(t[k])
    BY <1>1, <1>3, <1>4, <1>5 DEF Sorted
  <1>8. Sorted(t)
    BY <1>3, <1>7 DEF Sorted
  <1>9. \A g \in Calls(t) : Rank(f) < Rank(g)
    BY <1>3, <1>6 DEF Calls
  <1> QED BY <1>2, <1>8, <1>9

\* A call that comes before all others is pushed.
LEMMA SortedPush ==
    ASSUME NEW S, NEW s \in Seq(S), NEW f, Sorted(s), \A g \in Calls(s) : Rank(f) < Rank(g)
    PROVE  Sorted(<<f>> \o s)
  <1>1. PICK n \in Nat : n = Len(s)
    OBVIOUS
  <1>2. PICK t : t = <<f>> \o s
    OBVIOUS
  <1>3. Len(t) = n + 1 /\ t[1] = f /\ \A i \in 1..n : t[i + 1] = s[i]
    BY <1>1, <1>2
  <1>4. \A k \in 1..n + 1 : k = 1 \/ (k - 1 \in 1..n /\ t[k] = s[k - 1])
    BY <1>3
  <1>5. \A i \in 1..n : Rank(f) < Rank(s[i])
    BY <1>1 DEF Calls
  <1>6. \A i, k \in 1..n : i < k => Rank(s[i]) < Rank(s[k])
    BY <1>1 DEF Sorted
  <1>7. ASSUME NEW i \in 1..n + 1, NEW k \in 1..n + 1, i < k PROVE Rank(t[i]) < Rank(t[k])
    <2>1. k - 1 \in 1..n /\ t[k] = s[k - 1]
      BY <1>4, <1>7
    <2>2. CASE i = 1
      BY <1>3, <1>5, <2>1, <2>2
    <2>3. CASE i # 1
      <3>1. i - 1 \in 1..n /\ t[i] = s[i - 1] /\ i - 1 < k - 1
        BY <1>4, <1>7, <2>3
      <3> QED BY <1>6, <2>1, <3>1
    <2> QED BY <2>2, <2>3
  <1> QED BY <1>2, <1>3, <1>7 DEF Sorted

\* Two calls are pushed.
LEMMA SortedPush2 ==
    ASSUME NEW S, NEW s \in Seq(S), NEW f, NEW g, Sorted(s), Rank(f) < Rank(g),
           \A h \in Calls(s) : Rank(g) < Rank(h)
    PROVE  Sorted(<<f, g>> \o s)
  <1>1. PICK n \in Nat : n = Len(s)
    OBVIOUS
  <1>2. PICK t : t = <<f, g>> \o s
    OBVIOUS
  <1>3. Len(t) = n + 2 /\ t[1] = f /\ t[2] = g /\ \A i \in 1..n : t[i + 2] = s[i]
    BY <1>1, <1>2
  <1>4. \A k \in 1..n + 2 : k = 1 \/ k = 2 \/ (k - 2 \in 1..n /\ t[k] = s[k - 2])
    BY <1>3
  <1>5. /\ \A i \in 1..n : Rank(g) < Rank(s[i])
        /\ \A i, k \in 1..n : i < k => Rank(s[i]) < Rank(s[k])
    BY <1>1 DEF Calls, Sorted
  <1>6. Rank(f) \in 1..4 /\ Rank(g) \in 1..4 /\ \A i \in 1..n : Rank(s[i]) \in 1..4
    BY DEF Rank
  <1>7. ASSUME NEW i \in 1..n + 2, NEW k \in 1..n + 2, i < k PROVE Rank(t[i]) < Rank(t[k])
    <2>1. CASE k = 2
      <3>1. i = 1
        BY <1>7, <2>1
      <3> QED BY <1>3, <2>1, <3>1
    <2>2. CASE k # 2
      <3>1. k - 2 \in 1..n /\ t[k] = s[k - 2]
        BY <1>4, <1>7, <2>2
      <3>2. CASE i = 1
        <4>1. Rank(g) < Rank(s[k - 2]) /\ Rank(s[k - 2]) \in 1..4
          BY <1>5, <1>6, <3>1
        <4>2. Rank(f) < Rank(s[k - 2])
          BY <1>6, <4>1
        <4> QED BY <1>3, <3>1, <3>2, <4>2
      <3>3. CASE i = 2
        BY <1>3, <1>5, <3>1, <3>3
      <3>4. CASE i # 1 /\ i # 2
        <4>1. i - 2 \in 1..n /\ t[i] = s[i - 2] /\ i - 2 < k - 2
          BY <1>4, <1>7, <3>4
        <4> QED BY <1>5, <3>1, <4>1
      <3> QED BY <3>2, <3>3, <3>4
    <2> QED BY <2>1, <2>2
  <1> QED BY <1>2, <1>3, <1>7 DEF Sorted

\* The call on top is replaced by others of lower or the same rank.
LEMMA SortedTop ==
    ASSUME IInv, Sorted(stack), stack # <<>>
    PROVE  /\ Sorted(Tail(stack))
           /\ \A g \in Calls(Tail(stack)) : Rank(Head(stack)) < Rank(g)
           /\ \A f : Rank(f) <= Rank(Head(stack)) => Sorted(<<f>> \o Tail(stack))
           /\ \A f, g : Rank(f) < Rank(g) /\ Rank(g) <= Rank(Head(stack)) => Sorted(<<f, g>> \o Tail(stack))
           /\ \A f, g, h : Rank(f) < Rank(g) /\ Rank(g) < Rank(h) /\ Rank(h) <= Rank(Head(stack))
                             => Sorted(<<f, g>> \o (<<h>> \o Tail(stack)))
  <1>1. stack \in Seq(Frame) /\ Tail(stack) \in Seq(Frame)
    BY Pop DEF IInv, TypeOK
  <1>2. Sorted(Tail(stack)) /\ \A g \in Calls(Tail(stack)) : Rank(Head(stack)) < Rank(g)
    BY <1>1, SortedPop
  <1>3. \A f : Rank(f) \in 1..4
    BY DEF Rank
  <1>4. PICK t : t = Tail(stack)
    OBVIOUS
  <1>5. ASSUME NEW f, Rank(f) <= Rank(Head(stack)) PROVE Sorted(<<f>> \o t)
    <2>1. \A g \in Calls(t) : Rank(f) < Rank(g)
      BY <1>2, <1>3, <1>4, <1>5
    <2> QED BY <1>1, <1>2, <1>4, <2>1, SortedPush
  <1>6. ASSUME NEW f, NEW g, Rank(f) < Rank(g), Rank(g) <= Rank(Head(stack))
        PROVE  Sorted(<<f, g>> \o t)
    <2>1. \A h \in Calls(t) : Rank(g) < Rank(h)
      BY <1>2, <1>3, <1>4, <1>6
    <2>2. t \in Seq(Frame) /\ Sorted(t)
      BY <1>1, <1>2, <1>4
    <2> QED BY <1>6, <2>1, <2>2, SortedPush2
  <1>7. ASSUME NEW f, NEW g, NEW h, Rank(f) < Rank(g), Rank(g) < Rank(h), Rank(h) <= Rank(Head(stack))
        PROVE  Sorted(<<f, g>> \o (<<h>> \o t))
    <2>1. PICK s : s = <<h>> \o t
      OBVIOUS
    <2>2. s \in Seq(Frame \cup {h})
      <3>1. t \in Seq(Frame \cup {h}) /\ h \in Frame \cup {h}
        BY <1>1, <1>4
      <3> QED BY <2>1, <3>1, Push
    <2>3. Calls(s) = {h} \cup Calls(t) /\ Sorted(s)
      BY <1>1, <1>4, <1>5, <1>7, <2>1, CallsOf1
    <2>4. \A k \in Calls(s) : Rank(g) < Rank(k)
      BY <1>2, <1>3, <1>4, <1>7, <2>3
    <2>5. Sorted(<<f, g>> \o s)
      BY <1>7, <2>2, <2>3, <2>4, SortedPush2
    <2> QED BY <2>1, <2>5
  <1> QED BY <1>2, <1>4, <1>5, <1>6, <1>7

\* A write that does not fail leaves the calls alone, and what is not lost arrives.
LEMMA SendArrives ==
    ASSUME NEW u, NEW m, NEW S, NEW rest \in Seq(S), SendMessageToClient(u, m, rest),
           Top("send") \/ Top("everyone"), ~WriteFails
    PROVE  /\ stack' = rest /\ UNCHANGED <<sess, person, belong, rooms, room>>
           /\ told' = told \/ told' = [told EXCEPT ![u] = Receive(told[u], m)]
           /\ SendResult \subseteq {"ok", "error"} /\ u \in sess =>
                told' = [told EXCEPT ![u] = Receive(told[u], m)]
  <1>1. UNCHANGED <<sess, person, belong, rooms, room>>
    BY DEF SendMessageToClient
  <1>2. CASE u \notin sess
    BY <1>1, <1>2 DEF SendMessageToClient
  <1>3. CASE u \in sess
    <2>1. PICK d : d = UserCall("deleteClient", 0, u)
      OBVIOUS
    <2>2. PICK res \in SendResult :
              /\ told' = IF res = "ok" THEN [told EXCEPT ![u] = Receive(told[u], m)] ELSE told
              /\ stack' = IF res = "error" THEN <<d>> \o rest ELSE rest
      BY <1>3, <2>1 DEF SendMessageToClient
    <2>3. <<d>> \o rest # <<>> /\ Head(<<d>> \o rest) = d
      OBVIOUS
    <2>4. d.op = "deleteClient"
      BY <2>1 DEF UserCall, Call
    <2>5. res # "error"
      BY <2>2, <2>3, <2>4 DEF WriteFails
    <2> QED BY <1>1, <1>3, <2>2, <2>5
  <1> QED BY <1>2, <1>3

\* The calls under way keep their order.
LEMMA SortedCalls ==
    ASSUME IInv, Sorted(stack), Step, ~WriteFails
    PROVE  Sorted(stack')
  <1> DEFINE h == Head(stack)
             r == h.room
             u == h.user
             t == Tail(stack)
  <1>1. stack # <<>>
    BY DEF Step, Top, DoSend, DoEveryone, DoCreateDetail, DoJoinDetail, DoDeleteClient, DoPersonGone,
           DoLeftWaiting, DoLeftLoading, DoLoadingSet, DoGameStart, DoStartSet, DoOnTick, DoKick, DoGameEndFrom
  <1>2. /\ Sorted(t)
        /\ \A f : Rank(f) <= Rank(h) => Sorted(<<f>> \o t)
        /\ \A f, g : Rank(f) < Rank(g) /\ Rank(g) <= Rank(h) => Sorted(<<f, g>> \o t)
        /\ \A f, g, k : Rank(f) < Rank(g) /\ Rank(g) < Rank(k) /\ Rank(k) <= Rank(h)
                             => Sorted(<<f, g>> \o (<<k>> \o t))
    BY <1>1, SortedTop
  <1>3. t \in Seq(Frame)
    BY <1>1, Pop DEF IInv, TypeOK
  <1>4. CASE DoSend
    <2>1. Top("send") /\ SendMessageToClient(u, h.msg, t)
      BY <1>4 DEF DoSend
    <2> HIDE DEF h, u, t
    <2> QED BY <1>2, <1>3, <2>1, SendArrives
  <1>5. CASE DoEveryone
    <2>1. stack' = t \/ \E i, v : SendMessageToClient(v, h.msg, <<Call("everyone", r, NoUser, i, h.msg)>> \o t)
      BY <1>5 DEF DoEveryone
    <2>2. ASSUME NEW i, NEW v, SendMessageToClient(v, h.msg, <<Call("everyone", r, NoUser, i, h.msg)>> \o t)
          PROVE  Sorted(stack')
      <3>1. PICK g : g = Call("everyone", r, NoUser, i, h.msg)
        OBVIOUS
      <3>2. h.op = "everyone" /\ Top("everyone")
        BY <1>5 DEF DoEveryone, Top
      <3>3. Rank(g) = Rank(h)
        BY <3>1, <3>2 DEF Call, Rank
      <3>4. Rank(g) <= Rank(h)
        BY <3>3 DEF Rank
      <3> HIDE DEF h, t
      <3>5. <<g>> \o t \in Seq(Frame \cup {g})
        <4>1. t \in Seq(Frame \cup {g}) /\ g \in Frame \cup {g}
          BY <1>3
        <4> QED BY <4>1, Push
      <3>6. SendMessageToClient(v, h.msg, <<g>> \o t)
        BY <2>2, <3>1
      <3>7. stack' = <<g>> \o t
        BY <3>2, <3>5, <3>6, SendArrives
      <3> QED BY <1>2, <3>4, <3>7
    <2> QED BY <1>2, <2>1, <2>2
  <1>6. CASE DoPersonGone \/ DoLeftWaiting \/ DoLoadingSet \/ DoStartSet \/ DoGameEndFrom
    <2>1. stack' = t
      BY <1>6 DEF DoPersonGone, DoLeftWaiting, DoLoadingSet, DoStartSet, DoGameEndFrom
    <2> QED BY <1>2, <2>1
  <1>7. CASE DoCreateDetail
    <2>1. PICK d : stack' = <<Send(u, DetailMsg(d))>> \o t
      BY <1>7 DEF DoCreateDetail
    <2>2. Rank(Send(u, DetailMsg(d))) <= Rank(h)
      <3>1. h.op = "createDetail"
        BY <1>7 DEF DoCreateDetail, Top
      <3> QED BY <3>1 DEF Rank, Send, Call
    <2> QED BY <1>2, <2>1, <2>2
  <1>8. CASE DoJoinDetail
    <2>1. stack' = stack \/ \E d : stack' = <<Everyone(r, DetailMsg(d))>> \o t
      BY <1>8 DEF DoJoinDetail, JoinedRoom
    <2>2. \A d : Rank(Everyone(r, DetailMsg(d))) <= Rank(h)
      <3>1. h.op = "joinDetail"
        BY <1>8 DEF DoJoinDetail, Top
      <3> QED BY <3>1 DEF Rank, Everyone, Call, DetailMsg
    <2> QED BY <1>2, <2>1, <2>2
  <1>9. CASE DoDeleteClient
    <2>1. h.op = "deleteClient"
      BY <1>9 DEF DoDeleteClient, Top
    <2>2. PICK p : p = UserCall("personGone", 0, u)
      OBVIOUS
    <2>3. Rank(p) = 3 /\ Rank(h) = 3
      BY <2>1, <2>2 DEF Rank, UserCall, Call
    <2>4. \/ stack' = t \/ stack' = <<p>> \o t
          \/ \E s, pos : stack' = DeletePlayerCalls(s, u, pos) \o (<<p>> \o t)
      BY <1>9, <2>2 DEF DoDeleteClient, DeletePlayerFromRoom
    <2>5. ASSUME NEW s, NEW pos PROVE Sorted(DeletePlayerCalls(s, u, pos) \o (<<p>> \o t))
      <3>1. PICK f, g, k, l : /\ f = Everyone(s, LeaveDetail(s, pos)) /\ g = UserCall("leftWaiting", 0, u)
                              /\ k = Everyone(s, ExitGameMsg(pos)) /\ l = SeatCall("leftLoading", s, pos)
        OBVIOUS
      <3>2. Rank(f) = 1 /\ Rank(g) = 2 /\ Rank(k) = 1 /\ Rank(l) = 2
        <4>1. /\ f.op = "everyone" /\ f.msg.id = "SCPullOneRoomDetail" /\ g.op = "leftWaiting"
              /\ k.op = "everyone" /\ k.msg.id = "SCPlayerExitGame" /\ l.op = "leftLoading"
          BY <3>1 DEF Everyone, UserCall, SeatCall, Call, LeaveDetail, DetailMsg, ExitGameMsg
        <4> QED BY <4>1 DEF Rank
      <3>3. /\ DeletePlayerCalls(s, u, pos) = <<f, g>> \/ DeletePlayerCalls(s, u, pos) = <<k, l>>
               \/ DeletePlayerCalls(s, u, pos) = <<>>
        BY <3>1 DEF DeletePlayerCalls
      <3> HIDE DEF t, h, u
      <3>4. Sorted(<<f, g>> \o (<<p>> \o t)) /\ Sorted(<<k, l>> \o (<<p>> \o t)) /\ Sorted(<<p>> \o t)
        BY <1>2, <2>3, <3>2
      <3>5. <<>> \o (<<p>> \o t) = <<p>> \o t
        <4>1. t \in Seq(Frame \cup {p}) /\ p \in Frame \cup {p}
          BY <1>3
        <4>2. <<p>> \o t \in Seq(Frame \cup {p})
          BY <4>1, Push
        <4> QED BY <4>2
      <3> QED BY <3>3, <3>4, <3>5
    <2> HIDE DEF t, h
    <2>6. Sorted(<<p>> \o t)
      BY <1>2, <2>3
    <2> QED BY <1>2, <2>4, <2>5, <2>6
  <1>10. CASE DoLeftLoading
    <2>1. h.op = "leftLoading"
      BY <1>10 DEF DoLeftLoading, Top
    <2>2. Rank(RoomCall("gameStart", r)) <= Rank(h)
      BY <2>1 DEF Rank, RoomCall, Call
    <2>3. stack' = t \/ stack' = <<RoomCall("gameStart", r)>> \o t
      BY <1>10 DEF DoLeftLoading
    <2> QED BY <1>2, <2>2, <2>3
  <1>11. CASE DoGameStart
    <2>1. PICK f, g : f = Everyone(r, Message("SCGameStart")) /\ g = RoomCall("startSet", r)
      OBVIOUS
    <2>2. stack' = t \/ stack' = <<f, g>> \o t
      BY <1>11, <2>1 DEF DoGameStart
    <2>3. h.op = "gameStart"
      BY <1>11 DEF DoGameStart, Top
    <2>4. Rank(f) = 1 /\ Rank(g) = 2 /\ Rank(h) = 2
      BY <2>1, <2>3 DEF Rank, RoomCall, Everyone, Call, Message
    <2> HIDE DEF t, h
    <2>5. Sorted(t) /\ Sorted(<<f, g>> \o t)
      BY <1>2, <2>4
    <2> QED BY <2>2, <2>5
  <1>12. CASE DoOnTick
    <2>1. PICK f, g : f = Everyone(r, Message("SCFrameMess")) /\ g = SeatCall("kick", r, 1)
      OBVIOUS
    <2>2. stack' = t \/ stack' = <<f>> \o t \/ stack' = <<g>> \o t
      BY <1>12, <2>1 DEF DoOnTick
    <2>3. h.op = "onTick"
      BY <1>12 DEF DoOnTick, Top
    <2>4. Rank(f) = 1 /\ Rank(g) = 4 /\ Rank(h) = 4
      BY <2>1, <2>3 DEF Rank, SeatCall, Everyone, Call, Message
    <2> HIDE DEF t, h
    <2>5. Sorted(t) /\ Sorted(<<f>> \o t) /\ Sorted(<<g>> \o t)
      BY <1>2, <2>4
    <2> QED BY <2>2, <2>5
  <1>13. CASE DoKick
    <2>1. PICK v, i : \/ stack' = <<RoomCall("gameStart", r)>> \o t
                      \/ stack' = <<UserCall("deleteClient", 0, v), SeatCall("kick", r, i)>> \o t
      BY <1>13 DEF DoKick
    <2>2. PICK f, g, k : /\ f = RoomCall("gameStart", r) /\ g = UserCall("deleteClient", 0, v)
                         /\ k = SeatCall("kick", r, i)
      OBVIOUS
    <2>3. h.op = "kick"
      BY <1>13 DEF DoKick, Top
    <2>4. Rank(f) = 2 /\ Rank(g) = 3 /\ Rank(k) = 4 /\ Rank(h) = 4
      BY <2>2, <2>3 DEF Rank, RoomCall, UserCall, SeatCall, Call
    <2> HIDE DEF t, h
    <2>5. Sorted(<<f>> \o t) /\ Sorted(<<g, k>> \o t)
      BY <1>2, <2>4
    <2> QED BY <2>1, <2>2, <2>5
  <1> QED BY <1>4, <1>5, <1>6, <1>7, <1>8, <1>9, <1>10, <1>11, <1>12, <1>13 DEF Step

\* Stacks of one handler
LEMMA SortedShort ==
    /\ Sorted(<<>>) /\ \A f : Sorted(<<f>>)
    /\ \A f, g : Rank(f) < Rank(g) => Sorted(<<f, g>>)
    /\ \A f, g, h : Rank(f) < Rank(g) /\ Rank(g) < Rank(h) => Sorted(<<f, g>> \o <<h>>)
  <1>1. Sorted(<<>>)
    BY DEF Sorted
  <1>2. ASSUME NEW f PROVE Sorted(<<f>>)
    <2>1. Len(<<f>>) = 1 /\ \A i, k \in 1..1 : ~(i < k)
      OBVIOUS
    <2> QED BY <2>1 DEF Sorted
  <1>3. ASSUME NEW f, NEW g, Rank(f) < Rank(g) PROVE Sorted(<<f, g>>)
    <2>1. PICK t : t = <<f, g>>
      OBVIOUS
    <2>2. Len(t) = 2 /\ t[1] = f /\ t[2] = g /\ \A i, k \in 1..2 : i < k => i = 1 /\ k = 2
      BY <2>1
    <2>3. Sorted(t)
      BY <1>3, <2>2 DEF Sorted
    <2> QED BY <2>1, <2>3
  <1>4. ASSUME NEW f, NEW g, NEW h, Rank(f) < Rank(g), Rank(g) < Rank(h) PROVE Sorted(<<f, g>> \o <<h>>)
    <2>1. PICK t : t = <<h>>
      OBVIOUS
    <2>2. t \in Seq({h}) /\ Sorted(t) /\ Calls(t) = {h}
      BY <1>2, <2>1, CallsOfShort
    <2>3. Sorted(<<f, g>> \o t)
      BY <1>4, <2>2, SortedPush2
    <2> QED BY <2>1, <2>3
  <1> QED BY <1>1, <1>2, <1>3, <1>4

\* A handler, or the tick, begins with calls in this order.
LEMMA SortedNew ==
    ASSUME IInv, Sorted(stack), Next, ~Step
    PROVE  Sorted(stack')
  <1> USE DEF Serve, Visit
  <1>1. CASE Return \/ Tick \/ TickNext \/ \E r \in Room : LoadingTimePasses(r)
    <2>1. stack' = stack \/ stack' = <<>> \/ \E r : stack' = <<RoomCall("onTick", r)>>
      BY <1>1 DEF Return, Tick, TickNext, LoadingTimePasses
    <2> QED BY <2>1, SortedShort
  <1>2. ASSUME NEW u \in User, Event(u)
        PROVE  Sorted(stack')
    <2> DEFINE r == belong[u]
    <2>1. CASE CSLogin(u) \/ Disconnect(u) \/ CSPullAllRoomInfo(u)
      <3>1. \E f : stack' = <<f>>
        BY <2>1 DEF CSLogin, Disconnect, CSPullAllRoomInfo
      <3> QED BY <3>1, SortedShort
    <2>2. ASSUME NEW m, CSCreateRoom(u, m) PROVE Sorted(stack')
      <3>1. \/ \E f : stack' = <<f>>
            \/ \E s : stack' = <<Send(u, Message("SCCreateRoom")), UserCall("createDetail", s, u)>>
        BY <2>2 DEF CSCreateRoom
      <3>2. \A s : Rank(Send(u, Message("SCCreateRoom"))) < Rank(UserCall("createDetail", s, u))
        BY DEF Rank, Send, UserCall, Call
      <3> QED BY <3>1, <3>2, SortedShort
    <2>3. ASSUME NEW s, CSJoinRoom(u, s) PROVE Sorted(stack')
      <3>1. \/ \E f : stack' = <<f>>
            \/ stack' = <<Send(u, Message("SCJoinRoom")), RoomCall("joinDetail", s)>>
        BY <2>3 DEF CSJoinRoom
      <3>2. Rank(Send(u, Message("SCJoinRoom"))) < Rank(RoomCall("joinDetail", s))
        BY DEF Rank, Send, RoomCall, Call
      <3> QED BY <3>1, <3>2, SortedShort
    <2>4. ASSUME NEW o, CSChangeTeam(u, o) \/ CSChangeOption(u, o) PROVE Sorted(stack')
      <3>1. \E f : stack' = <<f>>
        BY <2>4 DEF CSChangeTeam, CSChangeOption
      <3> QED BY <3>1, SortedShort
    <2>5. CASE CSReadyToStart(u)
      <3>1. stack' = <<Everyone(r, Message("SCGameLoading")), RoomCall("loadingSet", r)>>
        BY <2>5 DEF CSReadyToStart
      <3>2. Rank(Everyone(r, Message("SCGameLoading"))) < Rank(RoomCall("loadingSet", r))
        BY DEF Rank, Everyone, RoomCall, Call, Message
      <3> QED BY <3>1, <3>2, SortedShort
    <2>6. CASE CSLoadSucceed(u)
      <3>1. stack' = <<>> \/ \E f : stack' = <<f>>
        BY <2>6 DEF CSLoadSucceed
      <3> QED BY <3>1, SortedShort
    <2>7. CASE CSGameEnd(u)
      <3>1. stack' = <<Send(u, Message("SCGameEnd")), UserCall("gameEndFrom", 0, u)>>
        BY <2>7 DEF CSGameEnd
      <3>2. Rank(Send(u, Message("SCGameEnd"))) < Rank(UserCall("gameEndFrom", 0, u))
        BY DEF Rank, Send, UserCall, Call
      <3> QED BY <3>1, <3>2, SortedShort
    <2>8. CASE CSPlayerExitRoom(u)
      <3> DEFINE pos == GetPlayerID(room[r], u)
      <3>1. PICK f, g, h : /\ f = Everyone(r, LeaveDetail(r, pos)) /\ g = UserCall("leftWaiting", 0, u)
                           /\ h = Everyone(r, Message("SCPlayerExitRoom"))
        OBVIOUS
      <3>2. Rank(f) = 1 /\ Rank(g) = 2 /\ Rank(h) = 4
        <4>1. f.op = "everyone" /\ f.msg.id = "SCPullOneRoomDetail"
          BY <3>1 DEF Everyone, Call, LeaveDetail, DetailMsg
        <4>2. g.op = "leftWaiting" /\ h.op = "everyone" /\ h.msg.id = "SCPlayerExitRoom"
          BY <3>1 DEF Everyone, UserCall, Call, Message
        <4> QED BY <4>1, <4>2 DEF Rank
      <3>3. stack' = stack \/ stack' = <<h>> \/ stack' = <<f, g>> \o <<h>>
        BY <2>8, <3>1 DEF CSPlayerExitRoom, DeletePlayerFromRoom, DeletePlayerCalls
      <3>4. Sorted(<<h>>) /\ Sorted(<<f, g>> \o <<h>>)
        BY <3>2, SortedShort
      <3> QED BY <3>3, <3>4
    <2> QED BY <1>2, <2>1, <2>2, <2>3, <2>4, <2>5, <2>6, <2>7, <2>8 DEF Event
  <1> QED BY <1>1, <1>2 DEF Next

-----------------------------------------------------------------------------
(* Who has loaded when a game starts. *)

\* The deletion of the player of seat i of a loading room r is not over.
Leaving(r, i, S) == \E f \in S : f.op = "leftLoading" /\ f.room = r /\ f.seat = i

\* A player counts as loaded only while he is in the room or is being deleted.
LoadedInv ==
    \A r \in Room : room[r].status = "loading" =>
        \A i \in room[r].is_loading_succeed : i \in room[r].is_online \/ Leaving(r, i, Calls(stack))

\* Who is being deleted is offline.  A game is started when all players have
\* loaded, and the loop of Room::OnTick has thrown out those it has passed who
\* have not; rm is room and S the set of calls under way.
CallLoaded(f, rm, S) ==
    LET q == rm[f.room] IN
    /\ f.op = "leftLoading" => f.seat \notin q.is_online
    /\ f.op \in {"gameStart", "startSet"} /\ q.status = "loading" => q.is_online \subseteq q.is_loading_succeed
    /\ f.op = "kick" /\ q.status = "loading" =>
         \A i \in q.is_online : i < f.seat =>
             i \in q.is_loading_succeed \/ UserCall("deleteClient", 0, q.players[i]) \in S

CallsLoaded == \A f \in Calls(stack) : CallLoaded(f, room, Calls(stack))
LInv == LoadedInv /\ CallsLoaded

\* A call about which CallLoaded says nothing
Apart(f) == f.op \notin {"leftLoading", "gameStart", "startSet", "kick"}

\* Nobody enters or leaves a room, and no game starts.
LEMMA LoadedSame ==
    ASSUME IInv, LInv,
           \A r \in Room : /\ room'[r].players = room[r].players
                           /\ room'[r].is_online = room[r].is_online
                           /\ room'[r].is_loading_succeed = room[r].is_loading_succeed
                           /\ room'[r].status = room[r].status,
           \A f \in Calls(stack) : f \in Calls(stack') \/ f.op \notin {"leftLoading", "deleteClient"},
           \A f \in Calls(stack') : f \in Calls(stack) \/ CallLoaded(f, room', Calls(stack'))
    PROVE  LInv'
  <1>1. LoadedInv'
    <2> SUFFICES ASSUME NEW r \in Room, room[r].status = "loading", NEW i \in room[r].is_loading_succeed
                 PROVE  i \in room[r].is_online \/ Leaving(r, i, Calls(stack'))
      BY DEF LoadedInv
    <2>1. i \in room[r].is_online \/ Leaving(r, i, Calls(stack))
      BY DEF LInv, LoadedInv
    <2> QED BY <2>1 DEF Leaving
  <1>2. CallsLoaded'
    <2> SUFFICES ASSUME NEW f \in Calls(stack'), f \in Calls(stack) PROVE CallLoaded(f, room', Calls(stack'))
      BY DEF CallsLoaded
    <2>1. CallLoaded(f, room, Calls(stack))
      BY DEF LInv, CallsLoaded
    <2>2. f \in Frame
      BY DEF Calls, IInv, TypeOK
    <2>3. f.op \in RoomOp => f.room \in Room
      BY <2>2 DEF Frame
    <2>4. \A w : UserCall("deleteClient", 0, w) \in Calls(stack) => UserCall("deleteClient", 0, w) \in Calls(stack')
      BY DEF UserCall, Call
    <2>5. CASE f.op \in {"leftLoading", "gameStart", "startSet"}
      BY <2>1, <2>3, <2>5 DEF CallLoaded, RoomOp
    <2>6. CASE f.op = "kick"
      BY <2>1, <2>3, <2>4, <2>6 DEF CallLoaded, RoomOp
    <2>7. CASE Apart(f)
      BY <2>7 DEF CallLoaded, Apart
    <2> QED BY <2>5, <2>6, <2>7 DEF Apart
  <1> QED BY <1>1, <1>2 DEF LInv

\* One room changes while nobody is being deleted from a loading one.
LEMMA LoadedOther ==
    ASSUME IInv, LInv, NEW r \in Room, NEW x, room' = [room EXCEPT ![r] = x],
           x.status = "loading" => x.is_loading_succeed \subseteq x.is_online,
           \A f \in Calls(stack) : f.op # "leftLoading",
           \A f \in Calls(stack') : CallLoaded(f, room', Calls(stack'))
    PROVE  LInv'
  <1>1. \A s \in Room : room'[s] = IF s = r THEN x ELSE room[s]
    BY DEF IInv, TypeOK
  <1>2. \A s \in Room : room[s].status = "loading" => room[s].is_loading_succeed \subseteq room[s].is_online
    BY DEF LInv, LoadedInv, Leaving
  <1>3. LoadedInv'
    BY <1>1, <1>2 DEF LoadedInv
  <1>4. CallsLoaded'
    BY DEF CallsLoaded
  <1> QED BY <1>3, <1>4 DEF LInv

\* The calls about which nothing has to be known
LEMMA ApartLoaded ==
    ASSUME NEW f, Apart(f)
    PROVE  \A rm, S : CallLoaded(f, rm, S)
  BY DEF Apart, CallLoaded

\* The messages, and the calls that announce or finish something else
LEMMA LoadedApart ==
    ASSUME IInv, Sorted(stack), LInv, ~WriteFails,
           \/ DoSend \/ DoEveryone \/ DoCreateDetail \/ DoJoinDetail \/ DoPersonGone \/ DoLeftWaiting
    PROVE  LInv'
  <1> DEFINE h == Head(stack)
             t == Tail(stack)
  <1>1. PICK op \in {"send", "everyone", "createDetail", "joinDetail", "personGone", "leftWaiting"} : Top(op)
    BY DEF DoSend, DoEveryone, DoCreateDetail, DoJoinDetail, DoPersonGone, DoLeftWaiting
  <1>2. t \in Seq(Frame) /\ Calls(stack) = {h} \cup Calls(t) /\ h.op = op
    BY <1>1, Pop, CallsOfTop DEF Top, IInv, TypeOK
  <1>3. UNCHANGED room /\ (stack' = stack \/ stack' = t \/ \E g : Apart(g) /\ stack' = <<g>> \o t)
    <2>1. CASE DoSend
      <3>1. Top("send") /\ SendMessageToClient(h.user, h.msg, t)
        BY <2>1 DEF DoSend
      <3> HIDE DEF h, t
      <3> QED BY <1>2, <3>1, SendArrives
    <2>2. CASE DoEveryone
      <3>1. \/ stack' = t /\ room' = room
            \/ \E i, v : SendMessageToClient(v, h.msg, <<Call("everyone", h.room, NoUser, i, h.msg)>> \o t)
        BY <2>2 DEF DoEveryone
      <3>2. ASSUME NEW i, NEW v, SendMessageToClient(v, h.msg, <<Call("everyone", h.room, NoUser, i, h.msg)>> \o t)
            PROVE  UNCHANGED room /\ \E g : Apart(g) /\ stack' = <<g>> \o t
        <4>1. PICK g : g = Call("everyone", h.room, NoUser, i, h.msg)
          OBVIOUS
        <4>2. Apart(g) /\ Top("everyone")
          BY <2>2, <4>1 DEF Apart, Call, DoEveryone
        <4> HIDE DEF h, t
        <4>3. <<g>> \o t \in Seq(Frame \cup {g})
          <5>1. t \in Seq(Frame \cup {g}) /\ g \in Frame \cup {g}
            BY <1>2
          <5> QED BY <5>1, Push
        <4>4. SendMessageToClient(v, h.msg, <<g>> \o t)
          BY <3>2, <4>1
        <4>5. stack' = <<g>> \o t /\ room' = room
          BY <4>2, <4>3, <4>4, SendArrives
        <4> QED BY <4>2, <4>5
      <3> QED BY <3>1, <3>2
    <2>3. CASE DoCreateDetail
      <3>1. PICK d : stack' = <<Send(h.user, DetailMsg(d))>> \o t /\ room' = room
        BY <2>3 DEF DoCreateDetail
      <3>2. Apart(Send(h.user, DetailMsg(d)))
        BY DEF Apart, Send, Call
      <3> QED BY <3>1, <3>2
    <2>4. CASE DoJoinDetail
      <3>1. room' = room /\ (stack' = stack \/ \E d : stack' = <<Everyone(h.room, DetailMsg(d))>> \o t)
        BY <2>4 DEF DoJoinDetail, JoinedRoom
      <3>2. \A d : Apart(Everyone(h.room, DetailMsg(d)))
        BY DEF Apart, Everyone, Call
      <3> QED BY <3>1, <3>2
    <2>5. CASE DoPersonGone \/ DoLeftWaiting
      BY <2>5 DEF DoPersonGone, DoLeftWaiting
    <2> QED BY <2>1, <2>2, <2>3, <2>4, <2>5
  <1> HIDE DEF h, t
  <1>4. CASE stack' = stack
    BY <1>3, <1>4, LoadedSame
  <1>5. CASE stack' = t
    BY <1>2, <1>3, <1>5, LoadedSame
  <1>6. ASSUME NEW g, Apart(g), stack' = <<g>> \o t PROVE LInv'
    <2>1. Calls(stack') = {g} \cup Calls(t) /\ CallLoaded(g, room', Calls(stack'))
      BY <1>2, <1>6, CallsOf1, ApartLoaded
    <2> QED BY <1>2, <1>3, <2>1, LoadedSame
  <1> QED BY <1>3, <1>4, <1>5, <1>6

\* Room::SendGameStart up to its broadcast, and Room::OnTick up to its loop
LEMMA LoadedStarts ==
    ASSUME IInv, LInv, DoGameStart \/ DoOnTick
    PROVE  LInv'
  <1> DEFINE h == Head(stack)
             r == h.room
             t == Tail(stack)
  <1>1. PICK op \in {"gameStart", "onTick"} : Top(op)
    BY DEF DoGameStart, DoOnTick
  <1>2. t \in Seq(Frame) /\ Calls(stack) = {h} \cup Calls(t) /\ h.op = op /\ UNCHANGED room
    BY <1>1, Pop, CallsOfTop DEF Top, IInv, TypeOK, DoGameStart, DoOnTick
  <1>3. CASE DoGameStart
    <2>1. PICK f, g : f = Everyone(r, Message("SCGameStart")) /\ g = RoomCall("startSet", r)
      OBVIOUS
    <2>2. stack' = t \/ stack' = <<f, g>> \o t
      BY <1>3, <2>1 DEF DoGameStart
    <2>3. CallLoaded(h, room, Calls(stack)) /\ h.op = "gameStart"
      BY <1>2, <1>3 DEF LInv, CallsLoaded, DoGameStart, Top
    <2>4. Apart(f) /\ g.op = "startSet" /\ g.room = r
      BY <2>1 DEF Apart, Everyone, RoomCall, Call
    <2>5. \A S : CallLoaded(f, room, S) /\ CallLoaded(g, room, S)
      BY <2>3, <2>4, ApartLoaded DEF CallLoaded
    <2>6. Calls(<<f, g>> \o t) = {f, g} \cup Calls(t)
      BY <1>2, CallsOf2
    <2> HIDE DEF h, r, t
    <2> QED BY <1>2, <2>2, <2>5, <2>6, LoadedSame
  <1>4. CASE DoOnTick
    <2>1. PICK f, g : f = Everyone(r, Message("SCFrameMess")) /\ g = SeatCall("kick", r, 1)
      OBVIOUS
    <2>2. stack' = t \/ stack' = <<f>> \o t \/ stack' = <<g>> \o t
      BY <1>4, <2>1 DEF DoOnTick
    <2>3. Apart(f) /\ g.op = "kick" /\ g.room = r /\ g.seat = 1
      BY <2>1 DEF Apart, Everyone, SeatCall, Call
    <2>4. \A i \in room[r].is_online : ~(i < 1)
      <3>1. room[r].is_online \subseteq Seat
        BY <1>4, TopRoom DEF DoOnTick, RoomOp, RoomRec
      <3> QED BY <3>1 DEF Seat
    <2>5. \A S : CallLoaded(f, room, S) /\ CallLoaded(g, room, S)
      BY <2>3, <2>4, ApartLoaded DEF CallLoaded
    <2>6. Calls(<<f>> \o t) = {f} \cup Calls(t) /\ Calls(<<g>> \o t) = {g} \cup Calls(t)
      BY <1>2, CallsOf1
    <2> HIDE DEF h, r, t
    <2> QED BY <1>2, <2>2, <2>5, <2>6, LoadedSame
  <1> QED BY <1>3, <1>4

\* The loop of Room::OnTick: whom it has passed has loaded or is deleted now.
LEMMA LoadedKick ==
    ASSUME IInv, Sorted(stack), LInv, DoKick
    PROVE  LInv'
  <1> DEFINE h == Head(stack)
             r == h.room
             q == room[r]
             t == Tail(stack)
             late == NotLoaded(q, h.seat)
             j == CHOOSE j \in late : \A k \in late : j <= k
  <1>1. Top("kick") /\ UNCHANGED room
    BY DEF DoKick
  <1>2. stack # <<>> /\ t \in Seq(Frame) /\ Calls(stack) = {h} \cup Calls(t) /\ h.op = "kick"
    BY <1>1, Pop, CallsOfTop DEF Top, IInv, TypeOK
  <1>3. r \in Room /\ q \in RoomRec /\ CountsOf(q) /\ h.seat \in Nat
    BY <1>1, TopRoom, ConstantsAssumption DEF RoomOp
  <1>4. Calls(t) = {}
    <2>1. Rank(h) = 4 /\ \A g : Rank(g) \in 1..4
      BY <1>2 DEF Rank
    <2>2. \A g \in Calls(t) : Rank(h) < Rank(g)
      BY <1>2, SortedTop
    <2>3. \A g \in Calls(t) : FALSE
      <3> SUFFICES ASSUME NEW g \in Calls(t) PROVE FALSE
        OBVIOUS
      <3>1. Rank(h) < Rank(g) /\ Rank(g) \in 1..4
        BY <2>1, <2>2
      <3> QED BY <2>1, <3>1
    <2> QED BY <2>3
  <1>5. q.status = "loading" => \A i \in q.is_online : i < h.seat => i \in q.is_loading_succeed
    <2>1. \A w : UserCall("deleteClient", 0, w) # h
      BY <1>2 DEF UserCall, Call
    <2>2. CallLoaded(h, room, Calls(stack)) /\ Calls(stack) = {h}
      BY <1>2, <1>4 DEF LInv, CallsLoaded
    <2> QED BY <1>2, <2>1, <2>2 DEF CallLoaded
  <1>6. /\ q.is_online \subseteq 1..q.player_cnt /\ q.player_cnt \in Nat
        /\ \A i \in q.is_online : i \in Nat /\ (h.seat <= i => i \in late \/ i \in q.is_loading_succeed)
    <2>1. q.is_online \subseteq 1..q.player_cnt /\ q.player_cnt \in Nat
      BY <1>3 DEF CountsOf, RoomRec
    <2>2. late = {i \in h.seat..q.player_cnt : i \in q.is_online /\ i \notin q.is_loading_succeed}
      BY DEF NotLoaded
    <2> HIDE DEF late, h, q
    <2> QED BY <1>3, <2>1, <2>2
  <1>7. CASE late = {}
    <2>1. PICK g : g = RoomCall("gameStart", r)
      OBVIOUS
    <2>2. stack' = <<g>> \o t /\ g.op = "gameStart" /\ g.room = r
      BY <1>7, <2>1 DEF DoKick, RoomCall, Call
    <2>3. q.status = "loading" => q.is_online \subseteq q.is_loading_succeed
      <3> HIDE DEF late, h, q
      <3> QED BY <1>3, <1>5, <1>6, <1>7
    <2>4. \A S : CallLoaded(g, room, S)
      BY <2>2, <2>3 DEF CallLoaded
    <2>5. Calls(<<g>> \o t) = {g} \cup Calls(t)
      BY <1>2, CallsOf1
    <2> HIDE DEF h, r, t
    <2> QED BY <1>1, <1>2, <2>2, <2>4, <2>5, LoadedSame
  <1>8. CASE late # {}
    <2>1. PICK d, g : d = UserCall("deleteClient", 0, q.players[j]) /\ g = SeatCall("kick", r, j + 1)
      OBVIOUS
    <2>2. stack' = <<d, g>> \o t
      BY <1>8, <2>1 DEF DoKick
    <2>3. d.op = "deleteClient" /\ g.op = "kick" /\ g.room = r /\ g.seat = j + 1
      BY <2>1 DEF UserCall, SeatCall, Call
    <2>4. late \subseteq q.is_online
      BY DEF NotLoaded
    <2>5. j \in late /\ \A k \in late : j <= k
      <3> HIDE DEF late
      <3>1. late \subseteq Nat
        BY <1>6, <2>4
      <3>2. \E i \in late : \A k \in late : i <= k
        BY <1>8, <3>1, FirstExists
      <3> QED BY <3>2
    <2>6. ASSUME NEW i \in q.is_online, i < j + 1, q.status = "loading"
          PROVE  i \in q.is_loading_succeed \/ i = j
      <3> HIDE DEF late, h, q, j
      <3>1. i \in Nat /\ j \in Nat
        BY <1>6, <2>4, <2>5
      <3>2. CASE i < h.seat
        BY <1>5, <2>6, <3>2
      <3>3. CASE h.seat <= i /\ i \in late
        <4>1. j <= i
          BY <2>5, <3>3
        <4> QED BY <2>6, <3>1, <4>1
      <3>4. CASE h.seat <= i /\ i \notin late
        BY <1>6, <3>4
      <3> QED BY <1>3, <3>1, <3>2, <3>3, <3>4
    <2>7. \A S : d \in S => CallLoaded(g, room, S)
      <3> HIDE DEF late, h, j
      <3> QED BY <2>1, <2>3, <2>6 DEF CallLoaded
    <2>8. Calls(<<d, g>> \o t) = {d, g} \cup Calls(t)
      BY <1>2, CallsOf2
    <2>9. \A S : CallLoaded(d, room, S)
      BY <2>3, ApartLoaded DEF Apart
    <2> HIDE DEF h, r, t, j, late, q
    <2> QED BY <1>1, <1>2, <2>2, <2>7, <2>8, <2>9, LoadedSame
  <1> QED BY <1>7, <1>8

\* Only the loop of Room::OnTick, or the reply of MP_CSPlayerExitRoom, waits
\* for the deletion of a client.
LEMMA UnderDelete ==
    ASSUME IInv, Sorted(stack), Top("deleteClient")
    PROVE  /\ Tail(stack) \in Seq(Frame) /\ Calls(stack) = {Head(stack)} \cup Calls(Tail(stack))
           /\ Head(stack).op = "deleteClient"
           /\ \A f \in Calls(Tail(stack)) :
                /\ f \in SafeFrame
                /\ f.op \in {"onTick", "kick"} \/ (f.op = "everyone" /\ f.msg.id = "SCPlayerExitRoom")
  <1> DEFINE h == Head(stack)
             t == Tail(stack)
  <1>1. stack # <<>> /\ t \in Seq(Frame) /\ Calls(stack) = {h} \cup Calls(t) /\ h.op = "deleteClient"
    BY Pop, CallsOfTop DEF Top, IInv, TypeOK
  <1>2. \A f \in Calls(t) : Rank(h) < Rank(f)
    BY <1>1, SortedTop
  <1>3. Rank(h) = 3
    BY <1>1 DEF Rank
  <1>4. \A f : Rank(f) \in {1, 2, 3} \/ f.op \in {"onTick", "kick"}
                 \/ (f.op = "everyone" /\ f.msg.id = "SCPlayerExitRoom")
    BY DEF Rank
  <1>5. ASSUME NEW f \in Calls(t)
        PROVE  f.op \in {"onTick", "kick"} \/ (f.op = "everyone" /\ f.msg.id = "SCPlayerExitRoom")
    <2>1. 3 < Rank(f)
      BY <1>2, <1>3
    <2>2. Rank(f) \notin {1, 2, 3}
      BY <2>1
    <2> QED BY <1>4, <2>2
  <1>6. \A f \in Calls(t) : f \in SafeFrame
    <2>1. Calls(stack) \subseteq SafeFrame
      BY DEF Calls, IInv, PendingRoomsExist
    <2> QED BY <1>1, <2>1
  <1> QED BY <1>1, <1>5, <1>6

\* MessageHandler::DeleteClientByFD: whoever leaves a loading room is taken out
\* of the count of loaded players by a call that follows.
LEMMA LoadedDelete ==
    ASSUME IInv, Sorted(stack), TInv, LInv, DoDeleteClient
    PROVE  LInv'
  <1> DEFINE h == Head(stack)
             t == Tail(stack)
             u == h.user
             r == belong[u]
             pos == GetPlayerID(room[r], u)
             p == UserCall("personGone", 0, u)
             d == UserCall("deleteClient", 0, u)
  <1>1. /\ t \in Seq(Frame) /\ Calls(stack) = {h} \cup Calls(t) /\ h.op = "deleteClient"
        /\ \A f \in Calls(t) :
             /\ f \in SafeFrame
             /\ f.op \in {"onTick", "kick"} \/ (f.op = "everyone" /\ f.msg.id = "SCPlayerExitRoom")
    BY UnderDelete DEF DoDeleteClient
  <1>2. \A s \in Room : room[s].status = "loading" => room[s].is_loading_succeed \subseteq room[s].is_online
    BY <1>1 DEF LInv, LoadedInv, Leaving
  <1>3. ASSUME NEW f \in Calls(t), f.op = "kick"
        PROVE  /\ f.room \in Room /\ f.room \in rooms
               /\ room[f.room].status = "loading" =>
                    \A i \in room[f.room].is_online : i < f.seat =>
                        i \in room[f.room].is_loading_succeed \/ (room[f.room].players[i] = u /\ u \in User /\ belong[u] = f.room)
    <2>1. f.room \in Room /\ f.room \in rooms
      BY <1>1, <1>3 DEF SafeFrame, Frame, RoomOp, Room
    <2>2. ASSUME NEW w, UserCall("deleteClient", 0, w) \in Calls(stack) PROVE w = u
      <3>1. UserCall("deleteClient", 0, w).op = "deleteClient" /\ UserCall("deleteClient", 0, w).user = w
        BY DEF UserCall, Call
      <3> QED BY <1>1, <2>2, <3>1
    <2>3. CallLoaded(f, room, Calls(stack))
      BY <1>1 DEF LInv, CallsLoaded
    <2>4. Seated(room[f.room], f.room, belong)
      BY <2>1 DEF TInv, SeatsInv
    <2> QED BY <1>3, <2>1, <2>2, <2>3, <2>4 DEF CallLoaded, Seated
  <1>4. Apart(p) /\ Calls(<<p>> \o t) = {p} \cup Calls(t)
    BY <1>1, CallsOf1 DEF Apart, UserCall, Call
  <1>5. CASE ~(u \in sess /\ person[u] = "room" /\ r # 0)
    <2>1. room' = room /\ (stack' = t \/ stack' = <<p>> \o t)
      BY <1>5 DEF DoDeleteClient, DeletePlayerFromRoom
    <2>2. u \in User => belong[u] = 0
      BY <1>5 DEF TInv, UsersInv
    <2>3. LoadedInv'
      BY <1>2, <2>1 DEF LoadedInv
    <2>4. ASSUME NEW f \in Calls(t) PROVE CallLoaded(f, room, Calls(stack'))
      <3>1. CASE f.op = "kick"
        BY <1>3, <2>2, <3>1 DEF CallLoaded, Room
      <3>2. CASE f.op # "kick"
        BY <1>1, <3>2, ApartLoaded DEF Apart
      <3> QED BY <3>1, <3>2
    <2> HIDE DEF p, t
    <2>5. CallsLoaded'
      BY <1>4, <2>1, <2>4, ApartLoaded DEF CallsLoaded
    <2> QED BY <2>3, <2>5 DEF LInv
  <1>6. CASE u \in sess /\ person[u] = "room" /\ r # 0
    <2>1. u \in User
      BY <1>6 DEF IInv, TypeOK
    <2>2. /\ r \in Room /\ r \in rooms /\ pos # 0 /\ room[r] \in RoomRec /\ CountsOf(room[r])
          /\ pos \in SeatsOf(room[r], u)
      BY <1>6, <2>1, MemberFound
    <2>3. PICK x : x = DeletePlayer(room[r], pos)
      OBVIOUS
    <2>4. room' = [room EXCEPT ![r] = x] /\ stack' = DeletePlayerCalls(r, u, pos) \o (<<p>> \o t)
      BY <1>6, <2>2, <2>3 DEF DoDeleteClient, DeletePlayerFromRoom
    <2>5. PICK f, g, k, l : /\ f = Everyone(r, LeaveDetail(r, pos)) /\ g = UserCall("leftWaiting", 0, u)
                            /\ k = Everyone(r, ExitGameMsg(pos)) /\ l = SeatCall("leftLoading", r, pos)
      OBVIOUS
    <2>6. /\ Apart(f) /\ Apart(g) /\ Apart(k)
          /\ l.op = "leftLoading" /\ l.room = r /\ l.seat = pos
      BY <2>5 DEF Apart, Everyone, UserCall, SeatCall, Call
    <2>7. \/ room[r].status = "waiting" /\ stack' = <<f, g>> \o (<<p>> \o t)
          \/ room[r].status = "loading" /\ stack' = <<k, l>> \o (<<p>> \o t)
          \/ room[r].status = "ingame" /\ stack' = <<>> \o (<<p>> \o t)
      BY <2>2, <2>4, <2>5 DEF DeletePlayerCalls, RoomRec, Status
    <2> HIDE DEF p, t
    <2>8. <<p>> \o t \in Seq(Frame \cup {p})
      <3>1. t \in Seq(Frame \cup {p}) /\ p \in Frame \cup {p}
        BY <1>1
      <3> QED BY <3>1, Push
    <2>9. /\ Calls(<<f, g>> \o (<<p>> \o t)) = {f, g} \cup ({p} \cup Calls(t))
          /\ Calls(<<k, l>> \o (<<p>> \o t)) = {k, l} \cup ({p} \cup Calls(t))
          /\ <<>> \o (<<p>> \o t) = <<p>> \o t
      <3>1. PICK e : e = <<p>> \o t /\ e \in Seq(Frame \cup {p})
        BY <2>8
      <3>2. /\ Calls(<<f, g>> \o e) = {f, g} \cup Calls(e)
            /\ Calls(<<k, l>> \o e) = {k, l} \cup Calls(e)
        BY <3>1, CallsOf2
      <3>3. <<>> \o e = e
        BY <3>1
      <3> QED BY <1>4, <3>1, <3>2, <3>3
    <2>10. /\ \A z \in Calls(stack') : z \in Calls(t) \/ Apart(z) \/ (z = l /\ room[r].status = "loading")
           /\ room[r].status = "loading" => l \in Calls(stack')
      BY <1>4, <2>6, <2>7, <2>9
    <2>11. \A s \in Room : room'[s] = IF s = r THEN x ELSE room[s]
      BY <2>4 DEF IInv, TypeOK
    <2>12. /\ x.status = room[r].status
           /\ room[r].status = "loading" =>
                /\ x.players = room[r].players /\ x.is_online = room[r].is_online \ {pos}
                /\ x.is_loading_succeed = room[r].is_loading_succeed
      <3>1. CASE room[r].status = "waiting"
        BY <2>2, <2>3, <3>1 DEF DeletePlayer, ShiftSeats, RoomRec
      <3>2. CASE room[r].status # "waiting"
        BY <2>2, <2>3, <3>2 DEF DeletePlayer, SeatOffline, RoomRec
      <3> QED BY <3>1, <3>2
    <2>13. LoadedInv'
      <3> SUFFICES ASSUME NEW s \in Room, room'[s].status = "loading", NEW i \in room'[s].is_loading_succeed
                   PROVE  i \in room'[s].is_online \/ Leaving(s, i, Calls(stack'))
        BY DEF LoadedInv
      <3>1. CASE s # r
        BY <1>2, <2>11, <3>1
      <3>2. CASE s = r
        BY <1>2, <2>6, <2>10, <2>11, <2>12, <3>2 DEF Leaving
      <3> QED BY <3>1, <3>2
    <2>14. ASSUME NEW z \in Calls(t) PROVE CallLoaded(z, room', Calls(stack'))
      <3>1. CASE z.op # "kick"
        BY <1>1, <3>1, ApartLoaded DEF Apart
      <3>2. CASE z.op = "kick"
        <4>1. \A i \in room[r].is_online : room[r].players[i] = u => i = pos
          <5>1. Seated(room[r], r, belong) /\ pos \in room[r].is_online /\ room[r].players[pos] = u
            BY <2>2 DEF TInv, SeatsInv, SeatsOf
          <5> QED BY <5>1 DEF Seated
        <4>2. CASE z.room = r
          <5>1. room'[r] = x /\ r \in Room
            BY <1>3, <2>11, <3>2, <4>2
          <5>2. ASSUME x.status = "loading", NEW i \in x.is_online, i < z.seat
                PROVE  i \in x.is_loading_succeed
            <6> HIDE DEF r, pos, u
            <6>1. /\ room[r].status = "loading" /\ i \in room[r].is_online /\ i # pos
                  /\ x.is_loading_succeed = room[r].is_loading_succeed
              BY <2>12, <5>2
            <6>2. i \in room[r].is_loading_succeed \/ room[r].players[i] = u
              BY <1>3, <3>2, <4>2, <5>2, <6>1
            <6> QED BY <4>1, <6>1, <6>2
          <5> HIDE DEF r
          <5> QED BY <3>2, <4>2, <5>1, <5>2 DEF CallLoaded
        <4>3. CASE z.room # r
          BY <1>3, <2>11, <3>2, <4>3 DEF CallLoaded
        <4> QED BY <4>2, <4>3
      <3> QED BY <3>1, <3>2
    <2>15. room[r].status = "loading" => CallLoaded(l, room', Calls(stack'))
      BY <2>2, <2>6, <2>11, <2>12 DEF CallLoaded
    <2>16. CallsLoaded'
      BY <2>10, <2>14, <2>15, ApartLoaded DEF CallsLoaded
    <2> QED BY <2>13, <2>16 DEF LInv
  <1> QED BY <1>5, <1>6

\* Where only players of the room count as loaded, the test that starts a game
\* finds that all of them are.
LEMMA AllLoaded ==
    ASSUME NEW q \in RoomRec, CountsOf(q), q.status = "loading",
           q.is_loading_succeed \subseteq q.is_online, EveryoneLoaded(q)
    PROVE  q.is_online \subseteq q.is_loading_succeed
  <1>1. PICK on, ld : on = q.is_online /\ ld = q.is_loading_succeed
    OBVIOUS
  <1>2. IsFiniteSet(on) /\ ld \subseteq on
    BY <1>1, SeatsFinite DEF RoomRec
  <1>3. IsFiniteSet(ld) /\ Cardinality(ld) <= Cardinality(on)
    BY <1>2, FS_Subset
  <1>4. Cardinality(ld) \in Nat /\ Cardinality(on) \in Nat
    BY <1>2, <1>3, FS_CardinalityType
  <1>5. Cardinality(ld) >= Cardinality(on)
    BY <1>1 DEF EveryoneLoaded, CountsOf
  <1>6. Cardinality(ld) = Cardinality(on)
    BY <1>3, <1>4, <1>5
  <1>7. ld = on
    BY <1>2, <1>6, FS_Subset
  <1> QED BY <1>1, <1>7

\* What waits for the end of a broadcast's room part: no second deletion from a
\* loading room, and no start of a game.
LEMMA UnderSecond ==
    ASSUME IInv, Sorted(stack), NEW op, Top(op), op \in {"leftLoading", "startSet", "gameStart"}
    PROVE  /\ Tail(stack) \in Seq(Frame) /\ Calls(stack) = {Head(stack)} \cup Calls(Tail(stack))
           /\ Head(stack).op = op
           /\ \A f \in Calls(Tail(stack)) :
                /\ f.op \in {"onTick", "kick", "everyone", "deleteClient", "personGone"}
                /\ f.op = "everyone" => f.msg.id = "SCPlayerExitRoom"
                /\ f \in Frame /\ f \in Calls(stack)
  <1> DEFINE h == Head(stack)
             t == Tail(stack)
  <1>1. stack # <<>> /\ t \in Seq(Frame) /\ Calls(stack) = {h} \cup Calls(t) /\ h.op = op
    BY Pop, CallsOfTop DEF Top, IInv, TypeOK
  <1>2. \A f \in Calls(t) : Rank(h) < Rank(f)
    BY <1>1, SortedTop
  <1>3. Rank(h) = 2
    BY <1>1 DEF Rank
  <1>4. \A f : \/ Rank(f) \in {1, 2}
               \/ /\ f.op \in {"onTick", "kick", "everyone", "deleteClient", "personGone"}
                  /\ f.op = "everyone" => f.msg.id = "SCPlayerExitRoom"
    BY DEF Rank
  <1>5. ASSUME NEW f \in Calls(t)
        PROVE  /\ f.op \in {"onTick", "kick", "everyone", "deleteClient", "personGone"}
               /\ f.op = "everyone" => f.msg.id = "SCPlayerExitRoom"
    <2>1. 2 < Rank(f)
      BY <1>2, <1>3
    <2>2. Rank(f) \notin {1, 2}
      BY <2>1
    <2> QED BY <1>4, <2>2
  <1>6. \A f \in Calls(t) : f \in Frame /\ f \in Calls(stack)
    BY <1>1 DEF Calls
  <1> QED BY <1>1, <1>5, <1>6

\* Room::DeletePlayer, end of the loading case
LEMMA LoadedLeft ==
    ASSUME IInv, Sorted(stack), LInv, DoLeftLoading
    PROVE  LInv'
  <1> DEFINE h == Head(stack)
             r == h.room
             q == room[r]
             t == Tail(stack)
             g == RoomCall("gameStart", r)
  <1>1. /\ t \in Seq(Frame) /\ Calls(stack) = {h} \cup Calls(t) /\ h.op = "leftLoading"
        /\ \A f \in Calls(t) : /\ f.op \in {"onTick", "kick", "everyone", "deleteClient", "personGone"}
                               /\ f \in Frame /\ f \in Calls(stack)
    BY UnderSecond DEF DoLeftLoading
  <1>2. r \in Room /\ q \in RoomRec /\ CountsOf(q)
    BY TopRoom DEF DoLeftLoading, RoomOp
  <1>3. h.seat \notin q.is_online
    BY <1>1 DEF LInv, CallsLoaded, CallLoaded
  <1>4. ASSUME NEW s \in Room, room[s].status = "loading", NEW i \in room[s].is_loading_succeed
        PROVE  i \in room[s].is_online \/ (s = r /\ i = h.seat)
    BY <1>1, <1>4 DEF LInv, LoadedInv, Leaving
  <1>5. \A w : UserCall("deleteClient", 0, w) \in Calls(stack) => UserCall("deleteClient", 0, w) \in Calls(t)
    BY <1>1 DEF UserCall, Call
  <1>6. CASE h.seat \in q.is_loading_succeed
    <2>1. PICK x : x = [q EXCEPT !.is_loading_succeed = q.is_loading_succeed \ {h.seat},
                                 !.loading_succeed_cnt = q.loading_succeed_cnt - 1]
      OBVIOUS
    <2>2. room' = [room EXCEPT ![r] = x] /\ stack' = t
      BY <1>6, <2>1 DEF DoLeftLoading
    <2>3. /\ x.players = q.players /\ x.is_online = q.is_online /\ x.status = q.status
          /\ x.is_loading_succeed = q.is_loading_succeed \ {h.seat}
      BY <1>2, <2>1 DEF RoomRec
    <2>4. \A s \in Room : room'[s] = IF s = r THEN x ELSE room[s]
      BY <2>2 DEF IInv, TypeOK
    <2>5. LoadedInv'
      <3> HIDE DEF h, q
      <3> QED BY <1>4, <2>3, <2>4 DEF LoadedInv, q
    <2>6. ASSUME NEW f \in Calls(t) PROVE CallLoaded(f, room', Calls(t))
      <3>1. CASE f.op # "kick"
        BY <1>1, <3>1, ApartLoaded DEF Apart
      <3>2. CASE f.op = "kick"
        <4>1. CallLoaded(f, room, Calls(stack)) /\ f.room \in Room
          BY <1>1, <3>2 DEF LInv, CallsLoaded, Frame, RoomOp
        <4>2. CASE f.room = r
          BY <1>3, <1>5, <2>3, <2>4, <3>2, <4>1, <4>2 DEF CallLoaded
        <4>3. CASE f.room # r
          BY <1>5, <2>4, <3>2, <4>1, <4>3 DEF CallLoaded
        <4> QED BY <4>2, <4>3
      <3> QED BY <3>1, <3>2
    <2>7. CallsLoaded'
      BY <2>2, <2>6 DEF CallsLoaded
    <2> QED BY <2>5, <2>7 DEF LInv
  <1>7. CASE h.seat \notin q.is_loading_succeed
    <2>1. room' = room /\ stack' = IF EveryoneLoaded(q) THEN <<g>> \o t ELSE t
      BY <1>7 DEF DoLeftLoading
    <2>2. LoadedInv'
      <3> HIDE DEF h
      <3> QED BY <1>4, <1>7, <2>1 DEF LoadedInv
    <2>3. \A S : EveryoneLoaded(q) => CallLoaded(g, room, S)
      <3>1. g.op = "gameStart" /\ g.room = r
        BY DEF RoomCall, Call
      <3>2. q.status = "loading" => q.is_loading_succeed \subseteq q.is_online
        BY <1>2, <1>4, <1>7
      <3>3. q.status = "loading" /\ EveryoneLoaded(q) => q.is_online \subseteq q.is_loading_succeed
        BY <1>2, <3>2, AllLoaded
      <3> HIDE DEF g
      <3> QED BY <3>1, <3>3 DEF CallLoaded
    <2>4. Calls(<<g>> \o t) = {g} \cup Calls(t)
      BY <1>1, CallsOf1
    <2>5. Calls(t) \subseteq Calls(stack')
      BY <2>1, <2>4
    <2>6. ASSUME NEW f \in Calls(t) PROVE CallLoaded(f, room, Calls(stack'))
      <3>1. CASE f.op # "kick"
        BY <1>1, <3>1, ApartLoaded DEF Apart
      <3>2. CASE f.op = "kick"
        <4>1. CallLoaded(f, room, Calls(stack))
          BY <1>1 DEF LInv, CallsLoaded
        <4> QED BY <1>5, <2>5, <3>2, <4>1 DEF CallLoaded
      <3> QED BY <3>1, <3>2
    <2> HIDE DEF g, h, t, q
    <2>7. CallsLoaded'
      BY <2>1, <2>3, <2>4, <2>6 DEF CallsLoaded
    <2> QED BY <2>2, <2>7 DEF LInv
  <1> QED BY <1>6, <1>7

\* The ends of SendGameLoading, SendGameStart and GameEndFromRoom
LEMMA LoadedEnds ==
    ASSUME IInv, Sorted(stack), TInv, LInv, DoLoadingSet \/ DoStartSet \/ DoGameEndFrom
    PROVE  LInv'
  <1> DEFINE h == Head(stack)
             r == h.room
             t == Tail(stack)
  <1>1. CASE DoLoadingSet
    <2>1. stack \in Seq(Frame) /\ stack # <<>> /\ h.op = "loadingSet" /\ stack' = t
      BY <1>1 DEF DoLoadingSet, Top, IInv, TypeOK
    <2>2. stack' = <<>> /\ Calls(stack) = {h} \cup Calls(t)
      BY <2>1, PopOne, CallsOfTop DEF TInv, EndInv, LastOp
    <2>3. Calls(stack) = {h} /\ Calls(stack') = {}
      BY <2>1, <2>2, CallsOfShort
    <2>4. r \in Room /\ room[r] \in RoomRec
      BY <1>1, TopRoom DEF DoLoadingSet, RoomOp
    <2>5. PICK x : x = LoadingRoom(room[r]) /\ room' = [room EXCEPT ![r] = x]
      BY <1>1 DEF DoLoadingSet
    <2>6. x.is_loading_succeed = {}
      BY <2>4, <2>5 DEF LoadingRoom, RoomRec
    <2> QED BY <2>1, <2>3, <2>4, <2>5, <2>6, LoadedOther
  <1>2. CASE DoGameEndFrom
    <2> DEFINE u == h.user
               s == belong[u]
               pos == GetPlayerID(room[s], u)
    <2>1. stack \in Seq(Frame) /\ stack # <<>> /\ h.op = "gameEndFrom" /\ stack' = t /\ u \in User
      BY <1>2, RestOK DEF DoGameEndFrom, Top, IInv, TypeOK, Frame, UserOp
    <2>2. stack' = <<>> /\ Calls(stack) = {h} \cup Calls(t) /\ u \in OnStack("gameEndFrom", stack)
      BY <2>1, PopOne, CallsOfTop DEF TInv, EndInv, LastOp
    <2>3. Calls(stack) = {h} /\ Calls(stack') = {}
      BY <2>1, <2>2, CallsOfShort
    <2>4. CASE s = 0
      <3>1. room' = room
        BY <1>2, <2>4 DEF DoGameEndFrom
      <3> QED BY <2>1, <2>3, <3>1, LoadedSame
    <2>5. CASE s # 0
      <3>1. s \in Room /\ room[s] \in RoomRec /\ pos # 0
        BY <2>1, <2>5, MemberFound
      <3>2. room[s].status = "ingame"
        BY <2>1, <2>2, <2>5 DEF TInv, EndInv
      <3>3. PICK x : x = SeatOffline(room[s], pos) /\ room' = [room EXCEPT ![s] = x]
        BY <1>2, <2>5, <3>1, <3>2 DEF DoGameEndFrom
      <3>4. x.status = "ingame"
        BY <3>1, <3>2, <3>3 DEF SeatOffline, RoomRec
      <3> QED BY <2>1, <2>3, <3>1, <3>3, <3>4, LoadedOther
    <2> QED BY <2>4, <2>5
  <1>3. CASE DoStartSet
    <2>1. /\ t \in Seq(Frame) /\ Calls(stack) = {h} \cup Calls(t) /\ h.op = "startSet"
          /\ \A f \in Calls(t) : /\ f.op \in {"onTick", "kick", "everyone", "deleteClient", "personGone"}
                                 /\ f \in Frame /\ f \in Calls(stack)
      BY <1>3, UnderSecond DEF DoStartSet
    <2>2. r \in Room /\ room[r] \in RoomRec
      BY <1>3, TopRoom DEF DoStartSet, RoomOp
    <2>3. PICK x : x = [room[r] EXCEPT !.status = "ingame"] /\ room' = [room EXCEPT ![r] = x]
      BY <1>3 DEF DoStartSet
    <2>4. x.status = "ingame" /\ stack' = t
      BY <1>3, <2>2, <2>3 DEF RoomRec, DoStartSet
    <2>5. \A s \in Room : room'[s] = IF s = r THEN x ELSE room[s]
      BY <2>3 DEF IInv, TypeOK
    <2>6. \A w : UserCall("deleteClient", 0, w) \in Calls(stack) => UserCall("deleteClient", 0, w) \in Calls(t)
      BY <2>1 DEF UserCall, Call
    <2>7. ASSUME NEW f \in Calls(t) PROVE CallLoaded(f, room', Calls(t))
      <3>1. CASE f.op # "kick"
        BY <2>1, <3>1, ApartLoaded DEF Apart
      <3>2. CASE f.op = "kick"
        <4>1. CallLoaded(f, room, Calls(stack)) /\ f.room \in Room
          BY <2>1, <3>2 DEF LInv, CallsLoaded, Frame, RoomOp
        <4>2. CASE f.room = r
          BY <2>4, <2>5, <3>2, <4>1, <4>2 DEF CallLoaded
        <4>3. CASE f.room # r
          BY <2>5, <2>6, <3>2, <4>1, <4>3 DEF CallLoaded
        <4> QED BY <4>2, <4>3
      <3> QED BY <3>1, <3>2
    <2>8. \A f \in Calls(stack) : f.op # "leftLoading"
      BY <2>1
    <2>9. \A f \in Calls(stack') : CallLoaded(f, room', Calls(stack'))
      BY <2>4, <2>7
    <2> QED BY <2>2, <2>3, <2>4, <2>8, <2>9, LoadedOther
  <1> QED BY <1>1, <1>2, <1>3

\* A handler, or the tick, begins: the rooms that load stay as they are.
LEMMA LoadedIdle ==
    ASSUME IInv, LInv, stack = <<>>, NEW s \in Room, NEW x, room' = [room EXCEPT ![s] = x],
           x.status = "loading" => /\ x.players = room[s].players /\ x.is_online = room[s].is_online
                                   /\ x.is_loading_succeed = room[s].is_loading_succeed
                                   /\ room[s].status = "loading",
           \A f \in Calls(stack') : Apart(f)
    PROVE  LInv'
  <1>1. Calls(stack) = {}
    BY CallsOfShort
  <1>2. x.status = "loading" => x.is_loading_succeed \subseteq x.is_online
    BY <1>1 DEF LInv, LoadedInv, Leaving
  <1>3. \A f \in Calls(stack') : CallLoaded(f, room', Calls(stack'))
    BY ApartLoaded
  <1> QED BY <1>1, <1>2, <1>3, LoadedOther

\* The calls a handler or the tick begins with, but for the start of a game
LEMMA ApartCalls ==
    /\ Calls(<<>>) = {}
    /\ \A u, m : \A f \in Calls(<<Send(u, m)>>) : Apart(f)
    /\ \A r, m : \A f \in Calls(<<Everyone(r, m)>>) : Apart(f)
    /\ \A u : \A f \in Calls(<<UserCall("deleteClient", 0, u)>>) : Apart(f)
    /\ \A r : \A f \in Calls(<<RoomCall("onTick", r)>>) : Apart(f)
    /\ \A u, m, r : \A f \in Calls(<<Send(u, m), UserCall("createDetail", r, u)>>) : Apart(f)
    /\ \A u, m, r : \A f \in Calls(<<Send(u, m), RoomCall("joinDetail", r)>>) : Apart(f)
    /\ \A u, m : \A f \in Calls(<<Send(u, m), UserCall("gameEndFrom", 0, u)>>) : Apart(f)
    /\ \A r, m : \A f \in Calls(<<Everyone(r, m), RoomCall("loadingSet", r)>>) : Apart(f)
  <1>1. /\ \A u, m : Apart(Send(u, m)) /\ Apart(UserCall("deleteClient", 0, u)) /\ Apart(UserCall("gameEndFrom", 0, u))
        /\ \A u, r : Apart(UserCall("createDetail", r, u))
        /\ \A r, m : Apart(Everyone(r, m))
        /\ \A r : Apart(RoomCall("onTick", r)) /\ Apart(RoomCall("joinDetail", r)) /\ Apart(RoomCall("loadingSet", r))
    BY DEF Apart, Send, UserCall, RoomCall, Everyone, Call
  <1>2. /\ \A f, g : Apart(f) => \A k \in Calls(<<f>>) : Apart(k)
        /\ \A f, g : Apart(f) /\ Apart(g) => \A k \in Calls(<<f, g>>) : Apart(k)
    BY CallsOfShort
  <1>3. /\ \A u, m : \A f \in Calls(<<Send(u, m)>>) : Apart(f)
        /\ \A r, m : \A f \in Calls(<<Everyone(r, m)>>) : Apart(f)
        /\ \A u : \A f \in Calls(<<UserCall("deleteClient", 0, u)>>) : Apart(f)
        /\ \A r : \A f \in Calls(<<RoomCall("onTick", r)>>) : Apart(f)
    BY <1>1, <1>2, Zenon
  <1>4. \A u, m, r : \A f \in Calls(<<Send(u, m), UserCall("createDetail", r, u)>>) : Apart(f)
    BY <1>1, <1>2, Zenon
  <1>5. \A u, m, r : \A f \in Calls(<<Send(u, m), RoomCall("joinDetail", r)>>) : Apart(f)
    BY <1>1, <1>2, Zenon
  <1>6. \A u, m : \A f \in Calls(<<Send(u, m), UserCall("gameEndFrom", 0, u)>>) : Apart(f)
    BY <1>1, <1>2, Zenon
  <1>7. \A r, m : \A f \in Calls(<<Everyone(r, m), RoomCall("loadingSet", r)>>) : Apart(f)
    BY <1>1, <1>2, Zenon
  <1> QED BY <1>3, <1>4, <1>5, <1>6, <1>7, CallsOfShort

\* The handlers that change no seat of a room
LEMMA LoadedHandlers ==
    ASSUME IInv, LInv, NEW u \in User, NEW m, NEW r, NEW v,
           \/ CSLogin(u) \/ Disconnect(u) \/ CSPullAllRoomInfo(u) \/ CSReadyToStart(u) \/ CSGameEnd(u)
           \/ CSJoinRoom(u, r) /\ ~CanJoin(u, r)
           \/ CSCreateRoom(u, m) /\ belong[u] # 0
           \/ CSChangeTeam(u, v) \/ CSChangeOption(u, v)
    PROVE  LInv'
  <1> USE DEF Serve, Idle
  <1> DEFINE b == belong[u]
  <1>1. stack = <<>>
    BY DEF CSLogin, Disconnect, CSPullAllRoomInfo, CSReadyToStart, CSGameEnd, CSJoinRoom, CSCreateRoom,
           CSChangeTeam, CSChangeOption
  <1>2. \A s \in Room : room[s] \in RoomRec
    BY DEF IInv, TypeOK
  <1>3. b # 0 => b \in Room
    BY MemberFound
  <1>4. CASE room' = room /\ \A f \in Calls(stack') : Apart(f)
    <2>1. \A f \in Calls(stack') : CallLoaded(f, room', Calls(stack'))
      BY <1>4, ApartLoaded
    <2>2. Calls(stack) = {}
      BY <1>1, CallsOfShort
    <2> QED BY <1>4, <2>1, <2>2, LoadedSame
  <1>5. CASE CSLogin(u) \/ Disconnect(u) \/ CSPullAllRoomInfo(u)
    <2>1. room' = room /\ (\/ \E e : stack' = <<Send(u, e)>>
                           \/ stack' = <<UserCall("deleteClient", 0, u)>>)
      BY <1>5 DEF CSLogin, Disconnect, CSPullAllRoomInfo
    <2> QED BY <1>4, <2>1, ApartCalls
  <1>6. CASE CSReadyToStart(u) \/ CSGameEnd(u)
    <2>1. room' = room /\ (\/ \E e : stack' = <<Everyone(b, e), RoomCall("loadingSet", b)>>
                           \/ \E e : stack' = <<Send(u, e), UserCall("gameEndFrom", 0, u)>>)
      BY <1>6 DEF CSReadyToStart, CSGameEnd
    <2> QED BY <1>4, <2>1, ApartCalls
  <1>7. CASE (CSJoinRoom(u, r) /\ ~CanJoin(u, r)) \/ (CSCreateRoom(u, m) /\ belong[u] # 0)
    <2>1. room' = room /\ \E e : stack' = <<Send(u, e)>>
      BY <1>7 DEF CSJoinRoom, CSCreateRoom
    <2> QED BY <1>4, <2>1, ApartCalls
  <1>8. CASE CSChangeTeam(u, v) \/ CSChangeOption(u, v)
    <2>1. PICK x : /\ b # 0 /\ room' = [room EXCEPT ![b] = x]
                   /\ (\E a : x = [room[b] EXCEPT !.team_id = a]) \/ x = room[b]
                      \/ x = [room[b] EXCEPT !.game_option = v]
      BY <1>8 DEF CSChangeTeam, CSChangeOption
    <2>2. /\ x.players = room[b].players /\ x.is_online = room[b].is_online
          /\ x.is_loading_succeed = room[b].is_loading_succeed /\ x.status = room[b].status
      BY <1>2, <1>3, <2>1 DEF RoomRec
    <2>3. \E e : stack' = <<Everyone(b, e)>>
      BY <1>8 DEF CSChangeTeam, CSChangeOption
    <2>4. \A f \in Calls(stack') : Apart(f)
      BY <2>3, ApartCalls
    <2> QED BY <1>1, <1>3, <2>1, <2>2, <2>4, LoadedIdle
  <1> QED BY <1>5, <1>6, <1>7, <1>8

\* Somebody enters or leaves a waiting room.
LEMMA LoadedWaiting ==
    ASSUME IInv, LInv, NEW u \in User, NEW m, NEW s,
           \/ CSJoinRoom(u, s) /\ CanJoin(u, s)
           \/ CSCreateRoom(u, m) /\ belong[u] = 0
           \/ CSPlayerExitRoom(u)
    PROVE  LInv'
  <1> USE DEF Serve, Idle
  <1>1. stack = <<>> /\ Calls(stack) = {}
    BY CallsOfShort DEF CSJoinRoom, CSCreateRoom, CSPlayerExitRoom
  <1>2. CASE CSJoinRoom(u, s) /\ CanJoin(u, s)
    <2>1. PICK x : x = AddPlayer(room[s], u) /\ room' = [room EXCEPT ![s] = x]
      BY <1>2 DEF CSJoinRoom
    <2>2. x.status = "waiting" /\ s \in Room
      BY <1>2, <2>1 DEF CanJoin, AddPlayer, RoomRec, IInv, TypeOK
    <2>3. stack' = <<Send(u, Message("SCJoinRoom")), RoomCall("joinDetail", s)>>
      BY <1>2 DEF CSJoinRoom
    <2>4. \A f \in Calls(stack') : Apart(f)
      BY <2>3, ApartCalls
    <2> QED BY <1>1, <2>1, <2>2, <2>4, LoadedIdle
  <1>3. CASE CSCreateRoom(u, m) /\ belong[u] = 0
    <2>1. PICK r : r = IF freeRoom # <<>> THEN Head(freeRoom) ELSE nextRoom
      OBVIOUS
    <2>2. PICK x : x = AddPlayer(InitRoom(room[r], m), u) /\ room' = [room EXCEPT ![r] = x]
      BY <1>3, <2>1 DEF CSCreateRoom
    <2>3. stack' = <<Send(u, Message("SCCreateRoom")), UserCall("createDetail", r, u)>>
      BY <1>3, <2>1 DEF CSCreateRoom
    <2>4. x.status = "waiting"
      BY <2>2 DEF AddPlayer, InitRoom
    <2>5. r \in Room
      <3>1. freeRoom \in Seq(Room) /\ nextRoom \in 1..MaxRoom + 1 /\ (freeRoom # <<>> \/ nextRoom <= MaxRoom)
        BY <1>3 DEF IInv, TypeOK, CSCreateRoom
      <3>2. CASE freeRoom # <<>>
        BY <2>1, <3>1, <3>2
      <3>3. CASE freeRoom = <<>>
        BY <2>1, <3>1, <3>3, ConstantsAssumption DEF Room
      <3> QED BY <3>2, <3>3
    <2>6. \A f \in Calls(stack') : Apart(f)
      BY <2>3, ApartCalls
    <2> QED BY <1>1, <2>2, <2>4, <2>5, <2>6, LoadedIdle
  <1>4. CASE CSPlayerExitRoom(u)
    <2> DEFINE r == belong[u]
               pos == GetPlayerID(room[r], u)
    <2>1. PICK f, g, h : /\ f = Everyone(r, LeaveDetail(r, pos)) /\ g = UserCall("leftWaiting", 0, u)
                         /\ h = Everyone(r, Message("SCPlayerExitRoom"))
      OBVIOUS
    <2>2. Apart(f) /\ Apart(g) /\ Apart(h)
      BY <2>1 DEF Apart, Everyone, UserCall, Call
    <2>3. Calls(<<h>>) = {h} /\ Calls(<<f, g>> \o <<h>>) = {f, g} \cup {h}
      <3>1. PICK e : e = <<h>>
        OBVIOUS
      <3>2. e \in Seq({h}) /\ Calls(e) = {h}
        BY <3>1, CallsOfShort
      <3>3. Calls(<<f, g>> \o e) = {f, g} \cup Calls(e)
        BY <3>2, CallsOf2
      <3> QED BY <3>1, <3>2, <3>3
    <2>4. CASE ~(r # 0 /\ room[r].status = "waiting")
      <3>1. room' = room /\ (stack' = stack \/ stack' = <<h>>)
        BY <1>4, <2>1, <2>4 DEF CSPlayerExitRoom
      <3>2. \A k \in Calls(stack') : CallLoaded(k, room', Calls(stack'))
        BY <1>1, <2>2, <2>3, <3>1, ApartLoaded
      <3> QED BY <1>1, <3>1, <3>2, LoadedSame
    <2>5. CASE r # 0 /\ room[r].status = "waiting"
      <3>1. r \in Room /\ room[r] \in RoomRec /\ pos # 0
        BY <2>5, MemberFound
      <3>2. PICK x : x = ShiftSeats(room[r], pos) /\ room' = [room EXCEPT ![r] = x]
        BY <1>4, <2>5, <3>1 DEF CSPlayerExitRoom, DeletePlayerFromRoom, DeletePlayer
      <3>3. x.status = "waiting"
        BY <2>5, <3>1, <3>2 DEF ShiftSeats, RoomRec
      <3>4. stack' = <<f, g>> \o <<h>>
        BY <1>4, <2>1, <2>5, <3>1 DEF CSPlayerExitRoom, DeletePlayerFromRoom, DeletePlayerCalls
      <3>5. \A k \in Calls(stack') : Apart(k)
        BY <2>2, <2>3, <3>4
      <3> QED BY <1>1, <3>1, <3>2, <3>3, <3>5, LoadedIdle
    <2> QED BY <2>4, <2>5
  <1> QED BY <1>2, <1>3, <1>4

\* MP_CSLoadSucceed starts the game when the last player of the room has loaded.
LEMMA LoadedSucceed ==
    ASSUME IInv, IInv', LInv, NEW u \in User, CSLoadSucceed(u)
    PROVE  LInv'
  <1> DEFINE r == belong[u]
             pos == GetPlayerID(room[r], u)
  <1>1. stack = <<>> /\ Calls(stack) = {} /\ r # 0
    BY CallsOfShort DEF CSLoadSucceed, Serve, Idle
  <1>2. r \in Room /\ room[r] \in RoomRec /\ CountsOf(room[r]) /\ pos \in SeatsOf(room[r], u)
    BY <1>1, MemberFound
  <1>3. PICK x : x = [room[r] EXCEPT !.is_loading_succeed = room[r].is_loading_succeed \cup {pos},
                                     !.loading_succeed_cnt = room[r].loading_succeed_cnt + 1]
    OBVIOUS
  <1>4. PICK g : g = RoomCall("gameStart", r)
    OBVIOUS
  <1>5. room' = [room EXCEPT ![r] = x] /\ stack' = (IF EveryoneLoaded(x) THEN <<g>> ELSE <<>>)
        /\ room[r].status = "loading"
    BY <1>3, <1>4 DEF CSLoadSucceed, Serve
  <1>6. /\ x.is_online = room[r].is_online /\ x.status = "loading"
        /\ x.is_loading_succeed = room[r].is_loading_succeed \cup {pos}
    BY <1>2, <1>3, <1>5 DEF RoomRec
  <1>7. x.is_loading_succeed \subseteq x.is_online
    <2>1. room[r].is_loading_succeed \subseteq room[r].is_online
      BY <1>1, <1>2, <1>5 DEF LInv, LoadedInv, Leaving
    <2>2. pos \in room[r].is_online
      BY <1>2 DEF SeatsOf
    <2> QED BY <1>6, <2>1, <2>2
  <1>8. \A f \in Calls(stack') : CallLoaded(f, room', Calls(stack'))
    <2>1. CASE EveryoneLoaded(x)
      <3>1. room'[r] = x
        BY <1>2, <1>5 DEF IInv, TypeOK
      <3>2. x \in RoomRec /\ CountsOf(x)
        <4>1. room'[r] \in RoomRec /\ CountsOf(room'[r])
          BY <1>2 DEF IInv, TypeOK, RoomCounts
        <4> QED BY <3>1, <4>1
      <3>3. x.is_online \subseteq x.is_loading_succeed
        BY <1>6, <1>7, <2>1, <3>2, AllLoaded
      <3>4. g.op = "gameStart" /\ g.room = r
        BY <1>4 DEF RoomCall, Call
      <3>5. \A S : CallLoaded(g, room', S)
        BY <3>1, <3>3, <3>4 DEF CallLoaded
      <3>6. Calls(stack') = {g}
        BY <1>5, <2>1, CallsOfShort
      <3> QED BY <3>5, <3>6
    <2>2. CASE ~EveryoneLoaded(x)
      BY <1>5, <2>2, CallsOfShort
    <2> QED BY <2>1, <2>2
  <1> QED BY <1>1, <1>2, <1>5, <1>7, <1>8, LoadedOther

\* The tick of the main loop
LEMMA LoadedTicks ==
    ASSUME IInv, LInv, Return \/ Tick \/ TickNext
    PROVE  LInv'
  <1>1. stack = <<>> /\ Calls(stack) = {}
    BY CallsOfShort DEF Return, Tick, TickNext, Idle
  <1>2. room' = room /\ (stack' = <<>> \/ \E s : stack' = <<RoomCall("onTick", s)>>)
    BY <1>1 DEF Return, Tick, TickNext, Visit
  <1>3. \A f \in Calls(stack') : Apart(f)
    BY <1>2, ApartCalls
  <1>4. \A f \in Calls(stack') : CallLoaded(f, room', Calls(stack'))
    BY <1>3, ApartLoaded
  <1> QED BY <1>1, <1>2, <1>4, LoadedSame

\* The clock
LEMMA LoadedTime ==
    ASSUME IInv, LInv, NEW r \in Room, LoadingTimePasses(r)
    PROVE  LInv'
  <1>1. PICK x : x = [room[r] EXCEPT !.late = TRUE] /\ room' = [room EXCEPT ![r] = x]
    BY DEF LoadingTimePasses
  <1>2. /\ x.players = room[r].players /\ x.is_online = room[r].is_online
        /\ x.is_loading_succeed = room[r].is_loading_succeed /\ x.status = room[r].status
    BY <1>1 DEF RoomRec, IInv, TypeOK
  <1>3. stack = <<>> /\ \A f \in Calls(stack') : Apart(f)
    BY ApartCalls DEF LoadingTimePasses, Idle
  <1> QED BY <1>1, <1>2, <1>3, LoadedIdle

\* A room gets from loading into the game in SendGameStart only.
LEMMA OnlyStartSet ==
    ASSUME IInv, Next, NEW r \in Room, room[r].status = "loading", room'[r].status = "ingame"
    PROVE  DoStartSet /\ Head(stack).room = r
  <1> USE DEF Serve
  <1>1. \A s \in Room : room[s] \in RoomRec
    BY DEF IInv, TypeOK
  <1>2. room' # room
    OBVIOUS
  <1>3. \A s, x : room' = [room EXCEPT ![s] = x] => (s = r /\ x.status = "ingame")
    BY DEF IInv, TypeOK
  <1>4. ASSUME NEW u, NEW s, DeletePlayerFromRoom(u, s) PROVE FALSE
    <2>1. PICK b, pos : room' = [room EXCEPT ![b] = DeletePlayer(room[b], pos)]
      BY <1>2, <1>4 DEF DeletePlayerFromRoom
    <2>2. PICK x : x = DeletePlayer(room[r], pos)
      OBVIOUS
    <2>3. b = r /\ x.status = "ingame"
      BY <2>1, <2>2
    <2>4. x.status = "loading"
      BY <1>1, <2>2 DEF DeletePlayer, SeatOffline, RoomRec
    <2> QED BY <2>3, <2>4
  <1>5. CASE Step
    <2>1. CASE DoSend \/ DoEveryone \/ DoCreateDetail \/ DoJoinDetail \/ DoPersonGone \/ DoLeftWaiting
               \/ DoGameStart \/ DoOnTick \/ DoKick
      BY <1>2, <2>1 DEF DoSend, DoEveryone, SendMessageToClient, DoCreateDetail, DoJoinDetail, DoPersonGone,
         DoLeftWaiting, DoGameStart, DoOnTick, DoKick
    <2>2. CASE DoDeleteClient
      BY <1>2, <1>4, <2>2 DEF DoDeleteClient
    <2>3. CASE DoLeftLoading
      <3> DEFINE s == Head(stack).room
      <3>1. PICK a, b : room' = [room EXCEPT ![s] =
                          [room[s] EXCEPT !.is_loading_succeed = a, !.loading_succeed_cnt = b]]
        BY <1>2, <2>3 DEF DoLeftLoading
      <3>2. PICK x : x = [room[s] EXCEPT !.is_loading_succeed = a, !.loading_succeed_cnt = b]
        OBVIOUS
      <3>3. s = r /\ x.status = "ingame"
        BY <1>3, <3>1, <3>2
      <3> QED BY <1>1, <3>2, <3>3 DEF RoomRec
    <2>4. CASE DoLoadingSet
      <3>1. PICK s, x : room' = [room EXCEPT ![s] = x] /\ x = LoadingRoom(room[s])
        BY <2>4 DEF DoLoadingSet
      <3>2. s = r /\ x.status = "ingame"
        BY <1>3, <3>1
      <3> QED BY <1>1, <3>1, <3>2 DEF LoadingRoom, RoomRec
    <2>5. CASE DoStartSet
      <3>1. PICK x : room' = [room EXCEPT ![Head(stack).room] = x]
        BY <2>5 DEF DoStartSet
      <3> QED BY <2>5, <3>1
    <2>6. CASE DoGameEndFrom
      <3>1. PICK s, pos, x : room' = [room EXCEPT ![s] = x] /\ room[s].status = "ingame" /\ x = SeatOffline(room[s], pos)
        BY <1>2, <2>6 DEF DoGameEndFrom
      <3>2. s = r
        BY <1>3, <3>1
      <3> QED BY <3>1, <3>2
    <2> QED BY <1>5, <2>1, <2>2, <2>3, <2>4, <2>5, <2>6 DEF Step
  <1>6. CASE Return \/ Tick \/ TickNext
    BY <1>2, <1>6 DEF Return, Tick, TickNext
  <1>7. ASSUME NEW s \in Room, LoadingTimePasses(s) PROVE FALSE
    <2>1. PICK x : x = [room[s] EXCEPT !.late = TRUE] /\ room' = [room EXCEPT ![s] = x]
      BY <1>7 DEF LoadingTimePasses
    <2>2. s = r /\ x.status = "ingame"
      BY <2>1
    <2> QED BY <1>1, <2>1, <2>2 DEF RoomRec
  <1>8. ASSUME NEW u \in User, Event(u) PROVE FALSE
    <2> DEFINE b == belong[u]
    <2>1. CASE CSLogin(u) \/ Disconnect(u) \/ CSPullAllRoomInfo(u) \/ CSReadyToStart(u) \/ CSGameEnd(u)
      BY <1>2, <2>1 DEF CSLogin, Disconnect, CSPullAllRoomInfo, CSReadyToStart, CSGameEnd
    <2>2. ASSUME NEW m, CSCreateRoom(u, m) PROVE FALSE
      <3>1. PICK s, x : x = AddPlayer(InitRoom(room[s], m), u) /\ room' = [room EXCEPT ![s] = x]
        BY <1>2, <2>2 DEF CSCreateRoom
      <3>2. x.status = "ingame"
        BY <1>3, <3>1
      <3> QED BY <3>1, <3>2 DEF AddPlayer, InitRoom
    <2>3. ASSUME NEW s, CSJoinRoom(u, s) PROVE FALSE
      <3>1. CanJoin(u, s) /\ room' = [room EXCEPT ![s] = AddPlayer(room[s], u)]
        BY <1>2, <2>3 DEF CSJoinRoom
      <3>2. s = r
        BY <1>3, <3>1
      <3> QED BY <3>1, <3>2 DEF CanJoin
    <2>4. CASE CSPlayerExitRoom(u)
      BY <1>2, <1>4, <2>4 DEF CSPlayerExitRoom
    <2>5. ASSUME NEW v, CSChangeTeam(u, v) \/ CSChangeOption(u, v) PROVE FALSE
      <3>1. PICK x : room[b].status = "waiting" /\ room' = [room EXCEPT ![b] = x]
        BY <2>5 DEF CSChangeTeam, CSChangeOption
      <3>2. b = r
        BY <1>3, <3>1
      <3> QED BY <3>1, <3>2
    <2>6. CASE CSLoadSucceed(u)
      <3>1. PICK a, n : room' = [room EXCEPT ![b] =
                             [room[b] EXCEPT !.is_loading_succeed = a, !.loading_succeed_cnt = n]]
        BY <2>6 DEF CSLoadSucceed
      <3>2. PICK x : x = [room[b] EXCEPT !.is_loading_succeed = a, !.loading_succeed_cnt = n]
        OBVIOUS
      <3>3. b = r /\ x.status = "ingame"
        BY <1>3, <3>1, <3>2
      <3> QED BY <1>1, <3>2, <3>3 DEF RoomRec
    <2> QED BY <1>8, <2>1, <2>2, <2>3, <2>4, <2>5, <2>6 DEF Event
  <1> QED BY <1>5, <1>6, <1>7, <1>8 DEF Next

\* The calls stay sorted, and who counts as loaded right, until a write fails.
LEMMA LoadedStep ==
    ASSUME IInv, IInv', TInv, Sorted(stack), LInv, Next, ~WriteFails
    PROVE  Sorted(stack') /\ LInv'
  <1>1. Sorted(stack')
    BY SortedCalls, SortedNew
  <1>2. ASSUME Step PROVE LInv'
    <2>1. CASE DoSend \/ DoEveryone \/ DoCreateDetail \/ DoJoinDetail \/ DoPersonGone \/ DoLeftWaiting
      BY <2>1, LoadedApart
    <2>2. CASE DoGameStart \/ DoOnTick
      BY <2>2, LoadedStarts
    <2>3. CASE DoKick
      BY <2>3, LoadedKick
    <2>4. CASE DoDeleteClient
      BY <2>4, LoadedDelete
    <2>5. CASE DoLeftLoading
      BY <2>5, LoadedLeft
    <2>6. CASE DoLoadingSet \/ DoStartSet \/ DoGameEndFrom
      BY <2>6, LoadedEnds
    <2> QED BY <1>2, <2>1, <2>2, <2>3, <2>4, <2>5, <2>6 DEF Step
  <1>3. ASSUME NEW u \in User, Event(u) PROVE LInv'
    <2>1. CASE CSLogin(u) \/ Disconnect(u) \/ CSPullAllRoomInfo(u) \/ CSReadyToStart(u) \/ CSGameEnd(u)
      BY <2>1, LoadedHandlers
    <2>2. ASSUME NEW m \in TeamMode, CSCreateRoom(u, m) PROVE LInv'
      BY <2>2, LoadedHandlers, LoadedWaiting
    <2>3. ASSUME NEW s \in Room, CSJoinRoom(u, s) PROVE LInv'
      <3>1. CASE ~CanJoin(u, s)
        BY <2>3, <3>1, LoadedHandlers
      <3>2. CASE CanJoin(u, s)
        BY <2>3, <3>2, LoadedWaiting
      <3> QED BY <3>1, <3>2
    <2>4. CASE CSPlayerExitRoom(u)
      BY <2>4, LoadedWaiting
    <2>5. ASSUME NEW v, CSChangeTeam(u, v) \/ CSChangeOption(u, v) PROVE LInv'
      BY <2>5, LoadedHandlers
    <2>6. CASE CSLoadSucceed(u)
      BY <2>6, LoadedSucceed
    <2> QED BY <1>3, <2>1, <2>2, <2>3, <2>4, <2>5, <2>6 DEF Event
  <1>4. ASSUME Return \/ Tick \/ TickNext PROVE LInv'
    BY <1>4, LoadedTicks
  <1>5. ASSUME NEW r \in Room, LoadingTimePasses(r) PROVE LInv'
    BY <1>5, LoadedTime
  <1> QED BY <1>1, <1>2, <1>3, <1>4, <1>5 DEF Next

\* With the history variable the server does what it does without.
LEMMA WSpecIsSpec == WSpec => Spec
  <1>1. WInit => Init
    BY DEF WInit
  <1>2. [WNext]_wvars => [Next]_vars
    BY DEF WNext, wvars
  <1> QED BY <1>1, <1>2, PTL DEF WSpec, Spec

\* A game starts only when everybody who is still in the room has loaded, until
\* a write fails: whichever of CSLoadSucceed, the deletion of the last one who
\* has not, or the end of the loading time starts it, and although DeletePlayer
\* counts a departed player as loaded until its broadcast is over.  Messages
\* may get lost; clients claim the end of a game only in one.
THEOREM StartsLoaded ==
    ASSUME GameEndIn \subseteq {"ingame"}
    PROVE  WSpec => StartsLoadedUntil
  <1> DEFINE W == failed \/ (Sorted(stack) /\ LInv)
             P == \A r \in Room :
                    ~failed' /\ room[r].status = "loading" /\ room'[r].status = "ingame" =>
                      room[r].is_online \subseteq room[r].is_loading_succeed
  <1>1. WInit => W
    <2> SUFFICES ASSUME WInit PROVE W
      OBVIOUS
    <2>1. stack = <<>> /\ \A r \in Room : \E x \in Unset : room[r] = InitRoom(x, 1)
      BY DEF WInit, Init
    <2>2. Calls(stack) = {} /\ Sorted(stack)
      BY <2>1, CallsOfShort, SortedShort
    <2>3. \A x : InitRoom(x, 1).status = "waiting"
      BY DEF InitRoom
    <2>4. \A r \in Room : room[r].status = "waiting"
      BY <2>1, <2>3
    <2> QED BY <2>2, <2>4 DEF LInv, LoadedInv, CallsLoaded
  <1>2. IInv /\ IInv' /\ TInv /\ W /\ [WNext]_wvars => W'
    <2> SUFFICES ASSUME IInv, IInv', TInv, W, [WNext]_wvars PROVE W'
      OBVIOUS
    <2>1. CASE WNext
      BY <2>1, LoadedStep DEF WNext
    <2>2. CASE UNCHANGED wvars
      BY <2>2 DEF wvars, vars, LInv, LoadedInv, CallsLoaded
    <2> QED BY <2>1, <2>2
  <1>3. IInv /\ W /\ [WNext]_wvars => [P]_wvars
    <2> SUFFICES ASSUME IInv, W, WNext, NEW r \in Room, ~failed',
                        room[r].status = "loading", room'[r].status = "ingame"
                 PROVE  room[r].is_online \subseteq room[r].is_loading_succeed
      OBVIOUS
    <2>1. ~failed /\ LInv /\ Next
      BY DEF WNext
    <2>2. DoStartSet /\ Head(stack).room = r
      BY <2>1, OnlyStartSet
    <2>3. Head(stack) \in Calls(stack) /\ Head(stack).op = "startSet"
      BY <2>2, CallsOfTop DEF DoStartSet, Top, IInv, TypeOK
    <2> QED BY <2>1, <2>2, <2>3 DEF LInv, CallsLoaded, CallLoaded
  <1> QED BY <1>1, <1>2, <1>3, Invariant, TablesInvariant, WSpecIsSpec, PTL DEF WSpec, StartsLoadedUntil

-----------------------------------------------------------------------------
(* What players know of their room, until a write fails. *)

\* A call of op for room r is in S.
Sets(op, r, S) == \E f \in S : f.op = op /\ f.room = r

\* The phase the room q with number r has once the calls of S are over
Coming(r, q, S) ==
    IF Sets("loadingSet", r, S) THEN "loading" ELSE IF Sets("startSet", r, S) THEN "ingame" ELSE q.status

\* The messages that tell a phase, and those that tell the phase ph
PhaseMsg == {"SCCreateRoom", "SCJoinRoom", "SCGameLoading", "SCGameStart"}
Brings(m, ph) == \/ m.id \in {"SCCreateRoom", "SCJoinRoom"} /\ ph = "waiting"
                 \/ m.id = "SCGameLoading" /\ ph = "loading"
                 \/ m.id = "SCGameStart" /\ ph = "ingame"

\* GetDetailInfo where every player has a Person
PlainDetail(q) ==
    [entries |-> {[player |-> q.players[i], team |-> q.team_id[i], player_id |-> i]
                     : i \in {j \in q.is_online : j <= q.player_cnt}},
     game_option |-> q.game_option]

\* The message of the call f will get to u, who is in the room q with number r.
Reaches(f, u, r, q) == \/ f.op = "send" /\ f.user = u
                       \/ f.op = "everyone" /\ f.room = r /\ \A k \in SeatsOf(q, u) : f.seat <= k

\* The call f will send him the room detail.
TellsDetail(f, u, r, q) == \/ Reaches(f, u, r, q) /\ f.msg.id = "SCPullOneRoomDetail"
                           \/ f.op = "joinDetail" /\ f.room = r
                           \/ f.op = "createDetail" /\ f.user = u

\* What e says about u's own seat is right.
KnowsSeat(u, q, e) == \E x \in e.detail.entries : x.player = u /\ x.player_id = GetPlayerID(q, u)

\* The user u in the room q with number r knows it or will be told by a call of
\* S; e is what he was told.
Knows(u, r, q, e, S) ==
    /\ e.phase = Coming(r, q, S) \/ \E f \in S : Reaches(f, u, r, q) /\ Brings(f.msg, Coming(r, q, S))
    /\ q.status = "waiting" => e.detail = PlainDetail(q) \/ \E f \in S : TellsDetail(f, u, r, q)
    /\ q.status # "waiting" => KnowsSeat(u, q, e)

\* The message of the call f is meant for the room r; b is belong_room_.
Aims(f, r, b) == \/ f.op = "everyone" /\ f.room = r
                 \/ f.op = "send" /\ f.user \in User /\ b[f.user] = r

\* What the call f tells is true; rm is room, b belong_room_ and S the set of
\* calls under way.
CallTells(f, rm, b, S) ==
    /\ \A r \in Room : Aims(f, r, b) =>
         /\ f.msg.id \in PhaseMsg => Brings(f.msg, Coming(r, rm[r], S))
         /\ f.msg.id = "SCPullOneRoomDetail" => f.msg.detail = PlainDetail(rm[r])
    /\ f.op = "createDetail" => f.user \in User /\ f.room # 0 /\ b[f.user] \in {0, f.room}

UsersKnow == \A u \in User : belong[u] # 0 => Knows(u, belong[u], room[belong[u]], told[u], Calls(stack))
CallsTell == \A f \in Calls(stack) : CallTells(f, room, belong, Calls(stack))
KInv == UsersKnow /\ CallsTell

\* A call that tells neither a phase nor a detail, and changes no phase
Mute(f) == /\ f.op \notin {"createDetail", "joinDetail", "loadingSet", "startSet"}
           /\ f.op \in {"send", "everyone"} => f.msg.id \notin PhaseMsg \cup {"SCPullOneRoomDetail"}

\* The user u was told all about the room q.
Settled(u, q, e) == /\ e.phase = q.status
                    /\ q.status = "waiting" => e.detail = PlainDetail(q)
                    /\ q.status # "waiting" => KnowsSeat(u, q, e)

\* Mute calls do not matter.
LEMMA MuteCalls ==
    ASSUME NEW f, Mute(f)
    PROVE  /\ \A u, r, q : ~TellsDetail(f, u, r, q) /\ \A ph : ~(Reaches(f, u, r, q) /\ Brings(f.msg, ph))
           /\ \A rm, b, S : CallTells(f, rm, b, S)
           /\ f.op \notin {"loadingSet", "startSet"}
  <1>1. ASSUME NEW u, NEW r, NEW q
        PROVE  ~TellsDetail(f, u, r, q) /\ \A ph : ~(Reaches(f, u, r, q) /\ Brings(f.msg, ph))
    <2>1. Reaches(f, u, r, q) => f.op \in {"send", "everyone"}
      BY DEF Reaches
    <2>2. \A ph : Brings(f.msg, ph) => f.msg.id \in PhaseMsg
      BY DEF Brings, PhaseMsg
    <2> QED BY <2>1, <2>2 DEF Mute, TellsDetail
  <1>2. ASSUME NEW rm, NEW b, NEW S PROVE CallTells(f, rm, b, S)
    <2>1. \A r : Aims(f, r, b) => f.op \in {"send", "everyone"}
      BY DEF Aims
    <2> QED BY <2>1 DEF Mute, CallTells
  <1> QED BY <1>1, <1>2 DEF Mute

\* Two sets of calls that differ by mute calls lead to the same phase.
LEMMA ComingSame ==
    ASSUME NEW S, NEW T, \A f \in S : f \in T \/ Mute(f), \A f \in T : f \in S \/ Mute(f)
    PROVE  \A r, q : Coming(r, q, S) = Coming(r, q, T)
  <1>1. \A r : \A op \in {"loadingSet", "startSet"} : Sets(op, r, S) <=> Sets(op, r, T)
    BY MuteCalls DEF Sets
  <1> QED BY <1>1 DEF Coming

\* When all calls under way are mute, everybody was told already.
LEMMA AllSettled ==
    ASSUME NEW S, \A f \in S : Mute(f)
    PROVE  /\ \A r, q : Coming(r, q, S) = q.status
           /\ \A u, r, q, e : Knows(u, r, q, e, S) <=> Settled(u, q, e)
  <1>1. \A r, q : Coming(r, q, S) = q.status
    BY MuteCalls DEF Coming, Sets
  <1>2. ASSUME NEW u, NEW r, NEW q, NEW e PROVE Knows(u, r, q, e, S) <=> Settled(u, q, e)
    <2>1. \A f \in S : ~TellsDetail(f, u, r, q) /\ \A ph : ~(Reaches(f, u, r, q) /\ Brings(f.msg, ph))
      BY MuteCalls
    <2> QED BY <1>1, <2>1 DEF Knows, Settled
  <1> QED BY <1>1, <1>2

\* Who was told all knows, where no change of phase is under way.
LEMMA SettledKnows ==
    ASSUME NEW u, NEW r, NEW q, NEW e, NEW S, Settled(u, q, e), Coming(r, q, S) = q.status
    PROVE  Knows(u, r, q, e, S)
  BY DEF Settled, Knows

\* GetPlayerID looks at the user's seats only.
LEMMA SeatsID ==
    ASSUME NEW q, NEW p, NEW u, SeatsOf(p, u) = SeatsOf(q, u)
    PROVE  GetPlayerID(p, u) = GetPlayerID(q, u)
  BY DEF GetPlayerID

\* Two rooms that look the same from outside
Alike(p, q) == /\ p.players = q.players /\ p.player_cnt = q.player_cnt /\ p.is_online = q.is_online
               /\ p.status = q.status /\ p.team_id = q.team_id /\ p.game_option = q.game_option

\* They are described alike.
LEMMA AlikeSame ==
    ASSUME NEW p, NEW q, Alike(p, q)
    PROVE  /\ PlainDetail(p) = PlainDetail(q) /\ \A u : SeatsOf(p, u) = SeatsOf(q, u)
           /\ \A u, r, e, S : Knows(u, r, p, e, S) <=> Knows(u, r, q, e, S)
           /\ \A r, S : Coming(r, p, S) = Coming(r, q, S)
  <1>1. PlainDetail(p) = PlainDetail(q)
    BY DEF Alike, PlainDetail
  <1>2. \A u : SeatsOf(p, u) = SeatsOf(q, u)
    BY DEF Alike, SeatsOf
  <1>3. \A u : GetPlayerID(p, u) = GetPlayerID(q, u)
    BY <1>2, SeatsID
  <1>4. \A r, S : Coming(r, p, S) = Coming(r, q, S)
    BY DEF Alike, Coming
  <1>5. p.status = q.status
    BY DEF Alike
  <1>6. \A u, r, e, S : Knows(u, r, p, e, S) <=> Knows(u, r, q, e, S)
    BY <1>1, <1>2, <1>3, <1>4, <1>5 DEF Knows, Reaches, TellsDetail, KnowsSeat
  <1> QED BY <1>1, <1>2, <1>4, <1>6

\* GetDetailInfo gives the names of players who have a Person.
LEMMA NamesPlain ==
    ASSUME NEW q, \A i \in q.is_online : q.players[i] \in User /\ person[q.players[i]] # "none"
    PROVE  GetDetailInfo(q) = PlainDetail(q)
  <1>1. \A i \in q.is_online : GetPersonName(q.players[i]) = q.players[i]
    BY DEF GetPersonName
  <1> QED BY <1>1 DEF GetDetailInfo, PlainDetail

\* So it does in every room of rooms_.
LEMMA RoomPlain ==
    ASSUME IInv, TInv, NEW r \in rooms
    PROVE  GetDetailInfo(room[r]) = PlainDetail(room[r])
  <1>1. Seated(room[r], r, belong) /\ r # 0
    BY DEF TInv, SeatsInv, IInv, TypeOK, Room
  <1>2. \A i \in room[r].is_online : room[r].players[i] \in User /\ person[room[r].players[i]] # "none"
    BY <1>1 DEF Seated, TInv, UsersInv
  <1> QED BY <1>2, NamesPlain

\* Who was told the room detail knows his seat.
LEMMA DetailSeat ==
    ASSUME IInv, NEW u \in User, belong[u] # 0, NEW e, e.detail = PlainDetail(room[belong[u]])
    PROVE  KnowsSeat(u, room[belong[u]], e)
  <1> DEFINE q == room[belong[u]]
             pos == GetPlayerID(q, u)
  <1>1. pos \in SeatsOf(q, u)
    BY MemberFound
  <1> HIDE DEF pos
  <1>2. pos \in q.is_online /\ pos <= q.player_cnt /\ q.players[pos] = u
    BY <1>1, MemberFound DEF SeatsOf, RoomRec
  <1>3. PICK x : x = [player |-> q.players[pos], team |-> q.team_id[pos], player_id |-> pos]
    OBVIOUS
  <1>4. x \in e.detail.entries /\ x.player = u /\ x.player_id = pos
    BY <1>2, <1>3 DEF PlainDetail
  <1> QED BY <1>4 DEF KnowsSeat, pos

\* Only mute calls come and go, and no room looks different.
LEMMA KnownSame ==
    ASSUME IInv, KInv, belong' = belong, \A r \in Room : Alike(room'[r], room[r]),
           \A w \in User : belong[w] # 0 => told'[w].phase = told[w].phase /\ told'[w].detail = told[w].detail,
           \A f \in Calls(stack) : f \in Calls(stack') \/ Mute(f),
           \A f \in Calls(stack') : f \in Calls(stack) \/ Mute(f)
    PROVE  KInv'
  <1> DEFINE S == Calls(stack)
             T == Calls(stack')
  <1>1. \A r, q : Coming(r, q, S) = Coming(r, q, T)
    BY ComingSame
  <1>2. UsersKnow'
    <2> SUFFICES ASSUME NEW u \in User, belong[u] # 0
                 PROVE  Knows(u, belong[u], room'[belong[u]], told'[u], T)
      BY DEF UsersKnow
    <2>1. PICK r, q : r = belong[u] /\ q = room[r] /\ r \in Room
      BY MemberFound
    <2>2. Knows(u, r, q, told[u], S)
      BY <2>1 DEF KInv, UsersKnow
    <2>3. /\ \A f \in S : TellsDetail(f, u, r, q) => f \in T
          /\ \A f \in S : \A ph : Reaches(f, u, r, q) /\ Brings(f.msg, ph) => f \in T
      BY MuteCalls
    <2> HIDE DEF S, T
    <2>4. Knows(u, r, q, told[u], T)
      BY <1>1, <2>2, <2>3 DEF Knows
    <2>5. Knows(u, r, q, told'[u], T)
      BY <2>1, <2>4 DEF Knows, KnowsSeat
    <2>6. Alike(room'[r], q)
      BY <2>1
    <2>7. Knows(u, r, room'[r], told'[u], T)
      BY <2>5, <2>6, AlikeSame
    <2> QED BY <2>1, <2>7
  <1>3. CallsTell'
    <2> SUFFICES ASSUME NEW f \in T, f \in S PROVE CallTells(f, room', belong, T)
      BY MuteCalls DEF CallsTell
    <2>1. CallTells(f, room, belong, S)
      BY DEF KInv, CallsTell
    <2>2. \A r \in Room : /\ PlainDetail(room'[r]) = PlainDetail(room[r])
                          /\ Coming(r, room'[r], T) = Coming(r, room[r], S)
      <3> SUFFICES ASSUME NEW r \in Room
                   PROVE  /\ PlainDetail(room'[r]) = PlainDetail(room[r])
                          /\ Coming(r, room'[r], T) = Coming(r, room[r], S)
        OBVIOUS
      <3>1. Alike(room'[r], room[r])
        OBVIOUS
      <3>2. /\ PlainDetail(room'[r]) = PlainDetail(room[r])
            /\ Coming(r, room'[r], T) = Coming(r, room[r], T)
        BY <3>1, AlikeSame
      <3> QED BY <1>1, <3>2
    <2> HIDE DEF S, T
    <2> QED BY <2>1, <2>2 DEF CallTells
  <1> QED BY <1>2, <1>3 DEF KInv

\* The message of the call h is delivered to some of those it is meant for; the
\* others get it from the call that takes its place.
LEMMA Delivered ==
    ASSUME IInv, KInv, UNCHANGED <<belong, room>>, NEW h, NEW T, Calls(stack) = {h} \cup T,
           h.op \in {"send", "everyone"}, T \subseteq Calls(stack'),
           \A f \in Calls(stack') : \/ f \in T
                                    \/ h.op = "everyone" /\ f.op = "everyone" /\ f.room = h.room /\ f.msg = h.msg,
           \A w \in User : belong[w] # 0 =>
               \/ told'[w] = Receive(told[w], h.msg) /\ Aims(h, belong[w], belong)
               \/ /\ told'[w] = told[w]
                  /\ Reaches(h, w, belong[w], room[belong[w]]) =>
                       \E g \in Calls(stack') : Reaches(g, w, belong[w], room[belong[w]]) /\ g.msg = h.msg
    PROVE  KInv'
  <1> DEFINE S == Calls(stack')
  <1>1. \A r, q : Coming(r, q, Calls(stack)) = Coming(r, q, S)
    <2>1. \A r : \A op \in {"loadingSet", "startSet"} : Sets(op, r, Calls(stack)) <=> Sets(op, r, S)
      BY DEF Sets
    <2> QED BY <2>1 DEF Coming
  <1>2. CallsTell'
    <2> SUFFICES ASSUME NEW f \in S PROVE CallTells(f, room, belong, S)
      BY DEF CallsTell
    <2>1. PICK k \in Calls(stack) : \/ k = f
                                    \/ k.op = "everyone" /\ f.op = "everyone" /\ f.room = k.room /\ f.msg = k.msg
      OBVIOUS
    <2>2. CallTells(k, room, belong, Calls(stack))
      BY DEF KInv, CallsTell
    <2>3. CallTells(k, room, belong, S)
      BY <1>1, <2>2 DEF CallTells
    <2> QED BY <2>1, <2>3 DEF CallTells, Aims
  <1>3. UsersKnow'
    <2> SUFFICES ASSUME NEW u \in User, belong[u] # 0
                 PROVE  Knows(u, belong[u], room[belong[u]], told'[u], S)
      BY DEF UsersKnow
    <2>1. PICK r, q : r = belong[u] /\ q = room[r] /\ r \in Room
      BY MemberFound
    <2>2. Knows(u, r, q, told[u], Calls(stack))
      BY <2>1 DEF KInv, UsersKnow
    <2>3. CASE told'[u] = Receive(told[u], h.msg) /\ Aims(h, r, belong)
      <3>1. CallTells(h, room, belong, Calls(stack))
        BY DEF KInv, CallsTell
      <3>2. /\ h.msg.id \in PhaseMsg => Brings(h.msg, Coming(r, q, S))
            /\ h.msg.id = "SCPullOneRoomDetail" => h.msg.detail = PlainDetail(q)
        BY <1>1, <2>1, <2>3, <3>1 DEF CallTells
      <3>3. PICK e : e = Receive(told[u], h.msg)
        OBVIOUS
      <3>4. e.phase = Coming(r, q, S) \/ \E f \in S : Reaches(f, u, r, q) /\ Brings(f.msg, Coming(r, q, S))
        <4>1. CASE h.msg.id \in PhaseMsg
          BY <3>2, <3>3, <4>1 DEF Brings, Receive, PhaseMsg
        <4>2. CASE h.msg.id \notin PhaseMsg
          <5>1. e.phase = told[u].phase
            BY <3>3, <4>2 DEF Receive, PhaseMsg
          <5>2. \A ph : ~Brings(h.msg, ph)
            BY <4>2 DEF Brings, PhaseMsg
          <5> QED BY <1>1, <2>2, <5>1, <5>2 DEF Knows
        <4> QED BY <4>1, <4>2
      <3>5. CASE h.msg.id = "SCPullOneRoomDetail"
        <4>1. e.detail = PlainDetail(q)
          BY <3>2, <3>3, <3>5 DEF Receive
        <4>2. KnowsSeat(u, q, e)
          BY <2>1, <4>1, DetailSeat
        <4>3. Knows(u, r, q, e, S)
          BY <3>4, <4>1, <4>2 DEF Knows
        <4> QED BY <2>1, <2>3, <3>3, <4>3
      <3>6. CASE h.msg.id # "SCPullOneRoomDetail"
        <4>1. e.detail = told[u].detail
          BY <3>3, <3>6 DEF Receive
        <4>2. ~TellsDetail(h, u, r, q)
          BY <3>6 DEF TellsDetail
        <4>3. Knows(u, r, q, e, S)
          BY <2>2, <3>4, <4>1, <4>2 DEF Knows, KnowsSeat
        <4> QED BY <2>1, <2>3, <3>3, <4>3
      <3> QED BY <3>5, <3>6
    <2>4. CASE /\ told'[u] = told[u]
               /\ Reaches(h, u, r, q) => \E g \in S : Reaches(g, u, r, q) /\ g.msg = h.msg
      <3>1. \A f \in Calls(stack) : Reaches(f, u, r, q) => \E g \in S : Reaches(g, u, r, q) /\ g.msg = f.msg
        BY <2>4
      <3>2. \A f \in Calls(stack) : TellsDetail(f, u, r, q) => \E g \in S : TellsDetail(g, u, r, q)
        <4> SUFFICES ASSUME NEW f \in Calls(stack), TellsDetail(f, u, r, q) PROVE \E g \in S : TellsDetail(g, u, r, q)
          OBVIOUS
        <4>1. CASE Reaches(f, u, r, q) /\ f.msg.id = "SCPullOneRoomDetail"
          BY <3>1, <4>1 DEF TellsDetail
        <4>2. CASE f.op \in {"joinDetail", "createDetail"}
          BY <4>2
        <4> QED BY <4>1, <4>2 DEF TellsDetail
      <3>3. Knows(u, r, q, told[u], S)
        <4>1. told[u].phase = Coming(r, q, S) \/ \E f \in S : Reaches(f, u, r, q) /\ Brings(f.msg, Coming(r, q, S))
          BY <1>1, <2>2, <3>1 DEF Knows
        <4> HIDE DEF S
        <4> QED BY <2>2, <3>2, <4>1 DEF Knows
      <3> QED BY <2>1, <2>4, <3>3
    <2> QED BY <2>1, <2>3, <2>4
  <1> QED BY <1>2, <1>3 DEF KInv

\* The detail that the call h is to send is asked for; g will send it.
LEMMA KnownDetail ==
    ASSUME IInv, TInv, KInv, UNCHANGED <<belong, room, told>>, NEW h, NEW g, NEW T,
           Calls(stack) = {h} \cup T, Calls(stack') = {g} \cup T, NEW r \in rooms, h.room = r,
           \/ h.op = "createDetail" /\ g = Send(h.user, DetailMsg(GetDetailInfo(room[r])))
           \/ h.op = "joinDetail" /\ g = Everyone(r, DetailMsg(GetDetailInfo(room[r])))
    PROVE  KInv'
  <1> DEFINE S == Calls(stack')
  <1>1. /\ g.op \in {"send", "everyone"} /\ g.msg.id = "SCPullOneRoomDetail"
        /\ g.msg.detail = PlainDetail(room[r])
    <2>1. GetDetailInfo(room[r]) = PlainDetail(room[r])
      BY RoomPlain
    <2> QED BY <2>1 DEF Send, Everyone, Call, DetailMsg
  <1>2. \A s, q : Coming(s, q, Calls(stack)) = Coming(s, q, S)
    <2>1. \A s : \A op \in {"loadingSet", "startSet"} : Sets(op, s, Calls(stack)) <=> Sets(op, s, S)
      BY <1>1 DEF Sets
    <2> QED BY <2>1 DEF Coming
  <1>3. \A s : Aims(g, s, belong) /\ s # 0 => s = r
    <2>1. CASE h.op = "createDetail"
      <3>1. CallTells(h, room, belong, Calls(stack))
        BY DEF KInv, CallsTell
      <3>2. g.op = "send" /\ g.user = h.user
        BY <2>1 DEF Send, Call
      <3> QED BY <2>1, <3>1, <3>2 DEF CallTells, Aims
    <2>2. CASE h.op = "joinDetail"
      <3>1. g.op = "everyone" /\ g.room = r
        BY <2>2 DEF Everyone, Call
      <3> QED BY <3>1 DEF Aims
    <2> QED BY <2>1, <2>2
  <1>4. CallTells(g, room, belong, S)
    <2>1. g.msg.id \notin PhaseMsg /\ \A s \in Room : s # 0
      BY <1>1 DEF PhaseMsg, Room
    <2> QED BY <1>1, <1>3, <2>1 DEF CallTells
  <1>5. CallsTell'
    <2> SUFFICES ASSUME NEW f \in T PROVE CallTells(f, room, belong, S)
      BY <1>4 DEF CallsTell
    <2>1. CallTells(f, room, belong, Calls(stack))
      BY DEF KInv, CallsTell
    <2> QED BY <1>2, <2>1 DEF CallTells
  <1>6. UsersKnow'
    <2> SUFFICES ASSUME NEW u \in User, belong[u] # 0
                 PROVE  Knows(u, belong[u], room[belong[u]], told[u], S)
      BY DEF UsersKnow
    <2>1. PICK s, q : s = belong[u] /\ q = room[s] /\ s \in Room /\ q \in RoomRec
      BY MemberFound
    <2>2. Knows(u, s, q, told[u], Calls(stack))
      BY <2>1 DEF KInv, UsersKnow
    <2>3. ~Reaches(h, u, s, q)
      BY DEF Reaches
    <2>4. TellsDetail(h, u, s, q) => TellsDetail(g, u, s, q)
      <3>1. CASE h.op = "createDetail"
        <4>1. g.op = "send" /\ g.user = h.user
          BY <3>1 DEF Send, Call
        <4> QED BY <1>1, <3>1, <4>1 DEF TellsDetail, Reaches
      <3>2. CASE h.op = "joinDetail"
        <4>1. g.op = "everyone" /\ g.room = r /\ g.seat = 1
          BY <3>2 DEF Everyone, Call
        <4>2. \A k \in SeatsOf(q, u) : 1 <= k
          BY <2>1 DEF SeatsOf, RoomRec
        <4> QED BY <1>1, <3>2, <4>1, <4>2 DEF TellsDetail, Reaches
      <3> QED BY <3>1, <3>2
    <2>5. Knows(u, s, q, told[u], S)
      <3>1. told[u].phase = Coming(s, q, S) \/ \E f \in S : Reaches(f, u, s, q) /\ Brings(f.msg, Coming(s, q, S))
        BY <1>2, <2>2, <2>3 DEF Knows
      <3>2. q.status = "waiting" => told[u].detail = PlainDetail(q) \/ \E f \in S : TellsDetail(f, u, s, q)
        BY <2>2, <2>4 DEF Knows
      <3> HIDE DEF S
      <3> QED BY <2>2, <3>1, <3>2 DEF Knows
    <2> QED BY <2>1, <2>5
  <1> QED BY <1>5, <1>6 DEF KInv

\* A broadcast announces the phase that the call after it will set.
LEMMA KnownPhase ==
    ASSUME IInv, KInv, UNCHANGED <<belong, room, told>>, \A f \in Calls(stack) : Mute(f),
           NEW r \in Room, NEW op, NEW id,
           (op = "loadingSet" /\ id = "SCGameLoading") \/ (op = "startSet" /\ id = "SCGameStart"),
           Everyone(r, Message(id)) \in Calls(stack'), RoomCall(op, r) \in Calls(stack'),
           \A f \in Calls(stack') : Mute(f) \/ f = Everyone(r, Message(id)) \/ f = RoomCall(op, r)
    PROVE  KInv'
  <1> DEFINE S == Calls(stack')
             f == Everyone(r, Message(id))
             g == RoomCall(op, r)
  <1>1. f.op = "everyone" /\ f.room = r /\ f.seat = 1 /\ f.msg.id = id /\ g.op = op /\ g.room = r
    BY DEF Everyone, RoomCall, Call, Message
  <1>2. \A s : \A o \in {"loadingSet", "startSet"} : Sets(o, s, S) <=> (o = op /\ s = r)
    <2>1. \A k \in S : k.op \in {"loadingSet", "startSet"} => k = g
      <3> HIDE DEF f, g, S
      <3>1. \A k \in S : Mute(k) \/ k = f \/ k = g
        BY DEF f, g, S
      <3> QED BY <1>1, <3>1, MuteCalls
    <2> HIDE DEF f, g
    <2> QED BY <1>1, <2>1 DEF Sets, g
  <1>3. \A s, q : Coming(s, q, S) = IF s = r THEN (IF op = "loadingSet" THEN "loading" ELSE "ingame") ELSE q.status
    BY <1>2 DEF Coming
  <1>4. \A q : Brings(f.msg, Coming(r, q, S))
    BY <1>1, <1>3 DEF Brings
  <1>5. CallsTell'
    <2>1. CallTells(f, room, belong, S) /\ CallTells(g, room, belong, S)
      BY <1>1, <1>4 DEF CallTells, Aims
    <2>2. \A k \in S : Mute(k) \/ k = f \/ k = g
      OBVIOUS
    <2> HIDE DEF f, g, S
    <2>3. \A k \in S : CallTells(k, room, belong, S)
      BY <2>1, <2>2, MuteCalls
    <2> QED BY <2>3 DEF CallsTell, S
  <1>6. UsersKnow'
    <2> SUFFICES ASSUME NEW u \in User, belong[u] # 0
                 PROVE  Knows(u, belong[u], room[belong[u]], told[u], S)
      BY DEF UsersKnow
    <2>1. PICK s, q : s = belong[u] /\ q = room[s] /\ s \in Room /\ q \in RoomRec
      BY MemberFound
    <2>2. Settled(u, q, told[u])
      BY <2>1, AllSettled DEF KInv, UsersKnow
    <2>3. CASE s # r
      <3>1. Coming(s, q, S) = q.status
        BY <1>3, <2>3
      <3> QED BY <2>1, <2>2, <3>1, SettledKnows
    <2>4. CASE s = r
      <3>1. \A k \in SeatsOf(q, u) : 1 <= k
        BY <2>1 DEF SeatsOf, RoomRec
      <3>2. Reaches(f, u, r, q) /\ Brings(f.msg, Coming(r, q, S)) /\ f \in S
        BY <1>1, <1>4, <3>1 DEF Reaches
      <3> QED BY <2>1, <2>2, <2>4, <3>2 DEF Knows, Settled
    <2> QED BY <2>3, <2>4
  <1> QED BY <1>5, <1>6 DEF KInv

\* The phase that was announced is set.
LEMMA KnownSet ==
    ASSUME IInv, KInv, UNCHANGED <<belong, told>>, NEW h, Calls(stack) = {h} \cup Calls(stack'),
           \A f \in Calls(stack') : Mute(f), NEW r \in Room, h.room = r, NEW x, room' = [room EXCEPT ![r] = x],
           (h.op = "loadingSet" /\ x.status = "loading") \/ (h.op = "startSet" /\ x.status = "ingame"),
           x.players = room[r].players, x.player_cnt = room[r].player_cnt, x.is_online = room[r].is_online
    PROVE  KInv'
  <1> DEFINE S == Calls(stack)
  <1>1. \A s \in Room : room'[s] = IF s = r THEN x ELSE room[s]
    BY DEF IInv, TypeOK
  <1>2. \A s : \A o \in {"loadingSet", "startSet"} : Sets(o, s, S) <=> (o = h.op /\ s = r)
    BY MuteCalls DEF Sets
  <1>3. \A s, q : Coming(s, q, S) = IF s = r THEN x.status ELSE q.status
    BY <1>2 DEF Coming
  <1>4. \A u, s, q : \A f \in S : ~TellsDetail(f, u, s, q) /\ \A ph : ~(Reaches(f, u, s, q) /\ Brings(f.msg, ph))
    <2>1. \A u, s, q : ~TellsDetail(h, u, s, q) /\ ~Reaches(h, u, s, q)
      BY DEF TellsDetail, Reaches
    <2> QED BY <2>1, MuteCalls
  <1>5. CallsTell'
    BY MuteCalls DEF CallsTell
  <1>6. UsersKnow'
    <2> SUFFICES ASSUME NEW u \in User, belong[u] # 0
                 PROVE  Knows(u, belong[u], room'[belong[u]], told[u], Calls(stack'))
      BY DEF UsersKnow
    <2>1. PICK s, q : s = belong[u] /\ q = room[s] /\ s \in Room
      BY MemberFound
    <2>2. Knows(u, s, q, told[u], S)
      BY <2>1 DEF KInv, UsersKnow
    <2>3. /\ told[u].phase = IF s = r THEN x.status ELSE q.status
          /\ q.status = "waiting" => told[u].detail = PlainDetail(q)
          /\ q.status # "waiting" => KnowsSeat(u, q, told[u])
      BY <1>3, <1>4, <2>2 DEF Knows
    <2>4. Settled(u, room'[s], told[u])
      <3>1. CASE s # r
        BY <1>1, <2>1, <2>3, <3>1 DEF Settled
      <3>2. CASE s = r
        <4>1. KnowsSeat(u, q, told[u])
          BY <2>1, <2>3, DetailSeat
        <4>2. SeatsOf(x, u) = SeatsOf(q, u)
          BY <2>1, <3>2 DEF SeatsOf
        <4>3. KnowsSeat(u, x, told[u])
          BY <4>1, <4>2, SeatsID DEF KnowsSeat
        <4> QED BY <1>1, <2>3, <3>2, <4>3 DEF Settled
      <3> QED BY <3>1, <3>2
    <2> QED BY <2>1, <2>4, AllSettled
  <1> QED BY <1>5, <1>6 DEF KInv

\* Room::DeletePlayer: in a waiting room the others are told; elsewhere their
\* seats stay.
LEMMA KnownLeave ==
    ASSUME IInv, TInv, KInv, \A f \in Calls(stack) : Mute(f), NEW u \in User, NEW r, r = belong[u], r # 0,
           NEW pos, pos = GetPlayerID(room[r], u), belong' = [belong EXCEPT ![u] = 0],
           \A w \in User : w # u => told'[w] = told[w],
           room' = [room EXCEPT ![r] = DeletePlayer(room[r], pos)],
           room[r].status = "waiting" => Everyone(r, LeaveDetail(r, pos)) \in Calls(stack'),
           \A f \in Calls(stack') : Mute(f) \/ (room[r].status = "waiting" /\ f = Everyone(r, LeaveDetail(r, pos)))
    PROVE  KInv'
  <1>1. /\ r \in Room /\ r \in rooms /\ room[r] \in RoomRec /\ CountsOf(room[r])
        /\ pos \in SeatsOf(room[r], u)
    BY MemberFound
  <1>2. PICK q, x, S : q = room[r] /\ q \in RoomRec /\ x = DeletePlayer(q, pos) /\ S = Calls(stack')
    BY <1>1
  <1>3. \A s \in Room : room'[s] = IF s = r THEN x ELSE room[s]
    BY <1>2 DEF IInv, TypeOK
  <1>4. \A w \in User : belong'[w] = IF w = u THEN 0 ELSE belong[w]
    BY DEF IInv, TypeOK
  <1>5. PICK f : f = Everyone(r, LeaveDetail(r, pos))
    OBVIOUS
  <1>6. /\ f.op = "everyone" /\ f.room = r /\ f.seat = 1 /\ f.msg.id = "SCPullOneRoomDetail"
        /\ f.msg.detail = GetDetailInfo(ShiftSeats(q, pos))
    BY <1>2, <1>5 DEF Everyone, Call, LeaveDetail, DetailMsg
  <1>7. q.status = "waiting" => f.msg.detail = PlainDetail(x)
    <2> SUFFICES ASSUME q.status = "waiting" PROVE GetDetailInfo(x) = PlainDetail(x)
      BY <1>2, <1>6 DEF DeletePlayer
    <2>1. \A i \in x.is_online : Came(q, pos, i) \in q.is_online /\ x.players[i] = q.players[Came(q, pos, i)]
      BY <1>1, <1>2, DeleteSeats
    <2>2. Seated(q, r, belong)
      BY <1>1, <1>2 DEF TInv, SeatsInv
    <2>3. \A i \in x.is_online : x.players[i] \in User /\ belong[x.players[i]] = r
      BY <2>1, <2>2 DEF Seated
    <2>4. \A i \in x.is_online : x.players[i] \in User /\ person[x.players[i]] # "none"
      BY <2>3 DEF TInv, UsersInv
    <2> QED BY <2>4, NamesPlain
  <1>8. /\ \A k \in S : Mute(k) \/ (q.status = "waiting" /\ k = f)
        /\ q.status = "waiting" => f \in S
    BY <1>2, <1>5
  <1>9. \A s, p : Coming(s, p, S) = p.status
    <2>1. \A s : \A o \in {"loadingSet", "startSet"} : ~Sets(o, s, S)
      BY <1>6, <1>8, MuteCalls DEF Sets
    <2> QED BY <2>1 DEF Coming
  <1>10. x.status = q.status
    BY <1>1, <1>2, DeleteSeats
  <1>11. CallsTell'
    <2>1. q.status = "waiting" => CallTells(f, room', belong', S)
      <3>1. f.msg.id \notin PhaseMsg
        BY <1>6 DEF PhaseMsg
      <3> QED BY <1>3, <1>6, <1>7, <3>1 DEF CallTells, Aims
    <2>2. \A k \in S : CallTells(k, room', belong', S)
      BY <1>8, <2>1, MuteCalls
    <2> QED BY <1>2, <2>2 DEF CallsTell
  <1>12. UsersKnow'
    <2> SUFFICES ASSUME NEW w \in User, w # u, belong[w] # 0
                 PROVE  Knows(w, belong[w], room'[belong[w]], told[w], S)
      BY <1>2, <1>4 DEF UsersKnow
    <2>1. PICK s : s = belong[w] /\ s \in Room
      BY MemberFound
    <2>2. Settled(w, room[s], told[w])
      BY <2>1, AllSettled DEF KInv, UsersKnow
    <2>3. CASE s # r
      BY <1>3, <1>9, <2>1, <2>2, <2>3, SettledKnows
    <2>4. CASE s = r /\ q.status = "waiting"
      <3>1. \A k \in SeatsOf(x, w) : 1 <= k
        <4>1. x \in RoomRec
          BY <1>1, <1>2, DeletePlayerOK
        <4> QED BY <4>1 DEF SeatsOf, RoomRec
      <3>2. TellsDetail(f, w, r, x)
        BY <1>6, <3>1 DEF TellsDetail, Reaches
      <3>3. Knows(w, r, x, told[w], S)
        BY <1>2, <1>8, <1>9, <1>10, <2>2, <2>4, <3>2 DEF Knows, Settled
      <3> QED BY <1>3, <2>1, <2>4, <3>3
    <2>5. CASE s = r /\ q.status # "waiting"
      <3>1. SeatsOf(x, w) = SeatsOf(q, w)
        <4>1. /\ x.players = q.players /\ x.player_cnt = q.player_cnt /\ x.is_online = q.is_online \ {pos}
          BY <1>2, <2>5 DEF DeletePlayer, SeatOffline, RoomRec
        <4>2. q.players[pos] = u
          BY <1>1, <1>2 DEF SeatsOf
        <4> QED BY <4>1, <4>2 DEF SeatsOf
      <3>2. KnowsSeat(w, x, told[w])
        BY <1>2, <2>2, <2>5, <3>1, SeatsID DEF Settled, KnowsSeat
      <3>3. Settled(w, x, told[w])
        BY <1>2, <1>10, <2>2, <2>5, <3>2 DEF Settled
      <3>4. Knows(w, r, x, told[w], S)
        BY <1>9, <3>3, SettledKnows
      <3> QED BY <1>3, <2>1, <2>5, <3>4
    <2> QED BY <2>3, <2>4, <2>5
  <1> QED BY <1>11, <1>12 DEF KInv

\* The user u enters the room r, which becomes x and waits; the calls f and g
\* are to tell him, and g those who are in it already.
Enters(u, r, x, f, g) ==
    /\ stack = <<>> /\ told' = told /\ belong' = [belong EXCEPT ![u] = r]
    /\ room' = [room EXCEPT ![r] = x] /\ x.status = "waiting" /\ Calls(stack') = {f, g}
    /\ f.op = "send" /\ f.user = u /\ f.msg.id \in {"SCCreateRoom", "SCJoinRoom"}
    /\ g.room = r
    /\ \/ g.op = "createDetail" /\ g.user = u /\ (\A w \in User : belong[w] # r)
       \/ g.op = "joinDetail" /\ room[r].status = "waiting"

\* Whoever enters a waiting room will be told, and nobody in it is forgotten.
LEMMA KnownEnter ==
    ASSUME IInv, KInv, NEW u \in User, NEW r \in Room, NEW x, NEW f, NEW g, Enters(u, r, x, f, g)
    PROVE  KInv'
  <1> USE DEF Enters
  <1>1. \A s \in Room : room'[s] = IF s = r THEN x ELSE room[s]
    BY DEF IInv, TypeOK
  <1>2. \A w \in User : belong'[w] = IF w = u THEN r ELSE belong[w]
    BY DEF IInv, TypeOK
  <1>3. f.op = "send" /\ f.user = u /\ f.msg.id \in {"SCCreateRoom", "SCJoinRoom"}
    OBVIOUS
  <1>4. \/ g.op = "createDetail" /\ g.user = u /\ g.room = r /\ \A w \in User : belong[w] # r
        \/ g.op = "joinDetail" /\ g.room = r /\ room[r].status = "waiting"
    OBVIOUS
  <1>5. PICK S : S = {f, g} /\ S = Calls(stack')
    OBVIOUS
  <1>6. \A s, q : Coming(s, q, S) = q.status
    <2>1. \A s : \A o \in {"loadingSet", "startSet"} : ~Sets(o, s, S)
      BY <1>3, <1>4, <1>5 DEF Sets
    <2> QED BY <2>1 DEF Coming
  <1>7. CallsTell'
    <2>1. CallTells(f, room', belong', S)
      <3>1. \A s \in Room : Aims(f, s, belong') => s = r
        BY <1>2, <1>3 DEF Aims
      <3>2. Brings(f.msg, Coming(r, room'[r], S)) /\ f.msg.id # "SCPullOneRoomDetail"
        BY <1>1, <1>3, <1>6 DEF Brings
      <3> QED BY <1>3, <3>1, <3>2 DEF CallTells
    <2>2. CallTells(g, room', belong', S)
      BY <1>2, <1>4 DEF CallTells, Aims, Room
    <2> QED BY <1>5, <2>1, <2>2 DEF CallsTell
  <1>8. UsersKnow'
    <2>1. Knows(u, r, x, told[u], S)
      <3>1. Reaches(f, u, r, x) /\ Brings(f.msg, Coming(r, x, S)) /\ f \in S
        BY <1>3, <1>5, <1>6 DEF Reaches, Brings
      <3>2. TellsDetail(g, u, r, x) /\ g \in S
        BY <1>4, <1>5 DEF TellsDetail
      <3> QED BY <3>1, <3>2 DEF Knows
    <2>2. ASSUME NEW w \in User, w # u, belong[w] # 0
          PROVE  Knows(w, belong[w], room'[belong[w]], told[w], S)
      <3>1. PICK s : s = belong[w] /\ s \in Room
        BY <2>2, MemberFound
      <3>2. Calls(stack) = {}
        BY CallsOfShort
      <3>3. Settled(w, room[s], told[w])
        <4>1. Knows(w, s, room[s], told[w], {})
          BY <2>2, <3>1, <3>2 DEF KInv, UsersKnow
        <4> QED BY <4>1, AllSettled
      <3>4. CASE s # r
        BY <1>1, <1>6, <3>1, <3>3, <3>4, SettledKnows
      <3>5. CASE s = r
        <4>1. g.op = "joinDetail" /\ g.room = r /\ room[r].status = "waiting"
          BY <1>4, <2>2, <3>1, <3>5
        <4>2. TellsDetail(g, w, r, x) /\ g \in S
          BY <1>5, <4>1 DEF TellsDetail
        <4>3. told[w].phase = "waiting"
          BY <3>3, <3>5, <4>1 DEF Settled
        <4>4. Knows(w, r, x, told[w], S)
          BY <1>6, <4>2, <4>3 DEF Knows
        <4> QED BY <1>1, <3>1, <3>5, <4>4
      <3> QED BY <3>4, <3>5
    <2>3. r # 0 /\ room'[r] = x
      BY <1>1 DEF Room
    <2>4. ASSUME NEW w \in User, belong'[w] # 0
          PROVE  Knows(w, belong'[w], room'[belong'[w]], told'[w], S)
      <3>1. CASE w = u
        BY <1>2, <2>1, <2>3, <3>1
      <3>2. CASE w # u
        BY <1>2, <2>2, <2>4, <3>2
      <3> QED BY <3>1, <3>2
    <2> QED BY <1>5, <2>4 DEF UsersKnow
  <1> QED BY <1>7, <1>8 DEF KInv

\* The team of a seat or the option of a waiting room changes: all are told.
LEMMA KnownChange ==
    ASSUME IInv, TInv, KInv, stack = <<>>, UNCHANGED <<told, belong, person>>, NEW r \in rooms, r \in Room,
           NEW x, room' = [room EXCEPT ![r] = x], room[r].status = "waiting",
           x.status = room[r].status, x.players = room[r].players, x.player_cnt = room[r].player_cnt,
           x.is_online = room[r].is_online, NEW f, f = Everyone(r, DetailMsg(GetDetailInfo(x))),
           Calls(stack') = {f}
    PROVE  KInv'
  <1>1. \A s \in Room : room'[s] = IF s = r THEN x ELSE room[s]
    BY DEF IInv, TypeOK
  <1>2. GetDetailInfo(x) = PlainDetail(x)
    <2>1. Seated(room[r], r, belong) /\ r # 0
      BY DEF TInv, SeatsInv, Room
    <2>2. \A i \in x.is_online : x.players[i] \in User /\ person[x.players[i]] # "none"
      BY <2>1 DEF Seated, TInv, UsersInv
    <2> QED BY <2>2, NamesPlain
  <1>3. /\ f.op = "everyone" /\ f.room = r /\ f.seat = 1 /\ f.msg.id = "SCPullOneRoomDetail"
        /\ f.msg.detail = PlainDetail(x)
    BY <1>2 DEF Everyone, Call, DetailMsg
  <1>4. PICK S : S = {f} /\ S = Calls(stack')
    OBVIOUS
  <1>5. \A s, q : Coming(s, q, S) = q.status
    BY <1>3, <1>4 DEF Sets, Coming
  <1>6. CallsTell'
    <2>1. f.msg.id \notin PhaseMsg
      BY <1>3 DEF PhaseMsg
    <2>2. CallTells(f, room', belong, S)
      BY <1>1, <1>3, <2>1 DEF CallTells, Aims
    <2> QED BY <1>4, <2>2 DEF CallsTell
  <1>7. UsersKnow'
    <2> SUFFICES ASSUME NEW w \in User, belong[w] # 0
                 PROVE  Knows(w, belong[w], room'[belong[w]], told[w], S)
      BY <1>4 DEF UsersKnow
    <2>1. PICK s : s = belong[w] /\ s \in Room /\ room[s] \in RoomRec
      BY MemberFound
    <2>2. Settled(w, room[s], told[w])
      <3>1. Knows(w, s, room[s], told[w], {})
        BY <2>1, CallsOfShort DEF KInv, UsersKnow
      <3> QED BY <3>1, AllSettled
    <2>3. CASE s # r
      BY <1>1, <1>5, <2>1, <2>2, <2>3, SettledKnows
    <2>4. CASE s = r
      <3>1. \A k \in SeatsOf(x, w) : 1 <= k
        BY <2>1, <2>4 DEF SeatsOf, RoomRec
      <3>2. TellsDetail(f, w, r, x) /\ f \in S
        BY <1>3, <1>4, <3>1 DEF TellsDetail, Reaches
      <3>3. Knows(w, r, x, told[w], S)
        BY <1>5, <2>2, <2>4, <3>2 DEF Knows, Settled
      <3> QED BY <1>1, <2>1, <2>4, <3>3
    <2> QED BY <2>3, <2>4
  <1> QED BY <1>6, <1>7 DEF KInv

\* SendMessageToClient called directly by a handler
LEMMA KnownSend ==
    ASSUME SendResult \subseteq {"ok", "error"}, IInv, TInv, KInv, DoSend, ~WriteFails
    PROVE  KInv'
  <1> DEFINE h == Head(stack)
             t == Tail(stack)
             u == h.user
  <1>1. /\ t \in Seq(Frame) /\ Calls(stack) = {h} \cup Calls(t) /\ h.op = "send"
        /\ Top("send") /\ SendMessageToClient(u, h.msg, t)
    BY Pop, CallsOfTop DEF DoSend, Top, IInv, TypeOK
  <1> HIDE DEF h, t
  <1>2. /\ stack' = t /\ UNCHANGED <<belong, room>>
        /\ told' = told \/ told' = [told EXCEPT ![u] = Receive(told[u], h.msg)]
        /\ u \in sess => told' = [told EXCEPT ![u] = Receive(told[u], h.msg)]
    BY <1>1, SendArrives
  <1>3. told \in [User -> Told]
    BY DEF IInv, TypeOK
  <1>4. ASSUME NEW w \in User, belong[w] # 0
        PROVE  \/ told'[w] = Receive(told[w], h.msg) /\ Aims(h, belong[w], belong)
               \/ told'[w] = told[w] /\ ~Reaches(h, w, belong[w], room[belong[w]])
    <2>1. CASE w = u
      <3>1. u \in sess
        BY <1>4, <2>1 DEF TInv, UsersInv
      <3>2. Aims(h, belong[w], belong)
        BY <1>1, <2>1 DEF Aims
      <3> QED BY <1>2, <1>3, <2>1, <3>1, <3>2
    <2>2. CASE w # u
      <3>1. told'[w] = told[w]
        BY <1>2, <1>3, <2>2
      <3> QED BY <1>1, <2>2, <3>1 DEF Reaches
    <2> QED BY <2>1, <2>2
  <1>5. PICK T : T = Calls(t)
    OBVIOUS
  <1>6. T = Calls(stack') /\ Calls(stack) = {h} \cup T
    BY <1>1, <1>2, <1>5
  <1> QED BY <1>1, <1>2, <1>4, <1>6, Delivered

\* Room::SendMessageToEveryone: the next player gets the message, the others
\* behind him get it from the rest of the loop.
LEMMA KnownEveryone ==
    ASSUME SendResult \subseteq {"ok", "error"}, IInv, TInv, KInv, DoEveryone, ~WriteFails
    PROVE  KInv'
  <1> DEFINE h == Head(stack)
             t == Tail(stack)
             r == h.room
             q == room[r]
             on == Remaining(q, h.seat)
             i == CHOOSE j \in on : \A k \in on : j <= k
             g == Call("everyone", r, NoUser, i + 1, h.msg)
             v == q.players[i]
  <1>1. /\ t \in Seq(Frame) /\ Calls(stack) = {h} \cup Calls(t) /\ h.op = "everyone" /\ Top("everyone")
    BY Pop, CallsOfTop DEF DoEveryone, Top, IInv, TypeOK
  <1>2. r \in Room /\ r \in rooms /\ r # 0 /\ q \in RoomRec /\ CountsOf(q) /\ h.seat \in Nat
    <2>1. r \in Room /\ r \in rooms /\ q \in RoomRec /\ CountsOf(q) /\ h.seat \in 0..MaxPlayer + 1
      BY TopRoom DEF DoEveryone, RoomOp
    <2> QED BY <2>1, ConstantsAssumption DEF Room
  <1>3. told \in [User -> Told]
    BY DEF IInv, TypeOK
  <1>4. \A u, s, p : Reaches(h, u, s, p) => s = r
    BY <1>1 DEF Reaches
  <1>5. ASSUME NEW u, Reaches(h, u, r, q), NEW k \in SeatsOf(q, u) PROVE k \in on
    <2> HIDE DEF q, h
    <2>1. k \in 1..q.player_cnt /\ k \in q.is_online /\ h.seat <= k
      BY <1>1, <1>5 DEF SeatsOf, Reaches
    <2> QED BY <1>2, <2>1 DEF Remaining, RoomRec
  <1>6. CASE on = {}
    <2>1. stack' = t /\ UNCHANGED <<told, belong, room>>
      BY <1>6 DEF DoEveryone
    <2>2. ASSUME NEW w \in User, belong[w] # 0 PROVE ~Reaches(h, w, belong[w], room[belong[w]])
      <3> SUFFICES ASSUME Reaches(h, w, belong[w], room[belong[w]]) PROVE FALSE
        OBVIOUS
      <3>1. belong[w] = r
        <4> HIDE DEF h, r
        <4> QED BY <1>4
      <3>2. Reaches(h, w, r, q) /\ SeatsOf(q, w) # {}
        BY <2>2, <3>1 DEF IInv, MemberHasSeat
      <3> HIDE DEF h, q, r, on
      <3> QED BY <1>5, <1>6, <3>2
    <2>3. PICK T : T = Calls(t)
      OBVIOUS
    <2> HIDE DEF h, t
    <2>4. T = Calls(stack') /\ Calls(stack) = {h} \cup T
      BY <1>1, <2>1, <2>3
    <2> QED BY <1>1, <2>1, <2>2, <2>4, Delivered
  <1>7. CASE on # {}
    <2>1. on \subseteq Nat /\ on \subseteq 1..q.player_cnt \cap q.is_online
      <3>1. h.seat \in Nat /\ q.player_cnt \in Nat /\ q.is_online \subseteq 1..q.player_cnt
        BY <1>2 DEF CountsOf, RoomRec
      <3> HIDE DEF q, h
      <3>2. on = {k \in h.seat..q.player_cnt : k \in q.is_online}
        BY DEF Remaining
      <3> HIDE DEF on
      <3> QED BY <3>1, <3>2
    <2>2. i \in on /\ \A k \in on : i <= k
      <3> HIDE DEF on
      <3>1. \E j \in on : \A k \in on : j <= k
        BY <1>7, <2>1, FirstExists
      <3> QED BY <3>1
    <2>3. SendMessageToClient(v, h.msg, <<g>> \o t)
      BY <1>7 DEF DoEveryone
    <2>4. Calls(<<g>> \o t) = {g} \cup Calls(t)
      BY <1>1, CallsOf1
    <2>5. g.op = "everyone" /\ g.room = r /\ g.seat = i + 1 /\ g.msg = h.msg
      BY DEF Call
    <2>6. <<g>> \o t \in Seq(Frame \cup {g})
      <3> HIDE DEF g, t
      <3>1. t \in Seq(Frame \cup {g}) /\ g \in Frame \cup {g}
        BY <1>1
      <3> QED BY <3>1, Push
    <2>7. v \in User /\ belong[v] = r /\ v \in sess
      <3>1. i \in q.is_online
        <4> HIDE DEF on, i, q
        <4> QED BY <2>1, <2>2
      <3>2. Seated(q, r, belong)
        BY <1>2 DEF TInv, SeatsInv
      <3> HIDE DEF i, q, r, on
      <3>3. v \in User /\ belong[v] = r
        BY <3>1, <3>2 DEF Seated
      <3>4. v \in sess
        BY <1>2, <3>3 DEF TInv, UsersInv
      <3> QED BY <3>3, <3>4
    <2> HIDE DEF g, v, t
    <2>8. /\ stack' = <<g>> \o t /\ UNCHANGED <<belong, room>>
          /\ told' = [told EXCEPT ![v] = Receive(told[v], h.msg)]
      <3> HIDE DEF h
      <3> QED BY <1>1, <2>3, <2>6, <2>7, SendArrives
    <2>9. ASSUME NEW w \in User, belong[w] # 0
          PROVE  \/ told'[w] = Receive(told[w], h.msg) /\ Aims(h, belong[w], belong)
                 \/ /\ told'[w] = told[w]
                    /\ Reaches(h, w, belong[w], room[belong[w]]) => Reaches(g, w, belong[w], room[belong[w]])
      <3>1. CASE w = v
        <4>1. Aims(h, belong[w], belong)
          BY <1>1, <2>7, <3>1 DEF Aims
        <4> QED BY <1>3, <2>8, <3>1, <4>1
      <3>2. CASE w # v
        <4>1. told'[w] = told[w]
          BY <1>3, <2>8, <3>2
        <4>2. ASSUME Reaches(h, w, belong[w], room[belong[w]]), NEW k \in SeatsOf(room[belong[w]], w)
              PROVE  g.seat <= k
          <5>1. belong[w] = r /\ k \in on
            <6>1. belong[w] = r
              <7> HIDE DEF h, r
              <7> QED BY <1>4, <4>2
            <6>2. Reaches(h, w, r, q) /\ k \in SeatsOf(q, w)
              BY <4>2, <6>1
            <6> HIDE DEF h, r, q, on
            <6> QED BY <1>5, <6>1, <6>2
          <5>2. q.players[k] = w
            BY <5>1 DEF SeatsOf
          <5>3. k # i
            BY <3>2, <5>2 DEF v
          <5>4. i <= k /\ i \in Nat /\ k \in Nat
            BY <2>1, <2>2, <5>1
          <5> HIDE DEF i
          <5> QED BY <2>5, <5>3, <5>4
        <4>3. Reaches(h, w, belong[w], room[belong[w]]) => belong[w] = r
          <5> HIDE DEF h, r, q, on, i
          <5> QED BY <1>4
        <4> HIDE DEF h, r
        <4>4. Reaches(h, w, belong[w], room[belong[w]]) => Reaches(g, w, belong[w], room[belong[w]])
          BY <2>5, <4>2, <4>3 DEF Reaches
        <4> QED BY <4>1, <4>4
      <3> QED BY <3>1, <3>2
    <2>10. PICK T : T = Calls(t)
      OBVIOUS
    <2> HIDE DEF h
    <2>11. Calls(stack') = {g} \cup T /\ Calls(stack) = {h} \cup T
      BY <1>1, <2>4, <2>8, <2>10
    <2>12. \A f \in Calls(stack') : \/ f \in T
                                    \/ h.op = "everyone" /\ f.op = "everyone" /\ f.room = h.room /\ f.msg = h.msg
      BY <1>1, <2>5, <2>11
    <2>13. ASSUME NEW w \in User, belong[w] # 0
           PROVE  \/ told'[w] = Receive(told[w], h.msg) /\ Aims(h, belong[w], belong)
                  \/ /\ told'[w] = told[w]
                     /\ Reaches(h, w, belong[w], room[belong[w]]) =>
                          \E f \in Calls(stack') : Reaches(f, w, belong[w], room[belong[w]]) /\ f.msg = h.msg
      BY <2>5, <2>9, <2>11, <2>13
    <2>14. T \subseteq Calls(stack')
      BY <2>11
    <2> HIDE DEF r, q, on, i
    <2> QED BY <1>1, <2>8, <2>11, <2>12, <2>13, <2>14, Delivered
  <1> QED BY <1>6, <1>7

\* The second replies of MP_CSCreateRoom and MP_CSJoinRoom
LEMMA KnownAsked ==
    ASSUME IInv, TInv, KInv, DoCreateDetail \/ DoJoinDetail
    PROVE  KInv'
  <1> DEFINE h == Head(stack)
             t == Tail(stack)
             r == h.room
             d == DetailMsg(GetDetailInfo(room[r]))
  <1>1. UNCHANGED <<belong, room, told>>
    BY DEF DoCreateDetail, DoJoinDetail
  <1>2. stack # <<>>
    BY DEF DoCreateDetail, DoJoinDetail, Top
  <1>3. /\ t \in Seq(Frame) /\ Calls(stack) = {h} \cup Calls(t) /\ h \in SafeFrame
    <2>1. stack \in Seq(SafeFrame) /\ stack \in Seq(Frame)
      BY DEF IInv, PendingRoomsExist, TypeOK
    <2> QED BY <1>2, <2>1, Pop, CallsOfTop
  <1>4. ASSUME NEW g, stack' = <<g>> \o t, r \in rooms,
               \/ h.op = "createDetail" /\ g = Send(h.user, d)
               \/ h.op = "joinDetail" /\ g = Everyone(r, d)
        PROVE  KInv'
    <2>1. PICK T : T = Calls(t)
      OBVIOUS
    <2>2. Calls(<<g>> \o t) = {g} \cup Calls(t)
      BY <1>3, CallsOf1
    <2>3. Calls(stack) = {h} \cup T /\ Calls(stack') = {g} \cup T
      BY <1>3, <1>4, <2>1, <2>2
    <2> HIDE DEF h, t
    <2> QED BY <1>1, <1>4, <2>3, KnownDetail
  <1>5. CASE DoCreateDetail
    <2>1. h.op = "createDetail" /\ h \in Calls(stack)
      BY <1>3, <1>5 DEF DoCreateDetail, Top
    <2>2. CallTells(h, room, belong, Calls(stack))
      BY <2>1 DEF KInv, CallsTell
    <2>3. r \in rooms
      BY <1>3, <2>1, <2>2 DEF CallTells, SafeFrame
    <2>4. stack' = <<Send(h.user, d)>> \o t
      BY <1>5, <2>3 DEF DoCreateDetail
    <2> QED BY <1>4, <2>1, <2>3, <2>4
  <1>6. CASE DoJoinDetail
    <2>1. h.op = "joinDetail"
      BY <1>6 DEF DoJoinDetail, Top
    <2>2. r \in rooms
      BY <1>6, TopRoom DEF DoJoinDetail, RoomOp
    <2>3. stack' = <<Everyone(r, d)>> \o t
      BY <1>6, <2>2 DEF DoJoinDetail, JoinedRoom
    <2> QED BY <1>4, <2>1, <2>2, <2>3
  <1> QED BY <1>5, <1>6

\* Calls that tell nothing, and clear nothing that was told
LEMMA MuteOnes ==
    /\ \A u : Mute(UserCall("deleteClient", 0, u)) /\ Mute(UserCall("personGone", 0, u))
              /\ Mute(UserCall("leftWaiting", 0, u)) /\ Mute(UserCall("gameEndFrom", 0, u))
    /\ \A r, i : Mute(SeatCall("kick", r, i)) /\ Mute(SeatCall("leftLoading", r, i))
    /\ \A r : Mute(RoomCall("gameStart", r)) /\ Mute(RoomCall("onTick", r))
    /\ \A r : Mute(Everyone(r, Message("SCFrameMess"))) /\ Mute(Everyone(r, Message("SCPlayerExitRoom")))
    /\ \A r, i : Mute(Everyone(r, ExitGameMsg(i)))
    /\ \A u : \A id \in MsgId \ (PhaseMsg \cup {"SCPullOneRoomDetail"}) : Mute(Send(u, Message(id)))
  BY DEF Mute, PhaseMsg, MsgId, UserCall, SeatCall, RoomCall, Everyone, Send, Call, Message, ExitGameMsg

\* The frames that change no seat and no status and tell nothing new
LEMMA KnownRest ==
    ASSUME IInv, KInv, DoPersonGone \/ DoLeftWaiting \/ DoLeftLoading \/ DoOnTick \/ DoKick
    PROVE  KInv'
  <1> DEFINE h == Head(stack)
             t == Tail(stack)
             r == h.room
  <1>1. /\ t \in Seq(Frame) /\ Calls(stack) = {h} \cup Calls(t)
        /\ h.op \in {"personGone", "leftWaiting", "leftLoading", "onTick", "kick"}
    BY Pop, CallsOfTop DEF DoPersonGone, DoLeftWaiting, DoLeftLoading, DoOnTick, DoKick, Top, IInv, TypeOK
  <1>2. Mute(h)
    BY <1>1 DEF Mute
  <1>3. UNCHANGED <<belong, told>>
    BY DEF DoPersonGone, DoLeftWaiting, DoLeftLoading, DoOnTick, DoKick
  <1>4. \A s \in Room : Alike(room'[s], room[s])
    <2>1. CASE room' = room
      BY <2>1 DEF Alike
    <2>2. CASE DoLeftLoading
      <3>1. PICK a, b : room' = room \/ room' = [room EXCEPT ![r] =
                          [room[r] EXCEPT !.is_loading_succeed = a, !.loading_succeed_cnt = b]]
        BY <2>2 DEF DoLeftLoading
      <3>2. PICK x : x = [room[r] EXCEPT !.is_loading_succeed = a, !.loading_succeed_cnt = b]
        OBVIOUS
      <3>3. r \in Room /\ room[r] \in RoomRec
        BY <2>2, TopRoom DEF DoLeftLoading, RoomOp
      <3>4. Alike(x, room[r])
        BY <3>2, <3>3 DEF Alike, RoomRec
      <3>5. \A s \in Room : room'[s] = room[s] \/ (s = r /\ room'[s] = x)
        <4>1. room' = room \/ room' = [room EXCEPT ![r] = x]
          BY <3>1, <3>2
        <4> QED BY <4>1 DEF IInv, TypeOK
      <3>6. \A q : Alike(q, q)
        BY DEF Alike
      <3> QED BY <3>4, <3>5, <3>6
    <2> QED BY <2>1, <2>2 DEF DoPersonGone, DoLeftWaiting, DoOnTick, DoKick
  <1>5. \/ stack' = t \/ \E g : stack' = <<g>> \o t /\ Mute(g)
        \/ \E f, g : stack' = <<f, g>> \o t /\ Mute(f) /\ Mute(g)
    <2>1. CASE DoPersonGone \/ DoLeftWaiting
      BY <2>1 DEF DoPersonGone, DoLeftWaiting
    <2>2. CASE DoLeftLoading
      <3>1. stack' = t \/ stack' = <<RoomCall("gameStart", r)>> \o t
        BY <2>2 DEF DoLeftLoading
      <3> QED BY <3>1, MuteOnes
    <2>3. CASE DoOnTick
      <3>1. stack' = t \/ stack' = <<SeatCall("kick", r, 1)>> \o t
            \/ stack' = <<Everyone(r, Message("SCFrameMess"))>> \o t
        BY <2>3 DEF DoOnTick
      <3> QED BY <3>1, MuteOnes
    <2>4. CASE DoKick
      <3>1. PICK v, i : \/ stack' = <<RoomCall("gameStart", r)>> \o t
                        \/ stack' = <<UserCall("deleteClient", 0, v), SeatCall("kick", r, i)>> \o t
        BY <2>4 DEF DoKick
      <3> QED BY <3>1, MuteOnes
    <2> QED BY <2>1, <2>2, <2>3, <2>4
  <1>6. /\ \A f \in Calls(stack) : f \in Calls(stack') \/ Mute(f)
        /\ \A f \in Calls(stack') : f \in Calls(stack) \/ Mute(f)
    <2>1. \A f : Calls(<<f>> \o t) = {f} \cup Calls(t)
      BY <1>1, CallsOf1
    <2>2. \A f, g : Calls(<<f, g>> \o t) = {f, g} \cup Calls(t)
      BY <1>1, CallsOf2
    <2>3. Calls(t) \subseteq Calls(stack') /\ \A f \in Calls(stack') : f \in Calls(t) \/ Mute(f)
      <3> HIDE DEF t
      <3>1. CASE stack' = t
        BY <3>1
      <3>2. ASSUME NEW g, stack' = <<g>> \o t, Mute(g)
            PROVE  Calls(t) \subseteq Calls(stack') /\ \A f \in Calls(stack') : f \in Calls(t) \/ Mute(f)
        <4>1. Calls(stack') = {g} \cup Calls(t)
          BY <2>1, <3>2
        <4> QED BY <3>2, <4>1
      <3>3. ASSUME NEW k, NEW g, stack' = <<k, g>> \o t, Mute(k), Mute(g)
            PROVE  Calls(t) \subseteq Calls(stack') /\ \A f \in Calls(stack') : f \in Calls(t) \/ Mute(f)
        <4>1. Calls(stack') = {k, g} \cup Calls(t)
          BY <2>2, <3>3
        <4> QED BY <3>3, <4>1
      <3> QED BY <1>5, <3>1, <3>2, <3>3
    <2> HIDE DEF t, h
    <2> QED BY <1>1, <1>2, <2>3
  <1> QED BY <1>3, <1>4, <1>6, KnownSame

\* What lies under a deletion, or under the start of a game, tells nothing.
LEMMA UnderMute ==
    \A f : /\ f.op \in {"onTick", "kick", "everyone", "deleteClient", "personGone"}
           /\ f.op = "everyone" => f.msg.id = "SCPlayerExitRoom"
           => Mute(f)
  BY DEF Mute, PhaseMsg

\* Room::SendGameStart and the ends of SendGameLoading and SendGameStart
LEMMA KnownStarts ==
    ASSUME IInv, TInv, Sorted(stack), KInv, DoGameStart \/ DoStartSet \/ DoLoadingSet
    PROVE  KInv'
  <1> DEFINE h == Head(stack)
             t == Tail(stack)
             r == h.room
  <1>1. CASE DoGameStart
    <2>1. /\ t \in Seq(Frame) /\ Calls(stack) = {h} \cup Calls(t) /\ h.op = "gameStart"
          /\ \A f \in Calls(t) : /\ f.op \in {"onTick", "kick", "everyone", "deleteClient", "personGone"}
                                 /\ f.op = "everyone" => f.msg.id = "SCPlayerExitRoom"
      BY <1>1, UnderSecond DEF DoGameStart
    <2>2. \A f \in Calls(stack) : Mute(f)
      <3>1. Mute(h)
        BY <2>1 DEF Mute
      <3> QED BY <2>1, <3>1, UnderMute
    <2>3. r \in Room /\ UNCHANGED <<belong, room, told>>
      BY <1>1, TopRoom DEF DoGameStart, RoomOp
    <2>4. CASE room[r].status # "loading"
      <3>1. stack' = t
        BY <1>1, <2>4 DEF DoGameStart
      <3>2. \A s \in Room : Alike(room'[s], room[s])
        BY <2>3 DEF Alike
      <3> QED BY <2>1, <2>2, <2>3, <3>1, <3>2, KnownSame
    <2>5. CASE room[r].status = "loading"
      <3>1. PICK f, g : f = Everyone(r, Message("SCGameStart")) /\ g = RoomCall("startSet", r)
        OBVIOUS
      <3>2. stack' = <<f, g>> \o t
        BY <1>1, <2>5, <3>1 DEF DoGameStart
      <3>3. Calls(stack') = {f, g} \cup Calls(t)
        BY <2>1, <3>2, CallsOf2
      <3>4. \A k \in Calls(t) : Mute(k)
        BY <2>1, <2>2
      <3>5. \A k \in Calls(stack') : Mute(k) \/ k = f \/ k = g
        BY <3>3, <3>4
      <3>6. f \in Calls(stack') /\ g \in Calls(stack')
        BY <3>3
      <3> HIDE DEF r, t, h
      <3> QED BY <2>2, <2>3, <3>1, <3>5, <3>6, KnownPhase
    <2> QED BY <2>4, <2>5
  <1>2. CASE DoStartSet
    <2>1. /\ t \in Seq(Frame) /\ Calls(stack) = {h} \cup Calls(t) /\ h.op = "startSet"
          /\ \A f \in Calls(t) : /\ f.op \in {"onTick", "kick", "everyone", "deleteClient", "personGone"}
                                 /\ f.op = "everyone" => f.msg.id = "SCPlayerExitRoom"
      BY <1>2, UnderSecond DEF DoStartSet
    <2>2. \A f \in Calls(t) : Mute(f)
      BY <2>1, UnderMute
    <2>3. r \in Room /\ room[r] \in RoomRec
      BY <1>2, TopRoom DEF DoStartSet, RoomOp
    <2>4. PICK x : x = [room[r] EXCEPT !.status = "ingame"]
      OBVIOUS
    <2>5. room' = [room EXCEPT ![r] = x] /\ stack' = t /\ UNCHANGED <<belong, told>>
      BY <1>2, <2>4 DEF DoStartSet
    <2>6. /\ x.status = "ingame" /\ x.players = room[r].players
          /\ x.player_cnt = room[r].player_cnt /\ x.is_online = room[r].is_online
      BY <2>3, <2>4 DEF RoomRec
    <2>7. Calls(stack) = {h} \cup Calls(stack') /\ \A f \in Calls(stack') : Mute(f)
      BY <2>1, <2>2, <2>5
    <2> QED BY <2>1, <2>3, <2>5, <2>6, <2>7, KnownSet
  <1>3. CASE DoLoadingSet
    <2>1. stack \in Seq(Frame) /\ stack # <<>> /\ h.op = "loadingSet" /\ stack' = t
      BY <1>3 DEF DoLoadingSet, Top, IInv, TypeOK
    <2>2. stack' = <<>> /\ Calls(stack) = {h} \cup Calls(t)
      BY <2>1, PopOne, CallsOfTop DEF TInv, EndInv, LastOp
    <2>3. Calls(stack') = {} /\ Calls(stack) = {h} \cup Calls(stack')
      BY <2>1, <2>2, CallsOfShort
    <2>4. r \in Room /\ room[r] \in RoomRec
      BY <1>3, TopRoom DEF DoLoadingSet, RoomOp
    <2>5. PICK x : x = LoadingRoom(room[r])
      OBVIOUS
    <2>6. room' = [room EXCEPT ![r] = x] /\ UNCHANGED <<belong, told>>
      BY <1>3, <2>5 DEF DoLoadingSet
    <2>7. /\ x.status = "loading" /\ x.players = room[r].players
          /\ x.player_cnt = room[r].player_cnt /\ x.is_online = room[r].is_online
      BY <2>4, <2>5 DEF LoadingRoom, RoomRec
    <2>8. \A f \in Calls(stack') : Mute(f)
      BY <2>3
    <2> QED BY <2>1, <2>3, <2>4, <2>6, <2>7, <2>8, KnownSet
  <1> QED BY <1>1, <1>2, <1>3

\* A user who is in no room is forgotten.
LEMMA KnownNobody ==
    ASSUME IInv, KInv, \A f \in Calls(stack) : Mute(f), \A f \in Calls(stack') : Mute(f), room' = room,
           NEW u \in User, belong[u] = 0, belong' = [belong EXCEPT ![u] = 0],
           told' = [told EXCEPT ![u] = Untold]
    PROVE  KInv'
  <1>1. belong' = belong
    BY DEF IInv, TypeOK
  <1>2. \A w \in User : belong[w] # 0 => told'[w] = told[w]
    BY DEF IInv, TypeOK
  <1>3. \A s \in Room : Alike(room'[s], room[s])
    BY DEF Alike
  <1> QED BY <1>1, <1>2, <1>3, KnownSame

\* RoomManager::DeletePlayerFromRoom
LEMMA KnownGone ==
    ASSUME IInv, TInv, KInv, \A f \in Calls(stack) : Mute(f), NEW u \in User,
           NEW S, NEW rest \in Seq(S), \A f \in Calls(rest) : Mute(f), DeletePlayerFromRoom(u, rest)
    PROVE  KInv'
  <1> DEFINE r == belong[u]
             pos == GetPlayerID(room[r], u)
  <1>1. belong' = [belong EXCEPT ![u] = 0] /\ told' = [told EXCEPT ![u] = Untold]
    BY DEF DeletePlayerFromRoom
  <1>2. CASE r = 0
    <2>1. stack' = rest /\ room' = room
      BY <1>2 DEF DeletePlayerFromRoom
    <2> QED BY <1>1, <1>2, <2>1, KnownNobody
  <1>3. CASE r # 0
    <2>1. pos # 0
      BY <1>3, MemberFound
    <2>2. /\ room' = [room EXCEPT ![r] = DeletePlayer(room[r], pos)]
          /\ stack' = DeletePlayerCalls(r, u, pos) \o rest
      BY <1>3, <2>1 DEF DeletePlayerFromRoom
    <2>3. \A w \in User : w # u => told'[w] = told[w]
      BY <1>1 DEF IInv, TypeOK
    <2>4. PICK e, g, k, l : /\ e = Everyone(r, LeaveDetail(r, pos)) /\ g = UserCall("leftWaiting", 0, u)
                            /\ k = Everyone(r, ExitGameMsg(pos)) /\ l = SeatCall("leftLoading", r, pos)
      OBVIOUS
    <2>5. Mute(g) /\ Mute(k) /\ Mute(l)
      BY <2>4, MuteOnes
    <2>6. /\ room[r].status = "waiting" => e \in Calls(stack')
          /\ \A f \in Calls(stack') : Mute(f) \/ (room[r].status = "waiting" /\ f = e)
      <3>1. CASE room[r].status = "waiting"
        <4>1. stack' = <<e, g>> \o rest
          BY <2>2, <2>4, <3>1 DEF DeletePlayerCalls
        <4>2. Calls(stack') = {e, g} \cup Calls(rest)
          BY <4>1, CallsOf2
        <4> QED BY <2>5, <3>1, <4>2
      <3>2. CASE room[r].status = "loading"
        <4>1. stack' = <<k, l>> \o rest
          BY <2>2, <2>4, <3>2 DEF DeletePlayerCalls
        <4>2. Calls(stack') = {k, l} \cup Calls(rest)
          BY <4>1, CallsOf2
        <4> QED BY <2>5, <3>2, <4>2
      <3>3. CASE room[r].status # "waiting" /\ room[r].status # "loading"
        <4>1. stack' = <<>> \o rest
          BY <2>2, <3>3 DEF DeletePlayerCalls
        <4>2. stack' = rest
          BY <4>1
        <4> QED BY <3>3, <4>2
      <3> QED BY <3>1, <3>2, <3>3
    <2> HIDE DEF pos
    <2> QED BY <1>1, <1>3, <2>2, <2>3, <2>4, <2>6, KnownLeave DEF pos
  <1> QED BY <1>2, <1>3

\* MessageHandler::DeleteClientByFD
LEMMA KnownDelete ==
    ASSUME IInv, TInv, Sorted(stack), KInv, DoDeleteClient
    PROVE  KInv'
  <1> DEFINE h == Head(stack)
             t == Tail(stack)
             u == h.user
  <1>1. PICK p : p = UserCall("personGone", 0, u)
    OBVIOUS
  <1>2. /\ t \in Seq(Frame) /\ Calls(stack) = {h} \cup Calls(t) /\ h.op = "deleteClient"
        /\ \A f \in Calls(t) : f.op \in {"onTick", "kick"} \/ (f.op = "everyone" /\ f.msg.id = "SCPlayerExitRoom")
    BY UnderDelete DEF DoDeleteClient
  <1>3. \A f \in Calls(t) : Mute(f)
    BY <1>2, UnderMute
  <1>4. \A f \in Calls(stack) : Mute(f)
    <2>1. Mute(h)
      BY <1>2 DEF Mute
    <2> QED BY <1>2, <1>3, <2>1
  <1>5. <<p>> \o t \in Seq(Frame \cup {p}) /\ \A f \in Calls(<<p>> \o t) : Mute(f)
    <2>1. Calls(<<p>> \o t) = {p} \cup Calls(t)
      BY <1>2, CallsOf1
    <2>2. Mute(p)
      BY <1>1, MuteOnes
    <2>3. <<p>> \o t \in Seq(Frame \cup {p})
      <3> HIDE DEF t
      <3>1. t \in Seq(Frame \cup {p}) /\ p \in Frame \cup {p}
        BY <1>2
      <3> QED BY <3>1, Push
    <2> QED BY <1>3, <2>1, <2>2, <2>3
  <1>6. CASE u \notin sess \/ person[u] # "room"
    <2>1. UNCHANGED <<belong, room, told>> /\ (stack' = t \/ stack' = <<p>> \o t)
      BY <1>1, <1>6 DEF DoDeleteClient
    <2>2. \A f \in Calls(stack') : Mute(f)
      <3> HIDE DEF t
      <3> QED BY <1>3, <1>5, <2>1
    <2>3. \A s \in Room : Alike(room'[s], room[s])
      BY <2>1 DEF Alike
    <2> QED BY <1>4, <2>1, <2>2, <2>3, KnownSame
  <1>7. CASE u \in sess /\ person[u] = "room"
    <2>1. DeletePlayerFromRoom(u, <<p>> \o t)
      BY <1>1, <1>7 DEF DoDeleteClient
    <2>2. u \in User
      BY <1>7 DEF IInv, TypeOK
    <2> HIDE DEF t, u
    <2> QED BY <1>4, <1>5, <2>1, <2>2, KnownGone
  <1> QED BY <1>6, <1>7

\* RoomManager::GameEndFromRoom
LEMMA KnownGameEnd ==
    ASSUME IInv, TInv, KInv, DoGameEndFrom
    PROVE  KInv'
  <1> DEFINE h == Head(stack)
             u == h.user
             s == belong[u]
             pos == GetPlayerID(room[s], u)
  <1>1. stack \in Seq(Frame) /\ stack # <<>> /\ h.op = "gameEndFrom" /\ stack' = Tail(stack) /\ u \in User
    BY RestOK DEF DoGameEndFrom, Top, IInv, TypeOK, Frame, UserOp
  <1>2. stack' = <<>> /\ Calls(stack) = {h} \cup Calls(Tail(stack)) /\ u \in OnStack("gameEndFrom", stack)
    BY <1>1, PopOne, CallsOfTop DEF TInv, EndInv, LastOp
  <1>3. Calls(stack) = {h} /\ Calls(stack') = {}
    BY <1>1, <1>2, CallsOfShort
  <1>4. Mute(h)
    BY <1>1 DEF Mute
  <1>5. belong' = [belong EXCEPT ![u] = 0] /\ told' = [told EXCEPT ![u] = Untold]
    BY DEF DoGameEndFrom
  <1>6. CASE s = 0
    <2>1. room' = room
      BY <1>6 DEF DoGameEndFrom
    <2> HIDE DEF h
    <2> QED BY <1>1, <1>3, <1>4, <1>5, <1>6, <2>1, KnownNobody
  <1>7. CASE s # 0
    <2>1. s \in Room /\ room[s] \in RoomRec /\ pos # 0
      BY <1>1, <1>7, MemberFound
    <2>2. room[s].status = "ingame"
      BY <1>1, <1>2, <1>7 DEF TInv, EndInv
    <2>3. room' = [room EXCEPT ![s] = DeletePlayer(room[s], pos)]
      BY <1>7, <2>1, <2>2 DEF DoGameEndFrom, DeletePlayer
    <2>4. \A w \in User : w # u => told'[w] = told[w]
      BY <1>5 DEF IInv, TypeOK
    <2>5. (\A f \in Calls(stack) : Mute(f)) /\ Calls(stack') = {}
      BY <1>3, <1>4
    <2>6. room[s].status # "waiting"
      BY <2>2
    <2> HIDE DEF h, u, s, pos
    <2> QED BY <1>1, <1>5, <1>7, <2>3, <2>4, <2>5, <2>6, KnownLeave DEF pos, s
  <1> QED BY <1>6, <1>7

\* A handler, or the tick, begins with calls that tell nothing.
LEMMA KnownIdle ==
    ASSUME IInv, KInv, stack = <<>>, UNCHANGED <<belong, told>>, \A s \in Room : Alike(room'[s], room[s]),
           \A f \in Calls(stack') : Mute(f)
    PROVE  KInv'
  <1>1. Calls(stack) = {}
    BY CallsOfShort
  <1> QED BY <1>1, KnownSame

\* The handlers that tell nobody about a room
LEMMA KnownHandlers ==
    ASSUME IInv, KInv, NEW u \in User, NEW m, NEW r,
           \/ CSLogin(u) \/ Disconnect(u) \/ CSPullAllRoomInfo(u) \/ CSGameEnd(u)
           \/ CSJoinRoom(u, r) /\ ~CanJoin(u, r)
           \/ CSCreateRoom(u, m) /\ belong[u] # 0
    PROVE  KInv'
  <1> USE DEF Serve, Idle
  <1>1. stack = <<>> /\ UNCHANGED <<belong, room, told>>
    BY DEF CSLogin, Disconnect, CSPullAllRoomInfo, CSGameEnd, CSJoinRoom, CSCreateRoom
  <1>2. \/ \E id \in MsgId \ (PhaseMsg \cup {"SCPullOneRoomDetail"}) : stack' = <<Send(u, Message(id))>>
        \/ stack' = <<UserCall("deleteClient", 0, u)>>
        \/ stack' = <<Send(u, Message("SCGameEnd")), UserCall("gameEndFrom", 0, u)>>
    <2>1. {"SCLogin", "SCPullAllRoomInfo", "SCJoinRoomFailed", "SCCreateRoomFailed", "SCGameEnd"}
             \subseteq MsgId \ (PhaseMsg \cup {"SCPullOneRoomDetail"})
      BY DEF MsgId, PhaseMsg
    <2>2. \/ \E id \in {"SCLogin", "SCPullAllRoomInfo", "SCJoinRoomFailed", "SCCreateRoomFailed"} :
               stack' = <<Send(u, Message(id))>>
          \/ stack' = <<UserCall("deleteClient", 0, u)>>
          \/ stack' = <<Send(u, Message("SCGameEnd")), UserCall("gameEndFrom", 0, u)>>
      BY DEF CSLogin, Disconnect, CSPullAllRoomInfo, CSGameEnd, CSJoinRoom, CSCreateRoom
    <2> QED BY <2>1, <2>2
  <1>3. \A f \in Calls(stack') : Mute(f)
    <2>1. CASE \E id \in MsgId \ (PhaseMsg \cup {"SCPullOneRoomDetail"}) : stack' = <<Send(u, Message(id))>>
      BY <2>1, MuteOnes, CallsOfShort
    <2>2. CASE stack' = <<UserCall("deleteClient", 0, u)>>
      BY <2>2, MuteOnes, CallsOfShort
    <2>3. CASE stack' = <<Send(u, Message("SCGameEnd")), UserCall("gameEndFrom", 0, u)>>
      <3>1. PICK f, g : f = Send(u, Message("SCGameEnd")) /\ g = UserCall("gameEndFrom", 0, u)
        OBVIOUS
      <3>2. "SCGameEnd" \in MsgId \ (PhaseMsg \cup {"SCPullOneRoomDetail"})
        BY DEF MsgId, PhaseMsg
      <3>3. Mute(f) /\ Mute(g)
        BY <3>1, <3>2, MuteOnes
      <3>4. Calls(stack') = {f, g}
        BY <2>3, <3>1, CallsOfShort
      <3> QED BY <3>3, <3>4
    <2> QED BY <1>2, <2>1, <2>2, <2>3
  <1>4. \A s \in Room : Alike(room'[s], room[s])
    BY <1>1 DEF Alike
  <1> QED BY <1>1, <1>3, <1>4, KnownIdle

\* MP_CSLoadSucceed
LEMMA KnownLoaded ==
    ASSUME IInv, KInv, NEW u \in User, CSLoadSucceed(u)
    PROVE  KInv'
  <1> DEFINE r == belong[u]
             pos == GetPlayerID(room[r], u)
  <1>1. stack = <<>> /\ UNCHANGED <<belong, told>> /\ r # 0
    BY DEF CSLoadSucceed, Serve, Idle
  <1>2. r \in Room /\ room[r] \in RoomRec
    BY <1>1, MemberFound
  <1>3. PICK x : x = [room[r] EXCEPT !.is_loading_succeed = room[r].is_loading_succeed \cup {pos},
                                     !.loading_succeed_cnt = room[r].loading_succeed_cnt + 1]
    OBVIOUS
  <1>4. room' = [room EXCEPT ![r] = x] /\ (stack' = <<RoomCall("gameStart", r)>> \/ stack' = <<>>)
    BY <1>3 DEF CSLoadSucceed, Serve
  <1>5. Alike(x, room[r]) /\ \A q : Alike(q, q)
    BY <1>2, <1>3 DEF Alike, RoomRec
  <1>6. \A s \in Room : Alike(room'[s], room[s])
    <2>1. \A s \in Room : room'[s] = IF s = r THEN x ELSE room[s]
      BY <1>4 DEF IInv, TypeOK
    <2> QED BY <1>5, <2>1
  <1>7. \A f \in Calls(stack') : Mute(f)
    BY <1>4, MuteOnes, CallsOfShort
  <1> QED BY <1>1, <1>6, <1>7, KnownIdle

\* The tick and the clock
LEMMA KnownTicks ==
    ASSUME IInv, KInv, NEW r, Return \/ Tick \/ TickNext \/ (r \in Room /\ LoadingTimePasses(r))
    PROVE  KInv'
  <1>1. stack = <<>> /\ UNCHANGED <<belong, told>>
    BY DEF Return, Tick, TickNext, LoadingTimePasses, Idle
  <1>2. stack' = <<>> \/ \E s : stack' = <<RoomCall("onTick", s)>>
    BY <1>1 DEF Return, Tick, TickNext, LoadingTimePasses, Visit
  <1>3. \A f \in Calls(stack') : Mute(f)
    BY <1>2, MuteOnes, CallsOfShort
  <1>4. \A q : Alike(q, q)
    BY DEF Alike
  <1>5. \A s \in Room : Alike(room'[s], room[s])
    <2>1. CASE Return \/ Tick \/ TickNext
      BY <1>4, <2>1 DEF Return, Tick, TickNext
    <2>2. CASE r \in Room /\ LoadingTimePasses(r)
      <3>1. PICK x : x = [room[r] EXCEPT !.late = TRUE] /\ room' = [room EXCEPT ![r] = x]
        BY <2>2 DEF LoadingTimePasses
      <3>2. Alike(x, room[r])
        BY <2>2, <3>1 DEF Alike, RoomRec, IInv, TypeOK
      <3>3. \A s \in Room : room'[s] = IF s = r THEN x ELSE room[s]
        BY <3>1 DEF IInv, TypeOK
      <3> QED BY <1>4, <3>2, <3>3
    <2> QED BY <2>1, <2>2
  <1> QED BY <1>1, <1>3, <1>5, KnownIdle

\* The handlers that tell a room of a change, of the start of loading, or that
\* a player has left
LEMMA KnownTold ==
    ASSUME IInv, TInv, KInv, NEW u \in User, NEW v,
           \/ CSChangeTeam(u, v) \/ CSChangeOption(u, v) \/ CSReadyToStart(u) \/ CSPlayerExitRoom(u)
    PROVE  KInv'
  <1> USE DEF Serve, Idle
  <1> DEFINE r == belong[u]
  <1>1. stack = <<>> /\ Calls(stack) = {}
    BY CallsOfShort DEF CSChangeTeam, CSChangeOption, CSReadyToStart, CSPlayerExitRoom
  <1>2. r # 0 => r \in rooms /\ r \in Room /\ room[r] \in RoomRec
    BY MemberFound
  <1>3. CASE CSChangeTeam(u, v) \/ CSChangeOption(u, v)
    <2>1. PICK x : /\ r # 0 /\ room' = [room EXCEPT ![r] = x] /\ room[r].status = "waiting"
                   /\ (\E a : x = [room[r] EXCEPT !.team_id = a]) \/ x = room[r]
                      \/ x = [room[r] EXCEPT !.game_option = v]
                   /\ stack' = <<Everyone(r, DetailMsg(GetDetailInfo(x)))>>
      BY <1>3 DEF CSChangeTeam, CSChangeOption
    <2>2. /\ x.status = room[r].status /\ x.players = room[r].players /\ x.player_cnt = room[r].player_cnt
          /\ x.is_online = room[r].is_online
      BY <1>2, <2>1 DEF RoomRec
    <2>3. UNCHANGED <<told, belong, person>>
      BY <1>3 DEF CSChangeTeam, CSChangeOption
    <2>4. PICK f : f = Everyone(r, DetailMsg(GetDetailInfo(x)))
      OBVIOUS
    <2>5. Calls(stack') = {f}
      BY <2>1, <2>4, CallsOfShort
    <2> HIDE DEF r
    <2> QED BY <1>1, <1>2, <2>1, <2>2, <2>3, <2>4, <2>5, KnownChange
  <1>4. CASE CSReadyToStart(u)
    <2>1. PICK f, g : f = Everyone(r, Message("SCGameLoading")) /\ g = RoomCall("loadingSet", r)
      OBVIOUS
    <2>2. r # 0 /\ stack' = <<f, g>> /\ UNCHANGED <<belong, room, told>>
      BY <1>4, <2>1 DEF CSReadyToStart
    <2>3. Calls(stack') = {f, g}
      BY <2>2, CallsOfShort
    <2>4. \A k \in Calls(stack') : Mute(k) \/ k = f \/ k = g
      BY <2>3
    <2>5. f \in Calls(stack') /\ g \in Calls(stack')
      BY <2>3
    <2> HIDE DEF r
    <2> QED BY <1>1, <1>2, <2>1, <2>2, <2>4, <2>5, KnownPhase
  <1>5. CASE CSPlayerExitRoom(u)
    <2>1. PICK h : h = Everyone(r, Message("SCPlayerExitRoom"))
      OBVIOUS
    <2>2. Calls(<<h>>) = {h} /\ Mute(h)
      BY <2>1, CallsOfShort, MuteOnes
    <2>3. CASE r # 0 /\ room[r].status = "waiting"
      <3>1. DeletePlayerFromRoom(u, <<h>>)
        BY <1>5, <2>1, <2>3 DEF CSPlayerExitRoom
      <3>2. <<h>> \in Seq({h}) /\ \A f \in Calls(<<h>>) : Mute(f)
        BY <2>2
      <3> HIDE DEF r
      <3> QED BY <1>1, <3>1, <3>2, KnownGone
    <2>4. CASE ~(r # 0 /\ room[r].status = "waiting")
      <3>1. UNCHANGED <<belong, room, told>> /\ (stack' = <<>> \/ stack' = <<h>>)
        BY <1>1, <1>5, <2>1, <2>4 DEF CSPlayerExitRoom
      <3>2. \A f \in Calls(stack') : Mute(f)
        BY <2>2, <3>1, CallsOfShort
      <3>3. \A s \in Room : Alike(room'[s], room[s])
        BY <3>1 DEF Alike
      <3> QED BY <1>1, <3>1, <3>2, <3>3, KnownIdle
    <2> QED BY <2>3, <2>4
  <1> QED BY <1>3, <1>4, <1>5

\* MP_CSJoinRoom and MP_CSCreateRoom let the user in.
LEMMA KnownIn ==
    ASSUME IInv, KInv, NEW u \in User, NEW s, NEW m,
           \/ s \in Room /\ CSJoinRoom(u, s) /\ CanJoin(u, s)
           \/ CSCreateRoom(u, m) /\ belong[u] = 0
    PROVE  KInv'
  <1>1. CASE s \in Room /\ CSJoinRoom(u, s) /\ CanJoin(u, s)
    <2>1. PICK x : x = AddPlayer(room[s], u)
      OBVIOUS
    <2>2. PICK f, g : f = Send(u, Message("SCJoinRoom")) /\ g = RoomCall("joinDetail", s)
      OBVIOUS
    <2>3. /\ stack = <<>> /\ told' = told /\ belong' = [belong EXCEPT ![u] = s]
          /\ room' = [room EXCEPT ![s] = x] /\ stack' = <<f, g>> /\ room[s].status = "waiting"
      BY <1>1, <2>1, <2>2 DEF CSJoinRoom, CanJoin, Serve, Idle
    <2>4. x.status = "waiting"
      BY <1>1, <2>1, <2>3 DEF AddPlayer, RoomRec, IInv, TypeOK
    <2>5. Calls(stack') = {f, g}
      BY <2>3, CallsOfShort
    <2>6. f.op = "send" /\ f.user = u /\ f.msg.id = "SCJoinRoom"
      BY <2>2 DEF Send, Call, Message
    <2>7. g.op = "joinDetail" /\ g.room = s
      BY <2>2 DEF RoomCall, Call
    <2>8. Enters(u, s, x, f, g)
      BY <2>3, <2>4, <2>5, <2>6, <2>7 DEF Enters
    <2> QED BY <1>1, <2>8, KnownEnter
  <1>2. CASE CSCreateRoom(u, m) /\ belong[u] = 0
    <2>1. PICK r : r = IF freeRoom # <<>> THEN Head(freeRoom) ELSE nextRoom
      OBVIOUS
    <2>2. PICK x : x = AddPlayer(InitRoom(room[r], m), u)
      OBVIOUS
    <2>3. PICK f, g : f = Send(u, Message("SCCreateRoom")) /\ g = UserCall("createDetail", r, u)
      OBVIOUS
    <2>4. /\ stack = <<>> /\ told' = told /\ belong' = [belong EXCEPT ![u] = r]
          /\ room' = [room EXCEPT ![r] = x] /\ stack' = <<f, g>> /\ (freeRoom # <<>> \/ nextRoom <= MaxRoom)
      BY <1>2, <2>1, <2>2, <2>3 DEF CSCreateRoom, Idle
    <2>5. r \in Room /\ r \notin rooms
      <3>1. freeRoom \in Seq(Room) /\ nextRoom \in 1..MaxRoom + 1 /\ FreeRoomsApart /\ rooms \subseteq Room
        BY DEF IInv, TypeOK
      <3>2. CASE freeRoom # <<>>
        <4>1. Head(freeRoom) = freeRoom[1] /\ 1 \in 1..Len(freeRoom) /\ Head(freeRoom) \in Room
          BY <3>1, <3>2
        <4> QED BY <2>1, <3>1, <3>2, <4>1 DEF FreeRoomsApart
      <3>3. CASE freeRoom = <<>>
        BY <2>1, <2>4, <3>1, <3>3, ConstantsAssumption DEF FreeRoomsApart, Room
      <3> QED BY <3>2, <3>3
    <2>6. x.status = "waiting"
      BY <2>2 DEF AddPlayer, InitRoom
    <2>7. \A w \in User : belong[w] # r
      <3>1. \A w \in User : belong[w] # 0 => belong[w] \in rooms
        BY MemberFound
      <3> QED BY <2>5, <3>1 DEF Room
    <2>8. Calls(stack') = {f, g}
      BY <2>4, CallsOfShort
    <2>9. f.op = "send" /\ f.user = u /\ f.msg.id = "SCCreateRoom"
      BY <2>3 DEF Send, Call, Message
    <2>10. g.op = "createDetail" /\ g.room = r /\ g.user = u
      BY <2>3 DEF UserCall, Call
    <2>11. Enters(u, r, x, f, g)
      BY <2>4, <2>6, <2>7, <2>8, <2>9, <2>10 DEF Enters
    <2> QED BY <2>5, <2>11, KnownEnter
  <1> QED BY <1>1, <1>2

\* No step that writes without failure leaves anybody out.
LEMMA KnownStep ==
    ASSUME SendResult \subseteq {"ok", "error"}, IInv, TInv, Sorted(stack), KInv, Next, ~WriteFails
    PROVE  KInv'
  <1>1. ASSUME Step PROVE KInv'
    <2>1. CASE DoSend
      BY <2>1, KnownSend
    <2>2. CASE DoEveryone
      BY <2>2, KnownEveryone
    <2>3. CASE DoCreateDetail \/ DoJoinDetail
      BY <2>3, KnownAsked
    <2>4. CASE DoDeleteClient
      BY <2>4, KnownDelete
    <2>5. CASE DoPersonGone \/ DoLeftWaiting \/ DoLeftLoading \/ DoOnTick \/ DoKick
      BY <2>5, KnownRest
    <2>6. CASE DoGameStart \/ DoStartSet \/ DoLoadingSet
      BY <2>6, KnownStarts
    <2>7. CASE DoGameEndFrom
      BY <2>7, KnownGameEnd
    <2> QED BY <1>1, <2>1, <2>2, <2>3, <2>4, <2>5, <2>6, <2>7 DEF Step
  <1>2. ASSUME Return \/ Tick \/ TickNext PROVE KInv'
    BY <1>2, KnownTicks
  <1>3. ASSUME NEW r \in Room, LoadingTimePasses(r) PROVE KInv'
    BY <1>3, KnownTicks
  <1>4. ASSUME NEW u \in User, Event(u) PROVE KInv'
    <2>1. CASE CSLogin(u) \/ Disconnect(u) \/ CSPullAllRoomInfo(u) \/ CSGameEnd(u)
      BY <2>1, KnownHandlers
    <2>2. ASSUME NEW m \in TeamMode, CSCreateRoom(u, m) PROVE KInv'
      BY <2>2, KnownHandlers, KnownIn
    <2>3. ASSUME NEW s \in Room, CSJoinRoom(u, s) PROVE KInv'
      BY <2>3, KnownHandlers, KnownIn
    <2>4. ASSUME NEW v, CSChangeTeam(u, v) \/ CSChangeOption(u, v) PROVE KInv'
      BY <2>4, KnownTold
    <2>5. CASE CSReadyToStart(u) \/ CSPlayerExitRoom(u)
      BY <2>5, KnownTold
    <2>6. CASE CSLoadSucceed(u)
      BY <2>6, KnownLoaded
    <2> QED BY <1>4, <2>1, <2>2, <2>3, <2>4, <2>5, <2>6 DEF Event
  <1> QED BY <1>1, <1>2, <1>3, <1>4 DEF Next

\* Between two handlers everybody was told all about his room.
LEMMA KnownWhenIdle ==
    ASSUME IInv, TInv, KInv, Idle
    PROVE  DetailKnown /\ PlayerIdKnown /\ PhaseKnown
  <1>1. Calls(stack) = {}
    BY CallsOfShort DEF Idle
  <1>2. ASSUME NEW u \in User, belong[u] # 0
        PROVE  /\ room[belong[u]].status = "waiting" => told[u].detail = GetDetailInfo(room[belong[u]])
               /\ KnowsSeat(u, room[belong[u]], told[u])
               /\ told[u].phase = room[belong[u]].status
    <2>1. PICK r : r = belong[u] /\ r \in rooms
      BY <1>2, MemberFound
    <2>2. Settled(u, room[r], told[u])
      <3>1. Knows(u, r, room[r], told[u], {})
        BY <1>1, <1>2, <2>1 DEF KInv, UsersKnow
      <3> QED BY <3>1, AllSettled
    <2>3. GetDetailInfo(room[r]) = PlainDetail(room[r])
      BY <2>1, RoomPlain
    <2>4. KnowsSeat(u, room[r], told[u])
      BY <1>2, <2>1, <2>2, DetailSeat DEF Settled
    <2> QED BY <2>1, <2>2, <2>3, <2>4 DEF Settled
  <1> QED BY <1>2 DEF DetailKnown, PlayerIdKnown, PhaseKnown, KnowsSeat

\* Until a write fails, every player knows his room whenever the server is
\* idle: the list of players, seats, teams and the option while it waits
\* (SCPullOneRoomDetail follows every change, to all who are still in), his own
\* player_id in every phase, and whether it waits, loads or plays, although
\* the room changes its phase only after the broadcast that announces it.  No
\* message may get lost in a full send buffer; clients claim the end of a game
\* only in one.
THEOREM RoomKnown ==
    ASSUME GameEndIn \subseteq {"ingame"}, SendResult \subseteq {"ok", "error"}
    PROVE  WSpec => []RoomKnownUntil
  <1> DEFINE W == failed \/ (Sorted(stack) /\ KInv)
  <1>1. WInit => W
    <2> SUFFICES ASSUME WInit PROVE W
      OBVIOUS
    <2>1. stack = <<>> /\ \A u \in User : belong[u] = 0
      BY DEF WInit, Init
    <2>2. Calls(stack) = {} /\ Sorted(stack)
      BY <2>1, CallsOfShort, SortedShort
    <2> QED BY <2>1, <2>2 DEF KInv, UsersKnow, CallsTell
  <1>2. IInv /\ TInv /\ W /\ [WNext]_wvars => W'
    <2> SUFFICES ASSUME IInv, TInv, W, [WNext]_wvars PROVE W'
      OBVIOUS
    <2>1. CASE WNext
      <3>1. failed' = (failed \/ WriteFails) /\ Next
        BY <2>1 DEF WNext
      <3>2. ASSUME ~failed, ~WriteFails PROVE Sorted(stack') /\ KInv'
        <4>1. Sorted(stack')
          BY <3>1, <3>2, SortedCalls, SortedNew
        <4> QED BY <3>1, <3>2, <4>1, KnownStep
      <3> QED BY <3>1, <3>2
    <2>2. CASE UNCHANGED wvars
      BY <2>2 DEF wvars, vars, KInv, UsersKnow, CallsTell
    <2> QED BY <2>1, <2>2
  <1>3. IInv /\ TInv /\ W => RoomKnownUntil
    <2> SUFFICES ASSUME IInv, TInv, KInv PROVE DetailKnown /\ PlayerIdKnown /\ PhaseKnown
      BY DEF RoomKnownUntil
    <2>1. CASE Idle
      BY <2>1, KnownWhenIdle
    <2>2. CASE ~Idle
      BY <2>2 DEF DetailKnown, PlayerIdKnown, PhaseKnown
    <2> QED BY <2>1, <2>2
  <1> QED BY <1>1, <1>2, <1>3, Invariant, TablesInvariant, WSpecIsSpec, PTL DEF WSpec
=============================================================================
