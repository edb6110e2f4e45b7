--------------------------- MODULE MC_RoomsWrites ---------------------------
(* RoomsWrites for TLC, with few states once there is a second room. *)
EXTENDS MC_Rooms, RoomsWrites

\* Bound: once there is a second room, writes arrive, rooms have two players and
\* the team mode, the teams and the option they begin with, one room at a time
\* has a game, and nobody sits down in a room that has had one.
HasHadGame(q) == q.loading_succeed_cnt # Leftover.loading_succeed_cnt
Plain(q) == /\ q.team_mode = 2 /\ q.game_option = 10 /\ q.player_cnt <= 2
            /\ \A i \in Seat : q.team_id[i] \in {0, 1}
            /\ q.status = "waiting" /\ q.is_online # {} => ~HasHadGame(q)
OneGame == \A r, s \in Room :
             room[r].status # "waiting" /\ room[s].status # "waiting" => r = s
SecondRoomPlain == nextRoom > 2 => ~failed /\ OneGame /\ \A r \in Room : Plain(room[r])

MCNext == WNext /\ SecondRoomPlain'
MCSpec == WInit /\ [][MCNext]_wvars
=============================================================================
