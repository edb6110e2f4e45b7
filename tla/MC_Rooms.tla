------------------------------ MODULE MC_Rooms ------------------------------
(* Instances of Rooms for TLC. *)
EXTENDS Rooms, TLC

CONSTANTS u1, u2, u3

TwoUsers   == {u1, u2}
ThreeUsers == {u1, u2, u3}

\* A new Room whose memory is all zero, and one where it is not: the count is
\* one that no game leaves behind
Cleared  == [is_loading_succeed |-> {}, loading_succeed_cnt |-> 0, late |-> FALSE]
Leftover == [is_loading_succeed |-> {1}, loading_succeed_cnt |-> 5, late |-> TRUE]
AnyMemory  == {Cleared, Leftover}
UsedMemory == {Leftover}

\* The users are interchangeable: no operator compares user ids.
UserSymmetry == Permutations(User)
=============================================================================
