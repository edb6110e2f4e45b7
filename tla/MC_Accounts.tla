---------------------------- MODULE MC_Accounts ----------------------------
(* Accounts for TLC: alice, with a second program (again), and carol want the
   same name with different passwords; the insert of alice has the greatest
   length that is not cut off; of the name of bob the last query would be cut
   off, if it could be inserted. *)
EXTENDS Accounts

CONSTANTS alice, again, carol, bob, n1, n2, p1, p2

MCName      == [c \in Client |-> IF c = bob THEN n2 ELSE n1]
MCPasswd    == [c \in Client |-> IF c = carol THEN p2 ELSE p1]
MCNameLen   == [c \in Client |-> IF c = bob THEN 22 ELSE 9]
MCPasswdLen == [c \in Client |-> IF c = carol THEN 3 ELSE 8]
=============================================================================
