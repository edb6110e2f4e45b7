----------------------------- MODULE Heartbeat -----------------------------
(***************************************************************************)
(* Heartbeat: the clients that have been silent for too long are dropped.  *)
(* The set m_sec_fd orders the connections by the second of their last     *)
(* heartbeat; OnTick deletes from its front and stops at the first fresh   *)
(* one.  The module has the two maps, the main loop's RunOnTick, and the   *)
(* part of MessageHandler that adds and deletes connections.               *)
(*                                                                         *)
(* Deleting a client tells the other players of its room; a write that     *)
(* fails there deletes the other client too, within the same call.  That   *)
(* cascade is a nondeterministic set of further connections.               *)
(***************************************************************************)
EXTENDS Integers, FiniteSets

CONSTANTS
    Fd,        \* the file descriptors of client connections
    Timeout,   \* seconds of silence allowed by OnTick (40)
    Period,    \* seconds between two calls of OnTick (40)
    MaxGap,    \* bound: seconds one call of ReceiveMessage takes
    MaxTime    \* bound: the last second of the clock

ASSUME HeartbeatAssumption ==
    /\ Fd \subseteq Nat
    /\ Timeout \in Nat /\ Period \in Nat \ {0}
    /\ MaxGap \in Nat /\ MaxTime \in Nat

VARIABLES
    connects,   \* the keys of MessageHandler::m_connects
    sec_fd,     \* m_sec_fd, a set of <<second, fd>>
    fd_to_sec,  \* m_fd_to_sec; NoSec where there is no entry
    now,        \* GetNowTimeSecond()
    presec,     \* RunOnTick's presec, then nowsec
    checked,    \* the second of the last RunOnTick (history)
    pc,         \* "tick", "scan" (inside OnTick) or "receive"
    it          \* OnTick's iterator: an element of m_sec_fd, or End

vars == <<connects, sec_fd, fd_to_sec, now, presec, checked, pc, it>>

NoSec == -1
End   == <<-1, -1>>       \* m_sec_fd.end()
Wild  == <<-2, -2>>       \* an iterator whose element has been erased

\* The element of m_sec_fd for a connection
Entry(sec, f) == <<sec, f>>

\* The order of std::set< std::pair<int32_t, int32_t> >
Less(p, q) == p[1] < q[1] \/ (p[1] = q[1] /\ p[2] < q[2])

\* The first element of S in that order, or end()
First(S) == IF S = {} THEN End
            ELSE CHOOSE p \in S : \A q \in S : p = q \/ Less(p, q)

-----------------------------------------------------------------------------
(* The operations of Heartbeat on the connections F. *)

\* Mutant: only the map loses the entry.
DeleteFDs_MapOnly(F) == /\ fd_to_sec' = [f \in Fd |-> IF f \in F THEN NoSec ELSE fd_to_sec[f]]
                        /\ UNCHANGED sec_fd

\* Heartbeat::DeleteFD, for each of F
DeleteFDs(F) ==
    /\ fd_to_sec' = [f \in Fd |-> IF f \in F THEN NoSec ELSE fd_to_sec[f]]
    /\ sec_fd' = sec_fd \ {Entry(fd_to_sec[f], f) : f \in F}

\* Heartbeat::InitFD
InitFD(f) ==
    IF fd_to_sec[f] # NoSec THEN UNCHANGED <<sec_fd, fd_to_sec>>
    ELSE /\ sec_fd' = sec_fd \cup {Entry(now, f)}
         /\ fd_to_sec' = [fd_to_sec EXCEPT ![f] = now]

\* Heartbeat::UpdateFD, whose DeleteFD fails for an unknown fd
UpdateFD(f) ==
    IF fd_to_sec[f] = NoSec \/ Entry(fd_to_sec[f], f) \notin sec_fd
    THEN UNCHANGED <<sec_fd, fd_to_sec>>
    ELSE /\ sec_fd' = (sec_fd \ {Entry(fd_to_sec[f], f)}) \cup {Entry(now, f)}
         /\ fd_to_sec' = [fd_to_sec EXCEPT ![f] = now]

\* MessageHandler::DeleteClientByFD(f), with the deletions that the messages
\* about it may bring on
Doomed(f) == {F \in SUBSET connects : f \in F}
DeleteClients(F) == connects' = connects \ F /\ DeleteFDs(F)

-----------------------------------------------------------------------------
(* The main loop. *)

\* ReceiveMessage accepts a connection: accept() returns an unused fd.
Accept(f) ==
    /\ pc = "receive" /\ f \notin connects
    /\ connects' = connects \cup {f}
    /\ InitFD(f)
    /\ UNCHANGED <<now, presec, checked, pc, it>>

\* MP_CSHeartbeat
CSHeartbeat(f) ==
    /\ pc = "receive" /\ f \in connects
    /\ UpdateFD(f)
    /\ UNCHANGED <<connects, now, presec, checked, pc, it>>

\* ReceiveMessage or a failed write deletes a client.
Disconnect(f) ==
    /\ pc = "receive" /\ f \in connects
    /\ \E F \in Doomed(f) : DeleteClients(F)
    /\ UNCHANGED <<now, presec, checked, pc, it>>

\* Time passes while messages are handled.
TimePasses ==
    /\ pc = "receive" /\ now < MaxTime /\ now < checked + MaxGap
    /\ now' = now + 1
    /\ UNCHANGED <<connects, sec_fd, fd_to_sec, presec, checked, pc, it>>

\* ReceiveMessage returns and the loop comes back to RunOnTick.
Received ==
    /\ pc = "receive"
    /\ pc' = "tick"
    /\ UNCHANGED <<connects, sec_fd, fd_to_sec, now, presec, checked, it>>

\* Mutant: half a period more is waited for.
NotDue_Late == now - presec < Period + 1

\* The test of RunOnTick
NotDue == now - presec < Period

\* RunOnTick up to the call of Heartbeat::OnTick
RunOnTick ==
    /\ pc = "tick"
    /\ checked' = now
    /\ IF NotDue THEN pc' = "receive" /\ UNCHANGED <<presec, it>>
                 ELSE pc' = "scan" /\ presec' = now /\ it' = First(sec_fd)
    /\ UNCHANGED <<connects, sec_fd, fd_to_sec, now>>

\* The test of Heartbeat::OnTick on the element the iterator points to
Silent(p) == presec - p[1] > Timeout

\* Mutant: the iterator moves on only after the deletion.
NextOf_Late(p) == p

\* it++
NextOf(p) == First({q \in sec_fd : Less(p, q)})

\* Heartbeat::OnTick drops the client at the iterator.  The iterator has
\* moved on before; when the element it moved to is erased by the cascade it
\* points nowhere.
Drop ==
    /\ pc = "scan" /\ it \in sec_fd /\ Silent(it)
    /\ LET next == NextOf(it)
       IN  \E F \in Doomed(it[2]) :
             /\ DeleteClients(F)
             /\ it' = IF next = End \/ next[2] \notin F THEN next ELSE Wild
    /\ UNCHANGED <<now, presec, checked, pc>>

\* Heartbeat::OnTick reaches a fresh client or the end.
ScanDone ==
    /\ pc = "scan"
    /\ it = End \/ (it \in sec_fd /\ ~Silent(it))
    /\ pc' = "receive" /\ it' = End
    /\ UNCHANGED <<connects, sec_fd, fd_to_sec, now, presec, checked>>

Init ==
    /\ connects = {} /\ sec_fd = {} /\ fd_to_sec = [f \in Fd |-> NoSec]
    /\ now = 0 /\ presec = 0 /\ checked = 0
    /\ pc = "tick" /\ it = End

Next ==
    \/ \E f \in Fd : Accept(f) \/ CSHeartbeat(f) \/ Disconnect(f)
    \/ TimePasses \/ Received \/ RunOnTick \/ Drop \/ ScanDone

Spec == Init /\ [][Next]_vars

-----------------------------------------------------------------------------
(* Properties. *)

\* Every variable has its type.
TypeOK ==
    /\ connects \subseteq Fd
    /\ sec_fd \subseteq Nat \X Fd
    /\ fd_to_sec \in [Fd -> Nat \cup {NoSec}]
    /\ now \in Nat /\ presec \in Nat /\ checked \in Nat
    /\ pc \in {"tick", "scan", "receive"}
    /\ it \in (Nat \X Fd) \cup {End, Wild}

\* m_sec_fd, m_fd_to_sec and m_connects describe the same connections, one
\* entry each: no connection escapes the check, and none that is gone is
\* deleted again when its descriptor has been given to another client.
MapsAgree ==
    /\ sec_fd = {<<fd_to_sec[f], f>> : f \in connects}
    /\ \A f \in Fd : f \in connects <=> fd_to_sec[f] # NoSec

\* The two maps are well-formed and agree with m_connects.
MapsRight == TypeOK /\ MapsAgree

\* When the loop receives messages, nobody is connected who was silent for
\* Timeout + Period seconds at the last RunOnTick: stopping at the first fresh
\* client of the ordered set misses none.
SilentDropped ==
    pc = "receive" =>
        \A f \in connects : checked - fd_to_sec[f] < Timeout + Period

\* When OnTick deletes clients, the one at its iterator is among them and its
\* last heartbeat is more than Timeout seconds old: the others go because a
\* write to them failed.  If there are no others the iterator then points to an
\* entry that is there: it moved on before DeleteClientByFD erased the entry it
\* pointed to.
ScanRight ==
    [][pc = "scan" /\ connects' # connects =>
         /\ it[2] \in connects \ connects'
         /\ now - fd_to_sec[it[2]] > Timeout
         /\ connects \ connects' = {it[2]} => it' \in sec_fd' \cup {End}]_vars
=============================================================================
