-------------------------- MODULE HeartbeatProofs --------------------------
(***************************************************************************)
(* Proofs about module Heartbeat, for any number of connections, any       *)
(* timeout and period, and clients that are deleted along with others.     *)
(***************************************************************************)
EXTENDS Heartbeat, WellFoundedInduction, TLAPS

-----------------------------------------------------------------------------
(* The order of m_sec_fd. *)

\* A set of natural numbers that is not empty has a least one.
LEMMA LeastExists ==
    ASSUME NEW T, T \subseteq Nat, T # {}
    PROVE  \E x \in T : \A y \in T : x <= y
  <1> DEFINE R == OpToRel(<, Nat)
  <1>1. \A a, b \in Nat : a < b => <<a, b>> \in R
    BY DEF OpToRel
  <1>2. IsWellFoundedOn(R, Nat)
    BY NatLessThanWellFounded
  <1> HIDE DEF R
  <1>3. PICK x \in T : \A y \in T : <<y, x>> \notin R
    BY <1>2, WFMin
  <1>4. ASSUME NEW y \in T PROVE x <= y
    <2>1. x \in Nat /\ y \in Nat
      OBVIOUS
    <2>2. ~ (y < x)
      BY <2>1, <1>1, <1>3
    <2> QED BY <2>1, <2>2
  <1> QED BY <1>4

\* begin() of a set that is not empty is its least element.
LEMMA FirstIsLeast ==
    ASSUME NEW S, S \subseteq Nat \X Fd, S # {}
    PROVE  First(S) \in S /\ \A q \in S : First(S) = q \/ Less(First(S), q)
  <1> DEFINE Secs == {p[1] : p \in S}
  <1>1. Secs \subseteq Nat /\ Secs # {}
    OBVIOUS
  <1>2. PICK s \in Secs : \A t \in Secs : s <= t
    <2> HIDE DEF Secs
    <2> QED BY <1>1, LeastExists
  <1> DEFINE Fds == {p[2] : p \in {q \in S : q[1] = s}}
  <1>3. Fds \subseteq Nat /\ Fds # {}
    BY HeartbeatAssumption
  <1>4. PICK f \in Fds : \A g \in Fds : f <= g
    <2> HIDE DEF Fds
    <2> QED BY <1>3, LeastExists
  <1>5. PICK p \in S : p[1] = s /\ p[2] = f
    OBVIOUS
  <1>6. ASSUME NEW q \in S PROVE p = q \/ Less(p, q)
    <2>1. s <= q[1] /\ (q[1] = s => f <= q[2])
      BY <1>2, <1>4
    <2>2. /\ p = <<p[1], p[2]>> /\ q = <<q[1], q[2]>>
          /\ q[1] \in Nat /\ q[2] \in Nat /\ s \in Nat /\ f \in Nat
      <3>1. p \in Nat \X Fd /\ q \in Nat \X Fd
        OBVIOUS
      <3>2. s \in Nat /\ f \in Nat
        BY <1>1, <1>3
      <3> HIDE DEF Secs, Fds
      <3>3. p = <<p[1], p[2]>> /\ q = <<q[1], q[2]>> /\ q[1] \in Nat /\ q[2] \in Fd
        BY <3>1
      <3> QED BY <3>2, <3>3, HeartbeatAssumption
    <2>3. CASE q[1] = s /\ q[2] = f
      BY <2>2, <2>3, <1>5
    <2>4. CASE ~ (q[1] = s /\ q[2] = f)
      BY <2>1, <2>2, <2>4, <1>5 DEF Less
    <2> QED BY <2>3, <2>4
  <1>7. \E x \in S : \A q \in S : x = q \/ Less(x, q)
    BY <1>6
  <1> QED BY <1>7 DEF First

-----------------------------------------------------------------------------
(* The inductive invariant. *)

\* Nobody's last heartbeat is in the future, and RunOnTick has looked at the
\* clock since presec.
TimesInv ==
    /\ presec <= checked /\ checked <= now
    /\ \A f \in connects : fd_to_sec[f] <= now

\* Between two scans nobody is left who was silent at the last one.
FreshInv == pc # "scan" => \A f \in connects : presec - fd_to_sec[f] <= Timeout

\* Within a scan, what is before the iterator has been deleted.
ScanInv ==
    pc = "scan" =>
        /\ presec = now /\ checked = now
        /\ it = End => sec_fd = {}
        /\ it \notin {End, Wild} =>
              it \in sec_fd /\ \A p \in sec_fd : it = p \/ Less(it, p)

\* What holds in every state, strong enough to be kept by every step.
IInv == TypeOK /\ MapsAgree /\ TimesInv /\ FreshInv /\ ScanInv /\ SilentDropped

\* The entries of m_sec_fd are those of the connections.
LEMMA EntryOf ==
    ASSUME IInv, NEW p \in sec_fd
    PROVE  /\ p[2] \in connects /\ p[2] \in Fd /\ p[1] \in Nat
           /\ p = <<fd_to_sec[p[2]], p[2]>> /\ p[1] = fd_to_sec[p[2]]
  BY DEF IInv, MapsAgree, TypeOK

\* Deleting clients takes their entries out of both maps.
LEMMA DeleteKeeps ==
    ASSUME IInv, NEW F \in SUBSET connects, DeleteClients(F)
    PROVE  /\ connects' = connects \ F
           /\ sec_fd' = {p \in sec_fd : p[2] \notin F}
           /\ fd_to_sec' \in [Fd -> Nat \cup {NoSec}]
           /\ \A f \in connects' : fd_to_sec'[f] = fd_to_sec[f]
           /\ MapsAgree'
  <1>1. connects' = connects \ F /\ connects \subseteq Fd
    BY DEF DeleteClients, IInv, TypeOK
  <1>2. \A f \in Fd : fd_to_sec'[f] = IF f \in F THEN NoSec ELSE fd_to_sec[f]
    BY DEF DeleteClients, DeleteFDs
  <1>3. fd_to_sec' \in [Fd -> Nat \cup {NoSec}]
    BY DEF DeleteClients, DeleteFDs, IInv, TypeOK
  <1>4. sec_fd' = {p \in sec_fd : p[2] \notin F}
    <2>1. sec_fd' = sec_fd \ {<<fd_to_sec[f], f>> : f \in F}
      BY DEF DeleteClients, DeleteFDs, Entry
    <2>2. ASSUME NEW p \in sec_fd
          PROVE  p \in {<<fd_to_sec[f], f>> : f \in F} <=> p[2] \in F
      BY EntryOf
    <2> QED BY <2>1, <2>2
  <1>5. sec_fd' = {<<fd_to_sec'[f], f>> : f \in connects'}
    <2>1. sec_fd = {<<fd_to_sec[f], f>> : f \in connects}
      BY DEF IInv, MapsAgree
    <2> QED BY <1>1, <1>2, <1>4, <2>1
  <1>6. \A f \in Fd : f \in connects' <=> fd_to_sec'[f] # NoSec
    BY <1>1, <1>2 DEF IInv, MapsAgree
  <1> QED BY <1>1, <1>2, <1>3, <1>4, <1>5, <1>6 DEF MapsAgree

-----------------------------------------------------------------------------
(* The steps. *)

\* AcceptClient enters the descriptor in both maps (InitFD).
LEMMA AcceptStep ==
    ASSUME IInv, NEW f \in Fd, Accept(f) PROVE IInv'
  <1>1. fd_to_sec[f] = NoSec
    BY DEF IInv, MapsAgree, Accept
  <1>2. /\ connects' = connects \cup {f}
        /\ sec_fd' = sec_fd \cup {<<now, f>>}
        /\ fd_to_sec' = [fd_to_sec EXCEPT ![f] = now]
        /\ UNCHANGED <<now, presec, checked, pc, it>> /\ pc = "receive"
    BY <1>1 DEF Accept, InitFD, Entry
  <1>3. TypeOK'
    BY <1>2 DEF IInv, TypeOK
  <1>4. MapsAgree'
    <2>1. f \notin connects /\ connects \subseteq Fd
      BY DEF Accept, IInv, TypeOK
    <2>2. \A g \in Fd : fd_to_sec'[g] = IF g = f THEN now ELSE fd_to_sec[g]
      BY <1>2 DEF IInv, TypeOK
    <2>3. now # NoSec
      BY DEF IInv, TypeOK, NoSec
    <2>4. sec_fd' = {<<fd_to_sec'[g], g>> : g \in connects'}
      <3>1. sec_fd = {<<fd_to_sec[g], g>> : g \in connects}
        BY DEF IInv, MapsAgree
      <3> QED BY <3>1, <1>2, <2>1, <2>2
    <2> QED BY <1>2, <2>1, <2>2, <2>3, <2>4 DEF IInv, MapsAgree
  <1>5. \A g \in connects' : fd_to_sec'[g] = now \/ (g \in connects /\ fd_to_sec'[g] = fd_to_sec[g])
    BY <1>2 DEF IInv, TypeOK
  <1>6. TimesInv' /\ FreshInv'
    BY <1>2, <1>5, HeartbeatAssumption DEF IInv, TypeOK, TimesInv, FreshInv
  <1>7. SilentDropped'
    BY <1>2, <1>5, HeartbeatAssumption DEF IInv, TypeOK, TimesInv, SilentDropped
  <1>8. ScanInv'
    BY <1>2 DEF ScanInv
  <1> QED BY <1>3, <1>4, <1>6, <1>7, <1>8 DEF IInv

\* A heartbeat moves the entry to the present second (UpdateFD).
LEMMA HeartbeatStep ==
    ASSUME IInv, NEW f \in Fd, CSHeartbeat(f) PROVE IInv'
  <1>1. <<fd_to_sec[f], f>> \in sec_fd /\ fd_to_sec[f] # NoSec /\ f \in connects
    BY DEF IInv, MapsAgree, CSHeartbeat
  <1>2. /\ sec_fd' = (sec_fd \ {<<fd_to_sec[f], f>>}) \cup {<<now, f>>}
        /\ fd_to_sec' = [fd_to_sec EXCEPT ![f] = now]
        /\ UNCHANGED <<connects, now, presec, checked, pc, it>> /\ pc = "receive"
    BY <1>1 DEF CSHeartbeat, UpdateFD, Entry
  <1>3. TypeOK'
    BY <1>2 DEF IInv, TypeOK
  <1>4. MapsAgree'
    <2>1. \A g \in Fd : fd_to_sec'[g] = IF g = f THEN now ELSE fd_to_sec[g]
      BY <1>2 DEF IInv, TypeOK
    <2>2. now # NoSec /\ connects \subseteq Fd
      BY DEF IInv, TypeOK, NoSec
    <2>3. sec_fd' = {<<fd_to_sec'[g], g>> : g \in connects'}
      <3>1. sec_fd = {<<fd_to_sec[g], g>> : g \in connects}
        BY DEF IInv, MapsAgree
      <3> QED BY <3>1, <1>1, <1>2, <2>1, <2>2
    <2> QED BY <1>1, <1>2, <2>1, <2>2, <2>3 DEF IInv, MapsAgree
  <1>5. \A g \in connects' : fd_to_sec'[g] = now \/ (g \in connects /\ fd_to_sec'[g] = fd_to_sec[g])
    BY <1>2 DEF IInv, TypeOK
  <1>6. TimesInv' /\ FreshInv'
    BY <1>2, <1>5, HeartbeatAssumption DEF IInv, TypeOK, TimesInv, FreshInv
  <1>7. SilentDropped'
    BY <1>2, <1>5, HeartbeatAssumption DEF IInv, TypeOK, TimesInv, SilentDropped
  <1>8. ScanInv'
    BY <1>2 DEF ScanInv
  <1> QED BY <1>3, <1>4, <1>6, <1>7, <1>8 DEF IInv

\* Clients that leave lose both entries (DeleteFD).
LEMMA DisconnectStep ==
    ASSUME IInv, NEW f \in Fd, Disconnect(f) PROVE IInv'
  <1>1. PICK F \in SUBSET connects : DeleteClients(F)
    BY DEF Disconnect, Doomed
  <1>2. UNCHANGED <<now, presec, checked, pc, it>> /\ pc = "receive"
    BY DEF Disconnect
  <1>3. TypeOK' /\ MapsAgree'
    BY <1>1, <1>2, DeleteKeeps DEF IInv, TypeOK
  <1>4. \A g \in connects' : g \in connects /\ fd_to_sec'[g] = fd_to_sec[g]
    BY <1>1, DeleteKeeps
  <1>5. TimesInv' /\ FreshInv' /\ SilentDropped' /\ ScanInv'
    BY <1>2, <1>4 DEF IInv, TimesInv, FreshInv, SilentDropped, ScanInv
  <1> QED BY <1>3, <1>5 DEF IInv

\* RunOnTick: before the next scan is due, nobody has been silent for longer than
\* the timeout and a period.
LEMMA TickStep ==
    ASSUME IInv, RunOnTick PROVE IInv'
  <1>1. UNCHANGED <<connects, sec_fd, fd_to_sec, now>> /\ checked' = now /\ pc = "tick"
    BY DEF RunOnTick
  <1>2. MapsAgree'
    BY <1>1 DEF IInv, MapsAgree
  <1>3. CASE NotDue
    <2>1. pc' = "receive" /\ UNCHANGED <<presec, it>>
      BY <1>3 DEF RunOnTick
    <2>2. TypeOK' /\ TimesInv' /\ FreshInv' /\ ScanInv'
      BY <1>1, <2>1 DEF IInv, TypeOK, TimesInv, FreshInv, ScanInv
    <2>3. ASSUME NEW f \in connects PROVE now - fd_to_sec[f] < Timeout + Period
      <3>1. presec - fd_to_sec[f] <= Timeout
        BY <1>1 DEF IInv, FreshInv
      <3>2. fd_to_sec[f] \in Nat \cup {NoSec} /\ now \in Nat /\ presec \in Nat
        BY DEF IInv, TypeOK
      <3> QED BY <1>3, <3>1, <3>2, HeartbeatAssumption DEF NotDue, NoSec
    <2>4. SilentDropped'
      BY <1>1, <2>3 DEF SilentDropped
    <2> QED BY <1>2, <2>2, <2>4 DEF IInv
  <1>4. CASE ~NotDue
    <2>1. pc' = "scan" /\ presec' = now /\ it' = First(sec_fd)
      BY <1>4 DEF RunOnTick
    <2>2. sec_fd \subseteq Nat \X Fd
      BY DEF IInv, TypeOK
    <2>3. CASE sec_fd = {}
      <3>1. it' = End
        BY <2>1, <2>3 DEF First
      <3> QED BY <1>1, <1>2, <2>1, <2>3, <3>1
              DEF IInv, TypeOK, TimesInv, FreshInv, ScanInv, SilentDropped
    <2>4. CASE sec_fd # {}
      <3>1. it' \in sec_fd /\ \A q \in sec_fd : it' = q \/ Less(it', q)
        BY <2>1, <2>2, <2>4, FirstIsLeast
      <3>2. it' # End
        BY <3>1, <2>2 DEF End
      <3>3. TypeOK' /\ TimesInv' /\ FreshInv' /\ SilentDropped'
        BY <1>1, <2>1, <3>1 DEF IInv, TypeOK, TimesInv, FreshInv, SilentDropped
      <3>4. ScanInv'
        BY <1>1, <2>1, <3>1, <3>2 DEF ScanInv
      <3> QED BY <1>2, <3>3, <3>4 DEF IInv
    <2> QED BY <2>3, <2>4
  <1> QED BY <1>3, <1>4

\* OnTick drops one client: everything up to the new iterator is gone.
LEMMA DropStep ==
    ASSUME IInv, Drop PROVE IInv'
  <1> DEFINE next == NextOf(it)
             Rest == {q \in sec_fd : Less(it, q)}
  <1>1. /\ pc = "scan" /\ it \in sec_fd /\ UNCHANGED <<now, presec, checked, pc>>
    BY DEF Drop
  <1>2. PICK F \in SUBSET connects :
          /\ it[2] \in F /\ DeleteClients(F)
          /\ it' = IF next = End \/ next[2] \notin F THEN next ELSE Wild
    BY DEF Drop, Doomed
  <1>3. sec_fd \subseteq Nat \X Fd
    BY DEF IInv, TypeOK
  <1>4. \A p \in sec_fd : it = p \/ Less(it, p)
    <2>1. it \notin {End, Wild}
      BY <1>1, <1>3 DEF End, Wild
    <2> QED BY <1>1, <2>1 DEF IInv, ScanInv
  <1>5. sec_fd' \subseteq Rest /\ sec_fd' = {p \in sec_fd : p[2] \notin F}
    BY <1>2, <1>4, DeleteKeeps
  <1>6. CASE Rest = {}
    <2>1. next = End /\ sec_fd' = {}
      BY <1>5, <1>6 DEF NextOf, First
    <2> QED BY <1>1, <1>2, <2>1, DeleteKeeps
            DEF IInv, TypeOK, TimesInv, FreshInv, ScanInv, SilentDropped
  <1>7. CASE Rest # {}
    <2>1. next \in Rest /\ \A q \in Rest : next = q \/ Less(next, q)
      BY <1>3, <1>7, FirstIsLeast DEF NextOf
    <2>2. next \in sec_fd /\ next # End
      BY <2>1, <1>3 DEF End
    <2>3. it' = Wild \/ it' \in sec_fd'
      BY <1>2, <1>5, <2>2
    <2>4. it' # Wild => it' = next
      BY <1>2
    <2>5. Wild # End
      BY DEF Wild, End
    <2>6. ScanInv'
      <3>1. it' # End
        BY <2>2, <2>4, <2>5
      <3>2. it' # Wild => it' \in sec_fd' /\ \A p \in sec_fd' : it' = p \/ Less(it', p)
        BY <1>5, <2>1, <2>3, <2>4
      <3> QED BY <1>1, <3>1, <3>2 DEF IInv, ScanInv
    <2>7. TypeOK'
      <3>1. it' \in (Nat \X Fd) \cup {Wild}
        BY <1>3, <1>5, <2>3
      <3>2. connects' \subseteq Fd /\ sec_fd' \subseteq Nat \X Fd
            /\ fd_to_sec' \in [Fd -> Nat \cup {NoSec}]
        BY <1>2, <1>3, <1>5, DeleteKeeps DEF IInv, TypeOK
      <3> QED BY <1>1, <3>1, <3>2 DEF IInv, TypeOK
    <2>8. \A g \in connects' : g \in connects /\ fd_to_sec'[g] = fd_to_sec[g]
      BY <1>2, DeleteKeeps
    <2>9. MapsAgree' /\ TimesInv' /\ FreshInv' /\ SilentDropped'
      BY <1>1, <1>2, <2>8, DeleteKeeps DEF IInv, TimesInv, FreshInv, SilentDropped
    <2> QED BY <2>6, <2>7, <2>9 DEF IInv
  <1> QED BY <1>6, <1>7

\* OnTick stops at a fresh client or at the end: the others are fresh too.
LEMMA ScanDoneStep ==
    ASSUME IInv, ScanDone PROVE IInv'
  <1>1. /\ pc = "scan" /\ pc' = "receive" /\ it' = End
        /\ UNCHANGED <<connects, sec_fd, fd_to_sec, now, presec, checked>>
    BY DEF ScanDone
  <1>2. ASSUME NEW f \in connects PROVE presec - fd_to_sec[f] <= Timeout
    <2>1. <<fd_to_sec[f], f>> \in sec_fd
      BY DEF IInv, MapsAgree
    <2>2. it # End
      BY <1>1, <2>1 DEF IInv, ScanInv
    <2>3. it \in sec_fd /\ ~Silent(it)
      BY <2>2 DEF ScanDone
    <2>4. it # Wild
      BY <2>3 DEF IInv, TypeOK, Wild
    <2>5. it = <<fd_to_sec[f], f>> \/ Less(it, <<fd_to_sec[f], f>>)
      BY <1>1, <2>1, <2>2, <2>4 DEF IInv, ScanInv
    <2>6. it[1] <= fd_to_sec[f] /\ it[1] \in Nat /\ fd_to_sec[f] \in Nat /\ presec \in Nat
      <3>1. it[1] \in Nat /\ presec \in Nat /\ sec_fd \subseteq Nat \X Fd
        BY <2>3, EntryOf DEF IInv, TypeOK
      <3>2. fd_to_sec[f] \in Nat
        BY <2>1, <3>1
      <3> QED BY <2>5, <3>1, <3>2 DEF Less
    <2> QED BY <2>3, <2>6, HeartbeatAssumption DEF Silent
  <1>3. presec = checked
    BY <1>1 DEF IInv, ScanInv
  <1>4. SilentDropped'
    <2>1. ASSUME NEW f \in connects PROVE checked - fd_to_sec[f] < Timeout + Period
      <3>1. fd_to_sec[f] \in Nat \cup {NoSec} /\ presec \in Nat
        BY DEF IInv, TypeOK
      <3> QED BY <1>2, <1>3, <3>1, HeartbeatAssumption DEF NoSec
    <2> QED BY <1>1, <2>1 DEF SilentDropped
  <1>5. TypeOK' /\ MapsAgree' /\ TimesInv' /\ ScanInv'
    BY <1>1 DEF IInv, TypeOK, MapsAgree, TimesInv, ScanInv
  <1>6. FreshInv'
    BY <1>1, <1>2 DEF FreshInv
  <1> QED BY <1>4, <1>5, <1>6 DEF IInv

\* The clock and the return to RunOnTick.
LEMMA OtherSteps ==
    ASSUME IInv, TimePasses \/ Received \/ UNCHANGED vars PROVE IInv'
  <1>1. CASE TimePasses
    BY <1>1 DEF IInv, TypeOK, MapsAgree, TimesInv, FreshInv, ScanInv, SilentDropped,
               TimePasses, NoSec
  <1>2. CASE Received
    BY <1>2 DEF IInv, TypeOK, MapsAgree, TimesInv, FreshInv, ScanInv, SilentDropped, Received
  <1>3. CASE UNCHANGED vars
    BY <1>3 DEF IInv, TypeOK, MapsAgree, TimesInv, FreshInv, ScanInv, SilentDropped, vars
  <1> QED BY <1>1, <1>2, <1>3

\* The invariant holds initially and is kept by every step.
THEOREM Invariant == Spec => []IInv
  <1>1. Init => IInv
    BY HeartbeatAssumption
       DEF Init, IInv, TypeOK, MapsAgree, TimesInv, FreshInv, ScanInv, SilentDropped
  <1>2. IInv /\ [Next]_vars => IInv'
    <2> SUFFICES ASSUME IInv, [Next]_vars PROVE IInv'
      OBVIOUS
    <2> QED BY AcceptStep, HeartbeatStep, DisconnectStep, TickStep, DropStep,
               ScanDoneStep, OtherSteps DEF Next
  <1> QED BY <1>1, <1>2, PTL DEF Spec

-----------------------------------------------------------------------------
(* The theorems. *)

\* The set of Heartbeat, its map and m_connects describe the same connections.
THEOREM MapsCorrect == Spec => []MapsRight
  <1>1. IInv => MapsRight
    BY DEF IInv, MapsRight
  <1> QED BY <1>1, Invariant, PTL

\* Whoever is silent for a timeout and a period is dropped by the next RunOnTick,
\* although OnTick looks only as far as the first fresh client.
THEOREM SilentAreDropped == Spec => []SilentDropped
  <1>1. IInv => SilentDropped
    BY DEF IInv
  <1> QED BY <1>1, Invariant, PTL

\* OnTick deletes only clients that are silent, or others along with one, and
\* its iterator survives when there are no others.
THEOREM ScanCorrect == Spec => ScanRight
  <1> DEFINE Right ==
        pc = "scan" /\ connects' # connects =>
           /\ it[2] \in connects \ connects'
           /\ now - fd_to_sec[it[2]] > Timeout
           /\ connects \ connects' = {it[2]} => it' \in sec_fd' \cup {End}
  <1>1. IInv /\ [Next]_vars => [Right]_vars
    <2> SUFFICES ASSUME IInv, Next, pc = "scan", connects' # connects PROVE Right
      OBVIOUS
    <2>1. Drop
      BY DEF Next, Accept, CSHeartbeat, Disconnect, TimePasses, Received, RunOnTick, ScanDone
    <2>2. /\ it[2] \in connects /\ it = <<fd_to_sec[it[2]], it[2]>>
          /\ it[1] = fd_to_sec[it[2]] /\ it \in sec_fd
      BY <2>1, EntryOf DEF Drop
    <2>3. PICK F \in SUBSET connects :
            /\ it[2] \in F /\ DeleteClients(F)
            /\ it' = IF NextOf(it) = End \/ NextOf(it)[2] \notin F THEN NextOf(it) ELSE Wild
      BY <2>1 DEF Drop, Doomed
    <2>4. it[2] \in connects \ connects'
      BY <2>2, <2>3, DeleteKeeps
    <2>5. now - fd_to_sec[it[2]] > Timeout
      BY <2>1, <2>2 DEF Drop, Silent, IInv, ScanInv
    <2>6. ASSUME connects \ connects' = {it[2]} PROVE it' \in sec_fd' \cup {End}
      <3>1. F = {it[2]}
        BY <2>3, <2>6, DeleteKeeps
      <3> DEFINE Rest == {q \in sec_fd : Less(it, q)}
      <3>2. CASE Rest = {}
        BY <2>3, <3>2 DEF NextOf, First
      <3>3. CASE Rest # {}
        <4>1. sec_fd \subseteq Nat \X Fd
          BY DEF IInv, TypeOK
        <4>2. NextOf(it) \in sec_fd /\ Less(it, NextOf(it))
          BY <3>3, <4>1, FirstIsLeast DEF NextOf
        <4>3. NextOf(it) # it
          <5>1. it[1] \in Nat /\ it[2] \in Nat
            BY <2>2, EntryOf, HeartbeatAssumption
          <5>2. ~Less(it, it)
            BY <5>1 DEF Less
          <5> QED BY <4>2, <5>2
        <4>4. NextOf(it)[2] # it[2]
          BY <4>2, <4>3, <2>2, EntryOf
        <4> QED BY <2>3, <3>1, <4>2, <4>4, DeleteKeeps
      <3> QED BY <3>2, <3>3
    <2> QED BY <2>4, <2>5, <2>6
  <1> QED BY <1>1, Invariant, PTL DEF Spec, ScanRight
=============================================================================
