------------------------------ MODULE TcpSend ------------------------------
(***************************************************************************)
(* The sending half of TcpSocket.  SendData first writes what m_send_buffer *)
(* holds of earlier messages, then the message itself; when the kernel     *)
(* takes no more (EAGAIN), what is left goes to the buffer.  Nothing asks   *)
(* epoll for EPOLLOUT: the buffer is written by the next SendData only.    *)
(*                                                                         *)
(* A byte is a pair of a message and a position in it.  The loops of       *)
(* SendData are cut at each send(), between which the client reads.        *)
(***************************************************************************)
EXTENDS Integers, Sequences, SequencesExt

CONSTANTS
    Msg,       \* the messages, each at most once on its way
    Size,      \* the length of each
    BufSize,   \* send_buffer_size (0x30000)
    Kernel,    \* the bytes that the kernel holds for the client
    MaxConns,  \* bound: connections that use the object
    None       \* no message

\* What the constants must satisfy
TcpSendAssumption ==
    /\ BufSize \in Nat /\ Size \in [Msg -> 1 .. BufSize]
    /\ Kernel \in Nat /\ \A m \in Msg : Size[m] <= Kernel
    /\ MaxConns \in Nat /\ None \notin Msg

VARIABLES
    is_using,  \* m_is_using
    sb,        \* m_send_buffer with m_send_head and m_send_tail
    pc,        \* "idle", "flush" (first loop of SendData), "data" (second loop)
    msg,       \* the argument of SendData
    done,      \* the bytes of it that are written
    status,    \* what the last SendData returned
    wire,      \* the bytes in the kernel
    read,      \* the bytes of the last message that the client read
    waiting,   \* the messages accepted and not yet read (history)
    conns      \* counter for the bound

socket == <<is_using, sb>>
call   == <<pc, msg, done, status>>
vars   == <<socket, call, wire, read, waiting, conns>>

Bytes(m) == [j \in 1 .. Size[m] |-> <<m, j>>]
Junk == <<None, 0>>

\* What is in the buffer
Held(b) == [j \in 1 .. b.tail - b.head |-> b.mem[b.head + j - 1]]

\* The bytes of the argument that are not written
Rest == SubSeq(Bytes(msg), done + 1, Size[msg])

\* TcpSocket::Init, the sending half, and the end of the first loop
Reset(b) == [b EXCEPT !.head = 0, !.tail = 0]

\* Mutant: nothing is moved.
MovedAhead_Not(b) == b

\* memmove of what is left to the front
MovedAhead(b) ==
    [mem |-> [i \in DOMAIN b.mem |->
                IF i < b.tail - b.head THEN b.mem[b.head + i] ELSE b.mem[i]],
     head |-> 0, tail |-> b.tail - b.head]

\* memcpy of bytes to the tail
Stored(b, s) ==
    [mem  |-> [i \in DOMAIN b.mem |-> IF i \in b.tail .. b.tail + Len(s) - 1
                                      THEN s[i - b.tail + 1] ELSE b.mem[i]],
     head |-> b.head, tail |-> b.tail + Len(s)]

Fits(b, s) == BufSize - b.tail >= Len(s)

\* The bytes the kernel takes at once
Takes(n) == {k \in 1 .. Kernel : k <= n /\ k <= Kernel - Len(wire)}
Full     == Len(wire) = Kernel                    \* EAGAIN

\* SendData returns.
Return(result) == pc' = "idle" /\ status' = result /\ msg' = None /\ done' = 0

\* The whole message has been written or buffered.
Accepted == Return("success") /\ waiting' = Append(waiting, msg)

-----------------------------------------------------------------------------
(* SendData. *)

\* Message m is sent: a message that is still on its way is not sent again.
SendData(m) ==
    /\ is_using /\ pc = "idle" /\ m \notin ToSet(waiting)
    /\ pc' = "flush" /\ msg' = m /\ done' = 0
    /\ UNCHANGED <<socket, status, wire, read, waiting, conns>>

\* send() takes k bytes of the buffer.
FlushSend(k) ==
    /\ pc = "flush" /\ k \in Takes(sb.tail - sb.head)
    /\ wire' = wire \o SubSeq(Held(sb), 1, k)
    /\ sb' = [sb EXCEPT !.head = @ + k]
    /\ UNCHANGED <<is_using, call, read, waiting, conns>>

\* EAGAIN: the message is put behind what is left, or lost.
FlushAgain ==
    /\ pc = "flush" /\ sb.tail > sb.head /\ Full
    /\ LET b == MovedAhead(sb)
       IN  IF Fits(b, Bytes(msg)) THEN sb' = Stored(b, Bytes(msg)) /\ Accepted
           ELSE sb' = b /\ Return("not_finish") /\ UNCHANGED waiting
    /\ UNCHANGED <<is_using, wire, read, conns>>

\* The buffer is empty: the head and the tail go back to the front.
FlushDone ==
    /\ pc = "flush" /\ sb.tail = sb.head
    /\ pc' = "data" /\ sb' = Reset(sb)
    /\ UNCHANGED <<is_using, msg, done, status, wire, read, waiting, conns>>

\* send() takes k bytes of the message; the loop ends with the last one.
DataSend(k) ==
    /\ pc = "data" /\ k \in Takes(Len(Rest))
    /\ wire' = wire \o SubSeq(Rest, 1, k)
    /\ IF done + k = Size[msg] THEN Accepted
       ELSE done' = done + k /\ UNCHANGED <<pc, msg, status, waiting>>
    /\ UNCHANGED <<socket, read, conns>>

\* Mutant: the message is buffered from its beginning.
Remaind_All == Bytes(msg)

\* The bytes that the second loop puts into the buffer
Remaind == Rest

\* EAGAIN: the rest is put into the buffer; were there no room, the client
\* would be dropped.
DataAgain ==
    /\ pc = "data" /\ Full
    /\ IF Fits(sb, Remaind)
       THEN sb' = Stored(sb, Remaind) /\ Accepted /\ UNCHANGED is_using
       ELSE Return("overflow") /\ is_using' = FALSE /\ UNCHANGED <<sb, waiting>>
    /\ UNCHANGED <<wire, read, conns>>

\* Another error of send(): SendMessageToClient deletes the client.
SendFails ==
    /\ pc = "data" \/ (pc = "flush" /\ sb.tail > sb.head)
    /\ Return("error") /\ is_using' = FALSE
    /\ UNCHANGED <<sb, wire, read, waiting, conns>>

-----------------------------------------------------------------------------
(* The connection. *)

\* GetFreeTcpSocket and AcceptClient
Accept ==
    /\ ~is_using /\ conns < MaxConns
    /\ is_using' = TRUE /\ sb' = Reset(sb) /\ conns' = conns + 1
    /\ wire' = <<>> /\ waiting' = <<>>
    /\ UNCHANGED <<call, read>>

\* DeleteClientByFD for another reason
Disconnect ==
    /\ is_using /\ pc = "idle"
    /\ is_using' = FALSE
    /\ UNCHANGED <<sb, call, wire, read, waiting, conns>>

\* The client reads a message by its length.  External.
PeerReads ==
    /\ wire # <<>> /\ wire[1][2] = 1 /\ Size[wire[1][1]] <= Len(wire)
    /\ LET n == Size[wire[1][1]]
       IN  read' = SubSeq(wire, 1, n) /\ wire' = SubSeq(wire, n + 1, Len(wire))
    /\ waiting' = IF waiting = <<>> THEN <<>> ELSE Tail(waiting)
    /\ UNCHANGED <<socket, call, conns>>

Init ==
    /\ is_using = FALSE
    /\ sb = [mem |-> [i \in 0 .. BufSize - 1 |-> Junk], head |-> 0, tail |-> 0]
    /\ pc = "idle" /\ msg = None /\ done = 0 /\ status = "success"
    /\ wire = <<>> /\ read = <<>> /\ waiting = <<>> /\ conns = 0

Calls == \E m \in Msg : SendData(m)
Loops == (\E k \in 1 .. Kernel : FlushSend(k) \/ DataSend(k))
         \/ FlushAgain \/ FlushDone \/ DataAgain

Next == Accept \/ Calls \/ Loops \/ SendFails \/ Disconnect \/ PeerReads

Spec == Init /\ [][Next]_vars

\* In a game SYN::Run broadcasts every frame, so SendData is called again and
\* again; it does not wait, so it returns; and the client reads.
Fairness == WF_vars(Calls) /\ WF_vars(Loops) /\ WF_vars(PeerReads)

-----------------------------------------------------------------------------
(* Properties. *)

\* Every variable has its type, and the head and the tail stay in the buffer.
TypeOK ==
    /\ is_using \in BOOLEAN
    /\ DOMAIN sb.mem = 0 .. BufSize - 1
    /\ sb.head \in 0 .. sb.tail /\ sb.tail \in 0 .. BufSize
    /\ pc \in {"idle", "flush", "data"} /\ msg \in Msg \cup {None}
    /\ status \in {"success", "not_finish", "error", "overflow"}
    /\ Len(wire) <= Kernel /\ waiting \in Seq(Msg) /\ conns \in 0 .. MaxConns

\* The last branch of SendData, which drops a client of whose message a part
\* is written because the rest has no room, is never taken.
AlwaysFits == status # "overflow"

\* A message is lost only while an earlier one waits for the kernel, and it is
\* lost whole: the buffer then has no room for it.
LostOnlyWhenFull ==
    [][status' = "not_finish" /\ msg # None /\ pc' = "idle" =>
         /\ Held(sb') # <<>> /\ Len(Held(sb')) + Size[msg] > BufSize
         /\ wire' = wire /\ Held(sb') = Held(sb)]_vars

\* The client gets the accepted messages whole, once and in order.
Stream == INSTANCE MessageStream WITH
    open <- is_using,
    last <- IF \E m \in Msg : read = Bytes(m)
            THEN CHOOSE m \in Msg : read = Bytes(m) ELSE None
ImplementsStream == Stream!Spec

\* Every accepted message reaches the client, also when its end stayed in the
\* buffer, as long as the connection lives and something more is sent to him.
Flushed ==
    \A m \in Msg :
        m \in ToSet(waiting) ~> m \notin ToSet(waiting) \/ ~is_using
=============================================================================
