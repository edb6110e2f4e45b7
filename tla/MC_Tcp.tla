------------------------------- MODULE MC_Tcp -------------------------------
(* The two halves of a TcpSocket object share nothing but Init and
   close_socket: TLC takes one half or the other.  Clients send messages of
   one, two and four bytes after the length, through a buffer so small that
   they straddle its end; the server sends messages of two and three bytes
   and one that fills the buffer, to a kernel that takes one and a part of the
   next. *)
EXTENDS TcpRecv

CONSTANTS
    short, long, large,       \* messages of clients
    s1, t1, t2,               \* messages of the server
    SendBufSize, Kernel       \* BufSize and Kernel of the sending half

MCSize == (short :> LenBytes + 1) @@ (long :> LenBytes + 2) @@ (large :> LenBytes + 4)
SendSize == (s1 :> 2) @@ (t1 :> 3) @@ (t2 :> SendBufSize)

VARIABLES half, s_using, sb, s_pc, msg, done, status, s_wire, read, s_waiting, s_conns

s_vars == <<s_using, sb, s_pc, msg, done, status, s_wire, read, s_waiting, s_conns>>

S == INSTANCE TcpSend WITH
    Msg <- {s1, t1, t2}, Size <- SendSize, BufSize <- SendBufSize,
    is_using <- s_using, pc <- s_pc, wire <- s_wire, waiting <- s_waiting,
    conns <- s_conns

ASSUME SendAssumption == S!TcpSendAssumption

TcpInit == Init /\ S!Init /\ half \in {"receive", "send"}

TcpNext == /\ UNCHANGED half
           /\ \/ half = "receive" /\ Next /\ UNCHANGED s_vars
              \/ half = "send" /\ S!Next /\ UNCHANGED vars

TcpSpec == TcpInit /\ [][TcpNext]_<<vars, half, s_vars>> /\ Fairness /\ S!Fairness

\* Every variable has its type, the head and the tail of each buffer stay in
\* it, and what SendData has to buffer of a message always fits, so that its last
\* branch, which would drop the client, is never taken.
BuffersRight == TypeOK /\ S!TypeOK /\ S!AlwaysFits

\* In both directions, the messages that were accepted arrive whole, once and in
\* order, and nothing of one connection arrives on the next.
ImplementsStreams == ImplementsStream /\ S!ImplementsStream

\* SendData loses a message only while an earlier one waits for the kernel, and
\* loses it whole: see LostOnlyWhenFull in TcpSend.
SendLostOnlyWhenFull == S!LostOnlyWhenFull

\* What SendData buffered reaches the client with a later message: see Flushed
\* in TcpSend.
SendFlushed == S!Flushed
=============================================================================
