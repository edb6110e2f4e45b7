------------------------------ MODULE TcpRecv ------------------------------
(***************************************************************************)
(* The receiving half of TcpSocket and the loop of ReceiveMessage that     *)
(* reads it: the kernel hands over the bytes of a connection in pieces of  *)
(* any length, RecvData collects them in m_recv_buffer and moves them to   *)
(* the front when the end is reached, and get_one_message cuts them into   *)
(* messages by the length each one starts with.                            *)
(*                                                                         *)
(* A byte is a pair of a message and a position in it.  TcpSocket objects  *)
(* are used again: a new connection finds the bytes of the previous one in *)
(* the buffer.                                                             *)
(***************************************************************************)
EXTENDS Integers, Sequences, SequencesExt

CONSTANTS
    Msg,       \* the messages a client sends
    Size,      \* the length of each, as its first bytes tell it
    LenBytes,  \* the bytes of that length (sizeof(int32_t) = 4)
    BufSize,   \* recv_buffer_size (0x30000)
    MaxSize,   \* MAX_MESSAGE_LEN (4096)
    Beat,      \* the messages that are heartbeats
    MaxSent,   \* bound: messages sent in all
    MaxConns,  \* bound: connections that use the object
    None       \* no message

\* A message is longer than its length field: what clients declare is the length
\* of a whole CMessage.  Declared lengths that are not (the error of
\* get_one_message, messages that end inside the length field) are left out.
ASSUME TcpRecvAssumption ==
    /\ LenBytes \in Nat \ {0} /\ BufSize \in Nat /\ MaxSize \in 1 .. BufSize
    /\ Size \in [Msg -> Nat] /\ \A m \in Msg : Size[m] > LenBytes
    /\ Beat \subseteq Msg
    /\ MaxSent \in Nat /\ MaxConns \in Nat
    /\ None \notin Msg

VARIABLES
    is_using,  \* m_is_using
    rb,        \* m_recv_buffer with m_recv_head and m_recv_tail
    pc,        \* "idle" (in epoll_wait), "recv" (in RecvData) or "get"
    ret,       \* recv_ret of ReceiveMessage
    data,      \* recv_data_: the bytes of the last message
    silent,    \* no heartbeat since the last Heartbeat::OnTick
    gone,      \* why the last connection was deleted (history)
    peer,      \* the other end: "open", "shut" or "reset"
    wire,      \* the bytes in the kernel
    waiting,   \* the messages sent and not yet handled (history)
    sent, conns  \* counters for the bounds

server == <<is_using, rb, pc, ret, data, silent, gone>>
env    == <<peer, wire, waiting, sent, conns>>
vars   == <<server, env>>

\* The bytes of a message, and a byte of memory never written
Bytes(m) == [j \in 1 .. Size[m] |-> <<m, j>>]
Junk == <<None, 0>>

\* The bytes received and not yet handled
Held(b) == [j \in 1 .. b.tail - b.head |-> b.mem[b.head + j - 1]]

\* The test of Heartbeat::OnTick
Dropped == silent

\* Mutant: the object keeps what an earlier connection left.
Reset_Keep(b) == b

\* TcpSocket::Init, the receiving half
Reset(b) == [b EXCEPT !.head = 0, !.tail = 0]

\* Mutant: the bytes are never moved.
TryMoveReceDataAhead_Never(b) == b

\* TryMoveReceDataAhead, apart from its return
TryMoveReceDataAhead(b) ==
    IF b.tail = BufSize /\ b.head > 0
    THEN [mem  |-> [i \in 0 .. BufSize - 1 |->
                      IF i < b.tail - b.head THEN b.mem[b.head + i] ELSE b.mem[i]],
          head |-> 0, tail |-> b.tail - b.head]
    ELSE b

\* Mutant: the byte after the buffer is used too.
Room_OneMore(b) == BufSize + 1 - b.tail

\* The length that RecvData passes to recv
Room(b) == BufSize - b.tail

\* recv() copies the first k bytes of the connection to the tail.
Received(b, k) ==
    [mem  |-> [i \in DOMAIN b.mem |-> IF i \in b.tail .. b.tail + k - 1
                                      THEN wire[i - b.tail + 1] ELSE b.mem[i]],
     head |-> b.head, tail |-> b.tail + k]

\* The length that the bytes at the head tell; 0 stands for the number that
\* bytes from the middle of a message would make.
msg_size(b) == LET c == b.mem[b.head] IN IF c[2] = 1 THEN Size[c[1]] ELSE 0

\* Mutant: a message of exactly the greatest length stays in the buffer.
HasMessage_Strict(b) ==
    /\ b.tail - b.head > LenBytes
    /\ msg_size(b) > 0 /\ msg_size(b) <= b.tail - b.head /\ msg_size(b) < MaxSize

\* get_one_message returns success.
HasMessage(b) ==
    /\ b.tail - b.head > LenBytes
    /\ msg_size(b) > 0 /\ msg_size(b) <= b.tail - b.head /\ msg_size(b) <= MaxSize

\* Mutant: copied from the front of the buffer.
OneMessage_Front(b) == [j \in 1 .. msg_size(b) |-> b.mem[j - 1]]

\* The bytes that get_one_message copies to recv_data_
OneMessage(b) == SubSeq(Held(b), 1, msg_size(b))

-----------------------------------------------------------------------------
(* The client and the network.  External. *)

PeerSend(m) ==
    /\ is_using /\ peer = "open" /\ sent < MaxSent
    /\ wire' = wire \o Bytes(m) /\ waiting' = Append(waiting, m)
    /\ sent' = sent + 1
    /\ UNCHANGED <<server, peer, conns>>

\* The client ends the connection, in the middle of a message perhaps.
PeerShut(part) ==
    /\ is_using /\ peer = "open"
    /\ peer' = "shut" /\ wire' = wire \o part
    /\ UNCHANGED <<server, waiting, sent, conns>>

PartsOf == {<<>>} \cup {SubSeq(Bytes(m), 1, k) : m \in Msg, k \in 1 .. LenBytes + 1}
Parts   == {p \in PartsOf : p = <<>> \/ Len(p) < Size[p[1][1]]}

PeerReset ==
    /\ is_using /\ peer = "open"
    /\ peer' = "reset" /\ wire' = <<>>
    /\ UNCHANGED <<server, waiting, sent, conns>>

-----------------------------------------------------------------------------
(* MessageHandler and TcpSocket. *)

\* GetFreeTcpSocket and AcceptClient
Accept ==
    /\ ~is_using /\ conns < MaxConns
    /\ is_using' = TRUE /\ rb' = Reset(rb) /\ pc' = "idle" /\ silent' = FALSE
    /\ gone' = "no"
    /\ peer' = "open" /\ wire' = <<>> /\ waiting' = <<>> /\ conns' = conns + 1
    /\ UNCHANGED <<ret, data, sent>>

\* DeleteClientByFD, close_socket
DeleteClient(why) ==
    /\ is_using' = FALSE /\ pc' = "idle" /\ gone' = why
    /\ UNCHANGED <<rb, ret, data, silent, env>>

\* epoll reports a hang-up or an error: ReceiveMessage reads nothing more.
HangUp ==
    /\ is_using /\ pc = "idle" /\ peer = "reset"
    /\ DeleteClient("hup")

\* epoll reports bytes or the end of the connection: RecvData begins.
RecvData ==
    /\ is_using /\ pc = "idle"
    /\ peer # "reset" /\ (wire # <<>> \/ peer = "shut")
    /\ pc' = "recv"
    /\ rb' = IF rb.tail = rb.head THEN Reset(rb) ELSE rb
    /\ UNCHANGED <<is_using, ret, data, silent, gone, env>>

\* TryMoveReceDataAhead returns from RecvData: the buffer is full.
NotFinish == rb.tail = BufSize /\ rb.head = 0

\* RecvData returns and the first get_one_message is due.
ReturnRecv(b, status) ==
    /\ pc' = "get" /\ ret' = status /\ rb' = b
    /\ UNCHANGED <<is_using, data, silent, gone, env>>

\* recv() yields k bytes.
Recv(k) ==
    /\ pc = "recv" /\ ~NotFinish /\ peer # "reset"
    /\ LET b == TryMoveReceDataAhead(rb)
       IN  /\ k <= Len(wire) /\ k <= Room(b)
           /\ rb' = Received(b, k)
    /\ wire' = SubSeq(wire, k + 1, Len(wire))
    /\ UNCHANGED <<is_using, pc, ret, data, silent, gone, peer, waiting, sent, conns>>

\* RecvData ends: the buffer is full; recv() has no more (EAGAIN); recv()
\* returns 0, for the end of the connection or for a length of 0, or fails.
RecvEnds ==
    /\ pc = "recv"
    /\ LET b == TryMoveReceDataAhead(rb)
       IN  \/ NotFinish /\ ReturnRecv(rb, "not_finish")
           \/ /\ ~NotFinish /\ peer = "open" /\ wire = <<>> /\ Room(b) > 0
              /\ ReturnRecv(b, "success")
           \/ /\ ~NotFinish
              /\ peer = "reset" \/ (peer = "shut" /\ wire = <<>>) \/ Room(b) = 0
              /\ ReturnRecv(b, "error")

\* get_one_message copies a message out, and it is handled.
GetOneMessage ==
    /\ pc = "get" /\ HasMessage(rb)
    /\ data' = OneMessage(rb)
    /\ rb' = [rb EXCEPT !.head = @ + msg_size(rb)]
    /\ silent' = (silent /\ rb.mem[rb.head][1] \notin Beat)
    /\ waiting' = IF waiting = <<>> THEN <<>> ELSE Tail(waiting)
    /\ UNCHANGED <<is_using, pc, ret, gone, peer, wire, sent, conns>>

\* get_one_message finds none: the loop ends, and with read_status_error the
\* client is deleted.
NoMessage ==
    /\ pc = "get" /\ ~HasMessage(rb)
    /\ IF ret = "error" THEN DeleteClient("eof")
       ELSE pc' = "idle" /\ UNCHANGED <<is_using, rb, ret, data, silent, gone, env>>

\* Heartbeat::OnTick, once per period: module Heartbeat has the times.
Sweep ==
    /\ is_using /\ pc = "idle"
    /\ IF Dropped THEN DeleteClient("silent")
       ELSE silent' = TRUE /\ UNCHANGED <<is_using, rb, pc, ret, data, gone, env>>

Init ==
    /\ is_using = FALSE
    /\ rb = [mem |-> [i \in 0 .. BufSize - 1 |-> Junk], head |-> 0, tail |-> 0]
    /\ pc = "idle" /\ ret = "success" /\ data = <<>> /\ silent = FALSE /\ gone = "no"
    /\ peer = "open" /\ wire = <<>> /\ waiting = <<>> /\ sent = 0 /\ conns = 0

Handler == HangUp \/ RecvData \/ (\E k \in 1 .. BufSize : Recv(k)) \/ RecvEnds
           \/ GetOneMessage \/ NoMessage

Client == (\E m \in Msg : PeerSend(m)) \/ (\E p \in Parts : PeerShut(p)) \/ PeerReset

Next == Accept \/ Client \/ Handler \/ Sweep

Spec == Init /\ [][Next]_vars

\* epoll is level-triggered, so the main loop comes back to a connection with
\* bytes.  Between two calls of ReceiveMessage, when no connection is being
\* read, it calls Heartbeat::OnTick as often as the period has passed.
Fairness == WF_vars(Handler) /\ SF_vars(Sweep)

-----------------------------------------------------------------------------
(* Properties. *)

\* Every variable has its type, and the head and the tail stay in the buffer.
TypeOK ==
    /\ is_using \in BOOLEAN /\ silent \in BOOLEAN
    /\ DOMAIN rb.mem = 0 .. BufSize - 1
    /\ rb.head \in 0 .. rb.tail /\ rb.tail \in 0 .. BufSize
    /\ pc \in {"idle", "recv", "get"}
    /\ ret \in {"success", "not_finish", "error"}
    /\ gone \in {"no", "hup", "eof", "silent"}
    /\ peer \in {"open", "shut", "reset"}
    /\ waiting \in Seq(Msg) /\ sent \in 0 .. MaxSent /\ conns \in 0 .. MaxConns

\* However the bytes arrive, what is in the buffer and in the kernel are the
\* messages not yet handled, without a gap and with nothing of an earlier
\* connection, and then at most the part of one that will never be complete.
StreamIntact ==
    is_using /\ peer # "reset" =>
        LET left == Held(rb) \o wire
            due  == FlattenSeq([i \in DOMAIN waiting |-> Bytes(waiting[i])])
        IN  /\ IsPrefix(due, left)
            /\ SubSeq(left, Len(due) + 1, Len(left))
                   \in (IF peer = "open" THEN {<<>>} ELSE Parts)

\* RecvData takes a connection for broken only when it is: a full buffer never
\* makes recv() return 0.
NoFalseDisconnect == pc = "get" /\ ret = "error" => peer # "open"

\* The handlers get the messages of the client whole, once and in order.
Stream == INSTANCE MessageStream WITH
    open <- is_using,
    last <- IF \E m \in Msg : data = Bytes(m)
            THEN CHOOSE m \in Msg : data = Bytes(m) ELSE None
ImplementsStream == Stream!Spec

\* Every message is handled, all of them before an orderly end, unless the
\* connection breaks or the heartbeat drops the client.  One that is larger than
\* MAX_MESSAGE_LEN stays at the head and keeps the rest from being handled, the
\* heartbeats too: that connection does not stay for ever.
Delivered ==
    waiting # <<>> ~>
        \/ waiting = <<>>
        \/ gone \in {"hup", "silent"}
        \/ gone = "eof" /\ (peer = "reset" \/ Size[Head(waiting)] > MaxSize)
=============================================================================
