--------------------------- MODULE MessageStream ---------------------------
(***************************************************************************)
(* What a connection promises to both of its ends, whatever pieces the     *)
(* bytes travel in: messages that were accepted arrive whole, once and in  *)
(* order, and nothing of one connection arrives on the next one that uses  *)
(* the same TcpSocket object.  TcpRecv implements it from the client to    *)
(* the handlers, TcpSend from the handlers to the client.                  *)
(***************************************************************************)
EXTENDS Sequences

CONSTANTS
    Msg,   \* the messages
    None   \* no message

VARIABLES
    waiting,   \* the messages accepted and not yet taken
    last,      \* the last message taken
    open       \* whether the connection is in use

vars == <<waiting, last, open>>

Init == waiting = <<>> /\ last = None /\ open = FALSE

Open  == ~open /\ open' = TRUE /\ waiting' = <<>> /\ UNCHANGED last
Close == open /\ open' = FALSE /\ UNCHANGED <<waiting, last>>

Put(m) == open /\ waiting' = Append(waiting, m) /\ UNCHANGED <<last, open>>

Take == /\ waiting # <<>>
        /\ last' = Head(waiting) /\ waiting' = Tail(waiting)
        /\ UNCHANGED open

Next == Open \/ Close \/ (\E m \in Msg : Put(m)) \/ Take

Spec == Init /\ [][Next]_vars
=============================================================================
