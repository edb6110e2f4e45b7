------------------------------ MODULE Timeline ------------------------------
(***************************************************************************)
(* What SYN promises, without its ring buffer: while a game runs there is  *)
(* an unbounded line of frames; a message is put on a frame that has not   *)
(* gone out yet, and the frames go out one after the other, every message  *)
(* once, in the order it was put there, and an empty frame as a single     *)
(* mark.                                                                   *)
(***************************************************************************)
EXTENDS Naturals, Sequences

CONSTANTS
    Mess,     \* the messages
    Mark,     \* what is sent for an empty frame
    Frame     \* the frame numbers

VARIABLES
    open,     \* whether a game runs
    next,     \* the frame that goes out next
    line,     \* for each frame the messages put on it and not yet sent
    sent      \* what went out in this game: a sequence of [frame, mess]

vars == <<open, next, line, sent>>

Empty == [f \in Frame |-> <<>>]

Init == ~open /\ next = 1 /\ line = Empty /\ sent = <<>>

\* A game starts, with nothing left of an earlier one.
Start ==
    /\ ~open
    /\ open' = TRUE /\ next' = 1 /\ line' = Empty /\ sent' = <<>>

\* A message is put on a frame to come.
Put(f) ==
    /\ open /\ f >= next
    /\ UNCHANGED <<open, next, sent>>
    /\ \A g \in Frame \ {f} : line'[g] = line[g]
    /\ LET longer == line'[f]
       IN  /\ longer # <<>> /\ longer[Len(longer)] \in Mess
           /\ line[f] = SubSeq(longer, 1, Len(longer) - 1)

Begun == \E j \in DOMAIN sent : sent[j].frame = next

\* The next message of the frame goes out.
Emit ==
    /\ open /\ line[next] # <<>>
    /\ sent' = Append(sent, [frame |-> next, mess |-> Head(line[next])])
    /\ line' = [line EXCEPT ![next] = Tail(@)]
    /\ UNCHANGED <<open, next>>

\* A frame without messages goes out.
EmitMark ==
    /\ open /\ line[next] = <<>> /\ ~Begun
    /\ sent' = Append(sent, [frame |-> next, mess |-> Mark])
    /\ UNCHANGED <<open, next, line>>

\* The frame is done.
Advance ==
    /\ open /\ line[next] = <<>> /\ Begun
    /\ next' = next + 1
    /\ UNCHANGED <<open, line, sent>>

\* The game is over; what was not sent is forgotten.
Stop ==
    /\ open
    /\ open' = FALSE /\ line' = Empty
    /\ UNCHANGED <<next, sent>>

Next ==
    \/ Start \/ Emit \/ EmitMark \/ Advance \/ Stop
    \/ \E f \in Frame : Put(f)

Spec == Init /\ [][Next]_vars
=============================================================================
