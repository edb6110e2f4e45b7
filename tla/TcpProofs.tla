----------------------------- MODULE TcpProofs -----------------------------
(***************************************************************************)
(* Proofs about TcpRecv and about the two halves of a TcpSocket object     *)
(* together, for any messages, lengths and buffers, any number of          *)
(* connections and any pieces that the bytes arrive in.                    *)
(***************************************************************************)
EXTENDS MC_Tcp, WellFoundedInduction, SequenceTheorems, TLAPS

-----------------------------------------------------------------------------
(* The inductive invariant of the receiving half. *)

Byte   == (Msg \cup {None}) \X Nat
Memory == [0 .. BufSize - 1 -> Byte]

\* The types, and the head and the tail within the buffer
RecvTypes ==
    /\ rb \in [mem : Memory, head : Nat, tail : Nat]
    /\ rb.head <= rb.tail /\ rb.tail <= BufSize
    /\ wire \in Seq(Byte) /\ waiting \in Seq(Msg)
    /\ TypeOK

\* The bytes that are left to handle, in the buffer and then in the kernel
Total == rb.tail - rb.head + Len(wire)
At(p) == IF p <= rb.tail - rb.head THEN rb.mem[rb.head + p - 1]
         ELSE wire[p - (rb.tail - rb.head)]

\* The i-th message that waits begins behind byte st[i], and what is left of it
\* is there; nothing else is left, unless the client shut the connection in the
\* middle of a message or it broke.
Ends(e) ==
    \/ peer = "open" /\ Total = e
    \/ peer = "shut" /\ Total = e
    \/ peer = "shut" /\ Total > e /\ \E m \in Msg :
         /\ Total - e < Size[m] /\ Total - e <= LenBytes + 1
         /\ \A p \in 1 .. Total - e : At(e + p) = <<m, p>>
    \/ peer = "reset" /\ Total <= e

Chain(st) ==
    /\ st \in [1 .. Len(waiting) + 1 -> Nat] /\ st[1] = 0
    /\ \A i, j \in 1 .. Len(waiting) + 1 : i <= j => st[i] <= st[j]
    /\ \A i \in 1 .. Len(waiting) :
         /\ st[i + 1] = st[i] + Size[waiting[i]]
         /\ \A j \in 1 .. Size[waiting[i]] :
              st[i] + j <= Total => At(st[i] + j) = <<waiting[i], j>>
    /\ Ends(st[Len(waiting) + 1])

StreamInv == is_using => \E st : Chain(st)

\* A connection is served from accept() to its deletion, and RecvData reports
\* an error only of one that is broken.
ServedInv == (pc # "idle" => is_using) /\ NoFalseDisconnect

\* What holds in every state, strong enough to be kept by every step.
IInv == RecvTypes /\ StreamInv /\ ServedInv

-----------------------------------------------------------------------------
(* The buffer. *)

\* The bytes of a message are as many as its size, in order.
LEMMA ByteFacts ==
    /\ Junk \in Byte
    /\ \A m \in Msg : /\ Size[m] \in Nat \ {0} /\ Size[m] > 1
                      /\ Bytes(m) \in Seq(Byte) /\ Len(Bytes(m)) = Size[m]
                      /\ \A j \in 1 .. Size[m] : Bytes(m)[j] = <<m, j>>
  <1>1. Junk \in Byte
    BY DEF Junk, Byte
  <1>2. ASSUME NEW m \in Msg
        PROVE  /\ Size[m] \in Nat \ {0} /\ Size[m] > 1
               /\ Bytes(m) \in Seq(Byte) /\ Len(Bytes(m)) = Size[m]
               /\ \A j \in 1 .. Size[m] : Bytes(m)[j] = <<m, j>>
    <2>1. Size[m] \in Nat \ {0} /\ Size[m] > 1
      BY TcpRecvAssumption
    <2>2. \A j \in 1 .. Size[m] : <<m, j>> \in Byte
      BY <2>1 DEF Byte
    <2> QED BY <2>1, <2>2 DEF Bytes
  <1> QED BY <1>1, <1>2

\* The bytes left have the type of a byte.
LEMMA AtType ==
    ASSUME RecvTypes
    PROVE  /\ Total \in Nat /\ rb.head \in Nat /\ rb.tail \in Nat /\ Len(wire) \in Nat
           /\ rb.mem \in Memory
           /\ \A p \in 1 .. Total : At(p) \in Byte
  <1>1. /\ rb.head \in Nat /\ rb.tail \in Nat /\ rb.mem \in Memory /\ rb.head <= rb.tail
        /\ rb.tail <= BufSize /\ wire \in Seq(Byte) /\ Len(wire) \in Nat /\ BufSize \in Nat
    BY TcpRecvAssumption DEF RecvTypes
  <1>2. Total \in Nat
    BY <1>1 DEF Total
  <1>3. ASSUME NEW p \in 1 .. Total PROVE At(p) \in Byte
    <2>1. CASE p <= rb.tail - rb.head
      <3>1. rb.head + p - 1 \in 0 .. BufSize - 1
        BY <1>1, <1>2, <2>1
      <3> QED BY <1>1, <2>1, <3>1 DEF At, Memory
    <2>2. CASE ~(p <= rb.tail - rb.head)
      <3>1. p - (rb.tail - rb.head) \in 1 .. Len(wire)
        BY <1>1, <1>2, <2>2 DEF Total
      <3> QED BY <1>1, <2>2, <3>1 DEF At
    <2> QED BY <2>1, <2>2
  <1> QED BY <1>1, <1>2, <1>3

\* TryMoveReceDataAhead moves the bytes and leaves room, unless the buffer is
\* full of bytes that are left.
LEMMA MoveAhead ==
    ASSUME RecvTypes
    PROVE  LET b == TryMoveReceDataAhead(rb)
           IN  /\ b \in [mem : Memory, head : Nat, tail : Nat]
               /\ b.mem \in Memory /\ b.head \in Nat /\ b.tail \in Nat
               /\ b.head <= b.tail /\ b.tail <= BufSize /\ b.tail - b.head = rb.tail - rb.head
               /\ \A p \in 1 .. rb.tail - rb.head : b.mem[b.head + p - 1] = rb.mem[rb.head + p - 1]
               /\ ~NotFinish => Room(b) > 0
  <1>1. /\ rb.head \in Nat /\ rb.tail \in Nat /\ rb.mem \in Memory /\ rb.head <= rb.tail
        /\ rb.tail <= BufSize /\ BufSize \in Nat /\ rb \in [mem : Memory, head : Nat, tail : Nat]
    BY TcpRecvAssumption DEF RecvTypes
  <1>2. CASE rb.tail = BufSize /\ rb.head > 0
    <2> DEFINE mem == [i \in 0 .. BufSize - 1 |->
                         IF i < rb.tail - rb.head THEN rb.mem[rb.head + i] ELSE rb.mem[i]]
               b == [mem |-> mem, head |-> 0, tail |-> rb.tail - rb.head]
    <2>1. TryMoveReceDataAhead(rb) = b
      BY <1>2 DEF TryMoveReceDataAhead
    <2>2. ASSUME NEW i \in 0 .. BufSize - 1
          PROVE  /\ mem[i] \in Byte
                 /\ i < rb.tail - rb.head => mem[i] = rb.mem[rb.head + i]
      <3>1. i < rb.tail - rb.head => rb.head + i \in 0 .. BufSize - 1
        BY <1>1
      <3> QED BY <1>1, <3>1 DEF Memory
    <2>3. mem \in Memory
      BY <2>2 DEF Memory
    <2>4. \A p \in 1 .. rb.tail - rb.head : mem[p - 1] = rb.mem[rb.head + p - 1]
      <3> SUFFICES ASSUME NEW p \in 1 .. rb.tail - rb.head
                   PROVE  mem[p - 1] = rb.mem[rb.head + p - 1]
        OBVIOUS
      <3>1. p - 1 \in 0 .. BufSize - 1 /\ p - 1 < rb.tail - rb.head /\ rb.head + (p - 1) = rb.head + p - 1
        BY <1>1
      <3> HIDE DEF mem
      <3> QED BY <2>2, <3>1
    <2> HIDE DEF mem
    <2>5. b.mem = mem /\ b.head = 0 /\ b.tail = rb.tail - rb.head
      OBVIOUS
    <2> QED BY <1>1, <1>2, <2>1, <2>3, <2>4, <2>5 DEF Room
  <1>3. CASE ~(rb.tail = BufSize /\ rb.head > 0)
    <2>1. TryMoveReceDataAhead(rb) = rb
      BY <1>3 DEF TryMoveReceDataAhead
    <2> QED BY <1>1, <1>3, <2>1 DEF Room, NotFinish
  <1> QED BY <1>2, <1>3

-----------------------------------------------------------------------------
(* Steps that leave the stream of bytes as it is. *)

\* The chain depends on the bytes left, wherever they are.
LEMMA SameChain ==
    ASSUME RecvTypes, StreamInv, is_using' => is_using, UNCHANGED <<waiting, peer>>,
           Total' = Total, \A p \in 1 .. Total : At(p)' = At(p)
    PROVE  StreamInv'
  <1> SUFFICES ASSUME is_using' PROVE \E st : Chain(st)'
    BY DEF StreamInv
  <1>1. PICK st : Chain(st)
    BY DEF StreamInv
  <1>2. Total \in Nat /\ Len(waiting) \in Nat
    BY AtType DEF RecvTypes
  <1>3. \A i \in 1 .. Len(waiting) : /\ waiting[i] \in Msg /\ Size[waiting[i]] \in Nat
                                     /\ st[i] \in Nat
    <2>1. \A i \in 1 .. Len(waiting) : waiting[i] \in Msg /\ i \in 1 .. Len(waiting) + 1
      BY <1>2 DEF RecvTypes
    <2>2. st \in [1 .. Len(waiting) + 1 -> Nat]
      BY <1>1 DEF Chain
    <2> QED BY <2>1, <2>2, ByteFacts
  <1>4. \A i \in 1 .. Len(waiting) :
          /\ st[i + 1] = st[i] + Size[waiting[i]]
          /\ \A j \in 1 .. Size[waiting[i]] :
               st[i] + j <= Total => At(st[i] + j)' = <<waiting[i], j>>
    <2> SUFFICES ASSUME NEW i \in 1 .. Len(waiting), NEW j \in 1 .. Size[waiting[i]],
                        st[i] + j <= Total
                 PROVE  At(st[i] + j)' = <<waiting[i], j>>
      BY <1>1 DEF Chain
    <2>1. st[i] + j \in 1 .. Total
      BY <1>2, <1>3
    <2>2. At(st[i] + j) = <<waiting[i], j>>
      BY <1>1 DEF Chain
    <2> QED BY <2>1, <2>2
  <1>5. PICK e \in Nat : e = st[Len(waiting) + 1]
    BY <1>1, <1>2 DEF Chain
  <1>6. Ends(e)
    BY <1>1, <1>5 DEF Chain
  <1>7. Ends(e)'
    <2>1. CASE peer = "shut" /\ Total > e /\ \E m \in Msg :
                 /\ Total - e < Size[m] /\ Total - e <= LenBytes + 1
                 /\ \A p \in 1 .. Total - e : At(e + p) = <<m, p>>
      <3>1. PICK m \in Msg : /\ Total - e < Size[m] /\ Total - e <= LenBytes + 1
                             /\ \A p \in 1 .. Total - e : At(e + p) = <<m, p>>
        BY <2>1
      <3>2. ASSUME NEW p \in 1 .. Total - e PROVE At(e + p)' = <<m, p>>
        <4>1. e + p \in 1 .. Total
          BY <1>2
        <4> QED BY <3>1, <4>1
      <3> QED BY <2>1, <3>1, <3>2 DEF Ends
    <2> QED BY <1>6, <2>1 DEF Ends
  <1> QED BY <1>1, <1>4, <1>5, <1>7 DEF Chain

\* The receiver's types follow from those of the parts that a step changes.
LEMMA TypesKept ==
    ASSUME RecvTypes, rb' \in [mem : Memory, head : Nat, tail : Nat],
           rb'.head <= rb'.tail, rb'.tail <= BufSize,
           wire' \in Seq(Byte), waiting' \in Seq(Msg),
           is_using' \in BOOLEAN, silent' \in BOOLEAN,
           pc' \in {"idle", "recv", "get"}, ret' \in {"success", "not_finish", "error"},
           gone' \in {"no", "hup", "eof", "silent"}, peer' \in {"open", "shut", "reset"},
           sent' \in 0 .. MaxSent, conns' \in 0 .. MaxConns
    PROVE  RecvTypes'
  <1>1. rb'.mem \in Memory /\ rb'.head \in Nat /\ rb'.tail \in Nat /\ BufSize \in Nat
    BY TcpRecvAssumption
  <1>2. /\ DOMAIN rb'.mem = 0 .. BufSize - 1
        /\ rb'.head \in 0 .. rb'.tail /\ rb'.tail \in 0 .. BufSize
    BY <1>1 DEF Memory
  <1> QED BY <1>2 DEF RecvTypes, TypeOK

\* A step of which the receiving buffer and the kernel see nothing
LEMMA Untouched ==
    ASSUME IInv, UNCHANGED <<rb, env>>, is_using' => is_using,
           is_using' \in BOOLEAN, silent' \in BOOLEAN,
           pc' \in {"idle", "recv", "get"}, ret' \in {"success", "not_finish", "error"},
           gone' \in {"no", "hup", "eof", "silent"}, ServedInv'
    PROVE  IInv'
  <1>1. RecvTypes'
    BY TypesKept DEF IInv, RecvTypes, TypeOK, env
  <1>2. StreamInv'
    BY SameChain DEF IInv, env, Total, At
  <1> QED BY <1>1, <1>2 DEF IInv

\* close_socket leaves nothing to say about the stream.
LEMMA DeleteKeeps ==
    ASSUME IInv, NEW why \in {"hup", "eof", "silent"}, DeleteClient(why) PROVE IInv'
  BY Untouched DEF DeleteClient, IInv, ServedInv, NoFalseDisconnect, RecvTypes, TypeOK, env

\* The head and the tail go back to the front when nothing is left in between.
LEMMA ResetBuffer ==
    ASSUME RecvTypes
    PROVE  /\ Reset(rb) \in [mem : Memory, head : Nat, tail : Nat]
           /\ Reset(rb).mem = rb.mem /\ Reset(rb).head = 0 /\ Reset(rb).tail = 0
  BY DEF Reset, RecvTypes

\* RecvData makes room before it reads.
LEMMA RecvDataKeeps ==
    ASSUME IInv, RecvData PROVE IInv'
  <1>1. /\ UNCHANGED <<is_using, ret, data, silent, gone, peer, wire, waiting, sent, conns>>
        /\ is_using /\ pc' = "recv"
    BY DEF RecvData, env
  <1>2. CASE rb' = rb
    <2>1. RecvTypes'
      BY <1>1, <1>2, TypesKept DEF IInv, RecvTypes, TypeOK
    <2>2. StreamInv'
      BY <1>1, <1>2, SameChain DEF IInv, Total, At
    <2> QED BY <1>1, <2>1, <2>2 DEF IInv, ServedInv, NoFalseDisconnect
  <1>3. CASE rb.tail = rb.head /\ rb' = Reset(rb)
    <2>0. RecvTypes
      BY DEF IInv
    <2>1. /\ rb' \in [mem : Memory, head : Nat, tail : Nat] /\ rb'.mem = rb.mem
          /\ rb'.head = 0 /\ rb'.tail = 0 /\ BufSize \in Nat /\ rb.tail \in Nat
      BY <1>3, <2>0, ResetBuffer, TcpRecvAssumption DEF RecvTypes
    <2>2. RecvTypes'
      BY <1>1, <2>0, <2>1, TypesKept DEF RecvTypes, TypeOK
    <2>3. Total' = Total /\ \A p \in 1 .. Total : At(p)' = At(p)
      BY <1>1, <1>3, <2>1 DEF Total, At
    <2>4. StreamInv'
      BY <1>1, <2>0, <2>3, SameChain DEF IInv
    <2> QED BY <1>1, <2>2, <2>4 DEF IInv, ServedInv, NoFalseDisconnect
  <1> QED BY <1>2, <1>3 DEF RecvData

\* recv() moves bytes from the kernel to the buffer.
LEMMA RecvKeeps ==
    ASSUME IInv, NEW k \in 1 .. BufSize, Recv(k) PROVE IInv'
  <1>0. PICK b : b = TryMoveReceDataAhead(rb)
    OBVIOUS
  <1>1. /\ ~NotFinish /\ k <= Len(wire) /\ k <= Room(b) /\ rb' = Received(b, k)
        /\ wire' = SubSeq(wire, k + 1, Len(wire))
        /\ UNCHANGED <<is_using, pc, ret, data, silent, gone, peer, waiting, sent, conns>>
    BY <1>0 DEF Recv
  <1>2. /\ RecvTypes /\ wire \in Seq(Byte) /\ Len(wire) \in Nat /\ BufSize \in Nat
        /\ rb.head \in Nat /\ rb.tail \in Nat /\ rb.head <= rb.tail /\ k \in Nat \ {0}
    BY TcpRecvAssumption DEF IInv, RecvTypes
  <1>3. /\ b \in [mem : Memory, head : Nat, tail : Nat]
        /\ b.mem \in Memory /\ b.head \in Nat /\ b.tail \in Nat
        /\ b.head <= b.tail /\ b.tail - b.head = rb.tail - rb.head
        /\ \A p \in 1 .. rb.tail - rb.head : b.mem[b.head + p - 1] = rb.mem[rb.head + p - 1]
    BY <1>0, <1>2, MoveAhead
  <1>4. PICK bh \in Nat, bt \in Nat, h \in Nat :
          /\ bh = b.head /\ bt = b.tail /\ h = rb.tail - rb.head
          /\ bt = bh + h /\ bt + k <= BufSize
    <2>1. PICK bh \in Nat, bt \in Nat, h \in Nat : bh = b.head /\ bt = b.tail /\ h = rb.tail - rb.head
      BY <1>2, <1>3
    <2>2. bt - bh = h /\ k <= BufSize - bt
      BY <1>1, <1>3, <2>1 DEF Room
    <2>3. bt = bh + h /\ bt + k <= BufSize
      BY <1>2, <2>2
    <2> QED BY <2>1, <2>3
  <1>a. /\ bt = bh + h /\ bt + k <= BufSize /\ k \in Nat \ {0} /\ BufSize \in Nat
        /\ Len(wire) \in Nat /\ k <= Len(wire)
    BY <1>1, <1>2, <1>4
  <1> DEFINE mem == [i \in DOMAIN b.mem |-> IF i \in bt .. bt + k - 1
                                            THEN wire[i - bt + 1] ELSE b.mem[i]]
  <1>5. /\ rb' \in [mem : Memory, head : Nat, tail : Nat]
        /\ rb'.mem = mem /\ rb'.head = bh /\ rb'.tail = bt + k
    <2>1. ASSUME NEW i \in 0 .. BufSize - 1 PROVE mem[i] \in Byte
      <3>1. CASE i \in bt .. bt + k - 1
        <4>1. i - bt + 1 \in 1 .. Len(wire)
          <5> HIDE DEF mem
          <5> QED BY <1>1, <1>2, <3>1
        <4> QED BY <1>2, <1>3, <3>1, <4>1 DEF Memory
      <3>2. CASE i \notin bt .. bt + k - 1
        BY <1>3, <3>2 DEF Memory
      <3> QED BY <3>1, <3>2
    <2>2. mem \in Memory
      BY <1>3, <2>1 DEF Memory
    <2>3. rb' = [mem |-> mem, head |-> bh, tail |-> bt + k]
      BY <1>1, <1>4 DEF Received
    <2>4. bt + k \in Nat
      BY <1>2
    <2> HIDE DEF mem
    <2> QED BY <2>2, <2>3, <2>4
  <1>6. /\ wire' \in Seq(Byte) /\ Len(wire') = Len(wire) - k
        /\ \A i \in 1 .. Len(wire) - k : wire'[i] = wire[i + k]
    BY <1>1, <1>2
  <1>7. Total' = Total
    <2>1. Total = h + Len(wire) /\ Total' = bt + k - bh + (Len(wire) - k)
      BY <1>4, <1>5, <1>6 DEF Total
    <2>2. h + Len(wire) = bt + k - bh + (Len(wire) - k)
      BY <1>a
    <2> QED BY <2>1, <2>2
  <1>8. ASSUME NEW p \in 1 .. Total PROVE At(p)' = At(p)
    <2>1. rb'.tail - rb'.head = h + k /\ p \in Nat /\ p > 0 /\ p <= h + Len(wire)
      <3>1. Total = h + Len(wire)
        BY <1>4 DEF Total
      <3>2. bt + k - bh = h + k /\ h + Len(wire) \in Nat
        BY <1>a
      <3> QED BY <1>5, <3>1, <3>2
    <2>2. CASE p <= h
      <3>1. bh + p - 1 \in 0 .. BufSize - 1 /\ bh + p - 1 \notin bt .. bt + k - 1
            /\ p <= h + k /\ p \in 1 .. h
        BY <1>a, <2>1, <2>2
      <3>2. mem[bh + p - 1] = b.mem[bh + p - 1]
        BY <1>3, <3>1 DEF Memory
      <3>3. At(p)' = mem[bh + p - 1]
        BY <1>5, <2>1, <3>1 DEF At
      <3>4. At(p) = rb.mem[rb.head + p - 1]
        BY <1>4, <2>2 DEF At
      <3>5. b.mem[bh + p - 1] = rb.mem[rb.head + p - 1]
        BY <1>3, <1>4, <3>1
      <3> QED BY <3>2, <3>3, <3>4, <3>5
    <2>3. CASE p > h /\ p <= h + k
      <3>1. /\ bh + p - 1 \in 0 .. BufSize - 1 /\ bh + p - 1 \in bt .. bt + k - 1
            /\ (bh + p - 1) - bt + 1 = p - h
        BY <1>a, <2>1, <2>3
      <3>2. mem[bh + p - 1] = wire[p - h]
        BY <1>3, <3>1 DEF Memory
      <3>3. At(p)' = mem[bh + p - 1]
        BY <1>5, <2>1, <2>3 DEF At
      <3>4. At(p) = wire[p - h]
        BY <1>4, <2>1, <2>3 DEF At
      <3> QED BY <3>2, <3>3, <3>4
    <2>4. CASE p > h + k
      <3>1. p - (h + k) \in 1 .. Len(wire) - k /\ p - (h + k) + k = p - h /\ ~(p <= h) /\ ~(p <= h + k)
        BY <1>a, <2>1, <2>4
      <3>2. At(p)' = wire'[p - (h + k)]
        BY <2>1, <3>1 DEF At
      <3>3. At(p) = wire[p - h]
        BY <1>4, <3>1 DEF At
      <3> QED BY <1>6, <3>1, <3>2, <3>3
    <2> QED BY <1>2, <2>1, <2>2, <2>3, <2>4
  <1>9. RecvTypes'
    <2>1. rb'.head <= rb'.tail /\ rb'.tail <= BufSize
      BY <1>2, <1>3, <1>4, <1>5
    <2> QED BY <1>1, <1>2, <1>5, <1>6, <2>1, TypesKept DEF RecvTypes, TypeOK
  <1>10. StreamInv'
    BY <1>1, <1>2, <1>7, <1>8, SameChain DEF IInv
  <1> QED BY <1>1, <1>9, <1>10 DEF IInv, ServedInv, NoFalseDisconnect

\* RecvData ends: the buffer is never full when recv() is asked for bytes, so an
\* error means that the connection is broken.
LEMMA RecvEndsKeeps ==
    ASSUME IInv, RecvEnds PROVE IInv'
  <1>0. PICK b : b = TryMoveReceDataAhead(rb)
    OBVIOUS
  <1>1. /\ RecvTypes /\ wire \in Seq(Byte) /\ Len(wire) \in Nat /\ BufSize \in Nat
        /\ rb.head \in Nat /\ rb.tail \in Nat /\ rb.head <= rb.tail /\ rb.tail <= BufSize
        /\ rb \in [mem : Memory, head : Nat, tail : Nat]
    BY TcpRecvAssumption DEF IInv, RecvTypes
  <1>2. /\ b \in [mem : Memory, head : Nat, tail : Nat]
        /\ b.head <= b.tail /\ b.tail <= BufSize /\ b.tail - b.head = rb.tail - rb.head
        /\ \A p \in 1 .. rb.tail - rb.head : b.mem[b.head + p - 1] = rb.mem[rb.head + p - 1]
        /\ ~NotFinish => Room(b) > 0
    BY <1>0, <1>1, MoveAhead
  <1>3. /\ pc = "recv" /\ pc' = "get" /\ UNCHANGED <<is_using, data, silent, gone, env>>
        /\ ret' \in {"success", "not_finish", "error"} /\ rb' \in {rb, b}
        /\ ret' = "error" => peer # "open"
    <2>1. ~NotFinish => Room(b) # 0
      BY <1>1, <1>2 DEF Room
    <2> QED BY <1>0, <2>1 DEF RecvEnds, ReturnRecv
  <1>4. /\ rb' \in [mem : Memory, head : Nat, tail : Nat]
        /\ rb'.head <= rb'.tail /\ rb'.tail <= BufSize /\ rb'.tail - rb'.head = rb.tail - rb.head
        /\ \A p \in 1 .. rb.tail - rb.head : rb'.mem[rb'.head + p - 1] = rb.mem[rb.head + p - 1]
    <2>1. CASE rb' = rb
      BY <1>1, <2>1
    <2>2. CASE rb' = b
      BY <1>2, <2>2
    <2> QED BY <1>3, <2>1, <2>2
  <1>5. Total' = Total /\ \A p \in 1 .. Total : At(p)' = At(p)
    <2>1. Total' = Total
      BY <1>3, <1>4 DEF Total, env
    <2>2. ASSUME NEW p \in 1 .. Total, p <= rb.tail - rb.head PROVE At(p)' = At(p)
      <3>1. p \in 1 .. rb.tail - rb.head
        BY <1>1, <2>2, AtType
      <3> QED BY <1>4, <2>2, <3>1 DEF At
    <2>3. ASSUME NEW p \in 1 .. Total, ~(p <= rb.tail - rb.head) PROVE At(p)' = At(p)
      BY <1>3, <1>4, <2>3 DEF At, env
    <2> QED BY <2>1, <2>2, <2>3
  <1>6. RecvTypes'
    BY <1>1, <1>3, <1>4, TypesKept DEF RecvTypes, TypeOK, env
  <1>7. StreamInv'
    BY <1>1, <1>3, <1>5, SameChain DEF IInv, env
  <1> QED BY <1>3, <1>6, <1>7 DEF IInv, ServedInv, NoFalseDisconnect, env

-----------------------------------------------------------------------------
(* The messages. *)

\* What get_one_message cuts off is the first message that waits, whole.
LEMMA FirstWhole ==
    ASSUME IInv, pc = "get", HasMessage(rb)
    PROVE  /\ waiting # <<>> /\ waiting[1] \in Msg /\ msg_size(rb) = Size[waiting[1]]
           /\ OneMessage(rb) = Bytes(waiting[1])
  <1>1. PICK h \in Nat, H \in Nat : /\ h = rb.head /\ H = rb.tail - rb.head
    BY DEF IInv, RecvTypes
  <1>2. PICK T \in Nat : T = Total /\ T >= H
    <2>1. Total = H + Len(wire) /\ Len(wire) \in Nat
      BY <1>1 DEF Total, IInv, RecvTypes
    <2> QED BY <2>1
  <1>3. H > 1 \/ H = 1
    <2>1. H > LenBytes
      BY <1>1 DEF HasMessage
    <2> QED BY <2>1, TcpRecvAssumption
  <1>4. At(1) = rb.mem[h] /\ msg_size(rb) > 0 /\ msg_size(rb) <= H
    <2>1. 1 <= H /\ h + 1 - 1 = h
      BY <1>3
    <2> QED BY <1>1, <2>1 DEF At, HasMessage
  <1>5. msg_size(rb) = IF At(1)[2] = 1 THEN Size[At(1)[1]] ELSE 0
    BY <1>1, <1>4 DEF msg_size
  <1>6. PICK st : Chain(st)
    BY DEF IInv, ServedInv, StreamInv
  <1>7. waiting \in Seq(Msg) /\ Len(waiting) \in Nat /\ st[1] = 0
    BY <1>6 DEF IInv, RecvTypes, Chain
  <1>8. waiting # <<>>
    <2> SUFFICES ASSUME waiting = <<>> PROVE FALSE
      OBVIOUS
    <2>1. Ends(0)
      BY <1>6, <1>7 DEF Chain
    <2>2. PICK m \in Msg : Total - 0 < Size[m] /\ \A p \in 1 .. Total - 0 : At(0 + p) = <<m, p>>
      BY <1>2, <1>3, <2>1 DEF Ends
    <2>3. At(1) = <<m, 1>>
      <3>1. 1 \in 1 .. Total - 0 /\ 0 + 1 = 1
        BY <1>2, <1>3
      <3> QED BY <2>2, <3>1
    <2>4. msg_size(rb) = Size[m]
      BY <1>5, <2>3
    <2>5. Size[m] \in Nat
      BY ByteFacts
    <2> QED BY <1>2, <1>4, <2>2, <2>4, <2>5
  <1>9. 1 \in 1 .. Len(waiting) /\ waiting[1] \in Msg
    BY <1>7, <1>8
  <1>10. PICK n \in Nat : n = Size[waiting[1]] /\ n > 1
    BY <1>9, ByteFacts
  <1>11. \A j \in 1 .. n : j <= T => At(j) = <<waiting[1], j>>
    <2> SUFFICES ASSUME NEW j \in 1 .. n, j <= T PROVE At(j) = <<waiting[1], j>>
      OBVIOUS
    <2>1. st[1] + j = j
      BY <1>7
    <2>2. st[1] + j <= Total
      BY <1>2, <2>1
    <2>3. At(st[1] + j) = <<waiting[1], j>>
      BY <1>6, <1>9, <1>10, <2>2 DEF Chain
    <2> QED BY <2>1, <2>3
  <1>12. msg_size(rb) = n
    <2>1. 1 \in 1 .. n /\ 1 <= T
      BY <1>2, <1>3, <1>10
    <2>2. At(1) = <<waiting[1], 1>>
      BY <1>11, <2>1
    <2> QED BY <1>5, <1>10, <2>2
  <1>13. ASSUME NEW j \in 1 .. n PROVE Held(rb)[j] = <<waiting[1], j>>
    <2>1. j \in 1 .. H /\ j <= H /\ j <= T
      BY <1>2, <1>4, <1>12
    <2>2. Held(rb)[j] = rb.mem[h + j - 1]
      BY <1>1, <2>1 DEF Held
    <2>3. At(j) = rb.mem[h + j - 1]
      BY <1>1, <2>1 DEF At
    <2> QED BY <1>11, <2>1, <2>2, <2>3
  <1>14. OneMessage(rb) = Bytes(waiting[1])
    <2>1. OneMessage(rb) = SubSeq(Held(rb), 1, n)
      BY <1>12 DEF OneMessage
    <2>2. /\ SubSeq(Held(rb), 1, n) = [j \in 1 .. n |-> Held(rb)[j]]
      <3>1. n <= H
        BY <1>4, <1>12
      <3>2. Held(rb) = [j \in 1 .. H |-> rb.mem[h + j - 1]]
        BY <1>1 DEF Held
      <3>3. Held(rb) \in Seq(Byte) /\ Len(Held(rb)) = H
        <4>1. ASSUME NEW j \in 1 .. H PROVE rb.mem[h + j - 1] \in Byte
          <5>1. j \in 1 .. Total /\ j <= rb.tail - rb.head
            BY <1>1, <1>2
          <5> QED BY <1>1, <5>1, AtType DEF At, IInv
        <4> QED BY <3>2, <4>1
      <3> QED BY <3>1, <3>3
    <2>3. [j \in 1 .. n |-> Held(rb)[j]] = [j \in 1 .. n |-> <<waiting[1], j>>]
      BY <1>13
    <2> QED BY <1>10, <2>1, <2>2, <2>3 DEF Bytes
  <1> QED BY <1>8, <1>9, <1>10, <1>12, <1>14

\* get_one_message takes the first message that waits.
LEMMA GetOneMessageKeeps ==
    ASSUME IInv, GetOneMessage PROVE IInv'
  <1>1. /\ pc = "get" /\ HasMessage(rb) /\ rb' = [rb EXCEPT !.head = @ + msg_size(rb)]
        /\ silent' \in BOOLEAN /\ is_using
        /\ UNCHANGED <<is_using, pc, ret, gone, peer, wire, sent, conns>>
    BY DEF GetOneMessage, IInv, ServedInv, RecvTypes, TypeOK
  <1>2. /\ waiting # <<>> /\ waiting[1] \in Msg /\ waiting' = Tail(waiting)
    BY <1>1, FirstWhole DEF GetOneMessage
  <1>3. PICK n \in Nat : n = Size[waiting[1]] /\ n = msg_size(rb) /\ n > 0
    BY <1>1, <1>2, FirstWhole, ByteFacts
  <1>4. PICK h \in Nat, H \in Nat, W \in Nat :
          h = rb.head /\ H = rb.tail - rb.head /\ W = Len(wire) /\ n <= H
    BY <1>1, <1>3 DEF IInv, RecvTypes, HasMessage
  <1>5. /\ rb' \in [mem : Memory, head : Nat, tail : Nat]
        /\ rb'.head = h + n /\ rb'.tail = rb.tail /\ rb'.mem = rb.mem
    BY <1>1, <1>3, <1>4, SMTT(40) DEF IInv, RecvTypes
  <1>6. rb.tail \in Nat /\ rb.tail = h + H /\ rb.tail <= BufSize /\ BufSize \in Nat
    BY <1>4, TcpRecvAssumption DEF IInv, RecvTypes
  <1>7. rb'.tail - rb'.head = H - n /\ rb'.head <= rb'.tail
    <2>1. (h + H) - (h + n) = H - n /\ h + n <= h + H
      BY <1>4
    <2> QED BY <1>5, <1>6, <2>1
  <1>8. /\ waiting \in Seq(Msg) /\ waiting' \in Seq(Msg) /\ Len(waiting') = Len(waiting) - 1
        /\ Len(waiting) \in Nat \ {0}
        /\ \A i \in 1 .. Len(waiting) - 1 : waiting'[i] = waiting[i + 1]
    BY <1>2 DEF IInv, RecvTypes
  <1>9. RecvTypes'
    BY <1>1, <1>5, <1>6, <1>7, <1>8, TypesKept DEF IInv, RecvTypes, TypeOK
  <1>10. /\ Total = H + W /\ Total' = H + W - n /\ H + W >= n
         /\ \A p \in 1 .. H + W - n : At(p)' = At(n + p)
    <2>1. Total = H + W /\ Total' = (H - n) + W
      BY <1>1, <1>4, <1>7 DEF Total
    <2>2. ASSUME NEW p \in 1 .. H + W - n PROVE At(p)' = At(n + p)
      <3>1. CASE p <= H - n
        <4>1. n + p <= H /\ (h + n) + p - 1 = h + (n + p) - 1
          BY <1>4, <3>1, SMTT(40)
        <4> QED BY <1>4, <1>5, <1>7, <3>1, <4>1 DEF At
      <3>2. CASE ~(p <= H - n)
        <4>1. ~(n + p <= H) /\ p - (H - n) = (n + p) - H
          BY <1>4, <3>2
        <4> QED BY <1>1, <1>4, <1>7, <3>2, <4>1 DEF At
      <3> QED BY <3>1, <3>2
    <2> QED BY <1>4, <2>1, <2>2
  <1>11. PICK st : Chain(st)
    BY <1>1 DEF IInv, StreamInv
  <1>12. PICK N \in Nat : N = Len(waiting) /\ N > 0
    BY <1>8
  <1>13. /\ st \in [1 .. N + 1 -> Nat] /\ st[1] = 0
         /\ \A i, j \in 1 .. N + 1 : i <= j => st[i] <= st[j]
         /\ \A i \in 1 .. N : st[i + 1] = st[i] + Size[waiting[i]]
         /\ \A i \in 1 .. N : \A j \in 1 .. Size[waiting[i]] :
              st[i] + j <= Total => At(st[i] + j) = <<waiting[i], j>>
         /\ Ends(st[N + 1])
    BY <1>11, <1>12 DEF Chain
  <1>14. \A i \in 1 .. N : waiting[i] \in Msg /\ Size[waiting[i]] \in Nat
    BY <1>8, <1>12, ByteFacts
  <1>24. st[2] = n
    <2>1. 1 \in 1 .. N /\ 1 + 1 = 2
      BY <1>12
    <2>2. st[1 + 1] = st[1] + Size[waiting[1]]
      BY <1>13, <2>1
    <2> QED BY <1>3, <1>13, <2>1, <2>2
  <1>15. \A i \in 1 .. N : i + 1 \in 1 .. N + 1 /\ st[i + 1] \in Nat /\ st[i + 1] >= n
    <2>1. 2 \in 1 .. N + 1 /\ st[2] = n
      BY <1>12, <1>24
    <2>2. \A i \in 1 .. N : i + 1 \in 1 .. N + 1 /\ 2 <= i + 1
      BY <1>12
    <2> QED BY <1>13, <2>1, <2>2
  <1> DEFINE su == [i \in 1 .. N |-> st[i + 1] - n]
  <1>16. Len(waiting') = N - 1 /\ Len(waiting') + 1 = N
    BY <1>8, <1>12
  <1>17. su \in [1 .. N -> Nat] /\ su[1] = 0
    <2>1. 1 \in 1 .. N /\ st[1 + 1] = n
      BY <1>12, <1>24
    <2> QED BY <1>15, <2>1
  <1>18. \A i, j \in 1 .. N : i <= j => su[i] <= su[j]
    <2> SUFFICES ASSUME NEW i \in 1 .. N, NEW j \in 1 .. N, i <= j PROVE su[i] <= su[j]
      OBVIOUS
    <2>1. st[i + 1] <= st[j + 1]
      BY <1>13, <1>15
    <2> QED BY <1>15, <2>1
  <1>19. ASSUME NEW i \in 1 .. N - 1
         PROVE  /\ su[i + 1] = su[i] + Size[waiting'[i]]
                /\ \A j \in 1 .. Size[waiting'[i]] :
                     su[i] + j <= Total' => At(su[i] + j)' = <<waiting'[i], j>>
    <2>1. i \in 1 .. N /\ i + 1 \in 1 .. N /\ waiting'[i] = waiting[i + 1]
      BY <1>8, <1>12
    <2>2. st[i + 1] \in Nat /\ st[i + 1] >= n /\ su[i] = st[i + 1] - n /\ su[i + 1] = st[i + 1 + 1] - n
      BY <1>15, <2>1
    <2>3. st[i + 1 + 1] = st[i + 1] + Size[waiting[i + 1]] /\ Size[waiting[i + 1]] \in Nat
      BY <1>13, <1>14, <2>1
    <2> HIDE DEF su
    <2>4. su[i + 1] = su[i] + Size[waiting'[i]]
      BY <2>1, <2>2, <2>3
    <2>5. ASSUME NEW j \in 1 .. Size[waiting'[i]], su[i] + j <= Total'
          PROVE  At(su[i] + j)' = <<waiting'[i], j>>
      <3>1. /\ su[i] + j \in 1 .. H + W - n /\ n + (su[i] + j) = st[i + 1] + j
            /\ st[i + 1] + j <= Total /\ j \in 1 .. Size[waiting[i + 1]]
        BY <1>10, <2>1, <2>2, <2>3, <2>5
      <3>2. At(st[i + 1] + j) = <<waiting[i + 1], j>>
        BY <1>13, <2>1, <3>1
      <3>3. At(su[i] + j)' = At(n + (su[i] + j))
        BY <1>10, <3>1
      <3> QED BY <2>1, <3>1, <3>2, <3>3
    <2> QED BY <2>4, <2>5
  <1>20. Ends(su[N])'
    <2>1. PICK e \in Nat, d \in Nat : e = st[N + 1] /\ e >= n /\ d = e - n /\ su[N] = d
      <3>1. N \in 1 .. N
        BY <1>12
      <3> QED BY <1>15, <3>1
    <2>2. PICK T \in Nat : T = Total /\ Total' = T - n
      BY <1>10
    <2> HIDE DEF su
    <2>3. Ends(e)
      BY <1>13, <2>1
    <2>4. CASE peer = "shut" /\ Total > e /\ \E m \in Msg :
                 /\ Total - e < Size[m] /\ Total - e <= LenBytes + 1
                 /\ \A p \in 1 .. Total - e : At(e + p) = <<m, p>>
      <3>1. PICK m \in Msg : /\ Total - e < Size[m] /\ Total - e <= LenBytes + 1
                             /\ \A p \in 1 .. Total - e : At(e + p) = <<m, p>>
        BY <2>4
      <3>2. Total' - d = Total - e /\ Total' > d
        BY <2>1, <2>2, <2>4
      <3>3. ASSUME NEW p \in 1 .. Total - e PROVE At(d + p)' = <<m, p>>
        <4>1. d + p \in 1 .. H + W - n /\ n + (d + p) = e + p
          BY <1>10, <2>1, <2>2
        <4>2. At(d + p)' = At(n + (d + p))
          BY <1>10, <4>1
        <4> QED BY <3>1, <4>1, <4>2
      <3>4. \A p \in 1 .. Total' - d : At(d + p)' = <<m, p>>
        BY <3>2, <3>3
      <3> QED BY <1>1, <2>1, <2>4, <3>1, <3>2, <3>4 DEF Ends
    <2>5. CASE peer \in {"open", "shut"} /\ Total = e
      BY <1>1, <2>1, <2>2, <2>5 DEF Ends
    <2>6. CASE peer = "reset" /\ Total <= e
      BY <1>1, <2>1, <2>2, <2>6 DEF Ends
    <2> QED BY <2>3, <2>4, <2>5, <2>6 DEF Ends
  <1>21. Chain(su)'
    <2> HIDE DEF su
    <2> QED BY <1>16, <1>17, <1>18, <1>19, <1>20 DEF Chain
  <1>22. StreamInv'
    BY <1>21 DEF StreamInv
  <1>23. ServedInv'
    BY <1>1 DEF IInv, ServedInv, NoFalseDisconnect
  <1> QED BY <1>9, <1>22, <1>23 DEF IInv

-----------------------------------------------------------------------------
(* The client. *)

\* Bytes that the client sends come behind the ones that are left.
LEMMA WireGrows ==
    ASSUME RecvTypes, NEW s \in Seq(Byte), wire' = wire \o s, UNCHANGED rb,
           NEW T \in Nat, T = Total
    PROVE  /\ wire' \in Seq(Byte) /\ Total' = T + Len(s)
           /\ \A p \in 1 .. T : At(p)' = At(p)
           /\ \A j \in 1 .. Len(s) : At(T + j)' = s[j]
  <1>1. PICK H \in Nat, W \in Nat, L \in Nat : H = rb.tail - rb.head /\ W = Len(wire) /\ L = Len(s)
    BY DEF RecvTypes
  <1>2. /\ wire \in Seq(Byte) /\ wire' \in Seq(Byte) /\ Len(wire') = W + L
        /\ \A i \in 1 .. W : wire'[i] = wire[i]
        /\ \A i \in 1 .. L : wire'[W + i] = s[i]
    BY <1>1 DEF RecvTypes
  <1>3. T = H + W /\ Total' = H + (W + L)
    BY <1>1, <1>2 DEF Total
  <1>4. ASSUME NEW p \in 1 .. T PROVE At(p)' = At(p)
    <2>1. CASE p <= H
      BY <1>1, <2>1 DEF At
    <2>2. CASE ~(p <= H)
      <3>1. p - H \in 1 .. W
        BY <1>3, <2>2
      <3> QED BY <1>1, <1>2, <2>2, <3>1 DEF At
    <2> QED BY <2>1, <2>2
  <1>5. ASSUME NEW j \in 1 .. L PROVE At(T + j)' = s[j]
    <2>1. ~(T + j <= H) /\ (T + j) - H = W + j
      BY <1>3
    <2> QED BY <1>1, <1>2, <2>1 DEF At
  <1> QED BY <1>1, <1>2, <1>3, <1>4, <1>5

\* The parts of the chain, for a step that changes what waits or what is left
LEMMA ChainParts ==
    ASSUME RecvTypes, NEW st, Chain(st), NEW N \in Nat, N = Len(waiting)
    PROVE  /\ st \in [1 .. N + 1 -> Nat] /\ st[1] = 0
           /\ \A i, j \in 1 .. N + 1 : i <= j => st[i] <= st[j]
           /\ \A i \in 1 .. N : /\ waiting[i] \in Msg /\ Size[waiting[i]] \in Nat
                                /\ i \in 1 .. N + 1 /\ st[i] \in Nat
                                /\ st[i + 1] = st[i] + Size[waiting[i]]
           /\ \A i \in 1 .. N : \A j \in 1 .. Size[waiting[i]] :
                st[i] + j <= Total => At(st[i] + j) = <<waiting[i], j>>
           /\ st[N + 1] \in Nat /\ Ends(st[N + 1])
  <1>1. \A i \in 1 .. N : waiting[i] \in Msg /\ Size[waiting[i]] \in Nat /\ i \in 1 .. N + 1
    BY ByteFacts DEF RecvTypes
  <1>2. N + 1 \in 1 .. N + 1
    OBVIOUS
  <1> QED BY <1>1, <1>2 DEF Chain

\* The client sends a message whole.
LEMMA PeerSendKeeps ==
    ASSUME IInv, NEW m \in Msg, PeerSend(m) PROVE IInv'
  <1>1. /\ is_using /\ peer = "open" /\ wire' = wire \o Bytes(m) /\ waiting' = Append(waiting, m)
        /\ sent < MaxSent /\ sent' = sent + 1
        /\ UNCHANGED <<is_using, rb, pc, ret, data, silent, gone, peer, conns>>
    BY DEF PeerSend, server
  <1>2. RecvTypes /\ Bytes(m) \in Seq(Byte) /\ Len(Bytes(m)) = Size[m] /\ Size[m] \in Nat \ {0}
        /\ \A j \in 1 .. Size[m] : Bytes(m)[j] = <<m, j>>
    BY ByteFacts DEF IInv
  <1>3. PICK N \in Nat, T \in Nat : N = Len(waiting) /\ T = Total
    BY <1>2, AtType DEF RecvTypes
  <1>4. /\ wire' \in Seq(Byte) /\ Total' = T + Size[m]
        /\ \A p \in 1 .. T : At(p)' = At(p)
        /\ \A j \in 1 .. Size[m] : At(T + j)' = <<m, j>>
    BY <1>1, <1>2, <1>3, WireGrows
  <1>5. /\ waiting' \in Seq(Msg) /\ Len(waiting') = N + 1 /\ waiting'[N + 1] = m
        /\ \A i \in 1 .. N : waiting'[i] = waiting[i]
    BY <1>1, <1>2, <1>3 DEF RecvTypes
  <1>6. RecvTypes'
    <2>1. sent' \in 0 .. MaxSent
      BY <1>1, <1>2, TcpRecvAssumption DEF RecvTypes, TypeOK
    <2> QED BY <1>1, <1>2, <1>4, <1>5, <2>1, TypesKept DEF RecvTypes, TypeOK
  <1>7. PICK st : Chain(st)
    BY <1>1 DEF IInv, StreamInv
  <1>8. /\ st \in [1 .. N + 1 -> Nat] /\ st[1] = 0 /\ st[N + 1] = T
        /\ \A i, j \in 1 .. N + 1 : i <= j => st[i] <= st[j]
        /\ \A i \in 1 .. N : /\ waiting[i] \in Msg /\ Size[waiting[i]] \in Nat
                             /\ i \in 1 .. N + 1 /\ st[i] \in Nat
                             /\ st[i + 1] = st[i] + Size[waiting[i]]
        /\ \A i \in 1 .. N : \A j \in 1 .. Size[waiting[i]] :
             st[i] + j <= Total => At(st[i] + j) = <<waiting[i], j>>
    <2>1. st[N + 1] \in Nat /\ Ends(st[N + 1])
      BY <1>2, <1>3, <1>7, ChainParts
    <2>2. st[N + 1] = T
      BY <1>1, <1>3, <2>1 DEF Ends
    <2> QED BY <1>2, <1>3, <1>7, <2>2, ChainParts, ZenonT(40)
  <1> DEFINE su == [i \in 1 .. N + 2 |-> IF i = N + 2 THEN T + Size[m] ELSE st[i]]
  <1>9. \A i \in 1 .. N + 1 : i \in 1 .. N + 2 /\ i # N + 2 /\ st[i] \in Nat /\ st[i] <= T
    BY <1>8
  <1>10. /\ su[N + 2] = T + Size[m] /\ \A i \in 1 .. N + 1 : su[i] = st[i]
    BY <1>9
  <1>11. \A i \in 1 .. N + 2 : i \in 1 .. N + 1 \/ i = N + 2
    OBVIOUS
  <1>12. su \in [1 .. N + 2 -> Nat] /\ su[1] = 0
    BY <1>2, <1>8, <1>9, <1>11
  <1> HIDE DEF su
  <1>13. \A i, j \in 1 .. N + 2 : i <= j => su[i] <= su[j]
    <2> SUFFICES ASSUME NEW i \in 1 .. N + 2, NEW j \in 1 .. N + 2, i <= j PROVE su[i] <= su[j]
      OBVIOUS
    <2>1. CASE j = N + 2
      <3>1. su[i] <= T + Size[m]
        <4>1. CASE i \in 1 .. N + 1
          BY <1>2, <1>9, <1>10, <4>1
        <4>2. CASE i = N + 2
          BY <1>2, <1>10, <4>2
        <4> QED BY <1>11, <4>1, <4>2
      <3> QED BY <1>10, <2>1, <3>1
    <2>2. CASE j \in 1 .. N + 1
      <3>1. i \in 1 .. N + 1
        BY <2>2
      <3> QED BY <1>8, <1>10, <2>2, <3>1
    <2> QED BY <1>11, <2>1, <2>2
  <1>14. ASSUME NEW i \in 1 .. N + 1
         PROVE  /\ su[i + 1] = su[i] + Size[waiting'[i]]
                /\ \A j \in 1 .. Size[waiting'[i]] :
                     su[i] + j <= Total' => At(su[i] + j)' = <<waiting'[i], j>>
    <2>1. CASE i = N + 1
      <3>1. waiting'[i] = m /\ su[i] = T /\ i + 1 = N + 2
        BY <1>5, <1>8, <1>10, <2>1
      <3> QED BY <1>4, <1>10, <3>1
    <2>2. CASE i \in 1 .. N
      <3>1. waiting'[i] = waiting[i] /\ su[i] = st[i] /\ i + 1 \in 1 .. N + 1 /\ su[i + 1] = st[i + 1]
        BY <1>5, <1>10, <2>2
      <3>2. st[i] \in Nat /\ Size[waiting[i]] \in Nat /\ st[i + 1] = st[i] + Size[waiting[i]] /\ st[i + 1] <= T
        BY <1>8, <1>9, <2>2, <3>1
      <3>3. ASSUME NEW j \in 1 .. Size[waiting[i]] PROVE At(st[i] + j)' = <<waiting[i], j>>
        <4>1. st[i] + j \in 1 .. T
          BY <3>2
        <4>2. At(st[i] + j) = <<waiting[i], j>>
          BY <1>3, <1>8, <2>2, <4>1
        <4> QED BY <1>4, <4>1, <4>2
      <3> QED BY <3>1, <3>2, <3>3
    <2> QED BY <2>1, <2>2
  <1>15. Ends(su[N + 2])'
    BY <1>1, <1>4, <1>10 DEF Ends
  <1>16. Chain(su)'
    <2>1. N + 1 + 1 = N + 2
      OBVIOUS
    <2> QED BY <1>5, <1>12, <1>13, <1>14, <1>15, <2>1 DEF Chain
  <1>17. StreamInv' /\ ServedInv'
    BY <1>1, <1>16 DEF StreamInv, IInv, ServedInv, NoFalseDisconnect
  <1> QED BY <1>6, <1>17 DEF IInv

\* The part of a message that the client has sent when it ends the connection
LEMMA PartBytes ==
    ASSUME NEW part \in Parts
    PROVE  /\ part \in Seq(Byte)
           /\ part # <<>> => \E m \in Msg : /\ Len(part) < Size[m] /\ Len(part) <= LenBytes + 1
                                            /\ \A j \in 1 .. Len(part) : part[j] = <<m, j>>
  <1>1. CASE part = <<>>
    BY <1>1
  <1>2. CASE part # <<>>
    <2>1. PICK m \in Msg, k \in 1 .. LenBytes + 1 :
            part = SubSeq(Bytes(m), 1, k) /\ Len(part) < Size[part[1][1]]
      BY <1>2 DEF Parts, PartsOf
    <2>2. /\ Bytes(m) \in Seq(Byte) /\ Len(Bytes(m)) = Size[m]
          /\ \A j \in 1 .. Size[m] : Bytes(m)[j] = <<m, j>>
      BY ByteFacts
    <2>3. k \in Nat /\ k >= 1 /\ k <= Size[m] /\ Size[m] \in Nat
      BY TcpRecvAssumption
    <2>4. /\ part \in Seq(Byte) /\ Len(part) = k
          /\ \A j \in 1 .. k : part[j] = Bytes(m)[j]
      BY <2>1, <2>2, <2>3
    <2>5. \A j \in 1 .. k : part[j] = <<m, j>>
      BY <2>2, <2>3, <2>4
    <2>6. part[1] = <<m, 1>>
      BY <2>3, <2>5
    <2>7. k < Size[m] /\ k <= LenBytes + 1
      BY <2>1, <2>4, <2>6, TcpRecvAssumption
    <2> QED BY <2>4, <2>5, <2>7
  <1> QED BY <1>1, <1>2

\* The client ends the connection, maybe within a message.
LEMMA PeerShutKeeps ==
    ASSUME IInv, NEW part \in Parts, PeerShut(part) PROVE IInv'
  <1>1. /\ is_using /\ peer = "open" /\ peer' = "shut" /\ wire' = wire \o part
        /\ UNCHANGED <<is_using, rb, pc, ret, data, silent, gone, waiting, sent, conns>>
    BY DEF PeerShut, server
  <1>2. RecvTypes /\ part \in Seq(Byte)
    BY PartBytes DEF IInv
  <1>3. PICK N \in Nat, T \in Nat, L \in Nat : N = Len(waiting) /\ T = Total /\ L = Len(part)
    BY <1>2, AtType DEF RecvTypes
  <1>4. /\ wire' \in Seq(Byte) /\ Total' = T + L
        /\ \A p \in 1 .. T : At(p)' = At(p)
        /\ \A j \in 1 .. L : At(T + j)' = part[j]
    BY <1>1, <1>2, <1>3, WireGrows
  <1>5. RecvTypes'
    BY <1>1, <1>2, <1>4, TypesKept DEF RecvTypes, TypeOK
  <1>6. PICK st : Chain(st)
    BY <1>1 DEF IInv, StreamInv
  <1>7. /\ st \in [1 .. N + 1 -> Nat] /\ st[1] = 0 /\ st[N + 1] = T
        /\ \A i, j \in 1 .. N + 1 : i <= j => st[i] <= st[j]
        /\ \A i \in 1 .. N : /\ waiting[i] \in Msg /\ Size[waiting[i]] \in Nat
                             /\ i \in 1 .. N + 1 /\ st[i] \in Nat
                             /\ st[i + 1] = st[i] + Size[waiting[i]]
        /\ \A i \in 1 .. N : \A j \in 1 .. Size[waiting[i]] :
             st[i] + j <= Total => At(st[i] + j) = <<waiting[i], j>>
    <2>1. st[N + 1] \in Nat /\ Ends(st[N + 1])
      BY <1>2, <1>3, <1>6, ChainParts
    <2>2. st[N + 1] = T
      BY <1>1, <1>3, <2>1 DEF Ends
    <2> QED BY <1>2, <1>3, <1>6, <2>2, ChainParts
  <1>8. ASSUME NEW i \in 1 .. N, NEW j \in 1 .. Size[waiting[i]]
        PROVE  At(st[i] + j)' = <<waiting[i], j>>
    <2>1. i + 1 \in 1 .. N + 1 /\ N + 1 \in 1 .. N + 1 /\ i + 1 <= N + 1
      OBVIOUS
    <2>2. st[i + 1] <= T /\ st[i] \in Nat /\ Size[waiting[i]] \in Nat /\ st[i + 1] = st[i] + Size[waiting[i]]
      BY <1>7, <2>1
    <2>3. st[i] + j \in 1 .. T
      BY <2>2
    <2> QED BY <1>3, <1>4, <1>7, <2>3
  <1>9. Ends(T)'
    <2>1. CASE part = <<>>
      BY <1>1, <1>3, <1>4, <2>1 DEF Ends
    <2>2. CASE part # <<>>
      <3>1. PICK m \in Msg : /\ L < Size[m] /\ L <= LenBytes + 1
                            /\ \A j \in 1 .. L : part[j] = <<m, j>>
        BY <1>3, <2>2, PartBytes
      <3>2. Total' - T = L /\ Total' > T
        BY <1>2, <1>3, <1>4, <2>2
      <3>3. \A p \in 1 .. Total' - T : At(T + p)' = <<m, p>>
        BY <1>4, <3>1, <3>2
      <3> QED BY <1>1, <3>1, <3>2, <3>3 DEF Ends
    <2> QED BY <2>1, <2>2
  <1>10. Chain(st)'
    BY <1>1, <1>3, <1>7, <1>8, <1>9 DEF Chain
  <1>11. StreamInv' /\ ServedInv'
    BY <1>1, <1>10 DEF StreamInv, IInv, ServedInv, NoFalseDisconnect
  <1> QED BY <1>5, <1>11 DEF IInv

\* The connection breaks.
LEMMA PeerResetKeeps ==
    ASSUME IInv, PeerReset PROVE IInv'
  <1>1. /\ is_using /\ peer = "open" /\ peer' = "reset" /\ wire' = <<>>
        /\ UNCHANGED <<is_using, rb, pc, ret, data, silent, gone, waiting, sent, conns>>
    BY DEF PeerReset, server
  <1>2. RecvTypes /\ wire' \in Seq(Byte)
    BY <1>1 DEF IInv
  <1>3. PICK N \in Nat, T \in Nat, H \in Nat : N = Len(waiting) /\ T = Total /\ H = rb.tail - rb.head
    BY <1>2, AtType DEF RecvTypes
  <1>4. Total' = H /\ H <= T /\ \A p \in 1 .. H : At(p)' = At(p)
    <2>1. Total = H + Len(wire) /\ Len(wire) \in Nat
      BY <1>2, <1>3 DEF Total, RecvTypes
    <2>2. Total' = H
      BY <1>1, <1>3 DEF Total
    <2>3. \A p \in 1 .. H : At(p)' = At(p)
      BY <1>1, <1>3 DEF At
    <2> QED BY <1>3, <2>1, <2>2, <2>3
  <1>5. RecvTypes'
    BY <1>1, <1>2, TypesKept DEF RecvTypes, TypeOK
  <1>6. PICK st : Chain(st)
    BY <1>1 DEF IInv, StreamInv
  <1>7. /\ st \in [1 .. N + 1 -> Nat] /\ st[1] = 0 /\ st[N + 1] = T
        /\ \A i, j \in 1 .. N + 1 : i <= j => st[i] <= st[j]
        /\ \A i \in 1 .. N : /\ waiting[i] \in Msg /\ Size[waiting[i]] \in Nat
                             /\ i \in 1 .. N + 1 /\ st[i] \in Nat
                             /\ st[i + 1] = st[i] + Size[waiting[i]]
        /\ \A i \in 1 .. N : \A j \in 1 .. Size[waiting[i]] :
             st[i] + j <= Total => At(st[i] + j) = <<waiting[i], j>>
    <2>1. st[N + 1] \in Nat /\ Ends(st[N + 1])
      BY <1>2, <1>3, <1>6, ChainParts
    <2>2. st[N + 1] = T
      BY <1>1, <1>3, <2>1 DEF Ends
    <2> QED BY <1>2, <1>3, <1>6, <2>2, ChainParts
  <1>8. ASSUME NEW i \in 1 .. N, NEW j \in 1 .. Size[waiting[i]], st[i] + j <= Total'
        PROVE  At(st[i] + j)' = <<waiting[i], j>>
    <2>1. st[i] \in Nat /\ Size[waiting[i]] \in Nat
      BY <1>7
    <2>2. st[i] + j \in 1 .. H /\ st[i] + j <= T
      BY <1>4, <1>8, <2>1
    <2> QED BY <1>3, <1>4, <1>7, <2>2
  <1>9. Ends(T)'
    BY <1>1, <1>3, <1>4 DEF Ends
  <1>10. Chain(st)'
    BY <1>1, <1>3, <1>7, <1>8, <1>9 DEF Chain
  <1>11. StreamInv' /\ ServedInv'
    BY <1>1, <1>10 DEF StreamInv, IInv, ServedInv, NoFalseDisconnect
  <1> QED BY <1>5, <1>11 DEF IInv

\* A new connection finds nothing of the one before it.
LEMMA AcceptKeeps ==
    ASSUME IInv, Accept PROVE IInv'
  <1>1. /\ rb' = Reset(rb) /\ peer' = "open" /\ wire' = <<>> /\ waiting' = <<>>
        /\ is_using' = TRUE /\ pc' = "idle" /\ silent' = FALSE /\ gone' = "no"
        /\ conns < MaxConns /\ conns' = conns + 1 /\ UNCHANGED <<ret, sent>>
    BY DEF Accept
  <1>2. /\ RecvTypes /\ rb' \in [mem : Memory, head : Nat, tail : Nat] /\ rb'.head = 0 /\ rb'.tail = 0
        /\ BufSize \in Nat
    BY <1>1, ResetBuffer, TcpRecvAssumption DEF IInv
  <1>3. RecvTypes'
    <2>1. conns' \in 0 .. MaxConns
      BY <1>1, <1>2, TcpRecvAssumption DEF RecvTypes, TypeOK
    <2>2. wire' \in Seq(Byte) /\ waiting' \in Seq(Msg)
      BY <1>1
    <2>3. /\ is_using' \in BOOLEAN /\ silent' \in BOOLEAN /\ pc' \in {"idle", "recv", "get"}
          /\ ret' \in {"success", "not_finish", "error"} /\ gone' \in {"no", "hup", "eof", "silent"}
          /\ peer' \in {"open", "shut", "reset"} /\ sent' \in 0 .. MaxSent
      BY <1>1, <1>2 DEF RecvTypes, TypeOK
    <2>4. rb'.head <= rb'.tail /\ rb'.tail <= BufSize
      BY <1>2
    <2> QED BY <1>2, <2>1, <2>2, <2>3, <2>4, TypesKept
  <1> DEFINE st == [i \in 1 .. 1 |-> 0]
  <1>4. Total' = 0 /\ Len(waiting') = 0
    BY <1>1, <1>2 DEF Total
  <1>5. Chain(st)'
    BY <1>1, <1>4 DEF Chain, Ends
  <1>6. StreamInv' /\ ServedInv'
    BY <1>1, <1>5 DEF StreamInv, ServedInv, NoFalseDisconnect
  <1> QED BY <1>3, <1>6 DEF IInv

-----------------------------------------------------------------------------
(* The receiving half. *)

\* Every step keeps the invariant.
LEMMA NextKeeps ==
    ASSUME IInv, [Next]_vars PROVE IInv'
  <1>1. CASE UNCHANGED vars
    BY <1>1, Untouched DEF vars, server, env, IInv, ServedInv, NoFalseDisconnect, RecvTypes, TypeOK
  <1>2. CASE HangUp
    BY <1>2, DeleteKeeps DEF HangUp
  <1>3. CASE NoMessage
    <2>1. CASE ret = "error"
      BY <1>3, <2>1, DeleteKeeps DEF NoMessage
    <2>2. CASE ret # "error"
      BY <1>3, <2>2, Untouched
         DEF NoMessage, IInv, ServedInv, NoFalseDisconnect, RecvTypes, TypeOK, env
    <2> QED BY <2>1, <2>2
  <1>4. CASE Sweep
    <2>1. CASE Dropped
      BY <1>4, <2>1, DeleteKeeps DEF Sweep
    <2>2. CASE ~Dropped
      BY <1>4, <2>2, Untouched
         DEF Sweep, IInv, ServedInv, NoFalseDisconnect, RecvTypes, TypeOK, env
    <2> QED BY <2>1, <2>2
  <1> QED BY <1>1, <1>2, <1>3, <1>4, AcceptKeeps, PeerSendKeeps, PeerShutKeeps, PeerResetKeeps,
             RecvDataKeeps, RecvKeeps, RecvEndsKeeps, GetOneMessageKeeps
          DEF Next, Client, Handler

\* The invariant holds initially and is kept by every step.
THEOREM Invariant == Spec => []IInv
  <1>1. Init => IInv
    <2> SUFFICES ASSUME Init PROVE IInv
      OBVIOUS
    <2>1. /\ rb = [mem |-> [i \in 0 .. BufSize - 1 |-> Junk], head |-> 0, tail |-> 0]
          /\ BufSize \in Nat /\ MaxSent \in Nat /\ MaxConns \in Nat
      BY TcpRecvAssumption DEF Init
    <2>2. rb \in [mem : Memory, head : Nat, tail : Nat] /\ rb.head = 0 /\ rb.tail = 0
          /\ DOMAIN rb.mem = 0 .. BufSize - 1
      BY <2>1, ByteFacts DEF Memory
    <2>3. wire \in Seq(Byte) /\ waiting \in Seq(Msg)
      BY DEF Init
    <2>4. TypeOK
      <3>1. /\ is_using = FALSE /\ pc = "idle" /\ ret = "success" /\ silent = FALSE /\ gone = "no"
            /\ peer = "open" /\ sent = 0 /\ conns = 0
        BY DEF Init
      <3>2. sent \in 0 .. MaxSent /\ conns \in 0 .. MaxConns /\ 0 \in 0 .. 0 /\ 0 \in 0 .. BufSize
        BY <2>1, <3>1
      <3> QED BY <2>2, <2>3, <3>1, <3>2 DEF TypeOK
    <2>5. RecvTypes
      BY <2>1, <2>2, <2>3, <2>4 DEF RecvTypes
    <2> QED BY <2>5 DEF Init, IInv, StreamInv, ServedInv, NoFalseDisconnect
  <1>2. IInv /\ [Next]_vars => IInv'
    BY NextKeeps
  <1> QED BY <1>1, <1>2, PTL DEF Spec

\* RecvData takes a connection for broken only when it is.
THEOREM NoDisconnectByMistake == Spec => []NoFalseDisconnect
  <1>1. IInv => NoFalseDisconnect
    BY DEF IInv, ServedInv
  <1> QED BY <1>1, Invariant, PTL

\* Two messages have different bytes.
LEMMA BytesInjective ==
    ASSUME NEW m \in Msg, NEW n \in Msg, Bytes(m) = Bytes(n) PROVE m = n
  <1>1. 1 \in 1 .. Size[m] /\ 1 \in 1 .. Size[n]
    BY ByteFacts
  <1>2. Bytes(m)[1] = <<m, 1>> /\ Bytes(n)[1] = <<n, 1>>
    BY <1>1, ByteFacts
  <1> QED BY <1>2

\* The message that recv_data_ holds, as ImplementsStream reads it
Shown == IF \E m \in Msg : data = Bytes(m)
         THEN CHOOSE m \in Msg : data = Bytes(m) ELSE None

\* The handlers get the messages of the client whole, once and in order, and
\* nothing of an earlier connection.
THEOREM RecvImplementsStream == Spec => ImplementsStream
  <1>1. Init => Stream!Init
    <2> SUFFICES ASSUME Init PROVE Stream!Init
      OBVIOUS
    <2>1. \A m \in Msg : Len(Bytes(m)) # 0
      BY ByteFacts
    <2>2. \A m \in Msg : data # Bytes(m)
      BY <2>1 DEF Init
    <2> QED BY <2>2 DEF Init, Stream!Init
  <1>2. IInv /\ [Next]_vars => [Stream!Next]_(Stream!vars)
    <2> SUFFICES ASSUME IInv, [Next]_vars
                 PROVE  [Stream!Next]_<<waiting, Shown, is_using>>
      BY DEF Stream!vars, Shown
    <2>1. CASE UNCHANGED <<waiting, data, is_using>>
      BY <2>1 DEF Shown
    <2>2. CASE Accept
      BY <2>2 DEF Accept, Shown, Stream!Next, Stream!Open
    <2>3. ASSUME NEW m \in Msg, PeerSend(m) PROVE Stream!Put(m)
      BY <2>3 DEF PeerSend, server, Shown, Stream!Put
    <2>4. ASSUME NEW why, DeleteClient(why), is_using PROVE Stream!Close
      BY <2>4 DEF DeleteClient, env, Shown, Stream!Close
    <2>5. CASE GetOneMessage
      <3>1. /\ waiting # <<>> /\ waiting[1] \in Msg /\ data' = Bytes(waiting[1])
            /\ waiting' = Tail(waiting) /\ UNCHANGED is_using /\ Head(waiting) = waiting[1]
        <4>1. pc = "get" /\ HasMessage(rb)
          BY <2>5 DEF GetOneMessage
        <4>2. waiting # <<>> /\ waiting[1] \in Msg /\ OneMessage(rb) = Bytes(waiting[1])
          BY <4>1, FirstWhole
        <4>3. Head(waiting) = waiting[1]
          BY <4>2 DEF IInv, RecvTypes
        <4> QED BY <2>5, <4>2, <4>3 DEF GetOneMessage
      <3>2. (CHOOSE m \in Msg : data' = Bytes(m)) = waiting[1]
        BY <3>1, BytesInjective
      <3>3. Shown' = Head(waiting)
        BY <3>1, <3>2 DEF Shown
      <3> QED BY <3>1, <3>3 DEF Shown, Stream!Next, Stream!Take
    <2>6. CASE HangUp \/ NoMessage \/ Sweep
      <3>1. pc = "get" => is_using
        BY DEF IInv, ServedInv
      <3>2. \/ UNCHANGED <<waiting, data, is_using>>
            \/ is_using /\ \E why \in {"hup", "eof", "silent"} : DeleteClient(why)
        BY <2>6, <3>1 DEF HangUp, NoMessage, Sweep, env
      <3> QED BY <2>1, <2>4, <3>2 DEF Stream!Next
    <2>7. CASE \/ PeerReset \/ \E p \in Parts : PeerShut(p)
               \/ RecvData \/ RecvEnds \/ (\E k \in 1 .. BufSize : Recv(k)) \/ UNCHANGED vars
      <3>1. UNCHANGED <<waiting, data, is_using>>
        BY <2>7 DEF PeerReset, PeerShut, RecvData, RecvEnds, ReturnRecv, Recv, vars, server, env
      <3> QED BY <2>1, <3>1
    <2> QED BY <2>2, <2>3, <2>5, <2>6, <2>7 DEF Next, Client, Handler, Stream!Next
  <1> QED BY <1>1, <1>2, Invariant, PTL DEF Spec, ImplementsStream, Stream!Spec

-----------------------------------------------------------------------------
(* The stream as one sequence of bytes. *)

\* A set of natural numbers that is not empty has a least one.
LEMMA LeastExists ==
    ASSUME NEW T, T \subseteq Nat, T # {}
    PROVE  \E x \in T : \A y \in T : x <= y
  <1> DEFINE R == OpToRel(<, Nat)
  <1>1. \A a, b \in Nat : a < b => <<a, b>> \in R
    BY DEF OpToRel
  <1>2. IsWellFoundedOn(R, Nat)
    BY NatLessThanWellFounded
  <1> HIDE DEF R
  <1>3. PICK x \in T : \A y \in T : <<y, x>> \notin R
    BY <1>2, WFMin
  <1>4. ASSUME NEW y \in T PROVE x <= y
    <2>1. x \in Nat /\ y \in Nat
      OBVIOUS
    <2>2. ~ (y < x)
      BY <2>1, <1>1, <1>3
    <2> QED BY <2>1, <2>2
  <1> QED BY <1>4

\* Whatever satisfies the recursion of FlattenSeq is what it computes.
LEMMA FlattenIs ==
    ASSUME NEW B, NEW q \in Seq(Seq(B)), NEW N \in Nat, N = Len(q), N > 0,
           NEW f, f = [i \in 1 .. N |-> IF i = 1 THEN q[i] ELSE f[i - 1] \o q[i]]
    PROVE  FlattenSeq(q) = f[N]
  <1> DEFINE c == CHOOSE g : g = [i \in 1 .. Len(q) |-> IF i = 1 THEN q[i] ELSE g[i - 1] \o q[i]]
  <1>1. c = [i \in 1 .. Len(q) |-> IF i = 1 THEN q[i] ELSE c[i - 1] \o q[i]]
    BY Zenon
  <1>2. FlattenSeq(q) = c[Len(q)]
    <2>1. Len(q) # 0
      OBVIOUS
    <2> QED BY <2>1, Zenon DEF FlattenSeq
  <1> HIDE DEF c
  <1> DEFINE Bad == {i \in 1 .. N : c[i] # f[i]}
  <1>3. Bad = {}
    <2> SUFFICES ASSUME Bad # {} PROVE FALSE
      OBVIOUS
    <2>1. PICK x \in Bad : \A y \in Bad : x <= y
      <3>1. Bad \subseteq Nat
        OBVIOUS
      <3> HIDE DEF Bad
      <3> QED BY <3>1, LeastExists
    <2>2. x \in 1 .. N /\ c[x] # f[x]
      OBVIOUS
    <2>3. CASE x = 1
      <3>1. c[x] = q[x] /\ f[x] = q[x]
        BY <1>1, <2>2, <2>3
      <3> QED BY <2>2, <3>1
    <2>4. CASE x # 1
      <3>1. x - 1 \in 1 .. N /\ ~(x <= x - 1)
        BY <2>2, <2>4
      <3>2. c[x - 1] = f[x - 1]
        BY <2>1, <3>1
      <3>3. c[x] = c[x - 1] \o q[x]
        BY <1>1, <2>2, <2>4, Zenon
      <3>4. f[x] = f[x - 1] \o q[x]
        BY <2>2, <2>4, Zenon
      <3> QED BY <2>2, <3>2, <3>3, <3>4
    <2> QED BY <2>3, <2>4
  <1>4. N \in 1 .. N
    OBVIOUS
  <1> QED BY <1>2, <1>3, <1>4

\* A piece of a sequence, by its elements
LEMMA Piece ==
    ASSUME NEW B, NEW s \in Seq(B), NEW r \in Seq(B), NEW a \in Nat, NEW k \in Nat,
           a + k <= Len(s), k = Len(r), \A j \in 1 .. k : s[a + j] = r[j]
    PROVE  SubSeq(s, a + 1, a + k) = r /\ SubSeq(s, 1, a) \o r = SubSeq(s, 1, a + k)
  <1>1. Len(s) \in Nat
    OBVIOUS
  <1>2. /\ SubSeq(s, a + 1, a + k) \in Seq(B) /\ Len(SubSeq(s, a + 1, a + k)) = k
        /\ \A j \in 1 .. k : SubSeq(s, a + 1, a + k)[j] = s[a + j]
    OBVIOUS
  <1>3. PICK u : u = SubSeq(s, a + 1, a + k)
    OBVIOUS
  <1>4. u \in Seq(B) /\ Len(u) = Len(r) /\ \A j \in 1 .. Len(u) : u[j] = r[j]
    BY <1>2, <1>3, Zenon
  <1>7. u = r
    BY <1>4, SeqEqual, Zenon
  <1>8. 1 \in 1 .. Len(s) + 1 /\ a \in 1 - 1 .. Len(s) /\ a + k \in a .. Len(s)
    BY <1>1
  <1>9. SubSeq(s, 1, a) \o SubSeq(s, a + 1, a + k) = SubSeq(s, 1, a + k)
    BY <1>8, ConcatAdjacentSubSeq, Zenon
  <1> QED BY <1>3, <1>7, <1>9, Zenon

\* The piece after the end is empty.
LEMMA NoPiece ==
    ASSUME NEW s, NEW a \in Nat
    PROVE  SubSeq(s, a + 1, a) = <<>>
  <1>1. a + 1 \in Int /\ a \in Int /\ a < a + 1
    OBVIOUS
  <1> QED BY <1>1, SubSeqEmpty

\* The first elements of a sequence
LEMMA FirstOnes ==
    ASSUME NEW B, NEW s \in Seq(B), NEW a \in Nat, a <= Len(s)
    PROVE  /\ SubSeq(s, 1, a) \in Seq(B) /\ Len(SubSeq(s, 1, a)) = a
           /\ \A j \in 1 .. a : SubSeq(s, 1, a)[j] = s[j]
           /\ SubSeq(SubSeq(s, 1, a), 1, a) = SubSeq(s, 1, a)
  <1>1. /\ SubSeq(s, 1, a) \in Seq(B) /\ Len(SubSeq(s, 1, a)) = a
        /\ \A j \in 1 .. a : SubSeq(s, 1, a)[j] = s[j]
    OBVIOUS
  <1>2. SubSeq(SubSeq(s, 1, a), 1, Len(SubSeq(s, 1, a))) = SubSeq(s, 1, a)
    BY <1>1, SubSeqFull, Zenon
  <1> QED BY <1>1, <1>2, Zenon

\* The bytes left, as one sequence
LEMMA LeftParts ==
    ASSUME RecvTypes
    PROVE  LET left == Held(rb) \o wire
           IN  left \in Seq(Byte) /\ Len(left) = Total /\ \A p \in 1 .. Total : left[p] = At(p)
  <1>1. PICK h \in Nat, H \in Nat, W \in Nat : h = rb.head /\ H = rb.tail - rb.head /\ W = Len(wire)
    BY DEF RecvTypes
  <1>2. Total = H + W
    BY <1>1 DEF Total
  <1>3. Held(rb) = [j \in 1 .. H |-> rb.mem[h + j - 1]]
    BY <1>1 DEF Held
  <1>4. ASSUME NEW j \in 1 .. H PROVE rb.mem[h + j - 1] = At(j) /\ At(j) \in Byte
    <2>1. j \in 1 .. Total /\ j <= rb.tail - rb.head
      BY <1>1, <1>2
    <2> QED BY <1>1, <2>1, AtType DEF At
  <1>5. Held(rb) \in Seq(Byte) /\ Len(Held(rb)) = H /\ \A j \in 1 .. H : Held(rb)[j] = At(j)
    <2>1. \A j \in 1 .. H : rb.mem[h + j - 1] \in Byte
      BY <1>4
    <2>2. Held(rb) \in Seq(Byte) /\ Len(Held(rb)) = H
      BY <1>3, <2>1
    <2>3. \A j \in 1 .. H : Held(rb)[j] = rb.mem[h + j - 1]
      BY <1>3
    <2> QED BY <1>4, <2>2, <2>3
  <1>6. wire \in Seq(Byte)
    BY DEF RecvTypes
  <1>7. ASSUME NEW p \in 1 .. Total PROVE (Held(rb) \o wire)[p] = At(p)
    <2>1. CASE p <= H
      <3>1. p \in 1 .. H
        BY <1>2, <2>1
      <3> QED BY <1>5, <1>6, <3>1
    <2>2. CASE ~(p <= H)
      <3>1. p - H \in 1 .. W /\ p \in 1 .. H + W
        BY <1>2, <2>2
      <3>2. At(p) = wire[p - H]
        BY <1>1, <2>2 DEF At
      <3>3. (Held(rb) \o wire)[p] = wire[p - H]
        BY <1>1, <1>5, <1>6, <2>2, <3>1
      <3> QED BY <3>2, <3>3
    <2> QED BY <2>1, <2>2
  <1> QED BY <1>1, <1>2, <1>5, <1>6, <1>7

\* The messages that wait, one after the other, are the first bytes left.
LEMMA DueIsPrefix ==
    ASSUME RecvTypes, NEW st, Chain(st), NEW N \in Nat, N = Len(waiting), st[N + 1] <= Total,
           NEW left \in Seq(Byte), Len(left) = Total, \A p \in 1 .. Total : left[p] = At(p)
    PROVE  FlattenSeq([i \in DOMAIN waiting |-> Bytes(waiting[i])]) = SubSeq(left, 1, st[N + 1])
  <1> DEFINE q == [i \in DOMAIN waiting |-> Bytes(waiting[i])]
  <1>0. PICK T \in Nat : T = Total /\ T = Len(left)
    BY AtType
  <1>1. /\ st \in [1 .. N + 1 -> Nat] /\ st[1] = 0
        /\ \A i, j \in 1 .. N + 1 : i <= j => st[i] <= st[j]
        /\ \A i \in 1 .. N : /\ waiting[i] \in Msg /\ Size[waiting[i]] \in Nat
                             /\ i \in 1 .. N + 1 /\ st[i] \in Nat
                             /\ st[i + 1] = st[i] + Size[waiting[i]]
        /\ \A i \in 1 .. N : \A j \in 1 .. Size[waiting[i]] :
             st[i] + j <= Total => At(st[i] + j) = <<waiting[i], j>>
    BY ChainParts
  <1>2. /\ q \in Seq(Seq(Byte)) /\ Len(q) = N /\ DOMAIN waiting = 1 .. N
        /\ \A i \in 1 .. N : q[i] = Bytes(waiting[i])
    <2>1. waiting \in Seq(Msg) /\ DOMAIN waiting = 1 .. N
      BY DEF RecvTypes
    <2>2. \A i \in 1 .. N : Bytes(waiting[i]) \in Seq(Byte)
      BY <2>1, ByteFacts
    <2> QED BY <2>1, <2>2
  <1>3. CASE N = 0
    <2>1. q = <<>> /\ st[N + 1] = 0
      BY <1>1, <1>2, <1>3
    <2>2. FlattenSeq(q) = <<>>
      BY <2>1 DEF FlattenSeq
    <2>3. SubSeq(left, 1, 0) = <<>>
      OBVIOUS
    <2> QED BY <2>1, <2>2, <2>3
  <1>4. CASE N > 0
    <2> DEFINE f == [i \in 1 .. N |-> SubSeq(left, 1, st[i + 1])]
    <2>1. ASSUME NEW i \in 1 .. N
          PROVE  /\ i \in 1 .. N + 1 /\ i + 1 \in 1 .. N + 1
                 /\ st[i] \in Nat /\ st[i + 1] \in Nat /\ st[i] <= T /\ st[i + 1] <= T
                 /\ st[i + 1] = st[i] + Size[waiting[i]] /\ Size[waiting[i]] \in Nat
                 /\ waiting[i] \in Msg
      <3>1. i \in 1 .. N + 1 /\ i + 1 \in 1 .. N + 1 /\ i <= N + 1 /\ i + 1 <= N + 1 /\ N + 1 \in 1 .. N + 1
        OBVIOUS
      <3>2. st[i] <= st[N + 1] /\ st[i + 1] <= st[N + 1] /\ st[N + 1] \in Nat /\ st[i] \in Nat /\ st[i + 1] \in Nat
        BY <1>1, <3>1
      <3>3. st[N + 1] <= T
        BY <1>0
      <3> QED BY <1>1, <3>1, <3>2, <3>3
    <2>2. ASSUME NEW i \in 1 .. N, NEW j \in 1 .. Size[waiting[i]]
          PROVE  left[st[i] + j] = q[i][j]
      <3>1. st[i] + j \in 1 .. Total /\ st[i] + j <= Total
        BY <1>0, <2>1, SMTT(40)
      <3>2. At(st[i] + j) = <<waiting[i], j>>
        BY <1>1, <3>1
      <3>3. q[i][j] = <<waiting[i], j>>
        BY <1>2, <2>1, ByteFacts
      <3> QED BY <3>1, <3>2, <3>3
    <2>3. ASSUME NEW i \in 1 .. N
          PROVE  SubSeq(left, 1, st[i + 1]) = SubSeq(left, 1, st[i]) \o q[i]
      <3>0. PICK a \in Nat, b \in Nat : a = st[i] /\ b = Size[waiting[i]] /\ st[i + 1] = a + b /\ a + b <= T
        BY <2>1
      <3>1. q[i] \in Seq(Byte) /\ Len(q[i]) = b
        BY <1>2, <2>1, <3>0, ByteFacts
      <3> HIDE DEF q
      <3>2. \A j \in 1 .. b : left[a + j] = q[i][j]
        BY <2>2, <3>0
      <3>3. SubSeq(left, 1, a + b) = SubSeq(left, 1, a) \o q[i]
        <4>1. PICK r \in Seq(Byte) : r = q[i]
          BY <3>1
        <4>2. b = Len(r) /\ a + b <= Len(left)
          BY <1>0, <3>0, <3>1, <4>1
        <4>3. \A j \in 1 .. b : left[a + j] = r[j]
          BY <3>2, <4>1
        <4>4. SubSeq(left, 1, a) \o r = SubSeq(left, 1, a + b)
          BY <4>2, <4>3, Piece, SMTT(40)
        <4> QED BY <4>1, <4>4, Zenon
      <3> QED BY <3>0, <3>3
    <2>4. f[1] = q[1]
      <3>1. 1 \in 1 .. N /\ st[1] = 0 /\ q[1] \in Seq(Byte)
        <4>1. 1 \in 1 .. N
          BY <1>4
        <4> QED BY <1>1, <1>2, <2>1, <4>1, ByteFacts
      <3>2. SubSeq(left, 1, st[1 + 1]) = SubSeq(left, 1, 0) \o q[1]
        BY <2>3, <3>1
      <3>3. SubSeq(left, 1, 0) = <<>>
        OBVIOUS
      <3>4. <<>> \o q[1] = q[1]
        BY <3>1
      <3> QED BY <3>1, <3>2, <3>3, <3>4
    <2>5. ASSUME NEW i \in 1 .. N, i # 1 PROVE f[i] = f[i - 1] \o q[i]
      <3>1. i - 1 \in 1 .. N /\ i - 1 + 1 = i
        BY <2>5
      <3> QED BY <2>3, <3>1
    <2>6. f = [i \in 1 .. N |-> IF i = 1 THEN q[i] ELSE f[i - 1] \o q[i]]
      <3>1. \A i \in 1 .. N : f[i] = IF i = 1 THEN q[i] ELSE f[i - 1] \o q[i]
        BY <2>4, <2>5, Zenon
      <3>2. f = [i \in 1 .. N |-> f[i]]
        BY Zenon
      <3> HIDE DEF f, q
      <3> QED BY <3>1, <3>2, Zenon
    <2>7. f[N] = SubSeq(left, 1, st[N + 1])
      <3>1. N \in 1 .. N
        BY <1>4
      <3> QED BY <3>1, Zenon
    <2> HIDE DEF f, q
    <2>8. FlattenSeq(q) = f[N]
      BY <1>2, <1>4, <2>6, FlattenIs, ZenonT(40)
    <2> QED BY <2>7, <2>8 DEF q
  <1> QED BY <1>3, <1>4

\* The bytes left are the messages that wait, and then a part at most.
LEMMA StreamIsIntact == IInv => StreamIntact
  <1> SUFFICES ASSUME IInv, is_using, peer # "reset",
                      NEW left, left = Held(rb) \o wire,
                      NEW due, due = FlattenSeq([i \in DOMAIN waiting |-> Bytes(waiting[i])])
               PROVE  /\ IsPrefix(due, left)
                      /\ SubSeq(left, Len(due) + 1, Len(left))
                             \in (IF peer = "open" THEN {<<>>} ELSE Parts)
    BY DEF StreamIntact
  <1>1. PICK st : Chain(st)
    BY DEF IInv, StreamInv
  <1>2. RecvTypes /\ left \in Seq(Byte) /\ Len(left) = Total /\ \A p \in 1 .. Total : left[p] = At(p)
    BY LeftParts DEF IInv
  <1>3. PICK N \in Nat, T \in Nat : N = Len(waiting) /\ T = Total /\ T = Len(left)
    BY <1>2, AtType DEF RecvTypes
  <1>4. PICK e \in Nat : e = st[N + 1] /\ Ends(e) /\ e <= T
    <2>1. st[N + 1] \in Nat /\ Ends(st[N + 1])
      BY <1>1, <1>2, <1>3, ChainParts
    <2>2. PICK e \in Nat : e = st[N + 1] /\ Ends(e)
      BY <2>1
    <2>3. Total = e \/ Total > e
      BY <2>2 DEF Ends
    <2> QED BY <1>3, <2>2, <2>3
  <1>5. due = SubSeq(left, 1, e)
    BY <1>1, <1>2, <1>3, <1>4, DueIsPrefix
  <1>6. due \in Seq(Byte) /\ Len(due) = e /\ SubSeq(due, 1, e) = SubSeq(left, 1, e)
    <2>1. e <= Len(left)
      BY <1>3, <1>4
    <2> QED BY <1>2, <1>5, <2>1, FirstOnes, ZenonT(40)
  <1>7. IsPrefix(due, left)
    BY <1>3, <1>4, <1>6 DEF IsPrefix
  <1>8. SubSeq(left, e + 1, T) \in (IF peer = "open" THEN {<<>>} ELSE Parts)
    <2>1. CASE T = e
      <3>1. SubSeq(left, e + 1, T) = <<>>
        BY <2>1, NoPiece
      <3>2. <<>> \in PartsOf
        <4>1. \A x : x \in {<<>>} => x \in PartsOf
          BY SMT DEF PartsOf
        <4> QED BY <4>1, Zenon
      <3>3. <<>> \in Parts
        BY <3>2, Zenon DEF Parts
      <3>4. <<>> \in (IF peer = "open" THEN {<<>>} ELSE Parts)
        BY <3>3, Zenon
      <3> QED BY <3>1, <3>4
    <2>2. CASE T # e
      <3>1. PICK m \in Msg : /\ Total - e < Size[m] /\ Total - e <= LenBytes + 1 /\ peer = "shut"
                            /\ \A p \in 1 .. Total - e : At(e + p) = <<m, p>>
        BY <1>3, <1>4, <2>2 DEF Ends
      <3>2. PICK k \in Nat : k = T - e /\ k > 0 /\ k < Size[m] /\ k \in 1 .. LenBytes + 1 /\ e + k = T
        BY <1>3, <1>4, <2>2, <3>1, TcpRecvAssumption, SMTT(40)
      <3>3. ASSUME NEW j \in 1 .. k PROVE left[e + j] = <<m, j>>
        <4>1. j \in 1 .. T - e /\ e + j \in 1 .. T
          BY <3>2
        <4> QED BY <1>2, <1>3, <3>1, <4>1
      <3>4. SubSeq(left, e + 1, T) = SubSeq(Bytes(m), 1, k) /\ Len(SubSeq(Bytes(m), 1, k)) = k
            /\ SubSeq(Bytes(m), 1, k)[1] = <<m, 1>>
        <4>1. /\ Bytes(m) \in Seq(Byte) /\ Len(Bytes(m)) = Size[m] /\ Size[m] \in Nat
              /\ \A j \in 1 .. Size[m] : Bytes(m)[j] = <<m, j>>
          BY ByteFacts
        <4>2. \A j \in 1 .. k : Bytes(m)[j] = <<m, j>>
          BY <3>2, <4>1
        <4>3. PICK r : r = SubSeq(Bytes(m), 1, k)
          OBVIOUS
        <4>4. r \in Seq(Byte) /\ Len(r) = k /\ \A j \in 1 .. k : r[j] = Bytes(m)[j]
          <5>1. k <= Len(Bytes(m))
            BY <3>2, <4>1
          <5> QED BY <4>1, <4>3, <5>1, FirstOnes
        <4>5. \A j \in 1 .. k : left[e + j] = r[j]
          BY <3>3, <4>2, <4>4
        <4>6. SubSeq(left, e + 1, e + k) = r
          <5>1. e + k <= Len(left)
            BY <1>3, <3>2
          <5> QED BY <1>2, <4>4, <4>5, <5>1, Piece
        <4>7. r[1] = <<m, 1>>
          BY <3>2, <4>2, <4>4
        <4> QED BY <3>2, <4>3, <4>4, <4>6, <4>7
      <3>5. SubSeq(Bytes(m), 1, k) \in PartsOf
        BY <3>2 DEF PartsOf
      <3>6. SubSeq(Bytes(m), 1, k) \in Parts
        <4>1. SubSeq(Bytes(m), 1, k)[1][1] = m
          <5>1. SubSeq(Bytes(m), 1, k)[1] = <<m, 1>> /\ <<m, 1>>[1] = m
            BY <3>4
          <5> QED BY <5>1, Zenon
        <4> QED BY <3>2, <3>4, <3>5, <4>1 DEF Parts
      <3> QED BY <3>1, <3>4, <3>6
    <2> QED BY <2>1, <2>2
  <1> QED BY <1>3, <1>6, <1>7, <1>8

\* However the bytes arrive, what is in the buffer and in the kernel are the
\* messages that wait, whole and in order, and then at most a part of one that
\* will never be complete.
THEOREM BytesIntact == Spec => []StreamIntact
  BY StreamIsIntact, Invariant, PTL

-----------------------------------------------------------------------------
(* The two halves of one object. *)

SP == INSTANCE TcpSendProofs WITH
    Msg <- {s1, t1, t2}, Size <- SendSize, BufSize <- SendBufSize,
    is_using <- s_using, pc <- s_pc, wire <- s_wire, waiting <- s_waiting,
    conns <- s_conns

\* The constants of the sending half are as TcpSend needs them.
LEMMA SendConstants == SP!TcpSendAssumption
  BY SendAssumption DEF S!TcpSendAssumption, SP!TcpSendAssumption

\* The receiving half takes steps of its own, or none.
LEMMA RecvPart == TcpSpec => Spec
  <1>1. TcpInit => Init
    BY DEF TcpInit
  <1>2. [TcpNext]_<<vars, half, s_vars>> => [Next]_vars
    BY DEF TcpNext
  <1> QED BY <1>1, <1>2, PTL DEF TcpSpec, Spec

\* So does the sending half.
LEMMA SendPart == TcpSpec => SP!Spec
  <1>1. TcpInit => SP!Init
    BY DEF TcpInit, S!Init, SP!Init, S!Junk, SP!Junk
  <1>2. S!Next => SP!Next
    <2>1. S!Accept => SP!Accept
      BY DEF S!Accept, S!Reset, S!call, SP!Accept, SP!Reset, SP!call
    <2>2. S!Calls => SP!Calls
      BY DEF S!Calls, S!SendData, S!socket, S!ToSet, SP!Calls, SP!SendData, SP!socket, SP!ToSet
    <2>3. \A k : S!FlushSend(k) => SP!FlushSend(k)
      BY DEF S!FlushSend, S!Takes, S!Held, S!call, SP!FlushSend, SP!Takes, SP!Held, SP!call
    <2>4. \A k : S!DataSend(k) => SP!DataSend(k)
      BY DEF S!DataSend, S!Takes, S!Rest, S!Bytes, S!Accepted, S!Return, S!socket,
             SP!DataSend, SP!Takes, SP!Rest, SP!Bytes, SP!Accepted, SP!Return, SP!socket
    <2>5. S!FlushAgain => SP!FlushAgain
      BY DEF S!FlushAgain, S!Full, S!MovedAhead, S!Fits, S!Bytes, S!Stored, S!Accepted,
             S!Return, SP!FlushAgain, SP!Full, SP!MovedAhead, SP!Fits, SP!Bytes, SP!Stored,
             SP!Accepted, SP!Return
    <2>6. S!FlushDone => SP!FlushDone
      BY DEF S!FlushDone, S!Reset, SP!FlushDone, SP!Reset
    <2>7. S!DataAgain => SP!DataAgain
      BY DEF S!DataAgain, S!Full, S!Fits, S!Remaind, S!Rest, S!Bytes, S!Stored, S!Accepted,
             S!Return, SP!DataAgain, SP!Full, SP!Fits, SP!Remaind, SP!Rest, SP!Bytes,
             SP!Stored, SP!Accepted, SP!Return
    <2>8. S!SendFails => SP!SendFails
      BY DEF S!SendFails, S!Return, SP!SendFails, SP!Return
    <2>9. S!Disconnect => SP!Disconnect
      BY DEF S!Disconnect, S!call, SP!Disconnect, SP!call
    <2>10. S!PeerReads => SP!PeerReads
      BY DEF S!PeerReads, S!socket, S!call, SP!PeerReads, SP!socket, SP!call
    <2> QED BY <2>1, <2>2, <2>3, <2>4, <2>5, <2>6, <2>7, <2>8, <2>9, <2>10
            DEF S!Next, S!Loops, SP!Next, SP!Loops
  <1>3. [TcpNext]_<<vars, half, s_vars>> => [SP!Next]_(SP!vars)
    <2> SUFFICES ASSUME [TcpNext]_<<vars, half, s_vars>> PROVE SP!Next \/ UNCHANGED SP!vars
      OBVIOUS
    <2>1. S!Next \/ UNCHANGED s_vars
      BY DEF TcpNext
    <2>2. UNCHANGED s_vars => UNCHANGED SP!vars
      BY DEF s_vars, SP!vars, SP!socket, SP!call
    <2> QED BY <1>2, <2>1, <2>2
  <1> QED BY <1>1, <1>3, PTL DEF TcpSpec, SP!Spec

\* In both directions every variable has its type, the head and the tail stay
\* in the buffer, and SendData never drops a client for want of room.
THEOREM BuffersCorrect == TcpSpec => []BuffersRight
  <1>1. IInv => TypeOK
    BY DEF IInv, RecvTypes
  <1>2. SP!TypeOK => S!TypeOK
    BY DEF SP!TypeOK, S!TypeOK
  <1>3. SP!AlwaysFits => S!AlwaysFits
    BY DEF SP!AlwaysFits, S!AlwaysFits
  <1>4. SP!Spec => []SP!TypeOK /\ []SP!AlwaysFits
    BY SendConstants, SP!TypeCorrect, SP!RestAlwaysFits
  <1> QED BY <1>1, <1>2, <1>3, <1>4, Invariant, RecvPart, SendPart, PTL DEF BuffersRight

\* SendData loses a message only while an earlier one waits for the kernel, and
\* loses it whole.
THEOREM LostOnlyIfFull == TcpSpec => SendLostOnlyWhenFull
  <1>1. SP!Spec => SP!LostOnlyWhenFull
    BY SendConstants, SP!LostOnlyIfFull
  <1>2. SP!LostOnlyWhenFull => S!LostOnlyWhenFull
    BY DEF SP!LostOnlyWhenFull, S!LostOnlyWhenFull, SP!vars, SP!socket, SP!call,
           S!vars, S!socket, S!call, SP!Held, S!Held
  <1> QED BY <1>1, <1>2, SendPart, PTL DEF SendLostOnlyWhenFull

\* In both directions the messages arrive whole, once and in order.
THEOREM StreamsImplemented == TcpSpec => ImplementsStreams
  <1>1. SP!Spec => SP!ImplementsStream
    BY SendConstants, SP!SendImplementsStream
  <1>2. SP!ImplementsStream => S!ImplementsStream
    BY DEF SP!ImplementsStream, S!ImplementsStream, SP!Stream!Spec, S!Stream!Spec,
           SP!Stream!Init, S!Stream!Init, SP!Stream!Next, S!Stream!Next, SP!Stream!vars,
           S!Stream!vars, SP!Stream!Open, S!Stream!Open, SP!Stream!Close, S!Stream!Close,
           SP!Stream!Put, S!Stream!Put, SP!Stream!Take, S!Stream!Take, SP!Bytes, S!Bytes
  <1> QED BY <1>1, <1>2, RecvImplementsStream, RecvPart, SendPart, PTL DEF ImplementsStreams
=============================================================================
