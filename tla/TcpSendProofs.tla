--------------------------- MODULE TcpSendProofs ---------------------------
(***************************************************************************)
(* Proofs about TcpSend, for any messages, lengths, buffer and kernel, any *)
(* number of connections and any pieces that send() takes.                 *)
(***************************************************************************)
EXTENDS TcpSend, TLAPS

-----------------------------------------------------------------------------
(* The inductive invariant. *)

Byte   == (Msg \cup {None}) \X Nat
Memory == [0 .. BufSize - 1 -> Byte]

\* The types, and the head and the tail within the buffer
SendTypes ==
    /\ TcpSendAssumption
    /\ sb \in [mem : Memory, head : Nat, tail : Nat]
    /\ sb.head <= sb.tail /\ sb.tail <= BufSize
    /\ wire \in Seq(Byte) /\ waiting \in Seq(Msg)
    /\ TypeOK

\* The bytes on their way to the client, in the kernel and then in the buffer
Total == Len(wire) + (sb.tail - sb.head)
At(p) == IF p <= Len(wire) THEN wire[p] ELSE sb.mem[sb.head + (p - Len(wire)) - 1]

\* Behind the messages accepted, which end with byte e, there is what SendData
\* has written of its argument; of a connection that has failed, the part of
\* one message at most.
Ends(e) ==
    \/ Total = e /\ (is_using => done = 0)
    \/ Total > e /\ \E m \in Msg :
         /\ Total - e < Size[m] /\ (is_using => m = msg /\ done = Total - e)
         /\ \A p \in 1 .. Total - e : At(e + p) = <<m, p>>

\* The i-th message accepted begins behind byte st[i], and all of it is there.
Chain(st) ==
    /\ st \in [1 .. Len(waiting) + 1 -> Nat] /\ st[1] = 0
    /\ \A i, j \in 1 .. Len(waiting) + 1 : i <= j => st[i] <= st[j]
    /\ \A i \in 1 .. Len(waiting) :
         /\ st[i + 1] = st[i] + Size[waiting[i]]
         /\ \A j \in 1 .. Size[waiting[i]] : At(st[i] + j) = <<waiting[i], j>>
    /\ Ends(st[Len(waiting) + 1])

StreamInv == \E st : Chain(st)

\* SendData runs on a connection in use, starts its second loop with an empty
\* buffer, and stays in it until the message is written.
CallInv ==
    /\ done \in Nat
    /\ pc # "idle" => is_using /\ msg \in Msg
    /\ pc = "idle" => msg = None
    /\ pc # "data" => done = 0
    /\ pc = "data" => done < Size[msg] /\ sb.head = 0 /\ sb.tail = 0
    /\ AlwaysFits

\* What holds in every state, strong enough to be kept by every step.
IInv == SendTypes /\ StreamInv /\ CallInv

-----------------------------------------------------------------------------
(* The buffer and the bytes on their way. *)

\* Bytes are bytes, and the bytes of a message are as many as its length tells.
LEMMA ByteFacts ==
    ASSUME TcpSendAssumption
    PROVE  /\ Junk \in Byte /\ BufSize \in Nat /\ Kernel \in Nat /\ MaxConns \in Nat
           /\ \A m \in Msg : /\ Size[m] \in Nat \ {0} /\ Size[m] <= BufSize
                             /\ Bytes(m) \in Seq(Byte) /\ Len(Bytes(m)) = Size[m]
                             /\ \A j \in 1 .. Size[m] : Bytes(m)[j] = <<m, j>>
  <1>1. Junk \in Byte
    BY DEF Junk, Byte
  <1>2. ASSUME NEW m \in Msg
        PROVE  /\ Size[m] \in Nat \ {0} /\ Size[m] <= BufSize
               /\ Bytes(m) \in Seq(Byte) /\ Len(Bytes(m)) = Size[m]
               /\ \A j \in 1 .. Size[m] : Bytes(m)[j] = <<m, j>>
    <2>1. Size[m] \in Nat \ {0} /\ Size[m] <= BufSize
      BY DEF TcpSendAssumption
    <2>2. \A j \in 1 .. Size[m] : <<m, j>> \in Byte
      BY <2>1 DEF Byte
    <2> QED BY <2>1, <2>2 DEF Bytes
  <1> QED BY <1>1, <1>2 DEF TcpSendAssumption

\* Two sequences, one behind the other
LEMMA Joined ==
    ASSUME NEW B, NEW s \in Seq(B), NEW r \in Seq(B), NEW a \in Nat, NEW k \in Nat,
           a = Len(s), k = Len(r)
    PROVE  /\ s \o r \in Seq(B) /\ Len(s \o r) = a + k
           /\ \A i \in 1 .. a : (s \o r)[i] = s[i]
           /\ \A i \in 1 .. k : (s \o r)[a + i] = r[i]
  OBVIOUS

\* A sequence without its first elements
LEMMA CutOff ==
    ASSUME NEW B, NEW s \in Seq(B), NEW a \in Nat, NEW k \in Nat, a = Len(s), k <= a
    PROVE  /\ SubSeq(s, k + 1, a) \in Seq(B) /\ Len(SubSeq(s, k + 1, a)) = a - k
           /\ \A i \in 1 .. a - k : SubSeq(s, k + 1, a)[i] = s[k + i]
  BY SMTT(40)

\* The numbers behind the types, and the type of the bytes on their way
LEMMA AtType ==
    ASSUME SendTypes
    PROVE  /\ TcpSendAssumption /\ Total \in Nat
           /\ sb.head \in Nat /\ sb.tail \in Nat /\ sb.mem \in Memory
           /\ sb.head <= sb.tail /\ sb.tail <= BufSize /\ BufSize \in Nat
           /\ wire \in Seq(Byte) /\ Len(wire) \in Nat
           /\ waiting \in Seq(Msg) /\ Len(waiting) \in Nat
           /\ \A p \in 1 .. Total : At(p) \in Byte
  <1>1. /\ sb.head \in Nat /\ sb.tail \in Nat /\ sb.mem \in Memory /\ sb.head <= sb.tail
        /\ sb.tail <= BufSize /\ wire \in Seq(Byte) /\ Len(wire) \in Nat /\ BufSize \in Nat
        /\ waiting \in Seq(Msg) /\ Len(waiting) \in Nat /\ TcpSendAssumption
    BY ByteFacts DEF SendTypes
  <1>2. PICK h \in Nat, H \in Nat, W \in Nat : h = sb.head /\ H = sb.tail - sb.head /\ W = Len(wire)
    BY <1>1
  <1>3. Total = W + H /\ h + H <= BufSize
    <2>1. sb.tail = h + H
      BY <1>1, <1>2
    <2> QED BY <1>1, <1>2, <2>1 DEF Total
  <1>4. ASSUME NEW p \in 1 .. Total PROVE At(p) \in Byte
    <2>1. CASE p <= W
      <3>1. p \in 1 .. W
        BY <1>3, <2>1
      <3> QED BY <1>1, <1>2, <3>1 DEF At
    <2>2. CASE ~(p <= W)
      <3>1. h + (p - W) - 1 \in 0 .. BufSize - 1
        BY <1>1, <1>3, <2>2
      <3> QED BY <1>1, <1>2, <2>2, <3>1 DEF At, Memory
    <2> QED BY <2>1, <2>2
  <1> QED BY <1>1, <1>3, <1>4

\* The parts of the chain, for a step that changes what waits or what is sent
LEMMA ChainParts ==
    ASSUME SendTypes, NEW st, Chain(st), NEW N \in Nat, N = Len(waiting)
    PROVE  /\ st \in [1 .. N + 1 -> Nat] /\ st[1] = 0
           /\ \A i, j \in 1 .. N + 1 : i <= j => st[i] <= st[j]
           /\ \A i \in 1 .. N : /\ waiting[i] \in Msg /\ Size[waiting[i]] \in Nat \ {0}
                                /\ i \in 1 .. N + 1 /\ i + 1 \in 1 .. N + 1 /\ st[i] \in Nat
                                /\ st[i + 1] = st[i] + Size[waiting[i]]
                                /\ st[i] + Size[waiting[i]] <= Total
           /\ \A i \in 1 .. N : \A j \in 1 .. Size[waiting[i]] :
                /\ st[i] + j \in 1 .. Total
                /\ At(st[i] + j) = <<waiting[i], j>>
           /\ st[N + 1] \in Nat /\ st[N + 1] <= Total /\ Ends(st[N + 1])
  <1>1. \A i \in 1 .. N : /\ waiting[i] \in Msg /\ Size[waiting[i]] \in Nat \ {0}
                          /\ i \in 1 .. N + 1 /\ i + 1 \in 1 .. N + 1
    <2>1. \A i \in 1 .. N : waiting[i] \in Msg
      BY AtType
    <2> QED BY <2>1, AtType, ByteFacts, SMTT(40)
  <1>2. N + 1 \in 1 .. N + 1
    OBVIOUS
  <1>3. /\ st \in [1 .. N + 1 -> Nat] /\ st[1] = 0
        /\ \A i, j \in 1 .. N + 1 : i <= j => st[i] <= st[j]
        /\ \A i \in 1 .. N : st[i + 1] = st[i] + Size[waiting[i]]
        /\ \A i \in 1 .. N : \A j \in 1 .. Size[waiting[i]] : At(st[i] + j) = <<waiting[i], j>>
        /\ Ends(st[N + 1])
    BY DEF Chain
  <1>4. PICK e \in Nat, T \in Nat : e = st[N + 1] /\ T = Total
    BY <1>2, <1>3, AtType
  <1>5. e <= T
    BY <1>3, <1>4 DEF Ends
  <1>6. ASSUME NEW i \in 1 .. N PROVE st[i] \in Nat /\ st[i] + Size[waiting[i]] <= T
    <2>1. i + 1 <= N + 1
      OBVIOUS
    <2>2. st[i + 1] <= e /\ st[i + 1] \in Nat /\ st[i] \in Nat
      BY <1>1, <1>2, <1>3, <1>4, <2>1
    <2>3. st[i + 1] = st[i] + Size[waiting[i]]
      BY <1>3
    <2> QED BY <1>1, <1>5, <2>2, <2>3
  <1>7. ASSUME NEW i \in 1 .. N, NEW j \in 1 .. Size[waiting[i]] PROVE st[i] + j \in 1 .. T
    BY <1>1, <1>6
  <1> QED BY <1>1, <1>3, <1>4, <1>5, <1>6, <1>7

\* Where the bytes of the messages that wait are
LEMMA ChainBytes ==
    ASSUME SendTypes, NEW st, Chain(st), NEW N \in Nat, N = Len(waiting)
    PROVE  \A i \in 1 .. N : \A j \in 1 .. Size[waiting[i]] :
             st[i] + j \in 1 .. Total /\ At(st[i] + j) = <<waiting[i], j>>
  <1>1. TAKE i \in 1 .. N
  <1>2. TAKE j \in 1 .. Size[waiting[i]]
  <1> QED BY ChainParts, SMTT(40)

-----------------------------------------------------------------------------
(* Steps that leave the bytes on their way as they are. *)

\* The chain depends on the bytes, wherever they are, and on how much of its
\* argument SendData has written.
LEMMA SameChain ==
    ASSUME SendTypes, StreamInv, UNCHANGED waiting,
           is_using' => is_using /\ done' = done /\ (msg' = msg \/ done = 0),
           Total' = Total, \A p \in 1 .. Total : At(p)' = At(p)
    PROVE  StreamInv'
  <1>1. PICK st : Chain(st)
    BY DEF StreamInv
  <1>2. PICK N \in Nat, T \in Nat : N = Len(waiting) /\ T = Total
    BY AtType
  <1>3. /\ \A i \in 1 .. N : \A j \in 1 .. Size[waiting[i]] :
             st[i] + j \in 1 .. Total /\ At(st[i] + j) = <<waiting[i], j>>
        /\ st[N + 1] \in Nat /\ Ends(st[N + 1])
    BY <1>1, <1>2, ChainParts
  <1>4. \A i \in 1 .. N : \A j \in 1 .. Size[waiting[i]] : At(st[i] + j)' = <<waiting[i], j>>
    BY <1>3
  <1>5. PICK e \in Nat : e = st[N + 1] /\ Ends(e)
    BY <1>3
  <1>6. Ends(e)'
    <2>1. CASE Total = e /\ (is_using => done = 0)
      BY <2>1 DEF Ends
    <2>2. CASE Total > e
      <3>1. PICK m \in Msg : /\ Total - e < Size[m] /\ (is_using => m = msg /\ done = Total - e)
                            /\ \A p \in 1 .. Total - e : At(e + p) = <<m, p>>
        BY <1>5, <2>2 DEF Ends
      <3>2. ASSUME NEW p \in 1 .. Total - e PROVE At(e + p)' = <<m, p>>
        <4>1. e + p \in 1 .. Total
          BY <1>2
        <4> QED BY <3>1, <4>1
      <3>3. is_using' => m = msg' /\ done' = Total - e
        <4>1. Total - e # 0
          BY <1>2, <2>2
        <4> QED BY <3>1, <4>1
      <3> QED BY <2>2, <3>1, <3>2, <3>3 DEF Ends
    <2> QED BY <1>5, <2>1, <2>2 DEF Ends
  <1>7. Chain(st)'
    BY <1>1, <1>2, <1>4, <1>5, <1>6 DEF Chain
  <1> QED BY <1>7 DEF StreamInv

\* The types follow from those of the parts that a step changes.
LEMMA TypesKept ==
    ASSUME SendTypes, sb' \in [mem : Memory, head : Nat, tail : Nat],
           sb'.head <= sb'.tail, sb'.tail <= BufSize,
           wire' \in Seq(Byte), Len(wire') <= Kernel, waiting' \in Seq(Msg),
           is_using' \in BOOLEAN, pc' \in {"idle", "flush", "data"}, msg' \in Msg \cup {None},
           status' \in {"success", "not_finish", "error", "overflow"},
           conns' \in 0 .. MaxConns
    PROVE  SendTypes'
  <1>1. sb'.mem \in Memory /\ sb'.head \in Nat /\ sb'.tail \in Nat /\ BufSize \in Nat
    BY AtType
  <1>2. /\ DOMAIN sb'.mem = 0 .. BufSize - 1
        /\ sb'.head \in 0 .. sb'.tail /\ sb'.tail \in 0 .. BufSize
    BY <1>1 DEF Memory
  <1>3. TcpSendAssumption'
    BY DEF SendTypes, TcpSendAssumption
  <1> QED BY <1>2, <1>3 DEF SendTypes, TypeOK

\* The head and the tail go back to the front.
LEMMA ResetBuffer ==
    ASSUME SendTypes
    PROVE  /\ Reset(sb) \in [mem : Memory, head : Nat, tail : Nat]
           /\ Reset(sb).mem = sb.mem /\ Reset(sb).head = 0 /\ Reset(sb).tail = 0
  BY DEF Reset, SendTypes

\* A step that touches neither the buffer nor the kernel
LEMMA Untouched ==
    ASSUME IInv, UNCHANGED <<sb, wire, waiting, conns>>,
           is_using' => is_using /\ done' = done /\ (msg' = msg \/ done = 0),
           is_using' \in BOOLEAN, pc' \in {"idle", "flush", "data"}, msg' \in Msg \cup {None},
           status' \in {"success", "not_finish", "error", "overflow"}, CallInv'
    PROVE  IInv'
  <1>1. SendTypes'
    BY TypesKept DEF IInv, SendTypes, TypeOK
  <1>2. StreamInv'
    BY SameChain DEF IInv, Total, At
  <1> QED BY <1>1, <1>2 DEF IInv

\* SendData begins.
LEMMA SendDataKeeps ==
    ASSUME IInv, NEW m \in Msg, SendData(m) PROVE IInv'
  BY Untouched DEF SendData, socket, IInv, CallInv, SendTypes, TypeOK, AlwaysFits

\* send() fails: the connection is given up.
LEMMA SendFailsKeeps ==
    ASSUME IInv, SendFails PROVE IInv'
  BY Untouched DEF SendFails, Return, IInv, CallInv, SendTypes, TypeOK, AlwaysFits

\* The connection is closed while SendData does not run.
LEMMA DisconnectKeeps ==
    ASSUME IInv, Disconnect PROVE IInv'
  BY Untouched DEF Disconnect, call, IInv, CallInv, SendTypes, TypeOK, AlwaysFits

\* The first loop ends with an empty buffer.
LEMMA FlushDoneKeeps ==
    ASSUME IInv, FlushDone PROVE IInv'
  <1>1. /\ pc = "flush" /\ sb.tail = sb.head /\ pc' = "data" /\ sb' = Reset(sb)
        /\ UNCHANGED <<is_using, msg, done, status, wire, read, waiting, conns>>
    BY DEF FlushDone
  <1>2. /\ SendTypes /\ sb' \in [mem : Memory, head : Nat, tail : Nat]
        /\ sb'.head = 0 /\ sb'.tail = 0 /\ BufSize \in Nat /\ sb.tail \in Nat /\ Len(wire) \in Nat
    BY <1>1, ResetBuffer, AtType DEF IInv
  <1>3. SendTypes'
    BY <1>1, <1>2, TypesKept DEF SendTypes, TypeOK
  <1>4. Total' = Total /\ \A p \in 1 .. Total : At(p)' = At(p)
    <2>1. Total = Len(wire) /\ Total' = Len(wire)
      BY <1>1, <1>2 DEF Total
    <2> QED BY <1>1, <1>2, <2>1 DEF At
  <1>5. StreamInv'
    BY <1>1, <1>2, <1>4, SameChain DEF IInv
  <1>6. CallInv'
    <2>1. msg \in Msg /\ done = 0 /\ is_using
      BY <1>1 DEF IInv, CallInv
    <2>2. 0 < Size[msg]
      BY <1>2, <2>1, AtType, ByteFacts
    <2> QED BY <1>1, <1>2, <2>1, <2>2 DEF IInv, CallInv, AlwaysFits
  <1> QED BY <1>3, <1>5, <1>6 DEF IInv

\* send() moves bytes from the buffer to the kernel.
LEMMA FlushSendKeeps ==
    ASSUME IInv, NEW k \in 1 .. Kernel, FlushSend(k) PROVE IInv'
  <1>1. /\ pc = "flush" /\ k <= sb.tail - sb.head /\ k <= Kernel - Len(wire)
        /\ wire' = wire \o SubSeq(Held(sb), 1, k) /\ sb' = [sb EXCEPT !.head = @ + k]
        /\ UNCHANGED <<is_using, pc, msg, done, status, read, waiting, conns>>
    BY DEF FlushSend, Takes, call
  <1>2. /\ SendTypes /\ wire \in Seq(Byte) /\ Kernel \in Nat /\ BufSize \in Nat
        /\ sb.head \in Nat /\ sb.tail \in Nat /\ sb.mem \in Memory
        /\ sb.head <= sb.tail /\ sb.tail <= BufSize /\ Len(wire) \in Nat
    BY AtType, ByteFacts DEF IInv
  <1>3. PICK h \in Nat, H \in Nat, W \in Nat :
          /\ h = sb.head /\ H = sb.tail - sb.head /\ W = Len(wire)
          /\ sb.tail = h + H /\ k <= H /\ W + k <= Kernel
    <2>1. PICK h \in Nat, H \in Nat, W \in Nat : h = sb.head /\ H = sb.tail - sb.head /\ W = Len(wire)
      BY <1>2
    <2>2. sb.tail = h + H /\ k <= H
      BY <1>1, <1>2, <2>1, SMTT(40)
    <2>3. W + k <= Kernel
      BY <1>1, <1>2, <2>1
    <2> QED BY <2>1, <2>2, <2>3
  <1>4. h + H <= BufSize /\ k \in Nat \ {0} /\ BufSize \in Nat /\ Kernel \in Nat
    BY <1>2, <1>3
  <1>5. /\ sb' \in [mem : Memory, head : Nat, tail : Nat]
        /\ sb'.head = h + k /\ sb'.tail = sb.tail /\ sb'.mem = sb.mem
    <2>1. sb \in [mem : Memory, head : Nat, tail : Nat] /\ h + k \in Nat
      BY <1>2, <1>4 DEF SendTypes
    <2>2. sb' = [sb EXCEPT !.head = h + k]
      BY <1>1, <1>3
    <2> QED BY <2>1, <2>2
  <1>6. sb'.tail - sb'.head = H - k /\ sb'.head <= sb'.tail
    <2>1. (h + H) - (h + k) = H - k /\ h + k <= h + H
      BY <1>3, <1>4
    <2> QED BY <1>3, <1>5, <2>1
  <1>7. Total = W + H
    BY <1>3 DEF Total
  <1>8. /\ Held(sb) \in Seq(Byte) /\ Len(Held(sb)) = H
        /\ \A j \in 1 .. H : Held(sb)[j] = sb.mem[h + j - 1]
    <2>1. Held(sb) = [j \in 1 .. H |-> sb.mem[h + j - 1]]
      BY <1>3 DEF Held
    <2>2. ASSUME NEW j \in 1 .. H PROVE sb.mem[h + j - 1] \in Byte
      <3>1. h + j - 1 \in 0 .. BufSize - 1
        BY <1>4
      <3> QED BY <1>2, <3>1 DEF Memory
    <2> QED BY <2>1, <2>2
  <1>9. /\ wire' \in Seq(Byte) /\ Len(wire') = W + k
        /\ \A i \in 1 .. W : wire'[i] = wire[i]
        /\ \A i \in 1 .. k : wire'[W + i] = sb.mem[h + i - 1]
    <2>1. PICK r : r = SubSeq(Held(sb), 1, k)
      OBVIOUS
    <2>2. r \in Seq(Byte) /\ Len(r) = k /\ \A i \in 1 .. k : r[i] = Held(sb)[i]
      BY <1>3, <1>4, <1>8, <2>1
    <2>3. wire' = wire \o r
      BY <1>1, <2>1
    <2>4. \A i \in 1 .. k : i \in 1 .. H
      BY <1>3, <1>4
    <2>5. \A i \in 1 .. k : r[i] = sb.mem[h + i - 1]
      BY <1>8, <2>2, <2>4
    <2>6. /\ wire' \in Seq(Byte) /\ Len(wire') = W + k
          /\ \A i \in 1 .. W : wire'[i] = wire[i]
          /\ \A i \in 1 .. k : wire'[W + i] = r[i]
      <3>1. wire \in Seq(Byte) /\ k \in Nat /\ W = Len(wire) /\ k = Len(r) /\ r \in Seq(Byte)
        BY <1>2, <1>3, <1>4, <2>2
      <3>2. /\ wire \o r \in Seq(Byte) /\ Len(wire \o r) = W + k
            /\ \A i \in 1 .. W : (wire \o r)[i] = wire[i]
            /\ \A i \in 1 .. k : (wire \o r)[W + i] = r[i]
        <4>1. PICK s \in Seq(Byte), q \in Seq(Byte) : s = wire /\ q = r
          BY <3>1, Zenon
        <4>2. W = Len(s) /\ k = Len(q)
          BY <3>1, <4>1, Zenon
        <4>3. /\ s \o q \in Seq(Byte) /\ Len(s \o q) = W + k
              /\ \A i \in 1 .. W : (s \o q)[i] = s[i]
              /\ \A i \in 1 .. k : (s \o q)[W + i] = q[i]
          BY <4>2, SMTT(40)
        <4> QED BY <4>1, <4>3, ZenonT(40)
      <3> QED BY <2>3, <3>2, ZenonT(40)
    <2> QED BY <2>5, <2>6
  <1>10. Total' = Total
    <2>1. Total' = (W + k) + (H - k)
      BY <1>6, <1>9 DEF Total
    <2>2. (W + k) + (H - k) = W + H
      BY <1>3, <1>4
    <2> QED BY <1>7, <2>1, <2>2
  <1>11. ASSUME NEW p \in 1 .. Total PROVE At(p)' = At(p)
    <2>1. CASE p <= W
      <3>1. p \in 1 .. W /\ p <= W + k
        BY <1>4, <1>7, <2>1
      <3> QED BY <1>3, <1>9, <3>1 DEF At
    <2>2. CASE p > W /\ p <= W + k
      <3>1. p - W \in 1 .. k /\ W + (p - W) = p /\ ~(p <= W)
        BY <1>4, <1>7, <2>2
      <3>2. wire'[p] = sb.mem[h + (p - W) - 1]
        BY <1>9, <3>1
      <3> QED BY <1>3, <1>9, <2>2, <3>1, <3>2 DEF At
    <2>3. CASE p > W + k
      <3>1. ~(p <= W) /\ ~(p <= W + k) /\ (h + k) + (p - (W + k)) - 1 = h + (p - W) - 1
        BY <1>4, <1>7, <2>3
      <3>2. At(p)' = sb.mem[(h + k) + (p - (W + k)) - 1]
        BY <1>5, <1>9, <3>1 DEF At
      <3>3. At(p) = sb.mem[h + (p - W) - 1]
        BY <1>3, <3>1 DEF At
      <3> QED BY <3>1, <3>2, <3>3
    <2> QED BY <1>4, <1>7, <2>1, <2>2, <2>3
  <1>12. SendTypes'
    BY <1>1, <1>2, <1>3, <1>4, <1>5, <1>6, <1>9, TypesKept DEF SendTypes, TypeOK
  <1>13. StreamInv'
    BY <1>1, <1>2, <1>10, <1>11, SameChain DEF IInv
  <1>14. CallInv'
    BY <1>1 DEF IInv, CallInv, AlwaysFits
  <1> QED BY <1>12, <1>13, <1>14 DEF IInv

-----------------------------------------------------------------------------
(* Bytes that are put into the buffer or given to the kernel. *)

\* A buffer that holds what m_send_buffer holds
Same(b) ==
    /\ b \in [mem : Memory, head : Nat, tail : Nat] /\ b.head <= b.tail
    /\ b.tail - b.head = sb.tail - sb.head
    /\ \A p \in 1 .. sb.tail - sb.head : b.mem[b.head + p - 1] = sb.mem[sb.head + p - 1]

\* memmove keeps what is left in the buffer.
LEMMA MoveAhead ==
    ASSUME SendTypes
    PROVE  /\ Same(MovedAhead(sb))
           /\ MovedAhead(sb).head = 0 /\ MovedAhead(sb).tail = sb.tail - sb.head
  <1>1. /\ sb.mem \in Memory /\ BufSize \in Nat /\ DOMAIN sb.mem = 0 .. BufSize - 1
    BY AtType DEF Memory
  <1>2. PICK h \in Nat, H \in Nat : h = sb.head /\ H = sb.tail - sb.head /\ h + H <= BufSize
    BY AtType
  <1> DEFINE mem == [i \in DOMAIN sb.mem |-> IF i < H THEN sb.mem[h + i] ELSE sb.mem[i]]
             b == [mem |-> mem, head |-> 0, tail |-> H]
  <1>3. MovedAhead(sb) = b
    BY <1>2 DEF MovedAhead
  <1>4. ASSUME NEW i \in 0 .. BufSize - 1
        PROVE  mem[i] \in Byte /\ (i < H => mem[i] = sb.mem[h + i])
    <2>1. i < H => h + i \in 0 .. BufSize - 1
      BY <1>1, <1>2
    <2> QED BY <1>1, <2>1 DEF Memory
  <1>5. mem \in Memory
    BY <1>1, <1>4 DEF Memory
  <1> HIDE DEF mem
  <1>6. ASSUME NEW p \in 1 .. H PROVE mem[0 + p - 1] = sb.mem[h + p - 1]
    <2>1. p - 1 \in 0 .. BufSize - 1 /\ p - 1 < H /\ h + (p - 1) = h + p - 1 /\ 0 + p - 1 = p - 1
      BY <1>1, <1>2
    <2> QED BY <1>4, <2>1
  <1>7. b.mem = mem /\ b.head = 0 /\ b.tail = H /\ b \in [mem : Memory, head : Nat, tail : Nat]
    BY <1>5
  <1> HIDE DEF b
  <1>8. b.tail - b.head = H /\ b.head <= b.tail
    BY <1>7
  <1>9. \A p \in 1 .. H : b.mem[b.head + p - 1] = sb.mem[h + p - 1]
    BY <1>6, <1>7
  <1> QED BY <1>2, <1>3, <1>7, <1>8, <1>9 DEF Same

\* Buffer c is b, with the L bytes of s behind its tail t.
Behind(c, b, s, t, L) ==
    /\ c \in [mem : Memory, head : Nat, tail : Nat]
    /\ c.head = b.head /\ c.tail = t + L
    /\ \A i \in 0 .. t - 1 : c.mem[i] = b.mem[i]
    /\ \A j \in 1 .. L : c.mem[t + j - 1] = s[j]

\* memcpy puts bytes behind the tail.
LEMMA StoredBytes ==
    ASSUME TcpSendAssumption, NEW b \in [mem : Memory, head : Nat, tail : Nat],
           NEW s \in Seq(Byte), NEW L \in Nat, L = Len(s), NEW t \in Nat, t = b.tail, t + L <= BufSize
    PROVE  Behind(Stored(b, s), b, s, t, L)
  <1>1. b.mem \in Memory /\ BufSize \in Nat /\ DOMAIN b.mem = 0 .. BufSize - 1 /\ b.head \in Nat
    BY ByteFacts DEF Memory
  <1> DEFINE mem == [i \in DOMAIN b.mem |-> IF i \in t .. t + L - 1 THEN s[i - t + 1] ELSE b.mem[i]]
             c == [mem |-> mem, head |-> b.head, tail |-> t + L]
  <1>2. Stored(b, s) = c
    BY DEF Stored
  <1>3. ASSUME NEW i \in 0 .. BufSize - 1
        PROVE  /\ mem[i] \in Byte
               /\ i \in t .. t + L - 1 => mem[i] = s[i - t + 1]
               /\ i \notin t .. t + L - 1 => mem[i] = b.mem[i]
    <2>1. i \in t .. t + L - 1 => i - t + 1 \in 1 .. L
      OBVIOUS
    <2> QED BY <1>1, <2>1, SMTT(40) DEF Memory
  <1>4. mem \in Memory
    BY <1>1, <1>3 DEF Memory
  <1> HIDE DEF mem
  <1>5. ASSUME NEW i \in 0 .. t - 1 PROVE mem[i] = b.mem[i]
    <2>1. i \in 0 .. BufSize - 1 /\ i \notin t .. t + L - 1
      BY <1>1
    <2> QED BY <1>3, <2>1
  <1>6. ASSUME NEW j \in 1 .. L PROVE mem[t + j - 1] = s[j]
    <2>1. /\ t + j - 1 \in 0 .. BufSize - 1 /\ t + j - 1 \in t .. t + L - 1
          /\ (t + j - 1) - t + 1 = j
      BY <1>1
    <2> QED BY <1>3, <2>1
  <1>7. /\ c.mem = mem /\ c.head = b.head /\ c.tail = t + L /\ t + L \in Nat
    OBVIOUS
  <1>8. c \in [mem : Memory, head : Nat, tail : Nat]
    BY <1>1, <1>4, <1>7
  <1> HIDE DEF c
  <1> QED BY <1>2, <1>5, <1>6, <1>7, <1>8 DEF Behind

\* Bytes put into the buffer come behind the ones on their way.
LEMMA Buffered ==
    ASSUME SendTypes, NEW b, Same(b),
           NEW s \in Seq(Byte), NEW L \in Nat, L = Len(s), Fits(b, s),
           sb' = Stored(b, s), UNCHANGED wire, NEW T \in Nat, T = Total
    PROVE  /\ sb' \in [mem : Memory, head : Nat, tail : Nat]
           /\ sb'.head <= sb'.tail /\ sb'.tail <= BufSize
           /\ Total' = T + L
           /\ \A p \in 1 .. T : At(p)' = At(p)
           /\ \A j \in 1 .. L : At(T + j)' = s[j]
  <1>1. PICK h \in Nat, H \in Nat, W \in Nat : h = sb.head /\ H = sb.tail - sb.head /\ W = Len(wire)
    BY AtType
  <1>2. PICK g \in Nat, t \in Nat : g = b.head /\ t = b.tail /\ t = g + H /\ t + L <= BufSize
    <2>1. PICK g \in Nat, t \in Nat : g = b.head /\ t = b.tail
      BY DEF Same
    <2>2. t - g = H /\ BufSize - t >= L /\ BufSize \in Nat
      BY <1>1, <2>1, AtType DEF Same, Fits
    <2>3. t = g + H /\ t + L <= BufSize
      BY <2>2
    <2> QED BY <2>1, <2>2, <2>3
  <1>a. t = g + H /\ t + L <= BufSize
    BY <1>2
  <1>3. /\ sb' \in [mem : Memory, head : Nat, tail : Nat]
        /\ sb'.head = g /\ sb'.tail = t + L
        /\ \A i \in 0 .. t - 1 : sb'.mem[i] = b.mem[i]
        /\ \A j \in 1 .. L : sb'.mem[t + j - 1] = s[j]
    <2>1. TcpSendAssumption /\ b \in [mem : Memory, head : Nat, tail : Nat]
      BY AtType DEF Same
    <2>2. t = b.tail /\ t + L <= BufSize /\ g = b.head
      BY <1>2
    <2>3. Behind(sb', b, s, t, L)
      BY <2>1, <2>2, StoredBytes
    <2> QED BY <2>2, <2>3 DEF Behind
  <1>4. sb'.head <= sb'.tail /\ sb'.tail <= BufSize /\ sb'.tail - sb'.head = H + L
    <2>1. g <= t + L /\ (t + L) - g = H + L
      BY <1>a
    <2> QED BY <1>2, <1>3, <2>1
  <1>5. T = W + H /\ Total' = W + (H + L)
    BY <1>1, <1>4 DEF Total
  <1>6. ASSUME NEW p \in 1 .. T PROVE At(p)' = At(p)
    <2>1. CASE p <= W
      BY <1>1, <2>1 DEF At
    <2>2. CASE ~(p <= W)
      <3>1. p - W \in 1 .. H /\ g + (p - W) - 1 \in 0 .. t - 1
        BY <1>a, <1>5, <2>2
      <3>2. At(p)' = sb'.mem[g + (p - W) - 1]
        BY <1>1, <1>3, <2>2 DEF At
      <3>3. At(p) = sb.mem[h + (p - W) - 1]
        BY <1>1, <2>2 DEF At
      <3>4. b.mem[g + (p - W) - 1] = sb.mem[h + (p - W) - 1]
        BY <1>1, <1>2, <3>1 DEF Same
      <3> QED BY <1>3, <3>1, <3>2, <3>3, <3>4
    <2> QED BY <2>1, <2>2
  <1>7. ASSUME NEW j \in 1 .. L PROVE At(T + j)' = s[j]
    <2>1. ~(T + j <= W) /\ g + ((T + j) - W) - 1 = t + j - 1
      BY <1>2, <1>5
    <2>2. At(T + j)' = sb'.mem[g + ((T + j) - W) - 1]
      BY <1>1, <1>3, <2>1 DEF At
    <2> QED BY <1>3, <2>1, <2>2
  <1>8. Total' = T + L
    BY <1>5
  <1> QED BY <1>3, <1>4, <1>6, <1>7, <1>8

\* Bytes given to the kernel come behind the ones on their way, if the buffer
\* is empty.
LEMMA WireGrows ==
    ASSUME SendTypes, sb.head = sb.tail, UNCHANGED sb,
           NEW s \in Seq(Byte), NEW L \in Nat, L = Len(s), wire' = wire \o s,
           NEW T \in Nat, T = Total
    PROVE  /\ wire' \in Seq(Byte) /\ Len(wire') = Len(wire) + L /\ Total' = T + L
           /\ \A p \in 1 .. T : At(p)' = At(p)
           /\ \A j \in 1 .. L : At(T + j)' = s[j]
  <1>1. PICK W \in Nat : W = Len(wire) /\ wire \in Seq(Byte)
    BY AtType
  <1>2. /\ wire' \in Seq(Byte) /\ Len(wire') = W + L
        /\ \A i \in 1 .. W : wire'[i] = wire[i]
        /\ \A i \in 1 .. L : wire'[W + i] = s[i]
    BY <1>1, Joined
  <1>3. T = W /\ Total' = W + L
    <2>1. sb.tail - sb.head = 0
      BY AtType
    <2> QED BY <1>1, <1>2, <2>1 DEF Total
  <1>4. ASSUME NEW p \in 1 .. T PROVE At(p)' = At(p)
    <2>1. p <= W /\ p <= W + L /\ p \in 1 .. W
      BY <1>3
    <2> QED BY <1>1, <1>2, <2>1 DEF At
  <1>5. ASSUME NEW j \in 1 .. L PROVE At(T + j)' = s[j]
    <2>1. T + j <= W + L
      BY <1>3
    <2> QED BY <1>2, <1>3, <2>1 DEF At
  <1> QED BY <1>1, <1>2, <1>3, <1>4, <1>5

-----------------------------------------------------------------------------
(* SendData. *)

\* While SendData runs, what is behind the messages accepted is what it has
\* written of its argument.
LEMMA WrittenPart ==
    ASSUME SendTypes, NEW st, Chain(st), is_using, NEW N \in Nat, N = Len(waiting),
           NEW d \in Nat, d = done
    PROVE  \E e \in Nat : /\ e = st[N + 1] /\ Total = e + d
                          /\ \A p \in 1 .. d : At(e + p) = <<msg, p>>
  <1>1. PICK e \in Nat, T \in Nat : e = st[N + 1] /\ T = Total /\ e <= T /\ Ends(e)
    BY ChainParts, AtType
  <1>2. CASE Total = e /\ done = 0
    BY <1>1, <1>2
  <1>3. CASE Total > e /\ done = Total - e /\ \A p \in 1 .. Total - e : At(e + p) = <<msg, p>>
    <2>1. Total = e + d
      BY <1>1, <1>3
    <2> QED BY <1>1, <1>3, <2>1
  <1> QED BY <1>1, <1>2, <1>3 DEF Ends

\* The next L bytes of the argument, of which d are written, follow the T bytes
\* that are on their way.
Follows(T, L, d) ==
    /\ Total' = T + L
    /\ \A p \in 1 .. T : At(p)' = At(p)
    /\ \A j \in 1 .. L : At(T + j)' = <<msg, d + j>>

\* The message is accepted when its last byte is on its way.
LEMMA Accepts ==
    ASSUME SendTypes, StreamInv, is_using, is_using', msg \in Msg, waiting' = Append(waiting, msg),
           NEW d \in Nat, d = done, done' = 0, NEW T \in Nat, T = Total,
           NEW L \in Nat, d + L = Size[msg], Follows(T, L, d)
    PROVE  StreamInv'
  <1>1. PICK st : Chain(st)
    BY DEF StreamInv
  <1>2. PICK N \in Nat : N = Len(waiting) /\ waiting \in Seq(Msg)
    BY AtType
  <1>3. PICK e \in Nat : e = st[N + 1] /\ T = e + d /\ \A p \in 1 .. d : At(e + p) = <<msg, p>>
    BY <1>1, <1>2, WrittenPart
  <1>4. PICK n \in Nat : n = Size[msg] /\ n = d + L /\ Total' = e + n
    BY <1>3, SMTT(40) DEF Follows
  <1>5. /\ waiting' \in Seq(Msg) /\ Len(waiting') = N + 1 /\ waiting'[N + 1] = msg
        /\ \A i \in 1 .. N : waiting'[i] = waiting[i]
    BY <1>2
  <1>6. /\ st \in [1 .. N + 1 -> Nat] /\ st[1] = 0
        /\ \A i, j \in 1 .. N + 1 : i <= j => st[i] <= st[j]
        /\ \A i \in 1 .. N : i + 1 \in 1 .. N + 1 /\ st[i + 1] = st[i] + Size[waiting[i]]
        /\ \A i \in 1 .. N : \A j \in 1 .. Size[waiting[i]] :
             st[i] + j \in 1 .. T /\ At(st[i] + j) = <<waiting[i], j>>
    <2>1. /\ st \in [1 .. N + 1 -> Nat] /\ st[1] = 0
          /\ \A i, j \in 1 .. N + 1 : i <= j => st[i] <= st[j]
          /\ \A i \in 1 .. N : i + 1 \in 1 .. N + 1 /\ st[i + 1] = st[i] + Size[waiting[i]]
      BY <1>1, <1>2, ChainParts, SMTT(40)
    <2>2. \A i \in 1 .. N : \A j \in 1 .. Size[waiting[i]] :
            st[i] + j \in 1 .. Total /\ At(st[i] + j) = <<waiting[i], j>>
      BY <1>1, <1>2, ChainBytes, ZenonT(60)
    <2> QED BY <2>1, <2>2, Zenon
  <1> DEFINE su == [i \in 1 .. N + 2 |-> IF i = N + 2 THEN e + n ELSE st[i]]
  <1>7. \A i \in 1 .. N + 1 : i \in 1 .. N + 2 /\ i # N + 2 /\ st[i] \in Nat /\ st[i] <= e
    <2>1. \A i \in 1 .. N + 1 : i \in 1 .. N + 2 /\ i # N + 2 /\ i <= N + 1
      OBVIOUS
    <2>2. N + 1 \in 1 .. N + 1
      OBVIOUS
    <2> QED BY <1>3, <1>6, <2>1, <2>2
  <1>8. /\ su[N + 2] = e + n /\ \A i \in 1 .. N + 1 : su[i] = st[i]
    BY <1>7
  <1>9. \A i \in 1 .. N + 2 : i \in 1 .. N + 1 \/ i = N + 2
    OBVIOUS
  <1>10. su \in [1 .. N + 2 -> Nat] /\ su[1] = 0
    BY <1>6, <1>7, <1>9
  <1> HIDE DEF su
  <1>11. \A i, j \in 1 .. N + 2 : i <= j => su[i] <= su[j]
    <2> SUFFICES ASSUME NEW i \in 1 .. N + 2, NEW j \in 1 .. N + 2, i <= j PROVE su[i] <= su[j]
      OBVIOUS
    <2>1. CASE j = N + 2
      <3>1. su[i] <= e + n
        <4>1. CASE i \in 1 .. N + 1
          BY <1>7, <1>8, <4>1
        <4>2. CASE i = N + 2
          BY <1>8, <4>2
        <4> QED BY <1>9, <4>1, <4>2
      <3> QED BY <1>8, <2>1, <3>1
    <2>2. CASE j \in 1 .. N + 1
      <3>1. i \in 1 .. N + 1
        BY <2>2
      <3> QED BY <1>6, <1>8, <2>2, <3>1
    <2> QED BY <1>9, <2>1, <2>2
  <1>12. ASSUME NEW j \in 1 .. n PROVE At(e + j)' = <<msg, j>>
    <2>1. CASE j <= d
      <3>1. e + j \in 1 .. T /\ j \in 1 .. d
        BY <1>3, <2>1, SMTT(40)
      <3> QED BY <1>3, <3>1 DEF Follows
    <2>2. CASE ~(j <= d)
      <3>1. j - d \in 1 .. L /\ T + (j - d) = e + j /\ d + (j - d) = j
        BY <1>3, <1>4, <2>2
      <3>2. At(T + (j - d))' = <<msg, d + (j - d)>>
        BY <3>1 DEF Follows
      <3> QED BY <3>1, <3>2
    <2> QED BY <2>1, <2>2
  <1>13. ASSUME NEW i \in 1 .. N + 1
         PROVE  /\ su[i + 1] = su[i] + Size[waiting'[i]]
                /\ \A j \in 1 .. Size[waiting'[i]] : At(su[i] + j)' = <<waiting'[i], j>>
    <2>1. CASE i = N + 1
      <3>1. waiting'[i] = msg /\ su[i] = e /\ i + 1 = N + 2
        <4>1. N + 1 \in 1 .. N + 1 /\ i + 1 = N + 2
          BY <2>1
        <4> QED BY <1>3, <1>5, <1>8, <2>1, <4>1, SMTT(40)
      <3> QED BY <1>4, <1>8, <1>12, <3>1
    <2>2. CASE i \in 1 .. N
      <3>1. waiting'[i] = waiting[i] /\ su[i] = st[i] /\ i + 1 \in 1 .. N + 1 /\ su[i + 1] = st[i + 1]
        BY <1>5, <1>8, <2>2, SMTT(40)
      <3>2. \A j \in 1 .. Size[waiting[i]] : At(st[i] + j)' = <<waiting[i], j>>
        BY <1>6, <2>2 DEF Follows
      <3> QED BY <1>6, <2>2, <3>1, <3>2
    <2>3. i = N + 1 \/ i \in 1 .. N
      OBVIOUS
    <2> QED BY <2>1, <2>2, <2>3
  <1>14. Ends(su[N + 2])'
    BY <1>4, <1>8 DEF Ends
  <1>15. Chain(su)'
    <2>1. N + 1 + 1 = N + 2
      OBVIOUS
    <2> QED BY <1>5, <1>10, <1>11, <1>13, <1>14, <2>1 DEF Chain
  <1> QED BY <1>15 DEF StreamInv

\* EAGAIN in the first loop
LEMMA FlushAgainKeeps ==
    ASSUME IInv, FlushAgain PROVE IInv'
  <1>0. PICK b : b = MovedAhead(sb)
    OBVIOUS
  <1>1. pc = "flush" /\ UNCHANGED <<is_using, wire, read, conns>>
    BY DEF FlushAgain
  <1>2. /\ SendTypes /\ StreamInv /\ is_using /\ msg \in Msg /\ done = 0
        /\ pc' = "idle" /\ msg' = None /\ done' = 0 /\ status' \in {"success", "not_finish"}
    BY <1>1 DEF FlushAgain, Accepted, Return, IInv, CallInv
  <1>3. PICK T \in Nat, n \in Nat : T = Total /\ n = Size[msg]
    BY <1>2, AtType, ByteFacts
  <1>4. Same(b)
    BY <1>0, <1>2, MoveAhead
  <1>5. CASE Fits(b, Bytes(msg))
    <2>1. sb' = Stored(b, Bytes(msg)) /\ waiting' = Append(waiting, msg)
      BY <1>0, <1>5 DEF FlushAgain, Accepted
    <2>2. /\ Bytes(msg) \in Seq(Byte) /\ n = Len(Bytes(msg))
          /\ \A j \in 1 .. n : Bytes(msg)[j] = <<msg, j>>
      BY <1>2, <1>3, AtType, ByteFacts
    <2>3. /\ sb' \in [mem : Memory, head : Nat, tail : Nat]
          /\ sb'.head <= sb'.tail /\ sb'.tail <= BufSize
          /\ Total' = T + n
          /\ \A p \in 1 .. T : At(p)' = At(p)
          /\ \A j \in 1 .. n : At(T + j)' = Bytes(msg)[j]
      BY <1>1, <1>2, <1>3, <1>4, <1>5, <2>1, <2>2, Buffered, ZenonT(40)
    <2>4. Follows(T, n, 0)
      <3>1. \A j \in 1 .. n : 0 + j = j
        OBVIOUS
      <3>2. \A j \in 1 .. n : At(T + j)' = <<msg, j>>
        BY <2>2, <2>3
      <3> QED BY <2>3, <3>1, <3>2 DEF Follows
    <2>5. StreamInv'
      <3>1. 0 + n = Size[msg] /\ is_using'
        BY <1>1, <1>2, <1>3
      <3> QED BY <1>2, <1>3, <2>1, <2>4, <3>1, Accepts
    <2>6. waiting' \in Seq(Msg)
      BY <1>2, <2>1, AtType
    <2>7. SendTypes'
      BY <1>1, <1>2, <2>3, <2>6, TypesKept DEF SendTypes, TypeOK
    <2> QED BY <1>1, <1>2, <2>5, <2>7 DEF IInv, CallInv, AlwaysFits
  <1>6. CASE ~Fits(b, Bytes(msg))
    <2>1. sb' = b /\ waiting' = waiting
      BY <1>0, <1>6 DEF FlushAgain
    <2>2. /\ b \in [mem : Memory, head : Nat, tail : Nat] /\ b.head <= b.tail
          /\ b.head = 0 /\ b.tail = sb.tail - sb.head
          /\ \A p \in 1 .. sb.tail - sb.head : b.mem[0 + p - 1] = sb.mem[sb.head + p - 1]
      BY <1>0, <1>2, <1>4, MoveAhead DEF Same
    <2>3. PICK h \in Nat, H \in Nat, W \in Nat :
            h = sb.head /\ H = sb.tail - sb.head /\ W = Len(wire) /\ H <= BufSize
      BY <1>2, AtType
    <2>4. T = W + H /\ Total' = W + H /\ b.tail <= BufSize
      BY <1>1, <1>3, <2>1, <2>2, <2>3 DEF Total
    <2>5. ASSUME NEW p \in 1 .. T PROVE At(p)' = At(p)
      <3>1. CASE p <= W
        BY <1>1, <2>3, <3>1 DEF At
      <3>2. CASE ~(p <= W)
        <4>1. p - W \in 1 .. H
          BY <2>4, <3>2
        <4>2. At(p)' = b.mem[0 + (p - W) - 1]
          BY <1>1, <2>1, <2>2, <2>3, <3>2 DEF At
        <4>3. At(p) = sb.mem[h + (p - W) - 1]
          BY <2>3, <3>2 DEF At
        <4> QED BY <2>2, <2>3, <4>1, <4>2, <4>3
      <3> QED BY <3>1, <3>2
    <2>6. StreamInv'
      BY <1>1, <1>2, <1>3, <2>1, <2>4, <2>5, SameChain
    <2>7. SendTypes'
      BY <1>1, <1>2, <2>1, <2>2, <2>4, TypesKept DEF SendTypes, TypeOK
    <2> QED BY <1>1, <1>2, <2>6, <2>7 DEF IInv, CallInv, AlwaysFits
  <1> QED BY <1>5, <1>6

\* The bytes of the argument that are not written
LEMMA RestBytes ==
    ASSUME IInv, pc = "data", NEW d \in Nat, d = done, NEW n \in Nat, n = Size[msg]
    PROVE  /\ d < n /\ n <= BufSize /\ Rest \in Seq(Byte) /\ Len(Rest) = n - d
           /\ \A j \in 1 .. n - d : Rest[j] = <<msg, d + j>>
  <1>1. d < n /\ msg \in Msg
    BY DEF IInv, CallInv
  <1>2. /\ Bytes(msg) \in Seq(Byte) /\ Len(Bytes(msg)) = n /\ n <= BufSize
        /\ \A j \in 1 .. n : Bytes(msg)[j] = <<msg, j>>
    BY <1>1, AtType, ByteFacts DEF IInv
  <1>3. PICK r : r = SubSeq(Bytes(msg), d + 1, n)
    OBVIOUS
  <1>4. Rest = r
    BY <1>3 DEF Rest
  <1>5. r \in Seq(Byte) /\ Len(r) = n - d /\ \A j \in 1 .. n - d : r[j] = Bytes(msg)[d + j]
    BY <1>1, <1>2, <1>3
  <1>6. \A j \in 1 .. n - d : d + j \in 1 .. n
    OBVIOUS
  <1> QED BY <1>1, <1>2, <1>4, <1>5, <1>6

\* send() takes a part of the message.
LEMMA DataSendKeeps ==
    ASSUME IInv, NEW k \in 1 .. Kernel, DataSend(k) PROVE IInv'
  <1>1. /\ pc = "data" /\ k <= Len(Rest) /\ k <= Kernel - Len(wire)
        /\ wire' = wire \o SubSeq(Rest, 1, k)
        /\ UNCHANGED <<is_using, sb, read, conns>>
    BY DEF DataSend, Takes, socket
  <1>2. /\ SendTypes /\ StreamInv /\ is_using /\ msg \in Msg /\ done \in Nat
        /\ sb.head = 0 /\ sb.tail = 0
    BY <1>1 DEF IInv, CallInv
  <1>3. PICK d \in Nat, n \in Nat, T \in Nat : d = done /\ n = Size[msg] /\ T = Total
    BY <1>2, AtType, ByteFacts
  <1>4. /\ d < n /\ Rest \in Seq(Byte) /\ Len(Rest) = n - d
        /\ \A j \in 1 .. n - d : Rest[j] = <<msg, d + j>>
    BY <1>1, <1>3, RestBytes
  <1>5. k \in Nat \ {0} /\ d + k <= n /\ k <= n - d /\ Kernel \in Nat
    BY <1>1, <1>2, <1>4, AtType, ByteFacts
  <1>6. PICK r : r = SubSeq(Rest, 1, k)
    OBVIOUS
  <1>7. r \in Seq(Byte) /\ k = Len(r) /\ \A j \in 1 .. k : r[j] = <<msg, d + j>>
    <2>1. r \in Seq(Byte) /\ k = Len(r) /\ \A j \in 1 .. k : r[j] = Rest[j]
      BY <1>4, <1>5, <1>6
    <2>2. \A j \in 1 .. k : j \in 1 .. n - d
      BY <1>5
    <2> QED BY <1>4, <2>1, <2>2
  <1>8. /\ wire' \in Seq(Byte) /\ Len(wire') = Len(wire) + k /\ Total' = T + k
        /\ \A p \in 1 .. T : At(p)' = At(p)
        /\ \A j \in 1 .. k : At(T + j)' = r[j]
    <2>1. wire' = wire \o r /\ sb.head = sb.tail /\ UNCHANGED sb /\ k \in Nat
      BY <1>1, <1>2, <1>5, <1>6
    <2> QED BY <1>2, <1>3, <1>7, <2>1, WireGrows
  <1>9. Follows(T, k, d)
    BY <1>7, <1>8 DEF Follows
  <1>10. Len(wire') <= Kernel
    <2>1. Len(wire) \in Nat
      BY <1>2, AtType
    <2> QED BY <1>1, <1>5, <1>8, <2>1
  <1>11. CASE done + k = Size[msg]
    <2>1. /\ pc' = "idle" /\ status' = "success" /\ msg' = None /\ done' = 0
          /\ waiting' = Append(waiting, msg)
      BY <1>11 DEF DataSend, Accepted, Return
    <2>2. waiting' \in Seq(Msg)
      BY <1>2, <2>1, AtType
    <2>3. StreamInv'
      <3>1. d + k = Size[msg] /\ k \in Nat /\ is_using'
        BY <1>1, <1>2, <1>3, <1>5, <1>11
      <3> QED BY <1>2, <1>3, <1>9, <2>1, <3>1, Accepts
    <2>4. SendTypes'
      BY <1>1, <1>2, <1>8, <1>10, <2>1, <2>2, TypesKept DEF SendTypes, TypeOK
    <2> QED BY <1>1, <1>2, <2>1, <2>3, <2>4 DEF IInv, CallInv, AlwaysFits
  <1>12. CASE done + k # Size[msg]
    <2>1. done' = done + k /\ UNCHANGED <<pc, msg, status, waiting>>
      BY <1>12 DEF DataSend
    <2>2. PICK c \in Nat : c = d + k /\ c = done' /\ c < n /\ c # 0
      BY <1>3, <1>5, <1>12, <2>1
    <2>3. SendTypes'
      BY <1>1, <1>2, <1>8, <1>10, <2>1, TypesKept DEF SendTypes, TypeOK
    <2>4a. PICK st : Chain(st)
      BY <1>2 DEF StreamInv
    <2>4b. PICK N \in Nat : N = Len(waiting)
      BY <1>2, AtType
    <2>4. Chain(st) /\ N = Len(waiting)
      BY <2>4a, <2>4b
    <2>5. PICK e \in Nat : e = st[N + 1] /\ T = e + d /\ \A p \in 1 .. d : At(e + p) = <<msg, p>>
      BY <1>2, <1>3, <2>4, WrittenPart, SMTT(40)
    <2>6. \A i \in 1 .. N : \A j \in 1 .. Size[waiting[i]] :
            st[i] + j \in 1 .. Total /\ At(st[i] + j) = <<waiting[i], j>>
      BY <1>2, <2>4, ChainParts, SMTT(40)
    <2>7. \A i \in 1 .. N : \A j \in 1 .. Size[waiting[i]] : At(st[i] + j)' = <<waiting[i], j>>
      BY <1>3, <1>8, <2>6
    <2>8. Total' = e + c
      <3>1. T + k = e + c
        BY <1>5, <2>2, <2>5
      <3> QED BY <1>8, <3>1
    <2>9. ASSUME NEW p \in 1 .. c PROVE At(e + p)' = <<msg, p>>
      <3>1. CASE p <= d
        <4>1. e + p \in 1 .. T /\ p \in 1 .. d
          BY <2>5, <3>1
        <4> QED BY <1>8, <2>5, <4>1
      <3>2. CASE ~(p <= d)
        <4>1. p - d \in 1 .. k /\ T + (p - d) = e + p /\ d + (p - d) = p
          BY <1>5, <2>2, <2>5, <3>2
        <4>2. At(T + (p - d))' = <<msg, d + (p - d)>>
          BY <1>9, <4>1 DEF Follows
        <4> QED BY <4>1, <4>2
      <3> QED BY <3>1, <3>2
    <2>10. Ends(e)'
      <3>1. Total' > e /\ Total' - e = c /\ c < Size[msg] /\ done' = c
        <4>1. e + c > e /\ (e + c) - e = c
          BY <2>2
        <4> QED BY <1>3, <2>2, <2>8, <4>1
      <3> QED BY <1>2, <2>1, <2>9, <3>1 DEF Ends
    <2>11. Chain(st)'
      BY <2>1, <2>4, <2>5, <2>7, <2>10 DEF Chain
    <2>12. CallInv'
      BY <1>1, <1>2, <1>3, <2>1, <2>2 DEF IInv, CallInv, AlwaysFits
    <2> QED BY <2>3, <2>11, <2>12 DEF IInv, StreamInv
  <1> QED BY <1>11, <1>12

\* EAGAIN in the second loop: the buffer is empty, so the rest has room in it.
LEMMA DataAgainKeeps ==
    ASSUME IInv, DataAgain PROVE IInv'
  <1>1. pc = "data" /\ UNCHANGED <<wire, read, conns>>
    BY DEF DataAgain
  <1>2. /\ SendTypes /\ StreamInv /\ is_using /\ msg \in Msg /\ done \in Nat
        /\ sb.head = 0 /\ sb.tail = 0
    BY <1>1 DEF IInv, CallInv
  <1>3. PICK d \in Nat, n \in Nat, T \in Nat : d = done /\ n = Size[msg] /\ T = Total
    BY <1>2, AtType, ByteFacts
  <1>4. /\ d < n /\ n <= BufSize /\ Rest \in Seq(Byte) /\ Len(Rest) = n - d
        /\ \A j \in 1 .. n - d : Rest[j] = <<msg, d + j>>
    BY <1>1, <1>3, RestBytes
  <1>5. PICK L \in Nat : L = n - d /\ L = Len(Rest) /\ d + L = n /\ L <= BufSize
    BY <1>2, <1>4, AtType
  <1>6. Fits(sb, Rest)
    <2>1. BufSize \in Nat
      BY <1>2, AtType
    <2> QED BY <1>2, <1>5, <2>1 DEF Fits
  <1>7. /\ sb' = Stored(sb, Rest) /\ waiting' = Append(waiting, msg) /\ UNCHANGED is_using
        /\ pc' = "idle" /\ status' = "success" /\ msg' = None /\ done' = 0
    BY <1>6 DEF DataAgain, Remaind, Accepted, Return
  <1>8. Same(sb)
    BY <1>2, AtType DEF Same, SendTypes
  <1>9. /\ sb' \in [mem : Memory, head : Nat, tail : Nat]
        /\ sb'.head <= sb'.tail /\ sb'.tail <= BufSize
        /\ Total' = T + L
        /\ \A p \in 1 .. T : At(p)' = At(p)
        /\ \A j \in 1 .. L : At(T + j)' = Rest[j]
    <2>1. Rest \in Seq(Byte) /\ L = Len(Rest) /\ UNCHANGED wire /\ sb' = Stored(sb, Rest)
      BY <1>1, <1>4, <1>5, <1>7
    <2> QED BY <1>2, <1>3, <1>6, <1>8, <2>1, Buffered, SMTT(40)
  <1>10. Follows(T, L, d)
    BY <1>4, <1>5, <1>9 DEF Follows
  <1>11. StreamInv'
    <2>1. d + L = Size[msg] /\ is_using'
      BY <1>2, <1>3, <1>5, <1>7
    <2> QED BY <1>2, <1>3, <1>7, <1>10, <2>1, Accepts
  <1>12. waiting' \in Seq(Msg)
    BY <1>2, <1>7, AtType
  <1>13. SendTypes'
    BY <1>1, <1>2, <1>7, <1>9, <1>12, TypesKept DEF SendTypes, TypeOK
  <1> QED BY <1>2, <1>7, <1>11, <1>13 DEF IInv, CallInv, AlwaysFits

-----------------------------------------------------------------------------
(* The client, and the connection. *)

\* What the client reads is the first message accepted and not yet read, whole.
LEMMA FirstWhole ==
    ASSUME IInv, wire # <<>>, wire[1][2] = 1, Size[wire[1][1]] <= Len(wire)
    PROVE  /\ waiting # <<>> /\ waiting[1] \in Msg /\ Size[wire[1][1]] = Size[waiting[1]]
           /\ Size[waiting[1]] <= Len(wire)
           /\ SubSeq(wire, 1, Size[waiting[1]]) = Bytes(waiting[1])
  <1>0. SendTypes /\ wire \in Seq(Byte) /\ waiting \in Seq(Msg)
    BY AtType DEF IInv
  <1>1. PICK W \in Nat, T \in Nat, N \in Nat :
          W = Len(wire) /\ T = Total /\ N = Len(waiting) /\ W > 0 /\ W <= T
    <2>1. PICK W \in Nat, T \in Nat, N \in Nat : W = Len(wire) /\ T = Total /\ N = Len(waiting)
      BY <1>0, AtType
    <2>2. W > 0
      BY <1>0, <2>1
    <2>3. PICK H \in Nat : H = sb.tail - sb.head
      BY <1>0, AtType
    <2>4. T = W + H
      BY <2>1, <2>3 DEF Total
    <2>5. W <= T
      BY <2>4
    <2> QED BY <2>1, <2>2, <2>5
  <1>2. At(1) = wire[1]
    BY <1>1 DEF At
  <1>3. PICK st : Chain(st)
    BY DEF IInv, StreamInv
  <1>4. /\ st[1] = 0 /\ Ends(st[N + 1])
        /\ \A i \in 1 .. N : waiting[i] \in Msg /\ Size[waiting[i]] \in Nat \ {0}
        /\ \A i \in 1 .. N : \A j \in 1 .. Size[waiting[i]] : At(st[i] + j) = <<waiting[i], j>>
    BY <1>0, <1>1, <1>3, ChainParts
  <1>5. N # 0
    <2> SUFFICES ASSUME N = 0 PROVE FALSE
      OBVIOUS
    <2>1. Ends(0)
      BY <1>4
    <2>2. PICK m \in Msg : Total - 0 < Size[m] /\ \A p \in 1 .. Total - 0 : At(0 + p) = <<m, p>>
      BY <1>1, <2>1 DEF Ends
    <2>3. 1 \in 1 .. Total - 0 /\ 0 + 1 = 1
      BY <1>1
    <2>4. wire[1] = <<m, 1>>
      BY <1>2, <2>2, <2>3
    <2>5. Size[m] <= W /\ Size[m] \in Nat
      BY <1>0, <1>1, <2>4, AtType, ByteFacts
    <2> QED BY <1>1, <2>2, <2>5
  <1>6. 1 \in 1 .. N /\ waiting[1] \in Msg /\ waiting # <<>>
    <2>1. 1 \in 1 .. N
      BY <1>5
    <2> QED BY <1>0, <1>1, <1>4, <2>1
  <1>7. PICK n \in Nat : n = Size[waiting[1]] /\ n > 0
    BY <1>4, <1>6
  <1>8. \A j \in 1 .. n : At(j) = <<waiting[1], j>>
    <2>1. \A j \in 1 .. n : 0 + j = j
      OBVIOUS
    <2> QED BY <1>4, <1>6, <1>7, <2>1
  <1>9. wire[1] = <<waiting[1], 1>>
    BY <1>2, <1>7, <1>8
  <1>10. Size[wire[1][1]] = n /\ n <= W
    BY <1>1, <1>7, <1>9
  <1>11. ASSUME NEW j \in 1 .. n PROVE wire[j] = <<waiting[1], j>>
    <2>1. j <= W
      BY <1>10
    <2> QED BY <1>1, <1>8, <2>1 DEF At
  <1>12. SubSeq(wire, 1, n) = Bytes(waiting[1])
    <2>1. SubSeq(wire, 1, n) = [j \in 1 .. n |-> wire[j]]
      BY <1>0, <1>1, <1>10
    <2>2. [j \in 1 .. n |-> wire[j]] = [j \in 1 .. n |-> <<waiting[1], j>>]
      BY <1>11
    <2> QED BY <1>7, <2>1, <2>2 DEF Bytes
  <1> QED BY <1>1, <1>6, <1>7, <1>10, <1>12

\* The client reads a message.
LEMMA PeerReadsKeeps ==
    ASSUME IInv, PeerReads PROVE IInv'
  <1>1. /\ wire # <<>> /\ wire[1][2] = 1 /\ Size[wire[1][1]] <= Len(wire)
        /\ UNCHANGED <<is_using, sb, pc, msg, done, status, conns>>
    BY DEF PeerReads, socket, call
  <1>2. SendTypes /\ waiting # <<>> /\ waiting[1] \in Msg /\ Size[wire[1][1]] = Size[waiting[1]]
        /\ Size[waiting[1]] <= Len(wire)
    BY <1>1, FirstWhole DEF IInv
  <1>3. /\ wire' = SubSeq(wire, Size[waiting[1]] + 1, Len(wire)) /\ waiting' = Tail(waiting)
    BY <1>2 DEF PeerReads
  <1>4. PICK n \in Nat, W \in Nat, H \in Nat, h \in Nat :
          /\ n = Size[waiting[1]] /\ W = Len(wire) /\ H = sb.tail - sb.head /\ h = sb.head /\ n <= W
    BY <1>2, AtType, ByteFacts, SMTT(40)
  <1>5. /\ wire \in Seq(Byte) /\ wire' \in Seq(Byte) /\ Len(wire') = W - n
        /\ \A i \in 1 .. W - n : wire'[i] = wire[n + i]
    <2>1. wire \in Seq(Byte) /\ wire' = SubSeq(wire, n + 1, W)
      BY <1>2, <1>3, <1>4, AtType
    <2>2. W = Len(wire) /\ n <= W
      BY <1>4
    <2>3. PICK r : r = SubSeq(wire, n + 1, W)
      OBVIOUS
    <2>4. r \in Seq(Byte) /\ Len(r) = W - n /\ \A i \in 1 .. W - n : r[i] = wire[n + i]
      BY <2>1, <2>2, <2>3, CutOff
    <2> QED BY <2>1, <2>3, <2>4
  <1>6. /\ waiting \in Seq(Msg) /\ waiting' \in Seq(Msg) /\ Len(waiting') = Len(waiting) - 1
        /\ Len(waiting) \in Nat \ {0}
        /\ \A i \in 1 .. Len(waiting) - 1 : waiting'[i] = waiting[i + 1]
    BY <1>2, <1>3 DEF SendTypes
  <1>7. SendTypes'
    <2>1. Len(wire') <= Kernel
      <3>1. W <= Kernel /\ Kernel \in Nat
        BY <1>2, <1>4, AtType, ByteFacts DEF SendTypes, TypeOK
      <3> QED BY <1>4, <1>5, <3>1
    <2> QED BY <1>1, <1>2, <1>5, <1>6, <2>1, TypesKept DEF SendTypes, TypeOK
  <1>8. /\ Total = W + H /\ Total' = W + H - n
        /\ \A p \in 1 .. W + H - n : At(p)' = At(n + p)
    <2>1. Total = W + H /\ Total' = (W - n) + H
      BY <1>1, <1>4, <1>5 DEF Total
    <2>2. ASSUME NEW p \in 1 .. W + H - n PROVE At(p)' = At(n + p)
      <3>1. CASE p <= W - n
        <4>1. n + p <= W /\ p \in 1 .. W - n
          BY <1>4, <3>1
        <4> QED BY <1>4, <1>5, <3>1, <4>1 DEF At
      <3>2. CASE ~(p <= W - n)
        <4>1. ~(n + p <= W) /\ p - (W - n) = (n + p) - W
          BY <1>4, <3>2
        <4>2. At(p)' = sb.mem[h + (p - (W - n)) - 1]
          BY <1>1, <1>4, <1>5, <3>2 DEF At
        <4>3. At(n + p) = sb.mem[h + ((n + p) - W) - 1]
          BY <1>4, <4>1 DEF At
        <4> QED BY <4>1, <4>2, <4>3
      <3> QED BY <3>1, <3>2
    <2>3. (W - n) + H = W + H - n
      BY <1>4
    <2> QED BY <2>1, <2>2, <2>3
  <1>9. PICK st : Chain(st)
    BY DEF IInv, StreamInv
  <1>10. PICK N \in Nat, T \in Nat : N = Len(waiting) /\ N > 0 /\ T = Total
    BY <1>2, <1>6, AtType
  <1>11. /\ st \in [1 .. N + 1 -> Nat] /\ st[1] = 0
         /\ \A i, j \in 1 .. N + 1 : i <= j => st[i] <= st[j]
         /\ \A i \in 1 .. N : /\ Size[waiting[i]] \in Nat \ {0} /\ st[i] \in Nat
                              /\ st[i + 1] = st[i] + Size[waiting[i]]
    <2>1. /\ st \in [1 .. N + 1 -> Nat] /\ st[1] = 0
          /\ \A i, j \in 1 .. N + 1 : i <= j => st[i] <= st[j]
      BY <1>2, <1>9, <1>10, ChainParts
    <2>2. \A i \in 1 .. N : /\ Size[waiting[i]] \in Nat \ {0} /\ st[i] \in Nat
                            /\ st[i + 1] = st[i] + Size[waiting[i]]
      BY <1>2, <1>9, <1>10, ChainParts
    <2> QED BY <2>1, <2>2
  <1>12. \A i \in 1 .. N : \A j \in 1 .. Size[waiting[i]] :
           st[i] + j \in 1 .. Total /\ At(st[i] + j) = <<waiting[i], j>>
    BY <1>2, <1>9, <1>10, ChainParts, SMTT(40)
  <1>13. st[2] = n
    <2>1. 1 \in 1 .. N /\ 1 + 1 = 2
      BY <1>10
    <2> QED BY <1>4, <1>11, <2>1
  <1>14. \A i \in 1 .. N : i + 1 \in 1 .. N + 1 /\ st[i + 1] \in Nat /\ st[i + 1] >= n
    <2>1. 2 \in 1 .. N + 1
      BY <1>10
    <2>2. \A i \in 1 .. N : i + 1 \in 1 .. N + 1 /\ 2 <= i + 1
      BY <1>10
    <2> QED BY <1>11, <1>13, <2>1, <2>2
  <1> DEFINE su == [i \in 1 .. N |-> st[i + 1] - n]
  <1>15. Len(waiting') = N - 1 /\ Len(waiting') + 1 = N
    BY <1>6, <1>10
  <1>16. su \in [1 .. N -> Nat] /\ su[1] = 0
    <2>1. 1 \in 1 .. N /\ st[1 + 1] = n
      BY <1>10, <1>13
    <2> QED BY <1>14, <2>1
  <1>17. \A i, j \in 1 .. N : i <= j => su[i] <= su[j]
    <2> SUFFICES ASSUME NEW i \in 1 .. N, NEW j \in 1 .. N, i <= j PROVE su[i] <= su[j]
      OBVIOUS
    <2>1. st[i + 1] <= st[j + 1]
      BY <1>11, <1>14
    <2> QED BY <1>14, <2>1
  <1>18. ASSUME NEW i \in 1 .. N - 1
         PROVE  /\ su[i + 1] = su[i] + Size[waiting'[i]]
                /\ \A j \in 1 .. Size[waiting'[i]] : At(su[i] + j)' = <<waiting'[i], j>>
    <2>1. i \in 1 .. N /\ i + 1 \in 1 .. N /\ waiting'[i] = waiting[i + 1]
      <3>1. i \in 1 .. N /\ i + 1 \in 1 .. N
        BY <1>10
      <3>2. waiting'[i] = waiting[i + 1]
        BY <1>6, <1>10
      <3> QED BY <3>1, <3>2
    <2>2. st[i + 1] \in Nat /\ st[i + 1] >= n /\ su[i] = st[i + 1] - n /\ su[i + 1] = st[i + 1 + 1] - n
      BY <1>14, <2>1
    <2>3. st[i + 1 + 1] = st[i + 1] + Size[waiting[i + 1]] /\ Size[waiting[i + 1]] \in Nat
      BY <1>11, <2>1
    <2> HIDE DEF su
    <2>4. su[i + 1] = su[i] + Size[waiting'[i]]
      BY <2>1, <2>2, <2>3
    <2>5. ASSUME NEW j \in 1 .. Size[waiting'[i]] PROVE At(su[i] + j)' = <<waiting'[i], j>>
      <3>1. /\ st[i + 1] + j \in 1 .. Total /\ At(st[i + 1] + j) = <<waiting[i + 1], j>>
        BY <1>12, <2>1
      <3>2. su[i] + j \in 1 .. W + H - n /\ n + (su[i] + j) = st[i + 1] + j
        BY <1>8, <2>1, <2>2, <2>3, <3>1
      <3>3. At(su[i] + j)' = At(n + (su[i] + j))
        BY <1>8, <3>2
      <3> QED BY <2>1, <3>1, <3>2, <3>3
    <2> QED BY <2>4, <2>5
  <1>19. Ends(su[N])'
    <2>1. PICK e \in Nat, d \in Nat : e = st[N + 1] /\ e >= n /\ d = e - n /\ su[N] = d
      <3>1. N \in 1 .. N
        BY <1>10
      <3> QED BY <1>14, <3>1
    <2>2. Total' = T - n
      BY <1>8, <1>10
    <2> HIDE DEF su
    <2>3. Ends(e)
      BY <1>2, <1>9, <1>10, <2>1, ChainParts
    <2>4. CASE Total > e
      <3>1. PICK m \in Msg : /\ Total - e < Size[m] /\ (is_using => m = msg /\ done = Total - e)
                            /\ \A p \in 1 .. Total - e : At(e + p) = <<m, p>>
        BY <2>3, <2>4 DEF Ends
      <3>2. Total' - d = Total - e /\ Total' > d
        BY <1>10, <2>1, <2>2, <2>4
      <3>3. ASSUME NEW p \in 1 .. Total - e PROVE At(d + p)' = <<m, p>>
        <4>0. p \in 1 .. T - e /\ T = W + H
          BY <1>8, <1>10
        <4>1. d + p \in 1 .. W + H - n /\ n + (d + p) = e + p
          BY <2>1, <4>0
        <4>2. At(d + p)' = At(n + (d + p))
          BY <1>8, <4>1
        <4> QED BY <3>1, <4>1, <4>2
      <3>4. \A p \in 1 .. Total' - d : At(d + p)' = <<m, p>>
        BY <3>2, <3>3
      <3> QED BY <1>1, <2>1, <3>1, <3>2, <3>4 DEF Ends
    <2>5. CASE Total = e /\ (is_using => done = 0)
      BY <1>1, <1>10, <2>1, <2>2, <2>5 DEF Ends
    <2> QED BY <2>3, <2>4, <2>5 DEF Ends
  <1>20. Chain(su)'
    <2> HIDE DEF su
    <2> QED BY <1>15, <1>16, <1>17, <1>18, <1>19 DEF Chain
  <1>21. StreamInv'
    BY <1>20 DEF StreamInv
  <1>22. CallInv'
    BY <1>1 DEF IInv, CallInv, AlwaysFits
  <1> QED BY <1>7, <1>21, <1>22 DEF IInv

\* A new connection finds nothing of the one before it.
LEMMA AcceptKeeps ==
    ASSUME IInv, Accept PROVE IInv'
  <1>1. /\ ~is_using /\ is_using' = TRUE /\ sb' = Reset(sb) /\ wire' = <<>> /\ waiting' = <<>>
        /\ conns < MaxConns /\ conns' = conns + 1 /\ UNCHANGED <<pc, msg, done, status>>
    BY DEF Accept, call
  <1>2. /\ SendTypes /\ sb' \in [mem : Memory, head : Nat, tail : Nat] /\ sb'.head = 0 /\ sb'.tail = 0
        /\ BufSize \in Nat /\ Kernel \in Nat /\ MaxConns \in Nat
    BY <1>1, ResetBuffer, AtType, ByteFacts DEF IInv
  <1>3. pc = "idle" /\ msg = None /\ done = 0 /\ status # "overflow"
    BY <1>1, <1>2 DEF IInv, CallInv, AlwaysFits
  <1>4. SendTypes'
    <2>1. conns' \in 0 .. MaxConns
      BY <1>1, <1>2 DEF SendTypes, TypeOK
    <2>2. wire' \in Seq(Byte) /\ waiting' \in Seq(Msg) /\ Len(wire') <= Kernel
      BY <1>1, <1>2
    <2>3. /\ is_using' \in BOOLEAN /\ pc' \in {"idle", "flush", "data"} /\ msg' \in Msg \cup {None}
          /\ status' \in {"success", "not_finish", "error", "overflow"}
      BY <1>1, <1>2 DEF SendTypes, TypeOK
    <2>4. sb'.head <= sb'.tail /\ sb'.tail <= BufSize
      BY <1>2
    <2> QED BY <1>2, <2>1, <2>2, <2>3, <2>4, TypesKept
  <1> DEFINE st == [i \in 1 .. 1 |-> 0]
  <1>5. Total' = 0 /\ Len(waiting') = 0
    BY <1>1, <1>2 DEF Total
  <1>6. Chain(st)'
    BY <1>1, <1>3, <1>5 DEF Chain, Ends
  <1>7. StreamInv'
    BY <1>6 DEF StreamInv
  <1>8. CallInv'
    BY <1>1, <1>3 DEF CallInv, AlwaysFits
  <1> QED BY <1>4, <1>7, <1>8 DEF IInv

-----------------------------------------------------------------------------
(* The sending half. *)

\* Every step keeps the invariant.
LEMMA NextKeeps ==
    ASSUME IInv, [Next]_vars PROVE IInv'
  <1>1. CASE UNCHANGED vars
    BY <1>1, Untouched DEF vars, socket, call, IInv, CallInv, SendTypes, TypeOK, AlwaysFits
  <1> QED BY <1>1, AcceptKeeps, SendDataKeeps, FlushSendKeeps, DataSendKeeps, FlushAgainKeeps,
             FlushDoneKeeps, DataAgainKeeps, SendFailsKeeps, DisconnectKeeps, PeerReadsKeeps
          DEF Next, Calls, Loops

\* The invariant holds initially and is kept by every step.
THEOREM Invariant ==
    ASSUME TcpSendAssumption PROVE Spec => []IInv
  <1>1. Init => IInv
    <2> SUFFICES ASSUME Init PROVE IInv
      OBVIOUS
    <2>1. /\ sb = [mem |-> [i \in 0 .. BufSize - 1 |-> Junk], head |-> 0, tail |-> 0]
          /\ BufSize \in Nat /\ Kernel \in Nat /\ MaxConns \in Nat /\ Junk \in Byte
      BY ByteFacts DEF Init
    <2>2. sb \in [mem : Memory, head : Nat, tail : Nat] /\ sb.head = 0 /\ sb.tail = 0
          /\ DOMAIN sb.mem = 0 .. BufSize - 1
      BY <2>1 DEF Memory
    <2>3. /\ wire = <<>> /\ waiting = <<>> /\ wire \in Seq(Byte) /\ waiting \in Seq(Msg)
          /\ Len(wire) = 0 /\ Len(waiting) = 0
      BY DEF Init
    <2>4. /\ is_using = FALSE /\ pc = "idle" /\ msg = None /\ done = 0 /\ status = "success"
          /\ conns = 0
      BY DEF Init
    <2>5. TypeOK
      <3>1. conns \in 0 .. MaxConns /\ 0 \in 0 .. 0 /\ 0 \in 0 .. BufSize /\ Len(wire) <= Kernel
        BY <2>1, <2>3, <2>4
      <3> QED BY <2>2, <2>3, <2>4, <3>1 DEF TypeOK
    <2>6. SendTypes
      BY <2>1, <2>2, <2>3, <2>5 DEF SendTypes
    <2> DEFINE st == [i \in 1 .. 1 |-> 0]
    <2>7. Total = 0
      BY <2>2, <2>3 DEF Total
    <2>8. Chain(st)
      BY <2>3, <2>4, <2>7 DEF Chain, Ends
    <2>9. StreamInv
      BY <2>8 DEF StreamInv
    <2> QED BY <2>4, <2>6, <2>9 DEF IInv, CallInv, AlwaysFits
  <1>2. IInv /\ [Next]_vars => IInv'
    BY NextKeeps
  <1> QED BY <1>1, <1>2, PTL DEF Spec

\* Every variable has its type, and the head and the tail stay in the buffer.
THEOREM TypeCorrect ==
    ASSUME TcpSendAssumption PROVE Spec => []TypeOK
  <1>1. IInv => TypeOK
    BY DEF IInv, SendTypes
  <1> QED BY <1>1, Invariant, PTL

\* What SendData has to buffer of a message always fits, so it never drops a
\* client of whose message a part is written.
THEOREM RestAlwaysFits ==
    ASSUME TcpSendAssumption PROVE Spec => []AlwaysFits
  <1>1. IInv => AlwaysFits
    BY DEF IInv, CallInv
  <1> QED BY <1>1, Invariant, PTL

\* A message is lost only while an earlier one waits for the kernel; it is lost
\* whole, and the buffer keeps what it holds.
THEOREM LostOnlyIfFull ==
    ASSUME TcpSendAssumption PROVE Spec => LostOnlyWhenFull
  <1> DEFINE P == status' = "not_finish" /\ msg # None /\ pc' = "idle" =>
                    /\ Held(sb') # <<>> /\ Len(Held(sb')) + Size[msg] > BufSize
                    /\ wire' = wire /\ Held(sb') = Held(sb)
  <1>1. IInv /\ [Next]_vars => [P]_vars
    <2> SUFFICES ASSUME IInv, Next, status' = "not_finish", msg # None, pc' = "idle"
                 PROVE  /\ Held(sb') # <<>> /\ Len(Held(sb')) + Size[msg] > BufSize
                        /\ wire' = wire /\ Held(sb') = Held(sb)
      OBVIOUS
    <2>1. SendTypes /\ pc # "idle"
      BY DEF IInv, CallInv
    <2>2. FlushAgain
      <3>1. pc = "data" => msg \in Msg /\ SendTypes
        BY DEF IInv, CallInv
      <3>2. ~DataAgain
        <4> SUFFICES ASSUME DataAgain PROVE FALSE
          OBVIOUS
        <4> QED BY DEF DataAgain, Accepted, Return
      <3> QED BY <2>1, <3>2 DEF Next, Calls, Loops, SendData, FlushSend, FlushDone, DataSend,
                 Accepted, Return, SendFails, Accept, Disconnect, PeerReads, call
    <2>3. PICK b : b = MovedAhead(sb)
      OBVIOUS
    <2>4. ~Fits(b, Bytes(msg)) /\ sb' = b /\ wire' = wire /\ sb.tail > sb.head /\ msg \in Msg
      BY <2>1, <2>2, <2>3 DEF FlushAgain, Accepted, Return, IInv, CallInv
    <2>5. PICK h \in Nat, H \in Nat : h = sb.head /\ H = sb.tail - sb.head /\ H > 0
      BY <2>1, <2>4, AtType
    <2>6. /\ b.head = 0 /\ b.tail = H
          /\ \A p \in 1 .. H : b.mem[b.head + p - 1] = sb.mem[h + p - 1]
      BY <2>1, <2>3, <2>5, MoveAhead DEF Same
    <2>7. Held(sb') = [j \in 1 .. H |-> b.mem[b.head + j - 1]]
      <3>1. b.tail - b.head = H
        BY <2>6
      <3> QED BY <2>4, <3>1 DEF Held
    <2>8. Held(sb) = [j \in 1 .. H |-> sb.mem[h + j - 1]]
      BY <2>5 DEF Held
    <2>9. Held(sb') = Held(sb)
      BY <2>6, <2>7, <2>8
    <2>10. Len(Held(sb)) = H /\ Held(sb) # <<>>
      BY <2>5, <2>8
    <2>11. H + Size[msg] > BufSize
      <3>1. BufSize \in Nat /\ Size[msg] \in Nat /\ Len(Bytes(msg)) = Size[msg]
        BY <2>1, <2>4, AtType, ByteFacts
      <3> QED BY <2>4, <2>6, <3>1 DEF Fits
    <2> QED BY <2>4, <2>9, <2>10, <2>11
  <1> QED BY <1>1, Invariant, PTL DEF Spec, LostOnlyWhenFull

\* Two messages have different bytes.
LEMMA BytesInjective ==
    ASSUME TcpSendAssumption, NEW m \in Msg, NEW n \in Msg, Bytes(m) = Bytes(n) PROVE m = n
  <1>1. 1 \in 1 .. Size[m] /\ 1 \in 1 .. Size[n]
    BY ByteFacts
  <1>2. Bytes(m)[1] = <<m, 1>> /\ Bytes(n)[1] = <<n, 1>>
    BY <1>1, ByteFacts
  <1> QED BY <1>2

\* The message that the client read last, as ImplementsStream sees it
Shown == IF \E m \in Msg : read = Bytes(m)
         THEN CHOOSE m \in Msg : read = Bytes(m) ELSE None

\* The client gets the messages accepted whole, once and in order, and nothing
\* of an earlier connection.
THEOREM SendImplementsStream ==
    ASSUME TcpSendAssumption PROVE Spec => ImplementsStream
  <1>1. Init => Stream!Init
    <2> SUFFICES ASSUME Init PROVE Stream!Init
      OBVIOUS
    <2>1. \A m \in Msg : Len(Bytes(m)) # 0
      BY ByteFacts
    <2>2. \A m \in Msg : read # Bytes(m)
      BY <2>1 DEF Init
    <2> QED BY <2>2 DEF Init, Stream!Init
  <1>2. IInv /\ [Next]_vars => [Stream!Next]_(Stream!vars)
    <2> SUFFICES ASSUME IInv, [Next]_vars
                 PROVE  [Stream!Next]_<<waiting, Shown, is_using>>
      BY DEF Stream!vars, Shown
    <2>1. CASE UNCHANGED <<waiting, read, is_using>>
      BY <2>1 DEF Shown
    <2>2. CASE Accept
      BY <2>2 DEF Accept, call, Shown, Stream!Next, Stream!Open
    <2>3. ASSUME msg \in Msg, is_using, waiting' = Append(waiting, msg), UNCHANGED <<read, is_using>>
          PROVE  Stream!Next
      BY <2>3 DEF Shown, Stream!Next, Stream!Put
    <2>4. CASE SendFails \/ Disconnect
      <3>1. is_using /\ is_using' = FALSE /\ UNCHANGED <<waiting, read>>
        BY <2>4 DEF SendFails, Disconnect, IInv, CallInv
      <3> QED BY <3>1 DEF Shown, Stream!Next, Stream!Close
    <2>5. CASE PeerReads
      <3>1. /\ wire # <<>> /\ wire[1][2] = 1 /\ Size[wire[1][1]] <= Len(wire)
            /\ read' = SubSeq(wire, 1, Size[wire[1][1]]) /\ UNCHANGED is_using
        BY <2>5 DEF PeerReads, socket
      <3>2. /\ waiting # <<>> /\ waiting[1] \in Msg
            /\ read' = Bytes(waiting[1])
        BY <3>1, FirstWhole
      <3>3. waiting' = Tail(waiting) /\ Head(waiting) = waiting[1]
        BY <2>5, <3>2 DEF PeerReads, IInv, SendTypes
      <3>4. (CHOOSE m \in Msg : read' = Bytes(m)) = waiting[1]
        BY <3>2, BytesInjective
      <3>5. Shown' = Head(waiting)
        BY <3>2, <3>3, <3>4 DEF Shown
      <3> QED BY <3>1, <3>2, <3>3, <3>5 DEF Shown, Stream!Next, Stream!Take
    <2>6. CASE FlushAgain \/ (\E k \in 1 .. Kernel : DataSend(k))
      <3>1. msg \in Msg /\ is_using
        BY <2>6 DEF FlushAgain, DataSend, IInv, CallInv
      <3>2. UNCHANGED <<read, is_using>> /\ (waiting' = waiting \/ waiting' = Append(waiting, msg))
        BY <2>6 DEF FlushAgain, DataSend, Accepted, Return, socket
      <3> QED BY <2>1, <2>3, <3>1, <3>2
    <2>7. CASE DataAgain
      <3>1. msg \in Msg /\ is_using
        BY <2>7 DEF DataAgain, IInv, CallInv
      <3>2. \/ UNCHANGED <<read, is_using>> /\ waiting' = Append(waiting, msg)
            \/ is_using' = FALSE /\ UNCHANGED <<read, waiting>>
        BY <2>7 DEF DataAgain, Accepted, Return
      <3>3. ASSUME is_using' = FALSE, UNCHANGED <<read, waiting>> PROVE Stream!Next
        BY <3>1, <3>3 DEF Shown, Stream!Next, Stream!Close
      <3> QED BY <2>3, <3>1, <3>2, <3>3
    <2>8. CASE Calls \/ FlushDone \/ (\E k \in 1 .. Kernel : FlushSend(k)) \/ UNCHANGED vars
      <3>1. UNCHANGED <<waiting, read, is_using>>
        BY <2>8 DEF Calls, SendData, FlushDone, FlushSend, vars, socket
      <3> QED BY <2>1, <3>1
    <2> QED BY <2>2, <2>4, <2>5, <2>6, <2>7, <2>8 DEF Next, Loops
  <1> QED BY <1>1, <1>2, Invariant, PTL DEF Spec, ImplementsStream, Stream!Spec
=============================================================================
