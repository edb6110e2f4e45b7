------------------------------ MODULE SynProofs ------------------------------
(***************************************************************************)
(* The frames of one room, for every number of players, every size of the  *)
(* ring and of its slots, and every game.  IInv holds for all values of    *)
(* the constants: what the slots hold and what went out are the messages   *)
(* that were added, each in one place (Once), and the frames go out in     *)
(* order (Framed).  Timed says how far the clock, the last call of Run and *)
(* the head frame can be apart, and when the ring is larger than that      *)
(* distance (RingFits), every message is in the slot of the frame it is    *)
(* due with (InSlot).                                                      *)
(***************************************************************************)
EXTENDS MC_SynLine, FiniteSetTheorems, SequenceTheorems, TLAPS

\* The ring is larger than the distance the clock and the numbers of the
\* clients can be ahead of the head frame.  With the sizes of the code (64
\* slots, delay and advance of 3 frames) it is for calls of Run up to 30 frames,
\* 600 ms, apart.
RingFits ==
    /\ AllowedDelay + MaxStall + AllowedAhead < BufferSize
    /\ AllowedDelay + 2 * MaxStall < BufferSize

\* The parts of a run of the main loop and of the life of a room fit.
Shape ==
    /\ head_frame >= 1
    /\ phase # "ingame" => run = "idle"
    /\ run # "loop" => i = 0
    /\ i <= Len(ring[head])
    /\ phase = "fresh" => game = 0
    /\ phase = "lobby" => game < MaxGame

\* The numbers of the frames that went out; those of the frame that is being
\* sent appear in SendHeadFrameToAll only, with its first message or its mark.
Framed ==
    phase = "ingame" =>
        /\ \A j \in DOMAIN sent : sent[j].frame \in 1 .. head_frame
        /\ run # "loop" => \A j \in DOMAIN sent : sent[j].frame < head_frame
        /\ \A j, k \in DOMAIN sent : j <= k => sent[j].frame <= sent[k].frame
        /\ \A f \in 1 .. head_frame - 1 : \E j \in DOMAIN sent : sent[j].frame = f
        /\ run = "loop" /\ (i > 0 \/ ring[head] = <<>>)
               => \E j \in DOMAIN sent : sent[j].frame = head_frame

\* The place j of the slot k holds a message that has not gone out.
Held(k, j) == k \in Slot /\ j \in DOMAIN ring[k] /\ (k = head => j > i)

\* What is held was added, and no message is held twice.
HeldOnce ==
    /\ \A k, j : Held(k, j) => ring[k][j] \in added
    /\ \A k, j, l, n : Held(k, j) /\ Held(l, n) /\ ring[k][j] = ring[l][n] => k = l /\ j = n

\* What went out was added, went out once, and is not held any more.
OutOnce ==
    /\ \A s \in DOMAIN sent : sent[s].mess = Mark \/ sent[s].mess \in added
    /\ \A s, t \in DOMAIN sent : sent[s].mess \in added /\ sent[s].mess = sent[t].mess => s = t
    /\ \A s \in DOMAIN sent : \A k, j : Held(k, j) => sent[s].mess # ring[k][j]

\* No message that was added is lost.
NoneLost ==
    \A m \in added : \/ \E k, j : Held(k, j) /\ ring[k][j] = m
                     \/ \E s \in DOMAIN sent : sent[s].mess = m

\* A message that was added is not one that may still be added.
Old(m) == /\ m.game = game
          /\ m.kind = "exit" => m.from \notin online
          /\ m.kind # "exit" => m.n < count

\* Every message of the game is in one place.
Once ==
    phase = "ingame" => HeldOnce /\ OutOnce /\ NoneLost /\ \A m \in added : Old(m)

IInv == TypeOK /\ Shape /\ Framed /\ Once

\* How far the clock, Run and the head frame are apart.
Timed ==
    /\ 1 <= clock /\ clock <= MaxFrame
    /\ head_frame = 1 \/ head_frame + AllowedDelay <= clock
    /\ head_frame = 1 => head = 0
    /\ phase = "ingame" =>
         /\ ran <= now_frame /\ now_frame <= clock /\ clock <= ran + MaxStall
         /\ run = "idle" => ran <= head_frame + AllowedDelay
         /\ run # "idle" => /\ ran <= head_frame + AllowedDelay + MaxStall
                            /\ head_frame + AllowedDelay + 1 <= now_frame

\* The slot of the frame that is d frames after the head frame
SlotOf(h, d) == (h + d) % BufferSize

\* Every slot holds the messages that are due with its frame.
HeldInSlot ==
    \A d \in Slot : \A j \in DOMAIN ring[SlotOf(head, d)] :
        ring[SlotOf(head, d)][j].due = head_frame + d

\* In a game, every message is in the slot of the frame it is due with, or went
\* out with that frame.
InSlot == (phase = "ingame" => HeldInSlot) /\ OwnFrame

-----------------------------------------------------------------------------
(* The messages.  Every handler that adds one takes a step Says(m). *)

\* The message m is put at the end of the slot k.
StoredAt(k, m) ==
    /\ k \in Slot /\ Len(ring[k]) < OneFrameSize
    /\ ring' = [ring EXCEPT ![k] = Append(ring[k], m)]
    /\ added' = added \cup {m}

Taken(m) == UNCHANGED <<ring, added>> \/ \E k \in Slot : StoredAt(k, m)

\* A message that was not added before is put into a slot, or nowhere.
Says(m) ==
    /\ m \in Mess /\ ~Old(m) /\ Old(m)'
    /\ Taken(m)
    /\ run = "loop" => i > 0 \/ ring[head] = <<>>
    /\ now_frame' \in {now_frame, clock}
    /\ online' \subseteq online /\ count' \in count .. MaxMess
    /\ cframe' \in [Player -> Int] /\ wild' \in BOOLEAN
    /\ UNCHANGED <<head, head_frame, clock, phase, run, i, game, ran, sent>>

\* m_oneframe[k].Add(m) puts m into one slot at most.
LEMMA StoreTakes ==
    ASSUME TypeOK, NEW k, NEW m, Store(k, m)
    PROVE  UNCHANGED <<ring, added>> \/ StoredAt(k, m)
  <1>1. CASE k \notin Slot
    BY <1>1 DEF Store
  <1>2. CASE k \in Slot /\ Len(ring[k]) < OneFrameSize
    <2>1. OneFrameAdd(ring[k], m) = Append(ring[k], m)
      BY <1>2, SynAssumption DEF OneFrameAdd, TypeOK
    <2> QED BY <1>2, <2>1 DEF Store, StoredAt
  <1>3. CASE k \in Slot /\ ~(Len(ring[k]) < OneFrameSize)
    <2>1. OneFrameAdd(ring[k], m) = ring[k]
      BY <1>3, SynAssumption DEF OneFrameAdd, TypeOK
    <2> QED BY <1>3, <2>1 DEF Store, TypeOK
  <1> QED BY <1>1, <1>2, <1>3

\* So do SYN::Add, and SYN::Add before SYN::Init.
LEMMA AddTakes ==
    ASSUME TypeOK, NEW m, NEW f, Add(m, f) \/ AddUninitialised(m)
    PROVE  Taken(m) /\ wild' \in BOOLEAN /\ now_frame' \in {now_frame, clock}
  <1>1. now_frame' \in {now_frame, clock}
    BY DEF Add, AddUninitialised, UpdateTime
  <1>2. UNCHANGED <<ring, added, wild>> \/ \E k : Store(k, m)
    BY DEF Add, AddUninitialised
  <1>3. wild' \in BOOLEAN
    BY <1>2 DEF Store, TypeOK
  <1> QED BY <1>1, <1>2, <1>3, StoreTakes DEF Taken, StoredAt

\* A message of a player has the type of a message.
LEMMA MessageFacts ==
    ASSUME TypeOK, NEW p \in Player, NEW k \in {"op", "role", "exit"}, NEW f \in Int
    PROVE  /\ Message(p, k, f) \in Mess
           /\ Message(p, k, f).from = p /\ Message(p, k, f).kind = k
           /\ Message(p, k, f).n = count /\ Message(p, k, f).game = game
  BY DEF TypeOK, Message, Mess

\* The handlers of the operations
LEMMA OperationSays ==
    ASSUME TypeOK, NEW p \in Player, NEW f \in Int, Operation(p, f)
    PROVE  \E m : Says(m) /\ m.n = count
  <1>1. PICK m \in Mess : m = Message(p, "op", f)
    BY MessageFacts
  <1>2. m.kind = "op" /\ m.n = count /\ m.game = game
    BY <1>1, MessageFacts
  <1>3. /\ run = "idle" /\ count' = count + 1 /\ count < MaxMess
        /\ cframe' = [cframe EXCEPT ![p] = f]
        /\ UNCHANGED <<head, head_frame, clock, phase, run, i, online, game, ran, sent>>
        /\ Add(m, f) \/ AddUninitialised(m)
    BY <1>1 DEF Operation
  <1>4. count \in 0 .. MaxMess /\ MaxMess \in Nat /\ cframe \in [Player -> Int]
    BY SynAssumption DEF TypeOK
  <1>5. Taken(m) /\ wild' \in BOOLEAN /\ now_frame' \in {now_frame, clock}
    BY <1>3, AddTakes
  <1>6. ~Old(m) /\ Old(m)'
    <2>1. ~(m.n < count) /\ m.n < count' /\ game' = game
      BY <1>2, <1>3, <1>4
    <2> QED BY <1>2, <2>1 DEF Old
  <1>7. count' \in count .. MaxMess /\ cframe' \in [Player -> Int] /\ online' \subseteq online
    BY <1>3, <1>4
  <1> QED BY <1>2, <1>3, <1>5, <1>6, <1>7 DEF Says

\* MP_CSChoseRole
LEMMA ChoseRoleSays ==
    ASSUME TypeOK, NEW p \in Player, CSChoseRole(p)
    PROVE  \E m : Says(m) /\ m.kind # "op"
  <1>0. clock \in Int
    BY DEF TypeOK
  <1>1. PICK m \in Mess : m = Message(p, "role", clock)
    BY <1>0, MessageFacts
  <1>2. m.kind = "role" /\ m.n = count /\ m.game = game
    BY <1>0, <1>1, MessageFacts
  <1>3. /\ run = "idle" /\ count' = count + 1 /\ count < MaxMess
        /\ UNCHANGED <<head, head_frame, clock, phase, run, i, online, cframe, game, ran, sent>>
        /\ Add(m, clock) \/ AddUninitialised(m)
    BY <1>1 DEF CSChoseRole
  <1>4. count \in 0 .. MaxMess /\ MaxMess \in Nat /\ cframe \in [Player -> Int]
    BY SynAssumption DEF TypeOK
  <1>5. Taken(m) /\ wild' \in BOOLEAN /\ now_frame' \in {now_frame, clock}
    BY <1>3, AddTakes
  <1>6. ~Old(m) /\ Old(m)'
    <2>1. ~(m.n < count) /\ m.n < count' /\ game' = game
      BY <1>2, <1>3, <1>4
    <2> QED BY <1>2, <2>1 DEF Old
  <1>7. count' \in count .. MaxMess /\ cframe' \in [Player -> Int] /\ online' \subseteq online
    BY <1>3, <1>4
  <1> QED BY <1>2, <1>3, <1>5, <1>6, <1>7 DEF Says

\* Room::DeletePlayer in a game
LEMMA ExitSays ==
    ASSUME TypeOK, NEW p \in Player, ExitGame(p)
    PROVE  \E m : Says(m) /\ m.kind # "op"
  <1>0. clock \in Int
    BY DEF TypeOK
  <1>1. PICK m \in Mess : m = Message(p, "exit", clock)
    BY <1>0, MessageFacts
  <1>2. m.kind = "exit" /\ m.from = p /\ m.game = game
    BY <1>0, <1>1, MessageFacts
  <1>3. /\ p \in online /\ online' = online \ {p}
        /\ run = "idle" \/ (run = "loop" /\ (i > 0 \/ ring[head] = <<>>))
        /\ UNCHANGED <<head, head_frame, clock, phase, run, i, count, cframe, game, ran, sent>>
        /\ Add(m, clock)
    BY <1>1 DEF ExitGame
  <1>4. count \in 0 .. MaxMess /\ MaxMess \in Nat /\ cframe \in [Player -> Int]
    BY SynAssumption DEF TypeOK
  <1>5. Taken(m) /\ wild' \in BOOLEAN /\ now_frame' \in {now_frame, clock}
    BY <1>3, AddTakes
  <1>6. ~Old(m) /\ Old(m)'
    <2>1. m.from \in online /\ m.from \notin online' /\ game' = game
      BY <1>2, <1>3
    <2> QED BY <1>2, <2>1 DEF Old
  <1>7. count' \in count .. MaxMess /\ cframe' \in [Player -> Int] /\ online' \subseteq online
    BY <1>3, <1>4
  <1> QED BY <1>2, <1>3, <1>5, <1>6, <1>7 DEF Says

\* The slots after a message was stored: one place more, at the end of k.
LEMMA StoredFacts ==
    ASSUME TypeOK, NEW k, NEW m \in Mess, StoredAt(k, m)
    PROVE  /\ ring' \in [Slot -> Seq(Mess)]
           /\ \A l \in Slot : l # k => ring'[l] = ring[l]
           /\ k \in Slot /\ Len(ring[k]) \in Nat /\ Len(ring[k]) < OneFrameSize
           /\ Len(ring'[k]) = Len(ring[k]) + 1
           /\ ring'[k][Len(ring[k]) + 1] = m
           /\ \A j \in 1 .. Len(ring[k]) : ring'[k][j] = ring[k][j]
           /\ added' = added \cup {m}
  <1>1. ring \in [Slot -> Seq(Mess)] /\ k \in Slot
    BY DEF TypeOK, StoredAt
  <1>2. PICK s \in Seq(Mess) : s = ring[k]
    BY <1>1
  <1>3. /\ Append(s, m) \in Seq(Mess) /\ Len(s) \in Nat /\ Len(Append(s, m)) = Len(s) + 1
        /\ Append(s, m)[Len(s) + 1] = m
        /\ \A j \in 1 .. Len(s) : Append(s, m)[j] = s[j]
    OBVIOUS
  <1>4. ring' = [ring EXCEPT ![k] = Append(s, m)]
    BY <1>2 DEF StoredAt
  <1> QED BY <1>1, <1>2, <1>3, <1>4 DEF StoredAt

\* Says keeps the types.
LEMMA SaysType ==
    ASSUME TypeOK, NEW m, Says(m)
    PROVE  TypeOK'
  <1>1. ring' \in [Slot -> Seq(Mess)] /\ added' \subseteq Mess
        /\ \A l \in Slot : Len(ring'[l]) <= OneFrameSize
    <2>1. CASE UNCHANGED <<ring, added>>
      BY <2>1 DEF TypeOK
    <2>2. CASE \E k \in Slot : StoredAt(k, m)
      <3>1. PICK k \in Slot : StoredAt(k, m)
        BY <2>2
      <3>2. OneFrameSize \in Nat
        BY SynAssumption
      <3>3. m \in Mess /\ added \subseteq Mess /\ \A l \in Slot : Len(ring[l]) <= OneFrameSize
        BY DEF Says, TypeOK
      <3>4. /\ ring' \in [Slot -> Seq(Mess)] /\ added' = added \cup {m}
            /\ \A l \in Slot : l # k => ring'[l] = ring[l]
            /\ Len(ring[k]) \in Nat /\ Len(ring[k]) < OneFrameSize
            /\ Len(ring'[k]) = Len(ring[k]) + 1
        BY <3>1, <3>3, StoredFacts
      <3>5. Len(ring'[k]) <= OneFrameSize
        BY <3>2, <3>4
      <3> QED BY <3>3, <3>4, <3>5
    <2> QED BY <2>1, <2>2 DEF Says, Taken
  <1>2. count' \in 0 .. MaxMess
    BY SynAssumption, SMTT(40) DEF TypeOK, Says
  <1> QED BY <1>1, <1>2 DEF TypeOK, Says

\* The places that are held after a message was stored: the same, and one more.
LEMMA StoredHeld ==
    ASSUME TypeOK, Shape, NEW k, NEW m \in Mess, StoredAt(k, m), UNCHANGED <<head, i>>
    PROVE  \E n : /\ Held(k, n)' /\ ring'[k][n] = m
                  /\ \A j : Held(k, j) => j < n
                  /\ \A l, j : Held(l, j) => Held(l, j)' /\ ring'[l][j] = ring[l][j]
                  /\ \A l, j : Held(l, j)' => Held(l, j) \/ (l = k /\ j = n)
  <1>1. PICK n \in Nat : n = Len(ring[k])
    BY StoredFacts
  <1>2. /\ ring' \in [Slot -> Seq(Mess)] /\ ring \in [Slot -> Seq(Mess)]
        /\ \A l \in Slot : l # k => ring'[l] = ring[l]
        /\ k \in Slot /\ Len(ring'[k]) = n + 1 /\ ring'[k][n + 1] = m
        /\ \A j \in 1 .. n : ring'[k][j] = ring[k][j]
    BY <1>1, StoredFacts DEF TypeOK
  <1>3. DOMAIN ring[k] = 1 .. n /\ DOMAIN ring'[k] = 1 .. n + 1
    BY <1>1, <1>2
  <1>4. k = head => n + 1 > i
    BY <1>1 DEF TypeOK, Shape
  <1>5. Held(k, n + 1)'
    BY <1>2, <1>3, <1>4 DEF Held
  <1>6. ASSUME NEW l, NEW j, Held(l, j) PROVE Held(l, j)' /\ ring'[l][j] = ring[l][j]
    <2>1. l \in Slot /\ j \in DOMAIN ring[l]
      BY <1>6 DEF Held
    <2>2. CASE l = k
      <3>1. j \in 1 .. n
        BY <1>3, <2>1, <2>2
      <3>2. j \in 1 .. n + 1 /\ ring'[k][j] = ring[k][j]
        BY <1>2, <3>1
      <3> QED BY <1>3, <1>6, <2>1, <2>2, <3>2 DEF Held
    <2>3. CASE l # k
      <3>1. ring'[l] = ring[l]
        BY <1>2, <2>1, <2>3
      <3> QED BY <1>6, <2>1, <3>1 DEF Held
    <2> QED BY <2>2, <2>3
  <1>7. ASSUME NEW l, NEW j, Held(l, j)' PROVE Held(l, j) \/ (l = k /\ j = n + 1)
    BY <1>2, <1>3, <1>7 DEF Held
  <1>8. \A j : Held(k, j) => j < n + 1
    BY <1>3 DEF Held
  <1> QED BY <1>2, <1>5, <1>6, <1>7, <1>8

\* Says keeps every message in one place.
LEMMA SaysOnce ==
    ASSUME TypeOK, Shape, Once, NEW m, Says(m)
    PROVE  Once'
  <1> SUFFICES ASSUME phase = "ingame" PROVE (HeldOnce /\ OutOnce /\ NoneLost /\ \A x \in added : Old(x))'
    BY DEF Once, Says
  <1>1. HeldOnce /\ OutOnce /\ NoneLost /\ \A x \in added : Old(x)
    BY DEF Once
  <1>2. ASSUME NEW x \in added, Old(x) PROVE Old(x)'
    <2>1. online' \subseteq online /\ game' = game
      BY DEF Says
    <2>2. x.kind # "exit" => x.n < count'
      <3> SUFFICES ASSUME x.kind # "exit" PROVE x.n < count'
        OBVIOUS
      <3>1. x.n \in Int /\ x.n < count
        BY <1>2, SynAssumption DEF Old, TypeOK, Mess
      <3>2. count \in Int /\ count' \in Int /\ count <= count'
        BY SynAssumption DEF Says, TypeOK
      <3> QED BY <3>1, <3>2
    <2> QED BY <1>2, <2>1, <2>2 DEF Old
  <1>3. m \notin added /\ m \in Mess /\ Old(m)' /\ sent' = sent /\ head' = head /\ i' = i
    BY <1>1 DEF Says
  <1>4. CASE UNCHANGED <<ring, added>>
    BY <1>1, <1>2, <1>3, <1>4 DEF HeldOnce, OutOnce, NoneLost, Held
  <1>5. CASE \E k \in Slot : StoredAt(k, m)
    <2>1. PICK k \in Slot : StoredAt(k, m)
      BY <1>5
    <2>2. added' = added \cup {m}
      BY <2>1 DEF StoredAt
    <2>3. PICK n : /\ Held(k, n)' /\ ring'[k][n] = m
                   /\ \A l, j : Held(l, j) => Held(l, j)' /\ ring'[l][j] = ring[l][j]
                   /\ \A l, j : Held(l, j)' => Held(l, j) \/ (l = k /\ j = n)
      BY <1>3, <2>1, StoredHeld
    <2>4. HeldOnce'
      BY <1>1, <1>3, <2>2, <2>3 DEF HeldOnce
    <2>5. m # Mark
      BY SynAssumption, <1>3 DEF Mess, Mark
    <2>6. OutOnce'
      BY <1>1, <1>3, <2>2, <2>3, <2>5 DEF OutOnce, HeldOnce
    <2>7. NoneLost'
      BY <1>1, <1>3, <2>2, <2>3 DEF NoneLost
    <2>8. (\A x \in added : Old(x))'
      BY <1>1, <1>2, <1>3, <2>2
    <2> QED BY <2>4, <2>6, <2>7, <2>8
  <1> QED BY <1>4, <1>5 DEF Says, Taken

\* Says leaves the numbers of the frames alone.
LEMMA SaysFrames ==
    ASSUME TypeOK, Shape, Framed, NEW m, Says(m)
    PROVE  Shape' /\ Framed'
  <1>1. Len(ring[head]) <= Len(ring'[head])
    <2>1. CASE ring' = ring
      BY <2>1 DEF TypeOK
    <2>2. ASSUME NEW k \in Slot, StoredAt(k, m) PROVE Len(ring[head]) <= Len(ring'[head])
      <3>1. m \in Mess /\ head \in Slot /\ Len(ring[head]) \in Nat
        BY DEF Says, TypeOK
      <3>2. /\ k # head => ring'[head] = ring[head]
            /\ k = head => Len(ring'[head]) = Len(ring[head]) + 1
        BY <2>2, <3>1, StoredFacts
      <3> QED BY <3>1, <3>2
    <2> QED BY <2>1, <2>2 DEF Says, Taken
  <1>2. Shape'
    <2>1. Len(ring[head]) \in Nat /\ i \in Nat /\ Len(ring'[head]) \in Nat
      BY SaysType DEF TypeOK, Says
    <2>2. i <= Len(ring'[head])
      BY <1>1, <2>1 DEF Shape
    <2> QED BY <2>2 DEF Shape, Says
  <1>3. Framed'
    <2>1. UNCHANGED <<head, head_frame, phase, run, i, sent>>
      BY DEF Says
    <2>2. run = "loop" => i > 0 \/ ring[head] = <<>>
      BY DEF Says
    <2> QED BY <2>1, <2>2 DEF Framed
  <1> QED BY <1>2, <1>3

\* SYN::Add keeps the invariant.
LEMMA SaysKeeps ==
    ASSUME IInv, NEW m, Says(m)
    PROVE  IInv'
  BY SaysType, SaysOnce, SaysFrames DEF IInv

-----------------------------------------------------------------------------
(* The life of the room and the steps of Run. *)

\* Steps that leave the messages and the frames alone
LEMMA OtherKeeps ==
    ASSUME IInv, UNCHANGED <<ring, head, head_frame, i, game, count, cframe, added, sent>>,
           now_frame' \in Nat, clock' \in Nat, ran' \in Nat, wild' \in BOOLEAN,
           run' \in {"idle", "head"}, run # "loop",
           online' \subseteq Player, phase' = "ingame" => online' \subseteq online,
           \/ phase' = phase /\ phase = "ingame"
           \/ phase' = phase /\ run' = run
           \/ phase' = "lobby" /\ run' = "idle" /\ game < MaxGame
    PROVE  IInv'
  <1>1. TypeOK'
    BY DEF IInv, TypeOK
  <1>2. Shape'
    BY DEF IInv, Shape
  <1>3. Framed'
    BY DEF IInv, Framed
  <1>4. Once'
    <2> SUFFICES ASSUME phase' = "ingame" PROVE Once'
      BY DEF Once
    <2>1. phase = "ingame"
      OBVIOUS
    <2>2. HeldOnce' /\ OutOnce' /\ NoneLost'
      BY <2>1 DEF IInv, Once, HeldOnce, OutOnce, NoneLost, Held
    <2>3. \A m \in added' : Old(m)'
      BY <2>1 DEF IInv, Once, Old
    <2> QED BY <2>2, <2>3 DEF Once
  <1> QED BY <1>1, <1>2, <1>3, <1>4 DEF IInv

\* Time keeps it.
LEMMA ClockKeeps ==
    ASSUME IInv, TimePasses
    PROVE  IInv'
  <1>1. TypeOK'
    BY DEF IInv, TypeOK, TimePasses
  <1>2. Shape' /\ Framed'
    BY DEF IInv, Shape, Framed, TimePasses
  <1>3. Once'
    BY DEF IInv, Once, HeldOnce, OutOnce, NoneLost, Held, Old, TimePasses
  <1> QED BY <1>1, <1>2, <1>3 DEF IInv

\* SYN::Init makes an empty ring.
LEMMA GameStartKeeps ==
    ASSUME IInv, GameStart
    PROVE  IInv'
  <1>1. /\ ring' = [k \in Slot |-> <<>>] /\ added' = {} /\ sent' = <<>> /\ head' = 0
        /\ i' = i /\ run' = run /\ head_frame' = 1 /\ phase' = "ingame" /\ game' = game + 1
        /\ clock' = 1 /\ now_frame' = 1 /\ ran' = 1 /\ cframe' = [p \in Player |-> FirstFrame]
        /\ UNCHANGED <<online, count, wild>> /\ phase # "ingame"
    BY DEF GameStart, ClearedRing, EmptyRing
  <1>2. run = "idle" /\ i = 0 /\ game \in 0 .. MaxGame - 1
    BY <1>1, SynAssumption DEF IInv, Shape, TypeOK
  <1>3. 0 \in Slot /\ FirstFrame \in Int
    BY SynAssumption DEF Slot
  <1>4. TypeOK'
    <2>1. ring' \in [Slot -> Seq(Mess)] /\ \A k \in Slot : Len(ring'[k]) <= OneFrameSize
      BY <1>1, SynAssumption
    <2>2. game' \in 0 .. MaxGame
      BY <1>1, <1>2, SynAssumption
    <2>3. sent' \in Seq([frame : Nat, mess : Mess \cup {Mark}])
      BY <1>1
    <2>4. cframe' \in [Player -> Int]
      BY <1>1, <1>3
    <2> QED BY <1>1, <1>2, <1>3, <2>1, <2>2, <2>3, <2>4 DEF TypeOK, IInv
  <1>5. Shape'
    BY <1>1, <1>2, <1>3 DEF Shape
  <1>6. DOMAIN sent' = {} /\ \A k \in Slot : DOMAIN ring'[k] = {}
    BY <1>1
  <1>7. Framed'
    BY <1>1, <1>2, <1>6 DEF Framed
  <1>8. Once'
    BY <1>1, <1>6 DEF Once, HeldOnce, OutOnce, NoneLost, Held
  <1> QED BY <1>4, <1>5, <1>7, <1>8 DEF IInv

\* What went out after one broadcast more
LEMMA SentFacts ==
    ASSUME TypeOK, NEW x \in Mess \cup {Mark},
           sent' = Append(sent, [frame |-> head_frame, mess |-> x])
    PROVE  \E n \in Nat :
              /\ DOMAIN sent = 1 .. n /\ DOMAIN sent' = 1 .. n + 1
              /\ \A j \in 1 .. n : sent'[j] = sent[j] /\ sent[j].frame \in Nat
              /\ sent'[n + 1].frame = head_frame /\ sent'[n + 1].mess = x
              /\ sent' \in Seq([frame : Nat, mess : Mess \cup {Mark}])
  <1> DEFINE E == [frame : Nat, mess : Mess \cup {Mark}]
             e == [frame |-> head_frame, mess |-> x]
  <1>1. e \in E /\ sent \in Seq(E)
    BY DEF TypeOK
  <1>2. e.frame = head_frame /\ e.mess = x /\ \A y \in E : y.frame \in Nat
    OBVIOUS
  <1>3. sent' = Append(sent, e)
    OBVIOUS
  <1> HIDE DEF E, e
  <1>4. PICK n \in Nat : n = Len(sent)
    BY <1>1
  <1>5. /\ DOMAIN sent = 1 .. n /\ DOMAIN sent' = 1 .. n + 1 /\ sent'[n + 1] = e
        /\ \A j \in 1 .. n : sent'[j] = sent[j] /\ sent[j] \in E
        /\ sent' \in Seq(E)
    BY <1>1, <1>3, <1>4
  <1> QED BY <1>2, <1>5 DEF E

\* One broadcast more with the number of the head frame keeps the order.
LEMMA SentFramed ==
    ASSUME TypeOK, Shape, Framed, NEW x \in Mess \cup {Mark},
           sent' = Append(sent, [frame |-> head_frame, mess |-> x]),
           UNCHANGED <<head_frame, phase>>, run' = "loop"
    PROVE  Framed'
  <1> SUFFICES ASSUME phase = "ingame" PROVE Framed'
    BY DEF Framed
  <1>1. PICK n \in Nat :
              /\ DOMAIN sent = 1 .. n /\ DOMAIN sent' = 1 .. n + 1
              /\ \A j \in 1 .. n : sent'[j] = sent[j] /\ sent[j].frame \in Nat
              /\ sent'[n + 1].frame = head_frame
    BY SentFacts
  <1>2. n + 1 \in 1 .. n + 1 /\ \A j \in 1 .. n + 1 : j \in 1 .. n \/ j = n + 1
    OBVIOUS
  <1>3. head_frame \in Nat /\ head_frame >= 1
    BY DEF TypeOK, Shape
  <1>4. \A j \in 1 .. n : sent[j].frame \in 1 .. head_frame
    BY <1>1 DEF Framed
  <1>5. \A j \in DOMAIN sent' : sent'[j].frame \in 1 .. head_frame
    BY <1>1, <1>2, <1>3, <1>4
  <1>6. \A j, k \in DOMAIN sent' : j <= k => sent'[j].frame <= sent'[k].frame
    <2> SUFFICES ASSUME NEW j \in 1 .. n + 1, NEW k \in 1 .. n + 1, j <= k
                 PROVE  sent'[j].frame <= sent'[k].frame
      BY <1>1
    <2>1. CASE k = n + 1
      BY <1>1, <1>3, <1>5, <2>1
    <2>2. CASE k \in 1 .. n
      <3>1. j \in 1 .. n
        BY <2>2
      <3>2. sent[j].frame <= sent[k].frame
        BY <1>1, <2>2, <3>1 DEF Framed
      <3> QED BY <1>1, <2>2, <3>1, <3>2
    <2> QED BY <1>2, <2>1, <2>2
  <1>7. \A f \in 1 .. head_frame - 1 : \E j \in DOMAIN sent' : sent'[j].frame = f
    BY <1>1, <1>2 DEF Framed
  <1>8. \E j \in DOMAIN sent' : sent'[j].frame = head_frame
    BY <1>1, <1>2
  <1> QED BY <1>5, <1>6, <1>7, <1>8 DEF Framed

\* SYN::SendHeadFrameToAll before its loop: only a mark can go out.
LEMMA SendEmptyFrameKeeps ==
    ASSUME IInv, SendEmptyFrame
    PROVE  IInv'
  <1>0. /\ run = "head" /\ run' = "loop" /\ i' = 0 /\ i = 0 /\ phase = "ingame"
        /\ UNCHANGED <<ring, head, head_frame, now_frame, clock, phase, online, count,
                       cframe, game, ran, added, wild>>
    BY DEF SendEmptyFrame, IInv, Shape
  <1>1. Held(0, 0) = Held(0, 0) /\ \A k, j : Held(k, j)' <=> Held(k, j)
    BY <1>0 DEF Held
  <1>2. CASE ring[head] # <<>>
    <2>1. sent' = sent
      BY <1>2 DEF SendEmptyFrame, EmptyFrameSent
    <2>2. TypeOK'
      BY <1>0, <2>1 DEF IInv, TypeOK
    <2>3. Shape'
      BY <1>0 DEF IInv, Shape
    <2>4. Framed'
      BY <1>0, <1>2, <2>1 DEF IInv, Framed
    <2>5. Once'
      BY <1>0, <2>1 DEF IInv, Once, HeldOnce, OutOnce, NoneLost, Held, Old
    <2> QED BY <2>2, <2>3, <2>4, <2>5 DEF IInv
  <1>3. CASE ring[head] = <<>>
    <2>1. sent' = Append(sent, [frame |-> head_frame, mess |-> Mark])
      BY <1>3 DEF SendEmptyFrame, EmptyFrameSent
    <2>2. PICK n \in Nat :
              /\ DOMAIN sent = 1 .. n /\ DOMAIN sent' = 1 .. n + 1
              /\ \A j \in 1 .. n : sent'[j] = sent[j] /\ sent[j].frame \in Nat
              /\ sent'[n + 1].frame = head_frame /\ sent'[n + 1].mess = Mark
              /\ sent' \in Seq([frame : Nat, mess : Mess \cup {Mark}])
      <3>1. TypeOK /\ Mark \in Mess \cup {Mark}
        BY DEF IInv
      <3> QED BY <2>1, <3>1, SentFacts
    <2>3. TypeOK'
      BY <1>0, <2>2 DEF IInv, TypeOK
    <2>4. Shape'
      BY <1>0 DEF IInv, Shape
    <2>5. Framed'
      BY <1>0, <2>1, SentFramed DEF IInv
    <2>6. Mark \notin added
      BY SynAssumption DEF IInv, TypeOK, Mess, Mark
    <2>7. \A j \in 1 .. n + 1 : j \in 1 .. n \/ j = n + 1
      OBVIOUS
    <2>8. HeldOnce' /\ NoneLost' /\ \A m \in added' : Old(m)'
      <3>1. HeldOnce' /\ \A m \in added' : Old(m)'
        BY <1>0, <1>1 DEF IInv, Once, HeldOnce, Old
      <3>2. \A j \in DOMAIN sent : j \in DOMAIN sent' /\ sent'[j] = sent[j]
        BY <2>2
      <3> QED BY <1>0, <1>1, <3>1, <3>2 DEF IInv, Once, NoneLost
    <2>9. OutOnce'
      <3>1. \A k, j : Held(k, j) => ring[k][j] # Mark
        BY <1>0, <2>6 DEF IInv, Once, HeldOnce
      <3> QED BY <1>0, <1>1, <2>2, <2>6, <2>7, <3>1, SMTT(40) DEF IInv, Once, OutOnce
    <2> QED BY <1>0, <2>3, <2>4, <2>5, <2>8, <2>9 DEF IInv, Once
  <1> QED BY <1>2, <1>3

\* One iteration of the loop: a message that was held goes out.
LEMMA SendOneKeeps ==
    ASSUME IInv, SendOne
    PROVE  IInv'
  <1>0. /\ run = "loop" /\ i < Len(ring[head]) /\ i' = i + 1 /\ phase = "ingame"
        /\ UNCHANGED <<ring, head, head_frame, now_frame, clock, phase, run, online,
                       count, cframe, game, ran, added, wild>>
    BY DEF SendOne, IInv, Shape
  <1>1. /\ head \in Slot /\ i \in Nat /\ ring[head] \in Seq(Mess) /\ Len(ring[head]) \in Nat
        /\ ring \in [Slot -> Seq(Mess)]
    BY DEF IInv, TypeOK
  <1>2. PICK x \in Mess : x = ring[head][i + 1]
    BY <1>0, <1>1
  <1>3. Held(head, i + 1) /\ x \in added
    BY <1>0, <1>1, <1>2 DEF Held, IInv, Once, HeldOnce
  <1>4. sent' = Append(sent, [frame |-> head_frame, mess |-> x])
    BY <1>2 DEF SendOne
  <1>5. PICK n \in Nat :
            /\ DOMAIN sent = 1 .. n /\ DOMAIN sent' = 1 .. n + 1
            /\ \A j \in 1 .. n : sent'[j] = sent[j] /\ sent[j].frame \in Nat
            /\ sent'[n + 1].frame = head_frame /\ sent'[n + 1].mess = x
            /\ sent' \in Seq([frame : Nat, mess : Mess \cup {Mark}])
    <2>1. TypeOK /\ x \in Mess \cup {Mark}
      BY DEF IInv
    <2> QED BY <1>4, <2>1, SentFacts
  <1>6. TypeOK'
    BY <1>0, <1>1, <1>5 DEF IInv, TypeOK
  <1>7. Shape'
    BY <1>0, <1>1 DEF IInv, Shape
  <1>8. Framed'
    BY <1>0, <1>4, SentFramed DEF IInv
  <1>9. \A k, j : Held(k, j)' <=> Held(k, j) /\ ~(k = head /\ j = i + 1)
    <2>1. ASSUME NEW k \in Slot, NEW j \in DOMAIN ring[k]
          PROVE  (k = head => j > i + 1) <=> (k = head => j > i) /\ ~(k = head /\ j = i + 1)
      <3>1. j \in Nat
        BY <1>1
      <3> QED BY <1>1, <3>1
    <2> QED BY <1>0, <2>1 DEF Held
  <1>10. \A j \in 1 .. n + 1 : j \in 1 .. n \/ j = n + 1
    OBVIOUS
  <1>11. HeldOnce' /\ \A m \in added' : Old(m)'
    BY <1>0, <1>9 DEF IInv, Once, HeldOnce, Old
  <1>12. HeldOnce /\ OutOnce /\ NoneLost
    BY <1>0 DEF IInv, Once
  <1>13. \A j \in DOMAIN sent : j \in DOMAIN sent' /\ sent'[j] = sent[j]
    BY <1>5
  <1>14. n + 1 \in DOMAIN sent'
    BY <1>5
  <1>15. NoneLost'
    BY <1>0, <1>2, <1>5, <1>9, <1>12, <1>13, <1>14 DEF NoneLost
  <1>16. OutOnce'
    <2>1. \A s \in 1 .. n : sent[s].mess # x
      BY <1>2, <1>3, <1>5, <1>12 DEF OutOnce
    <2>2. \A k, j : Held(k, j)' => ring[k][j] # x
      BY <1>2, <1>3, <1>9, <1>12 DEF HeldOnce
    <2>3. \A s \in DOMAIN sent' : \A k, j : Held(k, j)' => sent'[s].mess # ring'[k][j]
      BY <1>0, <1>5, <1>9, <1>10, <1>12, <2>2 DEF OutOnce
    <2>4. \A s \in DOMAIN sent' : sent'[s].mess = Mark \/ sent'[s].mess \in added'
      BY <1>0, <1>3, <1>5, <1>10, <1>12 DEF OutOnce
    <2>5. \A s, t \in DOMAIN sent' :
              sent'[s].mess \in added' /\ sent'[s].mess = sent'[t].mess => s = t
      BY <1>0, <1>5, <1>10, <1>12, <2>1 DEF OutOnce
    <2> QED BY <2>3, <2>4, <2>5 DEF OutOnce
  <1> QED BY <1>0, <1>6, <1>7, <1>8, <1>11, <1>15, <1>16 DEF IInv, Once

\* The end of SendHeadFrameToAll: the slot, from which everything went out, is
\* emptied, and the next slot is the head.
LEMMA SendDoneKeeps ==
    ASSUME IInv, SendDone
    PROVE  IInv'
  <1>0. /\ run = "loop" /\ i >= Len(ring[head]) /\ i' = 0 /\ phase = "ingame"
        /\ ring' = [ring EXCEPT ![head] = <<>>] /\ head' = (head + 1) % BufferSize
        /\ head_frame' = head_frame + 1 /\ run' \in {"idle", "head"}
        /\ UNCHANGED <<now_frame, clock, phase, online, count, cframe, game, ran,
                       added, sent, wild>>
    BY DEF SendDone, Emptied, IInv, Shape
  <1>1. /\ head \in Slot /\ i \in Nat /\ Len(ring[head]) \in Nat
        /\ ring \in [Slot -> Seq(Mess)] /\ head_frame \in Nat
    BY DEF IInv, TypeOK
  <1>2. head' \in Slot
    BY <1>0, <1>1, SynAssumption, SMTT(40) DEF Slot
  <1>3. ring' \in [Slot -> Seq(Mess)] /\ ring'[head] = <<>>
        /\ \A k \in Slot : k # head => ring'[k] = ring[k]
    BY <1>0, <1>1
  <1>4. TypeOK'
    <2>1. \A k \in Slot : Len(ring'[k]) <= OneFrameSize
      <3>1. Len(<<>>) <= OneFrameSize
        BY SynAssumption
      <3> QED BY <1>3, <3>1 DEF IInv, TypeOK
    <2> QED BY <1>0, <1>1, <1>2, <1>3, <2>1 DEF IInv, TypeOK
  <1>5. Shape'
    <2>1. Len(ring'[head']) \in Nat
      BY <1>2, <1>3
    <2> QED BY <1>0, <1>1, <2>1 DEF IInv, Shape
  <1>6. Framed'
    <2>1. i > 0 \/ ring[head] = <<>>
      BY <1>0, <1>1
    <2>2. PICK s \in DOMAIN sent : sent[s].frame = head_frame
      BY <1>0, <2>1 DEF IInv, Framed
    <2>3. \A j \in DOMAIN sent : sent[j].frame \in 1 .. head_frame
      BY <1>0 DEF IInv, Framed
    <2>4. \A j \in DOMAIN sent : sent[j].frame \in 1 .. head_frame + 1 /\ sent[j].frame < head_frame + 1
      BY <1>1, <2>3
    <2>5. ASSUME NEW f \in 1 .. head_frame + 1 - 1
          PROVE  \E j \in DOMAIN sent : sent[j].frame = f
      <3>1. f \in 1 .. head_frame - 1 \/ f = head_frame
        BY <1>1
      <3> QED BY <1>0, <2>2, <3>1 DEF IInv, Framed
    <2>6. \A j, k \in DOMAIN sent : j <= k => sent[j].frame <= sent[k].frame
      BY <1>0 DEF IInv, Framed
    <2>7. run' # "loop" /\ sent' = sent /\ head_frame' = head_frame + 1
      BY <1>0
    <2>8. \A f \in 1 .. head_frame' - 1 : \E j \in DOMAIN sent' : sent'[j].frame = f
      <3>1. head_frame' - 1 = head_frame + 1 - 1
        BY <1>1, <2>7
      <3> QED BY <2>5, <2>7, <3>1, Zenon
    <2>9. \A j \in DOMAIN sent' : sent'[j].frame \in 1 .. head_frame' /\ sent'[j].frame < head_frame'
      BY <2>4, <2>7
    <2> QED BY <2>6, <2>7, <2>8, <2>9, Zenon DEF Framed
  <1>7. \A k, j : Held(k, j)' <=> Held(k, j)
    <2>1. \A j \in DOMAIN ring[head] : ~(j > i)
      BY <1>0, <1>1
    <2>2. \A k \in Slot : \A j : j \in DOMAIN ring'[k] <=> k # head /\ j \in DOMAIN ring[k]
      BY <1>1, <1>3
    <2>3. \A k \in Slot : \A j \in DOMAIN ring[k] : j > 0
      BY <1>1
    <2> QED BY <1>0, <1>1, <2>1, <2>2, <2>3 DEF Held
  <1>8. \A k, j : Held(k, j) => ring'[k][j] = ring[k][j]
    BY <1>0, <1>1, <1>3 DEF Held
  <1>9. HeldOnce /\ OutOnce /\ NoneLost /\ \A m \in added : Old(m)
    BY <1>0 DEF IInv, Once
  <1>10. HeldOnce'
    BY <1>0, <1>7, <1>8, <1>9 DEF HeldOnce
  <1>11. OutOnce'
    BY <1>0, <1>7, <1>8, <1>9 DEF OutOnce
  <1>12. NoneLost'
    BY <1>0, <1>7, <1>8, <1>9 DEF NoneLost
  <1>13. \A m \in added' : Old(m)'
    BY <1>0, <1>9 DEF Old
  <1> QED BY <1>4, <1>5, <1>6, <1>10, <1>11, <1>12, <1>13 DEF IInv, Once

\* Every step keeps IInv.
LEMMA NextKeeps ==
    ASSUME IInv, [Next]_vars
    PROVE  IInv'
  <1>0. TypeOK /\ clock \in Nat
    BY DEF IInv, TypeOK
  <1>1. ASSUME NEW p \in Player, NEW f \in FirstFrame .. MaxFrame + AllowedAhead + 1,
               CSMove(p, f) \/ CSKill(p, f) \/ CSSkill(p, f) \/ CSGamePause(p, f)
        PROVE  IInv'
    <2>1. Operation(p, f)
      BY <1>1 DEF CSMove, CSKill, CSSkill, CSGamePause
    <2>2. f \in Int
      BY SynAssumption
    <2> QED BY <1>0, <2>1, <2>2, OperationSays, SaysKeeps
  <1>2. ASSUME NEW p \in Player, CSChoseRole(p) PROVE IInv'
    BY <1>0, <1>2, ChoseRoleSays, SaysKeeps
  <1>3. ASSUME NEW p \in Player, ExitGame(p) PROVE IInv'
    BY <1>0, <1>3, ExitSays, SaysKeeps
  <1>4. ASSUME NEW p \in Player, CSGameEnd(p) PROVE IInv'
    <2>1. /\ UNCHANGED <<ring, head, head_frame, clock, phase, run, i, count, cframe,
                         game, ran, added, sent, wild>>
          /\ now_frame' = clock /\ online' = online \ {p} /\ phase = "ingame" /\ run = "idle"
      BY <1>4 DEF CSGameEnd, UpdateTime
    <2>2. now_frame' \in Nat /\ clock' \in Nat /\ ran' \in Nat /\ wild' \in BOOLEAN
          /\ online' \subseteq Player /\ online' \subseteq online
      BY <1>0, <2>1 DEF TypeOK
    <2> QED BY <2>1, <2>2, OtherKeeps
  <1>5. CASE GameOver
    <2>1. /\ UNCHANGED <<ring, head, head_frame, now_frame, clock, run, i, count,
                         cframe, game, ran, added, sent, wild>>
          /\ phase' = "lobby" /\ online' = Player /\ run = "idle" /\ game < MaxGame
      BY <1>5 DEF GameOver
    <2>2. now_frame' \in Nat /\ clock' \in Nat /\ ran' \in Nat /\ wild' \in BOOLEAN
          /\ online' \subseteq Player
      BY <1>0, <2>1 DEF TypeOK
    <2> QED BY <2>1, <2>2, OtherKeeps
  <1>6. CASE Run
    <2>1. /\ UNCHANGED <<ring, head, head_frame, clock, phase, i, online, count, cframe,
                         game, added, sent, wild>>
          /\ now_frame' = clock /\ ran' = clock /\ phase = "ingame" /\ run = "idle"
          /\ run' \in {"idle", "head"}
      BY <1>6 DEF Run, UpdateTime
    <2>2. now_frame' \in Nat /\ clock' \in Nat /\ ran' \in Nat /\ wild' \in BOOLEAN
          /\ online' \subseteq Player /\ online' \subseteq online
      BY <1>0, <2>1 DEF TypeOK
    <2> QED BY <2>1, <2>2, OtherKeeps
  <1>7. CASE UNCHANGED vars
    <2>1. TypeOK' /\ Shape'
      BY <1>7 DEF vars, IInv, TypeOK, Shape
    <2>2. Framed' /\ Once'
      BY <1>7 DEF vars, IInv, Framed, Once, HeldOnce, OutOnce, NoneLost, Held, Old
    <2> QED BY <2>1, <2>2 DEF IInv
  <1> QED BY <1>1, <1>2, <1>3, <1>4, <1>5, <1>6, <1>7, ClockKeeps, GameStartKeeps,
             SendEmptyFrameKeeps, SendOneKeeps, SendDoneKeeps DEF Next

\* IInv holds at the start.
LEMMA InitHolds ==
    ASSUME Init
    PROVE  IInv
  <1>1. 0 \in Slot /\ FirstFrame \in Int /\ OneFrameSize \in Nat /\ MaxMess \in Nat /\ MaxGame \in Nat
    BY SynAssumption DEF Slot
  <1>2. ring = [k \in Slot |-> <<>>] /\ cframe = [p \in Player |-> FirstFrame]
    BY DEF Init, EmptyRing
  <1>3. ring \in [Slot -> Seq(Mess)] /\ (\A k \in Slot : Len(ring[k]) <= OneFrameSize)
        /\ cframe \in [Player -> Int]
    BY <1>1, <1>2
  <1>4. TypeOK
    <2>1. sent \in Seq([frame : Nat, mess : Mess \cup {Mark}]) /\ added \subseteq Mess
      BY DEF Init
    <2>2. /\ head \in Slot /\ head_frame \in Nat /\ now_frame \in Nat /\ clock \in Nat
          /\ i \in Nat /\ online \subseteq Player /\ count \in 0 .. MaxMess
          /\ game \in 0 .. MaxGame /\ ran \in Nat
          /\ phase \in {"fresh", "lobby", "ingame"} /\ run \in {"idle", "head", "loop"}
      BY <1>1 DEF Init
    <2>3. wild \in BOOLEAN
      BY DEF Init
    <2> QED BY <1>3, <2>1, <2>2, <2>3 DEF TypeOK
  <1>5. Shape
    BY <1>1, <1>2 DEF Init, Shape
  <1> QED BY <1>4, <1>5 DEF Init, IInv, Framed, Once

\* IInv is an invariant of the frames of a room.
THEOREM Invariant == Spec => []IInv
  <1> QED BY InitHolds, NextKeeps, PTL DEF Spec

\* The places of a message that is held, as Copies counts them
LEMMA UnsentFacts ==
    ASSUME TypeOK, Shape, NEW k \in Slot
    PROVE  /\ DOMAIN Unsent(k) = 1 .. Len(ring[k]) - (IF k = head THEN i ELSE 0)
           /\ \A j \in DOMAIN Unsent(k) : Unsent(k)[j] = ring[k][j + (IF k = head THEN i ELSE 0)]
           /\ Len(ring[k]) \in Nat /\ Len(ring[k]) <= OneFrameSize /\ i \in Nat
           /\ k = head => i <= Len(ring[k])
  <1>1. PICK s \in Seq(Mess) : s = ring[k]
    BY DEF TypeOK
  <1>2. Len(s) \in Nat /\ i \in Nat /\ (k = head => i <= Len(s)) /\ Len(s) <= OneFrameSize
    BY <1>1 DEF TypeOK, Shape
  <1>3. CASE k = head
    <2>1. Unsent(k) = SubSeq(s, i + 1, Len(s))
      BY <1>1, <1>3 DEF Unsent
    <2>2. DOMAIN SubSeq(s, i + 1, Len(s)) = 1 .. Len(s) - i
          /\ \A j \in 1 .. Len(s) - i : SubSeq(s, i + 1, Len(s))[j] = s[j + i]
      BY <1>2, <1>3
    <2> QED BY <1>1, <1>2, <1>3, <2>1, <2>2
  <1>4. CASE k # head
    <2>1. Unsent(k) = s
      BY <1>1, <1>4 DEF Unsent
    <2> QED BY <1>1, <1>2, <1>4, <2>1
  <1> QED BY <1>3, <1>4

\* A message that was added is in one place: held, or out.
LEMMA InOnePlace ==
    ASSUME IInv, phase = "ingame", NEW m \in added
    PROVE  Copies(m) = 1
  <1> DEFINE A == {at \in Slot \X (1 .. OneFrameSize) :
                      at[2] \in DOMAIN Unsent(at[1]) /\ Unsent(at[1])[at[2]] = m}
             B == {j \in DOMAIN sent : sent[j].mess = m}
             O(k) == IF k = head THEN i ELSE 0
  <1>1. HeldOnce /\ OutOnce /\ NoneLost /\ TypeOK /\ Shape
    BY DEF IInv, Once
  <1>2. \A k \in Slot : O(k) \in Nat /\ Len(ring[k]) \in Nat /\ O(k) <= Len(ring[k])
                        /\ Len(ring[k]) <= OneFrameSize
    BY <1>1, UnsentFacts
  <1>3. ASSUME NEW at \in A
        PROVE  Held(at[1], at[2] + O(at[1])) /\ ring[at[1]][at[2] + O(at[1])] = m
    <2>1. PICK k \in Slot, j \in 1 .. OneFrameSize : at = <<k, j>>
      OBVIOUS
    <2>2. j \in DOMAIN Unsent(k) /\ Unsent(k)[j] = m
      BY <2>1
    <2>3. j \in 1 .. Len(ring[k]) - O(k) /\ ring[k][j + O(k)] = m
      BY <1>1, <2>2, UnsentFacts
    <2>4. j + O(k) \in 1 .. Len(ring[k]) /\ (k = head => j + O(k) > i)
      BY <1>2, <2>3 
    <2>5. DOMAIN ring[k] = 1 .. Len(ring[k])
      BY <1>1 DEF TypeOK
    <2> QED BY <2>1, <2>3, <2>4, <2>5 DEF Held
  <1>4. ASSUME NEW k, NEW n, Held(k, n), ring[k][n] = m
        PROVE  <<k, n - O(k)>> \in A
    <2>1. k \in Slot /\ n \in 1 .. Len(ring[k]) /\ (k = head => n > i)
      BY <1>1, <1>4 DEF Held, TypeOK
    <2>2. n - O(k) \in 1 .. Len(ring[k]) - O(k) /\ n - O(k) + O(k) = n
          /\ n - O(k) \in 1 .. OneFrameSize
      BY <1>2, <2>1, SynAssumption, SMTT(40)
    <2>3. n - O(k) \in DOMAIN Unsent(k) /\ Unsent(k)[n - O(k)] = m
      BY <1>1, <1>4, <2>1, <2>2, UnsentFacts
    <2> QED BY <2>1, <2>2, <2>3
  <1>5. \A x, y \in A : x = y
    <2> SUFFICES ASSUME NEW x \in A, NEW y \in A PROVE x = y
      OBVIOUS
    <2>1. x[1] = y[1] /\ x[2] + O(x[1]) = y[2] + O(y[1])
      BY <1>1, <1>3 DEF HeldOnce
    <2>2. x \in Slot \X (1 .. OneFrameSize) /\ y \in Slot \X (1 .. OneFrameSize)
      OBVIOUS
    <2>3. x[2] \in Int /\ y[2] \in Int /\ O(x[1]) \in Int
      BY <1>2, <2>2
    <2>4. x[2] = y[2]
      BY <2>1, <2>3
    <2> QED BY <2>1, <2>2, <2>4
  <1>6. \A x, y \in B : x = y
    BY <1>1 DEF OutOnce
  <1>7. A = {} \/ B = {}
    BY <1>1, <1>3 DEF OutOnce
  <1>8. A # {} \/ B # {}
    BY <1>1, <1>4 DEF NoneLost
  <1>9. Copies(m) = Cardinality(A) + Cardinality(B)
    BY DEF Copies
  <1> HIDE DEF A, B, O
  <1>10. CASE A = {}
    <2>1. PICK x : B = {x}
      BY <1>6, <1>8, <1>10
    <2>2. Cardinality(A) = 0
      BY <1>10, FS_EmptySet, Zenon
    <2>3. Cardinality(B) = 1
      BY <2>1, FS_Singleton, Zenon
    <2> QED BY <1>9, <2>2, <2>3
  <1>11. CASE B = {}
    <2>1. PICK x : A = {x}
      BY <1>5, <1>8, <1>11
    <2>2. Cardinality(B) = 0
      BY <1>11, FS_EmptySet, Zenon
    <2>3. Cardinality(A) = 1
      BY <2>1, FS_Singleton, Zenon
    <2> QED BY <1>9, <2>2, <2>3
  <1> QED BY <1>7, <1>10, <1>11

\* No slot overflows, and every message that SYN::Add stored goes out once:
\* nothing that the clock, the ring or a lost connection does between, or inside
\* SendHeadFrameToAll, drops one or sends one again.
THEOREM RingCorrect == Spec => []RingRight
  <1>1. IInv => RingRight
    BY InOnePlace DEF IInv, RingRight, ExactlyOnce
  <1> QED BY <1>1, Invariant, PTL

\* No frame number is skipped and none comes back in the broadcasts of
\* SendHeadFrameToAll.
THEOREM FramesCorrect == Spec => []FramesInOrder
  <1>1. IInv => FramesInOrder
    <2> SUFFICES ASSUME IInv, phase = "ingame" PROVE FramesInOrder
      BY DEF FramesInOrder
    <2>1. \A j \in DOMAIN sent : sent[j].frame \in 1 .. head_frame /\ head_frame \in Nat
      BY DEF IInv, Framed, TypeOK
    <2>2. \A j \in DOMAIN sent : sent[j].frame <= head_frame
      BY <2>1
    <2>3. 1 .. head_frame - 1 \subseteq {sent[j].frame : j \in DOMAIN sent}
      BY DEF IInv, Framed
    <2> QED BY <2>2, <2>3 DEF IInv, Framed, FramesInOrder
  <1> QED BY <1>1, Invariant, PTL

\* A Room object that is used again broadcasts nothing of an earlier game:
\* SYN::Init empties every slot.
THEOREM GamesApart == Spec => []SameGame
  <1>1. IInv => SameGame
    BY DEF IInv, Once, OutOnce, Old, SameGame
  <1> QED BY <1>1, Invariant, PTL

-----------------------------------------------------------------------------
(* The clock, Run and the head frame. *)

\* The numbers of frames are natural numbers, the sizes too.
LEMMA Numbers ==
    ASSUME TypeOK
    PROVE  /\ head_frame \in Nat /\ now_frame \in Nat /\ clock \in Nat /\ ran \in Nat
           /\ AllowedDelay \in Nat /\ AllowedAhead \in Nat /\ AllowedExist \in Nat
           /\ MaxStall \in Nat /\ MaxFrame \in Nat \ {0} /\ BufferSize \in Nat \ {0}
           /\ head \in Slot
  BY SynAssumption DEF TypeOK

\* Every step keeps Timed.
LEMMA NextTimed ==
    ASSUME IInv, Timed, [Next]_vars
    PROVE  Timed'
  <1>0. TypeOK /\ Shape
    BY DEF IInv
  <1>1. ASSUME NEW m, Says(m) PROVE Timed'
    <2>1. UNCHANGED <<head, head_frame, clock, phase, run, ran>> /\ now_frame' \in {now_frame, clock}
      BY <1>1 DEF Says
    <2> QED BY <1>0, <2>1, Numbers DEF Timed
  <1>2. ASSUME NEW p \in Player, NEW f \in FirstFrame .. MaxFrame + AllowedAhead + 1,
               CSMove(p, f) \/ CSKill(p, f) \/ CSSkill(p, f) \/ CSGamePause(p, f)
        PROVE  Timed'
    <2>1. Operation(p, f)
      BY <1>2 DEF CSMove, CSKill, CSSkill, CSGamePause
    <2>2. f \in Int
      BY SynAssumption
    <2> QED BY <1>0, <1>1, <2>1, <2>2, OperationSays
  <1>3. ASSUME NEW p \in Player, CSChoseRole(p) PROVE Timed'
    BY <1>0, <1>1, <1>3, ChoseRoleSays
  <1>4. ASSUME NEW p \in Player, ExitGame(p) PROVE Timed'
    BY <1>0, <1>1, <1>4, ExitSays
  <1>5. ASSUME NEW p \in Player, CSGameEnd(p) PROVE Timed'
    BY <1>0, <1>5, Numbers DEF CSGameEnd, UpdateTime, Timed
  <1>6. CASE GameStart
    BY <1>0, <1>6, Numbers DEF GameStart, Timed, Shape
  <1>7. CASE GameOver
    BY <1>0, <1>7 DEF GameOver, Timed
  <1>8. CASE TimePasses
    BY <1>0, <1>8, Numbers DEF TimePasses, Timed
  <1>9. CASE Run
    BY <1>0, <1>9, Numbers DEF Run, UpdateTime, Due, Timed
  <1>10. CASE SendEmptyFrame
    BY <1>0, <1>10 DEF SendEmptyFrame, Timed
  <1>11. CASE SendOne
    BY <1>0, <1>11 DEF SendOne, Timed
  <1>12. CASE SendDone
    <2>1. /\ head_frame' = head_frame + 1 /\ UNCHANGED <<now_frame, clock, ran, phase>>
          /\ phase = "ingame" /\ run = "loop"
          /\ run' = IF head_frame + 1 + AllowedDelay + 1 <= now_frame THEN "head" ELSE "idle"
      BY <1>0, <1>12 DEF SendDone, Due, Shape
    <2>2. head_frame >= 1
      BY <1>0 DEF Shape
    <2> QED BY <1>0, <2>1, <2>2, Numbers DEF Timed
  <1>13. CASE UNCHANGED vars
    BY <1>13 DEF vars, Timed
  <1> QED BY <1>2, <1>3, <1>4, <1>5, <1>6, <1>7, <1>8, <1>9, <1>10, <1>11, <1>12, <1>13 DEF Next

\* The clock is never further ahead of the head frame than the delay and the
\* stalls of the main loop.
THEOREM AlwaysTimed == Spec => []Timed
  <1>1. Init => Timed
    BY SynAssumption DEF Init, Timed
  <1>2. IInv /\ Timed /\ [Next]_vars => Timed'
    BY NextTimed
  <1> QED BY <1>1, <1>2, Invariant, PTL DEF Spec

\* A message that is taken as on time is not before the head frame, if its
\* number is one of a client that counts from 1.
LEMMA NotBeforeHead ==
    ASSUME TypeOK, Timed, NEW f \in Int, OnTime(f), f >= 1
    PROVE  f >= head_frame
  BY Numbers DEF Timed, OnTime

\* The index of a frame that is not before the head frame
LEMMA IndexInside ==
    ASSUME TypeOK, NEW f \in Int, f >= head_frame
    PROVE  Index(f) = SlotOf(head, f - head_frame) /\ Index(f) \in Slot
  <1>1. PICK n \in Nat : n = head + (f - head_frame)
    BY Numbers DEF Slot
  <1>2. Index(f) = n % BufferSize /\ SlotOf(head, f - head_frame) = n % BufferSize
    BY <1>1 DEF Index, SlotOf
  <1> QED BY <1>2, Numbers DEF Slot

\* SYN::Add stays inside the ring for such a message.
LEMMA AddInside ==
    ASSUME TypeOK, Timed, NEW m, NEW f \in Int, f >= 1, Add(m, f)
    PROVE  wild' = wild
  <1>1. OnTime(f) => Index(f) \in Slot
    BY NotBeforeHead, IndexInside
  <1>2. head \in Slot
    BY Numbers
  <1> QED BY <1>1, <1>2 DEF Add, Store, LateSlot

\* Clients number the frames from 1 and send operations in games only.
ClientsFollow == FirstFrame >= 1 /\ ~LobbyOps

\* No step leaves the ring then.
LEMMA NextInside ==
    ASSUME ClientsFollow, IInv, Timed, InBounds, [Next]_vars
    PROVE  InBounds'
  <1>0. TypeOK /\ clock \in Int /\ clock >= 1
    BY DEF IInv, TypeOK, Timed
  <1>1. ASSUME NEW p \in Player, NEW f \in FirstFrame .. MaxFrame + AllowedAhead + 1, Operation(p, f)
        PROVE  InBounds'
    <2>1. f \in Int /\ f >= 1
      BY SynAssumption DEF ClientsFollow
    <2>2. phase = "ingame" /\ Add(Message(p, "op", f), f)
      BY <1>1 DEF Operation, ClientsFollow
    <2> QED BY <1>0, <2>1, <2>2, AddInside DEF InBounds
  <1>2. ASSUME NEW p \in Player, CSChoseRole(p) PROVE InBounds'
    <2>1. phase = "ingame" /\ Add(Message(p, "role", clock), clock)
      BY <1>2 DEF CSChoseRole, ClientsFollow
    <2> QED BY <1>0, <2>1, AddInside DEF InBounds
  <1>3. ASSUME NEW p \in Player, ExitGame(p) PROVE InBounds'
    <2>1. Add(Message(p, "exit", clock), clock)
      BY <1>3 DEF ExitGame
    <2> QED BY <1>0, <2>1, AddInside DEF InBounds
  <1>4. ASSUME NEW p \in Player, CSGameEnd(p) PROVE InBounds'
    BY <1>4 DEF CSGameEnd, InBounds
  <1>5. CASE GameStart \/ GameOver \/ TimePasses \/ Run \/ UNCHANGED vars
    BY <1>5 DEF GameStart, GameOver, TimePasses, Run, vars, InBounds
  <1>6. CASE SendEmptyFrame \/ SendOne \/ SendDone
    BY <1>6 DEF SendEmptyFrame, SendOne, SendDone, InBounds
  <1> QED BY <1>1, <1>2, <1>3, <1>4, <1>5, <1>6 DEF Next, CSMove, CSKill, CSSkill, CSGamePause

\* SYN::Add never writes outside m_oneframe while clients number the frames from
\* 1 and send operations in games only, however large the ring is and however
\* long the main loop stalls.
THEOREM NeverOutside == ASSUME ClientsFollow PROVE Spec => []InBounds
  <1>1. Init => InBounds
    BY DEF Init, InBounds
  <1>2. IInv /\ Timed /\ InBounds /\ [Next]_vars => InBounds'
    BY NextInside
  <1> QED BY <1>1, <1>2, Invariant, AlwaysTimed, PTL DEF Spec

-----------------------------------------------------------------------------
(* The ring as a line of frames. *)

\* The slots of the frames from the head frame on, for one turn of the ring,
\* are different.
LEMMA SlotFacts ==
    ASSUME NEW h \in Slot
    PROVE  /\ 0 \in Slot /\ SlotOf(h, 0) = h
           /\ \A d \in Slot : SlotOf(h, d) \in Slot
           /\ \A d, e \in Slot : SlotOf(h, d) = SlotOf(h, e) => d = e
  <1>1. BufferSize \in Nat \ {0}
    BY SynAssumption
  <1>2. \A d \in Slot : SlotOf(h, d) = IF h + d < BufferSize THEN h + d ELSE h + d - BufferSize
    BY <1>1 DEF SlotOf, Slot
  <1>3. 0 \in Slot /\ SlotOf(h, 0) = h
    BY <1>1 DEF Slot, SlotOf
  <1> QED BY <1>1, <1>2, <1>3 DEF Slot

\* When the head moves on, the slot of every frame stays, and the slot that
\* was the head is that of the frame one turn later.
LEMMA SlotTurns ==
    ASSUME NEW h \in Slot, NEW g, g = (h + 1) % BufferSize, NEW d \in Slot
    PROVE  /\ d + 1 \in Slot => SlotOf(g, d) = SlotOf(h, d + 1)
           /\ d + 1 \notin Slot => d = BufferSize - 1 /\ SlotOf(g, d) = h
  <1>1. BufferSize \in Nat \ {0} /\ d \in Nat /\ h \in Nat /\ h < BufferSize /\ d < BufferSize
    BY SynAssumption DEF Slot
  <1>2. g = IF h + 1 < BufferSize THEN h + 1 ELSE 0
    BY <1>1
  <1>3. g \in Nat /\ g < BufferSize
    BY <1>1, <1>2
  <1>4. SlotOf(g, d) = IF g + d < BufferSize THEN g + d ELSE g + d - BufferSize
    BY <1>1, <1>3 DEF SlotOf
  <1>5. d + 1 \in Slot => SlotOf(h, d + 1) = IF h + d + 1 < BufferSize THEN h + d + 1
                                                ELSE h + d + 1 - BufferSize
    BY <1>1 DEF SlotOf, Slot
  <1>6. d + 1 \in Slot <=> d + 1 < BufferSize
    BY <1>1 DEF Slot
  <1> QED BY <1>1, <1>2, <1>4, <1>5, <1>6

\* The message m is put into the slot of the frame it is due with, d frames
\* after the head frame.
Placed(m, d) ==
    /\ d \in Slot /\ StoredAt(SlotOf(head, d), m)
    /\ m.due = head_frame + d /\ head_frame + d <= clock + AllowedAhead

\* Where the ring is large enough, SYN::Add puts a message there, or nowhere.
LEMMA AddPlaces ==
    ASSUME RingFits, TypeOK, Shape, Timed, phase = "ingame",
           NEW p, NEW c, NEW f \in Int, run = "idle" \/ f = clock,
           NEW m, m = Message(p, c, f), Add(m, f)
    PROVE  UNCHANGED <<ring, added>> \/ \E d : Placed(m, d)
  <1>0. head \in Slot /\ head_frame >= 1
    BY Numbers DEF Shape
  <1>1. m.due = IF OnTime(f) THEN f ELSE head_frame
    BY DEF Message
  <1>2. CASE OnTime(f) /\ Store(Index(f), m)
    <2>1. CASE f >= head_frame
      <3>1. PICK d \in Int : d = f - head_frame
        BY Numbers
      <3>2. d \in Slot /\ f = head_frame + d /\ f <= clock + AllowedAhead
        BY <1>2, <2>1, <3>1, Numbers DEF RingFits, Timed, OnTime, Slot
      <3>3. Store(SlotOf(head, d), m)
        BY <1>2, <2>1, <3>1, IndexInside
      <3> QED BY <1>1, <1>2, <3>2, <3>3, StoreTakes DEF Placed
    <2>2. CASE f < head_frame
      <3>1. head_frame = 1 /\ head = 0
        BY <1>2, <2>2, Numbers DEF Timed, OnTime
      <3>2. PICK n \in Nat : n = 1 - f
        BY <2>2, <3>1
      <3>3. n \in 1 .. BufferSize - 1
        BY <1>2, <2>2, <3>1, <3>2, Numbers DEF RingFits, Timed, OnTime
      <3>4. head + (f - head_frame) = -n
        BY <3>1, <3>2
      <3>5. Index(f) = -(n % BufferSize)
        BY <3>3, <3>4 DEF Index
      <3>6. Index(f) \notin Slot
        BY <3>3, <3>5, Numbers DEF Slot
      <3> QED BY <1>2, <3>6 DEF Store
    <2> QED BY <2>1, <2>2, Numbers
  <1>3. CASE Late(f) /\ Store(LateSlot, m)
    <2>1. ~OnTime(f) /\ head_frame <= clock + AllowedAhead
      BY <1>0, <1>3, Numbers DEF Late, OnTime, Timed
    <2>2. 0 \in Slot /\ SlotOf(head, 0) = head /\ head_frame + 0 = head_frame
      BY <1>0, SlotFacts, Numbers
    <2>3. Store(SlotOf(head, 0), m)
      BY <1>3, <2>2 DEF LateSlot
    <2> QED BY <1>1, <2>1, <2>2, <2>3, StoreTakes DEF Placed
  <1> QED BY <1>2, <1>3 DEF Add

\* What a handler that adds a message does to the line of frames
MessageStep ==
    /\ UNCHANGED <<head, head_frame, clock, phase, i, sent>>
    /\ phase = "ingame" => ring' = ring \/ \E m \in Mess, d \in Slot : Placed(m, d)

\* The handlers of messages take such steps.
LEMMA MessageSteps ==
    ASSUME RingFits, IInv, Timed, NEW p \in Player,
           \/ \E f \in FirstFrame .. MaxFrame + AllowedAhead + 1 : Operation(p, f)
           \/ CSChoseRole(p) \/ ExitGame(p)
    PROVE  MessageStep
  <1>0. TypeOK /\ Shape /\ clock \in Int
    BY DEF IInv, TypeOK
  <1>1. ASSUME NEW c \in {"op", "role", "exit"}, NEW f \in Int, run = "idle" \/ f = clock,
               Add(Message(p, c, f), f), phase = "ingame"
        PROVE  ring' = ring \/ \E m \in Mess, d \in Slot : Placed(m, d)
    <2>1. PICK m \in Mess : m = Message(p, c, f)
      BY <1>0, MessageFacts
    <2>2. Add(m, f)
      BY <1>1, <2>1
    <2>3. UNCHANGED <<ring, added>> \/ \E d : Placed(m, d)
      BY <1>0, <1>1, <2>1, <2>2, AddPlaces
    <2> QED BY <2>3 DEF Placed
  <1>2. ASSUME NEW f \in FirstFrame .. MaxFrame + AllowedAhead + 1, Operation(p, f)
        PROVE  MessageStep
    <2>1. UNCHANGED <<head, head_frame, clock, phase, i, sent>> /\ run = "idle"
      BY <1>2 DEF Operation
    <2>2. phase = "ingame" => Add(Message(p, "op", f), f)
      BY <1>2 DEF Operation
    <2>3. f \in Int
      BY SynAssumption
    <2> QED BY <1>1, <2>1, <2>2, <2>3 DEF MessageStep
  <1>3. CASE CSChoseRole(p)
    <2>1. UNCHANGED <<head, head_frame, clock, phase, i, sent>> /\ run = "idle"
      BY <1>3 DEF CSChoseRole
    <2>2. phase = "ingame" => Add(Message(p, "role", clock), clock)
      BY <1>3 DEF CSChoseRole
    <2> QED BY <1>0, <1>1, <2>1, <2>2 DEF MessageStep
  <1>4. CASE ExitGame(p)
    <2>1. UNCHANGED <<head, head_frame, clock, phase, i, sent>>
          /\ Add(Message(p, "exit", clock), clock)
      BY <1>4 DEF ExitGame
    <2> QED BY <1>0, <1>1, <2>1 DEF MessageStep
  <1> QED BY <1>2, <1>3, <1>4

\* A message step puts its message into the right slot.
LEMMA MessageInSlot ==
    ASSUME TypeOK, InSlot, MessageStep
    PROVE  InSlot'
  <1>1. UNCHANGED <<head, head_frame, phase, sent>>
    BY DEF MessageStep
  <1>2. phase = "ingame" => HeldInSlot'
    <2> SUFFICES ASSUME phase = "ingame" PROVE HeldInSlot'
      OBVIOUS
    <2>1. HeldInSlot
      BY DEF InSlot
    <2>2. CASE ring' = ring
      BY <1>1, <2>1, <2>2 DEF HeldInSlot
    <2>3. ASSUME NEW m \in Mess, NEW e \in Slot, Placed(m, e) PROVE HeldInSlot'
      <3> DEFINE k == SlotOf(head, e)
      <3>1. StoredAt(k, m) /\ m.due = head_frame + e /\ head \in Slot
        BY <2>3 DEF Placed, TypeOK
      <3>2. /\ \A l \in Slot : l # k => ring'[l] = ring[l]
            /\ k \in Slot /\ Len(ring[k]) \in Nat
            /\ DOMAIN ring'[k] = 1 .. Len(ring[k]) + 1 /\ DOMAIN ring[k] = 1 .. Len(ring[k])
            /\ ring'[k][Len(ring[k]) + 1] = m
            /\ \A j \in 1 .. Len(ring[k]) : ring'[k][j] = ring[k][j]
        <4>1. /\ ring' \in [Slot -> Seq(Mess)]
              /\ \A l \in Slot : l # k => ring'[l] = ring[l]
              /\ k \in Slot /\ Len(ring[k]) \in Nat
              /\ Len(ring'[k]) = Len(ring[k]) + 1
              /\ ring'[k][Len(ring[k]) + 1] = m
              /\ \A j \in 1 .. Len(ring[k]) : ring'[k][j] = ring[k][j]
          BY <3>1, StoredFacts
        <4>2. DOMAIN ring'[k] = 1 .. Len(ring'[k]) /\ DOMAIN ring[k] = 1 .. Len(ring[k])
          BY <4>1 DEF TypeOK
        <4> QED BY <4>1, <4>2
      <3>3. /\ \A d \in Slot : SlotOf(head, d) \in Slot
            /\ \A d \in Slot : SlotOf(head, d) = k => d = e
        BY <2>3, <3>1, SlotFacts
      <3> HIDE DEF k
      <3> SUFFICES ASSUME NEW d \in Slot, NEW j \in DOMAIN ring'[SlotOf(head, d)]
                   PROVE  ring'[SlotOf(head, d)][j].due = head_frame + d
        BY <1>1 DEF HeldInSlot, SlotOf
      <3>4. CASE d = e
        <4>1. SlotOf(head, d) = k
          BY <3>4 DEF k
        <4>2. j \in 1 .. Len(ring[k]) \/ j = Len(ring[k]) + 1
          BY <3>2, <4>1
        <4>3. \A n \in DOMAIN ring[k] : ring[k][n].due = head_frame + e
          BY <2>1 DEF HeldInSlot, k
        <4> QED BY <3>1, <3>2, <3>4, <4>1, <4>2, <4>3
      <3>5. CASE d # e
        <4>1. ring'[SlotOf(head, d)] = ring[SlotOf(head, d)]
          BY <3>2, <3>3, <3>5
        <4> QED BY <2>1, <4>1 DEF HeldInSlot
      <3> QED BY <3>4, <3>5
    <2> QED BY <2>2, <2>3 DEF MessageStep
  <1>3. OwnFrame'
    BY <1>1 DEF InSlot, OwnFrame
  <1> QED BY <1>1, <1>2, <1>3 DEF InSlot

\* Every step keeps InSlot, where the ring is large enough.
LEMMA NextInSlot ==
    ASSUME RingFits, IInv, Timed, InSlot, [Next]_vars
    PROVE  InSlot'
  <1>0. TypeOK /\ Shape
    BY DEF IInv
  <1>1. ASSUME NEW p \in Player,
               \/ \E f \in FirstFrame .. MaxFrame + AllowedAhead + 1 :
                     CSMove(p, f) \/ CSKill(p, f) \/ CSSkill(p, f) \/ CSGamePause(p, f)
               \/ CSChoseRole(p) \/ ExitGame(p)
        PROVE  InSlot'
    <2>1. MessageStep
      BY <1>1, MessageSteps DEF CSMove, CSKill, CSSkill, CSGamePause
    <2> QED BY <1>0, <2>1, MessageInSlot
  <1>2. ASSUME UNCHANGED <<ring, head, head_frame, sent>>, phase' = "ingame" => phase = "ingame"
        PROVE  InSlot'
    BY <1>2 DEF InSlot, HeldInSlot, OwnFrame
  <1>3. ASSUME NEW p \in Player, CSGameEnd(p) PROVE InSlot'
    BY <1>2, <1>3 DEF CSGameEnd
  <1>4. CASE GameOver \/ TimePasses \/ Run \/ UNCHANGED vars
    BY <1>2, <1>4 DEF GameOver, TimePasses, Run, vars
  <1>5. CASE GameStart
    <2>1. sent' = <<>> /\ ring' = [k \in Slot |-> <<>>] /\ head' = 0
      BY <1>5 DEF GameStart, ClearedRing, EmptyRing
    <2>2. 0 \in Slot /\ \A d \in Slot : SlotOf(0, d) \in Slot
      <3>1. 0 \in Slot
        BY SynAssumption DEF Slot
      <3> QED BY <3>1, SlotFacts
    <2>3. \A k \in Slot : DOMAIN ring'[k] = {}
      BY <2>1
    <2>4. HeldInSlot'
      BY <2>1, <2>2, <2>3 DEF HeldInSlot, SlotOf
    <2>5. OwnFrame'
      BY <2>1 DEF OwnFrame
    <2> QED BY <2>4, <2>5 DEF InSlot
  <1>6. ASSUME NEW x \in Mess \cup {Mark}, x = Mark \/ x.due = head_frame,
               sent' = Append(sent, [frame |-> head_frame, mess |-> x]),
               UNCHANGED <<ring, head, head_frame, phase>>
        PROVE  InSlot'
    <2>1. PICK n \in Nat :
              /\ DOMAIN sent = 1 .. n /\ DOMAIN sent' = 1 .. n + 1
              /\ \A j \in 1 .. n : sent'[j] = sent[j] /\ sent[j].frame \in Nat
              /\ sent'[n + 1].frame = head_frame /\ sent'[n + 1].mess = x
              /\ sent' \in Seq([frame : Nat, mess : Mess \cup {Mark}])
      BY <1>0, <1>6, SentFacts
    <2>2. \A j \in 1 .. n + 1 : j \in 1 .. n \/ j = n + 1
      OBVIOUS
    <2>3. OwnFrame'
      BY <1>6, <2>1, <2>2 DEF InSlot, OwnFrame
    <2>4. phase' = "ingame" => HeldInSlot'
      BY <1>6 DEF InSlot, HeldInSlot
    <2> QED BY <2>3, <2>4 DEF InSlot
  <1>7. CASE SendEmptyFrame
    <2>1. UNCHANGED <<ring, head, head_frame, phase>>
          /\ (sent' = sent \/ sent' = Append(sent, [frame |-> head_frame, mess |-> Mark]))
      BY <1>7 DEF SendEmptyFrame, EmptyFrameSent
    <2> QED BY <1>2, <1>6, <2>1
  <1>8. CASE SendOne
    <2>1. /\ UNCHANGED <<ring, head, head_frame, phase>> /\ i < Len(ring[head])
          /\ sent' = Append(sent, [frame |-> head_frame, mess |-> ring[head][i + 1]])
          /\ phase = "ingame"
      BY <1>0, <1>8 DEF SendOne, Shape
    <2>2. head \in Slot /\ ring[head] \in Seq(Mess) /\ i \in Nat /\ head_frame \in Nat
      BY <1>0 DEF TypeOK
    <2>3. i + 1 \in DOMAIN ring[head] /\ ring[head][i + 1] \in Mess
      BY <2>1, <2>2
    <2>4. 0 \in Slot /\ SlotOf(head, 0) = head
      BY <2>2, SlotFacts
    <2>5. ring[head][i + 1].due = head_frame + 0
      BY <2>1, <2>3, <2>4 DEF InSlot, HeldInSlot
    <2>6. ring[head][i + 1].due = head_frame
      BY <2>2, <2>5
    <2>7. PICK x \in Mess : x = ring[head][i + 1]
      BY <2>3
    <2> QED BY <1>6, <2>1, <2>6, <2>7
  <1>9. CASE SendDone
    <2>1. /\ ring' = [ring EXCEPT ![head] = <<>>] /\ head' = (head + 1) % BufferSize
          /\ head_frame' = head_frame + 1 /\ sent' = sent /\ phase = "ingame"
      BY <1>0, <1>9 DEF SendDone, Emptied, Shape
    <2>2. head \in Slot /\ ring \in [Slot -> Seq(Mess)] /\ head_frame \in Nat
      BY <1>0 DEF TypeOK
    <2>3. ring'[head] = <<>> /\ \A k \in Slot : k # head => ring'[k] = ring[k]
      BY <2>1, <2>2
    <2>4. HeldInSlot
      BY <2>1 DEF InSlot
    <2>5. ASSUME NEW d \in Slot, NEW k, k = SlotOf(head', d), NEW j \in DOMAIN ring'[k]
          PROVE  ring'[k][j].due = head_frame + 1 + d
      <3>1. CASE d + 1 \notin Slot
        <4>1. k = head
          BY <2>1, <2>2, <2>5, <3>1, SlotTurns
        <4> QED BY <2>3, <2>5, <4>1
      <3>2. CASE d + 1 \in Slot
        <4>1. k = SlotOf(head, d + 1)
          BY <2>1, <2>2, <2>5, <3>2, SlotTurns
        <4>2. k \in Slot
          BY <2>2, <3>2, <4>1, SlotFacts
        <4>3. k # head
          BY <2>3, <2>5
        <4>4. j \in DOMAIN ring[k] /\ ring'[k][j] = ring[k][j]
          BY <2>3, <2>5, <4>2, <4>3
        <4>5. ring[k][j].due = head_frame + (d + 1)
          BY <2>4, <3>2, <4>1, <4>4 DEF HeldInSlot
        <4>6. head_frame + (d + 1) = head_frame + 1 + d
          BY <2>2 DEF Slot
        <4> QED BY <4>4, <4>5, <4>6
      <3> QED BY <3>1, <3>2
    <2>6. HeldInSlot'
      <3>1. \A d \in Slot : \A j \in DOMAIN ring'[SlotOf(head', d)] :
                ring'[SlotOf(head', d)][j].due = head_frame' + d
        BY <2>1, <2>5
      <3> QED BY <3>1 DEF HeldInSlot, SlotOf
    <2>7. OwnFrame'
      BY <2>1 DEF InSlot, OwnFrame
    <2> QED BY <2>6, <2>7 DEF InSlot
  <1> QED BY <1>1, <1>3, <1>4, <1>5, <1>7, <1>8, <1>9 DEF Next

\* Where the ring is large enough, every message is in the slot of its frame.
THEOREM AlwaysInSlot == ASSUME RingFits PROVE Spec => []InSlot
  <1>1. Init => InSlot
    BY DEF Init, InSlot, OwnFrame
  <1>2. IInv /\ Timed /\ InSlot /\ [Next]_vars => InSlot'
    BY NextInSlot
  <1> QED BY <1>1, <1>2, Invariant, AlwaysTimed, PTL DEF Spec

\* When Run returns, every frame older than the allowed delay is out, and where
\* the ring is large enough, no message goes out with the number of another
\* frame: no two frames share a slot of m_oneframe.
THEOREM ScheduleKept == ASSUME RingFits PROVE Spec => []OnSchedule
  <1>1. IInv /\ Timed /\ InSlot => OnSchedule
    BY Numbers DEF IInv, Timed, InSlot, OnSchedule, Prompt
  <1> QED BY <1>1, Invariant, AlwaysTimed, AlwaysInSlot, PTL

-----------------------------------------------------------------------------
(* The ring implements the line of frames of module Timeline. *)

FrameNo == 1 .. MaxFrame + AllowedAhead

\* The frame f of the line, and the line
OnLine(f) ==
    IF phase = "ingame" /\ f \in head_frame .. head_frame + BufferSize - 1
    THEN Unsent((head + (f - head_frame)) % BufferSize) ELSE <<>>

TheLine == [f \in FrameNo |-> OnLine(f)]

\* The steps of Timeline under the mapping
LEMMA MappedPut ==
    ASSUME NEW f \in FrameNo, phase = "ingame", f >= head_frame,
           UNCHANGED <<phase, head_frame, sent>>,
           \A g \in FrameNo \ {f} : TheLine'[g] = TheLine[g],
           TheLine'[f] # <<>>, TheLine'[f][Len(TheLine'[f])] \in Mess,
           TheLine[f] = SubSeq(TheLine'[f], 1, Len(TheLine'[f]) - 1)
    PROVE  Line!Next
  BY DEF Line!Next, Line!Put, TheLine, OnLine, FrameNo

\* A broadcast is an Emit.
LEMMA MappedEmit ==
    ASSUME phase = "ingame", TheLine[head_frame] # <<>>,
           sent' = Append(sent, [frame |-> head_frame, mess |-> Head(TheLine[head_frame])]),
           TheLine' = [TheLine EXCEPT ![head_frame] = Tail(TheLine[head_frame])],
           UNCHANGED <<phase, head_frame>>
    PROVE  Line!Next
  BY DEF Line!Next, Line!Emit, TheLine, OnLine, FrameNo

\* An empty frame is an EmitMark.
LEMMA MappedMark ==
    ASSUME phase = "ingame", TheLine[head_frame] = <<>>,
           \A j \in DOMAIN sent : sent[j].frame # head_frame,
           sent' = Append(sent, [frame |-> head_frame, mess |-> Mark]),
           UNCHANGED <<phase, head_frame>>, TheLine' = TheLine
    PROVE  Line!Next
  BY DEF Line!Next, Line!EmitMark, Line!Begun, TheLine, OnLine, FrameNo

\* The end of a frame is an Advance.
LEMMA MappedAdvance ==
    ASSUME phase = "ingame", TheLine[head_frame] = <<>>,
           \E j \in DOMAIN sent : sent[j].frame = head_frame,
           head_frame' = head_frame + 1, UNCHANGED <<phase, sent>>, TheLine' = TheLine
    PROVE  Line!Next
  BY DEF Line!Next, Line!Advance, Line!Begun, TheLine, OnLine, FrameNo

\* SYN::Init is a Start.
LEMMA MappedStart ==
    ASSUME phase # "ingame", phase' = "ingame", head_frame' = 1, sent' = <<>>,
           TheLine' = [f \in FrameNo |-> <<>>]
    PROVE  Line!Next
  BY DEF Line!Next, Line!Start, Line!Empty, TheLine, OnLine, FrameNo

\* The end of the game is a Stop.
LEMMA MappedStop ==
    ASSUME phase = "ingame", phase' # "ingame", UNCHANGED <<head_frame, sent>>,
           TheLine' = [f \in FrameNo |-> <<>>]
    PROVE  Line!Next
  BY DEF Line!Next, Line!Stop, Line!Empty, TheLine, OnLine, FrameNo

\* Everything else changes nothing of Timeline.
LEMMA MappedStutter ==
    ASSUME (phase' = "ingame") = (phase = "ingame"), UNCHANGED <<head_frame, sent>>,
           TheLine' = TheLine
    PROVE  UNCHANGED Line!vars
  BY DEF Line!vars, TheLine, OnLine, FrameNo

\* A sequence with one element more, and its beginning
LEMMA Longer ==
    ASSUME NEW B, NEW u \in Seq(B), NEW x \in B, NEW w, w = Append(u, x)
    PROVE  w # <<>> /\ w[Len(w)] = x /\ SubSeq(w, 1, Len(w) - 1) = u
  <1>1. Len(u) \in Nat /\ w \in Seq(B) /\ Len(w) = Len(u) + 1 /\ w[Len(u) + 1] = x
        /\ \A j \in 1 .. Len(u) : w[j] = u[j]
    OBVIOUS
  <1>2. PICK v : v = SubSeq(w, 1, Len(w) - 1)
    OBVIOUS
  <1>3. Len(w) - 1 = Len(u)
    BY <1>1
  <1>4. v \in Seq(B) /\ Len(v) = Len(u) /\ \A j \in 1 .. Len(v) : v[j] = u[j]
    BY <1>1, <1>2, <1>3
  <1>5. v = u
    BY <1>4, SeqEqual, Zenon
  <1>6. w # <<>>
    BY <1>1
  <1> QED BY <1>1, <1>2, <1>5, <1>6

\* The rest of a sequence after a elements: with one element more at the end,
\* and without its first.
LEMMA Rest ==
    ASSUME NEW B, NEW s \in Seq(B), NEW a \in Nat, a <= Len(s)
    PROVE  /\ SubSeq(s, a + 1, Len(s)) \in Seq(B)
           /\ Len(SubSeq(s, a + 1, Len(s))) = Len(s) - a
           /\ \A j \in 1 .. Len(s) - a : SubSeq(s, a + 1, Len(s))[j] = s[a + j]
  OBVIOUS

\* What is unsent grows at its end.
LEMMA RestLonger ==
    ASSUME NEW B, NEW s \in Seq(B), NEW x \in B, NEW a \in Nat, a <= Len(s)
    PROVE  SubSeq(Append(s, x), a + 1, Len(Append(s, x))) = Append(SubSeq(s, a + 1, Len(s)), x)
  <1>0. Append(s, x) \in Seq(B)
    OBVIOUS
  <1>1. PICK t \in Seq(B) : t = Append(s, x)
    BY <1>0, Zenon
  <1>2. Len(s) \in Nat /\ Len(t) = Len(s) + 1 /\ t[Len(s) + 1] = x
        /\ \A j \in 1 .. Len(s) : t[j] = s[j]
    BY <1>1
  <1>3. PICK n \in Nat : Len(s) = a + n
    <2>1. Len(s) - a \in Nat /\ Len(s) = a + (Len(s) - a)
      BY <1>2
    <2> QED BY <2>1
  <1>4. PICK v \in Seq(B) : v = SubSeq(t, a + 1, Len(t))
    <2>1. a <= Len(t)
      BY <1>2
    <2>2. SubSeq(t, a + 1, Len(t)) \in Seq(B)
      BY <2>1, Rest
    <2> QED BY <2>2, Zenon
  <1>5. PICK u \in Seq(B) : u = SubSeq(s, a + 1, Len(s))
    <2>1. SubSeq(s, a + 1, Len(s)) \in Seq(B)
      BY Rest
    <2> QED BY <2>1, Zenon
  <1>6. Len(v) = n + 1 /\ \A j \in 1 .. n + 1 : v[j] = t[a + j]
    BY <1>2, <1>3, <1>4, Rest
  <1>7. Len(u) = n /\ \A j \in 1 .. n : u[j] = s[a + j]
    BY <1>2, <1>3, <1>5, Rest
  <1>8. PICK w \in Seq(B) : w = Append(u, x)
    <2>1. Append(u, x) \in Seq(B)
      OBVIOUS
    <2> QED BY <2>1, Zenon
  <1>9. Len(w) = n + 1 /\ w[n + 1] = x /\ \A j \in 1 .. n : w[j] = u[j]
    BY <1>7, <1>8
  <1>10. \A j \in 1 .. n : a + j \in 1 .. Len(s)
    BY <1>3
  <1>11. ASSUME NEW j \in 1 .. n + 1 PROVE v[j] = w[j]
    <2>1. CASE j \in 1 .. n
      BY <1>2, <1>6, <1>7, <1>9, <1>10, <2>1
    <2>2. CASE j = n + 1
      <3>1. a + j = Len(s) + 1
        BY <1>3, <2>2
      <3> QED BY <1>2, <1>6, <1>9, <2>2, <3>1
    <2> QED BY <2>1, <2>2
  <1>12. Len(v) = Len(w) /\ \A j \in 1 .. Len(v) : v[j] = w[j]
    BY <1>6, <1>9, <1>11
  <1>13. v = w
    BY <1>12, SeqEqual, Zenon
  <1> QED BY <1>1, <1>4, <1>5, <1>8, <1>13

\* What is unsent shrinks at its front.
LEMMA RestShorter ==
    ASSUME NEW B, NEW s \in Seq(B), NEW a \in Nat, a < Len(s)
    PROVE  /\ SubSeq(s, a + 1, Len(s)) # <<>> /\ Head(SubSeq(s, a + 1, Len(s))) = s[a + 1]
           /\ Tail(SubSeq(s, a + 1, Len(s))) = SubSeq(s, a + 1 + 1, Len(s))
  <1>1. PICK n \in Nat : Len(s) = a + 1 + n
    <2>1. Len(s) - a - 1 \in Nat /\ Len(s) = a + 1 + (Len(s) - a - 1)
      OBVIOUS
    <2> QED BY <2>1
  <1>2. PICK u \in Seq(B) : u = SubSeq(s, a + 1, Len(s))
    <2>1. a <= Len(s)
      OBVIOUS
    <2>2. SubSeq(s, a + 1, Len(s)) \in Seq(B)
      BY <2>1, Rest
    <2> QED BY <2>2, Zenon
  <1>3. Len(u) = n + 1 /\ \A j \in 1 .. n + 1 : u[j] = s[a + j]
    <2>1. a <= Len(s) /\ Len(s) - a = n + 1
      BY <1>1
    <2> QED BY <1>2, <2>1, Rest
  <1>5. a + 1 \in Nat /\ a + 1 <= Len(s) /\ Len(s) - (a + 1) = n
    BY <1>1
  <1>4. PICK v \in Seq(B) : v = SubSeq(s, a + 1 + 1, Len(s))
    <2>1. SubSeq(s, a + 1 + 1, Len(s)) \in Seq(B)
      BY <1>5, Rest
    <2> QED BY <2>1, Zenon
  <1>6. Len(v) = n /\ \A j \in 1 .. n : v[j] = s[a + 1 + j]
    BY <1>4, <1>5, Rest
  <1>7. u # <<>> /\ Head(u) = u[1] /\ u[1] = s[a + 1]
    BY <1>3
  <1>8. PICK w \in Seq(B) : w = Tail(u)
    <2>1. Tail(u) \in Seq(B)
      BY <1>3, <1>7
    <2> QED BY <2>1, Zenon
  <1>9. Len(w) = n /\ \A j \in 1 .. n : w[j] = u[j + 1]
    BY <1>3, <1>8
  <1>10. ASSUME NEW j \in 1 .. n PROVE w[j] = v[j]
    <2>1. j + 1 \in 1 .. n + 1 /\ a + (j + 1) = a + 1 + j
      OBVIOUS
    <2> QED BY <1>3, <1>6, <1>9, <2>1
  <1>11. Len(w) = Len(v) /\ \A j \in 1 .. Len(w) : w[j] = v[j]
    BY <1>6, <1>9, <1>10
  <1>12. w = v
    BY <1>11, SeqEqual, Zenon
  <1> QED BY <1>2, <1>4, <1>7, <1>8, <1>12

\* The line in a game: the frame d frames after the head frame is in the slot
\* d places after the head.
LEMMA LineAt ==
    ASSUME TypeOK, phase = "ingame", NEW d \in Slot, head_frame + d \in FrameNo
    PROVE  TheLine[head_frame + d] = Unsent(SlotOf(head, d))
  <1>1. PICK f \in FrameNo : f = head_frame + d
    OBVIOUS
  <1>2. f \in head_frame .. head_frame + BufferSize - 1 /\ f - head_frame = d
    BY <1>1, Numbers DEF Slot
  <1>3. OnLine(f) = Unsent((head + d) % BufferSize)
    BY <1>2, Zenon DEF OnLine
  <1> QED BY <1>1, <1>3 DEF TheLine, SlotOf

\* The other frames are empty.
LEMMA LineElsewhere ==
    ASSUME TypeOK, NEW f \in FrameNo, phase = "ingame" => ~ \E d \in Slot : f = head_frame + d
    PROVE  TheLine[f] = <<>>
  <1>1. f \in head_frame .. head_frame + BufferSize - 1
            => f - head_frame \in Slot /\ f = head_frame + (f - head_frame)
    BY Numbers DEF Slot, FrameNo
  <1> QED BY <1>1 DEF TheLine, OnLine

\* Both, for the states before and after a step
LineFacts ==
    /\ phase = "ingame" =>
         \A d \in Slot : head_frame + d \in FrameNo =>
             TheLine[head_frame + d] = Unsent(SlotOf(head, d))
    /\ \A f \in FrameNo :
         (phase = "ingame" => ~ \E d \in Slot : f = head_frame + d) => TheLine[f] = <<>>

\* Every slot is the frame of the line at its distance from the head.
LEMMA LineHolds ==
    ASSUME TypeOK
    PROVE  LineFacts
  BY LineAt, LineElsewhere DEF LineFacts

\* Without a game the line is empty.
LEMMA LineClosed ==
    ASSUME phase # "ingame"
    PROVE  TheLine = [f \in FrameNo |-> <<>>]
  BY DEF TheLine, OnLine

\* Two lines with the same frames are the same.
LEMMA LineSame ==
    ASSUME \A f \in FrameNo : TheLine'[f] = TheLine[f]
    PROVE  TheLine' = TheLine
  <1>1. \A f \in FrameNo : OnLine(f)' = OnLine(f)
    BY DEF TheLine
  <1> QED BY <1>1 DEF TheLine

\* The slots that a step leaves alone
LEMMA UnsentSame ==
    ASSUME NEW k, ring'[k] = ring[k], head' = head, i' = i
    PROVE  Unsent(k)' = Unsent(k)
  BY DEF Unsent

\* A message that is stored comes last in its slot, and no other slot changes.
LEMMA UnsentStored ==
    ASSUME TypeOK, Shape, NEW k \in Slot, NEW m \in Mess, StoredAt(k, m), UNCHANGED <<head, i>>
    PROVE  /\ Unsent(k) \in Seq(Mess) /\ Unsent(k)' = Append(Unsent(k), m)
           /\ \A l \in Slot : l # k => Unsent(l)' = Unsent(l)
  <1>1. PICK s \in Seq(Mess) : s = ring[k]
    BY DEF TypeOK
  <1>2. ring'[k] = Append(s, m) /\ \A l \in Slot : l # k => ring'[l] = ring[l]
    BY <1>1 DEF StoredAt, TypeOK
  <1>3. i \in Nat /\ (k = head => i <= Len(s))
    BY <1>1 DEF TypeOK, Shape
  <1>4. \A l \in Slot : l # k => Unsent(l)' = Unsent(l)
    BY <1>2, UnsentSame
  <1>5. CASE k = head
    <2>1. Unsent(k) = SubSeq(s, i + 1, Len(s))
          /\ Unsent(k)' = SubSeq(Append(s, m), i + 1, Len(Append(s, m)))
      BY <1>1, <1>2, <1>5 DEF Unsent
    <2>2. i <= Len(s)
      BY <1>3, <1>5
    <2>3. SubSeq(s, i + 1, Len(s)) \in Seq(Mess)
      BY <1>3, <2>2, Rest
    <2>4. SubSeq(Append(s, m), i + 1, Len(Append(s, m))) = Append(SubSeq(s, i + 1, Len(s)), m)
      BY <1>3, <2>2, RestLonger
    <2> QED BY <1>4, <2>1, <2>3, <2>4
  <1>6. CASE k # head
    <2>1. Unsent(k) = s /\ Unsent(k)' = Append(s, m)
      BY <1>1, <1>2, <1>6 DEF Unsent
    <2> QED BY <1>4, <2>1
  <1> QED BY <1>5, <1>6

\* A message step is a step Put of Timeline, or none.
LEMMA MessageMaps ==
    ASSUME IInv, Timed, LineFacts, LineFacts', MessageStep
    PROVE  [Line!Next]_(Line!vars)
  <1>0. TypeOK /\ Shape /\ UNCHANGED <<head, head_frame, clock, phase, i, sent>>
    BY DEF IInv, MessageStep
  <1>1. CASE phase # "ingame"
    <2>1. TheLine' = TheLine
      BY <1>0, <1>1 DEF TheLine, OnLine
    <2> QED BY <1>0, <2>1, MappedStutter
  <1>2. CASE ring' = ring
    <2>1. TheLine' = TheLine
      BY <1>0, <1>2 DEF TheLine, OnLine, Unsent
    <2> QED BY <1>0, <2>1, MappedStutter
  <1>3. ASSUME phase = "ingame", NEW m \in Mess, NEW d \in Slot, Placed(m, d)
        PROVE  Line!Next
    <2>1. PICK k \in Slot : k = SlotOf(head, d)
      BY <1>0, SlotFacts DEF TypeOK
    <2>2. StoredAt(k, m)
      BY <1>3, <2>1 DEF Placed
    <2>3. /\ Unsent(k) \in Seq(Mess) /\ Unsent(k)' = Append(Unsent(k), m)
          /\ \A l \in Slot : l # k => Unsent(l)' = Unsent(l)
      BY <1>0, <2>2, UnsentStored
    <2>4. PICK f \in FrameNo : f = head_frame + d
      <3>1. head_frame >= 1 /\ head_frame + d <= clock + AllowedAhead /\ clock <= MaxFrame
        BY <1>0, <1>3 DEF Shape, Timed, Placed
      <3>2. head_frame + d \in FrameNo
        BY <1>0, <3>1, Numbers DEF FrameNo, Slot
      <3> QED BY <3>2
    <2>5. f >= head_frame
      BY <1>0, <2>4, Numbers DEF Slot
    <2>6. TheLine[f] = Unsent(k)
      BY <1>0, <1>3, <2>1, <2>4, LineAt
    <2>7. TheLine'[f] = Unsent(k)'
      BY <1>0, <1>3, <2>1, <2>4 DEF LineFacts
    <2>8. ASSUME NEW g \in FrameNo, g # f PROVE TheLine'[g] = TheLine[g]
      <3>1. CASE \E e \in Slot : g = head_frame + e
        <4>1. PICK e \in Slot : g = head_frame + e
          BY <3>1
        <4>2. PICK l \in Slot : l = SlotOf(head, e)
          BY <1>0, SlotFacts DEF TypeOK
        <4>3. l # k
          BY <1>0, <2>1, <2>4, <2>8, <4>1, <4>2, SlotFacts DEF TypeOK
        <4>4. TheLine[g] = Unsent(l) /\ TheLine'[g] = Unsent(l)'
          BY <1>0, <1>3, <4>1, <4>2 DEF LineFacts
        <4> QED BY <2>3, <4>3, <4>4
      <3>2. CASE ~ \E e \in Slot : g = head_frame + e
        BY <1>0, <3>2 DEF LineFacts
      <3> QED BY <3>1, <3>2
    <2>9. TheLine'[f] # <<>> /\ TheLine'[f][Len(TheLine'[f])] \in Mess
          /\ TheLine[f] = SubSeq(TheLine'[f], 1, Len(TheLine'[f]) - 1)
      BY <2>3, <2>6, <2>7, Longer
    <2> QED BY <1>0, <1>3, <2>5, <2>8, <2>9, MappedPut
  <1> QED BY <1>1, <1>2, <1>3 DEF MessageStep

\* SendHeadFrameToAll has nothing to send: EmitMark, or it has: no step.
LEMMA SendEmptyFrameMaps ==
    ASSUME IInv, Timed, LineFacts, SendEmptyFrame
    PROVE  [Line!Next]_(Line!vars)
  <1>1. /\ run = "head" /\ phase = "ingame" /\ i = 0 /\ i' = 0
        /\ UNCHANGED <<ring, head, head_frame, phase>>
    BY DEF SendEmptyFrame, IInv, Shape
  <1>2. TheLine' = TheLine
    BY <1>1 DEF TheLine, OnLine, Unsent
  <1>3. CASE ring[head] # <<>>
    <2>1. sent' = sent
      BY <1>3 DEF SendEmptyFrame, EmptyFrameSent
    <2> QED BY <1>1, <1>2, <2>1, MappedStutter
  <1>4. CASE ring[head] = <<>>
    <2>1. sent' = Append(sent, [frame |-> head_frame, mess |-> Mark])
      BY <1>4 DEF SendEmptyFrame, EmptyFrameSent
    <2>2. 0 \in Slot /\ SlotOf(head, 0) = head /\ head_frame \in Nat
      BY SlotFacts DEF IInv, TypeOK
    <2>3. head_frame + 0 \in FrameNo /\ head_frame + 0 = head_frame
      BY <1>1, Numbers, SMTT(40) DEF IInv, Timed, Shape, FrameNo
    <2>4. TheLine[head_frame] = Unsent(head)
      BY <1>1, <2>2, <2>3 DEF LineFacts
    <2>5. Unsent(head) = <<>>
      BY <1>1, <1>4 DEF Unsent
    <2>6. \A j \in DOMAIN sent : sent[j].frame # head_frame
      <3>1. \A j \in DOMAIN sent : sent[j].frame \in 1 .. head_frame /\ sent[j].frame < head_frame
        BY <1>1 DEF IInv, Framed
      <3> QED BY <2>2, <3>1
    <2> QED BY <1>1, <1>2, <2>1, <2>4, <2>5, <2>6, MappedMark
  <1> QED BY <1>3, <1>4

\* One iteration of its loop: Emit
LEMMA SendOneMaps ==
    ASSUME IInv, Timed, LineFacts, LineFacts', SendOne
    PROVE  Line!Next
  <1>1. /\ run = "loop" /\ phase = "ingame" /\ i < Len(ring[head]) /\ i' = i + 1
        /\ sent' = Append(sent, [frame |-> head_frame, mess |-> ring[head][i + 1]])
        /\ UNCHANGED <<ring, head, head_frame, phase>>
    BY DEF SendOne, IInv, Shape
  <1>2. /\ 0 \in Slot /\ SlotOf(head, 0) = head /\ head_frame \in Nat /\ head \in Slot /\ i \in Nat
        /\ \A d \in Slot : SlotOf(head, d) \in Slot
        /\ \A d \in Slot : SlotOf(head, d) = head => d = 0
    BY SlotFacts DEF IInv, TypeOK
  <1>3. head_frame + 0 \in FrameNo /\ head_frame + 0 = head_frame
    BY <1>1, Numbers, SMTT(40) DEF IInv, Timed, Shape, FrameNo
  <1>4. PICK s \in Seq(Mess) : s = ring[head]
    BY <1>2 DEF IInv, TypeOK
  <1>5. TheLine[head_frame] = SubSeq(s, i + 1, Len(s))
    BY <1>1, <1>2, <1>3, <1>4 DEF LineFacts, Unsent
  <1>6. TheLine'[head_frame] = SubSeq(s, i + 1 + 1, Len(s))
    BY <1>1, <1>2, <1>3, <1>4 DEF LineFacts, Unsent
  <1>7. TheLine[head_frame] # <<>> /\ Head(TheLine[head_frame]) = ring[head][i + 1]
        /\ TheLine'[head_frame] = Tail(TheLine[head_frame])
    <2>1. i < Len(s) /\ i \in Nat /\ ring[head][i + 1] = s[i + 1]
      BY <1>1, <1>2, <1>4
    <2>2. /\ SubSeq(s, i + 1, Len(s)) # <<>> /\ Head(SubSeq(s, i + 1, Len(s))) = s[i + 1]
          /\ Tail(SubSeq(s, i + 1, Len(s))) = SubSeq(s, i + 1 + 1, Len(s))
      BY <2>1, RestShorter
    <2> QED BY <1>5, <1>6, <2>1, <2>2, Zenon
  <1>8. ASSUME NEW g \in FrameNo, g # head_frame PROVE TheLine'[g] = TheLine[g]
    <2>1. CASE \E e \in Slot : g = head_frame + e
      <3>1. PICK e \in Slot : g = head_frame + e
        BY <2>1
      <3>2. e # 0
        BY <1>3, <1>8, <3>1
      <3>3. PICK l \in Slot : l = SlotOf(head, e)
        BY <1>2
      <3>4. l # head
        BY <1>2, <3>2, <3>3
      <3>5. TheLine[g] = Unsent(l) /\ TheLine'[g] = Unsent(l)'
        BY <1>1, <3>1, <3>3 DEF LineFacts
      <3> QED BY <1>1, <3>4, <3>5 DEF Unsent
    <2>2. CASE ~ \E e \in Slot : g = head_frame + e
      BY <1>1, <2>2 DEF LineFacts
    <2> QED BY <2>1, <2>2
  <1>9. TheLine' = [TheLine EXCEPT ![head_frame] = Tail(TheLine[head_frame])]
    <2>1. PICK z : z = Tail(TheLine[head_frame])
      OBVIOUS
    <2>2. \A g \in FrameNo : OnLine(g)' = IF g = head_frame THEN z ELSE OnLine(g)
      BY <1>7, <1>8, <2>1 DEF TheLine
    <2>3. TheLine' = [TheLine EXCEPT ![head_frame] = z]
      BY <2>2 DEF TheLine
    <2> QED BY <2>1, <2>3
  <1> QED BY <1>1, <1>7, <1>9, MappedEmit

\* The end of SendHeadFrameToAll: Advance
LEMMA SendDoneMaps ==
    ASSUME IInv, Timed, LineFacts, LineFacts', SendDone
    PROVE  Line!Next
  <1>1. /\ run = "loop" /\ i >= Len(ring[head]) /\ i' = 0 /\ phase = "ingame"
        /\ ring' = [ring EXCEPT ![head] = <<>>] /\ head' = (head + 1) % BufferSize
        /\ head_frame' = head_frame + 1 /\ UNCHANGED <<phase, sent>>
    BY DEF SendDone, Emptied, IInv, Shape
  <1>2. /\ 0 \in Slot /\ SlotOf(head, 0) = head /\ head_frame \in Nat /\ head \in Slot /\ i \in Nat
        /\ ring \in [Slot -> Seq(Mess)] /\ Len(ring[head]) \in Nat
        /\ \A d \in Slot : SlotOf(head, d) \in Slot
        /\ \A d \in Slot : SlotOf(head, d) = head => d = 0
    BY SlotFacts DEF IInv, TypeOK
  <1>3. head_frame + 0 \in FrameNo /\ head_frame + 0 = head_frame
    BY <1>1, Numbers, SMTT(40) DEF IInv, Timed, Shape, FrameNo
  <1>4. TheLine[head_frame] = <<>>
    <2>1. Unsent(head) = SubSeq(ring[head], i + 1, Len(ring[head]))
      BY DEF Unsent
    <2>2. SubSeq(ring[head], i + 1, Len(ring[head])) = <<>>
      <3>1. i + 1 \in Int /\ Len(ring[head]) \in Int /\ Len(ring[head]) < i + 1
        BY <1>1, <1>2
      <3> QED BY <3>1, SubSeqEmpty
    <2> QED BY <1>1, <1>2, <1>3, <2>1, <2>2 DEF LineFacts
  <1>5. \E j \in DOMAIN sent : sent[j].frame = head_frame
    <2>1. i > 0 \/ ring[head] = <<>>
      BY <1>1, <1>2
    <2> QED BY <1>1, <2>1 DEF IInv, Framed
  <1>6. ring'[head] = <<>> /\ \A k \in Slot : k # head => ring'[k] = ring[k]
    BY <1>1, <1>2
  <1>7. \A k \in Slot : Unsent(k)' = ring'[k]
    <2>1. ASSUME NEW k \in Slot PROVE SubSeq(ring'[k], 0 + 1, Len(ring'[k])) = ring'[k]
      <3>1. PICK s \in Seq(Mess) : s = ring'[k]
        <4>1. ring'[k] \in Seq(Mess)
          BY <1>1, <1>2
        <4> QED BY <4>1
      <3>2. SubSeq(s, 1, Len(s)) = s
        BY SubSeqFull, Zenon
      <3> QED BY <3>1, <3>2
    <2> QED BY <1>1, <2>1 DEF Unsent
  <1>8. ASSUME NEW g \in FrameNo PROVE TheLine'[g] = TheLine[g]
    <2>1. CASE \E d \in Slot : g = head_frame + 1 + d
      <3>1. PICK d \in Slot : g = head_frame + 1 + d
        BY <2>1
      <3>2. PICK k : k = SlotOf(head', d)
        OBVIOUS
      <3>3. d \in Nat /\ d < BufferSize /\ BufferSize \in Nat
        BY SynAssumption DEF Slot
      <3>4. CASE d + 1 \notin Slot
        <4>1. k = head /\ d = BufferSize - 1
          BY <1>1, <1>2, <3>2, <3>4, SlotTurns
        <4>2. TheLine'[g] = <<>>
          BY <1>1, <1>2, <1>6, <1>7, <3>1, <3>2, <4>1 DEF LineFacts
        <4>3. ~ \E e \in Slot : g = head_frame + e
          BY <1>2, <3>1, <3>3, <4>1 DEF Slot
        <4> QED BY <1>1, <4>2, <4>3 DEF LineFacts
      <3>5. CASE d + 1 \in Slot
        <4>1. k = SlotOf(head, d + 1)
          BY <1>1, <1>2, <3>2, <3>5, SlotTurns
        <4>2. k \in Slot /\ k # head
          BY <1>2, <3>3, <3>5, <4>1
        <4>3. g = head_frame + (d + 1)
          BY <1>2, <3>1, <3>3
        <4>4. TheLine[g] = Unsent(k)
          BY <1>1, <3>5, <4>1, <4>3 DEF LineFacts
        <4>5. TheLine'[g] = Unsent(k)'
          BY <1>1, <3>1, <3>2 DEF LineFacts
        <4> QED BY <1>6, <1>7, <4>2, <4>4, <4>5 DEF Unsent
      <3> QED BY <3>4, <3>5
    <2>2. CASE ~ \E d \in Slot : g = head_frame + 1 + d
      <3>1. TheLine'[g] = <<>>
        BY <1>1, <2>2 DEF LineFacts
      <3>2. CASE g = head_frame
        BY <1>4, <3>1, <3>2
      <3>3. CASE g # head_frame
        <4>1. ~ \E e \in Slot : g = head_frame + e
          <5> SUFFICES ASSUME NEW e \in Slot, g = head_frame + e PROVE FALSE
            OBVIOUS
          <5>1. e - 1 \in Slot /\ g = head_frame + 1 + (e - 1)
            BY <1>2, <3>3, SynAssumption, SMTT(40) DEF Slot
          <5> QED BY <2>2, <5>1
        <4> QED BY <1>1, <3>1, <4>1 DEF LineFacts
      <3> QED BY <3>2, <3>3
    <2> QED BY <2>1, <2>2
  <1>9. TheLine' = TheLine
    BY <1>8, LineSame
  <1> QED BY <1>1, <1>4, <1>5, <1>9, MappedAdvance

\* Every step is a step of Timeline, or none.
LEMMA NextMaps ==
    ASSUME RingFits, IInv, Timed, LineFacts, LineFacts', [Next]_vars
    PROVE  [Line!Next]_(Line!vars)
  <1>1. ASSUME NEW p \in Player,
               \/ \E f \in FirstFrame .. MaxFrame + AllowedAhead + 1 :
                     CSMove(p, f) \/ CSKill(p, f) \/ CSSkill(p, f) \/ CSGamePause(p, f)
               \/ CSChoseRole(p) \/ ExitGame(p)
        PROVE  [Line!Next]_(Line!vars)
    <2>1. MessageStep
      BY <1>1, MessageSteps DEF CSMove, CSKill, CSSkill, CSGamePause
    <2> QED BY <2>1, MessageMaps
  <1>2. ASSUME UNCHANGED <<ring, head, head_frame, phase, i, sent>>
        PROVE  [Line!Next]_(Line!vars)
    <2>1. TheLine' = TheLine
      BY <1>2 DEF TheLine, OnLine, Unsent
    <2> QED BY <1>2, <2>1, MappedStutter
  <1>3. ASSUME NEW p \in Player, CSGameEnd(p) PROVE [Line!Next]_(Line!vars)
    BY <1>2, <1>3 DEF CSGameEnd
  <1>4. CASE TimePasses \/ Run \/ UNCHANGED vars
    BY <1>2, <1>4 DEF TimePasses, Run, vars
  <1>5. CASE GameOver
    <2>1. phase = "ingame" /\ phase' = "lobby" /\ UNCHANGED <<head_frame, sent>>
      BY <1>5 DEF GameOver
    <2>2. TheLine' = [f \in FrameNo |-> <<>>]
      BY <2>1 DEF TheLine, OnLine
    <2> QED BY <2>1, <2>2, MappedStop
  <1>6. CASE GameStart
    <2>1. /\ phase # "ingame" /\ phase' = "ingame" /\ head_frame' = 1 /\ head' = 0
          /\ sent' = <<>> /\ ring' = [k \in Slot |-> <<>>] /\ i' = i
      BY <1>6 DEF GameStart, ClearedRing, EmptyRing
    <2>2. i = 0 /\ 0 \in Slot /\ \A d \in Slot : SlotOf(0, d) \in Slot
      <3>1. 0 \in Slot
        BY SynAssumption DEF Slot
      <3> QED BY <2>1, <3>1, SlotFacts DEF IInv, Shape
    <2>3. \A k \in Slot : Unsent(k)' = <<>>
      <3>1. SubSeq(<<>>, 0 + 1, Len(<<>>)) = <<>>
        OBVIOUS
      <3> QED BY <2>1, <2>2, <3>1 DEF Unsent
    <2>4. ASSUME NEW f \in FrameNo PROVE TheLine'[f] = <<>>
      <3>1. CASE \E d \in Slot : f = 1 + d
        BY <2>1, <2>2, <2>3, <3>1 DEF LineFacts
      <3>2. CASE ~ \E d \in Slot : f = 1 + d
        BY <2>1, <3>2 DEF LineFacts
      <3> QED BY <3>1, <3>2
    <2>5. TheLine' = [f \in FrameNo |-> <<>>]
      BY <2>4 DEF TheLine
    <2> QED BY <2>1, <2>5, MappedStart
  <1> QED BY <1>1, <1>3, <1>4, <1>5, <1>6, SendEmptyFrameMaps, SendOneMaps, SendDoneMaps DEF Next

\* Where the ring is large enough, SYN does what Timeline says: a line of frames
\* without end, whose frames go out one after the other, every message once, in
\* the order it was put there.
THEOREM SynImplementsTimeline == ASSUME RingFits PROVE Spec => ImplementsTimeline
  <1>1. Init => Line!Init
    <2> SUFFICES ASSUME Init PROVE Line!Init
      OBVIOUS
    <2>1. phase # "ingame" /\ head_frame = 1 /\ sent = <<>>
      BY DEF Init
    <2> QED BY <2>1 DEF Line!Init, Line!Empty
  <1>2. IInv => LineFacts
    BY LineHolds DEF IInv
  <1>3. IInv /\ Timed /\ LineFacts /\ LineFacts' /\ [Next]_vars => [Line!Next]_(Line!vars)
    BY NextMaps
  <1> QED BY <1>1, <1>2, <1>3, Invariant, AlwaysTimed, PTL DEF Spec, ImplementsTimeline, Line!Spec

-----------------------------------------------------------------------------
(* The order of the operations of one player. *)

Before(a, b) == a.kind = "op" /\ b.kind = "op" => a.n < b.n

\* The operations of a frame are held, and go out, in the order they came.
FrameOrder ==
    /\ \A k, j, l : Held(k, j) /\ Held(k, l) /\ j < l => Before(ring[k][j], ring[k][l])
    /\ \A s \in DOMAIN sent : \A j : Held(head, j) /\ sent[s].frame = head_frame
                                     => Before(sent[s].mess, ring[head][j])
    /\ \A s, t \in DOMAIN sent : s < t /\ sent[s].frame = sent[t].frame
                                     => Before(sent[s].mess, sent[t].mess)

\* A later operation of a player is not due before an earlier one: the frame it
\* is due with is his last frame number, or that of a head frame.
DueOrder ==
    /\ \A m \in added : m.kind = "op" => m.due <= cframe[m.from] \/ m.due <= head_frame
    /\ \A m, o \in added : /\ m.kind = "op" /\ o.kind = "op" /\ m.from = o.from
                           /\ m.n < o.n
                           => m.due <= o.due

\* Run was called in the last frame or in this one, if the loop did not stall.
Punctual == stalled \/ (phase = "ingame" => clock <= ran + 1)

OrderInv == Punctual /\ (phase = "ingame" => FrameOrder /\ (stalled \/ DueOrder))

\* The order of the frames and the order in each frame make the order of the
\* operations.
LEMMA OrderSuffices ==
    ASSUME IInv, InSlot, phase = "ingame", FrameOrder, DueOrder
    PROVE  PlayerOrder
  <1> SUFFICES ASSUME NEW j \in DOMAIN sent, NEW k \in DOMAIN sent,
                      NEW a, NEW b, a = sent[j].mess, b = sent[k].mess,
                      a.kind = "op", b.kind = "op", a.from = b.from, a.n < b.n
               PROVE  j < k
    BY DEF PlayerOrder
  <1>1. j \in Nat /\ k \in Nat /\ sent[j].frame \in Nat /\ sent[k].frame \in Nat
    <2> DEFINE E == [frame : Nat, mess : Mess \cup {Mark}]
    <2>1. sent \in Seq(E) /\ \A e \in E : e.frame \in Nat
      BY DEF IInv, TypeOK
    <2> HIDE DEF E
    <2> QED BY <2>1
  <1>2. a # Mark /\ b # Mark
    BY DEF Mark
  <1>3. a \in added /\ b \in added
    BY <1>2 DEF IInv, Once, OutOnce
  <1>4. a.n \in Int /\ b.n \in Int /\ a.due = sent[j].frame /\ b.due = sent[k].frame
    <2>1. added \subseteq Mess /\ MaxMess \in Nat
      BY SynAssumption DEF IInv, TypeOK
    <2>2. a.n \in Int /\ b.n \in Int
      BY <1>3, <2>1 DEF Mess
    <2>3. a.due = sent[j].frame /\ b.due = sent[k].frame
      BY <1>2 DEF InSlot, OwnFrame
    <2> QED BY <2>2, <2>3
  <1>5. a.due <= b.due
    BY <1>3 DEF DueOrder
  <1>6. j # k
    BY <1>4
  <1>7. CASE k < j
    <2>1. sent[k].frame <= sent[j].frame
      BY <1>1, <1>7 DEF IInv, Framed
    <2>2. sent[k].frame = sent[j].frame
      BY <1>1, <1>4, <1>5, <2>1
    <2>3. b.n < a.n
      BY <1>7, <2>2 DEF FrameOrder, Before
    <2> QED BY <1>4, <2>3
  <1> QED BY <1>1, <1>6, <1>7

\* A message is stored behind those of its frame: the order in the frames stays.
LEMMA SaysFrameOrder ==
    ASSUME IInv, phase = "ingame", FrameOrder, NEW m, Says(m), m.kind = "op" => m.n = count
    PROVE  FrameOrder'
  <1>0. TypeOK /\ Shape /\ HeldOnce /\ OutOnce /\ (\A x \in added : Old(x))
    BY DEF IInv, Once
  <1>1. m \in Mess /\ UNCHANGED <<head, i, head_frame, sent>>
    BY DEF Says
  <1>2. CASE UNCHANGED <<ring, added>>
    BY <1>1, <1>2 DEF FrameOrder, Held
  <1>3. ASSUME NEW k \in Slot, StoredAt(k, m) PROVE FrameOrder'
    <2>1. PICK n : /\ Held(k, n)' /\ ring'[k][n] = m
                   /\ \A j : Held(k, j) => j < n
                   /\ \A l, j : Held(l, j) => Held(l, j)' /\ ring'[l][j] = ring[l][j]
                   /\ \A l, j : Held(l, j)' => Held(l, j) \/ (l = k /\ j = n)
      BY <1>0, <1>1, <1>3, StoredHeld
    <2>2. \A x \in added : Before(x, m)
      BY <1>0 DEF Old, Before
    <2>3. Before(Mark, m)
      BY DEF Before, Mark
    <2>4. \A l, j : Held(l, j) => j \in Nat
      BY <1>0 DEF Held, TypeOK
    <2>5. n \in Nat
      <3>1. TypeOK'
        BY <1>0, SaysType
      <3> QED BY <2>1, <3>1 DEF Held, TypeOK
    <2>6. \A l, j, q : (Held(l, j) /\ Held(l, q))' /\ j < q => Before(ring'[l][j], ring'[l][q])
      <3> SUFFICES ASSUME NEW l, NEW j, NEW q, Held(l, j)', Held(l, q)', j < q
                   PROVE  Before(ring'[l][j], ring'[l][q])
        OBVIOUS
      <3>1. CASE l = k /\ q = n
        <4>1. j # n
          BY <2>5, <3>1
        <4>2. Held(l, j) /\ ring'[l][j] = ring[l][j]
          BY <2>1, <3>1, <4>1
        <4> QED BY <1>0, <2>1, <2>2, <3>1, <4>2 DEF HeldOnce
      <3>2. CASE ~(l = k /\ q = n)
        <4>1. Held(l, q) /\ ring'[l][q] = ring[l][q]
          BY <2>1, <3>2
        <4>2. ~(l = k /\ j = n)
          BY <2>1, <2>4, <2>5, <4>1
        <4>3. Held(l, j) /\ ring'[l][j] = ring[l][j]
          BY <2>1, <4>2
        <4> QED BY <4>1, <4>3 DEF FrameOrder
      <3> QED BY <3>1, <3>2
    <2>7. \A s \in DOMAIN sent : \A j : Held(head, j)' /\ sent[s].frame = head_frame
                                        => Before(sent[s].mess, ring'[head][j])
      <3> SUFFICES ASSUME NEW s \in DOMAIN sent, NEW j, NEW h, h = head,
                          Held(h, j)', sent[s].frame = head_frame
                   PROVE  Before(sent[s].mess, ring'[h][j])
        BY <1>1
      <3>1. CASE h = k /\ j = n
        BY <1>0, <2>1, <2>2, <2>3, <3>1 DEF OutOnce
      <3>2. CASE ~(h = k /\ j = n)
        BY <2>1, <3>2 DEF FrameOrder
      <3> QED BY <3>1, <3>2
    <2> QED BY <1>1, <2>6, <2>7 DEF FrameOrder, Held
  <1> QED BY <1>2, <1>3 DEF Says, Taken

\* A step of Run keeps the order in the frames.
LEMMA SendFrameOrder ==
    ASSUME IInv, FrameOrder, phase = "ingame", SendEmptyFrame \/ SendOne \/ SendDone
    PROVE  FrameOrder'
  <1>0. TypeOK /\ Shape /\ Framed
    BY DEF IInv
  <1>1. ASSUME NEW x \in Mess \cup {Mark},
               sent' = Append(sent, [frame |-> head_frame, mess |-> x]),
               UNCHANGED <<ring, head, head_frame>>,
               \A k, j : Held(k, j)' => Held(k, j),
               \A s \in DOMAIN sent : sent[s].frame = head_frame => Before(sent[s].mess, x),
               \A j : Held(head, j)' => Before(x, ring[head][j])
        PROVE  FrameOrder'
    <2>1. PICK n \in Nat :
              /\ DOMAIN sent = 1 .. n /\ DOMAIN sent' = 1 .. n + 1
              /\ \A j \in 1 .. n : sent'[j] = sent[j] /\ sent[j].frame \in Nat
              /\ sent'[n + 1].frame = head_frame /\ sent'[n + 1].mess = x
              /\ sent' \in Seq([frame : Nat, mess : Mess \cup {Mark}])
      BY <1>0, <1>1, SentFacts
    <2>2. \A j \in 1 .. n + 1 : j \in 1 .. n \/ j = n + 1
      OBVIOUS
    <2>3. \A k, j, l : Held(k, j)' /\ Held(k, l)' /\ j < l => Before(ring'[k][j], ring'[k][l])
      BY <1>1 DEF FrameOrder
    <2>4. \A s \in DOMAIN sent' : \A j : Held(head, j)' /\ sent'[s].frame = head_frame
                                         => Before(sent'[s].mess, ring'[head][j])
      <3> SUFFICES ASSUME NEW s \in DOMAIN sent', NEW j, NEW h, h = head,
                          Held(h, j)', sent'[s].frame = head_frame
                   PROVE  Before(sent'[s].mess, ring[h][j])
        BY <1>1
      <3>1. CASE s = n + 1
        BY <1>1, <2>1, <3>1
      <3>2. CASE s \in 1 .. n
        BY <1>1, <2>1, <3>2 DEF FrameOrder
      <3> QED BY <2>1, <2>2, <3>1, <3>2
    <2>5. \A s, t \in DOMAIN sent' : s < t /\ sent'[s].frame = sent'[t].frame
                                         => Before(sent'[s].mess, sent'[t].mess)
      <3> SUFFICES ASSUME NEW s \in 1 .. n + 1, NEW t \in 1 .. n + 1, s < t,
                          sent'[s].frame = sent'[t].frame
                   PROVE  Before(sent'[s].mess, sent'[t].mess)
        BY <2>1
      <3>1. s \in 1 .. n
        OBVIOUS
      <3>2. CASE t = n + 1
        BY <1>1, <2>1, <3>1, <3>2
      <3>3. CASE t \in 1 .. n
        BY <2>1, <3>1, <3>3 DEF FrameOrder
      <3> QED BY <2>2, <3>2, <3>3
    <2> QED BY <1>1, <2>3, <2>4, <2>5 DEF FrameOrder
  <1>2. CASE SendEmptyFrame
    <2>1. UNCHANGED <<ring, head, head_frame>> /\ i = 0 /\ i' = 0
      BY <1>0, <1>2 DEF SendEmptyFrame, Shape
    <2>2. \A k, j : Held(k, j)' <=> Held(k, j)
      BY <2>1 DEF Held
    <2>3. CASE sent' = sent
      BY <2>1, <2>2, <2>3 DEF FrameOrder
    <2>4. CASE sent' = Append(sent, [frame |-> head_frame, mess |-> Mark])
      <3>1. \A x : Before(x, Mark) /\ Before(Mark, x)
        BY DEF Before, Mark
      <3> QED BY <1>1, <2>1, <2>2, <2>4, <3>1
    <2> QED BY <1>2, <2>3, <2>4 DEF SendEmptyFrame, EmptyFrameSent
  <1>3. CASE SendOne
    <2>1. /\ UNCHANGED <<ring, head, head_frame>> /\ i < Len(ring[head]) /\ i' = i + 1
          /\ sent' = Append(sent, [frame |-> head_frame, mess |-> ring[head][i + 1]])
      BY <1>3 DEF SendOne
    <2>2. head \in Slot /\ ring \in [Slot -> Seq(Mess)] /\ ring[head] \in Seq(Mess) /\ i \in Nat
      BY <1>0 DEF TypeOK
    <2>3. Held(head, i + 1) /\ ring[head][i + 1] \in Mess
      BY <2>1, <2>2 DEF Held
    <2>4. \A k, j : Held(k, j)' => Held(k, j) /\ (k = head => i + 1 < j)
      <3>1. \A k \in Slot : \A j \in DOMAIN ring[k] : j \in Nat
        BY <2>2
      <3> QED BY <2>1, <2>2, <3>1 DEF Held
    <2>5. PICK h : h = head
      OBVIOUS
    <2>6. \A j : Held(h, j)' => Before(ring[head][i + 1], ring[head][j])
      BY <2>3, <2>4, <2>5 DEF FrameOrder
    <2>7. \A s \in DOMAIN sent : sent[s].frame = head_frame => Before(sent[s].mess, ring[head][i + 1])
      BY <2>3 DEF FrameOrder
    <2>8. \A j : Held(head, j)' => Before(ring[head][i + 1], ring[head][j])
      BY <2>1, <2>5, <2>6
    <2>9. PICK x \in Mess : x = ring[head][i + 1]
      BY <2>3
    <2> QED BY <1>1, <2>1, <2>4, <2>7, <2>8, <2>9
  <1>4. CASE SendDone
    <2>1. /\ i >= Len(ring[head]) /\ i' = 0 /\ sent' = sent /\ head_frame' = head_frame + 1
          /\ ring' = [ring EXCEPT ![head] = <<>>]
      BY <1>4 DEF SendDone, Emptied
    <2>2. /\ head \in Slot /\ ring \in [Slot -> Seq(Mess)] /\ i \in Nat /\ Len(ring[head]) \in Nat
          /\ head_frame \in Nat
      BY <1>0 DEF TypeOK
    <2>3. ring'[head] = <<>> /\ \A k \in Slot : k # head => ring'[k] = ring[k]
      BY <2>1, <2>2
    <2>4. \A k, j : Held(k, j)' => Held(k, j) /\ ring'[k][j] = ring[k][j]
      <3>1. \A k \in Slot : \A j : j \in DOMAIN ring'[k] => k # head
        BY <2>3
      <3> QED BY <2>2, <2>3, <3>1 DEF Held
    <2>5. \A s \in DOMAIN sent : sent[s].frame # head_frame + 1
      <3>1. \A s \in DOMAIN sent : sent[s].frame \in 1 .. head_frame
        BY <1>0 DEF Framed
      <3> QED BY <2>2, <3>1
    <2> QED BY <2>1, <2>4, <2>5 DEF FrameOrder
  <1> QED BY <1>2, <1>3, <1>4

\* The order of the frames of the operations, when one is added.
LEMMA OperationDueOrder ==
    ASSUME RingFits, IInv, Timed, phase = "ingame", clock <= ran + 1, DueOrder,
           NEW p \in Player, NEW f \in Int, Operation(p, f)
    PROVE  DueOrder'
  <1>0. TypeOK /\ Shape /\ \A x \in added : Old(x)
    BY DEF IInv, Once
  <1>1. /\ run = "idle" /\ f >= cframe[p] /\ cframe' = [cframe EXCEPT ![p] = f]
        /\ head_frame' = head_frame /\ Add(Message(p, "op", f), f)
    BY SynAssumption, <1>0 DEF Operation, TypeOK
  <1>2. cframe \in [Player -> Int] /\ added \subseteq Mess /\ count \in Int /\ head_frame \in Int
    BY <1>0, SynAssumption, SMTT(40) DEF TypeOK
  <1>3. \A q \in Player : cframe[q] \in Int /\ cframe'[q] \in Int /\ cframe[q] <= cframe'[q]
    BY <1>1, <1>2
  <1>4. \A x \in Mess : x.from \in Player /\ x.due \in Int /\ x.n \in Int
    BY SynAssumption DEF Mess
  <1>5. \A x \in added : x.kind = "op" => x.due <= cframe'[x.from] \/ x.due <= head_frame'
    <2> SUFFICES ASSUME NEW x \in added, x.kind = "op"
                 PROVE  x.due <= cframe'[x.from] \/ x.due <= head_frame'
      OBVIOUS
    <2>1. x.due <= cframe[x.from] \/ x.due <= head_frame
      BY DEF DueOrder
    <2>2. x.from \in Player /\ x.due \in Int
      BY <1>2, <1>4
    <2>3. cframe[x.from] \in Int /\ cframe'[x.from] \in Int /\ cframe[x.from] <= cframe'[x.from]
      BY <1>3, <2>2
    <2> QED BY <1>1, <2>1, <2>2, <2>3
  <1>6. CASE added' = added
    BY <1>5, <1>6 DEF DueOrder
  <1>7. CASE added' # added
    <2>1. PICK m \in Mess : m = Message(p, "op", f)
      BY <1>0, MessageFacts
    <2>2. /\ m.from = p /\ m.n = count
          /\ m.due = IF OnTime(f) THEN f ELSE head_frame
      BY <1>0, <2>1, MessageFacts DEF Message
    <2>3. Add(m, f)
      BY <1>1, <2>1
    <2>4. PICK d : Placed(m, d)
      BY <1>0, <1>1, <1>7, <2>1, <2>3, AddPlaces
    <2>5. added' = added \cup {m} /\ m.due >= head_frame
      BY <1>2, <2>4 DEF Placed, StoredAt, Slot
    <2>6. OnTime(f) \/ Late(f)
      BY <1>7, <2>3 DEF Add
    <2>7. m.due >= f /\ (m.due = f \/ m.due = head_frame)
      <3>1. CASE OnTime(f)
        BY <2>2, <3>1
      <3>2. CASE ~OnTime(f)
        <4>1. f + AllowedDelay < clock /\ ran <= head_frame + AllowedDelay
          BY <1>1, <2>6, <3>2 DEF Late, Timed
        <4> QED BY <1>0, <2>2, <3>2, <4>1, Numbers
      <3> QED BY <3>1, <3>2
    <2>8. cframe'[p] = f /\ m.due \in Int
      BY <1>1, <1>2, <1>4
    <2>9. m.due <= cframe'[m.from] \/ m.due <= head_frame'
      BY <1>1, <1>2, <2>2, <2>7, <2>8
    <2>10. ASSUME NEW x \in added, x.kind = "op" PROVE x.n < m.n /\ (x.from = p => x.due <= m.due)
      <3>1. x.n < m.n
        BY <1>0, <2>2, <2>10 DEF Old
      <3>2. ASSUME x.from = p PROVE x.due <= m.due
        <4>1. x.due <= cframe[p] \/ x.due <= head_frame
          BY <2>10, <3>2 DEF DueOrder
        <4>2. x.due \in Int /\ cframe[p] \in Int
          BY <1>2, <1>3, <1>4
        <4> QED BY <1>1, <1>2, <2>5, <2>7, <2>8, <4>1, <4>2
      <3> QED BY <3>1, <3>2
    <2>11. ASSUME NEW x \in added', NEW y \in added', x.kind = "op", y.kind = "op",
                  x.from = y.from, x.n < y.n
           PROVE  x.due <= y.due
      <3>0. x.n \in Int /\ y.n \in Int
        BY <1>2, <1>4, <2>5
      <3>1. CASE y = m
        <4>1. x \in added
          BY <2>5, <2>11, <3>0, <3>1
        <4> QED BY <2>2, <2>10, <2>11, <3>1, <4>1
      <3>2. CASE y # m
        <4>1. y \in added /\ y.n < m.n
          BY <2>5, <2>10, <2>11, <3>2
        <4>2. x # m
          BY <2>11, <3>0, <4>1
        <4>3. x \in added
          BY <2>5, <4>2
        <4> QED BY <2>11, <4>1, <4>3 DEF DueOrder
      <3> QED BY <3>1, <3>2
    <2> QED BY <1>5, <2>5, <2>9, <2>11 DEF DueOrder
  <1> QED BY <1>6, <1>7

\* The other messages are not operations.
LEMMA OtherDueOrder ==
    ASSUME TypeOK, DueOrder, NEW m, added' = added \/ added' = added \cup {m}, m.kind # "op",
           cframe' = cframe, head_frame' = head_frame
    PROVE  DueOrder'
  BY DEF DueOrder

\* A step with the history variable
LEMMA StalledStays ==
    ASSUME [LNext]_<<vars, stalled>>
    PROVE  [Next]_vars /\ (stalled => stalled')
  <1>1. CASE LNext
    BY <1>1, Zenon DEF LNext
  <1>2. CASE UNCHANGED <<vars, stalled>>
    BY <1>2, Zenon
  <1> QED BY <1>1, <1>2

\* Every step keeps the order, as long as the main loop does not stall.
LEMMA NextOrder ==
    ASSUME RingFits, IInv, Timed, OrderInv, [LNext]_<<vars, stalled>>
    PROVE  OrderInv'
  <1>0. TypeOK /\ Shape
    BY DEF IInv
  <1>1. [Next]_vars /\ (stalled => stalled')
    BY StalledStays
  <1>2. Punctual'
    <2>1. CASE LNext
      <3>1. phase' = "ingame" /\ ~(clock' > ran' + 1) => clock' <= ran' + 1
        BY <1>0, <1>1, NextKeeps, SMTT(40) DEF IInv, TypeOK
      <3> QED BY <2>1, <3>1 DEF LNext, Punctual
    <2>2. CASE UNCHANGED <<vars, stalled>>
      BY <2>2 DEF vars, OrderInv, Punctual
    <2> QED BY <2>1, <2>2
  <1>3. ASSUME UNCHANGED <<ring, head, head_frame, i, sent, added, cframe>>,
               phase' = "ingame" => phase = "ingame"
        PROVE  phase' = "ingame" => FrameOrder' /\ (stalled' \/ DueOrder')
    <2>1. FrameOrder => FrameOrder'
      BY <1>3 DEF FrameOrder, Held
    <2>2. DueOrder => DueOrder'
      BY <1>3 DEF DueOrder
    <2> QED BY <1>1, <1>3, <2>1, <2>2 DEF OrderInv
  <1>4. ASSUME NEW p \in Player, NEW f \in FirstFrame .. MaxFrame + AllowedAhead + 1, Operation(p, f)
        PROVE  phase' = "ingame" => FrameOrder' /\ (stalled' \/ DueOrder')
    <2>1. f \in Int
      BY SynAssumption
    <2>2. phase' = phase
      BY <1>4 DEF Operation
    <2>3. PICK m : Says(m) /\ m.n = count
      BY <1>0, <1>4, <2>1, OperationSays
    <2>4. phase = "ingame" => FrameOrder'
      BY <2>3, SaysFrameOrder DEF OrderInv
    <2>5. phase = "ingame" /\ ~stalled => DueOrder'
      BY <1>4, <2>1, OperationDueOrder DEF OrderInv, Punctual
    <2> QED BY <1>1, <2>2, <2>4, <2>5
  <1>5. ASSUME NEW p \in Player, CSChoseRole(p) \/ ExitGame(p)
        PROVE  phase' = "ingame" => FrameOrder' /\ (stalled' \/ DueOrder')
    <2>1. PICK m : Says(m) /\ m.kind # "op"
      BY <1>0, <1>5, ChoseRoleSays, ExitSays
    <2>2. phase' = phase /\ cframe' = cframe /\ head_frame' = head_frame
      BY <1>5 DEF CSChoseRole, ExitGame
    <2>3. phase = "ingame" => FrameOrder'
      BY <2>1, SaysFrameOrder DEF OrderInv
    <2>4. added' = added \/ added' = added \cup {m}
      BY <2>1 DEF Says, Taken, StoredAt
    <2>5. DueOrder => DueOrder'
      BY <1>0, <2>1, <2>2, <2>4, OtherDueOrder
    <2> QED BY <1>1, <2>2, <2>3, <2>5 DEF OrderInv
  <1>6. ASSUME NEW p \in Player, CSGameEnd(p)
        PROVE  phase' = "ingame" => FrameOrder' /\ (stalled' \/ DueOrder')
    BY <1>3, <1>6 DEF CSGameEnd
  <1>7. CASE GameOver \/ TimePasses \/ Run \/ UNCHANGED vars
    <2>1. phase' = "ingame" => FrameOrder' /\ (stalled' \/ DueOrder')
      BY <1>3, <1>7 DEF GameOver, TimePasses, Run, vars
    <2> QED BY <1>2, <2>1 DEF OrderInv
  <1>8. CASE GameStart
    <2>1. added' = {} /\ sent' = <<>> /\ \A k \in Slot : ring'[k] = <<>>
      BY <1>8 DEF GameStart, ClearedRing, EmptyRing
    <2>2. DOMAIN sent' = {} /\ \A k \in Slot : DOMAIN ring'[k] = {}
      BY <2>1
    <2>3. FrameOrder' /\ DueOrder'
      BY <2>1, <2>2 DEF FrameOrder, DueOrder, Held
    <2> QED BY <1>2, <2>3 DEF OrderInv
  <1>9. CASE SendEmptyFrame \/ SendOne \/ SendDone
    <2>1. phase' = phase /\ UNCHANGED <<added, cframe>> /\ head_frame' \in {head_frame, head_frame + 1}
          /\ phase = "ingame"
      BY <1>0, <1>9 DEF SendEmptyFrame, SendOne, SendDone, Shape
    <2>2. FrameOrder'
      BY <1>9, <2>1, SendFrameOrder DEF OrderInv
    <2>3. DueOrder => DueOrder'
      <3>1. \A m \in added : m.due \in Int /\ head_frame \in Int
        BY <1>0 DEF TypeOK, Mess
      <3>2. \A m \in added : m.due <= head_frame => m.due <= head_frame'
        BY <2>1, <3>1
      <3> QED BY <2>1, <3>2 DEF DueOrder
    <2> QED BY <1>1, <1>2, <2>1, <2>2, <2>3 DEF OrderInv
  <1>10. [Next]_vars => \/ \E p \in Player :
                             \/ \E f \in FirstFrame .. MaxFrame + AllowedAhead + 1 : Operation(p, f)
                             \/ CSChoseRole(p) \/ ExitGame(p) \/ CSGameEnd(p)
                        \/ GameOver \/ TimePasses \/ Run \/ UNCHANGED vars \/ GameStart
                        \/ SendEmptyFrame \/ SendOne \/ SendDone
    BY DEF Next, CSMove, CSKill, CSSkill, CSGamePause
  <1> QED BY <1>1, <1>2, <1>4, <1>5, <1>6, <1>7, <1>8, <1>9, <1>10 DEF OrderInv

\* The history variable changes nothing.
LEMMA LineSpecs == LSpec => Spec
  <1>1. LInit => Init
    BY DEF LInit
  <1>2. [LNext]_<<vars, stalled>> => [Next]_vars
    BY DEF LNext, vars
  <1> QED BY <1>1, <1>2, PTL DEF LSpec, Spec

\* As long as no two frames pass between two calls of Run, the operations of a
\* player are broadcast in the order he sent them: a late one, which SYN::Add
\* puts into the head slot, is not put before an earlier one.
THEOREM OperationsInOrder == ASSUME RingFits PROVE LSpec => []PlayerOrderUntil
  <1>1. LInit => OrderInv /\ PlayerOrderUntil
    BY DEF LInit, Init, OrderInv, Punctual, PlayerOrderUntil, PlayerOrder
  <1>2. IInv /\ Timed /\ OrderInv /\ [LNext]_<<vars, stalled>> => OrderInv'
    BY NextOrder
  <1>3. IInv /\ InSlot /\ OrderInv => (phase = "ingame" => PlayerOrderUntil)
    BY OrderSuffices DEF OrderInv, PlayerOrderUntil
  <1>4. IInv /\ PlayerOrderUntil /\ [LNext]_<<vars, stalled>>
            => ((phase = "ingame")' \/ PlayerOrderUntil')
    <2> SUFFICES ASSUME IInv, PlayerOrderUntil, [LNext]_<<vars, stalled>>, phase' # "ingame"
                 PROVE  PlayerOrderUntil'
      OBVIOUS
    <2>1. [Next]_vars /\ (stalled => stalled')
      BY StalledStays
    <2>2. sent' = sent
      <3>1. phase # "ingame" => run = "idle"
        BY DEF IInv, Shape
      <3>2. ~GameStart /\ ~SendEmptyFrame /\ ~SendOne /\ ~SendDone
        BY <3>1 DEF GameStart, SendEmptyFrame, SendOne, SendDone
      <3> QED BY <2>1, <3>2 DEF Next, vars, CSMove, CSKill, CSSkill, CSGamePause, Operation,
                                CSChoseRole, ExitGame, CSGameEnd, GameOver, TimePasses, Run
    <2> QED BY <2>1, <2>2 DEF PlayerOrderUntil, PlayerOrder
  <1> QED BY <1>1, <1>2, <1>3, <1>4, LineSpecs, Invariant, AlwaysTimed, AlwaysInSlot, PTL DEF LSpec
=============================================================================
