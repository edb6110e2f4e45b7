--------------------------- MODULE CMessageProofs ---------------------------
(***************************************************************************)
(* The table of handlers and the owners of protobuf messages, for every    *)
(* set of message ids and handlers and every size of the ring of SYN.      *)
(***************************************************************************)
EXTENDS MC_CMessage, FiniteSetTheorems, WellFoundedInduction, TLAPS

-----------------------------------------------------------------------------
(* MessageProcessorRegister. *)

\* The type and the handler of an id were entered by the same static object.
RegisterAgrees ==
    /\ m_proto_type \in [Ids -> {e.type : e \in Entries} \cup {NULL}]
    /\ m_processor \in [Ids -> Entries \cup {NULL}]
    /\ \A id \in Ids : \/ m_proto_type[id] = NULL /\ m_processor[id] = NULL
                       \/ m_processor[id] # NULL /\ m_processor[id].type = m_proto_type[id]

HInv == RegisterAgrees /\ HandlerFits

\* Construction of a static object enters both or neither.
LEMMA RegisterKeeps ==
    ASSUME RegisterAgrees, NEW e \in Entries, REGISTE_MESSAGE_ID(e)
    PROVE  RegisterAgrees'
  <1>1. e.id \in Ids /\ e.type # NULL /\ e # NULL /\ e.type \in {x.type : x \in Entries}
    BY CodecAssumption
  <1>2. CASE m_proto_type[e.id] = NULL
    <2>1. m_processor[e.id] = NULL
      BY <1>1, <1>2, CodecAssumption DEF RegisterAgrees
    <2>2. m_proto_type' = [m_proto_type EXCEPT ![e.id] = e.type]
          /\ m_processor' = [m_processor EXCEPT ![e.id] = e]
      BY <1>2, <2>1 DEF REGISTE_MESSAGE_ID, RegistMessage, RegistProcessor
    <2> QED BY <1>1, <2>2 DEF RegisterAgrees
  <1>3. CASE m_proto_type[e.id] # NULL
    <2>1. m_processor[e.id] # NULL
      BY <1>1, <1>3 DEF RegisterAgrees
    <2>2. m_proto_type' = m_proto_type /\ m_processor' = m_processor
      BY <1>3, <2>1 DEF REGISTE_MESSAGE_ID, RegistMessage, RegistProcessor
    <2> QED BY <2>2 DEF RegisterAgrees
  <1> QED BY <1>2, <1>3

\* ParseStrToMessage looks the type and the handler up with the same id.
LEMMA ParseFits ==
    ASSUME RegisterAgrees, NEW s, ParseStrToMessage(s)
    PROVE  HandlerFits'
  <1> DEFINE data == s \o SubSeq(recv_data, Len(s) + 1, MaxLen)
             id   == Signed(Field(data, 2))
             type == CreateMessage(id)
  <1>1. \/ handled' = [sent |-> s, got |-> NULL, type |-> NULL, by |-> NULL]
        \/ \E m \in Decode(type, data, Len(s)) :
               handled' = [sent |-> s, got |-> m, type |-> type, by |-> ProcessRequest(m)]
    BY DEF ParseStrToMessage
  <1>2. ASSUME NEW m \in Decode(type, data, Len(s)) PROVE type # NULL /\ m.head.message_id = id
    <2>1. DecodeHead(data).message_id = id
      BY DEF DecodeHead
    <2>2. type # NULL /\ \E c : m = [head |-> DecodeHead(data), proto |-> c]
      BY <1>2 DEF Decode
    <2> QED BY <2>1, <2>2
  <1> HIDE DEF data, id, type
  <1>3. CASE handled' = [sent |-> s, got |-> NULL, type |-> NULL, by |-> NULL]
    BY <1>3 DEF HandlerFits
  <1>4. ASSUME NEW m \in Decode(type, data, Len(s)),
               handled' = [sent |-> s, got |-> m, type |-> type, by |-> ProcessRequest(m)]
        PROVE  HandlerFits'
    <2>1. type # NULL /\ m.head.message_id = id
      BY <1>2
    <2>2. id \in Ids /\ type = m_proto_type[id]
      BY <2>1 DEF type, CreateMessage
    <2>3. ProcessRequest(m) = m_processor[id]
      BY <2>1, <2>2 DEF ProcessRequest
    <2>4. m_processor[id] # NULL /\ m_processor[id].type = type
      BY <2>1, <2>2 DEF RegisterAgrees
    <2> QED BY <1>4, <2>3, <2>4 DEF HandlerFits
  <1> QED BY <1>1, <1>3, <1>4

\* Every step keeps both.
LEMMA NextFits ==
    ASSUME HInv, [Next]_vars
    PROVE  HInv'
  <1>1. ASSUME NEW e \in Entries, REGISTE_MESSAGE_ID(e) PROVE HInv'
    <2>1. handled' = handled
      BY <1>1 DEF REGISTE_MESSAGE_ID
    <2> QED BY <1>1, <2>1, RegisterKeeps DEF HInv, HandlerFits
  <1>2. ASSUME NEW s, ParseStrToMessage(s) PROVE HInv'
    <2>1. UNCHANGED <<m_proto_type, m_processor>>
      BY <1>2 DEF ParseStrToMessage
    <2> QED BY <1>2, <2>1, ParseFits DEF HInv, RegisterAgrees
  <1>3. ASSUME UNCHANGED <<m_proto_type, m_processor, handled>> PROVE HInv'
    BY <1>3 DEF HInv, RegisterAgrees, HandlerFits
  <1>4. ASSUME NEW k, NEW f, NEW c, NewMessage(k, f, c) PROVE HInv'
    BY <1>3, <1>4 DEF NewMessage
  <1>5. ASSUME NEW f, SetFrame(f) PROVE HInv'
    BY <1>3, <1>5 DEF SetFrame
  <1>6. CASE SendMessageByConnfd \/ UNCHANGED vars
    BY <1>3, <1>6 DEF SendMessageByConnfd, vars
  <1> QED BY <1>1, <1>2, <1>4, <1>5, <1>6 DEF Next

\* Whatever the order of the static objects, and even if two of them have the
\* same id, ProcessRequest gives a message to a handler of its type.
THEOREM HandlersFit == CMessageSpec => []HandlerFits
  <1>1. CMessageInit => HInv
    BY DEF CMessageInit, Init, HInv, RegisterAgrees, HandlerFits
  <1>2. HInv /\ [CMessageNext]_<<vars, side, o_vars>> => HInv'
    <2>1. [CMessageNext]_<<vars, side, o_vars>> => [Next]_vars
      BY DEF CMessageNext
    <2> QED BY <2>1, NextFits
  <1>3. HInv => HandlerFits
    BY DEF HInv
  <1> QED BY <1>1, <1>2, <1>3, PTL DEF CMessageSpec

-----------------------------------------------------------------------------
(* The owners of the protobuf messages. *)

Place == O!Ring \X (1 .. Slots)

Local == [proto : O!Protos, use : {"request", "add", "send"}]

\* H is what is allocated, S the slots, L the other objects: whatever is in H
\* has one owner among them, and they own nothing else.
Own(H, S, L) ==
    /\ \A f \in O!Ring, i \in 1 .. Slots : S[f][i] = 0 \/ S[f][i] \in H
    /\ \A f, g \in O!Ring, i, j \in 1 .. Slots :
           S[f][i] # 0 /\ S[f][i] = S[g][j] => f = g /\ i = j
    /\ \A l \in DOMAIN L : /\ L[l].proto \in H
                           /\ \A f \in O!Ring, i \in 1 .. Slots : S[f][i] # L[l].proto
    /\ \A l, m \in DOMAIN L : L[l].proto = L[m].proto => l = m
    /\ \A p \in H : \/ \E f \in O!Ring, i \in 1 .. Slots : S[f][i] = p
                    \/ \E l \in DOMAIN L : L[l].proto = p

\* At most two objects are nested, and what nests in another is to be added.
Nested == Len(locals) <= 2 /\ (Len(locals) = 2 => locals[2].use = "add")

\* The slots in use have a message.
Filled == \A f \in O!Ring : \A i \in 1 .. num[f] : slots[f][i] # 0

OInv == O!TypeOK /\ Own(heap, slots, locals) /\ Nested /\ Filled /\ O!SentIntact

\* A set of natural numbers that is not empty has a least one.
LEMMA LeastExists ==
    ASSUME NEW T, T \subseteq Nat, T # {}
    PROVE  \E x \in T : \A y \in T : x <= y
  <1> DEFINE R == OpToRel(<, Nat)
  <1>1. \A a, b \in Nat : a < b => <<a, b>> \in R
    BY DEF OpToRel
  <1>2. IsWellFoundedOn(R, Nat)
    BY NatLessThanWellFounded
  <1> HIDE DEF R
  <1>3. PICK x \in T : \A y \in T : <<y, x>> \notin R
    BY <1>2, WFMin
  <1>4. ASSUME NEW y \in T PROVE x <= y
    <2>1. x \in Nat /\ y \in Nat
      OBVIOUS
    <2>2. ~ (y < x)
      BY <2>1, <1>1, <1>3
    <2> QED BY <2>1, <2>2
  <1> QED BY <1>4

\* There are as many places as the ring has slots, and four protobuf messages more.
LEMMA Sizes ==
           /\ Frames \in Nat \ {0} /\ Slots \in Nat \ {0} /\ Frames * Slots \in Nat
           /\ IsFiniteSet(Place) /\ Cardinality(Place) = Frames * Slots
           /\ IsFiniteSet(O!Protos) /\ Cardinality(O!Protos) = Frames * Slots + 4
           /\ O!Protos \subseteq Nat \ {0}
  <1>1. Frames \in Nat \ {0} /\ Slots \in Nat \ {0}
    BY SlotsAssumption DEF O!OwnerAssumption
  <1>2. PICK n \in Nat : n = Frames * Slots
    BY <1>1
  <1>3. IsFiniteSet(O!Ring) /\ Cardinality(O!Ring) = Frames
    <2>1. IsFiniteSet(0 .. Frames - 1)
          /\ Cardinality(0 .. Frames - 1) = IF 0 > Frames - 1 THEN 0 ELSE Frames - 1 - 0 + 1
      BY <1>1, FS_Interval
    <2> QED BY <1>1, <2>1 DEF O!Ring
  <1>4. IsFiniteSet(1 .. Slots) /\ Cardinality(1 .. Slots) = Slots
    <2>1. IsFiniteSet(1 .. Slots) /\ Cardinality(1 .. Slots) = IF 1 > Slots THEN 0 ELSE Slots - 1 + 1
      BY <1>1, FS_Interval
    <2> QED BY <1>1, <2>1
  <1>5. IsFiniteSet(Place) /\ Cardinality(Place) = Frames * Slots
    BY <1>3, <1>4, FS_Product DEF Place
  <1>6. O!Protos = 1 .. n + 4
    BY <1>2 DEF O!Protos
  <1>7. IsFiniteSet(1 .. n + 4) /\ Cardinality(1 .. n + 4) = n + 4
    <2>1. IsFiniteSet(1 .. n + 4) /\ Cardinality(1 .. n + 4) = IF 1 > n + 4 THEN 0 ELSE n + 4 - 1 + 1
      BY FS_Interval
    <2> QED BY <2>1
  <1>8. 1 .. n + 4 \subseteq Nat \ {0}
    OBVIOUS
  <1> QED BY <1>1, <1>2, <1>5, <1>6, <1>7, <1>8

\* Fewer messages are owned than there are numbers.
LEMMA SomeFree ==
    ASSUME OInv
    PROVE  O!Protos \ heap # {}
  <1> SUFFICES ASSUME O!Protos \subseteq heap PROVE FALSE
    OBVIOUS
  <1>1. Own(heap, slots, locals) /\ Len(locals) \in Nat /\ Len(locals) <= 2
        /\ DOMAIN locals = 1 .. Len(locals)
    BY DEF OInv, Nested, O!TypeOK
  <1> DEFINE T == {p \in heap : \E o \in Place : slots[o[1]][o[2]] = p}
             g == [p \in T |-> CHOOSE o \in Place : slots[o[1]][o[2]] = p]
             a == locals[1].proto
             b == locals[2].proto
  <1>2. \A p \in T : g[p] \in Place /\ slots[g[p][1]][g[p][2]] = p
    OBVIOUS
  <1>3. g \in Injection(T, Place)
    <2>1. g \in [T -> Place]
      BY <1>2
    <2>2. \A p, q \in T : g[p] = g[q] => p = q
      BY <1>2
    <2> HIDE DEF g
    <2> QED BY <2>1, <2>2 DEF Injection, IsInjective
  <1>4. ASSUME NEW p \in heap PROVE p \in T \/ p = a \/ p = b
    <2>1. CASE \E f \in O!Ring, i \in 1 .. Slots : slots[f][i] = p
      <3>1. PICK f \in O!Ring, i \in 1 .. Slots : slots[f][i] = p
        BY <2>1
      <3>2. <<f, i>> \in Place /\ slots[<<f, i>>[1]][<<f, i>>[2]] = p
        BY <3>1 DEF Place
      <3> QED BY <3>2
    <2>2. CASE \E l \in DOMAIN locals : locals[l].proto = p
      <3>1. PICK l \in 1 .. Len(locals) : locals[l].proto = p
        BY <1>1, <2>2
      <3>2. l = 1 \/ l = 2
        BY <1>1
      <3> QED BY <3>1, <3>2
    <2> QED BY <1>1, <2>1, <2>2 DEF Own
  <1> HIDE DEF T, g, a, b
  <1>5. PICK n \in Nat : n = Frames * Slots
    BY Sizes
  <1>6. IsFiniteSet(T) /\ Cardinality(T) \in Nat /\ Cardinality(T) <= n
    <2>1. IsFiniteSet(T) /\ Cardinality(T) <= Cardinality(Place)
      BY <1>3, Sizes, FS_Injection
    <2>2. Cardinality(T) \in Nat
      BY <2>1, FS_CardinalityType
    <2> QED BY <1>5, <2>1, <2>2, Sizes
  <1>7. IsFiniteSet(T \cup {a}) /\ Cardinality(T \cup {a}) \in Nat /\ Cardinality(T \cup {a}) <= n + 1
    BY <1>6, FS_AddElement
  <1>8. PICK U : U = (T \cup {a}) \cup {b}
    OBVIOUS
  <1>9. IsFiniteSet(U) /\ Cardinality(U) \in Nat /\ Cardinality(U) <= n + 2
    <2>1. IsFiniteSet((T \cup {a}) \cup {b}) /\ Cardinality((T \cup {a}) \cup {b}) =
            IF b \in T \cup {a} THEN Cardinality(T \cup {a}) ELSE Cardinality(T \cup {a}) + 1
      BY <1>7, FS_AddElement
    <2> QED BY <1>7, <1>8, <2>1
  <1>10. O!Protos \in SUBSET U
    BY <1>4, <1>8
  <1>11. Cardinality(O!Protos) <= Cardinality(U)
    BY <1>9, <1>10, FS_Subset
  <1> QED BY <1>5, <1>9, <1>11, Sizes

\* new finds memory that nothing points to.
LEMMA NewFree ==
    ASSUME OInv
    PROVE  O!New \in O!Protos /\ O!New \notin heap /\ O!New # 0
  <1> DEFINE T == O!Protos \ heap
  <1>1. T \subseteq Nat /\ T # {}
    BY SomeFree, Sizes
  <1>2. \E p \in T : \A q \in T : p <= q
    <2> HIDE DEF T
    <2> QED BY <1>1, LeastExists
  <1>3. O!New \in T
    BY <1>2 DEF O!New
  <1> QED BY <1>3, Sizes

\* A new object owns what was not allocated.
LEMMA OwnMake ==
    ASSUME NEW H, NEW S, NEW R, NEW L \in Seq(R), NEW n, NEW u,
           Own(H, S, L), n \notin H, n # 0
    PROVE  Own(H \cup {n}, S, Append(L, [proto |-> n, use |-> u]))
  <1> DEFINE M == Append(L, [proto |-> n, use |-> u])
             k == Len(L) + 1
  <1>1. DOMAIN M = DOMAIN L \cup {k} /\ k \notin DOMAIN L
        /\ M[k].proto = n /\ \A l \in DOMAIN L : M[l] = L[l]
    OBVIOUS
  <1> HIDE DEF M, k
  <1>2. \A l \in DOMAIN M : M[l].proto \in H \cup {n}
                            /\ \A f \in O!Ring, i \in 1 .. Slots : S[f][i] # M[l].proto
    BY <1>1 DEF Own
  <1>3. \A l, m \in DOMAIN M : M[l].proto = M[m].proto => l = m
    BY <1>1 DEF Own
  <1>4. \A p \in H \cup {n} : \/ \E f \in O!Ring, i \in 1 .. Slots : S[f][i] = p
                              \/ \E l \in DOMAIN M : M[l].proto = p
    <2> TAKE p \in H \cup {n}
    <2>1. CASE p = n
      BY <1>1, <2>1
    <2>2. CASE p \in H /\ \E l \in DOMAIN L : L[l].proto = p
      BY <1>1, <2>2
    <2> QED BY <2>1, <2>2 DEF Own
  <1>5. Own(H \cup {n}, S, M)
    BY <1>2, <1>3, <1>4 DEF Own
  <1> QED BY <1>5 DEF M

\* The object on top takes what it owns with it.
LEMMA OwnDestroy ==
    ASSUME NEW H, NEW S, NEW R, NEW L \in Seq(R), L # <<>>, Own(H, S, L)
    PROVE  Own(H \ {Last(L).proto}, S, Front(L))
  <1> DEFINE M == Front(L)
             k == Len(L)
             n == Last(L).proto
  <1>1. DOMAIN L = DOMAIN M \cup {k} /\ k \notin DOMAIN M
        /\ L[k].proto = n /\ \A l \in DOMAIN M : M[l] = L[l]
    <2>1. Len(L) \in Nat /\ Len(L) > 0 /\ DOMAIN L = 1 .. Len(L)
      OBVIOUS
    <2>2. M = SubSeq(L, 1, Len(L) - 1)
      BY DEF Front
    <2>3. DOMAIN M = 1 .. Len(L) - 1 /\ \A l \in 1 .. Len(L) - 1 : M[l] = L[l]
      BY <2>1, <2>2
    <2>4. L[k].proto = n
      BY DEF Last
    <2> HIDE DEF M, n
    <2> QED BY <2>1, <2>3, <2>4
  <1> HIDE DEF M, k, n
  <1>2. \A l \in DOMAIN M : M[l].proto \in H \ {n}
                            /\ \A f \in O!Ring, i \in 1 .. Slots : S[f][i] # M[l].proto
    BY <1>1 DEF Own
  <1>3. \A l, m \in DOMAIN M : M[l].proto = M[m].proto => l = m
    BY <1>1 DEF Own
  <1>4. \A p \in H \ {n} : \/ \E f \in O!Ring, i \in 1 .. Slots : S[f][i] = p
                           \/ \E l \in DOMAIN M : M[l].proto = p
    BY <1>1 DEF Own
  <1>5. \A f \in O!Ring, i \in 1 .. Slots : S[f][i] = 0 \/ S[f][i] \in H \ {n}
    BY <1>1 DEF Own
  <1>6. Own(H \ {n}, S, M)
    BY <1>2, <1>3, <1>4, <1>5 DEF Own
  <1> QED BY <1>6 DEF M, n

\* A slot forgets what it had and owns the copy.
LEMMA OwnCopy ==
    ASSUME NEW H, NEW B, NEW S \in [O!Ring -> [1 .. Slots -> B]], NEW L, NEW n,
           NEW f \in O!Ring, NEW j \in 1 .. Slots,
           Own(H, S, L), n \notin H, n # 0
    PROVE  Own((H \ {S[f][j]}) \cup {n}, [S EXCEPT ![f][j] = n], L)
  <1> DEFINE T == [S EXCEPT ![f][j] = n]
             K == (H \ {S[f][j]}) \cup {n}
  <1>1. T[f][j] = n /\ \A g \in O!Ring, i \in 1 .. Slots : (g # f \/ i # j) => T[g][i] = S[g][i]
    OBVIOUS
  <1>k. K = (H \ {S[f][j]}) \cup {n}
    OBVIOUS
  <1> HIDE DEF T, K
  <1>2. \A g \in O!Ring, i \in 1 .. Slots : T[g][i] = 0 \/ T[g][i] \in K
    <2> TAKE g \in O!Ring, i \in 1 .. Slots
    <2>1. CASE g = f /\ i = j
      BY <1>1, <1>k, <2>1
    <2>2. CASE g # f \/ i # j
      BY <1>1, <1>k, <2>2 DEF Own
    <2> QED BY <2>1, <2>2
  <1>3. ASSUME NEW g \in O!Ring, NEW h \in O!Ring, NEW i \in 1 .. Slots, NEW m \in 1 .. Slots,
               T[g][i] # 0, T[g][i] = T[h][m]
        PROVE  g = h /\ i = m
    <2>1. CASE (g = f /\ i = j) /\ (h = f /\ m = j)
      BY <2>1
    <2>2. CASE (g = f /\ i = j) /\ ~ (h = f /\ m = j)
      BY <1>1, <1>3, <2>2 DEF Own
    <2>3. CASE ~ (g = f /\ i = j) /\ (h = f /\ m = j)
      BY <1>1, <1>3, <2>3 DEF Own
    <2>4. CASE ~ (g = f /\ i = j) /\ ~ (h = f /\ m = j)
      BY <1>1, <1>3, <2>4 DEF Own
    <2> QED BY <2>1, <2>2, <2>3, <2>4
  <1>4. ASSUME NEW l \in DOMAIN L
        PROVE  L[l].proto \in K /\ \A g \in O!Ring, i \in 1 .. Slots : T[g][i] # L[l].proto
    BY <1>1, <1>k DEF Own
  <1>5. \A p \in K : \/ \E g \in O!Ring, i \in 1 .. Slots : T[g][i] = p
                     \/ \E l \in DOMAIN L : L[l].proto = p
    <2> TAKE p \in K
    <2>1. CASE p = n
      BY <1>1, <2>1
    <2>2. CASE p # n /\ \E g \in O!Ring, i \in 1 .. Slots : S[g][i] = p
      <3>1. PICK g \in O!Ring, i \in 1 .. Slots : S[g][i] = p
        BY <2>2
      <3>2. g # f \/ i # j
        BY <1>k, <2>2, <3>1
      <3> QED BY <1>1, <3>1, <3>2
    <2>3. CASE p # n /\ \E l \in DOMAIN L : L[l].proto = p
      BY <2>3
    <2> QED BY <1>k, <2>1, <2>2, <2>3 DEF Own
  <1>6. \A l, m \in DOMAIN L : L[l].proto = L[m].proto => l = m
    BY DEF Own
  <1>7. Own(K, T, L)
    BY <1>2, <1>3, <1>4, <1>5, <1>6 DEF Own
  <1> QED BY <1>7 DEF T, K

\* The types of the stack and of its top
LEMMA LocalsFacts ==
    ASSUME OInv
    PROVE  /\ locals \in Seq(Local) /\ Len(locals) \in Nat /\ Len(locals) <= 2
           /\ DOMAIN locals = 1 .. Len(locals)
           /\ locals # <<>> => Len(locals) > 0 /\ O!Top = locals[Len(locals)]
  <1>1. locals \in Seq(Local)
    BY DEF OInv, O!TypeOK, Local
  <1>2. O!Top = locals[Len(locals)]
    BY DEF O!Top, O!Last
  <1> QED BY <1>1, <1>2 DEF OInv, Nested

\* The steps that make an object: Receive, NewOperation, NewExit and the
\* frame without messages.
LEMMA MakeKeeps ==
    ASSUME OInv, NEW u \in {"request", "add", "send"}, O!Make(u),
           locals = <<>> \/ (u = "add" /\ Len(locals) = 1),
           UNCHANGED <<slots, num, head, at, what>>
    PROVE  OInv'
  <1>1. PICK n : n = O!New
    OBVIOUS
  <1>2. n \in O!Protos /\ n \notin heap /\ n # 0
    BY <1>1, NewFree
  <1>3. heap' = heap \cup {n} /\ locals' = Append(locals, [proto |-> n, use |-> u])
    BY <1>1 DEF O!Make
  <1>4. Own(heap', slots', locals')
    <2>1. Own(heap \cup {n}, slots, Append(locals, [proto |-> n, use |-> u]))
      BY <1>2, LocalsFacts, OwnMake DEF OInv
    <2> QED BY <1>3, <2>1
  <1>5. locals' \in Seq(Local) /\ Nested'
    <2>1. [proto |-> n, use |-> u] \in Local
      BY <1>2 DEF Local
    <2>2. PICK e \in Local : e = [proto |-> n, use |-> u]
      BY <2>1
    <2>3. e.use = u
      BY <2>2
    <2>4. locals' = Append(locals, e)
      BY <1>3, <2>2
    <2> QED BY <2>3, <2>4, LocalsFacts DEF Nested
  <1>6. O!TypeOK'
    BY <1>2, <1>3, <1>5 DEF OInv, O!TypeOK, Local
  <1>7. Filled' /\ O!SentIntact'
    BY <1>3 DEF OInv, Filled, O!SentIntact
  <1> QED BY <1>4, <1>5, <1>6, <1>7 DEF OInv

\* The stack without its top
LEMMA FrontFacts ==
    ASSUME OInv, locals # <<>>, locals' = O!Front(locals)
    PROVE  locals' \in Seq(Local) /\ Nested'
  <1>1. locals' = SubSeq(locals, 1, Len(locals) - 1)
    BY DEF O!Front
  <1>2. Len(locals) \in Nat /\ Len(locals) > 0 /\ Len(locals) <= 2 /\ locals \in Seq(Local)
    BY LocalsFacts
  <1>3. locals' \in Seq(Local) /\ Len(locals') = Len(locals) - 1
    <2>1. PICK n \in Nat : n = Len(locals) - 1
      BY <1>2
    <2>2. n <= Len(locals) /\ \A k \in 1 .. n : locals[k] \in Local
      BY <1>2, <2>1
    <2>3. locals' = [k \in 1 .. n |-> locals[k]]
      BY <1>1, <1>2, <2>1
    <2>4. DOMAIN [k \in 1 .. n |-> locals[k]] = 1 .. n /\ [k \in 1 .. n |-> locals[k]] \in [1 .. n -> Local]
      BY <2>2
    <2> QED BY <2>1, <2>3, <2>4
  <1>4. Len(locals') <= 1 /\ Len(locals') \in Nat
    BY <1>2, <1>3
  <1> QED BY <1>3, <1>4, SMTT(40) DEF Nested

\* Destruction of the object on top keeps the rest.
LEMMA DestroyOwns ==
    ASSUME OInv, locals # <<>>, O!Destroy(heap), slots' = slots
    PROVE  /\ Own(heap', slots', locals') /\ heap' \subseteq O!Protos
           /\ locals' \in Seq(Local) /\ Nested'
  <1>1. heap' = heap \ {O!Last(locals).proto} /\ locals' = O!Front(locals)
    BY DEF O!Destroy, O!Top
  <1>2. Own(heap \ {Last(locals).proto}, slots, Front(locals))
    BY LocalsFacts, OwnDestroy DEF OInv
  <1>3. O!Last(locals) = Last(locals) /\ O!Front(locals) = Front(locals)
    BY DEF O!Last, O!Front, Last, Front
  <1>4. Own(heap', slots', locals')
    BY <1>1, <1>2, <1>3
  <1>5. heap' \subseteq O!Protos
    BY <1>1 DEF OInv, O!TypeOK
  <1> QED BY <1>1, <1>4, <1>5, FrontFacts

\* What is broadcast is allocated because its slot owns it.
LEMMA IntactIfSlot ==
    ASSUME NEW H, NEW S, NEW L, NEW f \in O!Ring, NEW i \in 1 .. Slots, NEW w,
           Own(H, S, L), S[f][i] = w, w # 0
    PROVE  w \in H
  BY DEF Own

\* AddFails and DeleteRequest
LEMMA DestroyKeeps ==
    ASSUME OInv, locals # <<>>, O!Destroy(heap), UNCHANGED <<slots, num, head, at, what>>
    PROVE  OInv'
  <1>1. Own(heap', slots', locals') /\ heap' \subseteq O!Protos /\ locals' \in Seq(Local) /\ Nested'
    BY DestroyOwns
  <1>2. O!TypeOK'
    BY <1>1 DEF OInv, O!TypeOK, Local
  <1>3. O!SentIntact'
    <2> SUFFICES ASSUME at > 0 PROVE at <= num[head] /\ slots[head][at] = what /\ what \in heap'
      BY DEF O!SentIntact
    <2>1. at <= num[head] /\ slots[head][at] = what /\ what \in heap
      BY DEF OInv, O!SentIntact
    <2>2. head \in O!Ring /\ at \in 1 .. Slots /\ what # 0
      BY <2>1, Sizes DEF OInv, O!TypeOK
    <2>3. Own(heap', slots, locals')
      BY <1>1
    <2>4. what \in heap'
      BY <2>1, <2>2, <2>3, IntactIfSlot
    <2> QED BY <2>1, <2>4
  <1>4. Filled'
    BY DEF OInv, Filled
  <1> QED BY <1>1, <1>2, <1>3, <1>4 DEF OInv

\* The broadcast goes on or ends.
LEMMA ContinueKeeps ==
    ASSUME OInv, NEW i \in Nat \ {0}, O!Continue(i), slots' = slots,
           Own(heap', slots', locals'), heap' \subseteq O!Protos, locals' \in Seq(Local), Nested'
    PROVE  OInv'
  <1>1. head \in O!Ring /\ num \in [O!Ring -> 0 .. Slots] /\ Frames \in Nat \ {0} /\ Slots \in Nat \ {0}
        /\ slots \in [O!Ring -> [1 .. Slots -> O!Protos \cup {0}]]
    BY Sizes DEF OInv, O!TypeOK
  <1>2. CASE i <= num[head]
    <2>1. at' = i /\ what' = slots[head][i] /\ UNCHANGED <<num, head>>
      BY <1>2 DEF O!Continue
    <2>2. i \in 1 .. Slots /\ i \in 1 .. num[head]
      BY <1>1, <1>2
    <2>3. slots[head][i] # 0 /\ slots[head][i] \in O!Protos
      BY <1>1, <2>2 DEF OInv, Filled
    <2>4. slots[head][i] \in heap'
      <3>1. Own(heap', slots, locals')
        OBVIOUS
      <3> QED BY <1>1, <2>2, <2>3, <3>1, IntactIfSlot
    <2>5. O!SentIntact'
      BY <1>2, <2>1, <2>4 DEF O!SentIntact
    <2>6. Filled'
      BY <2>1 DEF OInv, Filled
    <2>7. O!TypeOK'
      BY <1>1, <2>1, <2>2, <2>3 DEF O!TypeOK, Local
    <2> QED BY <2>5, <2>6, <2>7 DEF OInv
  <1>3. CASE ~ (i <= num[head])
    <2>1. at' = 0 /\ what' = 0 /\ num' = [num EXCEPT ![head] = 0] /\ head' = (head + 1) % Frames
      BY <1>3 DEF O!Continue, O!NextHead
    <2>2. head' \in O!Ring
      BY <1>1, <2>1 DEF O!Ring
    <2>3. num' \in [O!Ring -> 0 .. Slots]
      BY <1>1, <2>1
    <2>4. Filled'
      BY <1>1, <2>1 DEF OInv, Filled
    <2>5. O!TypeOK'
      BY <1>1, <2>1, <2>2, <2>3 DEF O!TypeOK, Local
    <2>6. O!SentIntact'
      BY <2>1 DEF O!SentIntact
    <2> QED BY <2>4, <2>5, <2>6 DEF OInv
  <1> QED BY <1>2, <1>3

\* SYN::Add gives the slot a copy of its own before the original goes.
LEMMA AddKeeps ==
    ASSUME OInv, NEW f \in O!Ring, O!Add(f)
    PROVE  OInv'
  <1>1. locals # <<>> /\ num[f] < Slots /\ UNCHANGED <<head, at, what>>
    BY DEF O!Add, O!HasSlot
  <1>2. PICK n : n = O!New
    OBVIOUS
  <1>3. n \in O!Protos /\ n \notin heap /\ n # 0
    BY <1>2, NewFree
  <1>4. head \in O!Ring /\ num \in [O!Ring -> 0 .. Slots] /\ Slots \in Nat \ {0}
        /\ slots \in [O!Ring -> [1 .. Slots -> O!Protos \cup {0}]] /\ heap \subseteq O!Protos
        /\ at \in 0 .. Slots /\ what \in O!Protos \cup {0}
    BY Sizes DEF OInv, O!TypeOK
  <1>5. PICK j \in 1 .. Slots : j = num[f] + 1
    BY <1>1, <1>4
  <1>6. PICK K : K = (heap \ {slots[f][j]}) \cup {n}
    OBVIOUS
  <1>7. slots' = [slots EXCEPT ![f][j] = n] /\ num' = [num EXCEPT ![f] = j]
        /\ heap' = K \ {O!Last(locals).proto} /\ locals' = O!Front(locals)
    BY <1>2, <1>5, <1>6 DEF O!Add, O!Position, O!Copied, O!Destroy, O!Top
  <1>8. Own(heap', slots', locals')
    <2>1. PICK T : T = [slots EXCEPT ![f][j] = n]
      OBVIOUS
    <2>2. Own(K, T, locals)
      BY <1>3, <1>4, <1>6, <2>1, OwnCopy DEF OInv
    <2>3. Own(K \ {Last(locals).proto}, T, Front(locals))
      BY <1>1, <2>2, LocalsFacts, OwnDestroy
    <2>4. O!Last(locals) = Last(locals) /\ O!Front(locals) = Front(locals)
      BY DEF O!Last, O!Front, Last, Front
    <2> QED BY <1>7, <2>1, <2>3, <2>4
  <1>9. locals' \in Seq(Local) /\ Nested'
    BY <1>1, <1>7, FrontFacts
  <1>10. slots' \in [O!Ring -> [1 .. Slots -> O!Protos \cup {0}]] /\ num' \in [O!Ring -> 0 .. Slots]
         /\ heap' \subseteq O!Protos
    BY <1>3, <1>4, <1>6, <1>7
  <1>11. O!TypeOK'
    BY <1>1, <1>4, <1>9, <1>10 DEF O!TypeOK, Local
  <1>12. slots'[f][j] = n
         /\ \A g \in O!Ring, i \in 1 .. Slots : (g # f \/ i # j) => slots'[g][i] = slots[g][i]
    BY <1>4, <1>7
  <1>13. num'[f] = j /\ \A g \in O!Ring : g # f => num'[g] = num[g]
    BY <1>4, <1>7
  <1>14. ASSUME NEW g \in O!Ring, NEW i \in 1 .. num'[g] PROVE slots'[g][i] # 0
    <2>1. i \in 1 .. Slots
      <3>1. num'[g] \in 0 .. Slots
        BY <1>10
      <3> QED BY <1>4, <3>1
    <2>2. CASE g = f /\ i = j
      BY <1>3, <1>12, <2>2
    <2>3. CASE g # f
      BY <1>12, <1>13, <2>1, <2>3 DEF OInv, Filled
    <2>4. CASE g = f /\ i # j
      <3>1. i \in 1 .. num[f]
        BY <1>4, <1>5, <1>13, <2>4
      <3> QED BY <1>12, <2>1, <2>4, <3>1 DEF OInv, Filled
    <2> QED BY <2>2, <2>3, <2>4
  <1>15. O!SentIntact'
    <2> SUFFICES ASSUME at > 0 PROVE at <= num'[head] /\ slots'[head][at] = what /\ what \in heap'
      BY <1>1 DEF O!SentIntact
    <2>1. at <= num[head] /\ slots[head][at] = what /\ what \in heap
      BY DEF OInv, O!SentIntact
    <2>2. at \in 1 .. Slots /\ what # 0
      BY <1>4, <2>1, Sizes
    <2>3. head # f \/ at # j
      BY <1>4, <1>5, <2>1
    <2>4. slots'[head][at] = what
      BY <1>4, <1>12, <2>1, <2>2, <2>3
    <2>5. what \in heap'
      BY <1>4, <1>8, <2>2, <2>4, IntactIfSlot
    <2>6. num'[head] >= num[head] /\ num'[head] \in Nat /\ num[head] \in Nat
      BY <1>4, <1>5, <1>13
    <2> QED BY <2>1, <2>2, <2>4, <2>5, <2>6
  <1> QED BY <1>8, <1>9, <1>11, <1>14, <1>15 DEF OInv, Filled

\* Every step keeps the owners.
LEMMA OwnersKept ==
    ASSUME OInv, [O!Next]_o_vars
    PROVE  OInv'
  <1>0. ASSUME locals # <<>>, O!Top.use # "add" PROVE Len(locals) = 1
    <2>1. Len(locals) \in Nat /\ Len(locals) > 0 /\ Len(locals) <= 2 /\ O!Top = locals[Len(locals)]
      BY <1>0, LocalsFacts
    <2>2. Len(locals) # 2
      BY <1>0, <2>1 DEF OInv, Nested
    <2> QED BY <2>1, <2>2
  <1>1. CASE O!Receive
    BY <1>1, MakeKeeps DEF O!Receive
  <1>2. CASE O!NewOperation
    <2>1. Len(locals) = 1
      BY <1>0, <1>2 DEF O!NewOperation
    <2> QED BY <1>2, <2>1, MakeKeeps DEF O!NewOperation
  <1>3. CASE O!NewExit
    <2>1. locals = <<>> \/ Len(locals) = 1
      BY <1>0, <1>3 DEF O!NewExit, O!Broadcasting
    <2> QED BY <1>3, <2>1, MakeKeeps DEF O!NewExit
  <1>4. CASE O!AddFails
    BY <1>4, DestroyKeeps DEF O!AddFails
  <1>5. CASE O!DeleteRequest
    BY <1>5, DestroyKeeps DEF O!DeleteRequest
  <1>6. ASSUME NEW f \in O!Ring, O!Add(f) PROVE OInv'
    BY <1>6, AddKeeps
  <1>7. CASE O!SendEmptyFrame
    BY <1>7, MakeKeeps DEF O!SendEmptyFrame
  <1>8. CASE O!EmptyFrameSent
    <2>1. locals # <<>> /\ O!Destroy(heap) /\ O!Continue(1) /\ slots' = slots
      BY <1>8 DEF O!EmptyFrameSent
    <2> QED BY <2>1, DestroyOwns, ContinueKeeps
  <1>9. ASSUME NEW i \in Nat \ {0}, O!Continue(i), UNCHANGED <<heap, slots, locals>> PROVE OInv'
    <2>1. /\ Own(heap', slots', locals') /\ heap' \subseteq O!Protos
          /\ locals' \in Seq(Local) /\ Nested'
      BY <1>9, LocalsFacts DEF OInv, O!TypeOK, Nested
    <2> QED BY <1>9, <2>1, ContinueKeeps
  <1>10. CASE O!SendFrame
    BY <1>9, <1>10 DEF O!SendFrame
  <1>11. CASE O!SendNext
    <2>1. at + 1 \in Nat \ {0}
      BY Sizes DEF OInv, O!TypeOK
    <2> QED BY <1>9, <1>11, <2>1 DEF O!SendNext
  <1>12. CASE O!SynInit
    <2>1. num' = [f \in O!Ring |-> 0] /\ head' = 0 /\ at = 0 /\ UNCHANGED <<heap, slots, locals, at, what>>
      BY <1>12 DEF O!SynInit
    <2>2. 0 \in O!Ring
      BY Sizes DEF O!Ring
    <2>3. O!TypeOK'
      BY <2>1, <2>2, Sizes DEF OInv, O!TypeOK
    <2>4. Filled' /\ O!SentIntact' /\ Nested' /\ Own(heap', slots', locals')
      BY <2>1 DEF OInv, Filled, O!SentIntact, Nested
    <2> QED BY <2>3, <2>4 DEF OInv
  <1>13. CASE UNCHANGED o_vars
    BY <1>13 DEF o_vars, OInv, O!TypeOK, Nested, Filled, O!SentIntact
  <1> QED
    BY <1>1, <1>2, <1>3, <1>4, <1>5, <1>6, <1>7, <1>8, <1>10, <1>11, <1>12, <1>13 DEF O!Next

\* MessageOwner counts as FiniteSets does.
LEMMA Counts ==
    ASSUME NEW X
    PROVE  O!Cardinality(X) = Cardinality(X)
  BY DEF O!Cardinality, Cardinality

\* What is owned has one owner in the sense of OwnedOnce.
LEMMA OwnersCounted ==
    ASSUME OInv
    PROVE  O!OwnedOnce
  <1> SUFFICES ASSUME NEW p \in O!Protos
               PROVE  Cardinality({o \in O!Objects : O!PointsTo(o, p)}) = IF p \in heap THEN 1 ELSE 0
    BY Counts DEF O!OwnedOnce
  <1> DEFINE A == {o \in O!Objects : O!PointsTo(o, p)}
  <1>1. p # 0
    BY Sizes
  <1>2. ASSUME NEW o \in A
        PROVE  \/ \E f \in O!Ring, i \in 1 .. Slots : o = <<"slot", f, i>> /\ slots[f][i] = p
               \/ \E l \in DOMAIN locals : o = <<"local", l, 0>> /\ locals[l].proto = p
    <2>1. CASE o \in {<<"slot", f, i>> : f \in O!Ring, i \in 1 .. Slots}
      <3>1. PICK f \in O!Ring, i \in 1 .. Slots : o = <<"slot", f, i>>
        BY <2>1
      <3>2. o[1] = "slot" /\ o[2] = f /\ o[3] = i
        BY <3>1
      <3> QED BY <3>1, <3>2 DEF O!PointsTo
    <2>2. CASE o \in {<<"local", l, 0>> : l \in DOMAIN locals}
      <3>1. PICK l \in DOMAIN locals : o = <<"local", l, 0>>
        BY <2>2
      <3>2. o[1] = "local" /\ o[2] = l
        BY <3>1
      <3> QED BY <3>1, <3>2 DEF O!PointsTo
    <2> QED BY <2>1, <2>2 DEF O!Objects
  <1>3. ASSUME NEW f \in O!Ring, NEW i \in 1 .. Slots, slots[f][i] = p PROVE <<"slot", f, i>> \in A
    BY <1>3 DEF O!Objects, O!PointsTo
  <1>4. ASSUME NEW l \in DOMAIN locals, locals[l].proto = p PROVE <<"local", l, 0>> \in A
    BY <1>4 DEF O!Objects, O!PointsTo
  <1>5. Own(heap, slots, locals)
    BY DEF OInv
  <1> HIDE DEF A
  <1>6. CASE p \notin heap
    <2>1. A = {}
      BY <1>1, <1>2, <1>5, <1>6 DEF Own
    <2>2. Cardinality(A) = 0
      BY <2>1, FS_EmptySet, Zenon
    <2> QED BY <1>6, <2>2 DEF A
  <1>7. CASE p \in heap
    <2>1. ASSUME NEW o, A = {o} PROVE Cardinality(A) = 1
      BY <2>1, FS_Singleton, Zenon
    <2>2. CASE \E f \in O!Ring, i \in 1 .. Slots : slots[f][i] = p
      <3>1. PICK f \in O!Ring, i \in 1 .. Slots : slots[f][i] = p
        BY <2>2
      <3>2. <<"slot", f, i>> \in A
        BY <1>3, <3>1
      <3>3. ASSUME NEW o \in A PROVE o = <<"slot", f, i>>
        <4>1. ~ \E l \in DOMAIN locals : locals[l].proto = p
          BY <1>5, <3>1 DEF Own
        <4>2. PICK g \in O!Ring, m \in 1 .. Slots : o = <<"slot", g, m>> /\ slots[g][m] = p
          BY <1>2, <4>1
        <4>3. g = f /\ m = i
          BY <1>1, <1>5, <3>1, <4>2 DEF Own
        <4> QED BY <4>2, <4>3
      <3>4. A = {<<"slot", f, i>>}
        BY <3>2, <3>3, Zenon
      <3> QED BY <1>7, <2>1, <3>4 DEF A
    <2>3. CASE \E l \in DOMAIN locals : locals[l].proto = p
      <3>1. PICK l \in DOMAIN locals : locals[l].proto = p
        BY <2>3
      <3>2. <<"local", l, 0>> \in A
        BY <1>4, <3>1
      <3>3. ASSUME NEW o \in A PROVE o = <<"local", l, 0>>
        <4>1. ~ \E f \in O!Ring, i \in 1 .. Slots : slots[f][i] = p
          BY <1>5, <3>1 DEF Own
        <4>2. PICK m \in DOMAIN locals : o = <<"local", m, 0>> /\ locals[m].proto = p
          BY <1>2, <4>1
        <4>3. m = l
          BY <1>5, <3>1, <4>2 DEF Own
        <4> QED BY <4>2, <4>3
      <3>4. A = {<<"local", l, 0>>}
        BY <3>2, <3>3, Zenon
      <3> QED BY <1>7, <2>1, <3>4 DEF A
    <2> QED BY <1>5, <1>7, <2>2, <2>3 DEF Own
  <1> QED BY <1>6, <1>7

\* For a ring of any size: every protobuf message that is allocated has exactly
\* one CMessage that deletes it, through the copies of OneFrame::Add, and what
\* SYN broadcasts is not deleted or replaced before all players have it.
THEOREM MemoryCorrect == CMessageSpec => []MessageMemory
  <1>1. CMessageInit => OInv
    <2> SUFFICES ASSUME CMessageInit PROVE OInv
      OBVIOUS
    <2>1. O!Init
      BY DEF CMessageInit
    <2>2. 0 \in O!Ring /\ Len(locals) = 0 /\ DOMAIN locals = {} /\ locals \in Seq(Local)
      BY <2>1, Sizes DEF O!Ring, O!Init
    <2>3. O!TypeOK
      BY <2>1, <2>2, Sizes DEF O!TypeOK, O!Init, Local
    <2>4. Own(heap, slots, locals)
      BY <2>1, <2>2 DEF Own, O!Init
    <2>5. Nested /\ Filled /\ O!SentIntact
      BY <2>1, <2>2 DEF Nested, Filled, O!SentIntact, O!Init
    <2> QED BY <2>3, <2>4, <2>5 DEF OInv
  <1>2. OInv /\ [CMessageNext]_<<vars, side, o_vars>> => OInv'
    <2>1. [CMessageNext]_<<vars, side, o_vars>> => [O!Next]_o_vars
      BY DEF CMessageNext
    <2> QED BY <2>1, OwnersKept
  <1>3. OInv => MessageMemory
    BY OwnersCounted DEF OInv, MessageMemory
  <1> QED BY <1>1, <1>2, <1>3, PTL DEF CMessageSpec
=============================================================================
