------------------------------- MODULE Codec --------------------------------
(***************************************************************************)
(* The bytes of a message and the table of handlers.  Before main, static  *)
(* objects enter the type and the handler of each message id into          *)
(* MessageProcessorRegister, in an order the linker chooses.  Then         *)
(* ReceiveMessage takes one message after another into recv_data_, makes a *)
(* CMessage of it and gives it to the handler of its id; a handler, or     *)
(* SYN, encodes one object for several players.                            *)
(*                                                                         *)
(* A byte is a digit below Byte and an int32_t has IntBytes of them; TLC   *)
(* takes both small.  Of a protobuf message, only what SerializeToString   *)
(* and ParseFromString make of it is modelled.                             *)
(***************************************************************************)
EXTENDS Integers, Sequences, SequencesExt

CONSTANTS
    Byte,        \* values of a byte (256)
    IntBytes,    \* sizeof(int32_t) (4)
    MaxLen,      \* MAX_MESSAGE_LEN
    Entries,     \* the uses of REGISTE_MESSAGE_ID: [id, type]
    Ids,         \* message ids, registered or not
    FrameNums,   \* values of m_framenum
    Hashes,      \* values of m_message_hash
    Contents,    \* what a protobuf message can say
    Bodies,      \* what clients send as a body
    Garbage,     \* values that m_packetlen may have before it is set
    NULL,
    Serialize(_) \* SerializeToString, from Contents to bodies

ASSUME CodecAssumption ==
    /\ Byte \in Nat \ {0, 1} /\ IntBytes \in Nat \ {0}
    /\ \A c, d \in Contents : Serialize(c) = Serialize(d) => c = d
    /\ \A e \in Entries : e.id \in Ids /\ e.type # NULL /\ e # NULL

VARIABLES
    unregistered,   \* entries whose static object is not constructed yet
    m_proto_type,   \* message type by id
    m_processor,    \* by id, the entry whose handler it is
    recv_data,      \* recv_data_, where what earlier messages left stays
    handled,        \* the last message from a client, and what became of it
    out,            \* a CMessage of the server
    send_data       \* what was encoded of it last; <<>> after a change

vars == <<unregistered, m_proto_type, m_processor, recv_data, handled, out, send_data>>

Digits == 0 .. Byte - 1
Unsigned == 0 .. Byte ^ IntBytes - 1
Int32 == {u - (Byte ^ IntBytes) \div 2 : u \in Unsigned}
HeadSize == 4 * IntBytes

\* htonl
Net(n) == [i \in 1 .. IntBytes |-> (n \div Byte ^ (IntBytes - i)) % Byte]

\* ntohl
Host(s) == FoldLeft(LAMBDA n, b : n * Byte + b, 0, s)

\* A uint32_t is assigned to an int32_t.
Signed(u) == IF u \in Int32 THEN u ELSE u - Byte ^ IntBytes

-----------------------------------------------------------------------------

\* CMessageHead::encode
EncodeHead(h) ==
    Net(h.packetlen) \o Net(h.message_id) \o Net(h.framenum) \o Net(h.message_hash)

Field(s, k) == Host(SubSeq(s, (k - 1) * IntBytes + 1, k * IntBytes))

\* CMessageHead::decode
DecodeHead(s) ==
    [packetlen    |-> Signed(Field(s, 1)), message_id   |-> Signed(Field(s, 2)),
     framenum     |-> Signed(Field(s, 3)), message_hash |-> Field(s, 4)]

\* Mutant: m_packetlen is not reset before the lengths are added to it.
Packetlen_Added(m) == m.head.packetlen + Len(Serialize(m.proto)) + HeadSize

Packetlen(m) == Len(Serialize(m.proto)) + HeadSize

\* CMessage::encode, the head of the object
Measured(m) == [m EXCEPT !.head.packetlen = Packetlen(m)]

\* CMessage::encode, the bytes; none without a protobuf message
Encode(m) ==
    IF m.proto = NULL THEN <<>>
    ELSE EncodeHead(Measured(m).head) \o Serialize(m.proto)

\* ParseFromString: of a body it refuses, some part may have been read.
Parsed(body) ==
    IF \E c \in Contents : Serialize(c) = body
    THEN {c \in Contents : Serialize(c) = body} ELSE Contents

\* Mutant: only an empty message is too short.
TooShort_Empty(n) == n = 0

\* The test for InLen < m_head.Size()
TooShort(n) == n < HeadSize

\* CMessage::decode of n bytes of s: the results it can have, or none.
Decode(type, s, n) ==
    IF type = NULL \/ TooShort(n) THEN {}
    ELSE LET h == DecodeHead(s)
         IN  IF h.packetlen # n THEN {}
             ELSE {[head |-> h, proto |-> c] :
                      c \in Parsed(SubSeq(s, HeadSize + 1, h.packetlen))}

-----------------------------------------------------------------------------

\* RegistMessage: an id that is there keeps its type.
RegistMessage(e) ==
    IF m_proto_type[e.id] # NULL THEN m_proto_type
    ELSE [m_proto_type EXCEPT ![e.id] = e.type]

\* Mutant: a later handler takes the place of the first.
RegistProcessor_Later(e) == [m_processor EXCEPT ![e.id] = e]

\* RegistProcessor: an id that is there keeps its handler.
RegistProcessor(e) ==
    IF m_processor[e.id] # NULL THEN m_processor
    ELSE [m_processor EXCEPT ![e.id] = e]

\* Construction of the static object of one REGISTE_MESSAGE_ID
REGISTE_MESSAGE_ID(e) ==
    /\ e \in unregistered /\ unregistered' = unregistered \ {e}
    /\ m_proto_type' = RegistMessage(e)
    /\ m_processor' = RegistProcessor(e)
    /\ UNCHANGED <<recv_data, handled, out, send_data>>

\* main has begun.
Running == unregistered = {}

CreateMessage(id) == IF id \in Ids THEN m_proto_type[id] ELSE NULL

\* The handler that ProcessRequest calls
ProcessRequest(m) ==
    IF m.head.message_id \in Ids THEN m_processor[m.head.message_id] ELSE NULL

\* The messages that clients send: whole ones, and ones whose length is less
\* than that of a head.
Whole ==
    {EncodeHead([packetlen |-> HeadSize + Len(b), message_id |-> i,
                 framenum |-> f, message_hash |-> h]) \o b :
        i \in Ids, f \in FrameNums, h \in Hashes, b \in Bodies}

Short == {SubSeq(Net(n) \o [k \in 1 .. HeadSize |-> 0], 1, n) : n \in 1 .. HeadSize - 1}

\* get_one_message has put s into recv_data_: ParseStrToMessage reads the id,
\* at its place in recv_data_ however short s is, and decodes; the result, if
\* any, goes to the handler of the id.
ParseStrToMessage(s) ==
    LET data == s \o SubSeq(recv_data, Len(s) + 1, MaxLen)
        type == CreateMessage(Signed(Field(data, 2)))
    IN  /\ Running /\ recv_data' = data
        /\ \/ /\ Decode(type, data, Len(s)) = {}
              /\ handled' = [sent |-> s, got |-> NULL, type |-> NULL, by |-> NULL]
           \/ \E m \in Decode(type, data, Len(s)) :
                 handled' = [sent |-> s, got |-> m, type |-> type,
                             by |-> ProcessRequest(m)]
        /\ UNCHANGED <<unregistered, m_proto_type, m_processor, out, send_data>>

\* A handler makes a message.  m_packetlen has no value yet, and without a
\* content there is no protobuf message.
NewMessage(i, f, c) ==
    /\ Running
    /\ \E g \in Garbage :
          out' = [head |-> [packetlen |-> g, message_id |-> i, framenum |-> f,
                            message_hash |-> 0],
                  proto |-> c]
    /\ send_data' = <<>>
    /\ UNCHANGED <<unregistered, m_proto_type, m_processor, recv_data, handled>>

\* SYN sends its copy, whose m_head.m_packetlen is that of the original, with
\* another frame number.
SetFrame(f) ==
    /\ out # NULL
    /\ out' = [out EXCEPT !.head.framenum = f] /\ send_data' = <<>>
    /\ UNCHANGED <<unregistered, m_proto_type, m_processor, recv_data, handled>>

\* SendMessageByConnfd, to one of the players: the object is encoded again.
SendMessageByConnfd ==
    /\ out # NULL
    /\ send_data' = Encode(out)
    /\ out' = IF out.proto = NULL THEN out ELSE Measured(out)
    /\ UNCHANGED <<unregistered, m_proto_type, m_processor, recv_data, handled>>

Init ==
    /\ unregistered = Entries
    /\ m_proto_type = [i \in Ids |-> NULL] /\ m_processor = [i \in Ids |-> NULL]
    /\ recv_data = [k \in 1 .. MaxLen |-> 0]
    /\ handled = [sent |-> <<>>, got |-> NULL, type |-> NULL, by |-> NULL]
    /\ out = NULL /\ send_data = <<>>

Next ==
    \/ \E e \in Entries : REGISTE_MESSAGE_ID(e)
    \/ \E s \in Whole \cup Short : ParseStrToMessage(s)
    \/ \E i \in Ids, f \in FrameNums, c \in Contents \cup {NULL} : NewMessage(i, f, c)
    \/ \E f \in FrameNums : SetFrame(f)
    \/ SendMessageByConnfd

Spec == Init /\ [][Next]_vars

-----------------------------------------------------------------------------
(* Properties. *)

Heads == [packetlen : Int32, message_id : Int32, framenum : Int32,
          message_hash : Unsigned]

Messages == [head : Heads, proto : Contents \cup {NULL}]

\* Every variable has its type; numbers that went through the bytes of a
\* message are in the range of an int32_t.
TypeOK ==
    /\ unregistered \subseteq Entries
    /\ m_proto_type \in [Ids -> {e.type : e \in Entries} \cup {NULL}]
    /\ m_processor \in [Ids -> Entries \cup {NULL}]
    /\ recv_data \in [1 .. MaxLen -> Digits]
    /\ handled.got \in Messages \cup {NULL}
    /\ out \in Messages \cup {NULL}
    /\ send_data \in Seq(Digits)

\* What a handler gets is what the client sent last, field by field, and none
\* of it comes from what earlier messages left in recv_data_; the body too, if
\* it is one that can be parsed.
HandledAsSent ==
    handled.got # NULL =>
        /\ IsPrefix(EncodeHead(handled.got.head), handled.sent)
        /\ handled.got.head.packetlen = Len(handled.sent)
        /\ LET body == SubSeq(handled.sent, HeadSize + 1, Len(handled.sent))
           IN  (\E c \in Contents : Serialize(c) = body)
                   => Serialize(handled.got.proto) = body

\* A message is handled by a handler for its type, to which it casts m_proto,
\* whatever the order in which the static objects were constructed and even if
\* two of them have the same id.
HandlerFits == handled.got # NULL =>
                   handled.by # NULL /\ handled.by.type = handled.type

\* What is sent of a message says its own length and decodes to the message,
\* for every player to whom one object is sent in turn; without a protobuf
\* message nothing is sent.
SentDecodes ==
    send_data # <<>> =>
        /\ Field(send_data, 1) = Len(send_data)
        /\ Decode(out.proto, send_data, Len(send_data)) = {out}
=============================================================================
