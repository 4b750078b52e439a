------------------------------ MODULE Messages ------------------------------
(***************************************************************************)
(* A message on its way through Message<TYPE,HEADER,CONTENT>: it is made   *)
(* with the session's ids, serialized into a packet, peeked at by the      *)
(* connection module and deserialized by the handler of its type. Steam    *)
(* (external) sends messages of the same classes; its packets may be       *)
(* shorter than the class expects, or longer.                              *)
(*                                                                         *)
(* A byte is the field it belongs to and its place in it. The values that  *)
(* steer the reader, the type, its protobuf flag and the length of the     *)
(* header's protobuf, are kept beside the bytes.                           *)
(***************************************************************************)
EXTENDS Naturals, Sequences, SequencesExt, Selection

CONSTANTS MessageTypes, \* the message classes, by their type
          HeaderOf,     \* each one's HEADER: "Simple", "Extended" or "ProtoBuf"
          ContentOf     \* the fields of each one's CONTENT, as records of name and size

VARIABLES
    msgStage,  \* "make", "wire", "header", "content", "done", "refused" or "assert"
    loggedOn,  \* SteamID and ClientSessionID are on the whiteboard
    message,   \* the message: sender, type and whether its header has the ids
    packet,    \* what was sent, with the values that steer the reader
    msgData,      \* Deserializer::data
    peeked,    \* the type the connection module has found
    fields     \* what the reader has taken for each field

msgVars == <<msgStage, loggedOn, message, packet, msgData, peeked, fields>>

Sized(name, size) == [name |-> name, size |-> size]

\* The fields after the type. Our Extended leaves headerSize out, which the class has and
\* Steam sends.
SimpleFields == <<Sized("targetJobID", 8), Sized("sourceJobID", 8)>>
ExtendedFields ==
    <<Sized("headerVersion", 2), Sized("targetJobID", 8), Sized("sourceJobID", 8),
      Sized("headerCanary", 1), Sized("steamId", 8), Sized("sessionId", 4)>>
\* addSessionInfo()
ProtoFields(ids) == IF ids THEN <<Sized("steamid", 2), Sized("client_sessionid", 2)>> ELSE <<>>

\* The names no class has in its CONTENT, and that a member of a class is named once and
\* takes some bytes.
HeaderNames ==
    {"msgType", "headerSize", "headerVersion", "targetJobID", "sourceJobID", "headerCanary",
     "steamId", "sessionId", "protoLength", "steamid", "client_sessionid", "excess"}
MessageAssumption ==
    \A t \in MessageTypes :
        LET fs == ContentOf[t]
        IN  /\ HeaderOf[t] \in {"Simple", "Extended", "ProtoBuf"} /\ fs \in Seq(Range(fs))
            /\ \A f \in Range(fs) : f = Sized(f.name, f.size) /\ f.size \in Nat \ {0}
                                   /\ f.name \notin HeaderNames
            /\ \A i, j \in 1..Len(fs) : fs[i].name = fs[j].name => i = j

HeaderFields(m) ==
    CASE HeaderOf[m.type] = "Simple" -> SimpleFields
      [] HeaderOf[m.type] = "Extended" ->
             (IF m.sender = "steam" THEN <<Sized("headerSize", 1)>> ELSE <<>>) \o ExtendedFields
      [] HeaderOf[m.type] = "ProtoBuf" -> <<Sized("protoLength", 4)>> \o ProtoFields(m.ids)

\* store(): a field's bytes in order, one field after the other.
StoreField(f) == [n \in 1..f.size |-> [of |-> f.name, n |-> n]]
StoreAll(fs) == FlattenSeq([k \in 1..Len(fs) |-> StoreField(fs[k])])

MsgInit ==
    /\ msgStage = "make" /\ loggedOn \in BOOLEAN /\ message = << >>
    /\ packet = << >> /\ msgData = <<>> /\ peeked = "Invalid" /\ fields = << >>

----------------------------------------------------------------------------
\* The constructor of a Message; a ProtoBuf header takes the ids from the whiteboard.
Construct(t, sender) ==
    /\ msgStage = "make" /\ message = << >>
    /\ \E ids \in BOOLEAN :
           /\ HeaderOf[t] # "ProtoBuf" => ~ids
           /\ HeaderOf[t] = "ProtoBuf" /\ sender = "us" => ids = loggedOn
           /\ message' = [sender |-> sender, type |-> t, ids |-> ids]
    /\ UNCHANGED <<msgStage, loggedOn, packet, msgData, peeked, fields>>

LogOn ==
    /\ msgStage = "make" /\ ~loggedOn /\ loggedOn' = TRUE
    /\ UNCHANGED <<msgStage, message, packet, msgData, peeked, fields>>

\* Message::serialize() and send(): header, then content. The flag in the type says
\* that the header is a protobuf.
SendMessage ==
    /\ msgStage = "make" /\ message # << >>
    /\ LET proto == HeaderOf[message.type] = "ProtoBuf"
           bytes == StoreField(Sized("msgType", 4)) \o StoreAll(HeaderFields(message))
                    \o StoreAll(ContentOf[message.type])
       IN /\ packet' = [type |-> message.type, flag |-> proto, bytes |-> bytes,
                        protoLength |-> IF proto THEN Len(StoreAll(ProtoFields(message.ids))) ELSE 0]
          /\ msgData' = bytes
    /\ msgStage' = "wire"
    /\ UNCHANGED <<loggedOn, message, peeked, fields>>

\* Steam's packet is shorter or longer than the class.
OtherLength ==
    /\ msgStage = "wire" /\ peeked = "Invalid" /\ message.sender = "steam" /\ msgData = packet.bytes
    /\ \/ \E n \in 0..(Len(msgData) - 1) : msgData' = SubSeq(msgData, 1, n)
       \/ msgData' = msgData \o StoreField(Sized("excess", 2))
    /\ UNCHANGED <<msgStage, loggedOn, message, packet, peeked, fields>>

----------------------------------------------------------------------------
\* getBytes(): NotEnoughDataException
NotEnough(size) == Len(msgData) < size
After(size) == SubSeq(msgData, size + 1, Len(msgData))

\* get(first, rest...) into the fields of fs.
Offset(fs, k) == IF k = 1 THEN 0 ELSE Len(StoreAll(SubSeq(fs, 1, k - 1)))
GetFields(fs) ==
    [name \in {fs[k].name : k \in 1..Len(fs)} |->
        LET k == CHOOSE i \in 1..Len(fs) : fs[i].name = name
        IN SubSeq(msgData, Offset(fs, k) + 1, Offset(fs, k) + fs[k].size)]
Taken(new) ==
    [f \in DOMAIN fields \cup DOMAIN new |-> IF f \in DOMAIN new THEN new[f] ELSE fields[f]]

\* A protobuf of these bytes can be parsed when no field in it is incomplete.
Parses(bytes, fs) ==
    bytes = <<>> \/ \E k \in 1..Len(fs) : Last(bytes) = [of |-> fs[k].name, n |-> fs[k].size]
\* What the parser makes of it: its fields.
ParseProto(bytes) == [f \in {bytes[k].of : k \in 1..Len(bytes)} |->
                         Kept(bytes, {b \in Range(bytes) : b.of = f})]

\* peekMessgeType()
Peek ==
    /\ msgStage = "wire" /\ peeked = "Invalid"
    /\ IF NotEnough(4) THEN msgStage' = "refused" /\ UNCHANGED peeked
                       ELSE peeked' = packet.type /\ UNCHANGED msgStage
    /\ UNCHANGED <<loggedOn, message, packet, msgData, fields>>

\* Header::Base::deserialize() of the class the type belongs to; a wrong flag is only logged.
DeserializeType ==
    /\ msgStage = "wire" /\ peeked # "Invalid"
    /\ IF packet.type = peeked THEN msgStage' = "header" ELSE msgStage' = "assert"
    /\ msgData' = After(4)
    /\ UNCHANGED <<loggedOn, message, packet, peeked, fields>>

\* Simple::deserialize() and Extended::deserialize().
DeserializeHeader ==
    LET fs == IF HeaderOf[peeked] = "Simple" THEN SimpleFields ELSE ExtendedFields
        size == Len(StoreAll(fs))
    IN /\ msgStage = "header" /\ HeaderOf[peeked] # "ProtoBuf"
       /\ IF NotEnough(size) THEN msgStage' = "refused" /\ UNCHANGED <<msgData, fields>>
          ELSE msgStage' = "content" /\ msgData' = After(size) /\ fields' = Taken(GetFields(fs))
       /\ UNCHANGED <<loggedOn, message, packet, peeked>>

\* ProtoBuf::deserialize(): the length, then as many bytes of a CMsgProtoBufHeader.
DeserializeProtoHeader ==
    LET size == packet.protoLength
        bytes == SubSeq(msgData, 5, 4 + size)
    IN /\ msgStage = "header" /\ HeaderOf[peeked] = "ProtoBuf"
       /\ IF NotEnough(4 + size) \/ ~Parses(bytes, ProtoFields(TRUE))
          THEN msgStage' = "refused" /\ UNCHANGED <<msgData, fields>>
          ELSE /\ msgStage' = "content" /\ msgData' = After(4 + size)
               /\ fields' = Taken(ParseProto(bytes))
       /\ UNCHANGED <<loggedOn, message, packet, peeked>>

\* ContentSerialization::deserialize(): a protobuf takes all that is left, any other
\* content what it needs; excess bytes are only logged.
DeserializeContent ==
    LET fs == ContentOf[peeked]
    IN /\ msgStage = "content"
       /\ IF HeaderOf[peeked] = "ProtoBuf"
          THEN IF Parses(msgData, fs \o <<Sized("excess", 2)>>)
               THEN msgStage' = "done" /\ fields' = Taken(ParseProto(msgData))
               ELSE msgStage' = "refused" /\ UNCHANGED fields
          ELSE IF NotEnough(Len(StoreAll(fs)))
               THEN msgStage' = "refused" /\ UNCHANGED fields
               ELSE msgStage' = "done" /\ fields' = Taken(GetFields(fs))
       /\ msgData' = <<>>
       /\ UNCHANGED <<loggedOn, message, packet, peeked>>

MsgNext ==
    \/ \E t \in MessageTypes, sender \in {"us", "steam"} : Construct(t, sender)
    \/ LogOn \/ SendMessage \/ OtherLength
    \/ Peek \/ DeserializeType \/ DeserializeHeader \/ DeserializeProtoHeader \/ DeserializeContent

MsgSpec == MsgInit /\ [][MsgNext]_msgVars

----------------------------------------------------------------------------
\* Type invariant.
MsgTypeOK ==
    /\ msgStage \in {"make", "wire", "header", "content", "done", "refused", "assert"}
    /\ peeked \in MessageTypes \cup {"Invalid"} /\ loggedOn \in BOOLEAN

\* The fields of the message that was sent, with their bytes.
SentFields ==
    LET fs == HeaderFields(message) \o ContentOf[message.type]
    IN  [name \in {fs[k].name : k \in 1..Len(fs)} \ {"protoLength"} |->
            StoreField(fs[CHOOSE k \in 1..Len(fs) : fs[k].name = name])]

\* Reading a message gives the message that was sent, by us or by Steam: every field has
\* the bytes of that field, a field of the header is never missing, and a field of the
\* content only where a protobuf was cut between two fields. A message that is complete is
\* never refused (Message.cpp:62-197, Message.hpp:379-478, Serialize.hpp:56-229). Steam's
\* Extended headers are excepted: no class in use has one, and the reader does not know
\* their headerSize.
MessagesReadBack ==
    LET usable == ~(message.sender = "steam" /\ HeaderOf[message.type] = "Extended")
        header == HeaderFields(message)
    IN /\ message # << >> /\ usable =>
             /\ \A f \in DOMAIN fields :
                    f = "excess" \/ (f \in DOMAIN SentFields /\ fields[f] = SentFields[f])
             /\ msgStage = "done" =>
                    /\ \A k \in 1..Len(header) :
                           header[k].name \in DOMAIN fields \cup {"protoLength"}
                    /\ HeaderOf[message.type] # "ProtoBuf" => DOMAIN SentFields \subseteq DOMAIN fields
             /\ msgStage = "refused" => message.sender = "steam"
       /\ msgStage # "assert"

\* Extended headers as Steam sends them are read: headerSize is a field of the class that
\* neither serialize() nor deserialize() handles. TLC finds this violated; no message in
\* the repository has an Extended header (Message.cpp:136-149, Message.hpp:309).
ExtendedReadsBack ==
    msgStage = "done" => \A f \in DOMAIN SentFields \cap DOMAIN fields : fields[f] = SentFields[f]

=============================================================================
