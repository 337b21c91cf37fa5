----------------------------- MODULE WireFrames -----------------------------
(***************************************************************************)
(* The wire format (protocol/frames.py, flags.py, serialization.py): how a *)
(* value becomes a frame, how the server numbers the frame without         *)
(* decoding it, and what the consumer's processes read out of it.          *)
(*                                                                         *)
(* A frame is its fixed header and the cells that follow: the token, the   *)
(* topic, the payload and the checksum, if they are there.  Nothing but    *)
(* the flags and topic_len says where each of them begins.  A topic is a   *)
(* sequence of cells, each other field one cell; sizes count cells.  A     *)
(* checksum is what it was computed from.                                  *)
(*                                                                         *)
(* What a value holds is a set of traits, things a serializer may refuse   *)
(* or give back as something else.  What this code does to them is in the  *)
(* definitions; what the libraries msgspec and pyarrow do is a parameter.  *)
(***************************************************************************)
EXTENDS Integers, SequencesExt

CONSTANTS
    TopicNames,   \* topics, sequences of cells
    MaxTopicLen,  \* longest topic (255 bytes),
    MaxRecords,   \* and largest record_count (1,000,000) of a frame
    Lz4From,      \* size from which compression "auto" means lz4 (256 bytes)
    TokenLimit,   \* ack tokens are below it (2^32)
    MaxFrame,     \* largest frame (256 MiB, header apart)
    Sizes,        \* sizes of values: rows, items, characters
    Packed,       \* sizes of payloads, serialized and compressed
    Contents,     \* for each kind of value the sets of traits it may hold
    Refused,      \* for each serializer the traits it raises for,
    Altered,      \* and those that do not come back as they were
    Numbers       \* numbers the server gives

Kind == {"dict", "DataFrame", "str", "bytes", "list"}

SerializerCode == [msgpack |-> 0, bytes |-> 1, pyarrow |-> 2, str |-> 4, json |-> 5]
Serializers == DOMAIN SerializerCode

ASSUME WireAssumption ==
    /\ \A t \in TopicNames : t \in Seq(STRING)
    /\ MaxTopicLen \in Nat /\ MaxRecords \in Nat \ {0} /\ Lz4From \in Nat
    /\ TokenLimit \in Nat \ {0} /\ Sizes \subseteq Nat /\ Numbers \subseteq Nat \ {0}
    /\ MaxFrame \in Nat /\ Packed \subseteq Nat
    /\ Contents \in [Kind -> SUBSET SUBSET STRING]
    /\ Refused \in [Serializers -> SUBSET STRING] /\ Altered \in [Serializers -> SUBSET STRING]

VARIABLES
    place,  \* where the frame is
    frame,  \* the frame
    call,   \* what was to be sent
    seq,    \* the number the server gave it, 0: none
    read    \* what the one who had it last read out of it

wireVars == <<place, frame, call, seq, read>>

Default == "default"  \* a parameter that is not given
NoAck == -1

-----------------------------------------------------------------------------
(* Values and serializers *)

\* Python values; a Table is what pyarrow reads back.  A data frame may have lost
\* the names of its columns.
Value(kind, size, traits) ==
    [kind |-> kind, size |-> size, columns |-> kind = "DataFrame", traits |-> traits]

\* What is empty holds nothing.
Values ==
    UNION {{Value(k, n, IF n = 0 THEN {} ELSE t) : n \in Sizes, t \in Contents[k]} : k \in Kind}

DataTypes == {"UNKNOWN", "DICT", "DATAFRAME", "STR", "BYTES"}

InferredType(v) ==
    CASE v.kind = "DataFrame" -> "DATAFRAME" [] v.kind = "dict" -> "DICT"
      [] v.kind = "str" -> "STR" [] v.kind = "bytes" -> "BYTES" [] OTHER -> "UNKNOWN"

Rule(allowed, default) == [allowed |-> allowed, default |-> default]

SerializerRules(type) ==
    CASE type = "DICT" -> Rule({"msgpack", "json"}, "msgpack")
      [] type = "DATAFRAME" -> Rule({"msgpack", "json", "pyarrow"}, "pyarrow")
      [] type = "STR" -> Rule({"str"}, "str")
      [] type = "BYTES" -> Rule({"bytes"}, "bytes")
      [] OTHER -> Rule(Serializers, "msgpack")

Takes(ser, v) ==
    CASE ser = "str" -> v.kind \in {"str", "bytes"}
      [] ser = "bytes" -> v.kind = "bytes"
      [] ser = "msgpack" -> v.kind # "DataFrame"
      [] ser = "json" -> v.kind \notin {"DataFrame", "bytes"}
      [] ser = "pyarrow" -> v.kind \in {"DataFrame", "dict"} \/ (v.kind = "list" /\ v.size > 0)

Serializable(ser, v) == Takes(ser, v) /\ v.traits \cap Refused[ser] = {}

\* Bytes that are sent as text are not looked at before they are read.
Deserializable(ser, v) == ser = "str" /\ v.kind = "bytes" => "not UTF-8" \notin v.traits

\* A data frame is sent without its index, in whatever form, and as rows without
\* the types of its columns.
Index == "index"
ColumnTypes == "column types"

\* What comes out of deserialize() after serialize().
Deserialized(ser, v) ==
    LET kept == v.traits \ Altered[ser]
    IN CASE ser = "str" -> [v EXCEPT !.kind = "str", !.traits = kept]
         [] ser = "pyarrow" ->
                [v EXCEPT !.kind = "Table", !.columns = TRUE, !.traits = kept \ {Index}]
         [] OTHER -> [v EXCEPT !.traits = kept]

\* A data frame goes through the text formats as a list of rows, which name the
\* columns; without rows nothing names them.
AsRows(v, ser) ==
    IF v.kind = "DataFrame" /\ ser \in {"msgpack", "json"}
    THEN Value("list", v.size, v.traits \ {Index, ColumnTypes}) ELSE v

Restored(v, type, ser) ==
    CASE type = "DATAFRAME" /\ v.kind = "Table" -> [v EXCEPT !.kind = "DataFrame"]
      [] type = "DATAFRAME" /\ v.kind = "list" /\ ser # "pyarrow" ->
             [v EXCEPT !.kind = "DataFrame", !.columns = v.size > 0]
      [] type = "DICT" /\ v.kind = "Table" -> [v EXCEPT !.kind = "dict", !.columns = FALSE]
      [] type = "STR" /\ v.kind = "bytes" -> [v EXCEPT !.kind = "str"]
      [] type = "BYTES" /\ v.kind = "str" -> [v EXCEPT !.kind = "bytes"]
      [] OTHER -> v

-----------------------------------------------------------------------------
(* Flags: one byte *)

CompressionCode == [none |-> 0, snappy |-> 1, lz4 |-> 2, zstd |-> 3]

Bit(b) == IF b THEN 1 ELSE 0

EncodeFlags(ser, comp, crc, ack) ==
    SerializerCode[ser] + 8 * CompressionCode[comp] + 64 * Bit(ack) + 128 * Bit(crc)

NameOf(code, bits, default) ==
    IF \E n \in DOMAIN code : code[n] = bits
    THEN CHOOSE n \in DOMAIN code : code[n] = bits ELSE default

DecodeFlags(flags) ==
    [ser |-> NameOf(SerializerCode, flags % 8, "msgpack"),
     comp |-> NameOf(CompressionCode, (flags \div 8) % 4, "none")]

HasAck(flags) == (flags \div 64) % 2 = 1
HasCrc(flags) == flags \div 128 = 1

-----------------------------------------------------------------------------
(* encode() and rewrite_seq() *)

Type(v, o) == IF o.type = Default THEN InferredType(v) ELSE o.type

Serializer(v, o) == IF o.ser = Default THEN SerializerRules(Type(v, o)).default ELSE o.ser

Compression(v, o) ==
    IF o.comp # "auto" THEN o.comp ELSE IF v.size < Lz4From THEN "none" ELSE "lz4"

\* len(), but 1 for what is not a list or a data frame, and for an empty one.
RecordCount(v) == IF v.kind \in {"list", "DataFrame"} /\ v.size > 1 THEN v.size ELSE 1

\* The whole frame, token and checksum included, is not too large.
FrameFits(topic, o, packed) == Len(topic) + packed + Bit(o.token # NoAck) + Bit(o.crc) <= MaxFrame

Encodable(topic, v, o, packed) ==
    /\ Type(v, o) = "UNKNOWN" => o.type # Default
    /\ Serializer(v, o) \in SerializerRules(Type(v, o)).allowed
    /\ Serializable(Serializer(v, o), IF Type(v, o) = "DATAFRAME" THEN AsRows(v, Serializer(v, o)) ELSE v)
    /\ RecordCount(v) <= MaxRecords
    /\ Len(topic) <= MaxTopicLen
    /\ o.token \in {NoAck} \cup 0 .. TokenLimit - 1
    /\ FrameFits(topic, o, packed)

Cell(what, content) == <<what, content>>
Crc(body) == Cell("crc", body)

WithCrc(body) == [body EXCEPT !.cells = Append(@, Crc(body))]

Encode(topic, v, o) ==
    LET ser == Serializer(v, o)
        rows == IF Type(v, o) = "DATAFRAME" THEN AsRows(v, ser) ELSE v
        comp == Compression(rows, o)
        ack == o.token # NoAck
        body == [version |-> 3, msgType |-> o.msgType, type |-> Type(v, o), topicLen |-> Len(topic),
                 flags |-> EncodeFlags(ser, comp, o.crc, ack), seq |-> 0,
                 records |-> RecordCount(rows),
                 cells |-> (IF ack THEN <<Cell("token", o.token)>> ELSE <<>>)
                           \o [i \in 1 .. Len(topic) |-> Cell("topic", topic[i])]
                           \o <<Cell("payload", <<ser, comp, rows>>)>>]
    IN IF o.crc THEN WithCrc(body) ELSE body

\* MUTANT: the checksum is left as it was.
RewriteSeqOnly(f, n) == [f EXCEPT !.seq = n]

RewriteSeq(f, n) ==
    LET out == [f EXCEPT !.seq = n]
    IN IF HasCrc(f.flags) THEN WithCrc([out EXCEPT !.cells = Front(@)]) ELSE out

-----------------------------------------------------------------------------
(* decode_header(), peek_topic_seq() and decode() *)

\* Where the topic begins, and where the payload does.
TopicAt(f) == IF HasAck(f.flags) THEN 2 ELSE 1
PayloadAt(f) == TopicAt(f) + f.topicLen

PayloadOf(f) ==
    SubSeq(f.cells, PayloadAt(f), Len(f.cells) - Bit(HasCrc(f.flags)))

TopicOf(f) == [i \in 1 .. f.topicLen |-> f.cells[TopicAt(f) + i - 1][2]]

HeaderReadable(f) == f.version = 3 /\ Len(f.cells) >= PayloadAt(f) - 1

DecodeHeader(f) ==
    [topic |-> TopicOf(f), records |-> f.records, msgType |-> f.msgType, seq |-> f.seq,
     token |-> IF HasAck(f.flags) THEN f.cells[1][2] ELSE NoAck, payload |-> PayloadOf(f)]

PeekTopicSeq(f) == <<TopicOf(f), f.seq, f.msgType>>

Readable(f) ==
    /\ HeaderReadable(f)
    /\ HasCrc(f.flags) => Crc([f EXCEPT !.cells = Front(@)]) = f.cells[Len(f.cells)]

\* What the flags say of the payload is how it was made.
Unpackable(f) ==
    LET how == DecodeFlags(f.flags)
    IN /\ Readable(f) /\ Len(PayloadOf(f)) = 1
       /\ PayloadOf(f)[1][2][1] = how.ser /\ PayloadOf(f)[1][2][2] = how.comp

Decodable(f) ==
    Unpackable(f) /\ Deserializable(DecodeFlags(f.flags).ser, PayloadOf(f)[1][2][3])

Decode(f) ==
    LET ser == DecodeFlags(f.flags).ser
    IN [topic |-> TopicOf(f), seq |-> f.seq, records |-> f.records, msgType |-> f.msgType,
        value |-> Restored(Deserialized(ser, PayloadOf(f)[1][2][3]), f.type, ser)]

\* _peek_payload(): routing by key takes dicts and strings only.
KeyExtractable(f) == Decodable(f) /\ Decode(f).value.kind \in {"dict", "str"}

ControlOptions ==
    [ser |-> "msgpack", comp |-> "none", type |-> "UNKNOWN", crc |-> FALSE, token |-> NoAck,
     msgType |-> "CONTROL"]

EncodeControl(cmd, v) == Encode(cmd, v, ControlOptions)

\* The payload of a control frame that is not a dict is taken for an empty one.
DecodeControl(f) ==
    [cmd |-> TopicOf(f),
     payload |-> IF Decode(f).value.kind = "dict" THEN Decode(f).value ELSE Value("dict", 0, {})]

-----------------------------------------------------------------------------
(* The way of one frame after the other *)

Options ==
    [ser : Serializers \cup {Default}, comp : DOMAIN CompressionCode \cup {"auto"},
     type : DataTypes \cup {Default}, crc : BOOLEAN, token : {NoAck, 0, TokenLimit - 1},
     msgType : {"DATA"}]

Nothing == [none |-> TRUE]

WireInit ==
    /\ place = "idle" /\ frame = Nothing /\ call = Nothing /\ seq = 0 /\ read = Nothing

\* encode() raises when it refuses, and nothing is sent.
Sends(topic, v, o, packed, next) ==
    /\ call' = [topic |-> topic, value |-> v, options |-> o, packed |-> packed]
    /\ IF Encodable(topic, v, o, packed)
       THEN place' = next /\ frame' = Encode(topic, v, o)
       ELSE place' = "refused" /\ frame' = frame
    /\ UNCHANGED <<seq, read>>

PublishFrame(topic, v, o, packed) == Sends(topic, v, o, packed, "server")

\* A built-in producer's frame is not numbered; its header is read for the
\* statistics.
ProduceFrame(topic, v, o, packed) ==
    /\ ~o.crc /\ o.token = NoAck /\ o.type = Default
    /\ Sends(topic, v, o, packed, "consumer")

\* PUBLISH_ACK reaches the client over the data socket, too.
Command(cmd, n, packed) ==
    /\ Len(cmd) <= MaxTopicLen /\ FrameFits(cmd, ControlOptions, packed)
    /\ call' = [topic |-> cmd, value |-> Value("dict", n, {}), options |-> ControlOptions,
                packed |-> packed]
    /\ frame' = EncodeControl(cmd, Value("dict", n, {}))
    /\ place' = "consumer"
    /\ UNCHANGED <<seq, read>>

\* Whoever cannot read a frame drops it, and that is all.
Reads(readable, next, what) ==
    IF readable
    THEN place' = next /\ read' = what
    ELSE place' = "lost" /\ read' = read

Accept ==
    /\ place = "server"
    /\ Reads(HeaderReadable(frame), "consumer", DecodeHeader(frame))
    /\ \E n \in Numbers : seq' = n /\ frame' = RewriteSeq(frame, n)
    /\ UNCHANGED call

\* The receiving thread of the consumer's main process.
Receive ==
    /\ place = "consumer"
    /\ IF frame.msgType = "CONTROL"
       THEN Reads(Decodable(frame), "answered", DecodeControl(frame))
       ELSE Reads(HeaderReadable(frame), "worker", PeekTopicSeq(frame))
    /\ UNCHANGED <<frame, call, seq>>

\* A worker: the header for the one kind of callbacks, the message for the other.
Work ==
    /\ place = "worker"
    /\ Reads(Decodable(frame), "done", [header |-> DecodeHeader(frame), message |-> Decode(frame)])
    /\ UNCHANGED <<frame, call, seq>>

Again ==
    /\ place \in {"done", "answered", "refused", "lost"}
    /\ place' = "idle" /\ frame' = Nothing /\ call' = Nothing /\ seq' = 0 /\ read' = Nothing

WireNext ==
    \/ /\ place = "idle"
       /\ \E t \in TopicNames, packed \in Packed :
            \/ \E v \in Values, o \in Options :
                  PublishFrame(t, v, o, packed) \/ ProduceFrame(t, v, o, packed)
            \/ \E n \in Sizes : Command(t, n, packed)
    \/ Accept \/ Receive \/ Work \/ Again

WireSpec == WireInit /\ [][WireNext]_wireVars

-----------------------------------------------------------------------------
(* Properties *)

\* What a value holds that does not come back.
Lost(v, ser) ==
    Altered[ser] \cup IF v.kind # "DataFrame" THEN {}
                      ELSE IF ser = "pyarrow" THEN {Index} ELSE {Index, ColumnTypes}

\* A data frame without rows that was sent as text comes back without its columns.
Preserved(v, ser) ==
    IF v.kind = "DataFrame" /\ v.size = 0 /\ ser # "pyarrow" THEN [v EXCEPT !.columns = FALSE] ELSE v

CallSerializer == Serializer(call.value, call.options)

Labelled == call.options.type \in {Default, InferredType(call.value)}

Within ==
    /\ Len(call.topic) <= MaxTopicLen /\ RecordCount(call.value) <= MaxRecords
    /\ FrameFits(call.topic, call.options, call.packed)

\* What publish() accepts arrives, although each reader finds the fields by the
\* flags alone and the server changes the frame on its way: the server reads the
\* topic, the token and the record count, the receiving thread the topic and the
\* new number, the worker the same, past the checksum, and a value of the Python
\* type that was published ("全链路类型保真"), which is the very value unless it held
\* what its serializer or this code's use of it does not give back.  And nothing
\* is refused of the four types in its default form but for its size and for what
\* the library of that form refuses.
Delivered ==
    /\ place = "lost" => ~Labelled
    /\ place = "refused" =>
          ~(/\ call.value.kind # "list" /\ call.options.ser = Default /\ Labelled /\ Within
            /\ call.value.traits \cap Refused[CallSerializer] = {})
    /\ place = "consumer" /\ seq # 0 =>
          read = [topic |-> call.topic, records |-> RecordCount(call.value), msgType |-> "DATA",
                  seq |-> 0, token |-> call.options.token, payload |-> read.payload]
    /\ place = "worker" => read = <<call.topic, seq, "DATA">>
    /\ place = "answered" => read = [cmd |-> call.topic, payload |-> call.value]
    /\ place = "done" =>
          /\ read.header.topic = call.topic /\ read.header.seq = seq
          /\ read.header.records = RecordCount(call.value)
          /\ read.message.topic = call.topic /\ read.message.seq = seq
          /\ Len(read.header.payload) = 1
          /\ Labelled /\ call.value.kind # "list" =>
                /\ read.message.value.kind = call.value.kind
                /\ call.value.traits \cap Lost(call.value, CallSerializer) = {} =>
                      read.message.value = Preserved(call.value, CallSerializer)
                /\ KeyExtractable(frame) <=> call.value.kind \in {"dict", "str"}

\* docs/ARCHITECTURE.md on the JSON serializer: "拒绝 bytes（防 base64 变形）", it refuses
\* bytes, so that they are not turned into base64 text.  serialize() looks at the
\* value itself only, not at what a dict holds.
BytesNotDeformed ==
    place = "done" /\ CallSerializer = "json" /\ "bytes" \in call.value.traits =>
        "bytes" \in read.message.value.traits
=============================================================================
