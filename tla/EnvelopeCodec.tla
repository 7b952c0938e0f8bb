--------------------------- MODULE EnvelopeCodec ---------------------------
(***************************************************************************)
(* RuntimeEnvelopeCodec: the decoder of the frames Core delivers, one step *)
(* per field, over every frame up to a length.  Bytes are bytes; the       *)
(* widths are scaled down, so that a frame too short to overflow 64 bits   *)
(* can overflow.  A string or a payload is the range of the frame it is    *)
(* read from, <<first byte before it, last byte>>.                         *)
(***************************************************************************)
EXTENDS Integers, Sequences

CONSTANTS
  Frames,           \* sequences of bytes
  Width,            \* bits of a varint: 64 in the code
  Fixed1, Fixed5,   \* bytes of the fixed fields: 8 and 4 in the code
  MaxReason         \* UInt32.max in the code

ASSUME CodecAssumption ==
  /\ Width \in Nat /\ Width % 7 = 1
  /\ Fixed1 \in Nat /\ Fixed5 \in Nat /\ MaxReason \in Nat
  \* No byte begins a sequence of UTF-8: a string is valid if it is ASCII.
  /\ Frames \subseteq Seq(0..255 \ 194..244)

VARIABLES
  frame,
  kind,             \* decodeEnvelope or decodeDeadletter
  readers,          \* the FieldReader, preceded by that of the outer message if nested
  fields,           \* of the deadletter and its original, or of the envelope
  outcome

vars == <<frame, kind, readers, fields, outcome>>

Strings == {"messageID", "correlationID", "source", "target", "detail"}
empty == <<0, 0>>
Defaults ==
  [f \in Strings \cup {"payload", "kind", "reason", "oneWay"} |->
     IF f = "oneWay" THEN FALSE ELSE IF f \in {"kind", "reason"} THEN 0 ELSE empty]

reader == readers[Len(readers)]

Init ==
  /\ frame \in Frames
  /\ kind \in {"envelope", "deadletter"}
  /\ readers = <<[offset |-> 0, count |-> Len(frame)]>>
  /\ fields = Defaults
  /\ outcome = "reading"

-----------------------------------------------------------------------------
(* FieldReader: each read gives a value and the offset behind it, or throws. *)

thrown == [ok |-> FALSE]
value(v, offset) == [ok |-> TRUE, value |-> v, offset |-> offset]

\* Mutant of varintLoop: the last byte may hold more than the bit that is left.
varintLoopUnchecked(i, first, count, rest) ==
  LET byte == frame[i + 1]  shift == 7 * (i - first) IN
  IF i = count THEN thrown
  ELSE IF byte < 128 THEN value(byte % 2^(Width - shift), i + 1)
  ELSE IF shift + 7 >= Width \/ ~rest.ok THEN thrown
  ELSE value((byte % 128) + 128 * rest.value, rest.offset)

\* The loop of readVarintRaw at byte i, its first byte behind first; rest is what
\* the bytes after it give.
varintLoop(i, first, count, rest) ==
  LET byte == frame[i + 1]  shift == 7 * (i - first) IN
  IF i = count \/ (shift = Width - 1 /\ byte > 1) THEN thrown
  ELSE IF byte < 128 THEN value(byte, i + 1)
  ELSE IF shift + 7 >= Width \/ ~rest.ok THEN thrown
  ELSE value((byte % 128) + 128 * rest.value, rest.offset)

varints(first, count) ==
  LET loop[i \in first..count] == varintLoop(i, first, count, loop[i + 1]) IN loop

readVarintRaw(offset, count) == varints(offset, count)[offset]

readVarint(type, offset, count) ==
  IF type = 0 THEN readVarintRaw(offset, count) ELSE thrown

\* Mutant of readBytes: the length is compared with the whole message.
readBytesOver(type, offset, count) ==
  LET length == readVarintRaw(offset, count) IN
  IF type = 2 /\ length.ok /\ length.value <= count
  THEN value(<<length.offset, length.offset + length.value>>, length.offset + length.value)
  ELSE thrown

readBytes(type, offset, count) ==
  LET length == readVarintRaw(offset, count) IN
  IF type = 2 /\ length.ok /\ length.value <= count - length.offset
  THEN value(<<length.offset, length.offset + length.value>>, length.offset + length.value)
  ELSE thrown

isUTF8(range) == \A i \in DOMAIN frame : range[1] < i /\ i <= range[2] => frame[i] < 128

readString(type, offset, count) ==
  LET bytes == readBytes(type, offset, count)
  IN  IF bytes.ok /\ isUTF8(bytes.value) THEN bytes ELSE thrown

skip(type, offset, count) ==
  LET size == IF type = 1 THEN Fixed1 ELSE Fixed5 IN
  CASE type = 0 -> readVarintRaw(offset, count)
    [] type = 2 -> readBytes(type, offset, count)
    [] type \in {1, 5} /\ size <= count - offset -> value(0, offset + size)
    [] OTHER -> thrown

-----------------------------------------------------------------------------
(* The two loops. *)

nested == Len(readers) = 2
inEnvelope == kind = "envelope" \/ nested

envelopeField ==
  [n \in {1, 2, 3, 4, 6, 7, 9} |->
     CASE n = 1 -> "messageID" [] n = 2 -> "correlationID" [] n = 3 -> "source" [] n = 4 -> "target"
       [] n = 6 -> "kind" [] n = 7 -> "oneWay" [] n = 9 -> "payload"]
deadletterField == <<"original", "reason", "detail">>
known == IF inEnvelope THEN envelopeField ELSE deadletterField

read(n, type, offset) ==
  IF n \notin DOMAIN known THEN skip(type, offset, reader.count)
  ELSE LET name == known[n] IN
       IF name \in Strings THEN readString(type, offset, reader.count)
       ELSE IF name \in {"payload", "original"} THEN readBytes(type, offset, reader.count)
       ELSE readVarint(type, offset, reader.count)

\* The readers behind a field.
advanced(offset) == [readers EXCEPT ![Len(readers)].offset = offset]

throw == outcome' = "thrown" /\ UNCHANGED <<readers, fields>>

\* A nested envelope begins empty; what was read of an earlier one is lost.
original == [f \in DOMAIN fields |-> IF f \in {"reason", "detail"} THEN fields[f] ELSE Defaults[f]]

\* A field that comes again replaces the value before it.
Take(name, v) == fields' = [fields EXCEPT ![name] = v]

\* One iteration: nextTag, the switch on its number, and the read it chooses.
Field ==
  /\ reader.offset < reader.count
  /\ LET tag == readVarintRaw(reader.offset, reader.count)
         n == tag.value \div 8
         body == read(n, tag.value % 8, tag.offset)
     IN  \/ ~tag.ok /\ throw
         \/ tag.ok /\ n = 0 /\ throw
         \/ tag.ok /\ n # 0 /\ ~body.ok /\ throw
         \/ /\ tag.ok /\ n # 0 /\ body.ok
            /\ UNCHANGED outcome
            /\ IF n \notin DOMAIN known THEN readers' = advanced(body.offset) /\ UNCHANGED fields
               ELSE IF known[n] = "original"
               THEN /\ readers' = Append(advanced(body.offset), [offset |-> body.value[1], count |-> body.value[2]])
                    /\ fields' = original
               ELSE /\ readers' = advanced(body.offset)
                    /\ Take(known[n], IF known[n] = "oneWay" THEN body.value # 0 ELSE body.value)

\* Mutant of EndOfMessage: the frame is read on with a new reader.
EndOfMessageRestarts ==
  /\ reader.offset = reader.count
  /\ \/ nested /\ readers' = <<[readers[1] EXCEPT !.offset = 0]>> /\ UNCHANGED <<fields, outcome>>
     \/ ~nested /\ fields.reason > MaxReason /\ throw
     \/ ~nested /\ fields.reason <= MaxReason /\ outcome' = "decoded" /\ UNCHANGED <<readers, fields>>

\* The end of a message: of a nested one, of the frame, or of a deadletter, whose
\* reason must fit.
EndOfMessage ==
  /\ reader.offset = reader.count
  /\ \/ nested /\ readers' = <<readers[1]>> /\ UNCHANGED <<fields, outcome>>
     \/ ~nested /\ fields.reason > MaxReason /\ throw
     \/ ~nested /\ fields.reason <= MaxReason /\ outcome' = "decoded" /\ UNCHANGED <<readers, fields>>

Next == outcome = "reading" /\ (Field \/ EndOfMessage) /\ UNCHANGED <<frame, kind>>

Spec == Init /\ [][Next]_vars

-----------------------------------------------------------------------------
(* What a frame means, without reading it in order.  A part of it is a pair   *)
(* <<p, q>>, its bytes p+1..q.                                               *)

VarintBytes == (Width + 6) \div 7

isVarint(p, q) ==
  /\ q - p \in 1..VarintBytes
  /\ \A i \in p + 1 .. q - 1 : frame[i] >= 128
  /\ frame[q] < (IF q - p = VarintBytes THEN 2 ELSE 128)

\* The digits behind p up to i, in base 128 and the lowest first, and the weight of
\* the next; before is the same up to i - 1.
digits(i, p, before) ==
  IF i = p THEN [sum |-> 0, weight |-> 1]
  ELSE [sum |-> before.sum + before.weight * (frame[i] % 128), weight |-> 128 * before.weight]

sums(p, q) == LET sum[i \in p..q] == digits(i, p, sum[i - 1]) IN sum

number(p, q) == sums(p, q)[q].sum

\* Where the varint behind p ends.
end(p) == CHOOSE q \in p + 1 .. Len(frame) : isVarint(p, q)
fieldNumber(f) == number(f[1], end(f[1])) \div 8
fieldType(f) == number(f[1], end(f[1])) % 8
content(f) ==
  IF fieldType(f) = 0 THEN number(end(f[1]), f[2]) ELSE <<end(end(f[1])), f[2]>>

isField(f) ==
  \E m \in f[1] + 1 .. f[2] :
    /\ isVarint(f[1], m)
    /\ fieldNumber(f) > 0
    /\ \/ fieldType(f) = 0 /\ isVarint(m, f[2])
       \/ fieldType(f) = 1 /\ f[2] = m + Fixed1
       \/ fieldType(f) = 5 /\ f[2] = m + Fixed5
       \/ fieldType(f) = 2 /\ \E n \in m + 1 .. f[2] : isVarint(m, n) /\ f[2] = n + number(m, n)

\* The ways to cut a part into fields: there is one, or none.
partition(cuts) == {f \in cuts \X cuts : f[1] < f[2] /\ \A c \in cuts : c <= f[1] \/ c >= f[2]}
Layouts(part) ==
  {partition(cuts \cup {part[1], part[2]}) : cuts \in SUBSET (part[1]..part[2])}
isLayout(fs) == \A f \in fs : isField(f)

wellTyped(f, schema) ==
  fieldNumber(f) \in DOMAIN schema =>
    LET name == schema[fieldNumber(f)] IN
    IF name \in {"kind", "oneWay", "reason"} THEN fieldType(f) = 0
    ELSE fieldType(f) = 2 /\ (name \in Strings => isUTF8(content(f)))

Messages(part, schema) ==
  {fs \in Layouts(part) : isLayout(fs) /\ \A f \in fs : wellTyped(f, schema)}

\* The last field of a name decides.
occurrences(fs, schema, name) ==
  {f \in fs : fieldNumber(f) \in DOMAIN schema /\ schema[fieldNumber(f)] = name}
last(fs) == CHOOSE f \in fs : \A g \in fs : g[1] <= f[1]
meaning(fs, schema, name) ==
  LET all == occurrences(fs, schema, name)
  IN  IF all = {} THEN Defaults[name]
      ELSE IF name = "oneWay" THEN content(last(all)) # 0 ELSE content(last(all))

EnvelopeNames == DOMAIN Defaults \ {"reason", "detail"}

isEnvelope(part) == Messages(part, envelopeField) # {}
fieldsOf(part) == CHOOSE fs \in Messages(part, envelopeField) : TRUE
envelope(part) == [name \in EnvelopeNames |-> meaning(fieldsOf(part), envelopeField, name)]

originals(fs) == {f \in fs : fieldNumber(f) = 1}
isDeadletter(fs) ==
  /\ \A f \in originals(fs) : isEnvelope(content(f))
  /\ meaning(fs, deadletterField, "reason") <= MaxReason

-----------------------------------------------------------------------------
(* Properties *)

ranges == {r \in (0..Len(frame)) \X (0..Len(frame)) : r[1] <= r[2]}

\* Every variable keeps its type, and no read passes the end of its message, nor a
\* nested message the end of the outer one: bytes outside are never touched, and a
\* string or a payload is a range of the frame.
TypeOK ==
  /\ readers \in Seq([offset : Nat, count : Nat])
  /\ Len(readers) \in 1..2
  /\ \A i \in DOMAIN readers : readers[i].offset <= readers[i].count
  /\ nested => reader.count <= readers[1].offset
  /\ readers[1].count = Len(frame)
  /\ DOMAIN fields = DOMAIN Defaults
  /\ \A f \in Strings \cup {"payload"} : fields[f] \in ranges
  /\ fields.kind \in Nat /\ fields.reason \in Nat /\ fields.oneWay \in BOOLEAN
  /\ outcome \in {"reading", "decoded", "thrown"}

\* What is left to read, a byte more for the end of a nested message.
left == (readers[1].count - readers[1].offset)
        + (IF nested THEN 1 + reader.count - reader.offset ELSE 0)

\* Every iteration, of the outer loop and of a nested one, ends the decoding or
\* leaves less to read: no frame keeps the decoder in its loops.
UsesUpFrame == [][outcome' = "reading" => left' < left]_vars

\* The decoder accepts exactly the frames that are a message, and gives each field
\* the value its last occurrence has: overlong varints, unknown fields in between,
\* truncation at any byte and repeated nested messages included.
DecodesMeaning ==
  outcome # "reading" =>
    LET whole == <<0, Len(frame)>>
        deadletters == {fs \in Messages(whole, deadletterField) : isDeadletter(fs)}
    IN  IF kind = "envelope"
        THEN IF isEnvelope(whole)
             THEN /\ outcome = "decoded"
                  /\ \A name \in EnvelopeNames : fields[name] = envelope(whole)[name]
             ELSE outcome = "thrown"
        ELSE IF deadletters # {}
             THEN LET fs == CHOOSE fs \in deadletters : TRUE IN
                  /\ outcome = "decoded"
                  /\ \A name \in {"reason", "detail"} : fields[name] = meaning(fs, deadletterField, name)
                  /\ \A f \in originals(fs) : (\A g \in originals(fs) : g[1] <= f[1]) =>
                       \A name \in EnvelopeNames : fields[name] = envelope(content(f))[name]
             ELSE outcome = "thrown"
=============================================================================
