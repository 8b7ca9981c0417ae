------------------------------- MODULE Codec -------------------------------
(***************************************************************************)
(* CCodeEngine (src/common/common_codeengine.cpp) and the heads it packs   *)
(* (src/frame_protocolhead.h, src/frame/dal/frame_common_codeengine.cpp).  *)
(* A head is a function from its fields to numbers; a packet is a row of   *)
(* bytes in network order, on hosts of either byte order.  And CLogQueue   *)
(* (src/common/common_logqueue.h), which packs a log record with the       *)
(* parameters of its file behind it, for the same host.                    *)
(***************************************************************************)
EXTENDS Integers, Sequences, SequencesExt, Folds

CONSTANT ByteBase       \* the values of a byte, 256 in the code

\* buf, size and offset, with the cells of memory behind the buffer.
Beyond == 4
Buffer(size) == [cells |-> [i \in 0 .. size + Beyond - 1 |-> 0], size |-> size, offset |-> 0, ok |-> TRUE]

\* A number in the memory of a host, and back.
Digits(v, width) == [i \in 1 .. width |-> (v \div ByteBase^(width - i)) % ByteBase]
InMemory(big, v, width) == IF big THEN Digits(v, width) ELSE Reverse(Digits(v, width))
FromMemory(big, p) == FoldLeft(LAMBDA sum, d : sum * ByteBase + d, 0, IF big THEN p ELSE Reverse(p))

Fits(b, width) == b.ok /\ b.size > 0 /\ b.offset + width <= b.size
Fail(b) == [b EXCEPT !.ok = FALSE]
Put(b, bytes) == [b EXCEPT !.offset = @ + Len(bytes),
                           !.cells = [i \in DOMAIN @ |-> IF i - b.offset + 1 \in DOMAIN bytes
                                                         THEN bytes[i - b.offset + 1] ELSE @[i]]]
Taken(b, width) == [i \in 1 .. width |-> b.cells[b.offset + i - 1]]

\* (mutant) on a little-endian host too the bytes go as they lie
Encode_HostOrder(big, b, v, width) == IF Fits(b, width) THEN Put(b, InMemory(big, v, width)) ELSE Fail(b)

\* ENCODE and DECODE: the bytes of the host's memory, turned round if it is little-endian.
Encode(big, b, v, width) ==
    LET p == InMemory(big, v, width)
    IN  IF Fits(b, width) THEN Put(b, IF big THEN p ELSE Reverse(p)) ELSE Fail(b)

Decode(big, b, width) ==
    LET p == IF big THEN Taken(b, width) ELSE Reverse(Taken(b, width))
    IN  IF Fits(b, width) THEN [buffer |-> [b EXCEPT !.offset = @ + width], value |-> FromMemory(big, p)]
        ELSE [buffer |-> Fail(b), value |-> 0]

\* A row of bytes; and a text, its length in two bytes before it and a zero behind it.
EncodeArray(b, data, maxLength) ==
    IF ~b.ok \/ b.size = 0 THEN Fail(b)
    ELSE IF data = << >> THEN b
    ELSE IF Fits(b, Len(data)) /\ Len(data) <= maxLength THEN Put(b, data) ELSE Fail(b)
EncodeText(big, b, data, maxLength) == EncodeArray(Encode(big, b, Len(data), 2), data, maxLength)
DecodeArray(b, length, maxLength) ==
    IF ~b.ok \/ b.size = 0 \/ ~Fits(b, length) \/ length > maxLength THEN [buffer |-> Fail(b), value |-> << >>]
    ELSE [buffer |-> [b EXCEPT !.offset = @ + length], value |-> Taken(b, length)]
DecodeText(big, b, maxLength) ==
    LET n == Decode(big, b, 2)
        d == DecodeArray(n.buffer, n.value, maxLength)
    IN  [d EXCEPT !.value = Append(@, 0)]
-----------------------------------------------------------------------------
\* The fields of a head in the order MessageEncode and MessageDecode take them, with
\* the bytes of their types.
ConnHeadEncode == <<<<"roleID", 4>>, <<"connIndex", 2>>, <<"nControlType", 1>>, <<"nControlParam", 4>>,
                    <<"nClientAddress", 4>>, <<"nClientPort", 2>>>>
ConnHeadDecode == <<<<"roleID", 4>>, <<"connIndex", 2>>, <<"nControlType", 1>>, <<"nControlParam", 4>>,
                    <<"nClientAddress", 4>>, <<"nClientPort", 2>>>>

MessageHeadCSEncode == <<<<"nTotalSize", 2>>, <<"nVersion", 2>>, <<"nMessageID", 4>>, <<"nRoleID", 4>>,
                         <<"nRoomID", 4>>, <<"nSequence", 4>>, <<"nOption", 4>>>>
MessageHeadCSDecode == <<<<"nTotalSize", 2>>, <<"nVersion", 2>>, <<"nMessageID", 4>>, <<"nRoleID", 4>>,
                         <<"nRoomID", 4>>, <<"nSequence", 4>>, <<"nOption", 4>>>>

MessageHeadSSEncode == <<<<"nTotalSize", 4>>, <<"nMessageID", 4>>, <<"nHeadSize", 2>>, <<"nMessageType", 1>>,
    <<"nSourceType", 1>>, <<"nDestType", 1>>, <<"nSourceID", 4>>, <<"nDestID", 4>>, <<"nRoleID", 4>>, <<"nSequence", 4>>,
    <<"nTransType", 1>>, <<"nSessionIndex", 4>>, <<"nRoomID", 4>>, <<"nZoneID", 4>>, <<"nRouterIndex", 2>>>>
MessageHeadSSDecode == <<<<"nTotalSize", 4>>, <<"nMessageID", 4>>, <<"nHeadSize", 2>>, <<"nMessageType", 1>>,
    <<"nSourceType", 1>>, <<"nDestType", 1>>, <<"nSourceID", 4>>, <<"nDestID", 4>>, <<"nRoleID", 4>>, <<"nSequence", 4>>,
    <<"nTransType", 1>>, <<"nSessionIndex", 4>>, <<"nRoomID", 4>>, <<"nZoneID", 4>>, <<"nRouterIndex", 2>>>>

\* nErrorCode stays behind.
ConnUinEncode == <<<<"nVersion", 1>>, <<"nServerID", 1>>, <<"nTunnelIndex", 2>>, <<"nRoleID", 4>>, <<"nCreateTime", 4>>,
    <<"nIsn", 4>>, <<"nAddress", 4>>, <<"nPort", 2>>, <<"nNetType", 1>>, <<"nAccountType", 1>>,
    <<"nRouterAddress", 4>>, <<"nRouterPort", 2>>>>
ConnUinDecode == <<<<"nVersion", 1>>, <<"nServerID", 1>>, <<"nTunnelIndex", 2>>, <<"nRoleID", 4>>, <<"nCreateTime", 4>>,
    <<"nIsn", 4>>, <<"nAddress", 4>>, <<"nPort", 2>>, <<"nNetType", 1>>, <<"nAccountType", 1>>,
    <<"nRouterAddress", 4>>, <<"nRouterPort", 2>>>>

\* CFrameCodeEngine packs the same heads in functions of its own.
FrameConnHeadEncode == ConnHeadEncode
FrameConnHeadDecode == ConnHeadDecode
FrameMessageHeadSSEncode == MessageHeadSSEncode
FrameMessageHeadSSDecode == MessageHeadSSDecode
FrameConnUinEncode == ConnUinEncode
FrameConnUinDecode == ConnUinDecode

Heads == [ConnHead |-> <<ConnHeadEncode, ConnHeadDecode>>, MessageHeadCS |-> <<MessageHeadCSEncode, MessageHeadCSDecode>>,
          MessageHeadSS |-> <<MessageHeadSSEncode, MessageHeadSSDecode>>, ConnUin |-> <<ConnUinEncode, ConnUinDecode>>,
          FrameConnHead |-> <<FrameConnHeadEncode, ConnHeadDecode>>, FrameMessageHeadSS |-> <<FrameMessageHeadSSEncode, MessageHeadSSDecode>>,
          FrameConnUin |-> <<FrameConnUinEncode, ConnUinDecode>>, ConnHeadFrame |-> <<ConnHeadEncode, FrameConnHeadDecode>>,
          MessageHeadSSFrame |-> <<MessageHeadSSEncode, FrameMessageHeadSSDecode>>, ConnUinFrame |-> <<ConnUinEncode, FrameConnUinDecode>>]

MESSAGEHEADSS_SIZE == 44

MessageEncode(big, fields, head, b) == FoldLeft(LAMBDA a, f : Encode(big, a, head[f[1]], f[2]), b, fields)
MessageDecode(big, fields, b) ==
    FoldLeft(LAMBDA a, f : LET d == Decode(big, a.buffer, f[2])
                           IN  [buffer |-> d.buffer,
                                head |-> IF d.buffer.ok THEN Append(a.head, d.value) ELSE a.head],
             [buffer |-> b, head |-> << >>], fields)
-----------------------------------------------------------------------------
\* Behind the text of a log: its source or its name, two numbers, and the date.
enmLogNameLength == 30
DateLength == 8
enmLogParameterLength == 1 + 2 * 4 + DateLength
enmLogOtherParameterLength == enmLogNameLength + 2 * 4 + DateLength

\* The end of the date's text is one byte behind the record: reach.
Refused == [ok |-> FALSE, record |-> << >>, reach |-> 0]
Packed(big, text, what, ids, date) ==
    LET record == text \o what \o InMemory(big, ids[1], 4) \o InMemory(big, ids[2], 4) \o date
    IN  [ok |-> TRUE, record |-> record, reach |-> Len(record) + 1]
PushLog(big, text, source, ids, date, max) ==
    IF Len(text) > max - enmLogParameterLength THEN Refused ELSE Packed(big, text, <<source>>, ids, date)
PushNamedLog(big, text, name, ids, date, max) ==
    IF Len(text) > max - enmLogOtherParameterLength \/ Len(name) > enmLogNameLength THEN Refused
    ELSE Packed(big, text, [k \in 1 .. enmLogNameLength |-> IF k \in DOMAIN name THEN name[k] ELSE 0], ids, date)

\* Of each number its first byte in memory is read back, with a sign.
SignedByte(d) == IF 2 * d < ByteBase THEN d ELSE d - ByteBase
Unpacked(record, n, width, size) ==
    IF n > size THEN [ok |-> FALSE, reach |-> 0]
    ELSE [ok |-> TRUE, text |-> SubSeq(record, 1, n), what |-> SubSeq(record, n + 1, n + width),
          ids |-> <<SignedByte(record[n + width + 1]), SignedByte(record[n + width + 5])>>,
          date |-> SubSeq(record, n + width + 9, Len(record)), reach |-> n + 1]
PopLog(record, size) == Unpacked(record, Len(record) - enmLogParameterLength, 1, size)
PopNamedLog(record, size) ==
    LET r == Unpacked(record, Len(record) - enmLogOtherParameterLength, enmLogNameLength, size)
    IN  IF r.ok THEN [r EXCEPT !.what = SelectSeq(@, LAMBDA ch : ch # 0)] ELSE r
-----------------------------------------------------------------------------
Length(fields) == FoldLeft(LAMBDA n, f : n + f[2], 0, fields)

\* Numbers with a different pattern of bytes in each field.
Sample(fields, seed) ==
    [f \in {fields[k][1] : k \in DOMAIN fields} |->
        LET k == CHOOSE k \in DOMAIN fields : fields[k][1] = f
        IN  (seed * k * 7 + k) % ByteBase^fields[k][2]]

\* Into a buffer of this size one host packs the head, and another unpacks what came of it.
HeadSurvives(name, seed, from, to, size) ==
    LET fields == Heads[name][1]
        head == Sample(fields, seed)
        sent == MessageEncode(from, fields, head, Buffer(size))
        got == MessageDecode(to, Heads[name][2], [sent EXCEPT !.offset = 0, !.ok = TRUE])
        cut == MessageDecode(to, Heads[name][2], [sent EXCEPT !.offset = 0, !.ok = TRUE, !.size = sent.offset - 1])
    IN  /\ sent.ok = (Length(fields) <= size) /\ \A i \in size .. size + Beyond - 1 : sent.cells[i] = 0
        /\ sent.ok => /\ got.buffer.ok /\ got.buffer.offset = Length(fields)
                      /\ got.head = [k \in DOMAIN fields |-> head[fields[k][1]]]
                      /\ ~cut.buffer.ok /\ cut.buffer.offset < sent.offset

TextSurvives(n, from, to, size, maxLength) ==
    LET data == [i \in 1 .. n |-> i % ByteBase]
        sent == EncodeText(from, Buffer(size), data, maxLength)
        got == DecodeText(to, [sent EXCEPT !.offset = 0], maxLength)
    IN  /\ sent.ok = (n + 2 <= size /\ n <= maxLength) /\ \A i \in size .. size + Beyond - 1 : sent.cells[i] = 0
        /\ sent.ok => got.buffer.ok /\ got.value = Append(data, 0)

\* A log of n bytes comes back with its source or name and its date, and the buffers are
\* kept unless it is as long as can be; the numbers come back if they fit a signed byte,
\* and on a host that has the low byte first.
LogSurvives(big, n, named, width, id, max, size) ==
    LET text == [k \in 1 .. n |-> k]
        what == [k \in 1 .. width |-> 1 + (k % 3)]
        date == [k \in 1 .. DateLength |-> k]
        parameters == IF named THEN enmLogOtherParameterLength ELSE enmLogParameterLength
        sent == IF named THEN PushNamedLog(big, text, what, <<id, 0>>, date, max)
                ELSE PushLog(big, text, what[1], <<id, 0>>, date, max)
        got == IF named THEN PopNamedLog(sent.record, size) ELSE PopLog(sent.record, size)
    IN  /\ sent.ok = (n <= max - parameters /\ width <= enmLogNameLength)
        /\ n # max - parameters => sent.reach <= max
        /\ sent.ok => /\ got.ok = (n <= size) /\ (n # size => got.reach <= size)
                      /\ got.ok => /\ got.text = text /\ got.what = what /\ got.date = date /\ got.ids[2] = 0
                                   /\ ~big /\ 2 * id < ByteBase => got.ids[1] = id
=============================================================================
