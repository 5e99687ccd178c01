----------------------------- MODULE EventStream -----------------------------
(***************************************************************************)
(* The eventstream codec of src/src/eventstream: eventstream_encode,         *)
(* eventstream_decode_prelude, eventstream_decode, the header iterator and   *)
(* eventstream_get_common_headers.                                           *)
(*                                                                           *)
(* A packet is a sequence of cells.  A cell stands for one field of fixed    *)
(* width (a 4-byte word, a length or a type) or for one byte of a name, a    *)
(* string or a payload; lengths count cells, so the 12 prelude bytes are 3   *)
(* cells and the 4 bytes of the message CRC are 1.  A number n is the cell   *)
(* <<n>>.  A CRC is the pair <<-1, cells it covers>>: it composes over       *)
(* concatenation like gg_update_crc, and has no collisions.                  *)
(***************************************************************************)
EXTENDS Integers, Sequences, SequencesExt

CONSTANTS
    MaxName,    \* UINT8_MAX: longest header name
    MaxStr,     \* UINT16_MAX: longest header string
    MaxLen      \* UINT32_MAX: longest packet

EVENTSTREAM_INT32 == 4
EVENTSTREAM_STRING == 7
PRELUDE == 3    \* 12 bytes
CRC == 1        \* 4 bytes

\* Names of the headers eventstream_get_common_headers looks for.
MessageType == << <<1>> >>
MessageFlags == << <<2>> >>
StreamId == << <<3>> >>

NoCrc == <<-1, <<>>>>

\* gg_update_crc.
UpdateCrc(crc, cells) == <<crc[1], crc[2] \o cells>>

-----------------------------------------------------------------------------
(* Encoding.  A header is [name, type, val]; val is a cell for an INT32 and  *)
(* a sequence of cells for a STRING.                                         *)

\* The writes of header_encode in their order; a write that is refused before it
\* reaches the buffer is an error name.
Chunk(cells) == [err |-> "OK", cells |-> cells]
Refused == [err |-> "RANGE", cells |-> <<>>]

HeaderChunks(h) ==
    IF Len(h.name) > MaxName THEN <<Refused>>
    ELSE <<Chunk(<< <<Len(h.name)>> >>), Chunk(h.name), Chunk(<< <<h.type>> >>)>>
         \o IF h.type = EVENTSTREAM_INT32 THEN <<Chunk(<<h.val>>)>>
            ELSE IF Len(h.val) > MaxStr THEN <<Refused>>
            ELSE <<Chunk(<< <<Len(h.val)>> >>), Chunk(h.val)>>

\* gg_buf_writer's write: all of the chunk or nothing.
buf_write(acc, chunk, room) ==
    IF acc.ret # "OK" THEN acc
    ELSE IF chunk.err # "OK" THEN [acc EXCEPT !.ret = chunk.err]
    ELSE IF Len(acc.cells) + Len(chunk.cells) > room THEN [acc EXCEPT !.ret = "NOMEM"]
    ELSE [acc EXCEPT !.cells = @ \o chunk.cells]

header_encode(headers, room) ==
    FoldLeft(LAMBDA acc, chunk : buf_write(acc, chunk, room),
             [ret |-> "OK", cells |-> <<>>],
             FlattenSeq([i \in DOMAIN headers |-> HeaderChunks(headers[i])]))

\* The words in front of a message with these lengths.
Prelude(len, hlen) ==
    LET words == << <<len>>, <<hlen>> >>
    IN  Append(words, UpdateCrc(NoCrc, words))

\* A whole packet: lengths, prelude CRC, headers, payload and message CRC.
Framed(hcells, payload) ==
    LET prelude == Prelude(PRELUDE + Len(hcells) + Len(payload) + CRC, Len(hcells))
        body == <<prelude[3]>> \o hcells \o payload
    IN  prelude \o hcells \o payload \o <<UpdateCrc(prelude[3], body)>>

\* Mutant: the room for the message CRC is not checked.
eventstream_encode_NoCrcRoom(bufLen, headers, payload) ==
    LET room == IF bufLen > MaxLen THEN MaxLen ELSE bufLen
        hdrs == header_encode(headers, room - PRELUDE)
    IN  IF room < PRELUDE THEN [ret |-> "NOMEM", cells |-> <<>>]
        ELSE IF hdrs.ret # "OK" THEN [ret |-> hdrs.ret, cells |-> <<>>]
        ELSE IF PRELUDE + Len(hdrs.cells) + Len(payload) > room
             THEN [ret |-> "NOMEM", cells |-> <<>>]
        ELSE [ret |-> "OK", cells |-> Framed(hdrs.cells, payload)]

\* eventstream_encode into a buffer of bufLen cells.  The payload reader fails
\* when the payload does not fit what the headers leave.
eventstream_encode(bufLen, headers, payload) ==
    LET room == IF bufLen > MaxLen THEN MaxLen ELSE bufLen
        hdrs == header_encode(headers, room - PRELUDE)
        left == room - PRELUDE - Len(hdrs.cells) - Len(payload)
    IN  IF room < PRELUDE THEN [ret |-> "NOMEM", cells |-> <<>>]
        ELSE IF hdrs.ret # "OK" THEN [ret |-> hdrs.ret, cells |-> <<>>]
        ELSE IF left < CRC THEN [ret |-> "NOMEM", cells |-> <<>>]
        ELSE [ret |-> "OK", cells |-> Framed(hdrs.cells, payload)]

-----------------------------------------------------------------------------
(* Decoding.                                                                 *)

\* eventstream_decode_prelude on the three prelude cells.
eventstream_decode_prelude(buf) ==
    LET len == buf[1][1]
        hlen == buf[2][1]
    IN  IF buf[3] # UpdateCrc(NoCrc, SubSeq(buf, 1, 2)) THEN [ret |-> "PARSE"]
        ELSE IF len < PRELUDE + CRC \/ hlen > len - PRELUDE - CRC THEN [ret |-> "PARSE"]
        ELSE [ret |-> "OK", data_len |-> len - PRELUDE, headers_len |-> hlen,
              crc |-> UpdateCrc(buf[3], <<buf[3]>>)]

\* The number of cells of the header that starts at cell i + 1 of s, as
\* eventstream_header_next computes it, without a look at the length of s.
HeaderLen(s, i) ==
    LET nl == s[i + 1][1]
    IN  IF s[i + nl + 2][1] = EVENTSTREAM_INT32 THEN nl + 3 ELSE nl + 3 + s[i + nl + 3][1]

\* Mutant: the room for a string's bytes is not checked.
take_header_NoValueCheck(s) ==
    {k \in 1..(2 * Len(s)) :
        LET nl == s[1][1]
        IN  /\ nl + 3 <= Len(s)
            /\ s[nl + 2][1] \in {EVENTSTREAM_INT32, EVENTSTREAM_STRING}
            /\ k = HeaderLen(s, 0)}

\* take_header: the length of the first header of s, if s holds all of it and its
\* type is known; no length otherwise (GG_ERR_PARSE).
take_header(s) ==
    {k \in 1..Len(s) :
        LET nl == s[1][1]
        IN  /\ nl + 3 <= k
            /\ s[nl + 2][1] \in {EVENTSTREAM_INT32, EVENTSTREAM_STRING}
            /\ k = HeaderLen(s, 0)}

\* count_headers: -1 stands for GG_ERR_PARSE.
RECURSIVE count_headers(_)
count_headers(s) ==
    IF s = <<>> THEN 0
    ELSE IF take_header(s) = {} THEN -1
    ELSE LET rest == count_headers(SubSeq(s, (CHOOSE k \in take_header(s) : TRUE) + 1, Len(s)))
         IN  IF rest = -1 THEN -1 ELSE rest + 1

\* headers->pos after count calls of eventstream_header_next from cell i.
RECURSIVE iter_pos(_, _, _)
iter_pos(s, i, count) ==
    IF count = 0 THEN i ELSE iter_pos(s, i + HeaderLen(s, i), count - 1)

\* The header eventstream_header_next reads at cell i.
header_next(s, i) ==
    LET nl == s[i + 1][1]
        type == s[i + nl + 2][1]
    IN  [name |-> SubSeq(s, i + 2, i + nl + 1), type |-> type,
         val |-> IF type = EVENTSTREAM_INT32 THEN s[i + nl + 3]
                 ELSE SubSeq(s, i + nl + 4, i + HeaderLen(s, i))]

HeaderList(s, count) == [n \in 1..count |-> header_next(s, iter_pos(s, 0, n - 1))]

\* Mutant: the message CRC is not compared.
eventstream_decode_NoCrc(prelude, data) ==
    LET hcells == SubSeq(data, 1, prelude.headers_len)
        count == count_headers(hcells)
    IN  IF count = -1 THEN [ret |-> "PARSE"]
        ELSE [ret |-> "OK", headers |-> HeaderList(hcells, count),
              payload |-> SubSeq(data, prelude.headers_len + 1, Len(data) - CRC)]

\* eventstream_decode on the cells that follow the prelude.
eventstream_decode(prelude, data) ==
    LET hcells == SubSeq(data, 1, prelude.headers_len)
        count == count_headers(hcells)
    IN  IF data[Len(data)] # UpdateCrc(prelude.crc, SubSeq(data, 1, Len(data) - CRC))
           \/ count = -1
        THEN [ret |-> "PARSE"]
        ELSE [ret |-> "OK", headers |-> HeaderList(hcells, count),
              payload |-> SubSeq(data, prelude.headers_len + 1, Len(data) - CRC)]

\* The last header of a name counts; 0 when there is none.
CommonValue(headers, name) ==
    LET at == {i \in DOMAIN headers : headers[i].name = name}
    IN  IF at = {} THEN 0 ELSE headers[CHOOSE i \in at : \A j \in at : j <= i].val[1]

\* eventstream_get_common_headers.
eventstream_get_common_headers(headers) ==
    IF \E h \in ToSet(headers) :
          h.name \in {MessageType, MessageFlags, StreamId} /\ h.type # EVENTSTREAM_INT32
    THEN [ret |-> "INVALID"]
    ELSE [ret |-> "OK",
          message_type |-> CommonValue(headers, MessageType),
          message_flags |-> CommonValue(headers, MessageFlags),
          stream_id |-> CommonValue(headers, StreamId)]

=============================================================================
