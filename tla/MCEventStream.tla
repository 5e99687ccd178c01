---------------------------- MODULE MCEventStream ----------------------------
(***************************************************************************)
(* Inputs for the eventstream codec: messages to encode into buffers of every  *)
(* small size, packets with one damaged cell, and header sections made of      *)
(* arbitrary cells.                                                            *)
(***************************************************************************)
EXTENDS EventStream, FiniteSets

CONSTANTS
    MaxBuf,     \* bound: largest buffer
    MaxRaw      \* bound: longest arbitrary header section

VARIABLES input, result

vars == <<input, result>>

Names == {MessageType, StreamId, << <<9>>, <<9>> >>, << <<9>>, <<9>>, <<9>> >>}
Headers ==
    [name : Names, type : {EVENTSTREAM_INT32}, val : {<<5>>, <<6>>}]
    \cup [name : Names, type : {EVENTSTREAM_STRING}, val : UNION {[1..n -> {<<8>>}] : n \in 0..3}]
HeaderLists == UNION {[1..n -> Headers] : n \in 0..2}
Payloads == {<<>>, << <<8>> >>, << <<8>>, <<4>> >>}
RawCells == {<<n>> : n \in {0, 1, 2, EVENTSTREAM_INT32, EVENTSTREAM_STRING}}

Inputs ==
    [kind : {"message"}, bufLen : 0..MaxBuf, headers : HeaderLists, payload : Payloads]
    \cup [kind : {"damaged"}, cell : 1..MaxBuf, headers : HeaderLists, payload : Payloads]
    \cup [kind : {"raw"}, cells : UNION {[1..n -> RawCells] : n \in 0..MaxRaw}]

NotRun == [ret |-> "NOT_RUN"]

\* eventsteam_get_packet on a whole packet, then the common headers.
Received(cells) ==
    LET prelude == eventstream_decode_prelude(SubSeq(cells, 1, PRELUDE))
        msg == eventstream_decode(prelude, SubSeq(cells, PRELUDE + 1, Len(cells)))
    IN  IF prelude.ret # "OK" THEN prelude
        ELSE IF PRELUDE + prelude.data_len # Len(cells) THEN [ret |-> "LENGTH"]
        ELSE msg

Init == input \in Inputs /\ result = NotRun

Encode ==
    /\ input.kind = "message"
    /\ result = NotRun
    /\ result' = eventstream_encode(input.bufLen, input.headers, input.payload)
    /\ UNCHANGED input

DecodeDamaged ==
    /\ input.kind = "damaged"
    /\ result = NotRun
    /\ LET sent == eventstream_encode(MaxBuf, input.headers, input.payload)
       IN  /\ sent.ret = "OK"
           /\ input.cell <= Len(sent.cells)
           /\ result' = Received([sent.cells EXCEPT ![input.cell] = <<99>>])
    /\ UNCHANGED input

Iterate ==
    /\ input.kind = "raw"
    /\ result = NotRun
    /\ LET count == count_headers(input.cells)
       IN  result' = IF count = -1 THEN [ret |-> "PARSE"]
                     ELSE [ret |-> "OK", pos |-> iter_pos(input.cells, 0, count)]
    /\ UNCHANGED input

Next == Encode \/ DecodeDamaged \/ Iterate

Spec == Init /\ [][Next]_vars

\* What eventstream_encode writes, eventsteam_get_packet reads back: the same
\* headers and payload, and as many bytes as the packet has.
PacketRoundTrip ==
    (input.kind = "message" /\ result.ret = "OK") =>
        Received(result.cells) =
            [ret |-> "OK", headers |-> input.headers, payload |-> input.payload]

Need(headers, payload) ==
    PRELUDE + CRC + Len(payload)
    + FoldLeft(LAMBDA n, h : n + Len(h.name) + 3
                               + IF h.type = EVENTSTREAM_INT32 THEN 0 ELSE Len(h.val),
               0, headers)

\* eventstream_encode succeeds exactly when the headers are within the limits of
\* the format and the whole packet, its last CRC included, fits the buffer; it
\* never writes past the buffer.
EncodeFitsBuffer ==
    (input.kind = "message" /\ result.ret # "NOT_RUN") =>
        LET room == IF input.bufLen > MaxLen THEN MaxLen ELSE input.bufLen
        IN  /\ (result.ret = "OK") <=>
                 (/\ \A h \in ToSet(input.headers) :
                       /\ Len(h.name) <= MaxName
                       /\ h.type = EVENTSTREAM_STRING => Len(h.val) <= MaxStr
                  /\ Need(input.headers, input.payload) <= room)
            /\ Len(result.cells) <= room

\* The message and prelude CRCs together cover every byte: a packet with one
\* changed cell is never accepted.
DamageDetected == input.kind = "damaged" => result.ret # "OK"

\* eventstream_header_next does not look at the end of the headers; the count
\* that count_headers accepted makes it stop exactly there, on any input.
IteratorStaysInHeaders ==
    (input.kind = "raw" /\ result.ret = "OK") => result.pos = Len(input.cells)

=============================================================================
