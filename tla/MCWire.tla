------------------------------- MODULE MCWire -------------------------------
(***************************************************************************)
(* What goes over the socket: the stream of packets (PacketStream), and the  *)
(* two codecs by themselves, one input at a time.  The parts share no state; *)
(* part says which is run.                                                   *)
(***************************************************************************)
EXTENDS PacketStream

CONSTANTS
    MaxBuf, MaxRaw,                                 \* MCEventStream
    Bytes, MaxData, Chars, LastChars, MaxText       \* MCBase64

VARIABLES part, input, result

Stream(id) == << [name |-> StreamId, type |-> EVENTSTREAM_INT32, val |-> <<id>>] >>
NoNumber == << [name |-> StreamId, type |-> EVENTSTREAM_STRING, val |-> <<>>] >>

\* Two messages that can be delivered, one that fits only the sender's memory, one
\* with a negative stream id and one whose stream id is a string.
MCMessages ==
    {[headers |-> <<>>, payload |-> << <<8>> >>],
     [headers |-> Stream(1), payload |-> <<>>],
     [headers |-> Stream(1), payload |-> << <<8>> >>],
     [headers |-> Stream(-1), payload |-> <<>>],
     [headers |-> NoNumber, payload |-> <<>>]}

Es == INSTANCE MCEventStream
B64 == INSTANCE MCBase64

MCInit ==
    /\ Init
    /\ \/ part = "stream" /\ input = [kind |-> "none"] /\ result = <<>>
       \/ part = "eventstream" /\ Es!Init
       \/ part = "base64" /\ B64!Init

MCNext ==
    /\ \/ part = "stream" /\ Next /\ UNCHANGED <<input, result>>
       \/ part = "eventstream" /\ Es!Next /\ UNCHANGED vars
       \/ part = "base64" /\ B64!Next /\ UNCHANGED vars
    /\ UNCHANGED part

allVars == <<part, input, result, vars>>
MCSpec == MCInit /\ [][MCNext]_allVars

-----------------------------------------------------------------------------
(* The properties of the codecs, stated where they are defined.                *)

\* eventstream_encode succeeds exactly when the packet is valid and fits, never
\* writes past the buffer, and eventsteam_get_packet reads back what it wrote.
PacketRoundTrip == Es!PacketRoundTrip /\ Es!EncodeFitsBuffer

\* A packet with one changed cell is never accepted, and the receiving end meets a
\* damaged packet only behind a write that was cut off.
DamageDetected == Es!DamageDetected /\ DamageMeansCutWrite

\* eventstream_header_next stops exactly at the end of the headers.
IteratorStaysInHeaders == Es!IteratorStaysInHeaders

\* Data and base64 texts correspond one to one: what gg_base64_encode produces
\* decodes to the data, in place or not, and nothing else does.
Base64Exact == B64!Base64RoundTrip /\ B64!OneEncodingEach /\ B64!InPlaceIsSafe

=============================================================================
