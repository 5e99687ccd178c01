------------------------------ MODULE MCBase64 ------------------------------
(* Data to encode into arenas of every size around the need, and texts to decode:
   all strings over a few characters of each kind. *)
EXTENDS Base64

CONSTANTS
    Bytes, MaxData,     \* bytes to encode, and how many
    Chars, LastChars,   \* characters to decode, the second of two segments over fewer
    MaxText

VARIABLES input, result

vars == <<input, result>>

Inputs ==
    [kind : {"data"}, seq : UNION {[1..n -> Bytes] : n \in 0..MaxData}, room : {0, 3, 4, 7, 8, 12}]
    \cup [kind : {"text"}, seq : UNION {[1..n -> Chars] : n \in 0..MaxText}, room : {0, 2, 3}]
    \cup [kind : {"text"}, seq : {a \o b : a \in [1..4 -> Chars], b \in [1..4 -> LastChars]}, room : {5, 6}]

Init == input \in Inputs /\ result = <<>>

Encode ==
    /\ input.kind = "data" /\ result = <<>>
    /\ result' = <<gg_base64_encode(input.seq, input.room)>>
    /\ UNCHANGED input

\* Into another buffer of the given size, and in place.
Decode ==
    /\ input.kind = "text" /\ result = <<>>
    /\ LET n == Len(input.seq)
           mem == input.seq \o [k \in 1..input.room |-> 0]
       IN  result' = <<gg_base64_decode(mem, 1, n, n + 1, input.room),
                       gg_base64_decode_in_place(input.seq)>>
    /\ UNCHANGED input

Next == Encode \/ Decode
Spec == Init /\ [][Next]_vars

-----------------------------------------------------------------------------
Encoded == input.kind = "data" /\ result # <<>>
Decoded == input.kind = "text" /\ result # <<>>

\* What gg_base64_encode produces decodes in place to the data, and it fails only
\* when the arena has less than the announced length.
Base64RoundTrip ==
    Encoded =>
        IF EncodedLen(Len(input.seq)) > input.room THEN ~result[1].ok
        ELSE /\ result[1].ok
             /\ Len(result[1].bytes) = EncodedLen(Len(input.seq))
             /\ gg_base64_decode_in_place(result[1].bytes) = Accepted(input.seq)

\* Every byte string has one encoding: a text that decodes is what encoding its
\* result gives, so padding in the middle and stray bits are refused.
OneEncodingEach ==
    Decoded /\ result[2].ok => gg_base64_encode(result[2].bytes, Len(input.seq)) = Accepted(input.seq)

\* Decoding over the text itself gives what decoding to another buffer gives: no
\* byte is overwritten before it is read.
InPlaceIsSafe ==
    Decoded /\ input.room >= (Len(input.seq) \div 4) * 3 => result[1] = result[2]

=============================================================================
