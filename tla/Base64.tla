------------------------------- MODULE Base64 -------------------------------
(***************************************************************************)
(* src/src/base64.c.  Text and data are sequences of bytes in a memory: a      *)
(* decode reads segments of four from one place and writes up to three bytes   *)
(* to another, which for gg_base64_decode_in_place is the same.                *)
(***************************************************************************)
EXTENDS Integers, Sequences

Invalid == -1
Pad == 61

base64_char_to_byte(c) ==
    CASE c \in 65..90 -> c - 65
      [] c \in 97..122 -> c - 97 + 26
      [] c \in 48..57 -> c - 48 + 52
      [] c = 43 -> 62
      [] c = 47 -> 63
      [] OTHER -> Invalid

BASE64_TABLE(n) ==
    CASE n < 26 -> 65 + n
      [] n \in 26..51 -> 97 + n - 26
      [] n \in 52..61 -> 48 + n - 52
      [] n = 62 -> 43
      [] OTHER -> 47

Refused == [ok |-> FALSE, bytes |-> <<>>]
Accepted(bytes) == [ok |-> TRUE, bytes |-> bytes]

\* Four characters to one to three bytes; the bits that no byte uses must be zero.
base64_decode_segment(s) ==
    LET v == [i \in 1..4 |-> base64_char_to_byte(s[i])]
        b1 == v[1] * 4 + v[2] \div 16
        b2 == (v[2] % 16) * 16 + v[3] \div 4
    IN  IF Invalid \in {v[1], v[2]} THEN Refused
        ELSE IF s[3] = Pad
             THEN IF s[4] # Pad \/ v[2] % 16 # 0 THEN Refused ELSE Accepted(<<b1>>)
        ELSE IF v[3] = Invalid THEN Refused
        ELSE IF s[4] = Pad THEN IF v[3] % 4 # 0 THEN Refused ELSE Accepted(<<b1, b2>>)
        ELSE IF v[4] = Invalid THEN Refused
        ELSE Accepted(<<b1, b2, (v[3] % 4) * 64 + v[4]>>)

Write(mem, w, bytes) ==
    [k \in DOMAIN mem |-> IF k \in w..(w + Len(bytes) - 1) THEN bytes[k - w + 1] ELSE mem[k]]

RECURSIVE Segments(_, _, _, _, _)

\* Mutant: the output is placed one byte further.
Segments_Ahead(mem, r, n, w, last) ==
    LET write(seg) ==
            IF last \/ ~seg.ok THEN [ok |-> FALSE, mem |-> mem, end |-> w]
            ELSE Segments(Write(mem, w + 2, seg.bytes), r + 4, n - 1, w + Len(seg.bytes), Len(seg.bytes) # 3)
    IN  IF n = 0 THEN [ok |-> TRUE, mem |-> mem, end |-> w]
        ELSE write(base64_decode_segment(SubSeq(mem, r, r + 3)))

\* n segments from r on, written from w on; last: the previous one was padded.
Segments(mem, r, n, w, last) ==
    LET write(seg) ==
            IF last \/ ~seg.ok THEN [ok |-> FALSE, mem |-> mem, end |-> w]
            ELSE Segments(Write(mem, w, seg.bytes), r + 4, n - 1, w + Len(seg.bytes), Len(seg.bytes) # 3)
    IN  IF n = 0 THEN [ok |-> TRUE, mem |-> mem, end |-> w]
        ELSE write(base64_decode_segment(SubSeq(mem, r, r + 3)))

\* The text is mem[r..r+len-1], the target mem[w..w+room-1].
gg_base64_decode(mem, r, len, w, room) ==
    LET decoded(d) == IF ~d.ok THEN Refused ELSE Accepted(SubSeq(d.mem, w, d.end - 1))
    IN  IF len % 4 # 0 \/ room < (len \div 4) * 3 THEN Refused
        ELSE decoded(Segments(mem, r, len \div 4, w, FALSE))

gg_base64_decode_in_place(text) == gg_base64_decode(text, 1, Len(text), 1, Len(text))

EncodedLen(n) == ((n + 2) \div 3) * 4

\* The four characters of the i-th group of three bytes.
Chunk(s, i) ==
    LET at(k) == IF k <= Len(s) THEN s[k] ELSE 0
        chunk == at(3 * i + 1) * 65536 + at(3 * i + 2) * 256 + at(3 * i + 3)
        left == Len(s) - 3 * i
    IN  <<BASE64_TABLE(chunk \div 262144),
          BASE64_TABLE((chunk \div 4096) % 64),
          IF left > 1 THEN BASE64_TABLE((chunk \div 64) % 64) ELSE Pad,
          IF left > 2 THEN BASE64_TABLE(chunk % 64) ELSE Pad>>

\* arena: what is left of the arena the result is allocated from.
gg_base64_encode(s, arena) ==
    IF EncodedLen(Len(s)) > arena THEN Refused
    ELSE Accepted([k \in 1..EncodedLen(Len(s)) |-> Chunk(s, (k - 1) \div 4)[((k - 1) % 4) + 1]])

=============================================================================
