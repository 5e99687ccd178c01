------------------------------ MODULE JsonDecode ------------------------------
(* gg_json_decode_destructive on every short text over small alphabets, on all
   integers around the limits of their type, and on strings put together from
   characters and escapes. *)
EXTENDS Json, SequencesExt

CONSTANTS
    MaxArray, MaxObject, MaxNumber, MaxString,  \* bounds: lengths of texts
    Codes       \* code units to escape

VARIABLES input, result

vars == <<input, result>>

Texts(alphabet, n) == UNION {[1..k -> alphabet] : k \in 0..n}
Ample == 50

\* Characters of a string: raw text with its code point, or an escaped code unit.
Hex(n) == <<HexDigit(n \div 4096), HexDigit((n \div 256) % 16), HexDigit((n \div 16) % 16), HexDigit(n % 16)>>
Chars ==
    {[text |-> <<97>>, raw |-> TRUE, code |-> 97],
     [text |-> <<195, 169>>, raw |-> TRUE, code |-> 233],
     [text |-> <<Backslash, 110>>, raw |-> TRUE, code |-> 10]}
    \cup {[text |-> <<Backslash, 117>> \o Hex(n), raw |-> FALSE, code |-> n] : n \in Codes}

Inputs ==
    {[kind |-> "text", text |-> t] :
        t \in Texts({91, 93, Comma, 49, 32}, MaxArray)
              \cup Texts({123, 125, Comma, Colon, Quote, 49}, MaxObject)
              \cup Texts({45, 48, 49, 46, 101}, MaxNumber)
              \cup {<<Quote>> \o s : s \in Texts({Quote, Backslash, 97, 31, 195, 169}, MaxString)}}
    \cup {[kind |-> "integer", n |-> n] : n \in (-2 * INT64_MAX)..(2 * INT64_MAX)}
    \cup {[kind |-> "string", chars |-> cs] : cs \in Texts(Chars, 3)}

TextOf(in) ==
    CASE in.kind = "text" -> in.text
      [] in.kind = "integer" -> Decimal(in.n)
      [] in.kind = "string" ->
            <<Quote>> \o FlattenSeq([i \in DOMAIN in.chars |-> in.chars[i].text]) \o <<Quote>>

Decode(in, left) ==
    gg_json_decode_destructive([Memory(<<"null", 0>>, left, 0) EXCEPT !.text = TextOf(in)])

NotRun == [ret |-> "NOT_RUN"]

Init == input \in Inputs /\ result = NotRun

Run ==
    /\ result = NotRun
    /\ result' = Decode(input, Ample)
    /\ UNCHANGED input

Next == Run
Spec == Init /\ [][Next]_vars

-----------------------------------------------------------------------------
(* JSON by its grammar: a text is a document if it can be cut up as one.  The
   digits after a decimal point may be missing (PARSER_FRAC_PART). *)

All(t, chars) == \A i \in DOMAIN t : t[i] \in chars
Prefix(t, n) == SubSeq(t, 1, n)
Suffix(t, n) == SubSeq(t, n + 1, Len(t))
Within(t) == SubSeq(t, 2, Len(t) - 1)
Between(t, open, close) == Len(t) >= 2 /\ t[1] = open /\ t[Len(t)] = close

IsDigits(t) == t # <<>> /\ All(t, DIGIT)
IsInt(t) == t = <<48>> \/ (IsDigits(t) /\ t[1] # 48) \/ (Len(t) > 1 /\ t[1] = 45
            /\ (Tail(t) = <<48>> \/ (IsDigits(Tail(t)) /\ t[2] # 48)))
IsFrac(t) == t = <<>> \/ (t[1] = 46 /\ All(Tail(t), DIGIT))
IsExp(t) == t = <<>> \/ (t[1] = 101 /\ (IsDigits(Tail(t)) \/ (Len(t) > 1 /\ t[2] = 45 /\ IsDigits(Suffix(t, 2)))))
IsNumber(t) == \E i, j \in 1..Len(t) :
    i <= j /\ IsInt(Prefix(t, i)) /\ IsFrac(SubSeq(t, i + 1, j)) /\ IsExp(Suffix(t, j))

RECURSIVE IsChars(_), IsValue(_), IsElements(_), IsPairs(_)
IsChars(t) ==
    \/ t = <<>>
    \/ t[1] \in (32..127) \ {Quote, Backslash} /\ IsChars(Tail(t))
    \/ Len(t) >= 2 /\ Prefix(t, 2) \in {<<195, 169>>, <<Backslash, Quote>>, <<Backslash, Backslash>>}
       /\ IsChars(Suffix(t, 2))
IsString(t) == Between(t, Quote, Quote) /\ IsChars(Within(t))

IsElements(t) ==
    \/ IsValue(t)
    \/ \E k \in DOMAIN t : t[k] = Comma /\ IsValue(Prefix(t, k - 1)) /\ IsElements(Suffix(t, k))
IsPairs(t) ==
    \E k \in DOMAIN t :
        /\ t[k] = Colon /\ IsString(Prefix(t, k - 1))
        /\ \/ IsValue(Suffix(t, k))
           \/ \E l \in (k + 1)..Len(t) :
                t[l] = Comma /\ IsValue(SubSeq(t, k + 1, l - 1)) /\ IsPairs(Suffix(t, l))
IsValue(t) ==
    \E i \in 0..Len(t), j \in 0..Len(t) :
        /\ i < j /\ All(Prefix(t, i), WHITESPACE) /\ All(Suffix(t, j), WHITESPACE)
        /\ LET v == SubSeq(t, i + 1, j)
           IN  \/ IsNumber(v)
               \/ IsString(v)
               \/ Between(v, 91, 93) /\ (All(Within(v), WHITESPACE) \/ IsElements(Within(v)))
               \/ Between(v, 123, 125) /\ (Within(v) = <<>> \/ IsPairs(Within(v)))

-----------------------------------------------------------------------------
(* Properties.                                                               *)

Ran == result # NotRun

\* The combinators accept exactly the documents of the grammar, although each
\* alternative is tried only once and never reconsidered; a document is refused
\* only for a number out of range or for want of memory.
AcceptsExactlyJson ==
    Ran /\ input.kind = "text" =>
        /\ result.ret = "OK" => IsValue(input.text)
        /\ IsValue(input.text) => result.ret # "PARSE"

\* An integer decodes to its value if int64_t can hold it, and is refused otherwise;
\* no intermediate result overflows to a wrong value.
IntegersDecodeExactly ==
    Ran /\ input.kind = "integer" =>
        IF input.n \in (-INT64_MAX - 1)..INT64_MAX
        THEN result.ret = "OK" /\ result.mem.root.val = input.n
        ELSE result.ret = "RANGE"

\* The code points a string stands for; <<-1>> at half of a surrogate pair.
RECURSIVE CodePoints(_)
CodePoints(cs) ==
    LET high(c) == ~c.raw /\ c.code \in 55296..56319
        low(c) == ~c.raw /\ c.code \in 56320..57343
    IN  IF cs = <<>> THEN <<>>
        ELSE IF high(cs[1]) /\ Len(cs) > 1 /\ low(cs[2])
             THEN << (cs[1].code % 1024) * 1024 + (cs[2].code % 1024) + 65536 >> \o CodePoints(Suffix(cs, 2))
        ELSE IF high(cs[1]) \/ low(cs[1]) THEN <<-1>>
        ELSE <<cs[1].code>> \o CodePoints(Tail(cs))

\* The code points of UTF-8 text, read by the shortest form only.
RECURSIVE FromUtf8(_)
FromUtf8(s) ==
    LET c(i) == s[i] % 64
    IN  IF s = <<>> THEN <<>>
        ELSE IF s[1] < 128 THEN <<s[1]>> \o FromUtf8(Tail(s))
        ELSE IF s[1] < 224 THEN << (s[1] % 32) * 64 + c(2) >> \o FromUtf8(Suffix(s, 2))
        ELSE IF s[1] < 240 THEN << ((s[1] % 16) * 64 + c(2)) * 64 + c(3) >> \o FromUtf8(Suffix(s, 3))
        ELSE << (((s[1] % 8) * 64 + c(2)) * 64 + c(3)) * 64 + c(4) >> \o FromUtf8(Suffix(s, 4))

\* Unescaping in place yields the code points that the text stands for, surrogate
\* pairs joined, and refuses half pairs; no write overtakes the reads.
StringsDecodeExactly ==
    Ran /\ input.kind = "string" =>
        LET points == CodePoints(input.chars)
            bytes == Bytes(result.mem, result.mem.root)
        IN  IF -1 \in ToSet(points) THEN result.ret = "PARSE"
            ELSE result.ret = "OK" /\ FromUtf8(bytes) = points

\* A document needs a fixed amount of arena: with exactly that much it decodes to
\* the same value, with less the call fails, and a failed call of any kind gives
\* back what it took.
DecodeMemory ==
    Ran =>
      IF result.ret # "OK" THEN result.mem.left = Ample
      ELSE LET need == Ample - result.mem.left
           IN  \E exact \in {Decode(input, need)}, less \in {Decode(input, need - 1)} :
               /\ exact.ret = "OK" /\ exact.mem.left = 0
               /\ Value(exact.mem, exact.mem.root) = Value(result.mem, result.mem.root)
               /\ need > 0 => less.ret = "NOMEM" /\ less.mem.left = need - 1

=============================================================================
