-------------------------------- MODULE Json --------------------------------
(***************************************************************************)
(* JSON (src/src/json_decode.c, json_encode.c, gg_str_to_int64 of buffer.c).  *)
(* Text is a sequence of bytes.  A parser takes the text and a position and   *)
(* returns the position after what it matched, or NoMatch.  Integers have the *)
(* width of the constants; the encoder's number buffer is sized by the rule   *)
(* of json_encode.c:31.  A double stands for itself by its text.              *)
(***************************************************************************)
EXTENDS Objects

CONSTANTS
    INT64_MAX,      \* largest integer; the smallest is -INT64_MAX - 1
    IntBuf,         \* size of the buffer an integer is printed to
    MaxExponent     \* a decimal exponent above it is out of a double's range

NoMatch == 0

Quote == 34
Backslash == 92
Comma == 44
Colon == 58
JsonTrue == <<116, 114, 117, 101>>
JsonFalse == <<102, 97, 108, 115, 101>>
JsonNull == <<110, 117, 108, 108>>

-----------------------------------------------------------------------------
(* Parsers.                                                                  *)

At(t, i, chars) == i \in 1..Len(t) /\ t[i] \in chars

parser_char(t, i, c) == IF i # NoMatch /\ At(t, i, {c}) THEN i + 1 ELSE NoMatch

parser_str(t, i, s) ==
    IF i + Len(s) - 1 <= Len(t) /\ SubSeq(t, i, i + Len(s) - 1) = s THEN i + Len(s) ELSE NoMatch

\* comb_zero_or_more over single characters: it matches as many as there are.
comb_zero_or_more(t, i, chars) ==
    CHOOSE j \in i..(Len(t) + 1) :
        /\ \A k \in i..(j - 1) : t[k] \in chars
        /\ ~At(t, j, chars)

DIGIT == 48..57
HEX_DIGIT == DIGIT \cup 65..70 \cup 97..102
WHITESPACE == {32, 10, 13, 9}
ESCAPABLE == {Quote, Backslash, 47, 98, 102, 110, 114, 116}

\* comb_one_of: the first alternative that matches.
comb_one_of(alternatives) ==
    LET first(hits) == IF hits = {} THEN NoMatch ELSE alternatives[CHOOSE k \in hits : \A l \in hits : k <= l]
    IN  first({k \in DOMAIN alternatives : alternatives[k] # NoMatch})

\* comb_maybe.
comb_maybe(i, match) == IF match = NoMatch THEN i ELSE match

PARSER_JSON_STR_ESCAPE(t, i) ==
    IF ~At(t, i, {Backslash}) THEN NoMatch
    ELSE IF At(t, i + 1, ESCAPABLE) THEN i + 2
    ELSE IF At(t, i + 1, {117}) /\ \A k \in 2..5 : At(t, i + k, HEX_DIGIT) THEN i + 6
    ELSE NoMatch

\* One UTF-8 sequence: lead byte, then continuation bytes.
Utf8Len(b) ==
    CASE b \in (32..127) \ {Quote, Backslash} -> 1
      [] b \in 192..223 -> 2
      [] b \in 224..239 -> 3
      [] b \in 240..247 -> 4
      [] OTHER -> 0

parser_json_str_codepoint(t, i) ==
    LET n == IF i \in 1..Len(t) THEN Utf8Len(t[i]) ELSE 0
    IN  IF n > 0 /\ \A k \in 1..(n - 1) : At(t, i + k, 128..191) THEN i + n ELSE NoMatch

RECURSIVE StrEnd(_, _)
StrEnd(t, i) ==
    LET from(next) == IF next = NoMatch THEN i ELSE StrEnd(t, next)
    IN  from(comb_one_of(<<parser_json_str_codepoint(t, i), PARSER_JSON_STR_ESCAPE(t, i)>>))

\* A value's parse: where it ends, its type, its content [from, to) and its count.
Parsed(next, type, from, to, count) ==
    [next |-> next, type |-> type, from |-> from, to |-> to, count |-> count]
NotParsed == Parsed(NoMatch, "null", 0, 0, 0)

PARSER_JSON_STR(t, i) ==
    LET upTo(end) == IF At(t, i, {Quote}) /\ At(t, end, {Quote}) THEN Parsed(end + 1, "str", i + 1, end, 0)
                     ELSE NotParsed
    IN  upTo(StrEnd(t, i + 1))

PARSER_INT_PART(t, i) ==
    LET j == comb_maybe(i, parser_char(t, i, 45))
    IN  IF At(t, j, {48}) THEN j + 1
        ELSE IF At(t, j, DIGIT) THEN comb_zero_or_more(t, j, DIGIT)
        ELSE NoMatch

PARSER_FRAC_PART(t, i) == IF At(t, i, {46}) THEN comb_zero_or_more(t, i + 1, DIGIT) ELSE NoMatch

PARSER_EXPONENT(t, i) ==
    LET j == comb_one_of(<<parser_char(t, i + 1, 43), parser_char(t, i + 1, 45), i + 1>>)
    IN  IF At(t, i, {69, 101}) /\ At(t, j, DIGIT) THEN comb_zero_or_more(t, j, DIGIT) ELSE NoMatch

PARSER_JSON_NUMBER(t, i) ==
    LET upTo(end) == Parsed(end, "number", i, end, 0)
        exponent(frac) == upTo(comb_maybe(frac, PARSER_EXPONENT(t, frac)))
        fraction(int) == IF int = NoMatch THEN NotParsed
                         ELSE exponent(comb_maybe(int, PARSER_FRAC_PART(t, int)))
    IN  fraction(PARSER_INT_PART(t, i))

PARSER_LITERAL(t, i, literal, type) ==
    LET end == parser_str(t, i, literal)
    IN  IF end = NoMatch THEN NotParsed ELSE Parsed(end, type, i, end, 0)

RECURSIVE PARSER_JSON_VALUE(_, _), ArrayElems(_, _), ObjectPairs(_, _)

\* A list of elements with one before it.
OneMore(elems) == [elems EXCEPT !.count = @ + 1]

\* elem (',' elem)*: where it ends and how many there are.
ArrayElems(t, i) ==
    LET from(end) == IF end = NoMatch THEN [next |-> NoMatch, count |-> 0]
                     ELSE IF At(t, end, {Comma}) THEN OneMore(ArrayElems(t, end + 1))
                     ELSE [next |-> end, count |-> 1]
    IN  from(PARSER_JSON_VALUE(t, i).next)

\* kv (',' ws kv)*, kv = string ws ':' value.
ObjectPairs(t, i) ==
    LET from(end) == IF end = NoMatch THEN [next |-> NoMatch, count |-> 0]
                     ELSE IF At(t, end, {Comma})
                          THEN OneMore(ObjectPairs(t, comb_zero_or_more(t, end + 1, WHITESPACE)))
                     ELSE [next |-> end, count |-> 1]
        value(key) == IF key = NoMatch THEN NoMatch
                      ELSE PARSER_JSON_VALUE(t, parser_char(t, comb_zero_or_more(t, key, WHITESPACE), Colon)).next
    IN  from(value(PARSER_JSON_STR(t, i).next))

\* The elements may be absent, then nothing but white space is between brackets.
Bracketed(t, from, elems, close, type) ==
    LET count == IF elems.next = NoMatch THEN 0 ELSE elems.count
        upTo(end) == IF At(t, end, {close}) THEN Parsed(end + 1, type, from, end, count) ELSE NotParsed
    IN  upTo(comb_maybe(from, elems.next))

PARSER_JSON_ARRAY(t, i) ==
    LET array(from) == Bracketed(t, from, ArrayElems(t, from), 93, "array")
    IN  array(comb_zero_or_more(t, i + 1, WHITESPACE))

PARSER_JSON_OBJECT(t, i) ==
    LET object(from) == Bracketed(t, from, ObjectPairs(t, from), 125, "object")
    IN  object(comb_zero_or_more(t, i + 1, WHITESPACE))

\* The alternatives begin with different bytes, so the first byte selects one.
PARSER_JSON_VALUE(t, i) ==
    LET value(j) ==
            CASE j > Len(t) -> NotParsed
              [] At(t, j, {Quote}) -> PARSER_JSON_STR(t, j)
              [] At(t, j, {45} \cup DIGIT) -> PARSER_JSON_NUMBER(t, j)
              [] At(t, j, {123}) -> PARSER_JSON_OBJECT(t, j)
              [] At(t, j, {91}) -> PARSER_JSON_ARRAY(t, j)
              [] At(t, j, {116}) -> PARSER_LITERAL(t, j, JsonTrue, "true")
              [] At(t, j, {102}) -> PARSER_LITERAL(t, j, JsonFalse, "false")
              [] At(t, j, {110}) -> PARSER_LITERAL(t, j, JsonNull, "null")
              [] OTHER -> NotParsed
        trimmed(p) == IF p.next = NoMatch THEN NotParsed
                      ELSE [p EXCEPT !.next = comb_zero_or_more(t, @, WHITESPACE)]
    IN  IF i = NoMatch THEN NotParsed ELSE trimmed(value(comb_zero_or_more(t, i, WHITESPACE)))

-----------------------------------------------------------------------------
(* Strings are unescaped in place: w never passes r.                         *)

HexVal(c) == CASE c \in DIGIT -> c - 48 [] c \in 65..70 -> c - 55 [] OTHER -> c - 87

get_uint16_from_hex4(t, i) ==
    ((HexVal(t[i]) * 16 + HexVal(t[i + 1])) * 16 + HexVal(t[i + 2])) * 16 + HexVal(t[i + 3])

write_codepoint_utf8(cp) ==
    IF cp <= 127 THEN <<cp>>
    ELSE IF cp <= 2047 THEN <<192 + cp \div 64, 128 + (cp % 64)>>
    ELSE IF cp <= 65535
         THEN <<224 + cp \div 4096, 128 + ((cp \div 64) % 64), 128 + (cp % 64)>>
    ELSE <<240 + cp \div 262144, 128 + ((cp \div 4096) % 64),
           128 + ((cp \div 64) % 64), 128 + (cp % 64)>>

IsEscape(t, i, to) == i + 5 < to /\ t[i] = Backslash /\ t[i + 1] = 117

\* Mutant: a surrogate pair without the offset of the supplementary planes.
str_conv_handle_utf16_escape_NoPlane(t, i, to) ==
    LET code == get_uint16_from_hex4(t, i + 2)
        low == get_uint16_from_hex4(t, i + 8)
    IN  IF code \in 55296..56319
        THEN IF IsEscape(t, i + 6, to) /\ low \in 56320..57343
             THEN [bytes |-> write_codepoint_utf8((code - 55296) * 1024 + (low - 56320)),
                   next |-> i + 12]
             ELSE [bytes |-> <<>>, next |-> NoMatch]
        ELSE IF code \in 56320..57343 THEN [bytes |-> <<>>, next |-> NoMatch]
        ELSE [bytes |-> write_codepoint_utf8(code), next |-> i + 6]

\* [bytes, next]: what an escape at i stands for and where the text goes on;
\* next is NoMatch for half of a surrogate pair.
str_conv_handle_utf16_escape(t, i, to) ==
    LET code == get_uint16_from_hex4(t, i + 2)
        low == get_uint16_from_hex4(t, i + 8)
    IN  IF code \in 55296..56319
        THEN IF IsEscape(t, i + 6, to) /\ low \in 56320..57343
             THEN [bytes |-> write_codepoint_utf8((code - 55296) * 1024 + (low - 56320) + 65536),
                   next |-> i + 12]
             ELSE [bytes |-> <<>>, next |-> NoMatch]
        ELSE IF code \in 56320..57343 THEN [bytes |-> <<>>, next |-> NoMatch]
        ELSE [bytes |-> write_codepoint_utf8(code), next |-> i + 6]

str_conv_handle_escape(t, i, to) ==
    IF t[i + 1] = 117 THEN str_conv_handle_utf16_escape(t, i, to)
    ELSE [next |-> i + 2,
          bytes |-> << CASE t[i + 1] = 98 -> 8 [] t[i + 1] = 102 -> 12 [] t[i + 1] = 110 -> 10
                         [] t[i + 1] = 114 -> 13 [] t[i + 1] = 116 -> 9 [] OTHER -> t[i + 1] >>]

Overwrite(t, w, bytes) ==
    [k \in DOMAIN t |-> IF k \in w..(w + Len(bytes) - 1) THEN bytes[k - w + 1] ELSE t[k]]

RECURSIVE unescape_string(_, _, _, _)
unescape_string(t, r, to, w) ==
    LET write(esc) ==
            IF esc.next = NoMatch THEN [ret |-> "PARSE", text |-> t, end |-> w]
            ELSE unescape_string(Overwrite(t, w, esc.bytes), esc.next, to, w + Len(esc.bytes))
    IN  IF r = to THEN [ret |-> "OK", text |-> t, end |-> w]
        ELSE write(IF t[r] = Backslash THEN str_conv_handle_escape(t, r, to)
                   ELSE [bytes |-> <<t[r]>>, next |-> r + 1])

-----------------------------------------------------------------------------
(* Numbers.                                                                  *)

mult_overflow_int64(a) == a > INT64_MAX \div 10 \/ a < -((INT64_MAX + 1) \div 10)
add_overflow_int64(a, b) == IF b > 0 THEN a > INT64_MAX - b ELSE a < -INT64_MAX - 1 - b

\* One turn of the loop of gg_str_to_int64; d carries the sign.
IntDigit(acc, d) ==
    IF mult_overflow_int64(acc.val) THEN [ret |-> "RANGE", val |-> acc.val]
    ELSE IF add_overflow_int64(10 * acc.val, d) THEN [ret |-> "RANGE", val |-> acc.val]
    ELSE [ret |-> "OK", val |-> 10 * acc.val + d]

RECURSIVE IntDigits(_, _, _)
IntDigits(s, sign, acc) ==
    IF s = <<>> \/ acc.ret # "OK" THEN acc
    ELSE IF Head(s) \notin DIGIT THEN [ret |-> "INVALID", val |-> acc.val]
    ELSE IntDigits(Tail(s), sign, IntDigit(acc, sign * (Head(s) - 48)))

gg_str_to_int64(s) ==
    LET negative == s # <<>> /\ Head(s) = 45
        digits == IF negative THEN Tail(s) ELSE s
    IN  IF digits = <<>> THEN [ret |-> "INVALID", val |-> 0]
        ELSE IntDigits(digits, IF negative THEN -1 ELSE 1, [ret |-> "OK", val |-> 0])

\* strtod: only whether the exponent is in range is modelled.
strtod(s) ==
    LET e == {k \in DOMAIN s : s[k] \in {69, 101}}
        exp == IF e = {} THEN [ret |-> "OK", val |-> 0]
               ELSE LET from == (CHOOSE k \in e : TRUE) + 1
                    IN  gg_str_to_int64(SubSeq(s, IF s[from] = 43 THEN from + 1 ELSE from, Len(s)))
    IN  IF exp.ret = "OK" /\ exp.val <= MaxExponent THEN "OK" ELSE "RANGE"

-----------------------------------------------------------------------------
(* Decoding into the arena.  d is [ret, mem, next, obj].                      *)

Decoded(ret, m, next, obj) == [ret |-> ret, mem |-> m, next |-> next, obj |-> obj]

decode_json_str(m, p) ==
    LET str(u) == Decoded(u.ret, [m EXCEPT !.text = u.text], p.next, gg_obj_buf(-p.from, u.end - p.from))
    IN  str(unescape_string(m.text, p.from, p.to, p.from))

decode_json_number(m, p) ==
    LET i64(int) == Decoded(int.ret, m, p.next, gg_obj_i64(int.val))
        number(s) == IF PARSER_INT_PART(s, 1) = Len(s) + 1 THEN i64(gg_str_to_int64(s))
                     ELSE Decoded(strtod(s), m, p.next, gg_obj_f64(s))
    IN  number(SubSeq(m.text, p.from, p.to - 1))

RECURSIVE Copies(_, _)
Copies(cell, n) == IF n = 0 THEN <<>> ELSE Append(Copies(cell, n - 1), cell)

\* GG_ARENA_ALLOCN of count cells, all zero; size is their size.
AllocBlock(m, kind, cell, count, size) ==
    [m EXCEPT !.heap = Append(@, [kind |-> kind, cells |-> Copies(cell, count)]),
              !.owned = @ \cup {Len(m.heap) + 1},
              !.left = @ - size]

RECURSIVE take_json_val(_, _), DecodeElems(_, _, _, _), DecodePairs(_, _, _, _)

\* The elements k..count of an array into block b, from position i on.
DecodeElems(m, i, b, k) ==
    LET count == Len(m.heap[b].cells)
        others(after, comma) ==
            IF k < count /\ comma = NoMatch THEN Decoded("PARSE", after, i, GG_OBJ_NULL)
            ELSE DecodeElems(after, comma, b, k + 1)
        store(elem) ==
            IF elem.ret # "OK" THEN elem
            ELSE others(Store(elem.mem, <<b, k>>, elem.obj), parser_char(elem.mem.text, elem.next, Comma))
    IN  IF k > count THEN Decoded("OK", m, i, GG_OBJ_NULL) ELSE store(take_json_val(m, i))

decode_json_array(m, p) ==
    LET size == p.count * SizeOfObject
        b == Len(m.heap) + 1
        list(d) == Decoded(d.ret, d.mem, p.next, gg_obj_list(b, p.count))
    IN  IF p.count = 0 THEN Decoded("OK", m, p.next, gg_obj_list(0, 0))
        ELSE IF size > m.left THEN Decoded("NOMEM", m, p.next, GG_OBJ_NULL)
        ELSE list(DecodeElems(AllocBlock(m, "objs", GG_OBJ_NULL, p.count, size), p.from, b, 1))

DecodePairs(m, i, b, k) ==
    LET count == Len(m.heap[b].cells)
        others(after, comma) ==
            IF k < count /\ comma = NoMatch THEN Decoded("PARSE", after, i, GG_OBJ_NULL)
            ELSE DecodePairs(after, comma, b, k + 1)
        store(key, val) ==
            IF val.ret # "OK" THEN val
            ELSE others([val.mem EXCEPT !.heap[b].cells[k] = gg_kv(key.obj, val.obj)],
                        parser_char(val.mem.text, val.next, Comma))
        value(key, colon) ==
            IF key.obj.type # "buf" \/ colon = NoMatch THEN Decoded("PARSE", key.mem, i, GG_OBJ_NULL)
            ELSE store(key, take_json_val(key.mem, colon))
        pair(key) ==
            IF key.ret # "OK" THEN key ELSE value(key, parser_char(key.mem.text, key.next, Colon))
    IN  IF k > count THEN Decoded("OK", m, i, GG_OBJ_NULL) ELSE pair(take_json_val(m, i))

decode_json_object(m, p) ==
    LET size == p.count * SizeOfKV
        b == Len(m.heap) + 1
        pair == gg_kv(gg_obj_buf(0, 0), GG_OBJ_NULL)
        map(c) == Decoded("OK", c.mem, p.next, c.map)
        canonical(d) ==
            IF d.ret # "OK" THEN Decoded(d.ret, d.mem, p.next, GG_OBJ_NULL)
            ELSE map(gg_map_canonicalize_shallow(d.mem, gg_obj_map(b, p.count)))
    IN  IF p.count = 0 THEN Decoded("OK", m, p.next, gg_obj_map(0, 0))
        ELSE IF size > m.left THEN Decoded("NOMEM", m, p.next, GG_OBJ_NULL)
        ELSE canonical(DecodePairs(AllocBlock(m, "kvs", pair, p.count, size), p.from, b, 1))

take_json_val(m, i) ==
    LET decode(p) ==
            IF p.next = NoMatch THEN Decoded("PARSE", m, i, GG_OBJ_NULL)
            ELSE CASE p.type = "str" -> decode_json_str(m, p)
                   [] p.type = "number" -> decode_json_number(m, p)
                   [] p.type = "true" -> Decoded("OK", m, p.next, gg_obj_bool(TRUE))
                   [] p.type = "false" -> Decoded("OK", m, p.next, gg_obj_bool(FALSE))
                   [] p.type = "null" -> Decoded("OK", m, p.next, GG_OBJ_NULL)
                   [] p.type = "array" -> decode_json_array(m, p)
                   [] p.type = "object" -> decode_json_object(m, p)
    IN  decode(PARSER_JSON_VALUE(m.text, i))

\* What was allocated is given back unless the whole document was decoded.
gg_json_decode_destructive(m) ==
    LET trailing(d) == d.next <= Len(m.text)
        commit(d) ==
            IF d.ret = "OK" /\ ~trailing(d) THEN [ret |-> "OK", mem |-> [d.mem EXCEPT !.root = d.obj]]
            ELSE [ret |-> IF d.ret = "OK" THEN "PARSE" ELSE d.ret,
                  mem |-> [d.mem EXCEPT !.left = m.left, !.owned = m.owned]]
    IN  commit(take_json_val(m, 1))

-----------------------------------------------------------------------------
(* Encoding: the handlers of gg_json_encode.                                  *)

gg_writer_call(m, bytes) ==
    IF Len(m.out) + Len(bytes) > m.room THEN [ret |-> "NOMEM", mem |-> m]
    ELSE [ret |-> "OK", mem |-> [m EXCEPT !.out = @ \o bytes]]

RECURSIVE Digits(_)
Digits(n) == IF n < 10 THEN <<48 + n>> ELSE Digits(n \div 10) \o <<48 + (n % 10)>>

Decimal(n) == IF n < 0 THEN <<45>> \o Digits(-n) ELSE Digits(n)

\* snprintf to a buffer of IntBuf bytes keeps the last one for a NUL, and
\* returns the length of the whole number.
json_encode_on_i64(m, n) ==
    LET s == Decimal(n)
    IN  IF Len(s) > IntBuf THEN [ret |-> "NOMEM", mem |-> m]
        ELSE gg_writer_call(m, IF Len(s) = IntBuf THEN [s EXCEPT ![IntBuf] = 0] ELSE s)

HexDigit(n) == IF n < 10 THEN 48 + n ELSE 55 + n

\* Mutant: control characters are written as they are.
json_write_buf_byte_NoControl(b) == IF b \in {Quote, Backslash} THEN <<Backslash, b>> ELSE <<b>>

json_write_buf_byte(b) ==
    IF b \in {Quote, Backslash} THEN <<Backslash, b>>
    ELSE IF b <= 31 THEN <<Backslash, 117, 48, 48, HexDigit(b \div 16), HexDigit(b % 16)>>
    ELSE <<b>>

RECURSIVE WriteBytes(_, _)
WriteBytes(m, s) ==
    LET others(w) == IF w.ret # "OK" THEN w ELSE WriteBytes(w.mem, Tail(s))
    IN  IF s = <<>> THEN [ret |-> "OK", mem |-> m]
        ELSE others(gg_writer_call(m, json_write_buf_byte(Head(s))))

json_encode_on_buf(m, s) ==
    LET quoted(w) == IF w.ret # "OK" THEN w ELSE gg_writer_call(w.mem, <<Quote>>)
        body(w) == IF w.ret # "OK" THEN w ELSE quoted(WriteBytes(w.mem, s))
    IN  body(gg_writer_call(m, <<Quote>>))

json_encode_on_map_key(m, s) ==
    LET colon(w) == IF w.ret # "OK" THEN w ELSE gg_writer_call(w.mem, <<Colon>>)
    IN  colon(json_encode_on_buf(m, s))

gg_json_encode(name, m, ref) ==
    LET obj == Deref(m, ref)
    IN  CASE name = "on_null" -> gg_writer_call(m, JsonNull)
          [] name = "on_bool" -> gg_writer_call(m, IF obj.val THEN JsonTrue ELSE JsonFalse)
          [] name = "on_i64" -> json_encode_on_i64(m, obj.val)
          [] name = "on_f64" -> gg_writer_call(m, obj.val)
          [] name = "on_buf" -> json_encode_on_buf(m, Bytes(m, obj))
          [] name = "on_map_key" -> json_encode_on_map_key(m, Bytes(m, m.heap[ref[1]].cells[ref[2]].key))
          [] name = "on_list" -> gg_writer_call(m, <<91>>)
          [] name = "on_map" -> gg_writer_call(m, <<123>>)
          [] name \in {"cont_list", "cont_map"} -> gg_writer_call(m, <<Comma>>)
          [] name = "end_list" -> gg_writer_call(m, <<93>>)
          [] name = "end_map" -> gg_writer_call(m, <<125>>)

=============================================================================
