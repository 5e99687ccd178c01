------------------------------- MODULE JsonText -------------------------------
(* What gg_json_encode promises: the text of a value by itself, without the
   visitor, and what decoding it gives. *)
EXTENDS ObjectVisit

-----------------------------------------------------------------------------
\* The text of a value.
RECURSIVE Text(_), Joined(_)
Joined(texts) == IF Len(texts) <= 1 THEN FlattenSeq(texts)
                 ELSE Head(texts) \o <<Comma>> \o Joined(Tail(texts))
Text(v) ==
    LET str(s) == <<Quote>> \o FlattenSeq([i \in DOMAIN s |-> json_write_buf_byte(s[i])]) \o <<Quote>>
    IN  CASE v[1] = "null" -> JsonNull
          [] v[1] = "bool" -> IF v[2] THEN JsonTrue ELSE JsonFalse
          [] v[1] = "i64" -> Decimal(v[2])
          [] v[1] = "f64" -> v[2]
          [] v[1] = "buf" -> str(v[2])
          [] v[1] = "list" -> <<91>> \o Joined([i \in DOMAIN v[2] |-> Text(v[2][i])]) \o <<93>>
          [] v[1] = "map" -> <<123>> \o Joined([i \in DOMAIN v[2] |->
                                str(v[2][i][1]) \o <<Colon>> \o Text(v[2][i][2])]) \o <<125>>

Redecoded == gg_json_decode_destructive([Memory(<<"null", 0>>, 100, 0) EXCEPT !.text = mem.out])

\* What gg_json_encode writes is the text of the object, whatever order the visitor
\* meets its parts in, and it fails for want of room only in a buffer that is
\* smaller than the text.
EncodesWholeText ==
    op = "json_encode" =>
        /\ ret = "OK" => mem.out = Text(Before)
        /\ ret = "NOMEM" => Len(Text(Before)) > mem.room

\* Decoding what gg_json_encode wrote gives the object back, in canonical form.
JsonRoundTrip ==
    op = "json_encode" /\ ret = "OK" =>
        \E d \in {Redecoded} : d.ret = "OK" /\ Value(d.mem, d.mem.root) = Canonical(Before)

=============================================================================
