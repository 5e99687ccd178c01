------------------------------- MODULE Events -------------------------------
(***************************************************************************)
(* The subscription handlers (src/src/ipc/client/subscribe_to_*.c): an event   *)
(* of a stream is checked and decoded and the component's callback is called   *)
(* with it, or it is refused.                                                 *)
(***************************************************************************)
EXTENDS Messages

CONSTANTS
    Kinds,          \* of subscriptions: "topic", "configuration", "iot_core", "status"
    Payloads,       \* binary payloads, sequences of bytes
    Paths,          \* key paths
    ErrorCodes,     \* answers to a subscribe request that is refused
    MaxEvents       \* bound

VARIABLES
    sub,            \* [phase, kind, path]: the subscription
    net,            \* events on their way, [type, data, good]
    sent,           \* what well-formed events meant, in order
    heard,          \* arguments of the callback, in order
    bad             \* history: an event that is not well-formed was sent

vars == <<sub, net, sent, heard, bad>>

Init ==
    /\ sub = [phase |-> "none", kind |-> "none", path |-> <<>>, ret |-> "none"]
    /\ net = <<>> /\ sent = <<>> /\ heard = <<>> /\ bad = FALSE

\* What a handler does: its return value and the callback's arguments.
Refuses == [ret |-> "INVALID", callback |-> Nothing]
Ignores == [ret |-> "OK", callback |-> Nothing]
Calls(args) == [ret |-> "OK", callback |-> args]

SubscriptionResponse == "aws.greengrass#SubscriptionResponseMessage"
ConfigurationUpdate == "aws.greengrass#ConfigurationUpdateEvents"
IoTCoreMessage == "aws.greengrass#IoTCoreMessage"
ConnectionStatus == "aws.greengrass#IoTCoreConnectionStatusEvent"

\* A message is JSON or binary, never both; a binary one is decoded in place.
subscribe_to_topic_resp_handler(type, data) ==
    LET binary(topic, payload) == IF ~payload.ok THEN Refuses ELSE Calls(<<topic, Buf(payload.bytes)>>)
        call(payload, context) ==
            IF context.ret # "OK" THEN Refuses
            ELSE IF payload[1] = "map" THEN Calls(<<context.values[1], payload>>)
            ELSE binary(context.values[1], gg_base64_decode_in_place(payload[2]))
        inner(message) ==
            IF message.ret # "OK" THEN Refuses
            ELSE call(message.values[1], Validated(message.values[2], <<Required("topic", "buf")>>))
        parts(message, type_of_payload) ==
            inner(Validated(message, <<Required("message", type_of_payload), Required("context", "map")>>))
        outer(v) ==
            IF v.ret # "OK" THEN Refuses
            ELSE IF (v.values[1] = Nothing) = (v.values[2] = Nothing) THEN Refuses
            ELSE IF v.values[1] # Nothing THEN parts(v.values[1], "map")
            ELSE parts(v.values[2], "buf")
    IN  IF type # SubscriptionResponse THEN Refuses
        ELSE outer(Validated(data, <<OptionalKey("jsonMessage", "map"), OptionalKey("binaryMessage", "map")>>))

\* Mutant: the longest path is refused.
subscribe_to_configuration_update_resp_handler_Shorter(type, data) ==
    LET buffers(key_path) == gg_list_type_check(key_path, key_path.root, "buf") = "OK"
        update(event) ==
            IF event.ret # "OK" THEN Refuses
            ELSE IF ~buffers(Memory(event.values[2], 0, 0)) THEN Refuses
            ELSE IF Len(event.values[2][2]) >= GG_MAX_OBJECT_DEPTH - 1 THEN Refuses
            ELSE Calls(event.values)
        outer(v) ==
            IF v.ret # "OK" THEN Refuses
            ELSE update(Validated(v.values[1], <<Required("componentName", "buf"), Required("keyPath", "list")>>))
    IN  IF type # ConfigurationUpdate THEN Refuses
        ELSE outer(Validated(data, <<Required("configurationUpdateEvent", "map")>>))

subscribe_to_configuration_update_resp_handler(type, data) ==
    LET buffers(key_path) == gg_list_type_check(key_path, key_path.root, "buf") = "OK"
        update(event) ==
            IF event.ret # "OK" THEN Refuses
            ELSE IF ~buffers(Memory(event.values[2], 0, 0)) THEN Refuses
            ELSE IF PathTooLong(event.values[2][2]) THEN Refuses
            ELSE Calls(event.values)
        outer(v) ==
            IF v.ret # "OK" THEN Refuses
            ELSE update(Validated(v.values[1], <<Required("componentName", "buf"), Required("keyPath", "list")>>))
    IN  IF type # ConfigurationUpdate THEN Refuses
        ELSE outer(Validated(data, <<Required("configurationUpdateEvent", "map")>>))

subscribe_to_iot_core_resp_handler(type, data) ==
    LET call(topic, payload) == IF ~payload.ok THEN Refuses ELSE Calls(<<topic, Buf(payload.bytes)>>)
        inner(message) ==
            IF message.ret # "OK" THEN Refuses
            ELSE call(message.values[1], gg_base64_decode_in_place(message.values[2][2]))
        outer(v) ==
            IF v.ret # "OK" THEN Refuses
            ELSE inner(Validated(v.values[1], <<Required("topicName", "buf"), Required("payload", "buf")>>))
    IN  IF type # IoTCoreMessage THEN Refuses
        ELSE outer(Validated(data, <<Required("message", "map")>>))

\* A status that is not known is not an error.
subscribe_to_iot_core_connection_status_resp_handler(type, data) ==
    LET call(status) ==
            IF status \notin {Key("CONNECTED"), Key("DISCONNECTED")} THEN Ignores
            ELSE Calls(<<<<"bool", status = Key("CONNECTED")>>>>)
        inner(event) == IF event.ret # "OK" THEN Refuses ELSE call(event.values[1][2])
        outer(v) == IF v.ret # "OK" THEN Refuses ELSE inner(Validated(v.values[1], <<Required("status", "buf")>>))
    IN  IF type # ConnectionStatus THEN Refuses
        ELSE outer(Validated(data, <<Required("connectionStatusEvent", "map")>>))

Handler(type, data, kind) ==
    CASE kind = "topic" -> subscribe_to_topic_resp_handler(type, data)
      [] kind = "configuration" -> subscribe_to_configuration_update_resp_handler(type, data)
      [] kind = "iot_core" -> subscribe_to_iot_core_resp_handler(type, data)
      [] kind = "status" -> subscribe_to_iot_core_connection_status_resp_handler(type, data)

-----------------------------------------------------------------------------
(* Subscribing: [ret, args], ret = "OK" when ggipc_subscribe is called.       *)

ggipc_subscribe_to_topic(topic) == [ret |-> "OK", args |-> <<Pair("topic", topic)>>]

ggipc_subscribe_to_configuration_update(component, path) ==
    IF PathTooLong(path) THEN [ret |-> "NOMEM", args |-> <<>>]
    ELSE [ret |-> "OK", args |-> Args(2, Optional(component # Nothing, Pair("componentName", component))
                                         \o <<Pair("keyPath", KeyPath(path))>>)]

ggipc_subscribe_to_iot_core(filter, qos) ==
    IF qos > 2 THEN [ret |-> "INVALID", args |-> <<>>]
    ELSE [ret |-> "OK", args |-> <<Pair("topicName", filter), Pair("qos", Buf(<<qos + 48>>))>>]

ggipc_subscribe_to_iot_core_connection_status == [ret |-> "OK", args |-> <<>>]

subscribe_to_topic_error(code) == IF code = "UnauthorizedError" THEN "UNSUPPORTED" ELSE "FAILURE"
subscribe_to_iot_core_error(code) == IF code = "UnauthorizedError" THEN "UNSUPPORTED" ELSE "FAILURE"
subscribe_to_configuration_update_error(code) ==
    CASE code = "ServiceError" -> "INVALID"
      [] code = "ResourceNotFoundError" -> "NOENTRY"
      [] OTHER -> "FAILURE"
subscribe_to_iot_core_connection_status_error(code) == "FAILURE"

error_handler(kind, code) ==
    CASE kind = "topic" -> subscribe_to_topic_error(code)
      [] kind = "configuration" -> subscribe_to_configuration_update_error(code)
      [] kind = "iot_core" -> subscribe_to_iot_core_error(code)
      [] OTHER -> subscribe_to_iot_core_connection_status_error(code)

\* The subscribe functions: an early return, or the answer of the nucleus.
Subscribe ==
    /\ sub.phase = "none"
    /\ \E kind \in Kinds, path \in Paths, qos \in 0..3, component \in {Nothing, Buf(Key("component"))} :
           LET request == CASE kind = "topic" -> ggipc_subscribe_to_topic(Buf(Key("topic")))
                            [] kind = "configuration" -> ggipc_subscribe_to_configuration_update(component, path)
                            [] kind = "iot_core" -> ggipc_subscribe_to_iot_core(Buf(Key("topic")), qos)
                            [] kind = "status" -> ggipc_subscribe_to_iot_core_connection_status
               ends(phase, ret) == sub' = [phase |-> phase, kind |-> kind, path |-> path, ret |-> ret]
           IN  IF request.ret # "OK" THEN ends("failed", request.ret)
               ELSE \/ ends("open", "OK")
                    \/ \E code \in ErrorCodes : ends("failed", error_handler(kind, code))
    /\ UNCHANGED <<net, sent, heard, bad>>

-----------------------------------------------------------------------------
(* The nucleus (not in this repository): events, well-formed and not.         *)

Topic == Buf(Key("topic"))
Context == Pair("context", Map(<<Pair("topic", Topic)>>))
Encoded(payload) == Buf(gg_base64_encode(payload, 1000).bytes)

JsonMessage(v) == Pair("jsonMessage", Map(<<Pair("message", v), Context>>))
BinaryMessage(payload) == Pair("binaryMessage", Map(<<Context, Pair("message", Encoded(payload))>>))
Event(type, data, meaning) == [type |-> type, data |-> data, meaning |-> meaning]

\* A well-formed event and what it means to the component.
GoodEvents ==
    CASE sub.kind = "topic" ->
            {Event(SubscriptionResponse, Map(<<BinaryMessage(p)>>), <<Topic, Buf(p)>>) : p \in Payloads}
            \cup {Event(SubscriptionResponse, Map(<<JsonMessage(Map(<<>>))>>), <<Topic, Map(<<>>)>>)}
      [] sub.kind = "configuration" ->
            {Event(ConfigurationUpdate,
                   Map(<<Pair("configurationUpdateEvent",
                              Map(<<Pair("componentName", Topic), Pair("keyPath", KeyPath(sub.path))>>))>>),
                   <<Topic, KeyPath(sub.path)>>)}
      [] sub.kind = "iot_core" ->
            {Event(IoTCoreMessage, Map(<<Pair("message", Map(<<Pair("topicName", Topic), Pair("payload", Encoded(p))>>))>>),
                   <<Topic, Buf(p)>>) : p \in Payloads}
      [] sub.kind = "status" ->
            {Event(ConnectionStatus, Map(<<Pair("connectionStatusEvent", Map(<<Pair("status", Buf(Key(s)))>>))>>),
                   <<<<"bool", s = "CONNECTED">>>>) : s \in {"CONNECTED", "DISCONNECTED"}}

\* Parts missing, of another type, in both forms, not decodable, or too deep.
BadEvents ==
    LET damaged == Buf(<<Pad, Pad, Pad, Pad>>)
        deep == <<"list", [i \in 1..GG_MAX_OBJECT_DEPTH |-> Topic]>>
        update(path) == Map(<<Pair("configurationUpdateEvent", Map(<<Pair("componentName", Topic), Pair("keyPath", path)>>))>>)
    IN  {Event(t, Map(<<>>), Nothing) : t \in {SubscriptionResponse, ConfigurationUpdate, IoTCoreMessage, ConnectionStatus}}
        \cup {Event(SubscriptionResponse, d, Nothing) : d \in {
                 Map(<<JsonMessage(Map(<<>>)), BinaryMessage(<<1>>)>>),
                 Map(<<JsonMessage(Topic)>>),
                 Map(<<Pair("jsonMessage", Map(<<Pair("message", Map(<<>>)), Pair("context", Map(<<>>))>>))>>),
                 Map(<<Pair("binaryMessage", Map(<<Context, Pair("message", damaged)>>))>>)}}
        \cup {Event(ConfigurationUpdate, update(path), Nothing) : path \in {deep, <<"list", <<Map(<<>>)>>>>, Topic}}
        \cup {Event(IoTCoreMessage, Map(<<Pair("message", Map(<<Pair("topicName", Topic), Pair("payload", damaged)>>))>>), Nothing)}

Publish ==
    /\ sub.phase = "open" /\ Len(sent) < MaxEvents
    /\ \E e \in GoodEvents : net' = Append(net, e) /\ sent' = Append(sent, e.meaning)
    /\ UNCHANGED <<sub, heard, bad>>

\* An event that no handler takes, or a status that is not known.
PublishBad ==
    /\ sub.phase = "open" /\ ~bad
    /\ \/ \E e \in BadEvents : net' = Append(net, e) /\ bad' = TRUE
       \/ /\ sub.kind = "status" /\ Len(net) < MaxEvents
          /\ net' = Append(net, Event(ConnectionStatus,
                        Map(<<Pair("connectionStatusEvent", Map(<<Pair("status", Buf(Key("UNKNOWN")))>>))>>), Nothing))
          /\ UNCHANGED bad
    /\ UNCHANGED <<sub, sent, heard>>

-----------------------------------------------------------------------------
(* The receive thread.                                                       *)

\* call_sub_callback; a handler that does not return GG_ERR_OK ends the stream.
EventArrives ==
    /\ sub.phase = "open" /\ net # <<>>
    /\ \E h \in {Handler(Head(net).type, Head(net).data, sub.kind)} :
           /\ heard' = IF h.callback = Nothing THEN heard ELSE Append(heard, h.callback)
           /\ sub' = IF h.ret = "OK" THEN sub ELSE [sub EXCEPT !.phase = "closed"]
           /\ net' = IF h.ret = "OK" THEN Tail(net) ELSE <<>>
    /\ UNCHANGED <<sent, bad>>

Next == Subscribe \/ Publish \/ PublishBad \/ EventArrives

Spec == Init /\ [][Next]_vars

-----------------------------------------------------------------------------
(* Properties.                                                               *)

\* The callback is called with what was published, in order and unchanged by the
\* encoding, and never for an event that is not well-formed; while the
\* subscription is open nothing is lost.
HeardIsSent ==
    LET waiting == SelectSeq(net, LAMBDA e : e.meaning # Nothing)
        pending == [i \in DOMAIN waiting |-> waiting[i].meaning]
    IN  /\ Len(heard) <= Len(sent) /\ heard = SubSeq(sent, 1, Len(heard))
        /\ sub.phase = "open" => heard \o pending = sent

\* No well-formed event ends a subscription: a path that can be subscribed to can
\* be reported, and a connection status that is not known is passed over.
WellFormedKeepsOpen == sub.phase = "closed" => bad
=============================================================================
