----------------------------- MODULE Operations -----------------------------
(***************************************************************************)
(* The operations of the IPC client (src/src/ipc/client/*.c) above ggipc_call: *)
(* threads check and build their requests, the nucleus serves them, and the    *)
(* response and error handlers turn the answer into a result.  Publishing a    *)
(* payload goes through one encode buffer that all threads share.             *)
(*                                                                         *)
(* Objects are values <<type, data>>; a map is a sequence of <<key, value>>,   *)
(* a key or a buffer a sequence whose elements are opaque.  ggipc_call itself  *)
(* is IpcClient: here a call may fail before it is served or after.           *)
(***************************************************************************)
EXTENDS Messages, TLC

CONSTANTS
    Threads,
    Calls,                  \* the calls that threads make, see ClientInputs
    Config,                 \* the configuration at first, a map value
    Shadows,                \* names of the shadows of the thing, a sequence
    Documents,              \* shadow documents, sequences of bytes
    ErrorCodes,             \* service errors that may answer a call
    TokenLens,              \* lengths of the page tokens of the service
    GG_IPC_MAX_MSG_LEN,     \* size of gg_ipc_b64_encode_mem
    NextTokenLen,           \* size of next_token_buf
    PageLen,                \* names on a page of the listing
    MaxCalls                \* bound

VARIABLES
    th,                     \* locals and result of the call each thread is in
    gg_ipc_b64_encode_mem, gg_ipc_b64_encode_mtx,
    net,                    \* the request or answer of each thread's stream
    config,                 \* the nucleus: the configuration it holds
    truth,                  \* history: what the nucleus knew when it served each thread
    left                    \* calls that may still be made

mem == <<gg_ipc_b64_encode_mem, gg_ipc_b64_encode_mtx>>
vars == <<th, mem, net, config, truth, left>>

Free == "free"

Idle == [pc |-> "idle", call |-> [op |-> "none"], ret |-> "none", out |-> Nothing,
         token |-> <<>>, has_next |-> FALSE, heard |-> <<>>]

Init ==
    /\ th = [t \in Threads |-> Idle]
    /\ gg_ipc_b64_encode_mem = <<>> /\ gg_ipc_b64_encode_mtx = Free
    /\ net = [t \in Threads |-> Nothing]
    /\ truth = net
    /\ config = Config
    /\ left = MaxCalls

-----------------------------------------------------------------------------
(* Building requests.                                                        *)

ConfigReads == {"get_config", "get_config_str", "get_config_receive"}
UsesEncodeMem == {"publish_binary", "publish_iot_core", "update_shadow"}
WrapsLastKey(c) == c.value[1] # "map"

\* The checks before ggipc_call: "OK" if the call is made.
get_config_common(c) == IF PathTooLong(c.path) THEN "NOMEM" ELSE "OK"

update_config_check(c) ==
    IF c.timestamp < 0 THEN "UNSUPPORTED"
    ELSE IF WrapsLastKey(c) /\ c.path = <<>> THEN "INVALID"
    ELSE IF PathTooLong(IF WrapsLastKey(c) THEN SubSeq(c.path, 1, Len(c.path) - 1) ELSE c.path)
         THEN "NOMEM" ELSE "OK"

update_state_check(c) == IF c.state \in {"RUNNING", "ERRORED"} THEN "OK" ELSE "INVALID"

Early(c) ==
    CASE c.op \in ConfigReads -> get_config_common(c)
      [] c.op = "update_config" -> update_config_check(c)
      [] c.op = "update_state" -> update_state_check(c)
      [] OTHER -> "OK"

GetConfigArgs(c) ==
    Args(2, <<Pair("keyPath", KeyPath(c.path))>>
            \o Optional(c.component # Nothing, Pair("componentName", c.component)))

\* A value that is no map is sent as a map of the last key, one level up.
UpdateConfigArgs(c) ==
    LET last == Len(c.path)
        path == IF WrapsLastKey(c) THEN SubSeq(c.path, 1, last - 1) ELSE c.path
    IN  <<Pair("keyPath", KeyPath(path)), Pair("timestamp", <<"f64", c.timestamp>>),
          Pair("valueToMerge", IF WrapsLastKey(c) THEN Map(<<<<c.path[last], c.value>>>>) ELSE c.value)>>

DeploymentFields == <<"recipeDirectoryPath", "artifactsDirectoryPath", "rootComponentVersionsToAdd",
    "rootComponentsToRemove", "componentToConfiguration", "componentToRunWithInfo", "groupName",
    "failureHandlingPolicy">>

\* Fields left empty are not passed.
CreateLocalDeploymentArgs(c) ==
    Args(8, LET given == SelectSeq(DeploymentFields, LAMBDA f : f \in DOMAIN c.fields)
            IN  [i \in DOMAIN given |-> Pair(given[i], c.fields[given[i]])])

NamedShadowArgs(c) ==
    Args(2, <<Pair("thingName", c.thing)>> \o Optional(c.shadow # Nothing, Pair("shadowName", c.shadow)))

GetShadowArgs(c) == NamedShadowArgs(c)
DeleteShadowArgs(c) == NamedShadowArgs(c)

UpdateShadowArgs(c, payload) ==
    Args(3, <<Pair("thingName", c.thing)>> \o Optional(c.shadow # Nothing, Pair("shadowName", c.shadow))
            \o <<Pair("payload", Buf(payload))>>)

ListShadowsArgs(c, token) ==
    Args(2, <<Pair("thingName", c.thing)>> \o Optional(Len(token) > 0, Pair("nextToken", Buf(token))))

PublishJsonArgs(c) ==
    <<Pair("topic", c.topic),
      Pair("publishMessage", Map(<<Pair("jsonMessage", Map(<<Pair("message", c.payload)>>))>>))>>

PublishBinaryArgs(c, payload) ==
    <<Pair("topic", c.topic),
      Pair("publishMessage", Map(<<Pair("binaryMessage", Map(<<Pair("message", Buf(payload))>>))>>))>>

PublishIotCoreArgs(c, payload) ==
    <<Pair("topicName", c.topic), Pair("payload", Buf(payload)), Pair("qos", Buf(<<(c.qos + 48) % 256>>))>>

RestartArgs(c) == <<Pair("componentName", c.component)>>
UpdateStateArgs(c) == <<Pair("state", Buf(<<c.state>>))>>

\* The arguments of the call thread t is in, the payload taken from the encode
\* buffer.
Request(t) ==
    LET c == th[t].call
        payload == gg_ipc_b64_encode_mem
    IN  CASE c.op \in ConfigReads -> GetConfigArgs(c)
          [] c.op = "update_config" -> UpdateConfigArgs(c)
          [] c.op = "create_local_deployment" -> CreateLocalDeploymentArgs(c)
          [] c.op = "get_shadow" -> GetShadowArgs(c)
          [] c.op = "delete_shadow" -> DeleteShadowArgs(c)
          [] c.op = "update_shadow" -> UpdateShadowArgs(c, payload)
          [] c.op = "list_shadows" -> ListShadowsArgs(c, th[t].token)
          [] c.op = "publish_json" -> PublishJsonArgs(c)
          [] c.op = "publish_binary" -> PublishBinaryArgs(c, payload)
          [] c.op = "publish_iot_core" -> PublishIotCoreArgs(c, payload)
          [] c.op = "restart" -> RestartArgs(c)
          [] c.op = "update_state" -> UpdateStateArgs(c)

-----------------------------------------------------------------------------
(* A call up to the request.                                                 *)

\* What the caller's output holds before the call does anything with it.
OutputBefore(c) == IF c.op = "get_config" THEN <<"null", 0>> ELSE Nothing

\* The call returns; GG_MTX_SCOPE_GUARD releases the encode buffer.
Returned(t, l, ret, out) ==
    /\ th' = [th EXCEPT ![t] = [l EXCEPT !.pc = "done", !.ret = ret, !.out = out]]
    /\ gg_ipc_b64_encode_mtx' = IF gg_ipc_b64_encode_mtx = t THEN Free ELSE gg_ipc_b64_encode_mtx
    /\ UNCHANGED gg_ipc_b64_encode_mem

\* What a failed call leaves in the output: ggipc_get_config_str clears it.
OutputAfterFailure(c) == IF c.op = "get_config_str" THEN Buf(<<>>) ELSE OutputBefore(c)

Call(t) ==
    /\ th[t].pc = "idle" /\ left > 0
    /\ left' = left - 1
    /\ \E c \in Calls :
           LET l == [th[t] EXCEPT !.call = c]
           IN  IF Early(c) # "OK" THEN Returned(t, l, Early(c), OutputAfterFailure(c))
               ELSE /\ th' = [th EXCEPT ![t] = [l EXCEPT !.pc = IF c.op \in UsesEncodeMem THEN "encode" ELSE "send"]]
                    /\ UNCHANGED mem
    /\ UNCHANGED <<net, config, truth>>

\* Mutant: the payload is encoded without the mutex.
Encode_NoLock(t) ==
    /\ th[t].pc = "encode"
    /\ gg_ipc_b64_encode_mem' = gg_base64_encode(th[t].call.payload, GG_IPC_MAX_MSG_LEN).bytes
    /\ th' = [th EXCEPT ![t].pc = "send"]
    /\ UNCHANGED <<gg_ipc_b64_encode_mtx, net, config, truth, left>>

\* The payload goes into gg_ipc_b64_encode_mem, under its mutex till the return.
Encode(t) ==
    /\ th[t].pc = "encode" /\ gg_ipc_b64_encode_mtx = Free
    /\ \E e \in {gg_base64_encode(th[t].call.payload, GG_IPC_MAX_MSG_LEN)} :
           IF ~e.ok THEN Returned(t, th[t], "NOMEM", OutputAfterFailure(th[t].call))
           ELSE /\ gg_ipc_b64_encode_mem' = e.bytes
                /\ gg_ipc_b64_encode_mtx' = t
                /\ th' = [th EXCEPT ![t].pc = "send"]
    /\ UNCHANGED <<net, config, truth, left>>

\* ggipc_call sends the request.
Send(t) ==
    /\ th[t].pc = "send"
    /\ th' = [th EXCEPT ![t].pc = "wait", ![t].has_next = FALSE]
    /\ net' = [net EXCEPT ![t] = <<"request", Request(t)>>]
    /\ UNCHANGED <<mem, config, truth, left>>

\* ggipc_call fails by itself: not connected, no room, timeout.
CallFails(t) ==
    /\ th[t].pc = "wait"
    /\ Returned(t, th[t], "FAILURE", OutputAfterFailure(th[t].call))
    /\ net' = [net EXCEPT ![t] = Nothing]
    /\ UNCHANGED <<config, truth, left>>

-----------------------------------------------------------------------------
(* The nucleus (not in this repository).                                     *)

Arg(args, name) ==
    LET at == {i \in DOMAIN args : args[i][1] = Key(name)}
    IN  IF at = {} THEN Nothing ELSE args[CHOOSE i \in at : TRUE][2]

Field(v, key) == {i \in DOMAIN v[2] : v[2][i][1] = key}

\* The value at a path, Nothing if there is none.
RECURSIVE Lookup(_, _)
Lookup(v, path) ==
    IF path = <<>> THEN v
    ELSE IF v[1] # "map" THEN Nothing
    ELSE IF Field(v, Head(path)) = {} THEN Nothing
    ELSE Lookup(v[2][CHOOSE i \in Field(v, Head(path)) : TRUE][2], Tail(path))

\* The map v with the map new merged into it at the path.
RECURSIVE Merged(_, _, _), MergedAll(_, _)
Merged(v, path, new) ==
    LET old == IF v[1] = "map" THEN v ELSE Map(<<>>)
        at == Field(old, Head(path))
        sub == IF at = {} THEN Map(<<>>) ELSE old[2][CHOOSE i \in at : TRUE][2]
        pair == <<Head(path), Merged(sub, Tail(path), new)>>
    IN  IF path = <<>> THEN IF new[1] = "map" THEN MergedAll(old, new[2]) ELSE new
        ELSE IF at = {} THEN Map(Append(old[2], pair))
        ELSE Map([old[2] EXCEPT ![CHOOSE i \in at : TRUE] = pair])

MergedAll(v, pairs) ==
    IF pairs = <<>> THEN v
    ELSE MergedAll(Merged(v, <<Head(pairs)[1]>>, Head(pairs)[2]), Tail(pairs))

Path(args) == LET list == Arg(args, "keyPath")[2] IN [i \in DOMAIN list |-> list[i][2]]

\* A token names the place where the next page starts.
Token(at, len) == [i \in 1..len |-> at]
PageStart(args) == IF Arg(args, "nextToken") = Nothing THEN 1 ELSE Arg(args, "nextToken")[2][1]

\* The results a request may get: the value there is under its name, a scalar of
\* the configuration inside a map of its key.
Results(op, key, args) ==
    CASE op \in ConfigReads ->
            LET v == Lookup(config, Path(args))
            IN  IF v = Nothing THEN {}
                ELSE {Map(<<Pair("value", IF v[1] = "map" THEN v ELSE Map(<<<<key, v>>>>))>>)}
      [] op = "create_local_deployment" -> {Map(<<Pair("deploymentId", Buf(<<7, 8>>))>>)}
      [] op \in {"get_shadow", "update_shadow"} ->
            {Map(<<Pair("payload", Buf(gg_base64_encode(d, 1000).bytes))>>) : d \in Documents}
            \cup {Map(<<Pair("payload", Buf(<<Pad, Pad, Pad, Pad>>))>>)}
      [] op = "delete_shadow" -> {Map(<<>>), Map(<<Pair("payload", Buf(<<>>))>>)}
      [] op = "list_shadows" ->
            LET from == PageStart(args)
                to == IF from + PageLen - 1 < Len(Shadows) THEN from + PageLen - 1 ELSE Len(Shadows)
                page == Pair("results", <<"list", SubSeq(Shadows, from, to)>>)
            IN  IF to < Len(Shadows) THEN {Map(<<page, Pair("nextToken", Buf(Token(to + 1, n)))>>) : n \in TokenLens}
                ELSE {Map(<<page>>), Map(<<page, Pair("nextToken", Buf(<<>>))>>)}
      [] op = "restart" -> {Map(<<Pair("restartStatus", Buf(<<r>>))>>) : r \in {"SUCCEEDED", "FAILED"}}
      [] OTHER -> {Map(<<>>)}

\* The required key of a result, for a result that has it with the wrong type.
ResultKey == [get_config |-> "value", get_config_str |-> "value", get_config_receive |-> "value",
    create_local_deployment |-> "deploymentId", get_shadow |-> "payload", update_shadow |-> "payload",
    delete_shadow |-> "payload", list_shadows |-> "results", restart |-> "restartStatus"]

\* A request is served, with a result or an error; what the nucleus then knows of
\* the path is kept in truth.
Serve(t) ==
    /\ net[t][1] = "request"
    /\ LET c == th[t].call
           args == net[t][2]
           key == IF c.op \in ConfigReads
                  THEN IF c.path = <<>> THEN <<>> ELSE c.path[Len(c.path)] ELSE <<>>
           new == IF c.op = "update_config" THEN Merged(config, Path(args), Arg(args, "valueToMerge")) ELSE config
       IN  \/ /\ \E r \in Results(c.op, key, args) : net' = [net EXCEPT ![t] = <<"result", r>>]
              /\ config' = new
              /\ truth' = [truth EXCEPT ![t] = IF "path" \in DOMAIN c THEN Lookup(new, c.path) ELSE Nothing]
           \/ /\ c.op \in DOMAIN ResultKey
              /\ net' = [net EXCEPT ![t] = <<"result", Map(<<Pair(ResultKey[c.op], <<"bool", TRUE>>)>>)>>]
              /\ UNCHANGED <<config, truth>>
           \/ /\ \E e \in ErrorCodes : net' = [net EXCEPT ![t] = <<"error", e>>]
              /\ UNCHANGED <<config, truth>>
    /\ UNCHANGED <<th, mem, left>>

-----------------------------------------------------------------------------
(* The error handlers.                                                       *)

Coded(table, code) == IF code \in DOMAIN table THEN table[code] ELSE "FAILURE"

ShadowErrors == [InvalidArgumentsError |-> "INVALID", ResourceNotFoundError |-> "NOENTRY",
                 ServiceError |-> "RETRY", UnauthorizedError |-> "UNAUTHORIZED"]

get_thing_shadow_error(code) == Coded(ShadowErrors, code)
delete_thing_shadow_error(code) == Coded(ShadowErrors, code)
list_named_shadows_error(code) == Coded(ShadowErrors, code)
update_thing_shadow_error(code) ==
    Coded([InvalidArgumentsError |-> "INVALID", ConflictError |-> "CONFLICT",
           ServiceError |-> "RETRY", UnauthorizedError |-> "UNAUTHORIZED"], code)
create_local_deployment_error(code) ==
    Coded([InvalidArgumentsError |-> "INVALID", InvalidRecipeDirectoryPathError |-> "INVALID",
           InvalidArtifactsDirectoryPathError |-> "INVALID", ServiceError |-> "FAILURE"], code)
get_config_error(code) == Coded([ResourceNotFoundError |-> "NOENTRY"], code)
publish_to_topic_error(code) == Coded([UnauthorizedError |-> "UNSUPPORTED"], code)
publish_to_iot_core_error(code) == Coded([UnauthorizedError |-> "UNSUPPORTED"], code)
restart_component_error(code) == "FAILURE"
update_state_error(code) == "FAILURE"
update_config_error(code) == "FAILURE"

error_handler(op, code) ==
    CASE op = "get_shadow" -> get_thing_shadow_error(code)
      [] op = "delete_shadow" -> delete_thing_shadow_error(code)
      [] op = "list_shadows" -> list_named_shadows_error(code)
      [] op = "update_shadow" -> update_thing_shadow_error(code)
      [] op = "create_local_deployment" -> create_local_deployment_error(code)
      [] op \in ConfigReads -> get_config_error(code)
      [] op \in {"publish_json", "publish_binary"} -> publish_to_topic_error(code)
      [] op = "publish_iot_core" -> publish_to_iot_core_error(code)
      [] op = "restart" -> restart_component_error(code)
      [] op = "update_state" -> update_state_error(code)
      [] op = "update_config" -> update_config_error(code)

-----------------------------------------------------------------------------
(* The response handlers: [ret, out] for the local state l and a result map.  *)

Answer(ret, out) == [ret |-> ret, out |-> out]

\* What gg_arena_claim_obj takes from the arena.
RECURSIVE ClaimSize(_)
ClaimSize(v) ==
    CASE v[1] = "buf" -> Len(v[2])
      [] v[1] = "list" -> Len(v[2]) * SizeOfObject + Total([i \in DOMAIN v[2] |-> ClaimSize(v[2][i])])
      [] v[1] = "map" -> Len(v[2]) * SizeOfKV
            + Total([i \in DOMAIN v[2] |-> Len(v[2][i][1]) + ClaimSize(v[2][i][2])])
      [] OTHER -> 0

\* Mutant: a single pair is unwrapped whatever its key.
ggipc_get_config_resp_value_AnyKey(c, v) ==
    LET pairs == v.values[1][2]
    IN  IF v.ret # "OK" THEN Answer("INVALID", Nothing)
        ELSE Answer("OK", IF c.path # <<>> /\ Len(pairs) = 1 /\ pairs[1][2][1] # "map"
                          THEN pairs[1][2] ELSE v.values[1])

\* The validated value of the result: a map of just the final key and a value that
\* is no map is that value.
ggipc_get_config_resp_value(c, v) ==
    LET pairs == v.values[1][2]
        unwraps == c.path # <<>> /\ Len(pairs) = 1 /\ pairs[1][1] = c.path[Len(c.path)] /\ pairs[1][2][1] # "map"
    IN  IF v.ret # "OK" THEN Answer("INVALID", Nothing)
        ELSE Answer("OK", IF unwraps THEN pairs[1][2] ELSE v.values[1])

copy_config_obj(c, v) ==
    IF v.ret # "OK" THEN Answer("INVALID", OutputBefore(c))
    ELSE IF c.room = Nothing THEN Answer("OK", OutputBefore(c))
    ELSE IF ClaimSize(v.out) > c.room[2] THEN Answer("NOMEM", OutputBefore(c))
    ELSE v

copy_config_buf(c, v) ==
    IF v.ret # "OK" THEN Answer("INVALID", Nothing)
    ELSE IF v.out[1] # "buf" THEN Answer("FAILURE", Nothing)
    ELSE IF c.room = Nothing THEN Answer("OK", Nothing)
    ELSE IF Len(v.out[2]) > c.room[2] THEN Answer("NOMEM", Nothing)
    ELSE v

\* The receiver may refuse what it is handed.
forward_config_object(c, v) ==
    IF v.ret # "OK" THEN Answer("INVALID", Nothing)
    ELSE IF c.accepts THEN v ELSE Answer("FAILURE", Nothing)

deployment_response(c, v) ==
    IF c.room = Nothing THEN Answer("OK", Nothing)      \* no handler is passed
    ELSE IF v.ret # "OK" THEN Answer("INVALID", Nothing)
    ELSE IF Len(v.values[1][2]) > c.room[2] THEN Answer("NOMEM", Nothing)
    ELSE Answer("OK", v.values[1])

\* GetThingShadow and UpdateThingShadow: the payload is decoded into the caller's
\* buffer, which has to hold three bytes for every four characters.
DecodedPayload(c, v) ==
    LET text == v.values[1][2]
        both == text \o [i \in 1..c.room[2] |-> 0]
        decoded(d) == IF ~d.ok THEN Answer("PARSE", Nothing) ELSE Answer("OK", Buf(d.bytes))
    IN  IF v.ret # "OK" THEN Answer("INVALID", Nothing)
        ELSE IF c.room = Nothing THEN Answer("OK", Nothing)
        ELSE decoded(gg_base64_decode(both, 1, Len(text), Len(text) + 1, c.room[2]))

get_shadow_response(c, v) == DecodedPayload(c, v)
update_shadow_response(c, v) == DecodedPayload(c, v)

delete_response(v) == Answer(IF v.ret = "OK" THEN "OK" ELSE "INVALID", Nothing)

restart_response(v) ==
    Answer(IF v.ret # "OK" \/ v.values[1] = Buf(<<"FAILED">>) THEN "FAILURE" ELSE "OK", Nothing)

\* The schema each handler validates its result against.
ResponseSchema ==
    [op \in ConfigReads |-> <<Required("value", "map")>>]
    @@ [op \in {"get_shadow", "update_shadow"} |-> <<Required("payload", "buf")>>]
    @@ [create_local_deployment |-> <<Required("deploymentId", "buf")>>,
        delete_shadow |-> <<OptionalKey("payload", "buf")>>,
        restart |-> <<Required("restartStatus", "buf")>>]

\* The handler of call c on the validated result v.
Handled(c, v) ==
    CASE c.op = "get_config" -> copy_config_obj(c, ggipc_get_config_resp_value(c, v))
      [] c.op = "get_config_str" -> copy_config_buf(c, ggipc_get_config_resp_value(c, v))
      [] c.op = "get_config_receive" -> forward_config_object(c, ggipc_get_config_resp_value(c, v))
      [] c.op = "create_local_deployment" -> deployment_response(c, v)
      [] c.op = "get_shadow" -> get_shadow_response(c, v)
      [] c.op = "update_shadow" -> update_shadow_response(c, v)
      [] c.op = "delete_shadow" -> delete_response(v)
      [] c.op = "restart" -> restart_response(v)

Response(c, result) ==
    IF c.op \in DOMAIN ResponseSchema THEN Handled(c, Validated(result, ResponseSchema[c.op]))
    ELSE Answer("OK", Nothing)

-----------------------------------------------------------------------------
(* The answer arrives.                                                       *)

\* ListNamedShadowsForThing: one page.  The callback hears every name; a token
\* that fits next_token_buf asks for another page.
ListSchema == <<Required("results", "list"), OptionalKey("nextToken", "buf"), OptionalKey("timestamp", "f64")>>

ListPage(l, v) ==
    LET token == IF v.values[2] = Nothing THEN <<>> ELSE v.values[2][2]
        more == Len(token) > 0 /\ Len(token) <= NextTokenLen
    IN  [l EXCEPT !.heard = @ \o SelectSeq(v.values[1][2], LAMBDA item : item[1] = "buf"),
                  !.has_next = more, !.token = IF more THEN token ELSE @]

ListResponse(t) ==
    /\ net[t][1] = "result" /\ th[t].call.op = "list_shadows"
    /\ \E v \in {Validated(net[t][2], ListSchema)} :
           LET l == ListPage(th[t], v)
           IN  IF v.ret # "OK" THEN Returned(t, th[t], "INVALID", Nothing)
               ELSE IF ~l.has_next THEN Returned(t, l, "OK", Nothing)
               ELSE th' = [th EXCEPT ![t] = [l EXCEPT !.pc = "send"]] /\ UNCHANGED mem
    /\ net' = [net EXCEPT ![t] = Nothing]
    /\ UNCHANGED <<config, truth, left>>

ResultArrives(t) ==
    /\ net[t][1] = "result" /\ th[t].call.op # "list_shadows"
    /\ \E a \in {Response(th[t].call, net[t][2])} :
           Returned(t, th[t], a.ret,
                    IF a.ret # "OK" /\ th[t].call.op = "get_config_str" THEN Buf(<<>>) ELSE a.out)
    /\ net' = [net EXCEPT ![t] = Nothing]
    /\ UNCHANGED <<config, truth, left>>

ErrorArrives(t) ==
    /\ net[t][1] = "error"
    /\ Returned(t, th[t], error_handler(th[t].call.op, net[t][2]), OutputAfterFailure(th[t].call))
    /\ net' = [net EXCEPT ![t] = Nothing]
    /\ UNCHANGED <<config, truth, left>>

Finish(t) ==
    /\ th[t].pc = "done"
    /\ th' = [th EXCEPT ![t] = Idle]
    /\ truth' = [truth EXCEPT ![t] = Nothing]
    /\ UNCHANGED <<mem, net, config, left>>

Step(t) == Encode(t) \/ Send(t) \/ CallFails(t) \/ ListResponse(t) \/ ResultArrives(t) \/ ErrorArrives(t)

Next == \E t \in Threads : Call(t) \/ Step(t) \/ Serve(t) \/ Finish(t)

Spec == Init /\ [][Next]_vars

\* A thread in a call runs on; a request is answered, or ggipc_call times out.
FairSpec == Spec /\ \A t \in Threads : WF_vars(Step(t))

-----------------------------------------------------------------------------
(* Properties.                                                               *)

Done(t) == th[t].pc = "done"

\* A request that carries a payload carries the payload of its own caller, whole,
\* although PublishToTopic, PublishToIoTCore and UpdateThingShadow of all threads
\* encode into the one gg_ipc_b64_encode_mem.
PayloadIsOwn ==
    \A t \in Threads : net[t][1] = "request" /\ th[t].call.op \in UsesEncodeMem =>
        LET args == net[t][2]
            message == Arg(args, "publishMessage")
            payload == IF th[t].call.op = "publish_binary" THEN Arg(message[2][1][2][2], "message")
                       ELSE Arg(args, "payload")
        IN  gg_base64_decode_in_place(payload[2]) = Accepted(th[t].call.payload)

\* No argument the caller gave is dropped: the (void) gg_kv_vec_push calls of every
\* operation fit the GG_KV_VEC it declares.
ArgumentsComplete ==
    \A t \in Threads : net[t][1] = "request" =>
        LET c == th[t].call
            given == CASE c.op = "create_local_deployment" -> DOMAIN c.fields
                       [] c.op \in ConfigReads -> {"keyPath"} \cup (IF c.component = Nothing THEN {} ELSE {"componentName"})
                       [] c.op = "list_shadows" -> {"thingName"} \cup (IF th[t].heard = <<>> THEN {} ELSE {"nextToken"})
                       [] c.op \in {"get_shadow", "delete_shadow", "update_shadow"} ->
                              {"thingName"} \cup (IF c.shadow = Nothing THEN {} ELSE {"shadowName"})
                              \cup (IF c.op = "update_shadow" THEN {"payload"} ELSE {})
                       [] OTHER -> {}
        IN  \A f \in given : Arg(net[t][2], f) # Nothing

\* A map of just the key that was asked for cannot be told from a wrapped scalar.
LooksWrapped(path, v) ==
    v[1] = "map" /\ path # <<>> /\ Len(v[2]) = 1 /\ v[2][1][1] = path[Len(path)] /\ v[2][1][2][1] # "map"

\* A configuration read that returns GG_ERR_OK gives the value the nucleus holds
\* at the path, a scalar as well as a map: the wrapping by its key is undone, and
\* only that.
ConfigReadExact ==
    \A t \in Threads : Done(t) /\ th[t].ret = "OK" /\ th[t].call.op \in ConfigReads
                       /\ ("room" \notin DOMAIN th[t].call \/ th[t].call.room # Nothing) =>
        th[t].out = truth[t] \/ LooksWrapped(th[t].call.path, truth[t])

\* After an update that returned GG_ERR_OK the nucleus holds the value at the path
\* of the call: a value that is no map travels as a pair one level up.
ConfigUpdateLands ==
    \A t \in Threads : Done(t) /\ th[t].ret = "OK" /\ th[t].call.op = "update_config" =>
        LET v == th[t].call.value
        IN  IF v[1] # "map" THEN truth[t] = v
            ELSE truth[t][1] = "map" /\ \A i \in DOMAIN v[2] : Lookup(truth[t], <<v[2][i][1]>>) = v[2][i][2]

\* The caller's output is a whole value that fits its memory when the operation
\* returns GG_ERR_OK, and otherwise nothing: an empty string or GG_OBJ_NULL for the
\* configuration, the length as it was for the others.
OutputFitsOrNothing ==
    \A t \in Threads : Done(t) =>
        LET c == th[t].call
        IN  IF th[t].ret = "OK"
            THEN "room" \in DOMAIN c /\ c.room # Nothing => ClaimSize(th[t].out) <= c.room[2] /\ th[t].out # Nothing
            ELSE th[t].out = OutputAfterFailure(c)

\* A listing that returns GG_ERR_OK called the callback once for every shadow, in
\* order, however many pages there were.
ListIsComplete ==
    \A t \in Threads : Done(t) /\ th[t].ret = "OK" /\ th[t].call.op = "list_shadows" =>
        th[t].heard = Shadows

\* Every operation returns: a listing asks for another page only while there is
\* one, and the encode buffer is always released.
OperationsReturn == \A t \in Threads : th[t].pc \in {"encode", "send", "wait"} ~> th[t].pc \in {"idle", "done"}

=============================================================================
