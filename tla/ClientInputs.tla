---------------------------- MODULE ClientInputs ----------------------------
(***************************************************************************)
(* Inputs of Operations and Events.  The configuration is                     *)
(* {a: {x: "..", a: 5}, b: 1}; payloads end in every place of a base64 group,   *)
(* and key paths are up to and past the longest.                              *)
(***************************************************************************)
EXTENDS Messages

A == Key("a")
B == Key("b")
X == Key("x")
I64(n) == <<"i64", n>>
Str == Buf(<<201, 202>>)
Name == Buf(<<"thing">>)
Room(n) == <<"room", n>>

MCConfig == Map(<<<<A, Map(<<<<X, Str>>, <<A, I64(5)>>>>)>>, <<B, I64(1)>>>>)
MCShadows == <<Buf(<<"s1">>), Buf(<<"s2">>), Buf(<<"s3">>)>>
MCDocuments == {<<1>>, <<1, 2, 3>>}
ServiceErrors == {"InvalidArgumentsError", "ResourceNotFoundError", "ServiceError", "UnauthorizedError",
                  "ConflictError", "InvalidRecipeDirectoryPathError"}
FewErrors == {"ResourceNotFoundError"}
ShortTokens == {1, 2}

Read(op, path, component, room) == [op |-> op, path |-> path, component |-> component, room |-> room]

ConfigPaths == {<<>>, <<A>>, <<A, A>>, <<A, X>>, <<A, B>>, <<A, A, A>>}

ReadCalls ==
    {Read("get_config", p, Nothing, r) : p \in ConfigPaths, r \in {Nothing, Room(1), Room(20)}}
    \cup {Read("get_config", p, Name, Room(20)) : p \in ConfigPaths}
    \cup {Read("get_config_str", p, Nothing, r) : p \in {<<A, X>>, <<B>>}, r \in {Nothing, Room(1), Room(2)}}
    \cup {[op |-> "get_config_receive", path |-> <<A>>, component |-> Name, accepts |-> b] : b \in BOOLEAN}

Update(path, value, time) == [op |-> "update_config", path |-> path, value |-> value, timestamp |-> time]

WriteCalls == {
    Update(<<A, A>>, I64(7), 1),
    Update(<<A, A, B>>, I64(7), 0),
    Update(<<A>>, Map(<<<<X, I64(8)>>>>), 1),
    Update(<<>>, Map(<<<<B, Str>>>>), 1),
    Update(<<>>, I64(7), 1),
    Update(<<A, A, A, A>>, I64(7), 1),
    Update(<<A>>, I64(7), -1)}

SentPayloads == {<<1>>, <<2, 3, 4, 5, 6>>, <<1, 2, 3, 4, 5, 6, 7>>}

PublishCalls ==
    {[op |-> "publish_binary", topic |-> Name, payload |-> p] : p \in SentPayloads}
    \cup {[op |-> "publish_iot_core", topic |-> Name, payload |-> p, qos |-> 1] : p \in SentPayloads}
    \cup {[op |-> "update_shadow", thing |-> Name, shadow |-> s, payload |-> <<4>>, room |-> r] :
              s \in {Nothing, Name}, r \in {Nothing, Room(3)}}
    \cup {[op |-> "publish_json", topic |-> Name, payload |-> Map(<<>>)]}

ShadowCalls ==
    {[op |-> "get_shadow", thing |-> Name, shadow |-> s, room |-> r] :
         s \in {Nothing, Name}, r \in {Nothing, Room(2), Room(3)}}
    \cup {[op |-> "delete_shadow", thing |-> Name, shadow |-> Name],
          [op |-> "list_shadows", thing |-> Name]}

Fields(names) == [f \in names |-> Buf(<<f>>)]
AllFields == {"recipeDirectoryPath", "artifactsDirectoryPath", "rootComponentVersionsToAdd",
    "rootComponentsToRemove", "componentToConfiguration", "componentToRunWithInfo", "groupName",
    "failureHandlingPolicy"}

Deployment(names, room) == [op |-> "create_local_deployment", fields |-> Fields(names), room |-> room]

OtherCalls ==
    {Deployment(AllFields, r) : r \in {Nothing, Room(1), Room(2)}}
    \cup {Deployment(fs, Room(2)) : fs \in {{}} \cup {AllFields \ {f} : f \in AllFields}}
    \cup {[op |-> "restart", component |-> Name]}
    \cup {[op |-> "update_state", state |-> s] : s \in {"RUNNING", "ERRORED", "BROKEN"}}

AllOperations == ReadCalls \cup WriteCalls \cup PublishCalls \cup ShadowCalls \cup OtherCalls

\* Calls that use the encode buffer, fail before they do, and ask page by page.
FewOperations == {
    [op |-> "publish_binary", topic |-> Name, payload |-> <<1>>],
    [op |-> "update_shadow", thing |-> Name, shadow |-> Nothing, payload |-> <<4>>, room |-> Room(3)],
    [op |-> "publish_iot_core", topic |-> Name, payload |-> <<1, 2, 3, 4, 5, 6, 7>>, qos |-> 1],
    [op |-> "list_shadows", thing |-> Name]}

AllKinds == {"topic", "configuration", "iot_core", "status"}
EventPayloads == {<<255>>, <<0, 1>>, <<1, 2, 3>>}
EventPaths == {<<>>, <<A, B>>, <<A, B, Key("c")>>}
=============================================================================
