----------------------------- MODULE FileInputs -----------------------------
(***************************************************************************)
(* Inputs of FileOpen: a root with the directory a and the file a/f, and      *)
(* calls that open, create and read.                                          *)
(***************************************************************************)
EXTENDS Integers, Sequences

NameA == <<"a">>
NameB == <<"b">>
NameF == <<"f">>

MCDirs == {<<>>, <<NameA>>}
MCFiles == {<<NameA, NameF>>}
MCSizes == {1, 2, 4}
MCOthers == {<<NameA, NameB>>}

Call(op, path, create) == [op |-> op, path |-> path, create |-> create]

\* a/b and b/a made one below the other, slashes doubled, a name that is too long
\* in the middle and at the end, the root, nothing at all.
DirCalls == {
    Call("dir", <<"/", "a", "/", "/", "b">>, TRUE),
    Call("dir", <<"b", "/", "a", "/">>, TRUE),
    Call("dir", <<"/", "a">>, FALSE),
    Call("dir", <<"/", "/">>, FALSE),
    Call("dir", <<"a", "/", "a", "a", "a", "/", "b">>, TRUE),
    Call("dir", <<"a", "/", "a", "a", "a">>, TRUE),
    Call("dir", <<>>, FALSE)}

FileCalls == {
    Call("file", <<"/", "a", "/", "b", "/", "f">>, TRUE),
    Call("file", <<"/", "f">>, TRUE),
    Call("file", <<"/", "/", "f">>, FALSE),
    Call("file", <<"a", "/">>, FALSE),
    Call("file", <<"/">>, FALSE),
    Call("file", <<"a", "/", "f", "f", "f">>, TRUE),
    Call("read", <<"/", "a", "/", "f">>, FALSE),
    Call("read", <<"a">>, FALSE)}

FileAndDirCalls == DirCalls \cup FileCalls

\* One of each kind, with a name that is too long: for liveness.
FewFileCalls == {
    Call("dir", <<"a", "/", "a", "a", "a", "/", "b">>, TRUE),
    Call("file", <<"/", "a", "/", "b", "/", "f">>, TRUE),
    Call("read", <<"/", "a", "/", "f">>, FALSE)}
=============================================================================
