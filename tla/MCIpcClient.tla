----------------------------- MODULE MCIpcClient -----------------------------
(* IpcClient for TLC: callers are interchangeable.                           *)
EXTENDS IpcClient, TLC

CallerSymmetry == Permutations(Callers)
=============================================================================
