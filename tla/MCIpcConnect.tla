---------------------------- MODULE MCIpcConnect ----------------------------
(* IpcConnect with model values for the connectors. *)
EXTENDS IpcConnect, TLC

ConnectorSymmetry == Permutations(Connectors)
=============================================================================
