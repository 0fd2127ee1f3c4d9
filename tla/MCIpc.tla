------------------------------- MODULE MCIpc -------------------------------
(***************************************************************************)
(* An instance of Ipc for TLC: a process that waits for ever, one that     *)
(* does not, and a table that is full before every key is registered.      *)
(***************************************************************************)
EXTENDS Ipc

CONSTANTS p1, p2, k1, k2, k3
=============================================================================
