-------------------------- MODULE MCClientSession --------------------------
(* Instance of ClientSession for TLC: of two pairings, the first is by     *)
(* password and survives a restart of the bridge, the second is by code.   *)
EXTENDS ClientSession

FirstByPassword == {1}
=============================================================================
