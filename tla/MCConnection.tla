---------------------------- MODULE MCConnection ----------------------------
(* Two websockets: the current one and an abandoned attempt. Two maps, two   *)
(* places, a reconnect interval of one second.                                *)
EXTENDS Connection, TLC

Symmetry == Permutations(Sockets) \cup Permutations(Maps) \cup Permutations(Spots)
=============================================================================
