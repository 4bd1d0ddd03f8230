------------------------------ MODULE MCParts -------------------------------
(***************************************************************************)
(* Most components of the single-player engine share no state with each    *)
(* other, so that several of them are checked in one run, side by side:    *)
(* part says which of them runs, and in which setting (the values of its   *)
(* constants). It is chosen in the beginning and never changes; the        *)
(* variables of all other components stay as they are. The behaviours are  *)
(* those of the components, each on its own.                               *)
(***************************************************************************)
VARIABLE part

=============================================================================
