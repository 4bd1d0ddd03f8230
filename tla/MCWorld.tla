------------------------------ MODULE MCWorld -------------------------------
(***************************************************************************)
(* What comes to a client from outside, the files it asks for and the      *)
(* switches, weather and events it shares with others, and the variables.  *)
(*                                                                         *)
(* Files: two owners, one of a graphic and one whose files stop the game;  *)
(* two downloads and a file of the program, with listeners that may ask    *)
(* again for the file they are called for. What is shared: one of two      *)
(* clients writes switches, of which both have one on their whitelists and *)
(* each another one, and changes the weather; both move an event. A range  *)
(* is written of which not all is announced.                               *)
(*                                                                         *)
(* Variables: a word of 16 values, of which seven may be kept.             *)
(***************************************************************************)
EXTENDS AsyncFiles, SharedWorld, Variables, MCParts

Whitelists == [c \in Clients |-> IF c = "c1" THEN {1, 2} ELSE {2, 3}]
FirstTwo == {<<1, 2>>}

Keeping == -3
Numbers == {-8, -1, 0, 2, 7}
TwoDice == {<<-1, 1>>, <<2, 3>>}

ASSUME AsyncFilesAssumption /\ SharedWorldAssumption /\ VariablesAssumption

-----------------------------------------------------------------------------
WorldInit ==
    /\ part \in {"files", "shared", "variables"}
    /\ FilesInit /\ Init /\ VariablesInit
    /\ part # "files" => ~erased   \* idle

WorldNext ==
    \/ part = "files" /\ FilesNext /\ UNCHANGED <<part, vars, values>>
    \/ part = "shared" /\ Next /\ UNCHANGED <<part, fileVars, values>>
    \/ part = "variables" /\ VariablesNext /\ UNCHANGED <<part, fileVars, vars>>

WorldSpec == WorldInit /\ [][WorldNext]_<<part, fileVars, vars, values>>

\* FilesInv is that of AsyncFiles, SharedInv that of SharedWorld, VariablesInv that of
\* Variables.

=============================================================================
