------------------------------ MODULE FileAsks ------------------------------
(***************************************************************************)
(* What the asynchronous files promise to those who use them               *)
(* (src/src/async_handler.h): an owner that asks for a file is called for  *)
(* it once, unless it asks for another or lets go before; it is never      *)
(* called for a file it does not wait for.                                 *)
(***************************************************************************)
CONSTANTS Files, Owners, NoFile

VARIABLES wanted,  \* owner -> the file it waits for
          got      \* owner -> the file it was called for last

Init ==
    /\ wanted = [o \in Owners |-> NoFile]
    /\ got = [o \in Owners |-> NoFile]

Want(o, f) ==
    /\ wanted' = [wanted EXCEPT ![o] = f]
    /\ UNCHANGED got

Answer(o) ==
    /\ wanted[o] # NoFile
    /\ got' = [got EXCEPT ![o] = wanted[o]]
    /\ wanted' = [wanted EXCEPT ![o] = NoFile]

Next == \E o \in Owners : Answer(o) \/ \E f \in Files \cup {NoFile} : Want(o, f)

Spec == Init /\ [][Next]_<<wanted, got>>

FairSpec ==
    /\ Spec
    /\ \A o \in Owners, f \in Files :
          WF_<<wanted, got>>(Answer(o) /\ wanted[o] = f)

=============================================================================
