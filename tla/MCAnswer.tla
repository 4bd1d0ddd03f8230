------------------------------ MODULE MCAnswer ------------------------------
(* A parallel event that asks a question, whose page a packet may turn over. *)
EXTENDS MapUpdate, TLC

Does(code, indent, arg) == [code |-> code, indent |-> indent, arg |-> arg]
MCCode == [
  ask |-> <<Does("ShowMessage", 0, 0),
            Does("ShowChoice", 0, 0),
            Does("ShowChoiceOption", 0, 0), Does("Wait", 1, 1),
            Does("ShowChoiceOption", 0, 1), Does("ControlSwitches", 1, <<"b", TRUE>>),
            Does("ShowChoiceEnd", 0, 0)>>,
  wait |-> <<Does("Wait", 0, 1)>>]

OpensOn(s, trigger, list) == [switch |-> s, trigger |-> trigger, list |-> list]
MCPages ==
    ("c1" :> <<OpensOn("b", "parallel", "wait")>>)
    @@ ("e1" :> <<OpensOn("always", "parallel", "ask"), OpensOn("a", "action", "wait")>>)
MCCommon == <<"c1">>
MCEvents == <<"e1">>

=============================================================================
