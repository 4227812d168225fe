------------------------------- MODULE MCFfi -------------------------------
(* Addresses and filter texts for model checking Ffi. *)
EXTENDS Ffi

Near == [version |-> 4, parts |-> <<10, 0, 0, 1>>]
Far == [version |-> 4, parts |-> <<10, 0, 7, 1>>]
Pattern == [version |-> 4, parts |-> <<10, 0, 0, Star>>]
Broken == [version |-> 4, parts |-> <<10, 0, Star>>]

MCTexts == {Near, Pattern, Broken}
MCPeers == {Near, Far}
OnePeer == {Near}
=============================================================================
