--------------------------- MODULE MCCommandTarget ---------------------------
(* CommandTarget with the states and names its handlers answer in the runs. *)
EXTENDS CommandTarget

TwoStates == {{"supported"}, {"supported", "enabled", "visible"}}
NoStates == {}
PlainName == {[wide |-> 1, utf8 |-> 1]}
AccentedName == {[wide |-> 1, utf8 |-> 2]}
==============================================================================
