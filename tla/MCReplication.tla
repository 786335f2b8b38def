---------------------------- MODULE MCReplication ----------------------------
(* Small instances of Replication: the requests the clients may make.       *)
EXTENDS Replication

Append1 == [type |-> "APND", text |-> <<"a">>, count |-> 0]
Append2 == [type |-> "APND", text |-> <<"b", "c">>, count |-> 0]
Delete1 == [type |-> "DELT", text |-> <<>>, count |-> 1]
View == [type |-> "VIEW", text |-> <<>>, count |-> 0]

AllEdits == {Append1, Delete1, View}
Writes == {Append1, Delete1}
OneAppend == {Append1}
Text == {"a", "b", "c"}

=============================================================================
