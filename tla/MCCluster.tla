------------------------------ MODULE MCCluster ------------------------------
(* Small instances of Cluster: the edits there can be.                      *)
EXTENDS Cluster

Edits == {EditOf(type, n) : type \in {"APND", "DELT"}, n \in 1 .. MaxRequests}

=============================================================================
