----------------------------- MODULE MCElection -----------------------------
(* Small instances of Election: what an uninitialised integer may hold.     *)
EXTENDS Election

ZeroGarbage == {0}
SomeGarbage == {0, 2}

OldStamp == {"old"}
AnyStamp == {"old", "future"}

=============================================================================
