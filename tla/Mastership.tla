------------------------------ MODULE Mastership ------------------------------
(***************************************************************************)
(* What elections promise, without messages, votes, threads or clocks: who *)
(* may be taken for the master, and how terms move.  Elections can be won  *)
(* at any time, by several peers and in the same term.  But a peer leads   *)
(* or is followed only after it has won, and a peer moves to the term of   *)
(* an election that was won, never back, but for one case: a peer that has *)
(* itself just won a term may still fall back to the one before.           *)
(* Byzantine peers lead when they like.                                    *)
(***************************************************************************)
EXTENDS Integers

CONSTANTS
    Peer,
    Byzantine   \* peers that need not win

Nobody == 0     \* followed by a peer without a master

VARIABLES
    won,        \* the elections won: who won, and in which term
    term,       \* term[p]: the term p is in
    follows     \* follows[p]: whom p takes for the master

Mastery == <<won, term, follows>>

MayLead(p) == p \in Byzantine \/ \E w \in won : w.peer = p
TermsWon == {0} \cup {w.term : w \in won}

Init ==
    /\ won = {}
    /\ term = [p \in Peer |-> 0]
    /\ follows = [p \in Peer |-> Nobody]

Win(p) ==
    /\ term' = [term EXCEPT ![p] = @ + 1]
    /\ won' = won \cup {[peer |-> p, term |-> term[p] + 1]}
    /\ UNCHANGED follows

Lead(p) ==
    /\ MayLead(p)
    /\ follows' = [follows EXCEPT ![p] = p]
    /\ UNCHANGED <<won, term>>

MayMove(p, t) ==
    \/ t >= term[p]
    \/ t + 1 = term[p] /\ [peer |-> p, term |-> term[p]] \in won
    \/ p \in Byzantine

Follow(p, q, t) ==
    /\ MayLead(q) /\ MayMove(p, t)
    /\ term' = [term EXCEPT ![p] = t]
    /\ follows' = [follows EXCEPT ![p] = q]
    /\ UNCHANGED won

Leave(p) ==
    /\ follows' = [follows EXCEPT ![p] = Nobody]
    /\ UNCHANGED <<won, term>>

\* The process ends: nothing is persisted.
Forget(p) ==
    /\ term' = [term EXCEPT ![p] = 0]
    /\ follows' = [follows EXCEPT ![p] = Nobody]
    /\ UNCHANGED won

Next ==
    \E p \in Peer :
        \/ Win(p) \/ Lead(p) \/ Leave(p) \/ Forget(p)
        \/ \E q \in Peer, t \in TermsWon : Follow(p, q, t)

Spec == Init /\ [][Next]_Mastery

=============================================================================
