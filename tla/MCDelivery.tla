----------------------------- MODULE MCDelivery -----------------------------
(* A small instance of Delivery: short texts of a letter, two digits and    *)
(* the separators, texts with the sum of the vandal's, and texts about as   *)
(* long as the buffer of a read, which all records of votes fit.            *)
EXTENDS Delivery

Keys == {98, 48, 49, Colon, Dollar, Percent}   \* b 0 1 : $ %
Words(n) == [1 .. n -> Keys]
ShortTexts ==
    UNION {Words(n) : n \in 0 .. 2}
        \cup {t \in Words(3) : t[1] \in {49, 98} /\ t[2] \in {Colon, Dollar}}
        \cup {<<98, Vandalism - 98>>, <<49, Vandalism - 49>>,
              <<98, Vandalism - 98, Dollar, 98>>, <<98, Vandalism - 98 - Colon, Colon>>}

\* The first fits as a request but not as a log event, the others neither way; what
\* is left of the last one still has all separators.
Letters(n) == [i \in 1 .. n |-> 98]
LongTexts == {Letters(90), Letters(120), <<98, Dollar, 49, Colon>> \o Letters(120)}

MixedTexts == ShortTexts \cup {Null} \cup LongTexts

\* Empty, and of a number of characters that is the code of a separator.
Drafts == {<<>>, [i \in 1 .. Colon |-> 97]}

=============================================================================
