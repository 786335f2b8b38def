-------------------------- MODULE ReplicatedDocument --------------------------
(***************************************************************************)
(* What replication under one master promises, without messages, logs,     *)
(* buffers or threads: there is one history of edits, which only grows.    *)
(* The master performs an edit as it enters the history.  A follower       *)
(* performs the history from the start and in order, skipping nothing, but *)
(* may at any time perform again an edit it has performed before, and may  *)
(* lose everything and start over.                                         *)
(***************************************************************************)
EXTENDS Integers, Sequences

CONSTANTS
    Peer, Master,  \* the replicas, and the one the clients' edits go to
    Edit           \* the requests clients make

VARIABLES
    history,   \* the edits accepted, in order
    known,     \* known[f]: the edits a follower has performed, from 0 on
    text       \* text[p]: the document of a replica

Follower == Peer \ {Master}
State == <<history, known, text>>

TooLong(doc, edit) == edit.type = "DELT" /\ edit.count > Len(doc)

Performed(doc, edit) ==
    IF edit.type = "DELT" THEN SubSeq(doc, 1, Len(doc) - edit.count)
                          ELSE doc \o edit.text

Perform(p, edit) ==
    /\ ~ TooLong(text[p], edit)
    /\ text' = [text EXCEPT ![p] = Performed(@, edit)]

Init ==
    /\ history = <<>>
    /\ known = [f \in Follower |-> {}]
    /\ text = [p \in Peer |-> <<>>]

Accept(edit) ==
    /\ edit.type # "VIEW"
    /\ history' = Append(history, edit)
    /\ Perform(Master, edit)
    /\ UNCHANGED known

\* The next edit of the history.
Learn(f) ==
    \E n \in 0 .. Len(history) - 1 :
        /\ known[f] = 0 .. n - 1
        /\ known' = [known EXCEPT ![f] = 0 .. n]
        /\ Perform(f, history[n + 1])
        /\ UNCHANGED history

\* An edit performed before.
Repeat(f) ==
    \E n \in known[f] :
        /\ Perform(f, history[n + 1])
        /\ UNCHANGED <<history, known>>

Lose(f) ==
    /\ known' = [known EXCEPT ![f] = {}]
    /\ text' = [text EXCEPT ![f] = <<>>]
    /\ UNCHANGED history

Next ==
    \/ \E edit \in Edit : Accept(edit)
    \/ \E f \in Follower : Learn(f) \/ Repeat(f) \/ Lose(f)

Spec == Init /\ [][Next]_State

=============================================================================
