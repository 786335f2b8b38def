------------------------------- MODULE Replica -------------------------------
(***************************************************************************)
(* What every replica has, and how it takes an event in: the document, the *)
(* log, the buffer of events that came early, put_in_log and apply_event.  *)
(* The recursion of apply_event over the buffer is a loop (resume) of the  *)
(* server thread, the only one that touches this state.                    *)
(***************************************************************************)
EXTENDS Integers, Sequences, SequencesExt

CONSTANTS
    Peer,  \* the replicas (the ports PEERPORT_MIN..PEERPORT_MAX)
    Edit   \* the requests clients make: [type, text, count]

VARIABLES
    document,   \* document[p]: BftPeer::document
    log,        \* log[p]: logEvents
    last,       \* last[p]: lastSequent
    buffer,     \* buffer[p]: logEventsBuffer
    resume      \* resume[p]: sequent apply_event recurses on, 0 when idle

replicaVars == <<document, log, last, buffer, resume>>

Event == [sequent : Int, edit : Edit]

-----------------------------------------------------------------------------
(* The log: find_sequent_in_log and put_in_log.                            *)

HasSequent(events, n) == \E i \in DOMAIN events : events[i].sequent = n

FindSequent(events, n) ==
    events[CHOOSE i \in DOMAIN events :
             /\ events[i].sequent = n
             /\ \A j \in 1 .. i - 1 : events[j].sequent # n]

\* Mutant of Missing: the first event is not looked for.
MissingButFirst(events, top) == {i \in 1 .. top - 1 : ~ HasSequent(events, i)}

\* The loop of request_all_replays over the snapshot of the log it was given.
Missing(events, top) == {i \in 0 .. top - 1 : ~ HasSequent(events, i)}

\* Mutant of PutInLog: the predecessor is taken to be one sequent lower.
PutInLogAfter(p, e) ==
    IF log[p] # <<>> /\ ~ HasSequent(log[p], e.sequent - 1)
    THEN UNCHANGED <<log, last>>
    ELSE /\ log' = [log EXCEPT ![p] = Append(@, e)]
         /\ last' = [last EXCEPT ![p] = e.sequent]

\* put_in_log: the predecessor it looks up must be there, or nothing is logged.
PutInLog(p, e) ==
    IF log[p] # <<>> /\ ~ HasSequent(log[p], last[p])
    THEN UNCHANGED <<log, last>>
    ELSE /\ log' = [log EXCEPT ![p] = Append(@, e)]
         /\ last' = [last EXCEPT ![p] = e.sequent]

TooLong(p, edit) == edit.type = "DELT" /\ edit.count > Len(document[p])

NewDocument(doc, edit) ==
    IF edit.type = "DELT" THEN SubSeq(doc, 1, Len(doc) - edit.count)
                          ELSE doc \o edit.text

-----------------------------------------------------------------------------
(* apply_event: an early event is buffered; any other is applied, however  *)
(* old, and the buffer is searched for its successor.                      *)

BufferEvent(p, e) ==
    /\ e.sequent > last[p] + 1
    /\ buffer' = [buffer EXCEPT ![p] = Append(@, e)]
    /\ resume' = [resume EXCEPT ![p] = 0]
    /\ UNCHANGED <<document, log, last>>

RefuseDelete(p, e) ==
    /\ e.sequent <= last[p] + 1
    /\ TooLong(p, e.edit)
    /\ resume' = [resume EXCEPT ![p] = 0]
    /\ UNCHANGED <<document, log, last, buffer>>

\* Mutant of PerformEvent: off by one, the event after the next is applied too.
PerformEarly(p, e) ==
    /\ e.sequent <= last[p] + 2
    /\ ~ TooLong(p, e.edit)
    /\ IF e.edit.type = "VIEW"
       THEN UNCHANGED <<document, log, last>>
       ELSE /\ document' = [document EXCEPT ![p] = NewDocument(@, e.edit)]
            /\ PutInLog(p, e)
    /\ resume' = [resume EXCEPT ![p] =
                    IF HasSequent(buffer[p], e.sequent + 1) THEN e.sequent + 1 ELSE 0]
    /\ UNCHANGED buffer

PerformEvent(p, e) ==
    /\ e.sequent <= last[p] + 1
    /\ ~ TooLong(p, e.edit)
    /\ IF e.edit.type = "VIEW"
       THEN UNCHANGED <<document, log, last>>
       ELSE /\ document' = [document EXCEPT ![p] = NewDocument(@, e.edit)]
            /\ PutInLog(p, e)
    /\ resume' = [resume EXCEPT ![p] =
                    IF HasSequent(buffer[p], e.sequent + 1) THEN e.sequent + 1 ELSE 0]
    /\ UNCHANGED buffer

ApplyEvent(p, e) ==
    \/ BufferEvent(p, e)
    \/ RefuseDelete(p, e)
    \/ PerformEvent(p, e)

\* The recursive call of apply_event on the successor found in the buffer.
Resume(p) == resume[p] # 0 /\ ApplyEvent(p, FindSequent(buffer[p], resume[p]))

\* Nothing is persisted.
Forget(p) ==
    /\ document' = [document EXCEPT ![p] = <<>>]
    /\ log' = [log EXCEPT ![p] = <<>>]
    /\ last' = [last EXCEPT ![p] = -1]
    /\ buffer' = [buffer EXCEPT ![p] = <<>>]
    /\ resume' = [resume EXCEPT ![p] = 0]

ReplicaInit ==
    /\ document = [p \in Peer |-> <<>>]
    /\ log = [p \in Peer |-> <<>>]
    /\ last = [p \in Peer |-> -1]
    /\ buffer = [p \in Peer |-> <<>>]
    /\ resume = [p \in Peer |-> 0]

-----------------------------------------------------------------------------
(* Properties.                                                             *)

\* A log has no holes: with an event it holds every earlier sequent, although
\* lastSequent falls back when apply_event repeats an old event.
NoGaps ==
    \A p \in Peer : \A i \in DOMAIN log[p] :
        \A n \in 0 .. log[p][i].sequent : HasSequent(log[p], n)

\* What logged events make of an empty document.
Replayed(events) ==
    LET text[n \in 0 .. Len(events)] ==
          IF n = 0 THEN <<>> ELSE NewDocument(text[n - 1], events[n].edit)
    IN  text[Len(events)]

\* The document is what the logged events make of an empty one: no event
\* changes the text without being logged, or is logged without changing it.
DocumentMatchesLog == \A p \in Peer : document[p] = Replayed(log[p])

=============================================================================
