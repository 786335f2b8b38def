------------------------------- MODULE Cluster -------------------------------
(***************************************************************************)
(* Replicas whose master changes: every peer keeps the one log it has,     *)
(* whoever it takes for its master, and any peer may be the master of some *)
(* of the others, of itself, or of nobody.  A new master numbers edits on  *)
(* from its own lastSequent and may still hold what it buffered from its   *)
(* predecessor.  Elections appear as ChangeMaster.                         *)
(*                                                                         *)
(* Edits are appends and deletions of one character; sequents stay below   *)
(* ten, and views are left out (see Replication for both).                 *)
(***************************************************************************)
EXTENDS Replica, FiniteSets

CONSTANTS
    Nobody,       \* masterId with port 0
    MaxRequests,  \* bound: client requests accepted
    MaxChanges,   \* bound: changes of what a peer takes for its master
    MaxCrashes    \* bound: processes killed

\* The n-th edit the clients make; it appends a character nobody else appends.
EditOf(type, n) == [type |-> type, text |-> <<n>>, count |-> 1]
Number(edit) == edit.text[1]

ASSUME ConstantsAssumption ==
    /\ Nobody \notin Peer
    /\ MaxRequests \in 0 .. 9
    /\ MaxChanges \in Nat /\ MaxCrashes \in Nat
    /\ \A type \in {"APND", "DELT"}, n \in 1 .. MaxRequests : EditOf(type, n) \in Edit

VARIABLES
    up,        \* up[p]: the process of p runs
    master,    \* master[p]: masterId.port
    pending,   \* pending[p]: the edit p has yet to multicast, 0 without one
    inbox,     \* inbox[p]: the accept queue of p
    threads,   \* threads[p]: replay threads, the master each asks and what for
    issued,    \* issued[n]: under which sequents the n-th edit went out (history)
    changes, crashes  \* counters for the bounds

peerVars == <<up, master>>
boundVars == <<changes, crashes>>
vars == <<replicaVars, peerVars, pending, inbox, threads, issued, boundVars>>

\* A log event, or a request for a replay.
Message ==
    [type : {"event"}, from : Peer, event : Event]
        \cup [type : {"replay"}, from : Peer, sequent : Nat]

-----------------------------------------------------------------------------
(* The server thread, between two messages and behind a client's request.  *)

Free(p) == up[p] /\ resume[p] = 0 /\ pending[p] = 0
Receives(p) == Free(p) /\ inbox[p] # <<>>
Consumed(p) == [inbox EXCEPT ![p] = Tail(@)]

\* Mutant: a message waits for a peer that does not run.
DeliverLater(queues, q, m) == [queues EXCEPT ![q] = Append(@, m)]

\* A message to a peer that does not run is lost.
Deliver(queues, q, m) == IF up[q] THEN [queues EXCEPT ![q] = Append(@, m)] ELSE queues

EventMessage(p, e) == [type |-> "event", from |-> p, event |-> e]

\* "This node is the master, so sequence the request and broadcast it".
ClientRequest(p, type) ==
    /\ Len(issued) < MaxRequests
    /\ Free(p) /\ master[p] = p
    /\ LET edit == EditOf(type, Len(issued) + 1)
       IN  /\ ~ TooLong(p, edit)
           /\ ApplyEvent(p, [sequent |-> last[p] + 1, edit |-> edit])
           /\ pending' = [pending EXCEPT ![p] = Len(issued) + 1]
    /\ issued' = Append(issued, [by |-> p, type |-> type, sequent |-> last[p] + 1,
                                 announced |-> -1])
    /\ UNCHANGED <<peerVars, inbox, threads, boundVars>>

\* apply_event goes on with what the buffer holds, at a master too.
ResumeBuffered(p) ==
    /\ up[p]
    /\ Resume(p)
    /\ UNCHANGED <<peerVars, pending, inbox, threads, issued, boundVars>>

\* Mutant: the multicast is made under the sequent that comes next.
MulticastNext(p) ==
    /\ up[p] /\ resume[p] = 0 /\ pending[p] # 0
    /\ LET n == pending[p]
           e == [sequent |-> last[p] + 1, edit |-> EditOf(issued[n].type, n)]
       IN  /\ inbox' = [q \in Peer |-> IF q # p /\ up[q]
                                       THEN Append(inbox[q], EventMessage(p, e)) ELSE inbox[q]]
           /\ issued' = [issued EXCEPT ![n].announced = last[p]]
    /\ pending' = [pending EXCEPT ![p] = 0]
    /\ UNCHANGED <<replicaVars, peerVars, threads, boundVars>>

\* Then the request is multicast, under what is the last sequent by now.
Multicast(p) ==
    /\ up[p] /\ resume[p] = 0 /\ pending[p] # 0
    /\ LET n == pending[p]
           e == [sequent |-> last[p], edit |-> EditOf(issued[n].type, n)]
       IN  /\ inbox' = [q \in Peer |-> IF q # p /\ up[q]
                                       THEN Append(inbox[q], EventMessage(p, e)) ELSE inbox[q]]
           /\ issued' = [issued EXCEPT ![n].announced = last[p]]
    /\ pending' = [pending EXCEPT ![p] = 0]
    /\ UNCHANGED <<replicaVars, peerVars, threads, boundVars>>

-----------------------------------------------------------------------------
(* A message from another peer.                                            *)

IsDuplicate(p, e) == e.sequent = last[p] + 1 /\ HasSequent(log[p], e.sequent)

RequestReplay(p, e) ==
    LET missing == Missing(log[p], e.sequent)
    IN  threads' = IF e.sequent > last[p] + 1 /\ missing # {}
                   THEN [threads EXCEPT ![p] = Append(@, [to |-> master[p], of |-> missing])]
                   ELSE threads

FromMaster(p, m) == m.type = "event" /\ m.from = master[p]

ReceiveEvent(p) ==
    /\ Receives(p)
    /\ LET m == Head(inbox[p])
       IN  /\ FromMaster(p, m)
           /\ ~ IsDuplicate(p, m.event)
           /\ RequestReplay(p, m.event)
           /\ ApplyEvent(p, m.event)
    /\ inbox' = Consumed(p)
    /\ UNCHANGED <<peerVars, pending, issued, boundVars>>

\* A duplicate, an event of a peer that is not the master of p, a request for a
\* replay when p is nobody's master, or of a sequent it does not have.
IgnoreMessage(p) ==
    /\ Receives(p)
    /\ LET m == Head(inbox[p])
       IN  \/ m.type = "event" /\ (FromMaster(p, m) => IsDuplicate(p, m.event))
           \/ m.type = "replay" /\ (master[p] = p => ~ HasSequent(log[p], m.sequent)
                                                     \/ m.sequent > Len(log[p]))
    /\ inbox' = Consumed(p)
    /\ UNCHANGED <<replicaVars, peerVars, pending, threads, issued, boundVars>>

HandleReplay(p) ==
    /\ Receives(p)
    /\ LET m == Head(inbox[p])
       IN  /\ m.type = "replay" /\ master[p] = p
           /\ m.sequent <= Len(log[p]) /\ HasSequent(log[p], m.sequent)
           /\ inbox' = Deliver(Consumed(p), m.from,
                               EventMessage(p, FindSequent(log[p], m.sequent)))
    /\ UNCHANGED <<replicaVars, peerVars, pending, threads, issued, boundVars>>

\* Mutant: an event is asked for again until it is there.
SendReplayAgain(p) ==
    \E i \in DOMAIN threads[p] :
        LET thread == threads[p][i]
            n == CHOOSE n \in thread.of : \A k \in thread.of : n <= k
        IN  /\ inbox' = IF thread.to \in Peer
                        THEN Deliver(inbox, thread.to,
                                     [type |-> "replay", from |-> p, sequent |-> n])
                        ELSE inbox
            /\ threads' = [threads EXCEPT ![p] =
                 IF ~ HasSequent(log[p], n) THEN @
                 ELSE IF thread.of # {n} THEN [@ EXCEPT ![i].of = thread.of \ {n}]
                                         ELSE RemoveAt(@, i)]
            /\ UNCHANGED <<replicaVars, peerVars, pending, issued, boundVars>>

\* A replay thread keeps to the master it was started for.
SendReplay(p) ==
    \E i \in DOMAIN threads[p] :
        LET thread == threads[p][i]
            n == CHOOSE n \in thread.of : \A k \in thread.of : n <= k
        IN  /\ inbox' = IF thread.to \in Peer
                        THEN Deliver(inbox, thread.to,
                                     [type |-> "replay", from |-> p, sequent |-> n])
                        ELSE inbox
            /\ threads' = [threads EXCEPT ![p] =
                 IF thread.of # {n} THEN [@ EXCEPT ![i].of = thread.of \ {n}]
                                    ELSE RemoveAt(@, i)]
            /\ UNCHANGED <<replicaVars, peerVars, pending, issued, boundVars>>

-----------------------------------------------------------------------------
(* Elections and processes.                                                *)

ChangeMaster(p) ==
    /\ changes < MaxChanges
    /\ up[p]
    /\ \E q \in (Peer \cup {Nobody}) \ {master[p]} : master' = [master EXCEPT ![p] = q]
    /\ changes' = changes + 1
    /\ UNCHANGED <<replicaVars, up, pending, inbox, threads, issued, crashes>>

Crash(p) ==
    /\ crashes < MaxCrashes
    /\ up[p]
    /\ crashes' = crashes + 1
    /\ up' = [up EXCEPT ![p] = FALSE]
    /\ master' = [master EXCEPT ![p] = Nobody]
    /\ Forget(p)
    /\ pending' = [pending EXCEPT ![p] = 0]
    /\ inbox' = [inbox EXCEPT ![p] = <<>>]
    /\ threads' = [threads EXCEPT ![p] = <<>>]
    /\ UNCHANGED <<issued, changes>>

Restart(p) ==
    /\ ~ up[p]
    /\ up' = [up EXCEPT ![p] = TRUE]
    /\ UNCHANGED <<replicaVars, master, pending, inbox, threads, issued, boundVars>>

-----------------------------------------------------------------------------
\* The first election is over: some peer leads, and some of the others know.
Init ==
    /\ ReplicaInit
    /\ up = [p \in Peer |-> TRUE]
    /\ \E leader \in Peer :
         /\ master \in [Peer -> {leader, Nobody}]
         /\ master[leader] = leader
    /\ pending = [p \in Peer |-> 0]
    /\ inbox = [p \in Peer |-> <<>>]
    /\ threads = [p \in Peer |-> <<>>]
    /\ issued = <<>>
    /\ changes = 0 /\ crashes = 0

Server(p) ==
    \/ ResumeBuffered(p)
    \/ Multicast(p)
    \/ ReceiveEvent(p)
    \/ IgnoreMessage(p)
    \/ HandleReplay(p)

Next ==
    \E p \in Peer :
        \/ \E type \in {"APND", "DELT"} : ClientRequest(p, type)
        \/ Server(p)
        \/ SendReplay(p)
        \/ ChangeMaster(p)
        \/ Crash(p)
        \/ Restart(p)

Spec == Init /\ [][Next]_vars

\* Every server and every replay thread runs.
FairSpec == Spec /\ \A p \in Peer : WF_vars(Server(p)) /\ WF_vars(SendReplay(p))

-----------------------------------------------------------------------------
(* Properties.                                                             *)

TypeOK ==
    /\ up \in [Peer -> BOOLEAN] /\ master \in [Peer -> Peer \cup {Nobody}]
    /\ pending \in [Peer -> 0 .. Len(issued)]
    /\ \A p \in Peer :
        /\ \A i \in DOMAIN log[p] : log[p][i] \in Event
        /\ \A i \in DOMAIN inbox[p] : inbox[p][i] \in Message
        /\ \A i \in DOMAIN threads[p] : threads[p][i].of # {}
        /\ ~ up[p] => log[p] = <<>> /\ inbox[p] = <<>> /\ pending[p] = 0

\* Over all changes of master, replays by masters that never issued what they
\* replay, and repeats: an edit is in a log only under the sequent its master
\* gave it or the one its master announced it under, so two logs disagree about
\* a sequent only if two edits were issued or announced under it.
LoggedAsIssued ==
    \A p \in Peer : \A i \in DOMAIN log[p] :
        LET of == issued[Number(log[p][i].edit)]
        IN  log[p][i].sequent \in {of.sequent, of.announced}

\* The messages of former masters and the replay threads that ask them come to
\* an end, whoever still answers.
ComesToRest == <>[](\A p \in Peer : inbox[p] = <<>> /\ threads[p] = <<>> /\ resume[p] = 0)

(* What a comment says and the code does not do.                           *)

\* bftpeer.cpp:382, "This node is the master, so sequence the request and
\* broadcast it to all peers": what is broadcast has the sequent it was given.
AnnouncedAsSequenced ==
    \A n \in DOMAIN issued : issued[n].announced \in {-1, issued[n].sequent}

=============================================================================
