----------------------------- MODULE Replication -----------------------------
(***************************************************************************)
(* The replicated document during the reign of one master: clients' edits  *)
(* reach the master's server thread, which applies them, numbers them and  *)
(* unicasts them to every peer it can reach; a follower applies them in    *)
(* order, buffers what comes early and asks for what it missed from        *)
(* detached replay threads.  Only the server thread of a peer touches its  *)
(* log, so a handler is one action; the recursion of apply_event over the  *)
(* buffer is a loop of that thread (resume), during which it does nothing  *)
(* else.  Elections appear as Follow and StopFollowing, the changes they   *)
(* make to what a follower takes for its master.                           *)
(***************************************************************************)
EXTENDS Replica

CONSTANTS
    Master,       \* the peer that is master throughout
    Char,         \* the characters of the document
    Radix,        \* first sequence number written with two digits (10)
    MaxRequests,  \* bound: client requests the master accepts
    MaxFaults     \* bound: crashes of followers and losses of the master

Types == {"APND", "DELT", "VIEW"}

ASSUME ConstantsAssumption ==
    /\ Master \in Peer
    /\ Edit \subseteq [type : Types, text : Seq(Char), count : Nat]
    /\ Radix \in Nat \ {0}
    /\ MaxRequests \in 0 .. Radix * Radix  \* at most two digits, see ParsedSequent
    /\ MaxFaults \in Nat

VARIABLES
    status,     \* status[f]: the process runs, is dead, or called terminate()
    follows,    \* follows[f]: f's masterId names the master
    inbox,      \* inbox[f]: f's accept queue, log events from the master
    requests,   \* the master's accept queue, replay requests of the followers
    threads,    \* threads[f]: per replay thread, the sequents it still asks for
    edits,      \* number of client requests accepted, see MaxRequests
    faults      \* number of faults so far, see MaxFaults

followerVars == <<status, follows, threads>>
vars == <<replicaVars, followerVars, inbox, requests, edits, faults>>

Follower == Peer \ {Master}

-----------------------------------------------------------------------------
(* A follower's server thread goes on with what it buffered.               *)

ApplyBuffered(f) ==
    /\ status[f] = "up"
    /\ Resume(f)
    /\ UNCHANGED <<followerVars, inbox, requests, edits, faults>>

-----------------------------------------------------------------------------
(* The master's server thread.                                             *)

\* unicast_log_event_as_master: the connection fails unless f is running.
Deliver(f, queue, e) == IF status[f] = "up" THEN Append(queue, e) ELSE queue

\* Mutant of ClientRequest: multicast under the lastSequent read before applying.
ClientRequestStale(edit) ==
    /\ edits < MaxRequests
    /\ ~ TooLong(Master, edit)
    /\ ApplyEvent(Master, [sequent |-> last[Master] + 1, edit |-> edit])
    /\ LET e == [sequent |-> last[Master], edit |-> edit]
       IN  inbox' = [f \in Follower |-> Deliver(f, inbox[f], e)]
    /\ edits' = edits + 1
    /\ UNCHANGED <<followerVars, requests, faults>>

\* process_client_request_as_master: the request is applied under the next
\* sequent, then multicast under lastSequent, a VIEW too.
ClientRequest(edit) ==
    /\ edits < MaxRequests
    /\ ~ TooLong(Master, edit)
    /\ ApplyEvent(Master, [sequent |-> last[Master] + 1, edit |-> edit])
    /\ LET e == [sequent |-> last'[Master], edit |-> edit]
       IN  inbox' = [f \in Follower |-> Deliver(f, inbox[f], e)]
    /\ edits' = edits + 1
    /\ UNCHANGED <<followerVars, requests, faults>>

\* Mutant of HandleReplay: an event that cannot be sent is tried again.
HandleReplayRetry ==
    /\ requests # <<>>
    /\ LET r == Head(requests)
           known == r.sequent <= Len(log[Master]) /\ HasSequent(log[Master], r.sequent)
       IN  /\ inbox' = IF known
                       THEN [inbox EXCEPT ![r.from] =
                               Deliver(r.from, @, FindSequent(log[Master], r.sequent))]
                       ELSE inbox
           /\ requests' = IF status[r.from] = "up" THEN Tail(requests) ELSE requests
    /\ UNCHANGED <<replicaVars, followerVars, edits, faults>>

\* handle_message_replay: a sequent the log lacks is ignored.
HandleReplay ==
    /\ requests # <<>>
    /\ LET r == Head(requests)
           known == r.sequent <= Len(log[Master]) /\ HasSequent(log[Master], r.sequent)
       IN  inbox' = IF known
                    THEN [inbox EXCEPT ![r.from] =
                            Deliver(r.from, @, FindSequent(log[Master], r.sequent))]
                    ELSE inbox
    /\ requests' = Tail(requests)
    /\ UNCHANGED <<replicaVars, followerVars, edits, faults>>

-----------------------------------------------------------------------------
(* A follower's server thread: process_master_log_event.                   *)

\* stoi(messageBody.substr(0,1)): the first digit of the at most two.
ParsedSequent(n) == IF n < Radix THEN n ELSE n \div Radix

Idle(f) == status[f] = "up" /\ resume[f] = 0
Receives(f) == Idle(f) /\ inbox[f] # <<>>
Consume(f) == inbox' = [inbox EXCEPT ![f] = Tail(@)]

\* request_replay: the detached thread works on copies of log and masterId.
RequestReplay(f, n) ==
    LET missing == Missing(log[f], n)
    IN  threads' = IF n > last[f] + 1 /\ missing # {}
                   THEN [threads EXCEPT ![f] = Append(@, missing)]
                   ELSE threads

IsDuplicate(f, n) == n = last[f] + 1 /\ HasSequent(log[f], n)

\* An event with a one-digit sequent; an old one only prints a warning.
ReceiveEvent(f, e) ==
    /\ e.sequent \in 0 .. Radix - 1
    /\ ~ IsDuplicate(f, e.sequent)
    /\ RequestReplay(f, e.sequent)
    /\ ApplyEvent(f, e)
    /\ Consume(f)
    /\ UNCHANGED <<status, follows, requests, edits, faults>>

\* "Duplicate detected, ignore".
RejectDuplicate(f, e) ==
    /\ e.sequent >= 0
    /\ IsDuplicate(f, ParsedSequent(e.sequent))
    /\ Consume(f)
    /\ UNCHANGED <<replicaVars, followerVars, requests, edits, faults>>

\* An event with more digits loses them: what is taken for the client's port
\* and signature is not, and the event fails verification.
DropGarbled(f, e) ==
    /\ e.sequent >= Radix
    /\ ~ IsDuplicate(f, ParsedSequent(e.sequent))
    /\ \/ e.edit.type = "APND"
       \/ e.edit.type = "DELT" /\ e.edit.count # 0
    /\ RequestReplay(f, ParsedSequent(e.sequent))
    /\ Consume(f)
    /\ UNCHANGED <<replicaVars, status, follows, requests, edits, faults>>

\* The process ends and with it its state: nothing is persisted.
Stop(f, how) ==
    /\ status' = [status EXCEPT ![f] = how]
    /\ follows' = [follows EXCEPT ![f] = FALSE]
    /\ Forget(f)
    /\ threads' = [threads EXCEPT ![f] = <<>>]
    /\ inbox' = [inbox EXCEPT ![f] = <<>>]

\* The server thread dies: stoi throws on the sign of sequent -1, or in
\* verify_message on the signature lost to a second digit (an appended text or
\* a count is then read as the client's port, and taken modulo when a number).
Terminate(f, e) ==
    /\ \/ e.sequent < 0
       \/ /\ e.sequent >= Radix
          /\ ~ (e.edit.type = "DELT" /\ e.edit.count # 0)
          /\ ~ IsDuplicate(f, ParsedSequent(e.sequent))
    /\ Stop(f, "terminated")
    /\ UNCHANGED <<requests, edits, faults>>

\* handle_message_client: the sender is neither our master nor a client.
IgnoreEvent(f) ==
    /\ Receives(f)
    /\ ~ follows[f]
    /\ Consume(f)
    /\ UNCHANGED <<replicaVars, followerVars, requests, edits, faults>>

\* Mutant of SendReplay: the thread goes on after its last request.
SendReplayEndless(f) ==
    \E i \in DOMAIN threads[f] :
        LET n == Min(threads[f][i])
            rest == threads[f][i] \ {n}
        IN  /\ requests' = Append(requests, [sequent |-> n, from |-> f])
            /\ threads' = [threads EXCEPT ![f][i] = rest]
            /\ UNCHANGED <<replicaVars, status, follows, inbox, edits, faults>>

\* One request of one replay thread reaches the master's accept queue.
SendReplay(f) ==
    \E i \in DOMAIN threads[f] :
        LET n == Min(threads[f][i])
            rest == threads[f][i] \ {n}
        IN  /\ requests' = Append(requests, [sequent |-> n, from |-> f])
            /\ threads' = [threads EXCEPT ![f] =
                 IF rest # {} THEN [@ EXCEPT ![i] = rest]
                 ELSE SubSeq(@, 1, i - 1) \o SubSeq(@, i + 1, Len(@))]
            /\ UNCHANGED <<replicaVars, status, follows, inbox, edits, faults>>

-----------------------------------------------------------------------------
(* What elections and the operating system do to a follower.               *)

Follow(f) ==
    /\ Idle(f)
    /\ ~ follows[f]
    /\ follows' = [follows EXCEPT ![f] = TRUE]
    /\ UNCHANGED <<replicaVars, status, threads, inbox, requests, edits, faults>>

StopFollowing(f) ==
    /\ faults < MaxFaults
    /\ status[f] = "up"
    /\ follows[f]
    /\ follows' = [follows EXCEPT ![f] = FALSE]
    /\ faults' = faults + 1
    /\ UNCHANGED <<replicaVars, status, threads, inbox, requests, edits>>

Crash(f) ==
    /\ faults < MaxFaults
    /\ status[f] = "up"
    /\ Stop(f, "down")
    /\ faults' = faults + 1
    /\ UNCHANGED <<requests, edits>>

Restart(f) ==
    /\ status[f] # "up"
    /\ status' = [status EXCEPT ![f] = "up"]
    /\ UNCHANGED <<replicaVars, follows, threads, inbox, requests, edits, faults>>

-----------------------------------------------------------------------------
Init ==
    /\ ReplicaInit
    /\ status = [f \in Follower |-> "up"]
    /\ follows = [f \in Follower |-> FALSE]
    /\ inbox = [f \in Follower |-> <<>>]
    /\ requests = <<>>
    /\ threads = [f \in Follower |-> <<>>]
    /\ edits = 0
    /\ faults = 0

Server(f) ==
    \/ ApplyBuffered(f)
    \/ IgnoreEvent(f)
    \/ /\ Receives(f)
       /\ follows[f]
       /\ LET e == Head(inbox[f])
          IN  \/ ReceiveEvent(f, e)
              \/ RejectDuplicate(f, e)
              \/ DropGarbled(f, e)
              \/ Terminate(f, e)

Next ==
    \/ \E edit \in Edit : ClientRequest(edit)
    \/ HandleReplay
    \/ \E f \in Follower :
          \/ Server(f)
          \/ SendReplay(f)
          \/ Follow(f)
          \/ StopFollowing(f)
          \/ Crash(f)
          \/ Restart(f)

Spec == Init /\ [][Next]_vars

\* The operating system runs every thread: servers, the master, replay threads.
FairSpec ==
    /\ Spec
    /\ WF_vars(HandleReplay)
    /\ \A f \in Follower : WF_vars(Server(f)) /\ WF_vars(SendReplay(f))

-----------------------------------------------------------------------------
(* Properties.                                                             *)

\* Every variable holds values of its type; a replay thread that has asked
\* for everything is gone.
TypeOK ==
    /\ document \in [Peer -> Seq(Char)]
    /\ log \in [Peer -> Seq(Event)]
    /\ last \in [Peer -> Int]
    /\ buffer \in [Peer -> Seq(Event)]
    /\ resume \in [Peer -> Nat]
    /\ status \in [Follower -> {"up", "down", "terminated"}]
    /\ follows \in [Follower -> BOOLEAN]
    /\ inbox \in [Follower -> Seq(Event)]
    /\ requests \in Seq([sequent : Nat, from : Follower])
    /\ threads \in [Follower -> Seq((SUBSET Nat) \ {{}})]
    /\ edits \in 0 .. MaxRequests
    /\ faults \in 0 .. MaxFaults

\* Whatever was replayed, repeated, buffered or lost, an event in a follower's
\* log is the event the master logged under the same sequent.
LogsAgree ==
    \A f \in Follower : \A i \in DOMAIN log[f] :
        LET n == log[f][i].sequent
        IN  n \in 0 .. Len(log[Master]) - 1 /\ log[f][i] = log[Master][n + 1]

RepeatFree(p) ==
    \A i, j \in DOMAIN log[p] : log[p][i].sequent = log[p][j].sequent => i = j

\* The only way a follower diverges from the master is to apply an event twice:
\* a log without repeats is a prefix of the master's, in the master's order.
RepeatFreeIsPrefix ==
    \A f \in Follower : RepeatFree(f) =>
        /\ Len(log[f]) <= Len(log[Master])
        /\ \A i \in DOMAIN log[f] : log[f][i] = log[Master][i]

Quiet(f) ==
    /\ Idle(f)
    /\ follows[f]
    /\ inbox[f] = <<>>
    /\ threads[f] = <<>>
    /\ \A i \in DOMAIN requests : requests[i].from # f

\* Replays close the gap: when a follower that lost nothing since it followed
\* the master and repeated nothing has no more to do, everything it buffered
\* (an edit, for a buffered VIEW takes the place of the edit) is in its log.
QuietMeansCaughtUp ==
    faults = 0 => \A f \in Follower :
        (Quiet(f) /\ RepeatFree(f)) =>
            \A i \in DOMAIN buffer[f] :
                \/ HasSequent(log[f], buffer[f][i].sequent)
                \/ \E j \in 1 .. i : buffer[f][j].edit.type = "VIEW"

\* Replays end: repeats and refused events never keep a follower and the
\* master exchanging replays for ever.
ReplaysEnd ==
    <>[](/\ requests = <<>>
         /\ \A f \in Follower : threads[f] = <<>> /\ inbox[f] = <<>>)

\* The detailed replication implements the abstract one: the history is what the
\* master logged, and a follower has performed what is in its log.  So it
\* performs the master's edits from the first on, in order and without a gap,
\* or again, but never one too early and never one the master did not accept.
Document == INSTANCE ReplicatedDocument WITH
    history <- [i \in 1 .. Len(log[Master]) |-> log[Master][i].edit],
    known <- [f \in Follower |-> {log[f][i].sequent : i \in DOMAIN log[f]}],
    text <- document

ImplementsDocument == Document!Spec

(* What comments of the code say; the code does not do it.                 *)

\* bftpeer.cpp:413, "Must assume event is a duplicate": an event whose sequent
\* was applied before is not applied again.
AppliedOnce == \A f \in Follower : RepeatFree(f)

\* bftpeer.cpp:394, "process an AppendEntries log event announce from master":
\* the master's announcements are processed, they do not end the process.
NoneTerminates == \A f \in Follower : status[f] # "terminated"

=============================================================================
