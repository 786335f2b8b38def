---------------------------- MODULE ClientRequest ----------------------------
(***************************************************************************)
(* A client asks one peer after another until one answers; the server      *)
(* thread of a peer that is not master relays an edit to the peer it takes *)
(* for the master and is blocked until that answers.  Calls give up after  *)
(* two seconds, but what they sent stays in the accept queue of the peer   *)
(* called.  Accepted sockets are never closed.  Who is taken for master    *)
(* changes at any time: that is the business of Election.                  *)
(***************************************************************************)
EXTENDS Integers, Sequences, FiniteSets

CONSTANTS
    N,            \* number of peers; a peer is its place in the port range
    Descriptors,  \* sockets a server accepts before accept fails
    MaxCommands,  \* bound: commands given at the prompt
    MaxChanges,   \* bound: changes of what a peer takes for the master
    MaxCrashes    \* bound: peers killed

Peer == 1 .. N
Client == 0          \* as a caller; as a master it stands for nobody
Commands == 1 .. MaxCommands

ASSUME ConstantsAssumption ==
    /\ N \in Nat \ {0}
    /\ Descriptors \in Nat \ {0}
    /\ MaxCommands \in Nat /\ MaxChanges \in Nat /\ MaxCrashes \in Nat

VARIABLES
    up,        \* up[p]: the process of p runs
    master,    \* master[p]: masterId.port
    queue,     \* queue[p]: the accept queue of p
    opened,    \* opened[p]: sockets p's server has accepted
    relay,     \* relay[p]: the call p's server relays, and the answer it got
    client,    \* the client, from the prompt to the end of a command
    sent,      \* sent[i]: how often the client sent command i (history)
    applied,   \* applied[i]: how often masters applied command i (history)
    changes, crashes   \* counters for the bounds

peerVars == <<up, master, opened>>
historyVars == <<sent, applied>>
boundVars == <<changes, crashes>>
vars == <<peerVars, queue, relay, client, historyVars, boundVars>>

Edits == {"append", "delete"}
Kinds == Edits \cup {"view", "elect"}

\* A call is live as long as its caller waits for the answer.
Call == [from : 0 .. N, live : BOOLEAN, command : Commands, kind : Kinds]

\* PING acknowledges an edit; "garbled" is NULL with what the buffer held before.
Replies == {"PING", "NULL", "garbled", "document", "document+PING"}

NoCall == [from |-> 0, live |-> FALSE, command |-> 0, kind |-> "none"]
Idle == [call |-> NoCall, reply |-> "none"]

-----------------------------------------------------------------------------
(* Calls (util::send_receive).                                             *)

Put(p, c) == queue' = [queue EXCEPT ![p] = Append(@, c)]

Dead(c, caller) == IF c.from = caller THEN [c EXCEPT !.live = FALSE] ELSE c

\* The caller waits no longer: recv timed out, or the process is gone.
HungUpQueue(caller) ==
    [p \in Peer |-> [i \in DOMAIN queue[p] |-> Dead(queue[p][i], caller)]]
HungUpRelay(caller) == [p \in Peer |-> [relay[p] EXCEPT !.call = Dead(@, caller)]]

\* Mutant: an answer is given to whatever its caller waits for by now.
AnswerAnyway(relays, c, r) ==
    /\ client' = IF c.from = Client THEN [client EXCEPT !.reply = r] ELSE client
    /\ relay' = IF c.from # Client /\ relays[c.from].reply = "wait"
                THEN [relays EXCEPT ![c.from].reply = r] ELSE relays

\* send on the accepted socket reaches the caller if it still waits.
Answer(relays, c, r) ==
    /\ client' = IF c.live /\ c.from = Client THEN [client EXCEPT !.reply = r] ELSE client
    /\ relay' = IF c.live /\ c.from # Client
                THEN [relays EXCEPT ![c.from].reply = r] ELSE relays

-----------------------------------------------------------------------------
(* The client: the prompt of bftdoc.cpp and the constructor of BftClient.  *)

GiveCommand(kind) ==
    /\ client.pc = "prompt"
    /\ client.command < MaxCommands
    /\ client' = [pc |-> IF kind = "elect" THEN "elect" ELSE "send", kind |-> kind,
                  command |-> client.command + 1, at |-> 1, tries |-> 0,
                  reply |-> "none", outcome |-> "none"]
    /\ UNCHANGED <<peerVars, queue, relay, historyVars, boundVars>>

Request(live) ==
    [from |-> Client, live |-> live, command |-> client.command, kind |-> client.kind]

\* "For an election request, we want to start an election at every node."
RequestElection ==
    /\ client.pc = "elect"
    /\ IF client.at \in Peer /\ up[client.at] THEN Put(client.at, Request(FALSE))
                                              ELSE UNCHANGED queue
    /\ client' = IF client.at \in Peer THEN [client EXCEPT !.at = @ + 1]
                                       ELSE [client EXCEPT !.pc = "prompt"]
    /\ UNCHANGED <<peerVars, relay, historyVars, boundVars>>

\* The test of the loop behind a send that failed.
TryNext ==
    client' = IF client.tries < N
              THEN [client EXCEPT !.pc = "send", !.tries = @ + 1,
                                  !.at = (@ % N) + 1, !.reply = "none"]
              ELSE [client EXCEPT !.pc = "prompt", !.reply = "none", !.outcome = "timeout"]

Connect ==
    /\ client.pc = "send"
    /\ up[client.at]
    /\ Put(client.at, Request(TRUE))
    /\ client' = [client EXCEPT !.pc = "wait", !.reply = "wait"]
    /\ sent' = [sent EXCEPT ![client.command] = @ + 1]
    /\ UNCHANGED <<peerVars, relay, applied, boundVars>>

ConnectFails ==
    /\ client.pc = "send"
    /\ ~ up[client.at]
    /\ TryNext
    /\ UNCHANGED <<peerVars, queue, relay, historyVars, boundVars>>

\* Mutant: recv has no timeout, and ends only when the peer is gone.
NoReplyWhenDead ==
    /\ client.reply = "wait"
    /\ ~ up[client.at]
    /\ TryNext
    /\ queue' = HungUpQueue(Client) /\ relay' = HungUpRelay(Client)
    /\ UNCHANGED <<peerVars, historyVars, boundVars>>

\* recv ends without an answer: two seconds have passed, or the peer is gone.
NoReply ==
    /\ client.reply = "wait"
    /\ TryNext
    /\ queue' = HungUpQueue(Client) /\ relay' = HungUpRelay(Client)
    /\ UNCHANGED <<peerVars, historyVars, boundVars>>

\* The count of failures is looked at although this send did not fail.
GetReply ==
    /\ client.pc = "wait" /\ client.reply \in Replies
    /\ client' = [client EXCEPT !.pc = "prompt",
                    !.outcome = IF client.tries >= N THEN "timeout"
                                ELSE IF client.reply = "NULL" THEN "failed" ELSE "success"]
    /\ UNCHANGED <<peerVars, queue, relay, historyVars, boundVars>>

ClientStep ==
    RequestElection \/ Connect \/ ConnectFails \/ NoReply \/ GetReply

-----------------------------------------------------------------------------
(* The server thread: one message at a time, each on a descriptor of its   *)
(* own; when accept fails it loops without taking anything off its queue.  *)

Accept(p) ==
    /\ up[p] /\ relay[p] = Idle
    /\ queue[p] # <<>>
    /\ opened[p] < Descriptors
    /\ opened' = [opened EXCEPT ![p] = @ + 1]

First(p) == Head(queue[p])
Took(p) == queue' = [queue EXCEPT ![p] = Tail(@)]

\* A master treats the request as an edit too and acknowledges it as well, which
\* the client may receive together with the document.
AnswerView(p) ==
    /\ Accept(p) /\ Took(p)
    /\ First(p).kind = "view"
    /\ \E r \in {"document"} \cup (IF master[p] = p THEN {"document+PING"} ELSE {}) :
         Answer(relay, First(p), r)
    /\ UNCHANGED <<up, master, historyVars, boundVars>>

ObeyElection(p) ==
    /\ Accept(p) /\ Took(p)
    /\ First(p).kind = "elect"
    /\ master' = [master EXCEPT ![p] = 0]
    /\ UNCHANGED <<up, relay, client, historyVars, boundVars>>

\* process_client_request_as_master: applied, acknowledged, then multicast.
ApplyEdit(p) ==
    /\ Accept(p) /\ Took(p)
    /\ First(p).kind \in Edits /\ master[p] = p
    /\ applied' = [applied EXCEPT ![First(p).command] = @ + 1]
    /\ Answer(relay, First(p), "PING")
    /\ UNCHANGED <<up, master, sent, boundVars>>

\* Mutant: an edit is acknowledged before it is looked at.
RejectEditAcknowledged(p) ==
    /\ Accept(p) /\ Took(p)
    /\ First(p).kind \in Edits /\ master[p] = p
    /\ Answer(relay, First(p), "PING")
    /\ UNCHANGED <<up, master, historyVars, boundVars>>

\* Not answered at all: a deletion that is too long for the document, and an edit
\* of which sanitise leaves nothing.
RejectEdit(p) ==
    /\ Accept(p) /\ Took(p)
    /\ First(p).kind \in Edits /\ master[p] = p
    /\ UNCHANGED <<up, master, relay, client, historyVars, boundVars>>

Relays(p) == Accept(p) /\ First(p).kind \in Edits /\ master[p] # p
Reachable(p) == master[p] # 0 /\ up[master[p]] /\ opened[p] + 1 < Descriptors

StartRelay(p) ==
    /\ Relays(p) /\ Reachable(p)
    /\ LET c == [from |-> p, live |-> TRUE, command |-> First(p).command, kind |-> First(p).kind]
       IN  queue' = [queue EXCEPT ![p] = Tail(@), ![master[p]] = Append(@, c)]
    /\ relay' = [relay EXCEPT ![p] = [call |-> First(p), reply |-> "wait"]]
    /\ UNCHANGED <<up, master, client, historyVars, boundVars>>

\* No connection, or no descriptor for one.
RefuseRelay(p) ==
    /\ Relays(p) /\ ~ Reachable(p) /\ Took(p)
    /\ Answer(relay, First(p), "NULL")
    /\ UNCHANGED <<up, master, historyVars, boundVars>>

\* Mutant: a relay that gets no answer is tried again.
RelayFailsRetry(p) ==
    /\ relay[p].reply = "wait"
    /\ queue' = IF master[p] # 0 /\ up[master[p]]
                THEN [HungUpQueue(p) EXCEPT ![master[p]] =
                        Append(@, [relay[p].call EXCEPT !.from = p])]
                ELSE HungUpQueue(p)
    /\ relay' = [HungUpRelay(p) EXCEPT ![p] = IF master[p] # 0 THEN relay[p] ELSE Idle]
    /\ UNCHANGED <<peerVars, client, historyVars, boundVars>>

\* Mutant: a relay waits for the master as long as that runs.
RelayFailsWhenDead(p) ==
    /\ relay[p].reply = "wait"
    /\ master[p] # 0 => ~ up[master[p]]
    /\ queue' = HungUpQueue(p)
    /\ Answer([HungUpRelay(p) EXCEPT ![p] = Idle], relay[p].call, "NULL")
    /\ UNCHANGED <<peerVars, historyVars, boundVars>>

\* "Failed to relay message to master": recv timed out, or the master is gone.
RelayFails(p) ==
    /\ relay[p].reply = "wait"
    /\ queue' = HungUpQueue(p)
    /\ Answer([HungUpRelay(p) EXCEPT ![p] = Idle], relay[p].call, "NULL")
    /\ UNCHANGED <<peerVars, historyVars, boundVars>>

\* The answer is passed on up to the first zero of a buffer never cleared.
PassedOn(r) == IF r = "NULL" THEN {"NULL", "garbled"} ELSE {r}

RelayAnswer(p) ==
    /\ relay[p].reply \in Replies
    /\ \E r \in PassedOn(relay[p].reply) :
         Answer([relay EXCEPT ![p] = Idle], relay[p].call, r)
    /\ UNCHANGED <<peerVars, queue, historyVars, boundVars>>

-----------------------------------------------------------------------------
(* Processes and elections.                                                *)

\* Nothing is persisted, and whoever called is disconnected.
Die(p) ==
    /\ up' = [up EXCEPT ![p] = FALSE]
    /\ master' = [master EXCEPT ![p] = 0]
    /\ opened' = [opened EXCEPT ![p] = 0]
    /\ queue' = [HungUpQueue(p) EXCEPT ![p] = <<>>]
    /\ relay' = [HungUpRelay(p) EXCEPT ![p] = Idle]
    /\ UNCHANGED <<client, historyVars>>

\* The second answer of a master to a view whose client has hung up: the first
\* was reset, and a write to a reset connection raises SIGPIPE.
BrokenPipe(p) ==
    /\ up[p] /\ relay[p] = Idle /\ queue[p] # <<>> /\ opened[p] < Descriptors
    /\ First(p).kind = "view" /\ master[p] = p /\ ~ First(p).live
    /\ Die(p)
    /\ UNCHANGED boundVars

Crash(p) ==
    /\ crashes < MaxCrashes
    /\ up[p]
    /\ Die(p)
    /\ crashes' = crashes + 1
    /\ UNCHANGED changes

Restart(p) ==
    /\ ~ up[p]
    /\ up' = [up EXCEPT ![p] = TRUE]
    /\ UNCHANGED <<master, opened, queue, relay, client, historyVars, boundVars>>

ChangeMaster(p) ==
    /\ changes < MaxChanges
    /\ up[p]
    /\ \E q \in 0 .. N : q # master[p] /\ master' = [master EXCEPT ![p] = q]
    /\ changes' = changes + 1
    /\ UNCHANGED <<up, opened, queue, relay, client, historyVars, crashes>>

-----------------------------------------------------------------------------
Init ==
    /\ up = [p \in Peer |-> TRUE]
    /\ master = [p \in Peer |-> 0]
    /\ queue = [p \in Peer |-> <<>>]
    /\ opened = [p \in Peer |-> 0]
    /\ relay = [p \in Peer |-> Idle]
    /\ client = [pc |-> "prompt", kind |-> "none", command |-> 0, at |-> 1, tries |-> 0,
                 reply |-> "none", outcome |-> "none"]
    /\ sent = [i \in Commands |-> 0]
    /\ applied = [i \in Commands |-> 0]
    /\ changes = 0 /\ crashes = 0

Server(p) ==
    \/ AnswerView(p) \/ BrokenPipe(p) \/ ObeyElection(p)
    \/ ApplyEdit(p) \/ RejectEdit(p)
    \/ StartRelay(p) \/ RefuseRelay(p) \/ RelayFails(p) \/ RelayAnswer(p)

Next ==
    \/ \E kind \in Kinds : GiveCommand(kind)
    \/ ClientStep
    \/ \E p \in Peer : Server(p) \/ Crash(p) \/ Restart(p) \/ ChangeMaster(p)

Spec == Init /\ [][Next]_vars

\* The client and the servers run, and their calls give up in time.
FairSpec ==
    /\ Spec
    /\ WF_vars(ClientStep)
    /\ \A p \in Peer : WF_vars(Server(p))

-----------------------------------------------------------------------------
(* Properties.                                                             *)

\* Types; and an answer reaches only a client or a relay that waits for it.
TypeOK ==
    /\ up \in [Peer -> BOOLEAN] /\ master \in [Peer -> 0 .. N]
    /\ opened \in [Peer -> 0 .. Descriptors]
    /\ \A p \in Peer :
        /\ \A i \in DOMAIN queue[p] : queue[p][i] \in Call
        /\ relay[p].reply \in Replies \cup {"none", "wait"}
        /\ relay[p] # Idle => relay[p].call \in Call /\ up[p]
    /\ client.pc \in {"prompt", "send", "wait", "elect"}
    /\ client.tries \in 0 .. N
    /\ client.reply = "wait" => client.pc = "wait"
    /\ client.pc \in {"send", "elect"} => client.reply = "none"

\* An edit the client was told succeeded was applied by a peer that took itself
\* for the master, over however many relays, timeouts, retries and changes of
\* master; unless a relay garbled the failure it passed on.
SuccessWasApplied ==
    client.outcome = "success" /\ client.kind \in Edits /\ client.reply = "PING"
        => applied[client.command] > 0

\* Relaying and retrying multiply an edit only by the number of times the client
\* sent it, which is at most once per peer and once more.
CopiesIn(queues, i) ==
    LET edit(c) == c.command = i /\ c.kind \in Edits
    IN  UNION {{p} \X {k \in DOMAIN queues[p] : edit(queues[p][k])} : p \in Peer}

Copies(i) == Cardinality(CopiesIn(queue, i))

EditsMultiplyBySends ==
    \A i \in Commands : /\ applied[i] + Copies(i) <= sent[i]
                        /\ sent[i] <= N + 1

\* Behind all its peers, relays, timeouts and retries the system is RequestService:
\* what the client is told of a command when the prompt comes back.
Told ==
    IF client.pc # "prompt" \/ client.outcome = "none" THEN "nothing"
    ELSE IF client.outcome = "success" /\ client.reply = "PING" /\ client.kind \in Edits
         THEN "applied" ELSE "unknown"

Service == INSTANCE RequestService WITH
    MaxSends <- N + 1, given <- client.command, open <- client.pc # "prompt", told <- Told

\* Every step is one of the service's or invisible: a command is sent only while it
\* is open, what is applied was sent, one at a time, and a command is told to be
\* applied only if it is that command that was, whoever relayed it how often.
ImplementsService == Service!Spec

\* Every command ends and the prompt comes back: peers that wait for each other,
\* that are dead, never answer or have run out of descriptors included.
PromptReturns == client.pc # "prompt" ~> client.pc = "prompt"

\* A server that relays is free again in the end, also when two peers take each
\* other for the master and each waits for the other.
RelaysEnd == \A p \in Peer : relay[p] # Idle ~> relay[p] = Idle

=============================================================================
