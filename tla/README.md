# BFTDoc in TLA+

BFTDoc is a replicated text document. Peers (ports 4000-4004) elect a master in
the manner of Raft; clients append to the document, delete from its end, view
it, or force an election. This directory holds TLA+ modules translated from the
C++ sources, TLC configurations that check them on small instances, and proofs
checked by TLAPS.

    tlc -config Replication_safety.cfg MCReplication.tla
    tlc -config Cluster_changes.cfg MCCluster.tla
    tlc -config Election_crash.cfg MCElection.tla
    tlc -config ClientRequest_ends.cfg ClientRequest.tla
    tlc -config Delivery_texts.cfg MCDelivery.tla
    tlapm ReplicationProofs.tla
    tlapm CatchUpProofs.tla
    tlapm ClusterProofs.tla
    tlapm ElectionProofs.tla
    tlapm ClientRequestProofs.tla
    tlapm DeliveryProofs.tla

## The system

| Part | State | Operations | Talks to |
|---|---|---|---|
| Replicated document (`bftpeer.cpp` 171-214, 325-461, 486-505, 556-655) | `document`, `logEvents`, `lastSequent`, `logEventsBuffer` of each peer | `process_client_request[_as_master]`, `multicast/unicast_log_event_as_master`, `process_master_log_event`, `apply_event`, `put_in_log`, `request_replay`, `handle_message_replay` | followers and master, over one connection per message |
| Election and monitoring (`bftpeer.cpp` 53-95, 217-321, 464-471, 658-694, 742-751, 778-915) | `state`, `term`, `masterId`, `voteInProgress`, `connectedPeers[].up`, `masterVoteRecord`, `lastMasterAnnounceSecs` | `remain_master`, `remain_follower`, `initiate_election`, `announce_master`; `handle_message_candidate`, `handle_message_master`, `process_client_elect_request` | every peer with every other; shares all of its state between two threads without a lock |
| Client and relay (`bftclient.cpp`, `bftpeer.cpp` 507-555) | none between commands | send to one peer after another until one answers; a follower relays an edit to its master and the answer back | client, follower, master: nested calls |
| Codec and signatures (`util.h`) | none | marshal, unmarshal, sanitise, sign, verify, hash chain | every message |
| Server loop (`bftpeer.cpp` 98-168, `util.h` 66-113) | the listening socket and its accept queue | accept, read, verify, dispatch; connect, send, receive with a timeout | the operating system |
| Byzantine mode (`bftpeer.cpp` 225-237, 517-539, 697-740, 810-820, 918-936) | none of its own | a random fault injector in the operations above | |
| Command line (`bftdoc.cpp`) | none | checks its arguments, starts a peer, or prompts for commands | client, peer |
| Peer window stub, build files | none | | |

What is hard in it:

- A peer is two threads on one unlocked object: the server, which answers one
  message at a time, and the elector. Each tests state and acts on it after a
  blocking call or a write to the console.
- Detached replay threads work on copies of a follower's log while the server
  goes on, and keep to the master they were started for.
- Messages are one connection each. Those to a dead peer are lost; those in an
  accept queue wait; a call that times out has been delivered all the same.
- A follower that relays blocks its server thread on a call to another server
  thread, and the client retries what may have been done already.
- Nothing is persisted. A restarted peer has an empty log and term 0. Accepted
  sockets are never closed.
- Two integers are read uninitialised (`num_peers_alive`,
  `lastMasterAnnounceSecs`), so is the rest of a relay's buffer; a sequence
  number is read from one digit, and separators are not escaped.

What makes each part correct: a follower's log never contradicts its master's
and has no holes, and its document is what its log makes of the empty one;
replays close gaps and end, also when masters change. A peer takes for its
master only who won an election, counts only votes cast for the election under
way, and one peer at most leads in a term; rounds end and a dead master is left.
An edit reported as done was done, and no more often than it was sent; every
command ends. A text arrives as it was typed, under a signature that was its
client's. `PROJECT.json` lists the hazards line by line.

## Modules

| Module | builds on | proofs |
|---|---|---|
| Replica | | ReplicaProofs |
| Replication | Replica, ReplicatedDocument (INSTANCE) | ReplicationProofs, CatchUpProofs |
| Cluster | Replica | ClusterProofs |
| Election | Mastership (INSTANCE) | ElectionProofs |
| ClientRequest | RequestService (INSTANCE) | ClientRequestProofs |
| Delivery | Wire | DeliveryProofs |

`Replica` holds what every replica does with an event; `Replication` and
`Cluster` are two systems of replicas. What one module leaves to another appears
in it as free choice: elections are `ChangeMaster` in `Cluster` and
`ClientRequest`, `Follow` and `StopFollowing` in `Replication`; log events are absent
from `Election`; orders of arrival from `Delivery`. So each is checked against
more than the others can do.

### Replica, Replication, ReplicatedDocument

`Replica` is `apply_event`, `put_in_log` and the log they work on. `Replication` is
the reign of one master (`Master`), which never changes and never crashes;
followers crash, restart, start following and lose sight of it.

| Variable | In the code |
|---|---|
| `document`, `log`, `last`, `buffer` | `document`, `logEvents`, `lastSequent`, `logEventsBuffer` |
| `resume` | the recursion of `apply_event` on a buffered event, as a loop of the server thread |
| `inbox`, `requests` | accept queues: log events at a follower, replay requests at the master |
| `threads` | per detached `request_all_replays`, the sequents it has still to ask for |
| `status` | the process runs, was killed, or ended by an uncaught exception |

`ClientRequest`, `HandleReplay`, the four outcomes of a received event
(`ReceiveEvent`, `RejectDuplicate`, `DropGarbled`, `Terminate`), `IgnoreEvent`,
`ApplyBuffered` and `SendReplay` are the handlers and threads. A handler is one
action because only the server thread of a peer touches these variables; the
multicast of a request is part of it, because a follower cannot tell in what
order the others were served. What the text of an event is made of is abstract:
an `Edit` is a type, a text and a count. The fields of an event whose
sequent has two digits are modelled by what the parser makes of them: an append
or a view ends the process (`stoi` of an empty signature), a delete of some
characters fails verification, and so does an append whose text can be read as
a port. The hash of a log event is computed and never compared, so it has no
state here. Nor have terms: under one master there is one.

A VIEW at the master is processed like an edit (`bftpeer.cpp:383` falls through,
though `:473` says views are "not logged"): it takes no sequent, is announced under
the sequent of the last edit, and may sit in a follower's buffer in place of that
edit. The properties say where this shows. At a master that has logged nothing the
sequent is -1, whose first character is no number, so every follower that gets it ends.

`ReplicatedDocument` is what replication promises, without messages, logs, buffers or
threads: a history of edits, which only grows (`Accept`); a follower performs it
from the start and in order (`Learn`), may perform again what it performed before
(`Repeat`), and may lose everything (`Lose`). `Replication` implements it with the
master's log as history and the sequents in a follower's log as what it knows.

### Cluster

Replicas whose master changes. Every peer keeps the one log it has, whoever it
takes for its master; any peer may be the master of some, of itself, or of nobody,
and several may lead at once. Over Replica it has `up`, `master` (`masterId.port`),
`inbox` (one queue per peer, of events and replay requests), `threads` with the
master each asks, and `pending`: a master applies a request, goes on with what its
buffer holds of a former master, and multicasts only then, under what is
`lastSequent` by that time (`bftpeer.cpp:494`). The code unicasts to one peer after
another and `Multicast` puts the event into all queues at once: with the two peers of
the run that is the same, and the invariant of the proofs speaks of each event by itself,
whatever the other queues hold. `issued` is history: for each edit
the sequent it was applied and the one it was announced under. Views and two-digit
sequents are left to Replication.

### Election, Mastership

Every peer, both threads. `elector[p]` is where the elector thread is: idle
between two passes of `startElector`, in a ping, between the test and the
write of `remain_follower`, in a poll (`at` the peer asked, `reply` what came
back), between winning and leading, or in an announcement. `inbox[p]` is the
accept queue of the server; the message under way stays at its head, and
`verdict[p]` is what the server decided about it but has not carried out.

A step runs from one socket call to the next. It is cut also where the code
writes to the console between a test of shared state and the write that test
guards, since that is where the other thread gets in: `Suspect`/`Stand`,
`Win`/`Lead`, and in the server `JudgeCandidate`/`Grant`, `Refuse` and
`JudgeMaster`/`Yield`, `DiscardMaster`. Finer interleavings (between two
adjacent stores such as lines 891 and 892) are left out; so is what a compiler
may do with unlocked loads.

A call is `live` as long as its caller waits. `NoAnswer` ends it when the callee
has died, or when the time is up (`MaxTimeouts`), and leaves the message in the
queue in the second case. A connection to a dead peer fails at once; to one
with a full accept queue it waits.

`Garbage` is what the uninitialised counter of `num_peers_alive` may start at,
chosen anew at every call. The configurations start it at zero or above; from below zero half
of the answers or fewer win, and `MajorityElects` fails by the very test of the code
(`bftpeer.cpp:878`). `FirstStamp` is what the uninitialised `lastMasterAnnounceSecs` looks
like: `old` (more than two seconds ago, or zeroed memory), `recent` or `future`. Times
are the abstract values `recent` and `old`, and `Expire` turns one into the other. Sleeps
are not modelled: the two threads and the peers interleave freely, and the order of the
three tests in `startElector` shows only in which of them finds its state first.

The peers in `Byzantine` have that topology: they answer a candidate at random
(`RandomVote`), start a pass in a random state (`RandomiseState`) and make
themselves candidate or leader (`ChangeState`). `MaxMeddling` bounds these changes
of state and the clients' forced elections together.

Signatures always verify between correct peers (Delivery checks that), so votes
are sets of voters and `verify_votes` counts them; an empty record passes it when
nobody is known to be alive. `granted` and `won` are history variables for the
properties. Client messages other than election requests do not touch this state
and are left out. Relaying a client's edit blocks the server thread of a follower
for up to the timeout; liveness of this module therefore speaks of a server that
is not relaying.

`Mastership` is what elections promise, without messages, votes, threads or clocks. They
are won at any time, by several peers and in the same term, for the code promises no
more (`election_split`); but only a winner leads or is followed (`Lead`, `Follow`), and
a peer follows into a term that was won and is no lower than its own. The one exception
is what the race of a demotion with the peer's own poll can do: back by one, from a term
it has itself just won. `Election` implements it with the port in `masterId` as
`follows`.

### ClientRequest, RequestService

The prompt, the client's loop over the peers, and the server threads that answer.
`queue[p]` is an accept queue of calls, `relay[p]` the call a follower's server
has passed on to its master and is blocked in, `opened[p]` the sockets it has accepted
and not closed. `client.tries` counts the failures `BftClient` counts. A peer's
`master` is arbitrary and changes at any time, so two peers may take each other for
master and relay in a circle.

`NoReply` and `RelayFails` end a call that waits, at any time, and leave what was
sent in the queue of the peer called. An answer reaches whoever still waits for it
(`Answer`). `BrokenPipe` is the second answer of a master to a view whose client has
hung up: a write to a reset connection raises SIGPIPE and ends the peer. A relay
passes on a buffer it never cleared: `NULL` may reach the client with what the stack
held behind it, and then does not compare equal to `NULL` (`PassedOn`): the client
shows the success of an edit that failed, so `SuccessWasApplied` is about the acknowledgement
itself. `RejectEdit` is an edit the master refuses, a deletion of more than there is or
an append of nothing but separators: it gets no answer. The client
tests the count of failures after a send that succeeded as well
(`bftclient.cpp:82`), so the success of its last send is reported as a timeout.

`RequestService` is what the client may rely on, without peers, relays, queues or
crashes: a command is sent while it is open, at most `N + 1` times; each sending allows
one application, also long after the command ended (`Apply`); and the client is told
"applied" only of a command that was. `ClientRequest` implements it, with the end of a
command mapped by `Told`.

### Wire, Delivery

`Wire` has `util.h` as operators on texts: marshalling and unmarshalling of messages,
log events and votes, sanitising, signing, verifying. A text is a sequence of words
and a word the sum of its characters: a separator, digit or letter is its own
code, a keyword such as `APND` the sum of four. Signatures are sums, so they verify or
fail as in the program. `stoi`, and a `substr` that is given an end for a length, are
modelled by what they read. Sums, numerals and filtering are recursive functions, so that
they can be proved about.

`Delivery` sends one message from the prompt over a relay to the master and, as a
log event, to a follower; or one announcement with its record of votes; or what a
Byzantine peer makes up or alters. Each process takes the text apart, verifies it, and
composes the next. The client sends no empty text and no `NULL`. A server reads once and
takes at most 1024 characters (`Read`, with a `Buffer` counted in words): from a longer
message it has a beginning. When that has all the separators, all five fields are in it;
when it lacks one, the loops of `unmarshal_message` go on behind the end of the string and
what comes of it is undefined: the fate is `overrun`, and nothing is claimed. `at` is the
process the text (`wire`) is on its way to, `origin` and `route` record what was sent first,
by whom and over whom, `doc` has the document from before and what master and follower made
of it, `fate` how it ended: `ignored` by a test of `startServer` or of a handler, `ended` by
an uncaught exception of `stoi` (`EndOnMessage`, `EndOnEdit`, `EndOnEvent`), `overrun`,
`rejected` by the master, `applied`, `deposed` (the master obeys the request for an
election), `counted`. `AsChar` is the assignment of a length to the
string of a type; a document whose length is a multiple of 256 makes the text start with
NUL, so nothing is sent.

### MCReplication, MCCluster, MCElection, MCDelivery

The constants of the configurations: edits and characters; what uninitialised
integers hold; the texts typed. No definition of a module is replaced.

### ReplicaProofs, ReplicationProofs, CatchUpProofs, ClusterProofs, ElectionProofs, ClientRequestProofs, DeliveryProofs, SequenceLemmas

The theorems, see below. `ReplicaProofs` has what the proofs about Replication and
Cluster share, `SequenceLemmas` facts about sequences, queues and least numbers that
all of them use.

## Runs

Every bound is a constant with its meaning at its declaration. Deadlock
checking is off everywhere: with the bounded requests, faults and terms used up
a system at rest is not an error.

| Run | Instance | Properties and what they show |
|---|---|---|
| `replication_safety` | master and one follower, 4 requests of all kinds, 1 fault, two-digit sequents from 3 on; 43,037 states | `TypeOK`; `LogsAgree`, `NoGaps`, `RepeatFreeIsPrefix`: whatever is lost, repeated, garbled or buffered, a log never contradicts the master's, has no holes and is a prefix unless an event was applied twice; `DocumentMatchesLog`; `QuietMeansCaughtUp`: when nothing failed, a follower at rest that repeated nothing has logged every edit it buffered (a buffered VIEW aside); `ImplementsDocument`: it implements ReplicatedDocument; `ReplaysEnd` |
| `cluster_changes` | 2 peers, 3 requests, 4 changes of master, 1 crash; 202,203 states | `NoGaps` and `DocumentMatchesLog` over changes of master; `LoggedAsIssued`: an edit is logged only under the sequent its master applied or announced it under; `ComesToRest`: messages and replay threads of former masters die out |
| `election_crash` | 2 peers, 2 terms, 1 crash, 1 timeout, `Garbage` {0, 2}; 1,791,907 states | `TypeOK` (an answer reaches only an elector that waits for one); `KnownMasterWon`, `TermsWereWon`; `TermsFallOnlyWhenOvertaken`; `ImplementsMastership`: both threads of every peer together do only what Mastership allows |
| `election_byzantine` | 2 peers, one of them Byzantine, 2 terms, 1 change of state or forced election, 1 timeout, any first stamp; 2,678,845 states | `VotesAreGenuine`: a vote that comes late, after a timeout, is not counted in the next round; no term is made up, and a correct peer is followed only if it won |
| `election_three` | 3 peers, 1 term, queues of one, `Garbage` {0, 2}; 3,028,710 states | `MajorityElects`: only votes that servers cast for this poll win it, and only more than half of the peers counted as up, whatever the count starts at; `KnownMasterWon`, `TermsWereWon` with competing candidates and a third voter |
| `election_liveness` | 2 peers, 1 crash, any first stamp, fair threads; 183,417 states | `RoundsEnd`; `DeadMasterLeft`: a dead master is left, except by a peer whose stamp lies ahead |
| `client_requests` | 2 peers, 1 command, 4 descriptors, 3 changes of master, 1 crash; 176,046 states | `SuccessWasApplied`, `EditsMultiplyBySends`: a retry or relay multiplies an edit only by the client's sends; `ImplementsService`: what the client sees is RequestService; `PromptReturns`, `RelaysEnd`: circles of relays, dead peers and exhausted descriptors included |
| `delivery_texts` | texts of up to 3 of `b 0 1 : $ %` (those of 3 with a separator second), some with the sum of the vandal's, `NULL`, and some about as long as the buffer, 115 words; no document, or one of 58 characters, the code of `:`; sequent 7, all ports; 76,472 states | `TypeOK` (a text on its way has the separators the parser's loops need, and only one longer than the buffer ends in an overrun); `PlainTextArrives`; `OnlyTypedText`: a document gets a beginning of the typed text, or the vandal's in place of one with the same sum; `FollowerDoesNoMore`: the follower makes of the event what the master made of the request, except that it does less of a text with `:`; `NoDeletionUnasked`, `FalseElectionFails`; `EveryVoteCounts`: the votes read back, each with those behind it, are those collected |

Why the bounds are enough. Followers of Replication do not interact, so one is
every one. Four requests give three sequents above the first, which is what
overlapping replays, a repeated old event and a buffered successor need; one
fault puts a crash or a loss of the master anywhere among them. `Radix = 3`
brings two-digit sequents into reach; 10 is the real one. In Cluster two peers
with four changes are each other's master in turn and at once, and three edits are
what a buffered event of a former master behind the first of a new one needs. In
Election two peers with a crash, a timeout and two terms have every race of an
elector with the servers; three peers are the first where a vote decides between
two others. `Backlog` stands for the accept queue (4096 on Linux). In ClientRequest
two peers that take each other for master are the smallest circle, one command is sent
up to `N + 1` times, and four descriptors run out within it. In Delivery three
characters give a separator before, between and behind other text. Every other message
fits in 115 words; of the long texts one fits as a request and not as a log event, one
fits neither way, and what is left of one still has all separators. `DeliveryProofs` has the
properties for texts and buffers of any size.

Each remaining run checks one statement the code makes of itself; TLC finds it
violated.

| Run | Property | What happens |
|---|---|---|
| `replication_once` | `AppliedOnce` | two replay threads ask for the same event, the second copy is applied too (`bftpeer.cpp:413`, "Must assume event is a duplicate") |
| `replication_eleventh` | `NoneTerminates` | sequent 10 is read as 1 and the rest of the event shifts; the server thread throws (`:401`) |
| `cluster_sequence` | `AnnouncedAsSequenced` | a new master that still buffers an event of its predecessor applies it behind its first edit and announces the edit under that event's number (`:494`) |
| `election_split` | `OneLeaderPerTerm` | two peers of three win the same term: one that has granted its vote stands itself in that term and counts its own vote, without a look at `voteInProgress` (`:828`) |

### Behaviour the models show and no run is about

- A `:` typed by a user: a follower applies less (an append cut short, a
  deletion of fewer characters), because the master announces the text it received and not
  the one it sanitised and applied (`bftpeer.cpp:499`), or ends. `FollowerDoesNoMore` is what
  holds. A `$`: the first peer ignores the message or ends, and the client's retry tries it on
  the next ones. `PlainTextArrives` therefore speaks of texts without the two.
- A text that outgrows the read's buffer loses its separators and the receiver reads behind
  its end (`overrun`). `PlainTextArrives` therefore speaks of messages that were read whole.
- A Byzantine relay that puts its own text in place of the user's keeps the signature, a sum
  modulo the port of the client: a text with the right sum is replaced (`Disguised`), and the
  master applies and logs the vandal's. When the request was a deletion the vandal's
  text has no count, and `stoi` ends the master (`EndOnEdit`).
- `FalseElectionFails` excepts port 4000: it alone has a key that is a multiple of
  the port of client 5000, in whose name the request is sent.
- A false deletion sent by a Byzantine master ends its followers (`stoi` of an empty
  signature); it deletes nothing.
- Between the elector's test of its state and the assignment of LEADER lies a console
  write (`:880`): a peer may lead although it has meanwhile followed a faster master.
- Two leaders never reconcile: a leader ignores every announcement, one of a higher term too
  (`:302`), and edits acknowledged by one are unknown to the other. Nothing in the code makes
  one yield, so no property can rely on it.
- A follower whose uninitialised stamp lies ahead (`:790`) never pings its first master, and
  stays with it when it dies. `DeadMasterLeft` is checked with such stamps and excepts exactly
  the peers that have one.

### Fairness

Weak fairness of each thread: the operating system runs a thread that can run. In
Replication and Cluster these are the servers and the replay threads; in Election
the elector, the server, and the clock (`Expire`); in ClientRequest the client and the
servers. There a call that waits ends in time, with an answer or without: `SO_RCVTIMEO`
is set to two seconds and taken to work, although a FIXME at `util.h:90` doubts that.
No fairness is assumed of clients that give commands, of faults, restarts, `Follow`,
`ChangeMaster`, timeouts in Election or Byzantine peers, and none that would make an
election succeed: that one does is not claimed, since `random_sleep` sleeps the same
time at every peer and candidates may collide for ever.

## Proofs

Every theorem assumes the `ConstantsAssumption` of its module only (`MajoritiesElect` also
a `Garbage` of naturals): it holds for every number of peers, and every value of the bounds,
that assumption allows. Each rests on an inductive invariant, which TLC checked on the runs'
instances before it was proved, and has one lemma per action.

### One master: ReplicationProofs, CatchUpProofs

For all sets of peers, edits and characters, any number of requests as long as
sequents have at most two digits, and any number of faults:

| Theorem | States |
|---|---|
| `TypeCorrect` | `Spec => []TypeOK` |
| `LogsNeverDisagree` | `Spec => []LogsAgree` |
| `LogsHaveNoGaps` | `Spec => []NoGaps` |
| `WithoutRepeatsPrefix` | `Spec => []RepeatFreeIsPrefix` |
| `DocumentsFollowLogs` | `Spec => []DocumentMatchesLog` |
| `ReplicationImplementsDocument` | `Spec => ImplementsDocument` |
| `RestMeansCaughtUp` | `Spec => []QuietMeansCaughtUp` |

The safety properties are not inductive: `lastSequent` falls back, buffers and queues
hold events for later. The inductive invariant `IInv` adds to `TypeOK`

- `MasterLog`: the master's log has sequent `i - 1` at place `i`,
  `last[Master]` is that of its last event, and it buffers and resumes nothing;
- `ReplicaOK(p)`: with an event the log of `p` holds every lower sequent (`Closed`),
  `last[p]` is in the log or -1 when the log is empty (`LastInLog`), and a log
  without repeats is in order; every logged event is the one the master logged
  under its sequent, every buffered one is that or a VIEW; what the recursion
  resumes on is in the buffer;
- `InboxGenuine`: an event on its way is the one the master logged under that
  sequent, or a VIEW, which is never logged.

`AppendKeepsLogOK` is the heart of the argument: an event at most one above `last[p]`
may be appended whatever was repeated before, since `last[p]` is in the log and the log
is closed, and appending it to a log without repeats either extends the order by one or
repeats something. `FollowerApplies` carries that through the three outcomes of
`apply_event`, for an event off the queue and off the buffer alike.

`DocumentsFollowLogs` needs `LastInLog`: the predecessor `put_in_log` looks up is always
found, so no event is performed and then not logged. `Replayed`, what a log makes of an
empty document, is a recursive function; a `Trace` is the function that its definition
chooses. That one exists, and that logs which agree on their first events make the same of
them, is shown by least counterexample (`NatSetMinimum`).

The refinement maps the initial state to the initial state and every step to a step
or a stutter. Only steps that call `apply_event`, and a crash, are visible: at the master
an edit enters the history; a crash is `Lose`; at a follower `NextUnknown` shows from
`IInv` that an event which passes the test of `apply_event` is either in the log
already (`Repeat`) or the first one that is not (`Learn`), and `LogsAgree` that it is
the edit the history has there.

`RestMeansCaughtUp` says that the detached replay threads ask for enough. Its invariant
adds, for a follower that lost and repeated nothing and has an edit ahead of it in the buffer
(one no VIEW was buffered before), `GapsClosed`: each lower sequent its log lacks is still
on the way (`Way`: in a thread, as a request, as an event queued) or buffered too, and
the recursion of `apply_event` is at the next one if that is buffered. Three more facts
keep it: a VIEW bears a sequent no lower than those of the events before it
(`ViewsLast`), since it would otherwise take the place of the edit asked for; a deletion the
master logged is possible for a follower that has performed just what precedes it
(`Performed`, `DeletionFits`, with the documents as above), so `apply_event` never refuses
the next event; and only one-digit sequents are buffered (`Sequents`), so what is lost as
garbled is not needed. At rest nothing is on the way, and the gap is empty.

### Masters that change: ClusterProofs

For any number of peers, changes of master and crashes, and up
to nine requests (`MaxRequests`, since sequents of the module have one digit):

| Theorem | States |
|---|---|
| `TypeCorrect` | `Spec => []TypeOK` |
| `LogsHaveNoGaps` | `Spec => []NoGaps` |
| `EditsLoggedAsIssued` | `Spec => []LoggedAsIssued` |
| `DocumentsFollowLogs` | `Spec => []DocumentMatchesLog` |

Its `IInv` says that every event, in a log, a buffer or a queue, carries an edit that was
issued and a sequent under which that was applied or announced (`Good`); that logs are in
shape (`LogOK`); and that an edit waits for its multicast at one peer only, in whose log
there is something, and has not been announced (`PendingOK`). The last is what makes a
multicast harmless for events already on their way: it gives an edit a number it did not
have and takes none away (`GoodAnnounce`). What is in whose log for which master plays no
part, so the argument holds over every change of master.

### Elections: ElectionProofs

For any number of peers, any of them Byzantine, and any values the uninitialised
integers may hold:

| Theorem | States |
|---|---|
| `TypeCorrect` | `Spec => []TypeOK` |
| `OnlyGenuineVotes` | `Spec => []VotesAreGenuine` |
| `MastersHaveWon` | `Spec => []KnownMasterWon` |
| `MajoritiesElect` | `Garbage \subseteq Nat` implies `Spec => []MajorityElects` |
| `TermsDecided` | `Spec => []TermsWereWon` |
| `TermsFallRarely` | `Spec => TermsFallOnlyWhenOvertaken` |
| `ElectionImplementsMastership` | `Spec => ImplementsMastership` |

The invariant ties the two threads of all peers together through the calls between them.
A live message is the only one of its sender, whose elector waits for an answer of just
the peer that has the message (`CallsOK`, `OneCall`); so the answer a candidate is about
to count was given to this poll (`VotesOK`), though the message of an earlier one that timed
out may still be answered. Who leads, is on the way to (`won`, `proclaim`, `announce`), is
named by a `masterId` or by an announcement in some queue has won or is Byzantine, and
the term of each was won (`Legitimate`). A verdict of the server is about the head of its
queue (`VerdictsOK`), so a demotion a console write later still adopts an announced term.
`MajoritiesElect` adds that the votes a winner holds stay granted: between `Win` and
`Lead` its peers can only grant it more, and the number it was tested against is at least that
of the peers up. It is the one theorem with an assumption about `Garbage`: a count that starts
below zero lets a minority win. What leaves a queue and what enters it are separate
lemmas (`CallsFade`, `CallsLeave`, `CallsArrive`; `MessagesFade`, `MessagesLeave`,
`MessagesArrive`), of which a handler's proof is put together.

The refinement of Mastership needs to know how far a peer can move between the verdict of
its server and the demotion that carries it out. `OvertakenOK` says it: a correct peer
with the verdict `overtaken` was a candidate in the term of the announcement; since then its
elector may have won the poll it was in, which puts it one term ahead, and have become
leader, and a leader does not stand again before the demotion. So the term it falls
back to is its own or the one before. A Byzantine peer may leave the lead by itself and
win once more, and is excepted. Winning, leading, following, leaving and crashing are the
visible steps; all others leave `won`, terms and ports alone.

That `granted` and `won` only record what the code did is visible in
Election; no guard reads them.

### Requests: ClientRequestProofs

For any number of peers, commands, descriptors, crashes and changes of master:

| Theorem | States |
|---|---|
| `TypeCorrect` | `Spec => []TypeOK` |
| `SuccessMeansApplied` | `Spec => []SuccessWasApplied` |
| `NoEditMultiplies` | `Spec => []EditsMultiplyBySends` |
| `RequestsImplementService` | `Spec => ImplementsService` |

`Exchange` says of queues, relays and the client that a live call is its caller's only
one and asks what the caller waits for, so that no answer meets a later command or
another relay; and that whoever holds an acknowledgement, a server that relayed included,
holds that of an applied edit (`AcknowledgedOK`). It is stated about queues, relays and a
client given as parameters, since a handler changes them in several moves that each keep
it: a call is taken (`TakeFirst`), relayed (`RelayStarts`, `PutLast`) and answered
(`RelayEnds`, `AnswerGiven`), or its caller hangs up (`HungUp`). `Budget` bounds the
applications of an edit and its copies under way by the sendings: every handler
applies a copy or passes on the one it took. Copies are pairs of a peer and a place in its
queue; that taking the head of a queue leaves one fewer is shown by an injection
(`CopiesTaken`).

The refinement of RequestService follows from the two: a copy that is applied is one of
the budget, so its sending allows it (`ApplyServes`); and the answer a client ends a
command on is that of a call of this very command (`Exchange`), so "applied" is
told of the right one. Relaying, hanging up, crashes and changes of master are
invisible.

### Texts: DeliveryProofs

For any texts a user may type, any documents there may be before and any size of a read's
buffer:

| Theorem | States |
|---|---|
| `TypeCorrect` | `Spec => []TypeOK` |
| `PlainTextIsDelivered` | `Spec => []PlainTextArrives` |
| `DocumentsHoldTypedText` | `Spec => []OnlyTypedText` |
| `DeletionsAreAsked` | `Spec => []NoDeletionUnasked` |
| `FalseElectionsFail` | `Spec => []FalseElectionFails` |

`PlainTextIsDelivered` does not promise that every plain text arrives: it does when none of
its three messages ends in an overrun, and `TypeCorrect` says that one does so only when it
is longer than the buffer.

The first half is about Wire. That a recursive function has the values of its definition, and
what they are, is shown by least counterexample once for each (`HornerExists`,
`KeptExists`, `NumeralExists`): a sum of a concatenation is the sum of the sums
(`SumOfConcat`), what `to_string` writes `stoi` reads (`ReadNumeral`), also before a
separator (`ReadJoinedNumeral`). `Join` puts a separator between two texts; where the
first separator of a joined text is (`SplitJoined`), and that joining is associative
(`Rejoin`), is what the rest builds on. So every marshalled message has
its three colons, its `$` and its last colon, whatever its fields hold (`MarshalWellFormed`);
fields without their own separator come back as they were (`UnmarshalClean`), and a body up to
its first `$` (`UnmarshalMarshalled`). A secret key is a multiple of the port it belongs to
(`KeyIsMultiple`), so what a process signs verifies (`SignVerifies`), and two texts verify
under one signature only if their sums agree modulo the port (`SameSum`).

The inductive invariant `Inv` says place by place which texts can be on their way, as they
were sent (`Sent`). A receiver has one read of them (`Received`), and takes the same fields
from it or none, for a beginning with all separators is taken apart as the whole text is
(`PrefixRead`, `ReadAsSent`), and what fits is readable (`ShortIsReadable`). `Inv` says:

- every one is five fields joined, or empty (`Shaped`);
- at a relay, the client's order as it was composed (`AtRelay`);
- at a master, that order as the relay read it, or what a Byzantine relay can make of it,
  which is of no type the master serves (`AlteredType`) or has the vandal's body under the
  signature of a body that was accepted (`AlteredBody`), or the false request for an election
  of a Byzantine peer (`AtMaster`);
- at a follower, an event about what the master has done to its own document (`Done`), or
  the deletion that bears no signature (`AtFollower`).

It is what makes the properties inductive: the follower rebuilds the client's message from an
event whose term, port and signature are those of the order (`LoggedIsRead`,
`PlainAtFollower`), and reads of any text at most a beginning (`EventIsRead`), of the false
deletion an empty signature, on which `stoi` throws. No character is the code of a type
(`NoCharacterIsAType`), so the altered type deletes nothing.

### Only model-checked

Liveness: `ReplaysEnd`, `ComesToRest`, `RoundsEnd`, `DeadMasterLeft`, `PromptReturns` and
`RelaysEnd`. They need fairness, and with it ENABLED, which the
prover does not handle. `FollowerDoesNoMore` is an invariant no theorem states;
`OnlyTypedText` and `PlainTextIsDelivered` bound what a follower can make of an event.
`EveryVoteCounts` is about records with fixed ports in two terms, and
independent of the constants: TLC has seen every record of the module, and a proof
would be that computation again. The four violated statements are counterexamples, on an
instance by nature.

## Not modelled

- The peer window is a stub nothing uses; build scripts and checked-in build output
  have no behaviour; the checks of the command line's arguments keep no state.
- `update_alive` and `compose_message_event` are called by nothing. The hash chain of
  the log is computed and never read.
- A TCP read may return less than was sent although the rest would fit; a read of
  Delivery stops only at the buffer's end. What the parser's loops make of the memory behind
  a text without its separators is undefined and ends the model (`overrun`). The 1024-byte
  buffers for replies at the client and the relay are left out; only the answer to a view
  can be as long.
- Characters beyond ASCII, whose codes are negative in a signed `char` (sums of user texts
  are of naturals), numbers typed with a sign or behind a space, and counts beyond an `int`, on
  which `stoi` throws as well.
- A Byzantine relay alters the message (Delivery) and tells the client that all went well
  whatever the master does with it (`bftpeer.cpp:536`); ClientRequest has no such relay, and
  its `SuccessWasApplied` speaks of correct ones.
- That a restarted leader's old followers may be left without one needs three peers, a
  restart and fairness, more than TLC decides in Election.

## What is left

Larger instances: a third peer in Cluster with one crash, and liveness of Election with
three peers. Every invariant and action property but `EveryVoteCounts` and
`FollowerDoesNoMore` is proved, and so are the three refinements.
