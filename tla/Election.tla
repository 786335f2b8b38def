------------------------------ MODULE Election ------------------------------
(***************************************************************************)
(* Elections among the peers.  Every peer runs two threads on the same     *)
(* unlocked state: the elector (startElector), which suspects the master,  *)
(* asks every other peer for its vote and announces itself, and the server *)
(* (startServer), which answers one message of its accept queue at a time. *)
(* A step runs from one call to another peer to the next, and is cut at    *)
(* the writes to the console that part a test of the shared state from the *)
(* write it guards: Suspect / Stand, Win / Lead and Judge / Carry out.     *)
(***************************************************************************)
EXTENDS Integers, Sequences, FiniteSets

CONSTANTS
    N,            \* the number of peers; a peer is its place in the port range
    Garbage,      \* what the uninitialised count of num_peers_alive may start at
    FirstStamp,   \* what the uninitialised lastMasterAnnounceSecs may look like
    MaxTerm,      \* bound: the term of the last election
    Backlog,      \* bound: messages in an accept queue (SOMAXCONN)
    MaxCrashes,   \* bound: processes killed
    Byzantine,    \* the peers whose topology is BYZANTINE
    MaxMeddling,  \* bound: clients' election requests, Byzantine peers' changes of state
    MaxTimeouts   \* bound: calls that time out although the peer is up

Peer == 1 .. N
Stamps == {"old", "recent", "future"}

ASSUME ConstantsAssumption ==
    /\ N \in Nat \ {0}
    /\ Garbage \subseteq Int
    /\ FirstStamp \subseteq Stamps
    /\ MaxTerm \in Nat
    /\ Backlog \in Nat \ {0}
    /\ MaxCrashes \in Nat
    /\ Byzantine \subseteq Peer
    /\ MaxMeddling \in Nat
    /\ MaxTimeouts \in Nat

VARIABLES
    up,        \* up[p]: the process of p runs
    state,     \* state[p]
    term,      \* term[p]
    master,    \* master[p]: masterId; port 0 is no master
    voting,    \* voting[p]: voteInProgress
    alive,     \* alive[p]: the connectedPeers whose up is set
    votes,     \* votes[p]: the voters in masterVoteRecord
    stamp,     \* stamp[p]: lastMasterAnnounceSecs against the clock
    elector,   \* elector[p]: where p's elector thread is, see ElectorState
    inbox,     \* inbox[p]: p's accept queue, the message under way at its head
    verdict,   \* verdict[p]: what p's server decided on the message under way
    granted,   \* granted[p]: who answered yes to p's request (history)
    won,       \* the elections won so far (history)
    crashes, meddling, timeouts  \* counters for the bounds

sharedVars == <<state, term, master, voting, stamp>>
tallyVars == <<alive, votes>>
historyVars == <<granted, won>>
boundVars == <<crashes, meddling, timeouts>>
queueVars == <<inbox, verdict>>
vars == <<up, sharedVars, tallyVars, elector, queueVars, historyVars, boundVars>>

States == {"FOLLOWER", "CANDIDATE", "LEADER"}
NoMaster == [port |-> 0, up |-> FALSE]
Message == [type : {"PING", "CAND", "MSTR", "ELCT"}, from : 0 .. N, term : Nat,
            votes : Nat, live : BOOLEAN]

\* at: the peer addressed, in port order; req: the term in the message composed
\* for the round; reply: the answer of the call under way, "none" without one.
ElectorState ==
    [pc : {"idle", "ping", "suspect", "poll", "won", "announce", "proclaim"},
     at : 0 .. N + 1, req : Nat, reply : {"none", "wait", "yes", "no", "pong"}]

Verdicts == {"none", "grant", "refuse", "discard", "overtaken"}

Idle == [pc |-> "idle", at |-> 0, req |-> 0, reply |-> "none"]

\* The next peer of a loop over connectedPeers that skips p itself.
Following(p, i) == IF i + 1 = p THEN i + 2 ELSE i + 1

-----------------------------------------------------------------------------
(* Calls: the elector's thread connects, sends and waits for the answer.   *)
(* A message is live as long as its sender waits for the answer.           *)

Put(q, m) == inbox' = [inbox EXCEPT ![q] = Append(@, m)]
HasRoom(q) == Len(inbox[q]) < Backlog

IsCall(m, p) == m.live /\ m.from = p

\* The callee is gone, and the call with it.
CallLost(p) == \A q \in Peer : \A i \in DOMAIN inbox[q] : ~ IsCall(inbox[q][i], p)

HangUp(p) ==
    inbox' = [q \in Peer |->
                [i \in DOMAIN inbox[q] |->
                    IF IsCall(inbox[q][i], p) THEN [inbox[q][i] EXCEPT !.live = FALSE]
                                              ELSE inbox[q][i]]]

\* recv ends without an answer: the callee died, or the time is up.
\* Mutant: recv waits until its time is up, and a dead callee is not noticed.
NoAnswerButTimeout(p) ==
    /\ elector[p].reply = "wait"
    /\ timeouts < MaxTimeouts
    /\ timeouts' = timeouts + 1
    /\ HangUp(p)

NoAnswer(p) ==
    /\ elector[p].reply = "wait"
    /\ \/ /\ CallLost(p)
          /\ UNCHANGED <<inbox, timeouts>>
       \/ /\ ~ CallLost(p)
          /\ timeouts < MaxTimeouts
          /\ timeouts' = timeouts + 1
          /\ HangUp(p)

-----------------------------------------------------------------------------
(* The elector as a follower: remain_follower.                             *)

GiveUpMaster(p) ==
    /\ master' = [master EXCEPT ![p] = NoMaster]
    /\ elector' = [elector EXCEPT ![p] = [Idle EXCEPT !.pc = "suspect"]]

Suspect(p) ==
    /\ elector[p] = Idle
    /\ state[p] = "FOLLOWER" /\ ~ master[p].up
    /\ GiveUpMaster(p)
    /\ UNCHANGED <<up, state, term, voting, stamp, tallyVars, queueVars, historyVars, boundVars>>

\* A connection that fails is a call without an answer.
SendPing(p) ==
    /\ elector[p] = Idle
    /\ state[p] = "FOLLOWER" /\ master[p].up
    /\ stamp[p] = "old"
    /\ LET q == master[p].port
       IN  /\ IF q # 0 /\ up[q]
              THEN /\ HasRoom(q)
                   /\ Put(q, [type |-> "PING", from |-> p, term |-> 0, votes |-> 0,
                              live |-> TRUE])
              ELSE UNCHANGED inbox
           /\ elector' = [elector EXCEPT
                ![p] = [pc |-> "ping", at |-> q, req |-> 0, reply |-> "wait"]]
    /\ UNCHANGED <<up, sharedVars, tallyVars, verdict, historyVars, boundVars>>

\* The answer confirms whatever master p has by now.
Pong(p) ==
    /\ elector[p].pc = "ping" /\ elector[p].reply = "pong"
    /\ master' = [master EXCEPT ![p].up = TRUE]
    /\ elector' = [elector EXCEPT ![p] = Idle]
    /\ UNCHANGED <<up, state, term, voting, stamp, tallyVars, queueVars, historyVars, boundVars>>

\* Mutant: a master that does not answer is pinged again.
NoPongRetry(p) ==
    /\ elector[p].pc = "ping"
    /\ NoAnswer(p)
    /\ elector' = [elector EXCEPT ![p] = Idle]
    /\ UNCHANGED <<up, sharedVars, tallyVars, verdict, historyVars, crashes, meddling>>

NoPong(p) ==
    /\ elector[p].pc = "ping"
    /\ NoAnswer(p)
    /\ GiveUpMaster(p)
    /\ UNCHANGED <<up, state, term, voting, stamp, tallyVars, verdict, historyVars,
                   crashes, meddling>>

\* After "Master is suspected down" is written.
Stand(p) ==
    /\ elector[p].pc = "suspect"
    /\ state' = [state EXCEPT ![p] = "CANDIDATE"]
    /\ elector' = [elector EXCEPT ![p] = Idle]
    /\ UNCHANGED <<up, term, master, voting, stamp, tallyVars, queueVars, historyVars, boundVars>>

-----------------------------------------------------------------------------
(* The elector of a Byzantine peer.                                        *)

Meddle(p) ==
    /\ p \in Byzantine
    /\ meddling < MaxMeddling
    /\ meddling' = meddling + 1
    /\ UNCHANGED <<up, term, voting, tallyVars, queueVars, historyVars, crashes, timeouts>>

\* byzantine_action: "Randomising state".
RandomiseState(p) ==
    /\ elector[p] = Idle
    /\ Meddle(p)
    /\ \/ /\ state' = [state EXCEPT ![p] = "LEADER"]
          /\ master' = [master EXCEPT ![p].port = p]
          /\ UNCHANGED stamp
       \/ /\ state' = [state EXCEPT ![p] = "FOLLOWER"]
          /\ UNCHANGED <<master, stamp>>
       \/ /\ state' = [state EXCEPT ![p] = "CANDIDATE"]
          /\ master' = [master EXCEPT ![p].up = FALSE]
          /\ stamp' = [stamp EXCEPT ![p] = "old"]
    /\ UNCHANGED elector

\* The end of remain_follower: whether the master was found up or not, the peer
\* makes itself a candidate or the leader.
ChangeState(p) ==
    /\ \/ elector[p] = Idle /\ state[p] = "FOLLOWER" /\ master[p].up
       \/ elector[p].pc = "suspect"
    /\ Meddle(p)
    /\ state' \in {[state EXCEPT ![p] = s] : s \in {"CANDIDATE", "LEADER"}}
    /\ elector' = [elector EXCEPT ![p] = Idle]
    /\ UNCHANGED <<master, stamp>>

-----------------------------------------------------------------------------
(* The elector as a candidate: initiate_election.                          *)

\* p votes for itself and composes its request.
Begin(p) ==
    /\ elector[p] = Idle
    /\ state[p] = "CANDIDATE"
    /\ term[p] < MaxTerm
    /\ voting' = [voting EXCEPT ![p] = TRUE]
    /\ votes' = [votes EXCEPT ![p] = {p}]
    /\ granted' = [granted EXCEPT ![p] = {}]
    /\ elector' = [elector EXCEPT ![p] =
            [pc |-> "poll", at |-> Following(p, 0), req |-> term[p] + 1, reply |-> "none"]]
    /\ UNCHANGED <<up, state, term, master, stamp, alive, queueVars, won, boundVars>>

Polls(p) == elector[p].pc = "poll" /\ elector[p].at \in Peer
Advance(p) == elector' = [elector EXCEPT ![p].at = Following(p, @), ![p].reply = "none"]

Ask(p) ==
    /\ Polls(p) /\ elector[p].reply = "none"
    /\ LET q == elector[p].at
       IN  /\ up[q] /\ HasRoom(q)
           /\ Put(q, [type |-> "CAND", from |-> p, term |-> elector[p].req,
                      votes |-> 0, live |-> TRUE])
    /\ elector' = [elector EXCEPT ![p].reply = "wait"]
    /\ UNCHANGED <<up, sharedVars, tallyVars, verdict, historyVars, boundVars>>

\* Mutant: whoever answers at all is recorded as a yes.
CountAnyAnswer(p) ==
    /\ Polls(p) /\ elector[p].reply \in {"yes", "no"}
    /\ alive' = [alive EXCEPT ![p] = @ \cup {elector[p].at}]
    /\ votes' = [votes EXCEPT ![p] = @ \cup {elector[p].at}]
    /\ Advance(p)
    /\ UNCHANGED <<up, sharedVars, queueVars, historyVars, boundVars>>

CountVote(p) ==
    /\ Polls(p) /\ elector[p].reply \in {"yes", "no"}
    /\ LET q == elector[p].at
       IN  /\ alive' = [alive EXCEPT ![p] = @ \cup {q}]
           /\ votes' = IF elector[p].reply = "yes"
                       THEN [votes EXCEPT ![p] = @ \cup {q}] ELSE votes
    /\ Advance(p)
    /\ UNCHANGED <<up, sharedVars, queueVars, historyVars, boundVars>>

NoVote(p) ==
    /\ Polls(p)
    /\ \/ /\ elector[p].reply = "none" /\ ~ up[elector[p].at]
          /\ UNCHANGED <<inbox, timeouts>>
       \/ NoAnswer(p)
    /\ alive' = [alive EXCEPT ![p] = @ \ {elector[p].at}]
    /\ Advance(p)
    /\ UNCHANGED <<up, sharedVars, votes, verdict, historyVars, crashes, meddling>>

\* num_peers_alive counts up from an uninitialised integer.
AliveCounts(p) == {g + Cardinality(alive[p]) : g \in Garbage}

Polled(p) == elector[p].pc = "poll" /\ elector[p].at = N + 1
Enough(p) == \E n \in AliveCounts(p) : 2 * Cardinality(votes[p]) > n
NotEnough(p) == \E n \in AliveCounts(p) : 2 * Cardinality(votes[p]) <= n

Win(p) ==
    /\ Polled(p) /\ Enough(p) /\ state[p] = "CANDIDATE"
    /\ term' = [term EXCEPT ![p] = @ + 1]
    /\ won' = won \cup {[peer |-> p, term |-> term[p] + 1]}
    /\ elector' = [elector EXCEPT ![p].pc = "won"]
    /\ UNCHANGED <<up, state, master, voting, stamp, tallyVars, queueVars, granted, boundVars>>

\* Not enough votes, or the state changed during the vote.
GiveUp(p) ==
    /\ Polled(p)
    /\ NotEnough(p) \/ state[p] # "CANDIDATE"
    /\ voting' = [voting EXCEPT ![p] = FALSE]
    /\ elector' = [elector EXCEPT ![p] = Idle]
    /\ UNCHANGED <<up, state, term, master, stamp, tallyVars, queueVars, historyVars, boundVars>>

\* After "Candidacy succeeded" is written.
Lead(p) ==
    /\ elector[p].pc = "won"
    /\ state' = [state EXCEPT ![p] = "LEADER"]
    /\ master' = [master EXCEPT ![p] = [port |-> p, up |-> TRUE]]
    /\ elector' = [elector EXCEPT ![p] =
            [pc |-> "proclaim", at |-> Following(p, 0), req |-> term[p], reply |-> "none"]]
    /\ UNCHANGED <<up, term, voting, stamp, tallyVars, queueVars, historyVars, boundVars>>

-----------------------------------------------------------------------------
(* The elector as the leader: remain_master, announce_master.              *)

\* Mutant: a candidate announces itself too.
RemainMasterOrRun(p) ==
    /\ elector[p] = Idle
    /\ state[p] # "FOLLOWER"
    /\ elector' = [elector EXCEPT ![p] =
            [pc |-> "announce", at |-> Following(p, 0), req |-> term[p], reply |-> "none"]]
    /\ UNCHANGED <<up, sharedVars, tallyVars, queueVars, historyVars, boundVars>>

RemainMaster(p) ==
    /\ elector[p] = Idle
    /\ state[p] = "LEADER"
    /\ elector' = [elector EXCEPT ![p] =
            [pc |-> "announce", at |-> Following(p, 0), req |-> term[p], reply |-> "none"]]
    /\ UNCHANGED <<up, sharedVars, tallyVars, queueVars, historyVars, boundVars>>

Announces(p) == elector[p].pc \in {"announce", "proclaim"}

Announce(p) ==
    /\ Announces(p) /\ elector[p].at \in Peer
    /\ LET q == elector[p].at
       IN  IF up[q]
           THEN /\ HasRoom(q)
                /\ Put(q, [type |-> "MSTR", from |-> p, term |-> elector[p].req,
                           votes |-> Cardinality(votes[p]), live |-> FALSE])
           ELSE UNCHANGED inbox
    /\ Advance(p)
    /\ UNCHANGED <<up, sharedVars, tallyVars, verdict, historyVars, boundVars>>

\* initiate_election ends after the announcement; remain_master just ends.
Announced(p) ==
    /\ Announces(p) /\ elector[p].at = N + 1
    /\ voting' = IF elector[p].pc = "proclaim" THEN [voting EXCEPT ![p] = FALSE] ELSE voting
    /\ elector' = [elector EXCEPT ![p] = Idle]
    /\ UNCHANGED <<up, state, term, master, stamp, tallyVars, queueVars, historyVars, boundVars>>

-----------------------------------------------------------------------------
(* The server: handle_message.                                             *)

\* A message from the known master re-confirms it, before anything else.
Confirmed(p, m) == IF m.from = master[p].port THEN [master[p] EXCEPT !.up = TRUE] ELSE master[p]
Confirm(p, m) == master' = [master EXCEPT ![p] = Confirmed(p, m)]

\* Mutant: the answer is taken for one to whatever the caller now waits for.
ReplyAnyway(m, answer) == elector' = [elector EXCEPT ![m.from].reply = answer]

Reply(m, answer) ==
    elector' = IF m.live THEN [elector EXCEPT ![m.from].reply = answer] ELSE elector

Done(p) == inbox' = [inbox EXCEPT ![p] = Tail(@)] /\ verdict' = [verdict EXCEPT ![p] = "none"]

Decide(p, v) ==
    /\ verdict' = [verdict EXCEPT ![p] = v]
    /\ UNCHANGED <<state, term, voting, stamp, elector, inbox, granted>>

AnswerPing(p, m) ==
    /\ m.type = "PING"
    /\ Confirm(p, m)
    /\ Reply(m, "pong")
    /\ Done(p)
    /\ UNCHANGED <<state, term, voting, stamp, granted>>

\* handle_message_candidate: p follows a master it believes up, has promised
\* its vote already, is asked for a stale term, or supports the request.
RefuseBusy(p, m) ==
    /\ m.type = "CAND"
    /\ ~ Confirmed(p, m).up /\ voting[p]
    /\ Confirm(p, m)
    /\ Reply(m, "no")
    /\ Done(p)
    /\ UNCHANGED <<state, term, voting, stamp, granted>>

JudgeCandidate(p, m) ==
    /\ m.type = "CAND"
    /\ Confirmed(p, m).up \/ ~ voting[p]
    /\ Confirm(p, m)
    /\ Decide(p, IF Confirmed(p, m).up \/ m.term <= term[p] THEN "refuse" ELSE "grant")

\* Mutant: the voter moves on to the term it votes for.
GrantAdopting(p, m) ==
    /\ verdict[p] = "grant"
    /\ voting' = [voting EXCEPT ![p] = TRUE]
    /\ term' = [term EXCEPT ![p] = m.term]
    /\ granted' = IF m.live THEN [granted EXCEPT ![m.from] = @ \cup {p}] ELSE granted
    /\ Reply(m, "yes")
    /\ Done(p)
    /\ UNCHANGED <<state, master, stamp>>

Grant(p, m) ==
    /\ verdict[p] = "grant"
    /\ voting' = [voting EXCEPT ![p] = TRUE]
    /\ granted' = IF m.live THEN [granted EXCEPT ![m.from] = @ \cup {p}] ELSE granted
    /\ Reply(m, "yes")
    /\ Done(p)
    /\ UNCHANGED <<state, term, master, stamp>>

Refuse(p, m) ==
    /\ verdict[p] = "refuse"
    /\ voting' = [voting EXCEPT ![p] = FALSE]
    /\ Reply(m, "no")
    /\ Done(p)
    /\ UNCHANGED <<state, term, master, stamp, granted>>

\* handle_message_master, from the master p knows.
HearMaster(p, m) ==
    /\ m.type = "MSTR" /\ m.from = master[p].port
    /\ Confirm(p, m)
    /\ stamp' = [stamp EXCEPT ![p] = "recent"]
    /\ Done(p)
    /\ UNCHANGED <<state, term, voting, elector, granted>>

\* handle_message_master, from another peer: the votes are counted against the
\* peers p believes alive, and the announcement must not be of an older term.
Verified(p, m) == \E n \in AliveCounts(p) : 2 * m.votes >= n
Unverified(p, m) == \E n \in AliveCounts(p) : 2 * m.votes < n
Overtaken(p, m) == m.term = term[p] /\ state[p] = "CANDIDATE"

Follow(p, m) ==
    /\ voting' = [voting EXCEPT ![p] = FALSE]
    /\ term' = [term EXCEPT ![p] = m.term]
    /\ master' = [master EXCEPT ![p] = [port |-> m.from, up |-> TRUE]]
    /\ state' = [state EXCEPT ![p] = "FOLLOWER"]
    /\ Done(p)
    /\ UNCHANGED <<stamp, elector, granted>>

JudgeMaster(p, m) ==
    /\ m.type = "MSTR" /\ m.from # master[p].port
    /\ \/ /\ Unverified(p, m) \/ m.term < term[p]
          /\ Decide(p, "discard")
       \/ /\ Verified(p, m) /\ Overtaken(p, m)
          /\ Decide(p, "overtaken")
    /\ UNCHANGED master

\* Mutant: the term of the announcement is not looked at.
AcceptMasterStale(p, m) ==
    /\ m.type = "MSTR" /\ m.from # master[p].port
    /\ Verified(p, m) /\ ~ Overtaken(p, m)
    /\ master[p].port # p /\ ~ master[p].up
    /\ Follow(p, m)

AcceptMaster(p, m) ==
    /\ m.type = "MSTR" /\ m.from # master[p].port
    /\ Verified(p, m) /\ m.term >= term[p] /\ ~ Overtaken(p, m)
    /\ master[p].port # p /\ ~ master[p].up
    /\ Follow(p, m)

Yield(p, m) == verdict[p] = "overtaken" /\ Follow(p, m)

\* Illegitimate or outdated: the vote in progress is forgotten all the same.
DiscardMaster(p, m) ==
    /\ verdict[p] = "discard"
    /\ voting' = [voting EXCEPT ![p] = FALSE]
    /\ Done(p)
    /\ UNCHANGED <<state, term, master, stamp, elector, granted>>

IgnoreMaster(p, m) ==
    /\ m.type = "MSTR" /\ m.from # master[p].port
    /\ Verified(p, m) /\ m.term >= term[p] /\ ~ Overtaken(p, m)
    /\ master[p].port = p \/ master[p].up
    /\ Done(p)
    /\ UNCHANGED <<sharedVars, elector, granted>>

\* process_client_elect_request.
ObeyClient(p, m) ==
    /\ m.type = "ELCT"
    /\ master' = [master EXCEPT ![p] = NoMaster]
    /\ state' = [state EXCEPT ![p] = "CANDIDATE"]
    /\ Done(p)
    /\ UNCHANGED <<term, voting, stamp, elector, granted>>

\* A Byzantine peer answers a candidate as it likes and keeps no promise.
RandomVote(p, m) ==
    /\ p \in Byzantine
    /\ m.type = "CAND"
    /\ Confirm(p, m)
    /\ \E answer \in {"yes", "no"} :
        /\ Reply(m, answer)
        /\ granted' = IF m.live /\ answer = "yes"
                      THEN [granted EXCEPT ![m.from] = @ \cup {p}] ELSE granted
    /\ Done(p)
    /\ UNCHANGED <<state, term, voting, stamp>>

Judge(p, m) ==
    /\ verdict[p] = "none"
    /\ \/ AnswerPing(p, m)
       \/ RefuseBusy(p, m)
       \/ JudgeCandidate(p, m)
       \/ RandomVote(p, m)
       \/ HearMaster(p, m)
       \/ JudgeMaster(p, m)
       \/ AcceptMaster(p, m)
       \/ IgnoreMaster(p, m)
       \/ ObeyClient(p, m)

CarryOut(p, m) == Grant(p, m) \/ Refuse(p, m) \/ Yield(p, m) \/ DiscardMaster(p, m)

Server(p) ==
    /\ inbox[p] # <<>>
    /\ Judge(p, Head(inbox[p])) \/ CarryOut(p, Head(inbox[p]))
    /\ UNCHANGED <<up, tallyVars, won, boundVars>>

-----------------------------------------------------------------------------
(* Clients, clocks and processes.                                          *)

\* A client, or a Byzantine peer that poses as one, asks p for an election.
ForceElection(p) ==
    /\ meddling < MaxMeddling
    /\ up[p] /\ HasRoom(p)
    /\ meddling' = meddling + 1
    /\ Put(p, [type |-> "ELCT", from |-> 0, term |-> 0, votes |-> 0, live |-> FALSE])
    /\ UNCHANGED <<up, sharedVars, tallyVars, elector, verdict, historyVars, crashes, timeouts>>

\* _LONG_TIMEOUT passes since the last announcement.
Expire(p) ==
    /\ stamp[p] = "recent"
    /\ stamp' = [stamp EXCEPT ![p] = "old"]
    /\ UNCHANGED <<up, state, term, master, voting, tallyVars, elector, queueVars,
                   historyVars, boundVars>>

\* Everything is lost with the process: nothing is persisted.  What waits for
\* an answer in its queue, and what it waits for, is disconnected.
Crash(p) ==
    /\ crashes < MaxCrashes
    /\ up[p]
    /\ crashes' = crashes + 1
    /\ up' = [up EXCEPT ![p] = FALSE]
    /\ inbox' = [q \in Peer |-> IF q = p THEN <<>> ELSE
                   [i \in DOMAIN inbox[q] |->
                     IF IsCall(inbox[q][i], p) THEN [inbox[q][i] EXCEPT !.live = FALSE]
                                               ELSE inbox[q][i]]]
    /\ state' = [state EXCEPT ![p] = "FOLLOWER"]
    /\ term' = [term EXCEPT ![p] = 0]
    /\ master' = [master EXCEPT ![p] = NoMaster]
    /\ voting' = [voting EXCEPT ![p] = FALSE]
    /\ alive' = [alive EXCEPT ![p] = {}]
    /\ votes' = [votes EXCEPT ![p] = {}]
    /\ granted' = [granted EXCEPT ![p] = {}]
    /\ stamp' \in {[stamp EXCEPT ![p] = s] : s \in FirstStamp}
    /\ elector' = [elector EXCEPT ![p] = Idle]
    /\ verdict' = [verdict EXCEPT ![p] = "none"]
    /\ UNCHANGED <<won, meddling, timeouts>>

Restart(p) ==
    /\ ~ up[p]
    /\ up' = [up EXCEPT ![p] = TRUE]
    /\ UNCHANGED <<sharedVars, tallyVars, elector, queueVars, historyVars, boundVars>>

-----------------------------------------------------------------------------
Init ==
    /\ up = [p \in Peer |-> TRUE]
    /\ state = [p \in Peer |-> "FOLLOWER"]
    /\ term = [p \in Peer |-> 0]
    /\ master = [p \in Peer |-> NoMaster]
    /\ voting = [p \in Peer |-> FALSE]
    /\ alive = [p \in Peer |-> {}]
    /\ votes = [p \in Peer |-> {}]
    /\ stamp \in [Peer -> FirstStamp]
    /\ elector = [p \in Peer |-> Idle]
    /\ inbox = [p \in Peer |-> <<>>]
    /\ verdict = [p \in Peer |-> "none"]
    /\ granted = [p \in Peer |-> {}]
    /\ won = {}
    /\ crashes = 0 /\ meddling = 0 /\ timeouts = 0

\* One pass of the loop of startElector, step by step; a call under way waits.
Elector(p) ==
    /\ up[p]
    /\ \/ Suspect(p) \/ SendPing(p) \/ Pong(p) \/ NoPong(p) \/ Stand(p)
       \/ Begin(p) \/ Ask(p) \/ CountVote(p) \/ NoVote(p)
       \/ Win(p) \/ GiveUp(p) \/ Lead(p)
       \/ RemainMaster(p) \/ Announce(p) \/ Announced(p)

\* No more than chance makes a Byzantine peer meddle.
ByzantineElector(p) == up[p] /\ (RandomiseState(p) \/ ChangeState(p))

Next ==
    \E p \in Peer :
        \/ Elector(p)
        \/ ByzantineElector(p)
        \/ Server(p)
        \/ ForceElection(p)
        \/ Expire(p)
        \/ Crash(p)
        \/ Restart(p)

Spec == Init /\ [][Next]_vars

FairSpec ==
    /\ Spec
    /\ \A p \in Peer : /\ WF_vars(Elector(p))
                       /\ WF_vars(Server(p))
                       /\ WF_vars(Expire(p))

-----------------------------------------------------------------------------
(* Properties.                                                             *)

\* Types, and two facts about calls: an answer is only ever delivered to an
\* elector that waits for one, and a verdict is about a message under way.
TypeOK ==
    /\ up \in [Peer -> BOOLEAN]
    /\ state \in [Peer -> States]
    /\ term \in [Peer -> Nat]
    /\ master \in [Peer -> [port : 0 .. N, up : BOOLEAN]]
    /\ voting \in [Peer -> BOOLEAN]
    /\ alive \in [Peer -> SUBSET Peer] /\ votes \in [Peer -> SUBSET Peer]
    /\ stamp \in [Peer -> Stamps]
    /\ \A p \in Peer :
        /\ elector[p] \in ElectorState
        /\ elector[p].reply # "none" => elector[p].pc \in {"ping", "poll"}
        /\ \A i \in DOMAIN inbox[p] : inbox[p][i] \in Message
        /\ verdict[p] \in Verdicts
        /\ verdict[p] # "none" => inbox[p] # <<>>

\* A vote counted during a poll was cast by that voter in answer to that
\* poll: no answer that comes late, after a timeout or to an earlier round of
\* the same candidate, is taken for the answer of the peer asked next.
VotesAreGenuine ==
    \A p \in Peer : elector[p].pc = "poll" => votes[p] \ {p} \subseteq granted[p]

\* A poll is won only with the candidate's own vote and those that servers have cast
\* for it in this very poll, and only if these are more than half of the peers it
\* considers up: a count that starts too high, which is possible since it is not
\* initialised (745), loses polls and wins none.
MajorityElects ==
    \A p \in Peer :
        elector[p].pc = "won" =>
            2 * Cardinality(granted[p] \cup {p}) > Cardinality(alive[p])

\* Whoever a peer takes for its master has won an election, whatever its
\* elector and server do to masterId at the same time; unless it is Byzantine,
\* for such a peer leads when it likes.
KnownMasterWon ==
    \A p \in Peer :
        master[p].port \notin Byzantine \cup {0} =>
            \E w \in won : w.peer = master[p].port

\* A peer is in term t only if an election of term t was won: terms that are
\* only asked for, in requests that fail, are never adopted, and a Byzantine
\* peer announces no term of its own making.
TermsWereWon ==
    \A p \in Peer : term[p] # 0 => \E w \in won : w.term = term[p]

\* The term of a running peer falls only when its own poll finishes between its
\* server's decision that another peer was faster and the demotion that
\* decision leads to.  Every other outdated announcement is discarded.
TermsFallOnlyWhenOvertaken ==
    [][\A p \in Peer :
        up'[p] /\ term'[p] < term[p] => verdict[p] = "overtaken" /\ state'[p] = "FOLLOWER"]_vars

\* Behind both threads of every peer and their calls the election is Mastership:
\* whoever leads or is followed has won, however messages of several elections and
\* the writes of elector and server interleave, and the term of a correct peer falls
\* only back to the one before a term it has just won itself.
Masters == INSTANCE Mastership WITH follows <- [p \in Peer |-> master[p].port]

ImplementsMastership == Masters!Spec

\* Every ping, poll and announcement comes to an end: calls to peers that die
\* before or after they take the request off their queue included.
RoundsEnd == \A p \in Peer : elector[p] # Idle ~> elector[p] = Idle

\* p follows a master that is dead.
Deserted(p, q) ==
    up[p] /\ state[p] = "FOLLOWER" /\ master[p].port = q /\ ~ up[q]

\* A follower does not follow a dead master for ever (remain_follower's ping), unless
\* the time it believes it last heard of its master lies ahead: no ping is due then
\* (790), and only another announcement puts that right.
DeadMasterLeft ==
    \A p \in Peer : \A q \in Peer \ {p} :
        (Deserted(p, q) /\ stamp[p] # "future") ~> ~ Deserted(p, q)

-----------------------------------------------------------------------------
(* What the code says of itself and does not keep.                         *)

\* An algorithm that implements Raft (bftpeer.h:4) elects at most one leader
\* in a term.
OneLeaderPerTerm == \A a, b \in won : a.term = b.term => a.peer = b.peer

=============================================================================
