--------------------------- MODULE ElectionProofs ---------------------------
(***************************************************************************)
(* Proofs about Election, for any number of peers, any of them Byzantine,  *)
(* any initial garbage and any bounds.  The inductive invariant says that  *)
(*   - a live message is the only one of its sender, which waits for the   *)
(*     answer of just the peer that has it, in the round it asks for       *)
(*     (CallsOK, OneCall), so no answer meets a later call (VotesOK);      *)
(*   - who leads, announces itself or is taken for the master, and who is  *)
(*     about to be by an announcement under way, has won (Legitimate);     *)
(*   - a term that is held or announced was won (Legitimate).              *)
(* That elections implement Mastership takes one fact more: what a server  *)
(* that found its peer overtaken can still meet when it carries out the    *)
(* demotion (OvertakenOK).                                                 *)
(***************************************************************************)
EXTENDS Election, FiniteSetTheorems, SequenceLemmas

-----------------------------------------------------------------------------
(* The inductive invariant.                                                *)

Types ==
    /\ up \in [Peer -> BOOLEAN]
    /\ state \in [Peer -> States]
    /\ term \in [Peer -> Nat]
    /\ master \in [Peer -> [port : 0 .. N, up : BOOLEAN]]
    /\ voting \in [Peer -> BOOLEAN]
    /\ alive \in [Peer -> SUBSET Peer]
    /\ votes \in [Peer -> SUBSET Peer]
    /\ stamp \in [Peer -> Stamps]
    /\ elector \in [Peer -> ElectorState]
    /\ inbox \in [Peer -> Seq(Message)]
    /\ verdict \in [Peer -> Verdicts]
    /\ granted \in [Peer -> SUBSET Peer]

\* p's elector is blocked in a call of this type to q.
Awaits(p, q, type) ==
    /\ p \in Peer
    /\ elector[p].at = q /\ elector[p].reply = "wait"
    /\ \/ type = "PING" /\ elector[p].pc = "ping"
       \/ type = "CAND" /\ elector[p].pc = "poll"

CallsOK ==
    \A q \in Peer : \A i \in DOMAIN inbox[q] :
        inbox[q][i].live => Awaits(inbox[q][i].from, q, inbox[q][i].type)

OneCall ==
    \A q \in Peer : \A i, j \in DOMAIN inbox[q] :
        inbox[q][i].live /\ inbox[q][j].live /\ inbox[q][i].from = inbox[q][j].from => i = j

\* p's elector is in the middle of a call.
Calling(p) ==
    \/ elector[p].pc = "ping"
    \/ elector[p].pc = "poll" /\ elector[p].at \in Peer

RepliesOK == \A p \in Peer : elector[p].reply # "none" => Calling(p)

VerdictsOK ==
    \A p \in Peer :
        /\ verdict[p] # "none" => inbox[p] # <<>>
        /\ verdict[p] = "overtaken" => inbox[p][1].type = "MSTR"

\* The answer a candidate is about to count was given to this poll.
VotesOK ==
    \A p \in Peer : elector[p].pc = "poll" =>
        /\ votes[p] \ {p} \subseteq granted[p]
        /\ elector[p].reply = "yes" => elector[p].at \in granted[p]

\* Whom one may take for the master: no peer, a Byzantine one, or a winner.
MayLead(x) == x \in Byzantine \cup {0} \/ \E w \in won : w.peer = x
WonTerm(t) == t = 0 \/ \E w \in won : w.term = t

LegitimatePeer(p) ==
    /\ MayLead(master[p].port)
    /\ state[p] = "LEADER" \/ elector[p].pc \in {"won", "proclaim", "announce"} => MayLead(p)
    /\ WonTerm(term[p])
    /\ elector[p].pc \in {"proclaim", "announce"} => WonTerm(elector[p].req)

LegitimateMessages ==
    \A q \in Peer : \A i \in DOMAIN inbox[q] :
        inbox[q][i].type = "MSTR" => /\ inbox[q][i].from # 0
                                     /\ MayLead(inbox[q][i].from)
                                     /\ WonTerm(inbox[q][i].term)

Legitimate == LegitimateMessages /\ \A p \in Peer : LegitimatePeer(p)

Calls == CallsOK /\ OneCall /\ RepliesOK

IInv == Types /\ Calls /\ VerdictsOK /\ VotesOK /\ Legitimate

-----------------------------------------------------------------------------
(* Peers and records.                                                      *)

LEMMA PeersFinite ==
    /\ N \in Nat /\ Byzantine \subseteq Peer /\ FirstStamp \subseteq Stamps
    /\ \A S \in SUBSET Peer : Cardinality(S) \in Nat
<1>1. N \in Nat /\ Byzantine \subseteq Peer /\ FirstStamp \subseteq Stamps
  BY ConstantsAssumption
<1>2. IsFiniteSet(Peer)
  BY <1>1, FS_Interval DEF Peer
<1>3. \A S \in SUBSET Peer : Cardinality(S) \in Nat
  BY <1>2, FS_Subset, FS_CardinalityType
<1> QED
  BY <1>1, <1>3

LEMMA FollowingInRange ==
    ASSUME NEW p \in Peer, NEW i \in Peer \cup {0}
    PROVE  Following(p, i) \in 0 .. N + 1
BY PeersFinite DEF Peer, Following

\* An elector moves on to the next peer of its round.
LEMMA AdvanceTypes ==
    ASSUME elector \in [Peer -> ElectorState],
           NEW p \in Peer, elector[p].at \in Peer, Advance(p)
    PROVE  /\ elector' \in [Peer -> ElectorState]
           /\ \A r \in Peer : elector'[r].pc = elector[r].pc /\ elector'[r].req = elector[r].req
           /\ elector'[p].reply = "none"
           /\ \A r \in Peer : r # p => elector'[r] = elector[r]
<1>1. PICK old \in ElectorState : old = elector[p]
  OBVIOUS
<1>2. PICK k \in 0 .. N + 1 : k = Following(p, old.at)
  BY <1>1, FollowingInRange
<1> DEFINE mid == [pc |-> old.pc, at |-> k, req |-> old.req, reply |-> old.reply]
           new == [pc |-> old.pc, at |-> k, req |-> old.req, reply |-> "none"]
<1>3. [old EXCEPT !.at = k] = mid /\ [mid EXCEPT !.reply = "none"] = new
  BY DEF ElectorState
<1>4. new \in ElectorState
  BY DEF ElectorState
<1>5. elector' = [elector EXCEPT ![p] = new]
  <2>1. elector' = [[elector EXCEPT ![p] = mid] EXCEPT ![p].reply = "none"]
    BY <1>1, <1>2, <1>3 DEF Advance
  <2> HIDE DEF mid
  <2> QED
    BY <1>3, <2>1
<1>6. new.pc = old.pc /\ new.req = old.req /\ new.reply = "none"
  OBVIOUS
<1> HIDE DEF new
<1> QED
  BY <1>1, <1>4, <1>5, <1>6

\* A peer is answered; whatever it asked, its round goes on.
LEMMA ReplyTypes ==
    ASSUME elector \in [Peer -> ElectorState],
           NEW p \in Peer, NEW answer \in {"wait", "yes", "no", "pong"},
           elector' = [elector EXCEPT ![p].reply = answer]
    PROVE  /\ elector' \in [Peer -> ElectorState]
           /\ \A r \in Peer : /\ elector'[r].pc = elector[r].pc
                              /\ elector'[r].req = elector[r].req
                              /\ elector'[r].at = elector[r].at
           /\ elector'[p].reply = answer
           /\ \A r \in Peer : r # p => elector'[r] = elector[r]
<1>1. PICK old \in ElectorState : old = elector[p]
  OBVIOUS
<1> DEFINE new == [pc |-> old.pc, at |-> old.at, req |-> old.req, reply |-> answer]
<1>2. [old EXCEPT !.reply = answer] = new
  BY DEF ElectorState
<1>3. new \in ElectorState
  BY DEF ElectorState
<1>4. elector' = [elector EXCEPT ![p] = new]
  BY <1>1, <1>2
<1>5. new.pc = old.pc /\ new.req = old.req /\ new.at = old.at /\ new.reply = answer
  OBVIOUS
<1> HIDE DEF new
<1> QED
  BY <1>1, <1>3, <1>4, <1>5

LEMMA WinTypes ==
    ASSUME elector \in [Peer -> ElectorState],
           NEW p \in Peer, elector' = [elector EXCEPT ![p].pc = "won"]
    PROVE  /\ elector' \in [Peer -> ElectorState]
           /\ elector'[p].pc = "won" /\ elector'[p].reply = elector[p].reply
           /\ \A r \in Peer : r # p => elector'[r] = elector[r]
<1>1. PICK old \in ElectorState : old = elector[p]
  OBVIOUS
<1> DEFINE new == [pc |-> "won", at |-> old.at, req |-> old.req, reply |-> old.reply]
<1>2. [old EXCEPT !.pc = "won"] = new
  BY DEF ElectorState
<1>3. new \in ElectorState
  BY DEF ElectorState
<1>4. elector' = [elector EXCEPT ![p] = new]
  BY <1>1, <1>2
<1>5. new.pc = "won" /\ new.reply = old.reply
  OBVIOUS
<1> HIDE DEF new
<1> QED
  BY <1>1, <1>3, <1>4, <1>5

\* What a peer knows of its master may be confirmed, denied or moved to a port.
LEMMA MasterTypes ==
    ASSUME master \in [Peer -> [port : 0 .. N, up : BOOLEAN]],
           NEW p \in Peer, NEW b \in BOOLEAN
    PROVE  /\ [master EXCEPT ![p].up = b] \in [Peer -> [port : 0 .. N, up : BOOLEAN]]
           /\ \A r \in Peer : [master EXCEPT ![p].up = b][r].port = master[r].port
           /\ [master EXCEPT ![p].port = p] \in [Peer -> [port : 0 .. N, up : BOOLEAN]]
           /\ [master EXCEPT ![p].port = p][p].port = p
<1>1. PICK old \in [port : 0 .. N, up : BOOLEAN] : old = master[p]
  OBVIOUS
<1>2. p \in 0 .. N
  BY PeersFinite DEF Peer
<1>3. /\ [old EXCEPT !.up = b] = [port |-> old.port, up |-> b]
      /\ [old EXCEPT !.port = p] = [port |-> p, up |-> old.up]
  OBVIOUS
<1>4. /\ [master EXCEPT ![p].up = b] = [master EXCEPT ![p] = [port |-> old.port, up |-> b]]
      /\ [master EXCEPT ![p].port = p] = [master EXCEPT ![p] = [port |-> p, up |-> old.up]]
  BY <1>1, <1>3
<1> QED
  BY <1>1, <1>2, <1>4

LEMMA MasterUp ==
    ASSUME NEW old \in [port : 0 .. N, up : BOOLEAN]
    PROVE  [old EXCEPT !.up = TRUE] = [port |-> old.port, up |-> TRUE]
<1>1. \A b \in BOOLEAN : [old EXCEPT !.up = b] = [port |-> old.port, up |-> b]
  OBVIOUS
<1> QED
  BY <1>1, Zenon

LEMMA ConfirmTypes ==
    ASSUME master \in [Peer -> [port : 0 .. N, up : BOOLEAN]],
           NEW p \in Peer, NEW m, Confirm(p, m)
    PROVE  /\ master' \in [Peer -> [port : 0 .. N, up : BOOLEAN]]
           /\ \A r \in Peer : master'[r].port = master[r].port
<1>1. PICK old \in [port : 0 .. N, up : BOOLEAN] : old = master[p]
  OBVIOUS
<1>2. [old EXCEPT !.up = TRUE] = [port |-> old.port, up |-> TRUE]
  BY MasterUp
<1>3. Confirmed(p, m) \in [port : 0 .. N, up : BOOLEAN] /\ Confirmed(p, m).port = old.port
  BY <1>1, <1>2 DEF Confirmed
<1>4. master' = [master EXCEPT ![p] = Confirmed(p, m)]
  BY DEF Confirm
<1> QED
  BY <1>1, <1>3, <1>4

\* The messages that are composed, and what a peer knows of itself as the leader.
LEMMA MessagesMade ==
    ASSUME NEW p \in Peer, NEW t \in Nat, NEW v \in Nat
    PROVE  /\ [type |-> "PING", from |-> p, term |-> 0, votes |-> 0, live |-> TRUE] \in Message
           /\ [type |-> "CAND", from |-> p, term |-> t, votes |-> 0, live |-> TRUE] \in Message
           /\ [type |-> "MSTR", from |-> p, term |-> t, votes |-> v, live |-> FALSE] \in Message
           /\ [type |-> "ELCT", from |-> 0, term |-> 0, votes |-> 0, live |-> FALSE] \in Message
<1>1. p \in 0 .. N /\ 0 \in 0 .. N
  BY PeersFinite DEF Peer
<1> QED
  BY <1>1 DEF Message

LEMMA LeaderMade ==
    ASSUME NEW p \in 0 .. N
    PROVE  [port |-> p, up |-> TRUE] \in [port : 0 .. N, up : BOOLEAN]
OBVIOUS

-----------------------------------------------------------------------------
(* What steps do to the accept queues.                                     *)

\* No message is added, and no call of p is live any longer; the queue of p may
\* be lost, with what its server decided.
Fades(p) ==
    /\ inbox' \in [Peer -> Seq(Message)]
    /\ \A q \in Peer : \A i \in DOMAIN inbox'[q] :
        /\ i \in DOMAIN inbox[q]
        /\ inbox'[q][i].type = inbox[q][i].type
        /\ inbox'[q][i].from = inbox[q][i].from
        /\ inbox'[q][i].term = inbox[q][i].term
        /\ inbox'[q][i].live => inbox[q][i].live /\ inbox[q][i].from # p
    /\ \A q \in Peer : verdict'[q] # "none" /\ inbox[q] # <<>> =>
        inbox'[q] # <<>> /\ inbox'[q][1].type = inbox[q][1].type

\* m is put at the end of q's queue.
Arrives(q, m) ==
    /\ inbox' \in [Peer -> Seq(Message)]
    /\ \A r \in Peer : \A i \in DOMAIN inbox'[r] :
        \/ i \in DOMAIN inbox[r] /\ inbox'[r][i] = inbox[r][i]
        \/ r = q /\ i = Len(inbox[q]) + 1 /\ i \notin DOMAIN inbox[r] /\ inbox'[r][i] = m
    /\ \A r \in Peer : inbox[r] # <<>> => inbox'[r] # <<>> /\ inbox'[r][1] = inbox[r][1]

\* The message at the head of p's queue is taken off.
Leaves(p) ==
    /\ inbox' \in [Peer -> Seq(Message)]
    /\ \A r \in Peer : r # p => inbox'[r] = inbox[r]
    /\ \A i \in DOMAIN inbox'[p] :
        i \in Nat /\ i # 0 /\ i + 1 \in DOMAIN inbox[p] /\ inbox'[p][i] = inbox[p][i + 1]

LEMMA QuietQueues ==
    ASSUME Types, Calls, NEW p \in Peer, elector[p].reply # "wait",
           UNCHANGED <<inbox, verdict>>
    PROVE  Fades(p)
BY DEF Types, Calls, CallsOK, Awaits, Fades

\* The message a caller hangs up on stays where it is.
LEMMA MessageDropped ==
    ASSUME NEW m \in Message
    PROVE  /\ [m EXCEPT !.live = FALSE] \in Message
           /\ [m EXCEPT !.live = FALSE].type = m.type
           /\ [m EXCEPT !.live = FALSE].from = m.from
           /\ [m EXCEPT !.live = FALSE].term = m.term
           /\ [m EXCEPT !.live = FALSE].live = FALSE
<1>1. \A b \in BOOLEAN : [m EXCEPT !.live = b]
        = [type |-> m.type, from |-> m.from, term |-> m.term, votes |-> m.votes, live |-> b]
  BY DEF Message
<1>2. [m EXCEPT !.live = FALSE]
        = [type |-> m.type, from |-> m.from, term |-> m.term, votes |-> m.votes, live |-> FALSE]
  BY <1>1, Zenon
<1> QED
  BY <1>2 DEF Message

\* Both NoAnswer and Crash end p's calls; crashed peers lose their queue besides.
LEMMA QueueDropped ==
    ASSUME NEW p \in Peer, NEW s \in Seq(Message), NEW t,
           t = [i \in DOMAIN s |-> IF IsCall(s[i], p) THEN [s[i] EXCEPT !.live = FALSE] ELSE s[i]]
    PROVE  /\ t \in Seq(Message) /\ DOMAIN t = DOMAIN s /\ (s # <<>> => t # <<>>)
           /\ \A i \in DOMAIN s :
                /\ t[i].type = s[i].type /\ t[i].from = s[i].from /\ t[i].term = s[i].term
                /\ t[i].live => s[i].live /\ s[i].from # p
<1>1. \A i \in DOMAIN s : s[i] \in Message
  BY LenProperties, ElementOfSeq
<1>2. ASSUME NEW i \in DOMAIN s
      PROVE  /\ t[i] \in Message
             /\ t[i].type = s[i].type /\ t[i].from = s[i].from /\ t[i].term = s[i].term
             /\ t[i].live => s[i].live /\ s[i].from # p
  <2>1. CASE IsCall(s[i], p)
    <3>1. PICK m \in Message : m = s[i]
      BY <1>1
    <3>2. t[i] = [m EXCEPT !.live = FALSE]
      BY <2>1, <3>1
    <3> QED
      BY <3>1, <3>2, MessageDropped
  <2>2. CASE ~ IsCall(s[i], p)
    BY <1>1, <2>2 DEF IsCall
  <2> QED
    BY <2>1, <2>2
<1>3. t = [i \in DOMAIN s |-> t[i]] /\ DOMAIN t = DOMAIN s
  OBVIOUS
<1>4. t \in Seq(Message) /\ (s # <<>> => t # <<>>)
  BY <1>2, <1>3, Relabelled
<1> QED
  BY <1>2, <1>3, <1>4

LEMMA FirstOfQueue ==
    ASSUME NEW S, NEW s \in Seq(S), s # <<>>
    PROVE  1 \in DOMAIN s
BY Dequeued

LEMMA HangUpFades ==
    ASSUME Types, NEW p \in Peer, HangUp(p), UNCHANGED verdict
    PROVE  Fades(p)
<1>1. ASSUME NEW q \in Peer
      PROVE  /\ inbox'[q] \in Seq(Message) /\ DOMAIN inbox'[q] = DOMAIN inbox[q]
             /\ inbox[q] # <<>> => inbox'[q] # <<>>
             /\ \A i \in DOMAIN inbox[q] :
                /\ inbox'[q][i].type = inbox[q][i].type
                /\ inbox'[q][i].from = inbox[q][i].from
                /\ inbox'[q][i].term = inbox[q][i].term
                /\ inbox'[q][i].live => inbox[q][i].live /\ inbox[q][i].from # p
  <2>1. PICK s \in Seq(Message) : s = inbox[q]
    BY DEF Types
  <2>2. PICK t : t = inbox'[q]
    OBVIOUS
  <2>3. t = [i \in DOMAIN s |-> IF IsCall(s[i], p) THEN [s[i] EXCEPT !.live = FALSE] ELSE s[i]]
    BY <2>1, <2>2 DEF HangUp
  <2> QED
    BY <2>1, <2>2, <2>3, QueueDropped
<1>2. inbox' \in [Peer -> Seq(Message)]
  BY <1>1 DEF HangUp
<1>3. \A q \in Peer : inbox[q] # <<>> => 1 \in DOMAIN inbox[q]
  BY FirstOfQueue DEF Types
<1> QED
  BY <1>1, <1>2, <1>3 DEF Fades

\* Whether the callee died or the time is up, p waits for nothing afterwards.
LEMMA NoAnswerFades ==
    ASSUME Types, NEW p \in Peer, NoAnswer(p), UNCHANGED verdict
    PROVE  Fades(p)
<1>1. CASE CallLost(p) /\ UNCHANGED inbox
  BY <1>1 DEF CallLost, IsCall, Types, Fades
<1>2. CASE HangUp(p)
  BY <1>2, HangUpFades
<1> QED
  BY <1>1, <1>2 DEF NoAnswer

LEMMA CrashFades ==
    ASSUME Types, NEW p \in Peer, Crash(p)
    PROVE  Fades(p)
<1>1. /\ inbox' = [q \in Peer |-> IF q = p THEN <<>> ELSE
                   [i \in DOMAIN inbox[q] |->
                     IF IsCall(inbox[q][i], p) THEN [inbox[q][i] EXCEPT !.live = FALSE]
                                               ELSE inbox[q][i]]]
      /\ verdict' = [verdict EXCEPT ![p] = "none"]
  BY DEF Crash
<1>2. ASSUME NEW q \in Peer, q # p
      PROVE  /\ inbox'[q] \in Seq(Message) /\ DOMAIN inbox'[q] = DOMAIN inbox[q]
             /\ inbox[q] # <<>> => inbox'[q] # <<>>
             /\ \A i \in DOMAIN inbox[q] :
                /\ inbox'[q][i].type = inbox[q][i].type
                /\ inbox'[q][i].from = inbox[q][i].from
                /\ inbox'[q][i].term = inbox[q][i].term
                /\ inbox'[q][i].live => inbox[q][i].live /\ inbox[q][i].from # p
  <2>1. PICK s \in Seq(Message) : s = inbox[q]
    BY DEF Types
  <2>2. PICK t : t = inbox'[q]
    OBVIOUS
  <2>3. t = [i \in DOMAIN s |-> IF IsCall(s[i], p) THEN [s[i] EXCEPT !.live = FALSE] ELSE s[i]]
    BY <1>1, <1>2, <2>1, <2>2
  <2> QED
    BY <2>1, <2>2, <2>3, QueueDropped
<1>3. inbox'[p] = <<>> /\ inbox'[p] \in Seq(Message) /\ DOMAIN inbox'[p] = {}
  BY <1>1, EmptySeq
<1>4. inbox' \in [Peer -> Seq(Message)]
  BY <1>1, <1>2, <1>3
<1>5. \A q \in Peer : inbox[q] # <<>> => 1 \in DOMAIN inbox[q]
  BY FirstOfQueue DEF Types
<1>6. verdict'[p] = "none"
  BY <1>1 DEF Types
<1> QED
  BY <1>2, <1>3, <1>4, <1>5, <1>6 DEF Fades

LEMMA PutArrives ==
    ASSUME Types, NEW q \in Peer, NEW m \in Message, Put(q, m)
    PROVE  Arrives(q, m)
<1>1. PICK s \in Seq(Message) : s = inbox[q]
  BY DEF Types
<1>2. PICK t \in Seq(Message) : t = Append(s, m)
  BY Enqueued
<1>3. inbox' = [inbox EXCEPT ![q] = t]
  BY <1>1, <1>2 DEF Put
<1>4. /\ t # <<>> /\ DOMAIN t = DOMAIN s \cup {Len(s) + 1}
      /\ Len(s) + 1 \notin DOMAIN s /\ t[Len(s) + 1] = m
      /\ \A i \in DOMAIN s : t[i] = s[i]
  BY <1>2, Enqueued
<1>5. \A r \in Peer : inbox[r] # <<>> => 1 \in DOMAIN inbox[r]
  BY FirstOfQueue DEF Types
<1> QED
  BY <1>1, <1>3, <1>4, <1>5 DEF Types, Arrives

LEMMA DoneLeaves ==
    ASSUME Types, NEW p \in Peer, inbox[p] # <<>>, Done(p)
    PROVE  Leaves(p) /\ verdict' = [verdict EXCEPT ![p] = "none"]
<1>1. PICK s \in Seq(Message) : s = inbox[p]
  BY DEF Types
<1>2. PICK t \in Seq(Message) : t = Tail(s)
  BY <1>1, Dequeued
<1>3. \A i \in DOMAIN t : i \in Nat /\ i # 0 /\ i + 1 \in DOMAIN s /\ t[i] = s[i + 1]
  BY <1>1, <1>2, Dequeued
<1>4. inbox' = [inbox EXCEPT ![p] = t] /\ verdict' = [verdict EXCEPT ![p] = "none"]
  BY <1>1, <1>2 DEF Done
<1> QED
  BY <1>1, <1>3, <1>4 DEF Types, Leaves

-----------------------------------------------------------------------------
(* What the steps have in common.                                          *)

LEMMA CallsFade ==
    ASSUME Types, Calls, NEW p \in Peer, Fades(p),
           \A r \in Peer : r # p => elector'[r] = elector[r],
           elector'[p].reply # "none" => Calling(p)'
    PROVE  Calls'
<1>1. CallsOK'
  <2> SUFFICES ASSUME NEW q \in Peer, NEW i \in DOMAIN inbox'[q], inbox'[q][i].live
               PROVE  Awaits(inbox[q][i].from, q, inbox[q][i].type)'
    BY DEF CallsOK
  <2>1. /\ i \in DOMAIN inbox[q] /\ inbox[q][i].live /\ inbox[q][i].from # p
        /\ inbox'[q][i].from = inbox[q][i].from /\ inbox'[q][i].type = inbox[q][i].type
    BY DEF Fades
  <2>2. Awaits(inbox[q][i].from, q, inbox[q][i].type)
    BY <2>1 DEF Calls, CallsOK
  <2>3. elector'[inbox[q][i].from] = elector[inbox[q][i].from]
    BY <2>1, <2>2 DEF Awaits
  <2> QED
    BY <2>1, <2>2, <2>3 DEF Awaits
<1>2. OneCall'
  BY DEF Calls, OneCall, Fades
<1>3. RepliesOK'
  BY DEF Calls, RepliesOK, Calling
<1> QED
  BY <1>1, <1>2, <1>3 DEF Calls

\* p may call q if it waits for nobody else.
LEMMA CallsArrive ==
    ASSUME Types, Calls, NEW p \in Peer, NEW q \in Peer, NEW m \in Message, Arrives(q, m),
           elector[p].reply # "wait" \/ elector'[p] = elector[p],
           m.live => m.from = p /\ elector[p].reply # "wait" /\ Awaits(p, q, m.type)',
           \A r \in Peer : r # p => elector'[r] = elector[r],
           elector'[p].reply # "none" => Calling(p)'
    PROVE  Calls'
<1>1. CallsOK'
  <2> SUFFICES ASSUME NEW r \in Peer, NEW i \in DOMAIN inbox'[r], inbox'[r][i].live
               PROVE  Awaits(inbox[r][i].from, r, inbox[r][i].type)'
    BY DEF CallsOK
  <2>1. CASE i \in DOMAIN inbox[r] /\ inbox'[r][i] = inbox[r][i]
    <3>1. Awaits(inbox[r][i].from, r, inbox[r][i].type)
      BY <2>1 DEF Calls, CallsOK
    <3>2. elector'[inbox[r][i].from] = elector[inbox[r][i].from]
      BY <3>1 DEF Awaits
    <3> QED
      BY <2>1, <3>1, <3>2 DEF Awaits
  <2>2. CASE r = q /\ inbox'[r][i] = m
    BY <2>2 DEF Awaits
  <2> QED
    BY <2>1, <2>2 DEF Arrives
<1>2. OneCall'
  <2>1. \A r \in Peer : \A i \in DOMAIN inbox[r] :
            inbox[r][i].live /\ m.live => inbox[r][i].from # m.from
    BY DEF Calls, CallsOK, Awaits
  <2> QED
    BY <2>1 DEF Calls, OneCall, Arrives
<1>3. RepliesOK'
  BY DEF Calls, RepliesOK, Calling
<1> QED
  BY <1>1, <1>2, <1>3 DEF Calls

\* What a server does to the electors: nothing, or it answers the message's sender.
Answers(m, answer) ==
    \/ UNCHANGED elector
    \/ m.live /\ m.from \in Peer /\ elector' = [elector EXCEPT ![m.from].reply = answer]

LEMMA OneCallLeaves ==
    ASSUME OneCall, NEW p \in Peer, Leaves(p)
    PROVE  OneCall'
<1> SUFFICES ASSUME NEW r \in Peer, NEW i \in DOMAIN inbox'[r], NEW j \in DOMAIN inbox'[r],
                    inbox'[r][i].live, inbox'[r][j].live,
                    inbox'[r][i].from = inbox'[r][j].from
             PROVE  i = j
  BY DEF OneCall
<1>1. CASE r # p
  BY <1>1 DEF OneCall, Leaves
<1>2. CASE r = p
  <2>1. /\ i \in Nat /\ i + 1 \in DOMAIN inbox[p] /\ inbox'[p][i] = inbox[p][i + 1]
        /\ j \in Nat /\ j + 1 \in DOMAIN inbox[p] /\ inbox'[p][j] = inbox[p][j + 1]
    BY <1>2 DEF Leaves
  <2>2. i + 1 = j + 1
    BY <1>2, <2>1 DEF OneCall
  <2> QED
    BY <2>1, <2>2
<1> QED
  BY <1>1, <1>2

LEMMA CallsLeave ==
    ASSUME Types, Calls, NEW p \in Peer, inbox[p] # <<>>, Leaves(p),
           NEW answer \in {"yes", "no", "pong"}, Answers(inbox[p][1], answer)
    PROVE  Calls'
<1> DEFINE m == inbox[p][1]
<1>1. 1 \in DOMAIN inbox[p]
  BY FirstOfQueue DEF Types
<1>2. CASE UNCHANGED elector
  <2>1. CallsOK'
    <3> SUFFICES ASSUME NEW r \in Peer, NEW i \in DOMAIN inbox'[r], inbox'[r][i].live
                 PROVE  Awaits(inbox[r][i].from, r, inbox[r][i].type)'
      BY DEF CallsOK
    <3>1. CASE r # p
      BY <1>2, <3>1 DEF Calls, CallsOK, Leaves, Awaits
    <3>2. CASE r = p
      BY <1>2, <3>2 DEF Calls, CallsOK, Leaves, Awaits
    <3> QED
      BY <3>1, <3>2
  <2>2. OneCall'
    BY OneCallLeaves DEF Calls
  <2>3. RepliesOK'
    BY <1>2 DEF Calls, RepliesOK, Calling
  <2> QED
    BY <2>1, <2>2, <2>3 DEF Calls
<1>3. CASE /\ m.live /\ m.from \in Peer
           /\ elector' = [elector EXCEPT ![m.from].reply = answer]
  <2>1. PICK c \in Peer : c = m.from
    BY <1>3
  <2>2. /\ elector' = [elector EXCEPT ![c].reply = answer] /\ elector \in [Peer -> ElectorState]
    BY <1>3, <2>1 DEF Types
  <2>3. /\ \A r \in Peer : elector'[r].pc = elector[r].pc /\ elector'[r].at = elector[r].at
        /\ \A r \in Peer : r # c => elector'[r] = elector[r]
    BY <2>2, ReplyTypes
  <2>4. Awaits(c, p, m.type)
    BY <1>1, <1>3, <2>1 DEF Calls, CallsOK
  <2>5. \A r \in Peer : \A i \in DOMAIN inbox[r] :
            inbox[r][i].live /\ inbox[r][i].from = c => r = p /\ i = 1
    BY <1>1, <1>3, <2>1, <2>4 DEF Calls, CallsOK, OneCall, Awaits
  <2>6. \A r \in Peer : \A i \in DOMAIN inbox'[r] :
            inbox'[r][i].live => inbox'[r][i].from # c
    BY <2>5 DEF Leaves
  <2>7. CallsOK'
    <3> SUFFICES ASSUME NEW r \in Peer, NEW i \in DOMAIN inbox'[r], inbox'[r][i].live
                 PROVE  Awaits(inbox[r][i].from, r, inbox[r][i].type)'
      BY DEF CallsOK
    <3>1. PICK j \in DOMAIN inbox[r] : inbox'[r][i] = inbox[r][j]
      BY DEF Leaves
    <3>2. Awaits(inbox[r][j].from, r, inbox[r][j].type)
      BY <3>1 DEF Calls, CallsOK
    <3>3. PICK k \in Peer : k = inbox[r][j].from
      BY <3>2 DEF Awaits
    <3>4. k # c
      BY <2>6, <3>1, <3>3
    <3>5. elector'[k] = elector[k]
      BY <2>3, <3>4
    <3> QED
      BY <3>1, <3>2, <3>3, <3>5 DEF Awaits
  <2>8. OneCall'
    BY OneCallLeaves DEF Calls
  <2>9. RepliesOK'
    BY <2>3, <2>4 DEF Calls, RepliesOK, Calling, Awaits
  <2> QED
    BY <2>7, <2>8, <2>9 DEF Calls
<1> QED
  BY <1>2, <1>3 DEF Answers

\* Once won, an election stays won.
LEMMA WonStays ==
    ASSUME won \subseteq won'
    PROVE  /\ \A x : MayLead(x) => x \in Byzantine \cup {0} \/ \E w \in won' : w.peer = x
           /\ \A t : WonTerm(t) => t = 0 \/ \E w \in won' : w.term = t
BY DEF MayLead, WonTerm

LEMMA MessagesFade ==
    ASSUME LegitimateMessages, NEW p \in Peer, Fades(p), won \subseteq won'
    PROVE  LegitimateMessages'
BY WonStays DEF LegitimateMessages, Fades, MayLead, WonTerm

LEMMA MessagesArrive ==
    ASSUME LegitimateMessages, NEW q \in Peer, NEW m \in Message, Arrives(q, m),
           won \subseteq won', m.type = "MSTR" => m.from # 0 /\ MayLead(m.from) /\ WonTerm(m.term)
    PROVE  LegitimateMessages'
BY WonStays DEF LegitimateMessages, Arrives, MayLead, WonTerm

LEMMA MessagesLeave ==
    ASSUME LegitimateMessages, NEW p \in Peer, Leaves(p), UNCHANGED won
    PROVE  LegitimateMessages'
BY DEF LegitimateMessages, Leaves, MayLead, WonTerm

VotesOf(p) ==
    elector[p].pc = "poll" =>
        /\ votes[p] \ {p} \subseteq granted[p]
        /\ elector[p].reply = "yes" => elector[p].at \in granted[p]

\* A step that touches the state of no peer but p.
OnlyOf(p) ==
    /\ \A r \in Peer : r # p =>
        /\ state'[r] = state[r] /\ term'[r] = term[r] /\ master'[r] = master[r]
        /\ elector'[r] = elector[r]
        /\ votes'[r] = votes[r] /\ granted'[r] = granted[r] /\ verdict'[r] = verdict[r]
    /\ verdict'[p] \in {"none", verdict[p]}
    /\ won \subseteq won'

LEMMA OthersKeep ==
    ASSUME IInv, NEW p \in Peer, OnlyOf(p), VotesOf(p)', LegitimatePeer(p)'
    PROVE  VotesOK' /\ \A r \in Peer : LegitimatePeer(r)'
<1>1. VotesOK'
  BY DEF IInv, VotesOK, OnlyOf, VotesOf
<1>2. ASSUME NEW r \in Peer, r # p PROVE LegitimatePeer(r)'
  <2>1. LegitimatePeer(r)
    BY DEF IInv, Legitimate
  <2> QED
    BY <1>2, <2>1, WonStays DEF LegitimatePeer, OnlyOf, MayLead, WonTerm
<1> QED
  BY <1>1, <1>2

\* A step of p that sends nothing and leaves it without a call under way, or
\* with the one it has been answered.
LEMMA QuietStep ==
    ASSUME IInv, NEW p \in Peer, Types', Fades(p), OnlyOf(p),
           elector'[p].reply # "none" => Calling(p)',
           VotesOf(p)', LegitimatePeer(p)'
    PROVE  IInv'
<1>1. Calls'
  BY CallsFade DEF IInv, OnlyOf
<1>2. VerdictsOK'
  BY DEF IInv, VerdictsOK, Fades, OnlyOf
<1>3. LegitimateMessages'
  BY MessagesFade DEF IInv, Legitimate, OnlyOf
<1>4. VotesOK' /\ \A r \in Peer : LegitimatePeer(r)'
  BY OthersKeep
<1> QED
  BY <1>1, <1>2, <1>3, <1>4 DEF IInv, Legitimate

\* A step that sends m to q, either in p's round or from outside.
LEMMA SendingStep ==
    ASSUME IInv, NEW p \in Peer, NEW q \in Peer, NEW m \in Message,
           Types', Arrives(q, m), OnlyOf(p), UNCHANGED verdict,
           elector[p].reply # "wait" \/ elector'[p] = elector[p],
           m.live => m.from = p /\ elector[p].reply # "wait" /\ Awaits(p, q, m.type)',
           m.type = "MSTR" => m.from # 0 /\ MayLead(m.from) /\ WonTerm(m.term),
           elector'[p].reply # "none" => Calling(p)',
           VotesOf(p)', LegitimatePeer(p)'
    PROVE  IInv'
<1>1. Calls'
  BY CallsArrive DEF IInv, OnlyOf
<1>2. VerdictsOK'
  BY DEF IInv, VerdictsOK, Arrives
<1>3. LegitimateMessages'
  BY MessagesArrive DEF IInv, Legitimate, OnlyOf
<1>4. VotesOK' /\ \A r \in Peer : LegitimatePeer(r)'
  BY OthersKeep
<1> QED
  BY <1>1, <1>2, <1>3, <1>4 DEF IInv, Legitimate

-----------------------------------------------------------------------------
(* Every step of the elector keeps the invariant.                          *)

LEMMA IdleElector ==
    /\ Idle \in ElectorState /\ Idle.pc = "idle" /\ Idle.reply = "none"
    /\ [Idle EXCEPT !.pc = "suspect"] \in ElectorState
    /\ [Idle EXCEPT !.pc = "suspect"].pc = "suspect"
    /\ [Idle EXCEPT !.pc = "suspect"].reply = "none"
    /\ NoMaster \in [port : 0 .. N, up : BOOLEAN] /\ NoMaster.port = 0
BY PeersFinite DEF Idle, ElectorState, NoMaster

LEMMA SuspectKeeps ==
    ASSUME IInv, NEW p \in Peer, Suspect(p)
    PROVE  IInv'
<1>1. PICK x \in ElectorState : x = [Idle EXCEPT !.pc = "suspect"]
  BY IdleElector
<1>2. /\ x.pc = "suspect" /\ x.reply = "none"
      /\ elector' = [elector EXCEPT ![p] = x]
      /\ master' = [master EXCEPT ![p] = NoMaster]
      /\ elector[p].reply = "none"
      /\ UNCHANGED <<up, state, term, voting, stamp, alive, votes, inbox, verdict, granted, won>>
  BY <1>1, IdleElector DEF Suspect, GiveUpMaster, tallyVars, queueVars, historyVars
<1> HIDE DEF Idle, NoMaster
<1>3. Fades(p)
  BY <1>2, QuietQueues DEF IInv
<1>4. Types'
  BY <1>2, IdleElector DEF IInv, Types
<1>5. OnlyOf(p)
  BY <1>2 DEF IInv, Types, OnlyOf
<1>6. VotesOf(p)' /\ elector'[p].reply = "none"
  BY <1>2 DEF IInv, Types, VotesOf
<1>7. LegitimatePeer(p)'
  BY <1>2, IdleElector DEF IInv, Types, Legitimate, LegitimatePeer, MayLead, WonTerm
<1> QED
  BY <1>3, <1>4, <1>5, <1>6, <1>7, QuietStep

LEMMA PongKeeps ==
    ASSUME IInv, NEW p \in Peer, Pong(p)
    PROVE  IInv'
<1>2. /\ elector[p].reply = "pong"
      /\ elector' = [elector EXCEPT ![p] = Idle]
      /\ master' = [master EXCEPT ![p].up = TRUE]
      /\ UNCHANGED <<up, state, term, voting, stamp, alive, votes, inbox, verdict, granted, won>>
  BY DEF Pong, tallyVars, queueVars, historyVars
<1>1. /\ master' \in [Peer -> [port : 0 .. N, up : BOOLEAN]]
      /\ \A r \in Peer : master'[r].port = master[r].port
      /\ \A r \in Peer : r # p => master'[r] = master[r]
  BY <1>2, MasterTypes DEF IInv, Types
<1> HIDE DEF Idle, NoMaster
<1>3. Fades(p)
  BY <1>2, QuietQueues DEF IInv
<1>4. Types'
  BY <1>1, <1>2, IdleElector DEF IInv, Types
<1>5. OnlyOf(p)
  BY <1>1, <1>2 DEF IInv, Types, OnlyOf
<1>6. VotesOf(p)' /\ elector'[p].reply = "none"
  BY <1>2, IdleElector DEF IInv, Types, VotesOf
<1>7. LegitimatePeer(p)'
  BY <1>1, <1>2, IdleElector DEF IInv, Types, Legitimate, LegitimatePeer, MayLead, WonTerm
<1> QED
  BY <1>3, <1>4, <1>5, <1>6, <1>7, QuietStep

LEMMA NoPongKeeps ==
    ASSUME IInv, NEW p \in Peer, NoPong(p)
    PROVE  IInv'
<1>1. PICK x \in ElectorState : x = [Idle EXCEPT !.pc = "suspect"]
  BY IdleElector
<1>2. /\ x.pc = "suspect" /\ x.reply = "none"
      /\ elector' = [elector EXCEPT ![p] = x]
      /\ master' = [master EXCEPT ![p] = NoMaster]
      /\ NoAnswer(p)
      /\ UNCHANGED <<up, state, term, voting, stamp, alive, votes, verdict, granted, won>>
  BY <1>1, IdleElector DEF NoPong, GiveUpMaster, tallyVars, queueVars, historyVars
<1> HIDE DEF Idle, NoMaster
<1>3. Fades(p)
  BY <1>2, NoAnswerFades DEF IInv
<1>4. Types'
  BY <1>2, <1>3, IdleElector DEF IInv, Types, Fades
<1>5. OnlyOf(p)
  BY <1>2 DEF IInv, Types, OnlyOf
<1>6. VotesOf(p)' /\ elector'[p].reply = "none"
  BY <1>2 DEF IInv, Types, VotesOf
<1>7. LegitimatePeer(p)'
  BY <1>2, IdleElector DEF IInv, Types, Legitimate, LegitimatePeer, MayLead, WonTerm
<1> QED
  BY <1>3, <1>4, <1>5, <1>6, <1>7, QuietStep

LEMMA StandKeeps ==
    ASSUME IInv, NEW p \in Peer, Stand(p)
    PROVE  IInv'
<1>2. /\ elector[p].pc = "suspect"
      /\ elector[p].reply = "none"
      /\ elector' = [elector EXCEPT ![p] = Idle]
      /\ state' = [state EXCEPT ![p] = "CANDIDATE"]
      /\ UNCHANGED <<up, term, master, voting, stamp, alive, votes, inbox, verdict, granted, won>>
  BY DEF Stand, IInv, Calls, RepliesOK, Calling, tallyVars, queueVars, historyVars
<1> HIDE DEF Idle, NoMaster
<1>3. Fades(p)
  BY <1>2, QuietQueues DEF IInv
<1>4. Types'
  BY <1>2, IdleElector DEF IInv, Types, States
<1>5. OnlyOf(p)
  BY <1>2 DEF IInv, Types, OnlyOf
<1>6. VotesOf(p)' /\ elector'[p].reply = "none"
  BY <1>2, IdleElector DEF IInv, Types, VotesOf
<1>7. LegitimatePeer(p)'
  BY <1>2, IdleElector DEF IInv, Types, Legitimate, LegitimatePeer, MayLead, WonTerm
<1> QED
  BY <1>3, <1>4, <1>5, <1>6, <1>7, QuietStep

LEMMA RandomiseStateKeeps ==
    ASSUME IInv, NEW p \in Peer, RandomiseState(p)
    PROVE  IInv'
<1>2. /\ p \in Byzantine
      /\ elector[p].reply = "none"
      /\ elector[p].pc = "idle"
      /\ UNCHANGED <<up, term, elector, voting, alive, votes, inbox, verdict, granted, won>>
      /\ state' \in {[state EXCEPT ![p] = s] : s \in States}
      /\ \/ UNCHANGED master
         \/ master' = [master EXCEPT ![p].port = p]
         \/ master' = [master EXCEPT ![p].up = FALSE]
      /\ stamp' \in {stamp, [stamp EXCEPT ![p] = "old"]}
  BY IdleElector DEF RandomiseState, Meddle, States, tallyVars, queueVars, historyVars
<1>1. /\ master' \in [Peer -> [port : 0 .. N, up : BOOLEAN]]
      /\ master'[p].port \in {p, master[p].port}
      /\ \A r \in Peer : r # p => master'[r] = master[r]
  <2>1. CASE UNCHANGED master
    BY <2>1 DEF IInv, Types
  <2>2. CASE master' = [master EXCEPT ![p].port = p]
    BY <2>2, MasterTypes DEF IInv, Types
  <2>3. CASE master' = [master EXCEPT ![p].up = FALSE]
    BY <2>3, MasterTypes DEF IInv, Types
  <2> QED
    BY <1>2, <2>1, <2>2, <2>3
<1> HIDE DEF Idle, NoMaster
<1>3. Fades(p)
  BY <1>2, QuietQueues DEF IInv
<1>4. Types'
  <2>1. PICK v \in States : state' = [state EXCEPT ![p] = v]
    BY <1>2
  <2>2. state' \in [Peer -> States]
    BY <2>1 DEF IInv, Types
  <2>3. stamp' \in [Peer -> Stamps]
    BY <1>2 DEF IInv, Types, Stamps
  <2> QED
    BY <1>1, <1>2, <2>2, <2>3 DEF IInv, Types
<1>5. OnlyOf(p)
  BY <1>1, <1>2 DEF IInv, Types, OnlyOf
<1>6. VotesOf(p)' /\ elector'[p].reply = "none"
  BY <1>2 DEF IInv, Types, VotesOf
<1>7. LegitimatePeer(p)'
  BY <1>1, <1>2 DEF IInv, Types, Legitimate, LegitimatePeer, MayLead, WonTerm
<1> QED
  BY <1>3, <1>4, <1>5, <1>6, <1>7, QuietStep

LEMMA ChangeStateKeeps ==
    ASSUME IInv, NEW p \in Peer, ChangeState(p)
    PROVE  IInv'
<1>2. /\ p \in Byzantine
      /\ elector[p].reply = "none"
      /\ elector' = [elector EXCEPT ![p] = Idle]
      /\ UNCHANGED <<up, term, master, stamp, voting, alive, votes, inbox, verdict, granted, won>>
      /\ state' \in {[state EXCEPT ![p] = s] : s \in States}
  BY IdleElector
     DEF ChangeState, Meddle, States, IInv, Calls, RepliesOK, Calling,
         tallyVars, queueVars, historyVars
<1> HIDE DEF Idle, NoMaster
<1>3. Fades(p)
  BY <1>2, QuietQueues DEF IInv
<1>4. Types'
  <2>1. PICK v \in States : state' = [state EXCEPT ![p] = v]
    BY <1>2
  <2>2. state' \in [Peer -> States]
    BY <2>1 DEF IInv, Types
  <2> QED
    BY <1>2, <2>2, IdleElector DEF IInv, Types
<1>5. OnlyOf(p)
  BY <1>2 DEF IInv, Types, OnlyOf
<1>6. VotesOf(p)' /\ elector'[p].reply = "none"
  BY <1>2, IdleElector DEF IInv, Types, VotesOf
<1>7. LegitimatePeer(p)'
  BY <1>2, IdleElector DEF IInv, Types, Legitimate, LegitimatePeer, MayLead, WonTerm
<1> QED
  BY <1>3, <1>4, <1>5, <1>6, <1>7, QuietStep

LEMMA BeginKeeps ==
    ASSUME IInv, NEW p \in Peer, Begin(p)
    PROVE  IInv'
<1>1. PICK x : x = [pc |-> "poll", at |-> Following(p, 0), req |-> term[p] + 1, reply |-> "none"]
  OBVIOUS
<1>8. Following(p, 0) \in 0 .. N + 1 /\ term[p] \in Nat
  BY FollowingInRange DEF IInv, Types
<1>2. /\ x \in ElectorState
      /\ x.pc = "poll" /\ x.req = term[p] + 1 /\ x.reply = "none"
      /\ elector' = [elector EXCEPT ![p] = x]
      /\ elector[p].reply = "none"
      /\ voting' = [voting EXCEPT ![p] = TRUE]
      /\ votes' = [votes EXCEPT ![p] = {p}]
      /\ granted' = [granted EXCEPT ![p] = {}]
      /\ UNCHANGED <<up, state, term, master, stamp, alive, inbox, verdict, won>>
  BY <1>1, <1>8, IdleElector DEF Begin, ElectorState, queueVars
<1> HIDE DEF Idle, NoMaster
<1>3. Fades(p)
  BY <1>2, QuietQueues DEF IInv
<1>4. Types'
  BY <1>2, IdleElector DEF IInv, Types
<1>5. OnlyOf(p)
  BY <1>2 DEF IInv, Types, OnlyOf
<1>6. VotesOf(p)' /\ elector'[p].reply = "none"
  BY <1>2 DEF IInv, Types, VotesOf
<1>7. LegitimatePeer(p)'
  BY <1>2 DEF IInv, Types, Legitimate, LegitimatePeer, MayLead, WonTerm
<1> QED
  BY <1>3, <1>4, <1>5, <1>6, <1>7, QuietStep

LEMMA WinKeeps ==
    ASSUME IInv, NEW p \in Peer, Win(p)
    PROVE  IInv'
<1>1. elector[p].reply = "none"
  <2>1. elector[p].at \notin Peer /\ elector[p].pc = "poll"
    BY PeersFinite DEF Win, Polled, Peer
  <2> QED
    BY <2>1 DEF IInv, Calls, RepliesOK, Calling
<1>2. PICK t \in Nat \ {0} : t = term[p] + 1
  BY DEF IInv, Types
<1>3. /\ elector' = [elector EXCEPT ![p].pc = "won"]
      /\ term' = [term EXCEPT ![p] = t]
      /\ won' = won \cup {[peer |-> p, term |-> t]}
      /\ UNCHANGED <<up, state, master, voting, stamp, alive, votes, inbox, verdict, granted>>
  BY <1>2 DEF Win, tallyVars, queueVars
<1>4. /\ elector' \in [Peer -> ElectorState]
      /\ elector'[p].pc = "won" /\ elector'[p].reply = "none"
      /\ \A r \in Peer : r # p => elector'[r] = elector[r]
  BY <1>1, <1>3, WinTypes DEF IInv, Types
<1>5. MayLead(p)' /\ WonTerm(t)' /\ won \subseteq won'
  <2>1. PICK w : w = [peer |-> p, term |-> t]
    OBVIOUS
  <2>2. w.peer = p /\ w.term = t /\ w \in won'
    BY <1>3, <2>1
  <2> QED
    BY <1>3, <2>2 DEF MayLead, WonTerm
<1>6. Fades(p)
  BY <1>1, <1>3, QuietQueues DEF IInv
<1>7. Types'
  <2>1. term' \in [Peer -> Nat]
    BY <1>3 DEF IInv, Types
  <2> QED
    BY <1>3, <1>4, <2>1 DEF IInv, Types
<1>8. OnlyOf(p)
  BY <1>3, <1>4, <1>5 DEF IInv, Types, OnlyOf
<1>9. VotesOf(p)'
  BY <1>4 DEF VotesOf
<1>10. LegitimatePeer(p)'
  <2>1. LegitimatePeer(p) /\ term'[p] = t
    BY <1>3 DEF IInv, Types, Legitimate
  <2>2. MayLead(master[p].port)'
    BY <1>3, <1>5, <2>1 DEF LegitimatePeer, MayLead
  <2>3. elector'[p].pc \notin {"proclaim", "announce"}
    BY <1>4
  <2> QED
    BY <1>5, <2>1, <2>2, <2>3 DEF LegitimatePeer, WonTerm
<1> QED
  BY <1>4, <1>6, <1>7, <1>8, <1>9, <1>10, QuietStep

LEMMA GiveUpKeeps ==
    ASSUME IInv, NEW p \in Peer, GiveUp(p)
    PROVE  IInv'
<1>1. elector[p].reply = "none"
  BY PeersFinite DEF GiveUp, Polled, IInv, Calls, RepliesOK, Calling, Peer
<1>2. /\ elector' = [elector EXCEPT ![p] = Idle]
      /\ voting' = [voting EXCEPT ![p] = FALSE]
      /\ UNCHANGED <<up, state, term, master, stamp, alive, votes, inbox, verdict, granted, won>>
  BY DEF GiveUp, tallyVars, queueVars, historyVars
<1> HIDE DEF Idle
<1>3. Fades(p)
  BY <1>1, <1>2, QuietQueues DEF IInv
<1>4. Types'
  BY <1>2, IdleElector DEF IInv, Types
<1>5. OnlyOf(p)
  BY <1>2 DEF IInv, Types, OnlyOf
<1>6. VotesOf(p)' /\ elector'[p].reply = "none"
  BY <1>2, IdleElector DEF IInv, Types, VotesOf
<1>7. LegitimatePeer(p)'
  BY <1>2, IdleElector DEF IInv, Types, Legitimate, LegitimatePeer, MayLead, WonTerm
<1> QED
  BY <1>3, <1>4, <1>5, <1>6, <1>7, QuietStep

LEMMA LeadKeeps ==
    ASSUME IInv, NEW p \in Peer, Lead(p)
    PROVE  IInv'
<1>1. PICK x : x = [pc |-> "proclaim", at |-> Following(p, 0), req |-> term[p], reply |-> "none"]
  OBVIOUS
<1>2. x \in ElectorState /\ x.pc = "proclaim" /\ x.req = term[p] /\ x.reply = "none"
  <2>1. Following(p, 0) \in 0 .. N + 1 /\ term[p] \in Nat
    BY FollowingInRange DEF IInv, Types
  <2> QED
    BY <1>1, <2>1 DEF ElectorState
<1>3. PICK m \in [port : 0 .. N, up : BOOLEAN] : m = [port |-> p, up |-> TRUE]
  <2>1. p \in 0 .. N
    BY PeersFinite DEF Peer
  <2>2. [port |-> p, up |-> TRUE] \in [port : 0 .. N, up : BOOLEAN]
    BY <2>1, LeaderMade
  <2> QED
    BY <2>2, Zenon
<1>4. /\ elector' = [elector EXCEPT ![p] = x]
      /\ state' = [state EXCEPT ![p] = "LEADER"]
      /\ master' = [master EXCEPT ![p] = m]
      /\ elector[p].pc = "won" /\ elector[p].reply = "none"
      /\ UNCHANGED <<up, term, voting, stamp, alive, votes, inbox, verdict, granted, won>>
  BY <1>1, <1>3 DEF Lead, IInv, Calls, RepliesOK, Calling, tallyVars, queueVars, historyVars
<1>5. m.port = p /\ MayLead(p)
  BY <1>3, <1>4 DEF IInv, Legitimate, LegitimatePeer
<1>6. Fades(p)
  BY <1>4, QuietQueues DEF IInv
<1>7. Types'
  BY <1>2, <1>3, <1>4 DEF IInv, Types, States
<1>8. OnlyOf(p)
  BY <1>4 DEF IInv, Types, OnlyOf
<1>9. VotesOf(p)' /\ elector'[p].reply = "none"
  BY <1>2, <1>4 DEF IInv, Types, VotesOf
<1>10. LegitimatePeer(p)'
  <2>1. LegitimatePeer(p)
    BY DEF IInv, Legitimate
  <2>2. elector'[p] = x /\ master'[p] = m /\ term'[p] = term[p]
    BY <1>4 DEF IInv, Types
  <2> QED
    BY <1>2, <1>4, <1>5, <2>1, <2>2 DEF LegitimatePeer, MayLead, WonTerm
<1> QED
  BY <1>6, <1>7, <1>8, <1>9, <1>10, QuietStep

LEMMA RemainMasterKeeps ==
    ASSUME IInv, NEW p \in Peer, RemainMaster(p)
    PROVE  IInv'
<1>1. PICK x : x = [pc |-> "announce", at |-> Following(p, 0), req |-> term[p], reply |-> "none"]
  OBVIOUS
<1>2. x \in ElectorState /\ x.pc = "announce" /\ x.req = term[p] /\ x.reply = "none"
  <2>1. Following(p, 0) \in 0 .. N + 1 /\ term[p] \in Nat
    BY FollowingInRange DEF IInv, Types
  <2> QED
    BY <1>1, <2>1 DEF ElectorState
<1>3. /\ elector' = [elector EXCEPT ![p] = x]
      /\ state[p] = "LEADER" /\ elector[p].reply = "none"
      /\ UNCHANGED <<up, state, term, master, voting, stamp, alive, votes, inbox, verdict,
                     granted, won>>
  BY <1>1, IdleElector DEF RemainMaster, sharedVars, tallyVars, queueVars, historyVars
<1>4. Fades(p)
  BY <1>3, QuietQueues DEF IInv
<1>5. Types'
  BY <1>2, <1>3 DEF IInv, Types
<1>6. OnlyOf(p)
  BY <1>3 DEF IInv, Types, OnlyOf
<1>7. VotesOf(p)' /\ elector'[p].reply = "none"
  BY <1>2, <1>3 DEF IInv, Types, VotesOf
<1>8. LegitimatePeer(p)'
  BY <1>2, <1>3 DEF IInv, Types, Legitimate, LegitimatePeer, MayLead, WonTerm
<1> QED
  BY <1>4, <1>5, <1>6, <1>7, <1>8, QuietStep

LEMMA AnnouncedKeeps ==
    ASSUME IInv, NEW p \in Peer, Announced(p)
    PROVE  IInv'
<1>1. /\ elector' = [elector EXCEPT ![p] = Idle]
      /\ elector[p].reply = "none"
      /\ voting' \in {voting, [voting EXCEPT ![p] = FALSE]}
      /\ UNCHANGED <<up, state, term, master, stamp, alive, votes, inbox, verdict, granted, won>>
  BY DEF Announced, Announces, IInv, Calls, RepliesOK, Calling, tallyVars, queueVars, historyVars
<1> HIDE DEF Idle
<1>2. Fades(p)
  BY <1>1, QuietQueues DEF IInv
<1>3. Types'
  <2>1. voting' \in [Peer -> BOOLEAN]
    BY <1>1 DEF IInv, Types
  <2> QED
    BY <1>1, <2>1, IdleElector DEF IInv, Types
<1>4. OnlyOf(p)
  BY <1>1 DEF IInv, Types, OnlyOf
<1>5. VotesOf(p)' /\ elector'[p].reply = "none"
  BY <1>1, IdleElector DEF IInv, Types, VotesOf
<1>6. LegitimatePeer(p)'
  BY <1>1, IdleElector DEF IInv, Types, Legitimate, LegitimatePeer, MayLead, WonTerm
<1> QED
  BY <1>2, <1>3, <1>4, <1>5, <1>6, QuietStep

\* A vote is recorded for the peer that was asked.
LEMMA CountVoteKeeps ==
    ASSUME IInv, NEW p \in Peer, CountVote(p)
    PROVE  IInv'
<1>1. PICK q \in Peer : q = elector[p].at
  BY DEF CountVote, Polls
<1>2. /\ elector[p].pc = "poll" /\ elector[p].reply \in {"yes", "no"} /\ Advance(p)
      /\ alive' = [alive EXCEPT ![p] = @ \cup {q}]
      /\ votes' = IF elector[p].reply = "yes" THEN [votes EXCEPT ![p] = @ \cup {q}] ELSE votes
      /\ UNCHANGED <<up, state, term, master, voting, stamp, inbox, verdict, granted, won>>
  BY <1>1 DEF CountVote, Polls, sharedVars, queueVars, historyVars
<1>3. /\ elector' \in [Peer -> ElectorState]
      /\ elector'[p].pc = "poll" /\ elector'[p].reply = "none"
      /\ \A r \in Peer : r # p => elector'[r] = elector[r]
  BY <1>1, <1>2, AdvanceTypes DEF IInv, Types
<1>4. Fades(p)
  BY <1>2, QuietQueues DEF IInv
<1>5. Types'
  <2>1. alive' \in [Peer -> SUBSET Peer] /\ votes' \in [Peer -> SUBSET Peer]
    BY <1>2 DEF IInv, Types
  <2> QED
    BY <1>2, <1>3, <2>1 DEF IInv, Types
<1>6. OnlyOf(p)
  BY <1>2, <1>3 DEF IInv, Types, OnlyOf
<1>7. VotesOf(p)'
  <2>1. elector[p].reply = "yes" => q \in granted[p]
    BY <1>1, <1>2 DEF IInv, VotesOK
  <2>2. votes[p] \ {p} \subseteq granted[p]
    BY <1>2 DEF IInv, VotesOK
  <2> QED
    BY <1>2, <1>3, <2>1, <2>2 DEF IInv, Types, VotesOf
<1>8. LegitimatePeer(p)'
  BY <1>2, <1>3 DEF IInv, Types, Legitimate, LegitimatePeer, MayLead, WonTerm
<1> QED
  BY <1>3, <1>4, <1>5, <1>6, <1>7, <1>8, QuietStep

LEMMA NoVoteKeeps ==
    ASSUME IInv, NEW p \in Peer, NoVote(p)
    PROVE  IInv'
<1>1. PICK q \in Peer : q = elector[p].at
  BY DEF NoVote, Polls
<1>2. /\ elector[p].pc = "poll" /\ Advance(p)
      /\ (elector[p].reply = "none" /\ UNCHANGED inbox) \/ NoAnswer(p)
      /\ alive' = [alive EXCEPT ![p] = @ \ {q}]
      /\ UNCHANGED <<up, state, term, master, voting, stamp, votes, verdict, granted, won>>
  BY <1>1 DEF NoVote, Polls, sharedVars, historyVars
<1>3. /\ elector' \in [Peer -> ElectorState]
      /\ elector'[p].pc = "poll" /\ elector'[p].reply = "none"
      /\ \A r \in Peer : r # p => elector'[r] = elector[r]
  BY <1>1, <1>2, AdvanceTypes DEF IInv, Types
<1>4. Fades(p)
  <2>1. CASE elector[p].reply = "none" /\ UNCHANGED inbox
    BY <1>2, <2>1, QuietQueues DEF IInv
  <2>2. CASE NoAnswer(p)
    BY <1>2, <2>2, NoAnswerFades DEF IInv
  <2> QED
    BY <1>2, <2>1, <2>2
<1>5. Types'
  <2>1. alive' \in [Peer -> SUBSET Peer]
    BY <1>2 DEF IInv, Types
  <2>2. inbox' \in [Peer -> Seq(Message)]
    BY <1>4 DEF Fades
  <2> QED
    BY <1>2, <1>3, <2>1, <2>2 DEF IInv, Types
<1>6. OnlyOf(p)
  BY <1>2, <1>3 DEF IInv, Types, OnlyOf
<1>7. VotesOf(p)'
  BY <1>2, <1>3 DEF IInv, VotesOK, VotesOf
<1>8. LegitimatePeer(p)'
  BY <1>2, <1>3 DEF IInv, Types, Legitimate, LegitimatePeer, MayLead, WonTerm
<1> QED
  BY <1>3, <1>4, <1>5, <1>6, <1>7, <1>8, QuietStep

LEMMA SendPingKeeps ==
    ASSUME IInv, NEW p \in Peer, SendPing(p)
    PROVE  IInv'
<1>1. PICK q \in 0 .. N : q = master[p].port
  <2>1. master[p].port \in 0 .. N
    BY DEF IInv, Types
  <2> QED
    BY <2>1
<1>2. PICK x \in ElectorState : x = [pc |-> "ping", at |-> q, req |-> 0, reply |-> "wait"]
  <2>1. q \in 0 .. N + 1
    BY PeersFinite
  <2>2. [pc |-> "ping", at |-> q, req |-> 0, reply |-> "wait"] \in ElectorState
    BY <2>1 DEF ElectorState
  <2> QED
    BY <2>2
<1>3. PICK m \in Message :
        m = [type |-> "PING", from |-> p, term |-> 0, votes |-> 0, live |-> TRUE]
  BY MessagesMade
<1>4. /\ elector[p].reply = "none"
      /\ elector' = [elector EXCEPT ![p] = x]
      /\ (q \in Peer /\ Put(q, m)) \/ UNCHANGED inbox
      /\ UNCHANGED <<up, state, term, master, voting, stamp, alive, votes, verdict, granted, won>>
  BY <1>1, <1>2, <1>3, IdleElector, PeersFinite
     DEF SendPing, Peer, sharedVars, tallyVars, historyVars
<1>5. /\ x.pc = "ping" /\ x.at = q /\ x.reply = "wait"
      /\ elector'[p] = x
  BY <1>2, <1>4 DEF IInv, Types
<1>6. OnlyOf(p)
  BY <1>4 DEF IInv, Types, OnlyOf
<1>7. VotesOf(p)' /\ Calling(p)'
  <2>1. elector'[p].pc = "ping"
    BY <1>5
  <2>2. Calling(p)'
    BY <2>1 DEF Calling
  <2>3. VotesOf(p)'
    BY <2>1 DEF VotesOf
  <2> QED
    BY <2>2, <2>3
<1>8. LegitimatePeer(p)'
  BY <1>4, <1>5 DEF IInv, Types, Legitimate, LegitimatePeer, MayLead, WonTerm
<1>9. CASE q \in Peer /\ Put(q, m)
  <2>1. Arrives(q, m)
    BY <1>9, PutArrives DEF IInv
  <2>2. Types'
    BY <1>4, <2>1 DEF IInv, Types, Arrives
  <2>3. Awaits(p, q, m.type)' /\ m.from = p /\ m.type # "MSTR"
    BY <1>3, <1>4, <1>5 DEF IInv, Types, Awaits
  <2> QED
    BY <1>4, <1>6, <1>7, <1>8, <1>9, <2>1, <2>2, <2>3, SendingStep
<1>10. CASE UNCHANGED inbox
  <2>1. Fades(p)
    BY <1>4, <1>10, QuietQueues DEF IInv
  <2>2. Types'
    BY <1>4, <1>10 DEF IInv, Types
  <2> QED
    BY <1>6, <1>7, <1>8, <2>1, <2>2, QuietStep
<1> QED
  BY <1>4, <1>9, <1>10

LEMMA AskKeeps ==
    ASSUME IInv, NEW p \in Peer, Ask(p)
    PROVE  IInv'
<1>1. PICK q \in Peer : q = elector[p].at
  BY DEF Ask, Polls
<1>2. PICK m \in Message : m = [type |-> "CAND", from |-> p, term |-> elector[p].req,
                                votes |-> 0, live |-> TRUE]
  <2>1. elector[p].req \in Nat
    BY DEF IInv, Types, ElectorState
  <2> QED
    BY <2>1, MessagesMade
<1>3. /\ elector[p].pc = "poll" /\ elector[p].reply = "none"
      /\ elector' = [elector EXCEPT ![p].reply = "wait"]
      /\ Put(q, m)
      /\ UNCHANGED <<up, state, term, master, voting, stamp, alive, votes, verdict, granted, won>>
  BY <1>1, <1>2 DEF Ask, Polls, sharedVars, tallyVars, historyVars
<1>4. /\ elector' \in [Peer -> ElectorState]
      /\ elector'[p].pc = "poll" /\ elector'[p].at = q /\ elector'[p].reply = "wait"
      /\ \A r \in Peer : r # p => elector'[r] = elector[r]
  BY <1>1, <1>3, ReplyTypes DEF IInv, Types
<1>5. Arrives(q, m)
  BY <1>3, PutArrives DEF IInv
<1>6. Types'
  BY <1>3, <1>4, <1>5 DEF IInv, Types, Arrives
<1>7. Awaits(p, q, m.type)' /\ m.from = p /\ m.type # "MSTR"
  BY <1>2, <1>4 DEF Awaits
<1>8. OnlyOf(p)
  BY <1>3, <1>4 DEF OnlyOf
<1>9. VotesOf(p)' /\ Calling(p)'
  BY <1>3, <1>4 DEF IInv, VotesOK, VotesOf, Calling
<1>10. LegitimatePeer(p)'
  BY <1>3, <1>4 DEF IInv, Types, Legitimate, LegitimatePeer, MayLead, WonTerm
<1> QED
  BY <1>3, <1>5, <1>6, <1>7, <1>8, <1>9, <1>10, SendingStep

LEMMA AnnounceKeeps ==
    ASSUME IInv, NEW p \in Peer, Announce(p)
    PROVE  IInv'
<1>1. PICK q \in Peer : q = elector[p].at
  BY DEF Announce
<1>2. PICK m \in Message : m = [type |-> "MSTR", from |-> p, term |-> elector[p].req,
                                votes |-> Cardinality(votes[p]), live |-> FALSE]
  <2>1. elector[p].req \in Nat /\ Cardinality(votes[p]) \in Nat
    BY PeersFinite DEF IInv, Types, ElectorState
  <2> QED
    BY <2>1, MessagesMade
<1>3. /\ elector[p].pc \in {"announce", "proclaim"} /\ Advance(p)
      /\ Put(q, m) \/ UNCHANGED inbox
      /\ UNCHANGED <<up, state, term, master, voting, stamp, alive, votes, verdict, granted, won>>
  BY <1>1, <1>2 DEF Announce, Announces, sharedVars, tallyVars, historyVars
<1>4. elector[p].reply = "none"
  BY <1>3 DEF IInv, Calls, RepliesOK, Calling
<1>5. /\ elector' \in [Peer -> ElectorState]
      /\ elector'[p].pc = elector[p].pc /\ elector'[p].req = elector[p].req
      /\ elector'[p].reply = "none"
      /\ \A r \in Peer : r # p => elector'[r] = elector[r]
  BY <1>1, <1>3, AdvanceTypes DEF IInv, Types
<1>6. OnlyOf(p)
  BY <1>3, <1>5 DEF OnlyOf
<1>7. VotesOf(p)'
  BY <1>3, <1>5 DEF VotesOf
<1>8. LegitimatePeer(p)'
  BY <1>3, <1>5 DEF IInv, Types, Legitimate, LegitimatePeer, MayLead, WonTerm
<1>9. CASE Put(q, m)
  <2>1. Arrives(q, m)
    BY <1>9, PutArrives DEF IInv
  <2>2. Types'
    BY <1>3, <1>5, <2>1 DEF IInv, Types, Arrives
  <2>3. m.live = FALSE /\ m.from = p /\ m.term = elector[p].req
    BY <1>2
  <2>4. m.from # 0 /\ MayLead(m.from) /\ WonTerm(m.term)
    BY <1>3, <2>3 DEF IInv, Legitimate, LegitimatePeer, Peer
  <2> QED
    BY <1>3, <1>4, <1>5, <1>6, <1>7, <1>8, <2>1, <2>2, <2>3, <2>4, SendingStep
<1>10. CASE UNCHANGED inbox
  <2>1. Fades(p)
    BY <1>3, <1>4, <1>10, QuietQueues DEF IInv
  <2>2. Types'
    BY <1>3, <1>5, <1>10 DEF IInv, Types
  <2> QED
    BY <1>5, <1>6, <1>7, <1>8, <2>1, <2>2, QuietStep
<1> QED
  BY <1>3, <1>9, <1>10

-----------------------------------------------------------------------------
(* Clients, clocks and processes keep the invariant.                       *)

\* The clock, a restart and a stuttering step touch nothing the rest speaks of.
LEMMA UntouchedStep ==
    ASSUME IInv, Types',
           UNCHANGED <<state, term, master, votes, elector, inbox, verdict, granted, won>>
    PROVE  IInv'
<1>1. Calls'
  BY DEF IInv, Calls, CallsOK, OneCall, RepliesOK, Calling, Awaits
<1>2. VerdictsOK' /\ VotesOK'
  BY DEF IInv, VerdictsOK, VotesOK
<1>3. LegitimateMessages'
  BY DEF IInv, Legitimate, LegitimateMessages, MayLead, WonTerm
<1>4. \A p \in Peer : LegitimatePeer(p)'
  BY DEF IInv, Legitimate, LegitimatePeer, MayLead, WonTerm
<1> QED
  BY <1>1, <1>2, <1>3, <1>4 DEF IInv, Legitimate

LEMMA ExpireKeeps ==
    ASSUME IInv, NEW p \in Peer, Expire(p)
    PROVE  IInv'
<1>1. /\ stamp' = [stamp EXCEPT ![p] = "old"]
      /\ UNCHANGED <<up, state, term, master, voting, alive, votes, elector, inbox, verdict,
                     granted, won>>
  BY DEF Expire, tallyVars, queueVars, historyVars
<1>2. Types'
  BY <1>1 DEF IInv, Types, Stamps
<1> QED
  BY <1>1, <1>2, UntouchedStep

LEMMA RestartKeeps ==
    ASSUME IInv, NEW p \in Peer, Restart(p)
    PROVE  IInv'
<1>1. /\ up' = [up EXCEPT ![p] = TRUE]
      /\ UNCHANGED <<state, term, master, voting, stamp, alive, votes, elector, inbox, verdict,
                     granted, won>>
  BY DEF Restart, sharedVars, tallyVars, queueVars, historyVars
<1>2. Types'
  BY <1>1 DEF IInv, Types
<1> QED
  BY <1>1, <1>2, UntouchedStep

LEMMA ForceElectionKeeps ==
    ASSUME IInv, NEW p \in Peer, ForceElection(p)
    PROVE  IInv'
<1>1. PICK m \in Message :
        m = [type |-> "ELCT", from |-> 0, term |-> 0, votes |-> 0, live |-> FALSE]
  <2>1. [type |-> "ELCT", from |-> 0, term |-> 0, votes |-> 0, live |-> FALSE] \in Message
    BY MessagesMade
  <2> QED
    BY <2>1
<1>2. /\ Put(p, m) /\ m.live = FALSE /\ m.type # "MSTR"
      /\ UNCHANGED <<up, state, term, master, voting, stamp, alive, votes, elector, verdict,
                     granted, won>>
  BY <1>1 DEF ForceElection, sharedVars, tallyVars, historyVars
<1>3. Arrives(p, m)
  BY <1>2, PutArrives DEF IInv
<1>4. Types'
  BY <1>2, <1>3 DEF IInv, Types, Arrives
<1>5. OnlyOf(p)
  BY <1>2 DEF OnlyOf
<1>6. VotesOf(p)'
  BY <1>2 DEF IInv, VotesOK, VotesOf
<1>7. elector'[p].reply # "none" => Calling(p)'
  BY <1>2 DEF IInv, Calls, RepliesOK, Calling
<1>8. LegitimatePeer(p)'
  BY <1>2 DEF IInv, Legitimate, LegitimatePeer, MayLead, WonTerm
<1> QED
  BY <1>2, <1>3, <1>4, <1>5, <1>6, <1>7, <1>8, SendingStep

LEMMA CrashKeeps ==
    ASSUME IInv, NEW p \in Peer, Crash(p)
    PROVE  IInv'
<1>1. /\ up' = [up EXCEPT ![p] = FALSE]
      /\ state' = [state EXCEPT ![p] = "FOLLOWER"]
      /\ term' = [term EXCEPT ![p] = 0]
      /\ master' = [master EXCEPT ![p] = NoMaster]
      /\ voting' = [voting EXCEPT ![p] = FALSE]
      /\ alive' = [alive EXCEPT ![p] = {}]
      /\ votes' = [votes EXCEPT ![p] = {}]
      /\ granted' = [granted EXCEPT ![p] = {}]
      /\ elector' = [elector EXCEPT ![p] = Idle]
      /\ verdict' = [verdict EXCEPT ![p] = "none"]
      /\ UNCHANGED won
  BY DEF Crash
<1>2. PICK s \in Stamps : stamp' = [stamp EXCEPT ![p] = s]
  BY PeersFinite DEF Crash
<1> HIDE DEF Idle, NoMaster
<1>3. Fades(p)
  BY CrashFades DEF IInv
<1>4. Types'
  <2>1. /\ up' \in [Peer -> BOOLEAN] /\ state' \in [Peer -> States]
        /\ term' \in [Peer -> Nat] /\ voting' \in [Peer -> BOOLEAN]
    BY <1>1 DEF IInv, Types, States
  <2>2. /\ master' \in [Peer -> [port : 0 .. N, up : BOOLEAN]]
        /\ elector' \in [Peer -> ElectorState]
    BY <1>1, IdleElector DEF IInv, Types
  <2>3. /\ alive' \in [Peer -> SUBSET Peer] /\ votes' \in [Peer -> SUBSET Peer]
        /\ granted' \in [Peer -> SUBSET Peer]
    BY <1>1 DEF IInv, Types
  <2>4. stamp' \in [Peer -> Stamps] /\ verdict' \in [Peer -> Verdicts]
    BY <1>1, <1>2 DEF IInv, Types, Verdicts
  <2>5. inbox' \in [Peer -> Seq(Message)]
    BY <1>3 DEF Fades
  <2> QED
    BY <2>1, <2>2, <2>3, <2>4, <2>5 DEF Types
<1>5. OnlyOf(p)
  BY <1>1 DEF IInv, Types, OnlyOf
<1>6. VotesOf(p)' /\ elector'[p].reply = "none"
  BY <1>1, IdleElector DEF IInv, Types, VotesOf
<1>7. LegitimatePeer(p)'
  <2>1. /\ master'[p] = NoMaster /\ state'[p] = "FOLLOWER" /\ term'[p] = 0
        /\ elector'[p] = Idle
    BY <1>1 DEF IInv, Types
  <2> QED
    BY <2>1, IdleElector DEF LegitimatePeer, MayLead, WonTerm
<1> QED
  BY <1>3, <1>4, <1>5, <1>6, <1>7, QuietStep

-----------------------------------------------------------------------------
(* Every step of the server keeps the invariant.                           *)

Unlocked(p) == inbox[p] # <<>> /\ UNCHANGED <<up, tallyVars, won, boundVars>>

\* Whom the server answers waits for it: the answer is one to the call under way.
LEMMA ReplyAnswers ==
    ASSUME Types, Calls, NEW p \in Peer, inbox[p] # <<>>,
           NEW answer \in {"yes", "no", "pong"}, Reply(Head(inbox[p]), answer)
    PROVE  /\ Answers(inbox[p][1], answer)
           /\ elector' \in [Peer -> ElectorState]
<1>1. 1 \in DOMAIN inbox[p] /\ Head(inbox[p]) = inbox[p][1]
  BY Dequeued DEF Types
<1>2. CASE inbox[p][1].live
  <2>1. inbox[p][1].from \in Peer
    BY <1>1, <1>2 DEF Calls, CallsOK, Awaits
  <2>2. PICK c \in Peer : c = inbox[p][1].from
    BY <2>1
  <2>3. elector' = [elector EXCEPT ![c].reply = answer]
    BY <1>1, <1>2, <2>2 DEF Reply
  <2>4. elector' \in [Peer -> ElectorState]
    BY <2>3, ReplyTypes DEF Types
  <2> QED
    BY <1>2, <2>2, <2>3, <2>4 DEF Answers
<1>3. CASE ~ inbox[p][1].live
  BY <1>1, <1>3 DEF Types, Reply, Answers
<1> QED
  BY <1>2, <1>3

\* A yes is recorded as granted when it is given.
LEMMA VotesAnswered ==
    ASSUME Types, Calls, VotesOK, NEW p \in Peer, inbox[p] # <<>>,
           NEW answer \in {"yes", "no", "pong"}, Answers(inbox[p][1], answer),
           UNCHANGED votes, \A r \in Peer : granted[r] \subseteq granted'[r],
           answer = "yes" /\ inbox[p][1].live => p \in granted'[inbox[p][1].from]
    PROVE  VotesOK'
<1>1. 1 \in DOMAIN inbox[p]
  BY FirstOfQueue DEF Types
<1>2. CASE UNCHANGED elector
  BY <1>2 DEF VotesOK
<1>3. CASE /\ inbox[p][1].live /\ inbox[p][1].from \in Peer
           /\ elector' = [elector EXCEPT ![inbox[p][1].from].reply = answer]
  <2>1. PICK c \in Peer : c = inbox[p][1].from
    BY <1>3
  <2>2. elector' = [elector EXCEPT ![c].reply = answer] /\ elector \in [Peer -> ElectorState]
    BY <1>3, <2>1 DEF Types
  <2>3. /\ \A r \in Peer : elector'[r].pc = elector[r].pc /\ elector'[r].at = elector[r].at
        /\ \A r \in Peer : r # c => elector'[r] = elector[r]
        /\ elector'[c].reply = answer
    BY <2>2, ReplyTypes
  <2>4. elector[c].at = p
    BY <1>1, <1>3, <2>1 DEF Calls, CallsOK, Awaits
  <2>5. answer = "yes" => p \in granted'[c]
    BY <1>3, <2>1
  <2>6. ASSUME NEW r \in Peer, elector'[r].pc = "poll"
        PROVE  /\ votes'[r] \ {r} \subseteq granted'[r]
               /\ elector'[r].reply = "yes" => elector'[r].at \in granted'[r]
    <3>1. /\ votes[r] \ {r} \subseteq granted[r] /\ granted[r] \subseteq granted'[r]
          /\ elector[r].reply = "yes" => elector[r].at \in granted[r]
      BY <2>3, <2>6 DEF VotesOK
    <3>2. CASE r = c
      BY <2>3, <2>4, <2>5, <3>1, <3>2
    <3>3. CASE r # c
      BY <2>3, <3>1, <3>3
    <3> QED
      BY <3>2, <3>3
  <2> QED
    BY <2>6 DEF VotesOK
<1> QED
  BY <1>2, <1>3 DEF Answers

\* The types and the legitimacy of what a server leaves in its own variables.
OwnVariables(p) ==
    /\ state' \in [Peer -> States] /\ term' \in [Peer -> Nat]
    /\ master' \in [Peer -> [port : 0 .. N, up : BOOLEAN]]
    /\ voting' \in [Peer -> BOOLEAN] /\ stamp' \in [Peer -> Stamps]
    /\ \A r \in Peer : r # p =>
        state'[r] = state[r] /\ term'[r] = term[r] /\ master'[r].port = master[r].port
    /\ state'[p] = "LEADER" => state[p] = "LEADER"
    /\ MayLead(master'[p].port) /\ WonTerm(term'[p])

LEMMA ServersLegitimate ==
    ASSUME IInv, NEW p \in Peer, OwnVariables(p), UNCHANGED won,
           \A r \in Peer : elector'[r].pc = elector[r].pc /\ elector'[r].req = elector[r].req
    PROVE  \A r \in Peer : LegitimatePeer(r)'
<1> SUFFICES ASSUME NEW r \in Peer PROVE LegitimatePeer(r)'
  OBVIOUS
<1>1. LegitimatePeer(r)
  BY DEF IInv, Legitimate
<1>2. CASE r = p
  BY <1>1, <1>2 DEF LegitimatePeer, OwnVariables, MayLead, WonTerm
<1>3. CASE r # p
  BY <1>1, <1>3 DEF LegitimatePeer, OwnVariables, MayLead, WonTerm
<1> QED
  BY <1>2, <1>3

LEMMA AnsweredRounds ==
    ASSUME Types, NEW m, NEW answer \in {"yes", "no", "pong"}, Answers(m, answer)
    PROVE  \A r \in Peer : elector'[r].pc = elector[r].pc /\ elector'[r].req = elector[r].req
<1>1. CASE UNCHANGED elector
  BY <1>1
<1>2. CASE m.live /\ m.from \in Peer /\ elector' = [elector EXCEPT ![m.from].reply = answer]
  <2>1. PICK c \in Peer : c = m.from
    BY <1>2
  <2>2. elector' = [elector EXCEPT ![c].reply = answer] /\ elector \in [Peer -> ElectorState]
    BY <1>2, <2>1 DEF Types
  <2> QED
    BY <2>2, ReplyTypes
<1> QED
  BY <1>1, <1>2 DEF Answers

\* The message is answered, if anybody waits, and done with.
LEMMA HandledStep ==
    ASSUME IInv, NEW p \in Peer, Unlocked(p), Done(p),
           NEW answer \in {"yes", "no", "pong"}, Answers(inbox[p][1], answer),
           elector' \in [Peer -> ElectorState],
           granted' \in [Peer -> SUBSET Peer],
           \A r \in Peer : granted[r] \subseteq granted'[r],
           answer = "yes" /\ inbox[p][1].live => p \in granted'[inbox[p][1].from],
           OwnVariables(p)
    PROVE  IInv'
<1>1. inbox[p] # <<>> /\ UNCHANGED <<up, alive, votes, won>>
  BY DEF Unlocked, tallyVars
<1>2. Leaves(p) /\ verdict' = [verdict EXCEPT ![p] = "none"]
  BY <1>1, DoneLeaves DEF IInv
<1>3. Types'
  <2>1. verdict' \in [Peer -> Verdicts]
    BY <1>2 DEF IInv, Types, Verdicts
  <2> QED
    BY <1>1, <1>2, <2>1 DEF IInv, Types, Leaves, OwnVariables
<1>4. Calls'
  BY <1>1, <1>2, CallsLeave DEF IInv
<1>5. VerdictsOK'
  BY <1>2 DEF IInv, Types, VerdictsOK, Leaves
<1>6. VotesOK'
  BY <1>1, VotesAnswered DEF IInv
<1>7. LegitimateMessages'
  BY <1>1, <1>2, MessagesLeave DEF IInv, Legitimate
<1>8. \A r \in Peer : LegitimatePeer(r)'
  BY <1>1, AnsweredRounds, ServersLegitimate DEF IInv
<1> QED
  BY <1>3, <1>4, <1>5, <1>6, <1>7, <1>8 DEF IInv, Legitimate

\* The message stays under way, with a verdict on it.
LEMMA DecidedStep ==
    ASSUME IInv, NEW p \in Peer, Unlocked(p), NEW v \in Verdicts, Decide(p, v),
           v = "overtaken" => inbox[p][1].type = "MSTR",
           OwnVariables(p)
    PROVE  IInv'
<1>1. inbox[p] # <<>> /\ UNCHANGED <<up, alive, votes, won>>
  BY DEF Unlocked, tallyVars
<1>2. /\ verdict' = [verdict EXCEPT ![p] = v]
      /\ UNCHANGED <<state, term, voting, stamp, elector, inbox, granted>>
  BY DEF Decide
<1>3. Types'
  BY <1>1, <1>2 DEF IInv, Types, OwnVariables
<1>4. Calls'
  BY <1>2 DEF IInv, Calls, CallsOK, OneCall, RepliesOK, Calling, Awaits
<1>5. VerdictsOK'
  BY <1>1, <1>2 DEF IInv, Types, VerdictsOK
<1>6. VotesOK'
  BY <1>1, <1>2 DEF IInv, VotesOK
<1>7. LegitimateMessages'
  BY <1>1, <1>2 DEF IInv, Legitimate, LegitimateMessages, MayLead, WonTerm
<1>8. \A r \in Peer : LegitimatePeer(r)'
  BY <1>1, <1>2, ServersLegitimate
<1> QED
  BY <1>3, <1>4, <1>5, <1>6, <1>7, <1>8 DEF IInv, Legitimate

\* Most messages leave the peer in its state and its term, with the same master.
LEMMA SameMaster ==
    ASSUME IInv, NEW p \in Peer, UNCHANGED <<state, term, won>>,
           master' \in [Peer -> [port : 0 .. N, up : BOOLEAN]],
           \A r \in Peer : master'[r].port = master[r].port,
           voting' \in [Peer -> BOOLEAN], stamp' \in [Peer -> Stamps]
    PROVE  OwnVariables(p)
<1>1. LegitimatePeer(p)
  BY DEF IInv, Legitimate
<1> QED
  BY <1>1 DEF IInv, Types, OwnVariables, LegitimatePeer, MayLead, WonTerm

\* An answer given in no granted round, or none at all.
LEMMA SameGrants ==
    ASSUME IInv, UNCHANGED granted
    PROVE  granted' \in [Peer -> SUBSET Peer] /\ \A r \in Peer : granted[r] \subseteq granted'[r]
BY DEF IInv, Types

LEMMA NotAnswering ==
    ASSUME IInv, UNCHANGED elector, NEW m
    PROVE  Answers(m, "no") /\ elector' \in [Peer -> ElectorState]
BY DEF IInv, Types, Answers

LEMMA AnswerPingKeeps ==
    ASSUME IInv, NEW p \in Peer, Unlocked(p), AnswerPing(p, Head(inbox[p]))
    PROVE  IInv'
<1>1. /\ Confirm(p, Head(inbox[p])) /\ Reply(Head(inbox[p]), "pong") /\ Done(p)
      /\ UNCHANGED <<state, term, voting, stamp, granted, won>>
  BY DEF AnswerPing, Unlocked
<1>2. OwnVariables(p)
  BY <1>1, ConfirmTypes, SameMaster DEF IInv, Types
<1>3. Answers(inbox[p][1], "pong") /\ elector' \in [Peer -> ElectorState]
  BY <1>1, ReplyAnswers DEF IInv, Unlocked
<1> QED
  BY <1>1, <1>2, <1>3, SameGrants, HandledStep

LEMMA RefuseBusyKeeps ==
    ASSUME IInv, NEW p \in Peer, Unlocked(p), RefuseBusy(p, Head(inbox[p]))
    PROVE  IInv'
<1>1. /\ Confirm(p, Head(inbox[p])) /\ Reply(Head(inbox[p]), "no") /\ Done(p)
      /\ UNCHANGED <<state, term, voting, stamp, granted, won>>
  BY DEF RefuseBusy, Unlocked
<1>2. OwnVariables(p)
  BY <1>1, ConfirmTypes, SameMaster DEF IInv, Types
<1>3. Answers(inbox[p][1], "no") /\ elector' \in [Peer -> ElectorState]
  BY <1>1, ReplyAnswers DEF IInv, Unlocked
<1> QED
  BY <1>1, <1>2, <1>3, SameGrants, HandledStep

LEMMA JudgeCandidateKeeps ==
    ASSUME IInv, NEW p \in Peer, Unlocked(p), JudgeCandidate(p, Head(inbox[p]))
    PROVE  IInv'
<1>1. PICK v \in Verdicts : v \in {"grant", "refuse"} /\ Decide(p, v)
  BY DEF JudgeCandidate, Verdicts
<1>2. Confirm(p, Head(inbox[p])) /\ UNCHANGED <<state, term, voting, stamp, won>>
  BY <1>1 DEF JudgeCandidate, Decide, Unlocked
<1>3. OwnVariables(p)
  BY <1>2, ConfirmTypes, SameMaster DEF IInv, Types
<1> QED
  BY <1>1, <1>3, DecidedStep

LEMMA RandomVoteKeeps ==
    ASSUME IInv, NEW p \in Peer, Unlocked(p), RandomVote(p, Head(inbox[p]))
    PROVE  IInv'
<1>1. PICK m \in Message : m = Head(inbox[p]) /\ m = inbox[p][1]
  BY Dequeued DEF IInv, Types, Unlocked
<1>2. PICK answer \in {"yes", "no"} :
        /\ Reply(m, answer)
        /\ granted' = IF m.live /\ answer = "yes"
                      THEN [granted EXCEPT ![m.from] = @ \cup {p}] ELSE granted
  BY <1>1 DEF RandomVote
<1>3. Confirm(p, m) /\ Done(p) /\ UNCHANGED <<state, term, voting, stamp, won>>
  BY <1>1 DEF RandomVote, Unlocked
<1>4. OwnVariables(p)
  BY <1>3, ConfirmTypes, SameMaster DEF IInv, Types
<1>5. Answers(inbox[p][1], answer) /\ elector' \in [Peer -> ElectorState]
  BY <1>1, <1>2, ReplyAnswers DEF IInv, Unlocked
<1>6. m.live => m.from \in Peer
  BY <1>1, FirstOfQueue DEF IInv, Types, Calls, CallsOK, Awaits, Unlocked
<1>7. /\ granted' \in [Peer -> SUBSET Peer]
      /\ \A r \in Peer : granted[r] \subseteq granted'[r]
      /\ answer = "yes" /\ m.live => p \in granted'[m.from]
  BY <1>2, <1>6 DEF IInv, Types
<1> QED
  BY <1>1, <1>3, <1>4, <1>5, <1>7, HandledStep

LEMMA GrantKeeps ==
    ASSUME IInv, NEW p \in Peer, Unlocked(p), Grant(p, Head(inbox[p]))
    PROVE  IInv'
<1>1. PICK m \in Message : m = Head(inbox[p]) /\ m = inbox[p][1]
  BY Dequeued DEF IInv, Types, Unlocked
<1>2. /\ Reply(m, "yes") /\ Done(p)
      /\ granted' = IF m.live THEN [granted EXCEPT ![m.from] = @ \cup {p}] ELSE granted
      /\ voting' = [voting EXCEPT ![p] = TRUE]
      /\ UNCHANGED <<state, term, master, stamp, won>>
  BY <1>1 DEF Grant, Unlocked
<1>3. OwnVariables(p)
  BY <1>2, SameMaster DEF IInv, Types
<1>4. Answers(inbox[p][1], "yes") /\ elector' \in [Peer -> ElectorState]
  BY <1>1, <1>2, ReplyAnswers DEF IInv, Unlocked
<1>5. m.live => m.from \in Peer
  BY <1>1, FirstOfQueue DEF IInv, Types, Calls, CallsOK, Awaits, Unlocked
<1>6. /\ granted' \in [Peer -> SUBSET Peer]
      /\ \A r \in Peer : granted[r] \subseteq granted'[r]
      /\ m.live => p \in granted'[m.from]
  BY <1>2, <1>5 DEF IInv, Types
<1> QED
  BY <1>1, <1>2, <1>3, <1>4, <1>6, HandledStep

LEMMA RefuseKeeps ==
    ASSUME IInv, NEW p \in Peer, Unlocked(p), Refuse(p, Head(inbox[p]))
    PROVE  IInv'
<1>1. /\ Reply(Head(inbox[p]), "no") /\ Done(p)
      /\ voting' = [voting EXCEPT ![p] = FALSE]
      /\ UNCHANGED <<state, term, master, stamp, granted, won>>
  BY DEF Refuse, Unlocked
<1>2. OwnVariables(p)
  BY <1>1, SameMaster DEF IInv, Types
<1>3. Answers(inbox[p][1], "no") /\ elector' \in [Peer -> ElectorState]
  BY <1>1, ReplyAnswers DEF IInv, Unlocked
<1> QED
  BY <1>1, <1>2, <1>3, SameGrants, HandledStep

LEMMA HearMasterKeeps ==
    ASSUME IInv, NEW p \in Peer, Unlocked(p), HearMaster(p, Head(inbox[p]))
    PROVE  IInv'
<1>1. /\ Confirm(p, Head(inbox[p])) /\ Done(p)
      /\ stamp' = [stamp EXCEPT ![p] = "recent"]
      /\ UNCHANGED <<state, term, voting, elector, granted, won>>
  BY DEF HearMaster, Unlocked
<1>2. stamp' \in [Peer -> Stamps]
  BY <1>1 DEF IInv, Types, Stamps
<1>3. OwnVariables(p)
  BY <1>1, <1>2, ConfirmTypes, SameMaster DEF IInv, Types
<1> QED
  BY <1>1, <1>3, SameGrants, NotAnswering, HandledStep

LEMMA JudgeMasterKeeps ==
    ASSUME IInv, NEW p \in Peer, Unlocked(p), JudgeMaster(p, Head(inbox[p]))
    PROVE  IInv'
<1>1. PICK v \in Verdicts : Decide(p, v)
  BY DEF JudgeMaster, Verdicts
<1>2. Head(inbox[p]) = inbox[p][1] /\ inbox[p][1].type = "MSTR"
  BY Dequeued DEF IInv, Types, Unlocked, JudgeMaster
<1>3. UNCHANGED <<state, term, master, voting, stamp, won>>
  BY <1>1 DEF JudgeMaster, Decide, Unlocked
<1>4. OwnVariables(p)
  BY <1>3, SameMaster DEF IInv, Types
<1> QED
  BY <1>1, <1>2, <1>4, DecidedStep

\* An announcement is followed: its sender has won, and so has its term been.
LEMMA FollowKeeps ==
    ASSUME IInv, NEW p \in Peer, Unlocked(p),
           inbox[p][1].type = "MSTR", Follow(p, Head(inbox[p]))
    PROVE  IInv'
<1>1. PICK m \in Message : m = Head(inbox[p]) /\ m = inbox[p][1]
  BY Dequeued DEF IInv, Types, Unlocked
<1>2. PICK k \in [port : 0 .. N, up : BOOLEAN] : k = [port |-> m.from, up |-> TRUE]
  <2>1. m.from \in 0 .. N
    BY DEF Message
  <2>2. [port |-> m.from, up |-> TRUE] \in [port : 0 .. N, up : BOOLEAN]
    BY <2>1, LeaderMade
  <2> QED
    BY <2>2, Zenon
<1>3. /\ term' = [term EXCEPT ![p] = m.term]
      /\ master' = [master EXCEPT ![p] = k]
      /\ state' = [state EXCEPT ![p] = "FOLLOWER"]
      /\ voting' = [voting EXCEPT ![p] = FALSE]
      /\ Done(p) /\ UNCHANGED <<stamp, elector, granted, won>>
  BY <1>1, <1>2 DEF Follow, Unlocked
<1>4. MayLead(m.from) /\ WonTerm(m.term)
  <2>1. 1 \in DOMAIN inbox[p]
    BY FirstOfQueue DEF IInv, Types, Unlocked
  <2> QED
    BY <1>1, <2>1 DEF IInv, Legitimate, LegitimateMessages
<1>5. OwnVariables(p)
  <2>1. m.term \in Nat /\ k.port = m.from
    BY <1>2 DEF Message
  <2>2. /\ state' \in [Peer -> States] /\ term' \in [Peer -> Nat]
        /\ master' \in [Peer -> [port : 0 .. N, up : BOOLEAN]]
        /\ voting' \in [Peer -> BOOLEAN] /\ stamp' \in [Peer -> Stamps]
    BY <1>3, <2>1 DEF IInv, Types, States
  <2>3. /\ \A r \in Peer : r # p =>
             state'[r] = state[r] /\ term'[r] = term[r] /\ master'[r].port = master[r].port
        /\ state'[p] = "FOLLOWER" /\ master'[p].port = m.from /\ term'[p] = m.term
    BY <1>3, <2>1 DEF IInv, Types
  <2> QED
    BY <1>4, <2>2, <2>3 DEF OwnVariables
<1> QED
  BY <1>3, <1>5, SameGrants, NotAnswering, HandledStep

LEMMA AcceptMasterKeeps ==
    ASSUME IInv, NEW p \in Peer, Unlocked(p), AcceptMaster(p, Head(inbox[p]))
    PROVE  IInv'
<1>1. inbox[p][1].type = "MSTR"
  BY Dequeued DEF IInv, Types, Unlocked, AcceptMaster
<1> QED
  BY <1>1, FollowKeeps DEF AcceptMaster

LEMMA YieldKeeps ==
    ASSUME IInv, NEW p \in Peer, Unlocked(p), Yield(p, Head(inbox[p]))
    PROVE  IInv'
<1>1. inbox[p][1].type = "MSTR"
  BY DEF IInv, VerdictsOK, Yield
<1> QED
  BY <1>1, FollowKeeps DEF Yield

LEMMA DiscardMasterKeeps ==
    ASSUME IInv, NEW p \in Peer, Unlocked(p), DiscardMaster(p, Head(inbox[p]))
    PROVE  IInv'
<1>1. /\ voting' = [voting EXCEPT ![p] = FALSE] /\ Done(p)
      /\ UNCHANGED <<state, term, master, stamp, elector, granted, won>>
  BY DEF DiscardMaster, Unlocked
<1>2. OwnVariables(p)
  BY <1>1, SameMaster DEF IInv, Types
<1> QED
  BY <1>1, <1>2, SameGrants, NotAnswering, HandledStep

LEMMA IgnoreMasterKeeps ==
    ASSUME IInv, NEW p \in Peer, Unlocked(p), IgnoreMaster(p, Head(inbox[p]))
    PROVE  IInv'
<1>1. Done(p) /\ UNCHANGED <<state, term, master, voting, stamp, elector, granted, won>>
  BY DEF IgnoreMaster, Unlocked, sharedVars
<1>2. OwnVariables(p)
  BY <1>1, SameMaster DEF IInv, Types
<1> QED
  BY <1>1, <1>2, SameGrants, NotAnswering, HandledStep

LEMMA ObeyClientKeeps ==
    ASSUME IInv, NEW p \in Peer, Unlocked(p), ObeyClient(p, Head(inbox[p]))
    PROVE  IInv'
<1>1. /\ Done(p)
      /\ master' = [master EXCEPT ![p] = NoMaster]
      /\ state' = [state EXCEPT ![p] = "CANDIDATE"]
      /\ UNCHANGED <<term, voting, stamp, elector, granted, won>>
  BY DEF ObeyClient, Unlocked
<1> HIDE DEF NoMaster
<1>2. OwnVariables(p)
  <2>1. LegitimatePeer(p)
    BY DEF IInv, Legitimate
  <2>2. /\ state' \in [Peer -> States]
        /\ master' \in [Peer -> [port : 0 .. N, up : BOOLEAN]]
        /\ state'[p] = "CANDIDATE" /\ master'[p].port = 0
        /\ \A r \in Peer : r # p => state'[r] = state[r] /\ master'[r] = master[r]
    BY <1>1, IdleElector DEF IInv, Types, States
  <2> QED
    BY <1>1, <2>1, <2>2 DEF IInv, Types, OwnVariables, LegitimatePeer, MayLead, WonTerm
<1> QED
  BY <1>1, <1>2, SameGrants, NotAnswering, HandledStep

-----------------------------------------------------------------------------
(* The theorems.                                                           *)

LEMMA InitEstablishes == Init => IInv
<1> SUFFICES ASSUME Init PROVE IInv
  OBVIOUS
<1>1. \A p \in Peer : elector[p] = Idle /\ inbox[p] = <<>> /\ master[p] = NoMaster
  BY DEF Init
<1>2. \A p \in Peer : DOMAIN inbox[p] = {}
  BY <1>1
<1> HIDE DEF Idle, NoMaster
<1>3. Types
  <2>1. /\ up \in [Peer -> BOOLEAN] /\ state \in [Peer -> States] /\ term \in [Peer -> Nat]
        /\ voting \in [Peer -> BOOLEAN]
        /\ alive \in [Peer -> SUBSET Peer] /\ votes \in [Peer -> SUBSET Peer]
        /\ granted \in [Peer -> SUBSET Peer] /\ verdict \in [Peer -> Verdicts]
    BY DEF Init, States, Verdicts
  <2>2. stamp \in [Peer -> Stamps]
    BY PeersFinite DEF Init
  <2>3. /\ master \in [Peer -> [port : 0 .. N, up : BOOLEAN]]
        /\ elector \in [Peer -> ElectorState]
    BY IdleElector DEF Init
  <2>4. inbox \in [Peer -> Seq(Message)]
    BY EmptySeq DEF Init
  <2> QED
    BY <2>1, <2>2, <2>3, <2>4 DEF Types
<1>4. Calls
  BY <1>1, <1>2, IdleElector DEF Calls, CallsOK, OneCall, RepliesOK
<1>5. VerdictsOK
  BY DEF Init, VerdictsOK
<1>6. VotesOK
  BY <1>1, IdleElector DEF VotesOK
<1>7. LegitimateMessages
  BY <1>2 DEF LegitimateMessages
<1>8. \A p \in Peer : LegitimatePeer(p)
  <2>1. \A p \in Peer : state[p] = "FOLLOWER" /\ term[p] = 0
    BY DEF Init
  <2> QED
    BY <1>1, <2>1, IdleElector DEF LegitimatePeer, MayLead, WonTerm
<1> QED
  BY <1>3, <1>4, <1>5, <1>6, <1>7, <1>8 DEF IInv, Legitimate

LEMMA ElectorKeeps ==
    ASSUME IInv, NEW p \in Peer, Elector(p) \/ ByzantineElector(p)
    PROVE  IInv'
BY SuspectKeeps, SendPingKeeps, PongKeeps, NoPongKeeps, StandKeeps, BeginKeeps, AskKeeps,
   CountVoteKeeps, NoVoteKeeps, WinKeeps, GiveUpKeeps, LeadKeeps, RemainMasterKeeps,
   AnnounceKeeps, AnnouncedKeeps, RandomiseStateKeeps, ChangeStateKeeps
   DEF Elector, ByzantineElector

LEMMA ServerKeeps ==
    ASSUME IInv, NEW p \in Peer, Server(p)
    PROVE  IInv'
<1>1. Unlocked(p)
  BY DEF Server, Unlocked
<1>2. CASE Judge(p, Head(inbox[p]))
  BY <1>1, <1>2, AnswerPingKeeps, RefuseBusyKeeps, JudgeCandidateKeeps, RandomVoteKeeps,
     HearMasterKeeps, JudgeMasterKeeps, AcceptMasterKeeps, IgnoreMasterKeeps, ObeyClientKeeps
     DEF Judge
<1>3. CASE CarryOut(p, Head(inbox[p]))
  BY <1>1, <1>3, GrantKeeps, RefuseKeeps, YieldKeeps, DiscardMasterKeeps DEF CarryOut
<1> QED
  BY <1>2, <1>3 DEF Server

LEMMA NextKeeps == IInv /\ [Next]_vars => IInv'
<1> SUFFICES ASSUME IInv, [Next]_vars PROVE IInv'
  OBVIOUS
<1>1. ASSUME NEW p \in Peer, Elector(p) \/ ByzantineElector(p) PROVE IInv'
  BY <1>1, ElectorKeeps
<1>2. ASSUME NEW p \in Peer, Server(p) PROVE IInv'
  BY <1>2, ServerKeeps
<1>3. ASSUME NEW p \in Peer, ForceElection(p) PROVE IInv'
  BY <1>3, ForceElectionKeeps
<1>4. ASSUME NEW p \in Peer, Expire(p) PROVE IInv'
  BY <1>4, ExpireKeeps
<1>5. ASSUME NEW p \in Peer, Crash(p) PROVE IInv'
  BY <1>5, CrashKeeps
<1>6. ASSUME NEW p \in Peer, Restart(p) PROVE IInv'
  BY <1>6, RestartKeeps
<1>7. CASE UNCHANGED vars
  <2>1. Types'
    BY <1>7 DEF IInv, Types, vars, sharedVars, tallyVars, queueVars, historyVars
  <2> QED
    BY <1>7, <2>1, UntouchedStep DEF vars, sharedVars, tallyVars, queueVars, historyVars
<1> QED
  BY <1>1, <1>2, <1>3, <1>4, <1>5, <1>6, <1>7 DEF Next

\* The inductive invariant holds in every reachable state.
THEOREM ElectionInvariant == Spec => []IInv
BY InitEstablishes, NextKeeps, PTL DEF Spec

\* An answer reaches an elector only while it waits for one, and a server's verdict
\* is about a message it still has: the two threads of a peer never get out of step.
THEOREM TypeCorrect == Spec => []TypeOK
<1>1. IInv => TypeOK
  <2> SUFFICES ASSUME IInv PROVE TypeOK
    OBVIOUS
  <2>1. \A p \in Peer : /\ elector[p] \in ElectorState
                        /\ elector[p].reply # "none" => elector[p].pc \in {"ping", "poll"}
    BY DEF IInv, Types, Calls, RepliesOK, Calling
  <2>2. \A p \in Peer : \A i \in DOMAIN inbox[p] : inbox[p][i] \in Message
    BY LenProperties, ElementOfSeq DEF IInv, Types
  <2>3. \A p \in Peer : verdict[p] \in Verdicts /\ (verdict[p] # "none" => inbox[p] # <<>>)
    BY DEF IInv, Types, VerdictsOK
  <2> QED
    BY <2>1, <2>2, <2>3 DEF IInv, Types, TypeOK
<1> QED
  BY <1>1, ElectionInvariant, PTL

\* Every vote in a candidate's tally, but its own, was cast by that voter in answer
\* to this very poll, however many calls timed out before.
THEOREM OnlyGenuineVotes == Spec => []VotesAreGenuine
<1>1. IInv => VotesAreGenuine
  BY DEF IInv, VotesOK, VotesAreGenuine
<1> QED
  BY <1>1, ElectionInvariant, PTL

\* The master a peer knows, if it is not Byzantine, has won an election.
THEOREM MastersHaveWon == Spec => []KnownMasterWon
<1>1. IInv => KnownMasterWon
  BY DEF IInv, Legitimate, LegitimatePeer, MayLead, KnownMasterWon
<1> QED
  BY <1>1, ElectionInvariant, PTL

\* Nobody is in a term that no election has decided.
THEOREM TermsDecided == Spec => []TermsWereWon
<1>1. IInv => TermsWereWon
  BY DEF IInv, Legitimate, LegitimatePeer, WonTerm, TermsWereWon
<1> QED
  BY <1>1, ElectionInvariant, PTL

-----------------------------------------------------------------------------
(* Terms.                                                                  *)

\* All that ever touches a term: a victory, an announcement that is followed, and
\* the loss of everything in a crash.
LEMMA TermChanges ==
    ASSUME [Next]_vars
    PROVE  \/ UNCHANGED term
           \/ \E p \in Peer :
                \/ Win(p)
                \/ Crash(p)
                \/ inbox[p] # <<>> /\ AcceptMaster(p, Head(inbox[p]))
                \/ Yield(p, Head(inbox[p]))
<1>1. ASSUME NEW p \in Peer, Elector(p) \/ ByzantineElector(p)
      PROVE  UNCHANGED term \/ Win(p)
  BY <1>1 DEF Elector, ByzantineElector, sharedVars, Suspect, SendPing, Pong, NoPong, Stand,
     Begin, Ask, CountVote, NoVote, GiveUp, Lead, RemainMaster, Announce, Announced,
     RandomiseState, ChangeState, Meddle
<1>2. ASSUME NEW p \in Peer, Server(p)
      PROVE  \/ UNCHANGED term
             \/ inbox[p] # <<>> /\ AcceptMaster(p, Head(inbox[p]))
             \/ Yield(p, Head(inbox[p]))
  BY <1>2 DEF Server, Judge, CarryOut, sharedVars, AnswerPing, RefuseBusy, JudgeCandidate,
     Decide, RandomVote, HearMaster, JudgeMaster, IgnoreMaster, ObeyClient, Grant, Refuse,
     DiscardMaster
<1>3. ASSUME NEW p \in Peer, ForceElection(p) \/ Expire(p) \/ Restart(p)
      PROVE  UNCHANGED term
  BY <1>3 DEF ForceElection, Expire, Restart, sharedVars
<1> QED
  BY <1>1, <1>2, <1>3 DEF Next, vars, sharedVars

FallsOnlyWhenOvertaken(p) ==
    up'[p] /\ term'[p] < term[p] => verdict[p] = "overtaken" /\ state'[p] = "FOLLOWER"

LEMMA TermsFall ==
    ASSUME Types, [Next]_vars, NEW q \in Peer
    PROVE  FallsOnlyWhenOvertaken(q)
<1>1. term \in [Peer -> Nat] /\ term[q] \in Nat
  BY DEF Types
<1>2. CASE UNCHANGED term
  BY <1>1, <1>2 DEF FallsOnlyWhenOvertaken
<1>3. ASSUME NEW p \in Peer, Win(p) PROVE FallsOnlyWhenOvertaken(q)
  <2>1. term' = [term EXCEPT ![p] = @ + 1]
    BY <1>3 DEF Win
  <2> QED
    BY <1>1, <2>1 DEF FallsOnlyWhenOvertaken
<1>4. ASSUME NEW p \in Peer, Crash(p) PROVE FallsOnlyWhenOvertaken(q)
  <2>1. term' = [term EXCEPT ![p] = 0] /\ up' = [up EXCEPT ![p] = FALSE]
    BY <1>4 DEF Crash
  <2>2. CASE q = p
    BY <2>1, <2>2 DEF Types, FallsOnlyWhenOvertaken
  <2>3. CASE q # p
    BY <1>1, <2>1, <2>3 DEF FallsOnlyWhenOvertaken
  <2> QED
    BY <2>2, <2>3
<1>5. ASSUME NEW p \in Peer, inbox[p] # <<>>, AcceptMaster(p, Head(inbox[p]))
      PROVE  FallsOnlyWhenOvertaken(q)
  <2>1. PICK t \in Nat : t = Head(inbox[p]).term
    <3>1. PICK m \in Message : m = Head(inbox[p])
      BY <1>5, Dequeued DEF Types
    <3>2. m.term \in Nat
      BY DEF Message
    <3> QED
      BY <3>1, <3>2
  <2>2. term' = [term EXCEPT ![p] = t] /\ t >= term[p]
    BY <1>5, <2>1 DEF AcceptMaster, Follow
  <2>3. CASE q = p
    BY <1>1, <2>2, <2>3 DEF FallsOnlyWhenOvertaken
  <2>4. CASE q # p
    BY <1>1, <2>2, <2>4 DEF FallsOnlyWhenOvertaken
  <2> QED
    BY <2>3, <2>4
<1>6. ASSUME NEW p \in Peer, Yield(p, Head(inbox[p])) PROVE FallsOnlyWhenOvertaken(q)
  <2>1. PICK t : t = Head(inbox[p]).term
    OBVIOUS
  <2>2. /\ term' = [term EXCEPT ![p] = t] /\ state' = [state EXCEPT ![p] = "FOLLOWER"]
        /\ verdict[p] = "overtaken"
    BY <1>6, <2>1 DEF Yield, Follow
  <2>3. CASE q = p
    BY <2>2, <2>3 DEF Types, FallsOnlyWhenOvertaken
  <2>4. CASE q # p
    BY <1>1, <2>2, <2>4 DEF FallsOnlyWhenOvertaken
  <2> QED
    BY <2>3, <2>4
<1> QED
  BY <1>2, <1>3, <1>4, <1>5, <1>6, TermChanges

\* The term of a running peer falls in one kind of step only: its server demotes it
\* for an announcement of the term it was a candidate for when the server looked.
THEOREM TermsFallRarely == Spec => TermsFallOnlyWhenOvertaken
<1>1. IInv /\ [Next]_vars => \A p \in Peer : FallsOnlyWhenOvertaken(p)
  BY TermsFall DEF IInv
<1>2. IInv /\ [Next]_vars
        => [\A p \in Peer : up'[p] /\ term'[p] < term[p]
                => verdict[p] = "overtaken" /\ state'[p] = "FOLLOWER"]_vars
  BY <1>1 DEF FallsOnlyWhenOvertaken
<1> QED
  BY <1>2, ElectionInvariant, PTL DEF Spec, TermsFallOnlyWhenOvertaken

-----------------------------------------------------------------------------
(* A demotion that is under way.  Between the server's verdict that another *)
(* peer was faster and the demotion the elector goes on: it may win the poll *)
(* it is in and take the lead, but as a leader it stands for nothing again. *)

OvertakenPeer(p) ==
    verdict[p] = "overtaken" /\ p \notin Byzantine =>
        /\ state[p] \in {"CANDIDATE", "LEADER"}
        /\ state[p] = "LEADER" => elector[p].pc \in {"idle", "proclaim", "announce"}
        /\ \/ term[p] = inbox[p][1].term
           \/ /\ term[p] = inbox[p][1].term + 1
              /\ [peer |-> p, term |-> term[p]] \in won
              /\ state[p] = "LEADER" \/ elector[p].pc = "won"

OvertakenOK == \A p \in Peer : OvertakenPeer(p)

HeadsStay ==
    \A r \in Peer : verdict'[r] # "none" => inbox'[r][1].term = inbox[r][1].term

\* Nothing of r that OvertakenPeer speaks of changes.
Bystander(r) ==
    /\ state'[r] = state[r] /\ term'[r] = term[r] /\ elector'[r].pc = elector[r].pc
    /\ verdict'[r] \in {"none", verdict[r]}

LEMMA BystandersKeep ==
    ASSUME NEW r \in Peer, OvertakenPeer(r), Bystander(r), HeadsStay, won \subseteq won'
    PROVE  OvertakenPeer(r)'
BY DEF OvertakenPeer, Bystander, HeadsStay

LEMMA FadesHeads ==
    ASSUME IInv, NEW p \in Peer, Fades(p), UNCHANGED verdict
    PROVE  HeadsStay
<1> SUFFICES ASSUME NEW r \in Peer, verdict[r] # "none"
             PROVE  inbox'[r][1].term = inbox[r][1].term
  BY DEF HeadsStay
<1>1. inbox[r] # <<>>
  BY DEF IInv, VerdictsOK
<1>2. inbox'[r] # <<>> /\ inbox'[r] \in Seq(Message)
  BY <1>1 DEF Fades
<1>3. 1 \in DOMAIN inbox'[r]
  BY <1>2, FirstOfQueue
<1> QED
  BY <1>3 DEF Fades

LEMMA ArrivesHeads ==
    ASSUME IInv, NEW q \in Peer, NEW m, Arrives(q, m), UNCHANGED verdict
    PROVE  HeadsStay
BY DEF IInv, VerdictsOK, Arrives, HeadsStay

\* What p's elector does to its own state.
PcStep(p) ==
    LET pc == elector[p].pc
        next == elector'[p].pc
    IN  \/ /\ term'[p] = term[p] + 1 /\ [peer |-> p, term |-> term[p] + 1] \in won'
           /\ pc = "poll" /\ state[p] = "CANDIDATE"
           /\ next = "won" /\ state'[p] = "CANDIDATE"
        \/ /\ term'[p] = term[p]
           /\ \/ pc = "won" /\ next = "proclaim" /\ state'[p] = "LEADER"
              \/ pc = "suspect" /\ next = "idle" /\ state'[p] = "CANDIDATE"
              \/ /\ state'[p] = state[p]
                 /\ \/ next = pc
                    \/ state[p] = "FOLLOWER"
                    \/ pc \in {"ping", "poll"} /\ next \in {"idle", "suspect"}
                    \/ pc = "idle" /\ state[p] = "CANDIDATE" /\ next = "poll"
                    \/ pc = "idle" /\ state[p] = "LEADER" /\ next = "announce"
                    \/ pc \in {"announce", "proclaim"} /\ next = "idle"

LEMMA PcStepKeeps ==
    ASSUME NEW p \in Peer, OvertakenPeer(p), PcStep(p), UNCHANGED verdict, HeadsStay,
           won \subseteq won'
    PROVE  OvertakenPeer(p)'
<1> SUFFICES ASSUME verdict[p] = "overtaken", p \notin Byzantine
             PROVE  OvertakenPeer(p)'
  BY DEF OvertakenPeer
<1>1. inbox'[p][1].term = inbox[p][1].term
  BY DEF HeadsStay
<1>2. PICK h : h = inbox[p][1].term
  OBVIOUS
<1>3. /\ state[p] \in {"CANDIDATE", "LEADER"}
      /\ state[p] = "LEADER" => elector[p].pc \in {"idle", "proclaim", "announce"}
      /\ \/ term[p] = h
         \/ /\ term[p] = h + 1 /\ [peer |-> p, term |-> term[p]] \in won
            /\ state[p] = "LEADER" \/ elector[p].pc = "won"
  BY <1>2 DEF OvertakenPeer
<1>4. /\ state'[p] \in {"CANDIDATE", "LEADER"}
      /\ state'[p] = "LEADER" => elector'[p].pc \in {"idle", "proclaim", "announce"}
      /\ \/ term'[p] = h
         \/ /\ term'[p] = h + 1 /\ [peer |-> p, term |-> term'[p]] \in won'
            /\ state'[p] = "LEADER" \/ elector'[p].pc = "won"
  BY <1>3 DEF PcStep
<1> QED
  BY <1>1, <1>2, <1>4 DEF OvertakenPeer

OwnStep(p) ==
    /\ PcStep(p)
    /\ \A r \in Peer : r # p => Bystander(r)
    /\ UNCHANGED verdict /\ HeadsStay /\ won \subseteq won'

LEMMA OwnStepKeeps ==
    ASSUME OvertakenOK, NEW p \in Peer, OwnStep(p)
    PROVE  OvertakenOK'
BY BystandersKeep, PcStepKeeps DEF OvertakenOK, OwnStep

\* An elector in p moves to another place and waits for no answer any more.
LEMMA QuietOwnStep ==
    ASSUME IInv, NEW p \in Peer, NEW x, elector' = [elector EXCEPT ![p] = x],
           \A r \in Peer : r # p => state'[r] = state[r] /\ term'[r] = term[r],
           UNCHANGED verdict
    PROVE  elector'[p] = x /\ \A r \in Peer : r # p => Bystander(r)
BY DEF IInv, Types, Bystander

LEMMA SameHeads ==
    ASSUME UNCHANGED <<inbox, verdict>>
    PROVE  HeadsStay
BY DEF HeadsStay

LEMMA FollowersSteps ==
    ASSUME IInv, NEW p \in Peer, Suspect(p) \/ Pong(p) \/ NoPong(p) \/ Stand(p)
    PROVE  OwnStep(p)
<1>1. PICK x : x = [Idle EXCEPT !.pc = "suspect"]
  OBVIOUS
<1>2. x.pc = "suspect" /\ Idle.pc = "idle"
  BY <1>1, IdleElector
<1>3. CASE Suspect(p)
  <2>1. /\ elector' = [elector EXCEPT ![p] = x] /\ state[p] = "FOLLOWER"
        /\ UNCHANGED <<state, term, inbox, verdict, won>>
    BY <1>1, <1>3 DEF Suspect, GiveUpMaster, queueVars, historyVars
  <2> QED
    BY <2>1, QuietOwnStep, SameHeads DEF OwnStep, PcStep
<1>4. CASE Pong(p)
  <2>1. /\ elector[p].pc = "ping" /\ elector' = [elector EXCEPT ![p] = Idle]
        /\ UNCHANGED <<state, term, inbox, verdict, won>>
    BY <1>4 DEF Pong, queueVars, historyVars
  <2>2. elector'[p].pc = "idle" /\ \A r \in Peer : r # p => Bystander(r)
    BY <1>2, <2>1, QuietOwnStep
  <2> QED
    BY <2>1, <2>2, SameHeads DEF OwnStep, PcStep
<1>5. CASE NoPong(p)
  <2>1. /\ elector[p].pc = "ping" /\ elector' = [elector EXCEPT ![p] = x] /\ NoAnswer(p)
        /\ UNCHANGED <<state, term, verdict, won>>
    BY <1>1, <1>5 DEF NoPong, GiveUpMaster, historyVars
  <2>2. HeadsStay
    BY <2>1, NoAnswerFades, FadesHeads DEF IInv
  <2>3. elector'[p].pc = "suspect" /\ \A r \in Peer : r # p => Bystander(r)
    BY <1>2, <2>1, QuietOwnStep
  <2> QED
    BY <2>1, <2>2, <2>3 DEF OwnStep, PcStep
<1>6. CASE Stand(p)
  <2>1. /\ elector[p].pc = "suspect" /\ elector' = [elector EXCEPT ![p] = Idle]
        /\ state' = [state EXCEPT ![p] = "CANDIDATE"]
        /\ UNCHANGED <<term, inbox, verdict, won>>
    BY <1>6 DEF Stand, queueVars, historyVars
  <2>2. state'[p] = "CANDIDATE" /\ \A r \in Peer : r # p => state'[r] = state[r]
    BY <2>1 DEF IInv, Types
  <2>3. elector'[p].pc = "idle" /\ \A r \in Peer : r # p => Bystander(r)
    BY <1>2, <2>1, <2>2, QuietOwnStep
  <2> QED
    BY <2>1, <2>2, <2>3, SameHeads DEF OwnStep, PcStep
<1> QED
  BY <1>3, <1>4, <1>5, <1>6

LEMMA SendingSteps ==
    ASSUME IInv, NEW p \in Peer, SendPing(p) \/ Ask(p) \/ Announce(p)
    PROVE  OwnStep(p)
<1>1. CASE SendPing(p)
  <2>1. PICK m \in Message :
          m = [type |-> "PING", from |-> p, term |-> 0, votes |-> 0, live |-> TRUE]
    BY MessagesMade
  <2>2. PICK q \in 0 .. N : q = master[p].port
    BY DEF IInv, Types
  <2>3. PICK x : x = [pc |-> "ping", at |-> q, req |-> 0, reply |-> "wait"]
    OBVIOUS
  <2>4. /\ state[p] = "FOLLOWER" /\ elector' = [elector EXCEPT ![p] = x]
        /\ (q \in Peer /\ Put(q, m)) \/ UNCHANGED inbox
        /\ UNCHANGED <<state, term, verdict, won>>
    BY <1>1, <2>1, <2>2, <2>3, PeersFinite DEF SendPing, Peer, sharedVars, historyVars
  <2>5. HeadsStay
    BY <2>4, PutArrives, ArrivesHeads, SameHeads DEF IInv
  <2> QED
    BY <2>4, <2>5, QuietOwnStep DEF OwnStep, PcStep
<1>2. CASE Ask(p)
  <2>1. PICK q \in Peer : q = elector[p].at
    BY <1>2 DEF Ask, Polls
  <2>2. PICK m \in Message : m = [type |-> "CAND", from |-> p, term |-> elector[p].req,
                                  votes |-> 0, live |-> TRUE]
    <3>1. elector[p].req \in Nat
      BY DEF IInv, Types, ElectorState
    <3> QED
      BY <3>1, MessagesMade
  <2>3. /\ elector' = [elector EXCEPT ![p].reply = "wait"] /\ Put(q, m)
        /\ UNCHANGED <<state, term, verdict, won>>
    BY <1>2, <2>1, <2>2 DEF Ask, sharedVars, historyVars
  <2>4. HeadsStay
    BY <2>3, PutArrives, ArrivesHeads DEF IInv
  <2>5. \A r \in Peer : elector'[r].pc = elector[r].pc
    BY <2>3, ReplyTypes DEF IInv, Types
  <2> QED
    BY <2>3, <2>4, <2>5 DEF OwnStep, PcStep, Bystander
<1>3. CASE Announce(p)
  <2>1. PICK q \in Peer : q = elector[p].at
    BY <1>3 DEF Announce
  <2>2. PICK m \in Message : m = [type |-> "MSTR", from |-> p, term |-> elector[p].req,
                                  votes |-> Cardinality(votes[p]), live |-> FALSE]
    <3>1. elector[p].req \in Nat /\ Cardinality(votes[p]) \in Nat
      BY PeersFinite DEF IInv, Types, ElectorState
    <3> QED
      BY <3>1, MessagesMade
  <2>3. Advance(p) /\ (Put(q, m) \/ UNCHANGED inbox) /\ UNCHANGED <<state, term, verdict, won>>
    BY <1>3, <2>1, <2>2 DEF Announce, sharedVars, historyVars
  <2>4. HeadsStay
    BY <2>3, PutArrives, ArrivesHeads, SameHeads DEF IInv
  <2>5. \A r \in Peer : elector'[r].pc = elector[r].pc
    BY <2>1, <2>3, AdvanceTypes DEF IInv, Types
  <2> QED
    BY <2>3, <2>4, <2>5 DEF OwnStep, PcStep, Bystander
<1> QED
  BY <1>1, <1>2, <1>3

LEMMA CandidatesSteps ==
    ASSUME IInv, NEW p \in Peer,
           Begin(p) \/ CountVote(p) \/ NoVote(p) \/ Win(p) \/ GiveUp(p)
    PROVE  OwnStep(p)
<1>1. CASE Begin(p)
  <2>1. PICK x : /\ x.pc = "poll"
                 /\ elector' = [elector EXCEPT ![p] = x]
    BY <1>1 DEF Begin
  <2>2. /\ elector[p].pc = "idle" /\ state[p] = "CANDIDATE"
        /\ UNCHANGED <<state, term, inbox, verdict, won>>
    BY <1>1, IdleElector DEF Begin, queueVars
  <2> QED
    BY <2>1, <2>2, QuietOwnStep, SameHeads DEF OwnStep, PcStep
<1>2. CASE CountVote(p) \/ NoVote(p)
  <2>1. PICK q \in Peer : q = elector[p].at
    BY <1>2 DEF CountVote, NoVote, Polls
  <2>2. Advance(p) /\ (UNCHANGED inbox \/ NoAnswer(p)) /\ UNCHANGED <<state, term, verdict, won>>
    BY <1>2 DEF CountVote, NoVote, sharedVars, queueVars, historyVars
  <2>3. HeadsStay
    BY <2>2, NoAnswerFades, FadesHeads, SameHeads DEF IInv
  <2>4. \A r \in Peer : elector'[r].pc = elector[r].pc
    BY <2>1, <2>2, AdvanceTypes DEF IInv, Types
  <2> QED
    BY <2>2, <2>3, <2>4 DEF OwnStep, PcStep, Bystander
<1>3. CASE Win(p)
  <2>1. PICK t \in Nat : t = term[p]
    BY DEF IInv, Types
  <2>2. /\ elector[p].pc = "poll" /\ state[p] = "CANDIDATE"
        /\ term' = [term EXCEPT ![p] = t + 1] /\ won' = won \cup {[peer |-> p, term |-> t + 1]}
        /\ elector' = [elector EXCEPT ![p].pc = "won"]
        /\ UNCHANGED <<state, inbox, verdict>>
    BY <1>3, <2>1 DEF Win, Polled, queueVars
  <2>3. /\ term'[p] = t + 1
        /\ \A r \in Peer : r # p => term'[r] = term[r] /\ elector'[r] = elector[r]
    BY <2>2 DEF IInv, Types
  <2>4. elector'[p].pc = "won"
    BY <2>2, WinTypes DEF IInv, Types
  <2> QED
    BY <2>1, <2>2, <2>3, <2>4, SameHeads DEF OwnStep, PcStep, Bystander
<1>4. CASE GiveUp(p)
  <2>1. /\ elector[p].pc = "poll" /\ elector' = [elector EXCEPT ![p] = Idle]
        /\ UNCHANGED <<state, term, inbox, verdict, won>>
    BY <1>4 DEF GiveUp, Polled, queueVars, historyVars
  <2>2. elector'[p].pc = "idle" /\ \A r \in Peer : r # p => Bystander(r)
    BY <2>1, QuietOwnStep, IdleElector
  <2> QED
    BY <2>1, <2>2, SameHeads DEF OwnStep, PcStep
<1> QED
  BY <1>1, <1>2, <1>3, <1>4

LEMMA LeadersSteps ==
    ASSUME IInv, NEW p \in Peer, Lead(p) \/ RemainMaster(p) \/ Announced(p)
    PROVE  OwnStep(p)
<1>1. CASE Lead(p)
  <2>1. PICK x : x.pc = "proclaim" /\ elector' = [elector EXCEPT ![p] = x]
    BY <1>1 DEF Lead
  <2>2. /\ elector[p].pc = "won" /\ state' = [state EXCEPT ![p] = "LEADER"]
        /\ UNCHANGED <<term, inbox, verdict, won>>
    BY <1>1 DEF Lead, queueVars, historyVars
  <2>3. state'[p] = "LEADER" /\ \A r \in Peer : r # p => state'[r] = state[r]
    BY <2>2 DEF IInv, Types
  <2> QED
    BY <2>1, <2>2, <2>3, QuietOwnStep, SameHeads DEF OwnStep, PcStep
<1>2. CASE RemainMaster(p)
  <2>1. PICK x : x.pc = "announce" /\ elector' = [elector EXCEPT ![p] = x]
    BY <1>2 DEF RemainMaster
  <2>2. /\ elector[p].pc = "idle" /\ state[p] = "LEADER"
        /\ UNCHANGED <<state, term, inbox, verdict, won>>
    BY <1>2, IdleElector DEF RemainMaster, sharedVars, queueVars, historyVars
  <2> QED
    BY <2>1, <2>2, QuietOwnStep, SameHeads DEF OwnStep, PcStep
<1>3. CASE Announced(p)
  <2>1. /\ elector[p].pc \in {"announce", "proclaim"} /\ elector' = [elector EXCEPT ![p] = Idle]
        /\ UNCHANGED <<state, term, inbox, verdict, won>>
    BY <1>3 DEF Announced, Announces, queueVars, historyVars
  <2>2. elector'[p].pc = "idle" /\ \A r \in Peer : r # p => Bystander(r)
    BY <2>1, QuietOwnStep, IdleElector
  <2> QED
    BY <2>1, <2>2, SameHeads DEF OwnStep, PcStep
<1> QED
  BY <1>1, <1>2, <1>3

\* A Byzantine peer changes nothing but its own state.
LEMMA ByzantineKeepsOvertaken ==
    ASSUME IInv, OvertakenOK, NEW p \in Peer, ByzantineElector(p)
    PROVE  OvertakenOK'
<1>1. /\ p \in Byzantine /\ UNCHANGED <<term, inbox, verdict, won>>
  BY DEF ByzantineElector, RandomiseState, ChangeState, Meddle, queueVars, historyVars
<1>2. \A r \in Peer : r # p => state'[r] = state[r] /\ elector'[r] = elector[r]
  BY DEF ByzantineElector, RandomiseState, ChangeState, IInv, Types
<1>3. ASSUME NEW r \in Peer, r # p PROVE OvertakenPeer(r)'
  BY <1>1, <1>2, <1>3, BystandersKeep, SameHeads DEF OvertakenOK, Bystander
<1>4. OvertakenPeer(p)'
  BY <1>1 DEF OvertakenPeer
<1> QED
  BY <1>3, <1>4 DEF OvertakenOK

\* A server either is done with its message or decides on it; that it is overtaken it
\* decides as a candidate, of an announcement for the term it is in.
LEMMA ServerShape ==
    ASSUME IInv, NEW p \in Peer, Server(p)
    PROVE  /\ \A r \in Peer : r # p => state'[r] = state[r] /\ term'[r] = term[r]
           /\ \A r \in Peer : elector'[r].pc = elector[r].pc
           /\ UNCHANGED won
           /\ \/ Done(p)
              \/ \E v \in Verdicts : /\ Decide(p, v) /\ UNCHANGED <<term, state, inbox>>
                                     /\ v = "overtaken" => Overtaken(p, Head(inbox[p]))
<1>1. inbox[p] # <<>> /\ UNCHANGED won
  BY DEF Server
<1>2. PICK m : m = Head(inbox[p])
  OBVIOUS
<1>3. Judge(p, m) \/ CarryOut(p, m)
  BY <1>2 DEF Server
<1>4. \A r \in Peer : r # p => state'[r] = state[r] /\ term'[r] = term[r]
  BY <1>3 DEF IInv, Types, Judge, CarryOut, AnswerPing, RefuseBusy, JudgeCandidate, Decide,
     RandomVote, HearMaster, JudgeMaster, AcceptMaster, Follow, IgnoreMaster, sharedVars,
     ObeyClient, Grant, Refuse, Yield, DiscardMaster
<1>5. UNCHANGED elector \/ \E answer \in {"yes", "no", "pong"} : Reply(m, answer)
  BY <1>3 DEF Judge, CarryOut, AnswerPing, RefuseBusy, JudgeCandidate, Decide, RandomVote,
     HearMaster, JudgeMaster, AcceptMaster, Follow, IgnoreMaster, ObeyClient, Grant, Refuse,
     Yield, DiscardMaster
<1>6. \A r \in Peer : elector'[r].pc = elector[r].pc
  <2>1. ASSUME NEW answer \in {"yes", "no", "pong"}, Reply(m, answer)
        PROVE  \A r \in Peer : elector'[r].pc = elector[r].pc
    BY <1>1, <1>2, <2>1, ReplyAnswers, AnsweredRounds DEF IInv
  <2> QED
    BY <1>5, <2>1
<1>7. CASE JudgeCandidate(p, m) \/ JudgeMaster(p, m)
  <2>1. PICK v \in Verdicts : Decide(p, v) /\ (v = "overtaken" => Overtaken(p, m))
    BY <1>7 DEF JudgeCandidate, JudgeMaster, Verdicts
  <2> QED
    BY <1>1, <1>2, <1>4, <1>6, <2>1 DEF Decide
<1>8. CASE ~ (JudgeCandidate(p, m) \/ JudgeMaster(p, m))
  <2>1. Done(p)
    BY <1>3, <1>8 DEF Judge, CarryOut, AnswerPing, RefuseBusy, RandomVote, HearMaster,
       AcceptMaster, Follow, IgnoreMaster, ObeyClient, Grant, Refuse, Yield, DiscardMaster
  <2> QED
    BY <1>1, <1>4, <1>6, <2>1
<1> QED
  BY <1>7, <1>8

LEMMA ServerKeepsOvertaken ==
    ASSUME IInv, OvertakenOK, NEW p \in Peer, Server(p)
    PROVE  OvertakenOK'
<1>1. /\ \A r \in Peer : r # p => state'[r] = state[r] /\ term'[r] = term[r]
      /\ \A r \in Peer : elector'[r].pc = elector[r].pc
      /\ UNCHANGED won
  BY ServerShape
<1>2. \A r \in Peer : r # p => inbox'[r] = inbox[r] /\ verdict'[r] = verdict[r]
  BY ServerShape DEF Done, Decide, IInv, Types
<1>3. ASSUME NEW r \in Peer, r # p PROVE OvertakenPeer(r)'
  BY <1>1, <1>2, <1>3 DEF OvertakenOK, OvertakenPeer
<1>4. CASE Done(p)
  <2>1. verdict'[p] = "none"
    BY <1>4 DEF Done, IInv, Types
  <2> QED
    BY <1>3, <2>1 DEF OvertakenOK, OvertakenPeer
<1>5. ASSUME NEW v \in Verdicts, Decide(p, v), UNCHANGED <<term, state, inbox>>,
             v = "overtaken" => Overtaken(p, Head(inbox[p]))
      PROVE  OvertakenOK'
  <2>1. verdict'[p] = v
    BY <1>5 DEF Decide, IInv, Types
  <2>2. Head(inbox[p]) = inbox[p][1]
    BY Dequeued DEF IInv, Types, Server
  <2>3. v = "overtaken" => term[p] = inbox[p][1].term /\ state[p] = "CANDIDATE"
    BY <1>5, <2>2 DEF Overtaken
  <2>4. OvertakenPeer(p)'
    BY <1>5, <2>1, <2>3 DEF OvertakenPeer
  <2> QED
    BY <1>3, <2>4 DEF OvertakenOK
<1> QED
  BY <1>4, <1>5, ServerShape

LEMMA OutsideKeepsOvertaken ==
    ASSUME IInv, OvertakenOK, NEW p \in Peer,
           ForceElection(p) \/ Expire(p) \/ Crash(p) \/ Restart(p)
    PROVE  OvertakenOK'
<1>1. CASE ForceElection(p)
  <2>1. PICK m \in Message :
          m = [type |-> "ELCT", from |-> 0, term |-> 0, votes |-> 0, live |-> FALSE]
    BY MessagesMade
  <2>2. Put(p, m) /\ UNCHANGED <<state, term, elector, verdict, won>>
    BY <1>1, <2>1 DEF ForceElection, sharedVars, historyVars
  <2>3. HeadsStay
    BY <2>2, PutArrives, ArrivesHeads DEF IInv
  <2> QED
    BY <2>2, <2>3, BystandersKeep DEF OvertakenOK, Bystander
<1>2. CASE Expire(p) \/ Restart(p)
  <2>1. UNCHANGED <<state, term, elector, inbox, verdict, won>>
    BY <1>2 DEF Expire, Restart, sharedVars, queueVars, historyVars
  <2> QED
    BY <2>1 DEF OvertakenOK, OvertakenPeer
<1>3. CASE Crash(p)
  <2>1. /\ verdict' = [verdict EXCEPT ![p] = "none"] /\ UNCHANGED won
        /\ state' = [state EXCEPT ![p] = "FOLLOWER"] /\ term' = [term EXCEPT ![p] = 0]
        /\ elector' = [elector EXCEPT ![p] = Idle]
    BY <1>3 DEF Crash
  <2>2. /\ verdict'[p] = "none"
        /\ \A r \in Peer : r # p => /\ verdict'[r] = verdict[r] /\ state'[r] = state[r]
                                    /\ term'[r] = term[r] /\ elector'[r] = elector[r]
    BY <2>1 DEF IInv, Types
  <2>3. ASSUME NEW r \in Peer, r # p, verdict[r] # "none"
        PROVE  inbox'[r][1].term = inbox[r][1].term
    <3>1. Fades(p)
      BY <1>3, CrashFades DEF IInv
    <3>2. inbox[r] # <<>> /\ verdict'[r] # "none"
      BY <2>2, <2>3 DEF IInv, VerdictsOK
    <3>3. inbox'[r] # <<>> /\ inbox'[r] \in Seq(Message)
      BY <3>1, <3>2 DEF Fades
    <3>4. 1 \in DOMAIN inbox'[r]
      BY <3>3, FirstOfQueue
    <3> QED
      BY <3>1, <3>4 DEF Fades
  <2>4. ASSUME NEW r \in Peer, r # p PROVE OvertakenPeer(r)'
    BY <2>1, <2>2, <2>3, <2>4 DEF OvertakenOK, OvertakenPeer
  <2>5. OvertakenPeer(p)'
    BY <2>2 DEF OvertakenPeer
  <2> QED
    BY <2>4, <2>5 DEF OvertakenOK
<1> QED
  BY <1>1, <1>2, <1>3

LEMMA OvertakenKeeps ==
    ASSUME IInv, OvertakenOK, [Next]_vars
    PROVE  OvertakenOK'
<1>1. ASSUME NEW p \in Peer, Elector(p) PROVE OvertakenOK'
  <2>1. OwnStep(p)
    BY <1>1, FollowersSteps, SendingSteps, CandidatesSteps, LeadersSteps DEF Elector
  <2> QED
    BY <2>1, OwnStepKeeps
<1>2. ASSUME NEW p \in Peer, ByzantineElector(p) \/ Server(p) PROVE OvertakenOK'
  BY <1>2, ByzantineKeepsOvertaken, ServerKeepsOvertaken
<1>3. ASSUME NEW p \in Peer, ForceElection(p) \/ Expire(p) \/ Crash(p) \/ Restart(p)
      PROVE  OvertakenOK'
  BY <1>3, OutsideKeepsOvertaken
<1>4. CASE UNCHANGED vars
  <2>1. UNCHANGED <<state, term, elector, inbox, verdict, won>>
    BY <1>4 DEF vars, sharedVars, queueVars, historyVars
  <2> QED
    BY <2>1 DEF OvertakenOK, OvertakenPeer
<1> QED
  BY <1>1, <1>2, <1>3, <1>4 DEF Next

-----------------------------------------------------------------------------
(* Majorities.                                                             *)

ElectedPeer(p) ==
    elector[p].pc = "won" => 2 * Cardinality(granted[p] \cup {p}) > Cardinality(alive[p])

\* Nothing that ElectedPeer speaks of changes to the worse.
StillElected(p) ==
    /\ elector'[p].pc = "won" => elector[p].pc = "won"
    /\ alive'[p] = alive[p] /\ granted[p] \subseteq granted'[p]

LEMMA MoreVotesCount ==
    ASSUME NEW p \in Peer, NEW G \in SUBSET Peer, NEW V, V \subseteq G \cup {p}
    PROVE  /\ Cardinality(V) \in Nat /\ Cardinality(G \cup {p}) \in Nat
           /\ Cardinality(V) <= Cardinality(G \cup {p})
<1>1. IsFiniteSet(Peer)
  BY PeersFinite, FS_Interval DEF Peer
<1>2. G \cup {p} \subseteq Peer
  OBVIOUS
<1>3. IsFiniteSet(G \cup {p})
  BY <1>1, <1>2, FS_Subset
<1> QED
  BY <1>3, FS_Subset, FS_CardinalityType

LEMMA ElectedStays ==
    ASSUME IInv, IInv', NEW p \in Peer, ElectedPeer(p), StillElected(p)
    PROVE  ElectedPeer(p)'
<1> SUFFICES ASSUME elector'[p].pc = "won" PROVE ElectedPeer(p)'
  BY DEF ElectedPeer
<1>1. PICK G : G = granted[p] \cup {p}
  OBVIOUS
<1>2. PICK H : H = granted'[p]
  OBVIOUS
<1>3. H \in SUBSET Peer /\ G \subseteq H \cup {p}
  BY <1>1, <1>2 DEF IInv, Types, StillElected
<1>4. PICK a \in Nat : a = Cardinality(alive[p])
  BY PeersFinite DEF IInv, Types
<1>5. 2 * Cardinality(G) > a
  BY <1>1, <1>4 DEF ElectedPeer, StillElected
<1>6. 2 * Cardinality(H \cup {p}) > a
  <2>1. PICK c \in Nat, d \in Nat :
            c = Cardinality(G) /\ d = Cardinality(H \cup {p}) /\ c <= d
    BY <1>3, MoreVotesCount
  <2> QED
    BY <1>5, <2>1
<1> QED
  BY <1>2, <1>4, <1>6 DEF ElectedPeer, StillElected

\* The votes a winner has counted were granted in its poll, and the count it held them
\* against is no lower than that of the peers it considers up.
LEMMA WinElects ==
    ASSUME IInv, Garbage \subseteq Nat, NEW p \in Peer, Win(p)
    PROVE  ElectedPeer(p)'
<1>1. elector[p].pc = "poll" /\ UNCHANGED <<granted, alive>>
  BY DEF Win, Polled, tallyVars
<1>2. votes[p] \subseteq granted[p] \cup {p}
  BY <1>1 DEF IInv, VotesOK
<1>3. PICK a \in Nat : a = Cardinality(alive[p])
  BY PeersFinite DEF IInv, Types
<1>4. PICK g \in Nat : 2 * Cardinality(votes[p]) > g + a
  BY <1>3 DEF Win, Enough, AliveCounts
<1>5. PICK G \in SUBSET Peer : G = granted[p]
  BY DEF IInv, Types
<1>6. 2 * Cardinality(G \cup {p}) > a
  <2>1. PICK c \in Nat, d \in Nat :
            c = Cardinality(votes[p]) /\ d = Cardinality(G \cup {p}) /\ c <= d
    BY <1>2, <1>5, MoreVotesCount
  <2> QED
    BY <1>4, <2>1
<1> QED
  BY <1>1, <1>3, <1>5, <1>6 DEF ElectedPeer

\* Only Win takes an elector to where it has won.
LEMMA ElectorsElection ==
    ASSUME IInv, NEW p \in Peer, Elector(p), ~ Win(p)
    PROVE  elector'[p].pc # "won" /\ \A r \in Peer : r # p => StillElected(r)
<1>1. CASE Ask(p)
  <2>1. elector' = [elector EXCEPT ![p].reply = "wait"] /\ UNCHANGED <<alive, granted>>
    BY <1>1 DEF Ask, tallyVars, historyVars
  <2>2. /\ \A r \in Peer : elector'[r].pc = elector[r].pc
    BY <2>1, ReplyTypes DEF IInv, Types
  <2>3. elector[p].pc = "poll"
    BY <1>1 DEF Ask, Polls
  <2> QED
    BY <2>1, <2>2, <2>3 DEF StillElected
<1>2. CASE CountVote(p) \/ NoVote(p) \/ Announce(p)
  <2>1. /\ elector[p].pc \in {"poll", "announce", "proclaim"} /\ elector[p].at \in Peer
        /\ Advance(p) /\ UNCHANGED granted
    BY <1>2 DEF CountVote, NoVote, Announce, Polls, Announces, historyVars
  <2>2. \A r \in Peer : elector'[r].pc = elector[r].pc
    BY <2>1, AdvanceTypes DEF IInv, Types
  <2>3. \A r \in Peer : r # p => alive'[r] = alive[r]
    BY <1>2 DEF CountVote, NoVote, Announce, tallyVars, IInv, Types
  <2> QED
    BY <2>1, <2>2, <2>3 DEF StillElected
<1>3. CASE \/ Suspect(p) \/ SendPing(p) \/ Pong(p) \/ NoPong(p) \/ Stand(p) \/ Begin(p)
           \/ GiveUp(p) \/ Lead(p) \/ RemainMaster(p) \/ Announced(p)
  <2>1. PICK x : x.pc # "won" /\ elector' = [elector EXCEPT ![p] = x]
    BY <1>3, IdleElector DEF Suspect, SendPing, Pong, NoPong, GiveUpMaster, Stand, Begin,
       GiveUp, Lead, RemainMaster, Announced
  <2>2. UNCHANGED alive /\ \A r \in Peer : r # p => granted'[r] = granted[r]
    BY <1>3 DEF Suspect, SendPing, Pong, NoPong, Stand, Begin, GiveUp, Lead, RemainMaster,
       Announced, tallyVars, historyVars, IInv, Types
  <2> QED
    BY <2>1, <2>2 DEF StillElected, IInv, Types
<1> QED
  BY <1>1, <1>2, <1>3 DEF Elector

\* A server may add to what was granted, and leaves electors where they are.
LEMMA ServersElection ==
    ASSUME IInv, NEW p \in Peer, Server(p)
    PROVE  \A r \in Peer : StillElected(r)
<1>1. UNCHANGED alive /\ \A r \in Peer : elector'[r].pc = elector[r].pc
  BY ServerShape DEF Server, tallyVars
<1>2. PICK m : Judge(p, m) \/ CarryOut(p, m)
  BY DEF Server
<1>3. UNCHANGED granted \/ granted' = [granted EXCEPT ![m.from] = @ \cup {p}]
  BY <1>2 DEF Judge, CarryOut, AnswerPing, RefuseBusy, JudgeCandidate, Decide, RandomVote,
     HearMaster, JudgeMaster, AcceptMaster, Follow, IgnoreMaster, ObeyClient, Grant, Refuse,
     Yield, DiscardMaster, sharedVars
<1>4. \A r \in Peer : granted[r] \subseteq granted'[r]
  <2>1. PICK c : c = m.from
    OBVIOUS
  <2>2. UNCHANGED granted \/ granted' = [granted EXCEPT ![c] = granted[c] \cup {p}]
    BY <1>3, <2>1
  <2> QED
    BY <2>2 DEF IInv, Types
<1> QED
  BY <1>1, <1>4 DEF StillElected

LEMMA OutsidersElection ==
    ASSUME IInv, NEW p \in Peer,
           ByzantineElector(p) \/ ForceElection(p) \/ Expire(p) \/ Crash(p) \/ Restart(p)
    PROVE  \A r \in Peer : ElectedPeer(r) => ElectedPeer(r)'
<1>1. CASE ByzantineElector(p) \/ Crash(p)
  <2>1. \/ UNCHANGED elector /\ elector[p] = Idle
        \/ elector' = [elector EXCEPT ![p] = Idle]
    BY <1>1 DEF ByzantineElector, RandomiseState, ChangeState, Crash
  <2>2. elector'[p].pc # "won" /\ \A r \in Peer : r # p => elector'[r] = elector[r]
    BY <2>1, IdleElector DEF IInv, Types
  <2>3. \A r \in Peer : r # p => alive'[r] = alive[r] /\ granted'[r] = granted[r]
    BY <1>1 DEF ByzantineElector, RandomiseState, ChangeState, Meddle, tallyVars, historyVars,
       Crash, IInv, Types
  <2> QED
    BY <2>2, <2>3 DEF ElectedPeer
<1>2. CASE ForceElection(p) \/ Expire(p) \/ Restart(p)
  <2>1. UNCHANGED <<elector, alive, granted>>
    BY <1>2 DEF ForceElection, Expire, Restart, tallyVars, historyVars
  <2> QED
    BY <2>1 DEF ElectedPeer
<1> QED
  BY <1>1, <1>2

LEMMA MajorityKeeps ==
    ASSUME IInv, IInv', Garbage \subseteq Nat, MajorityElects, [Next]_vars
    PROVE  MajorityElects'
<1> SUFFICES ASSUME NEW r \in Peer PROVE ElectedPeer(r)'
  BY DEF MajorityElects, ElectedPeer
<1>1. ElectedPeer(r)
  BY DEF MajorityElects, ElectedPeer
<1>2. ASSUME NEW p \in Peer, Elector(p) PROVE ElectedPeer(r)'
  <2>1. CASE Win(p)
    <3>1. CASE r = p
      BY <2>1, <3>1, WinElects
    <3>2. CASE r # p
      <4>1. elector' = [elector EXCEPT ![p].pc = "won"] /\ UNCHANGED <<alive, granted>>
        BY <2>1 DEF Win, tallyVars
      <4>2. elector'[r] = elector[r]
        BY <3>2, <4>1, WinTypes DEF IInv, Types
      <4> QED
        BY <1>1, <4>1, <4>2 DEF ElectedPeer
    <3> QED
      BY <3>1, <3>2
  <2>2. CASE ~ Win(p)
    <3>1. elector'[p].pc # "won" /\ (r # p => StillElected(r))
      BY <1>2, <2>2, ElectorsElection
    <3>2. CASE r = p
      BY <3>1, <3>2 DEF ElectedPeer
    <3>3. CASE r # p
      BY <1>1, <3>1, <3>3, ElectedStays
    <3> QED
      BY <3>2, <3>3
  <2> QED
    BY <2>1, <2>2
<1>3. ASSUME NEW p \in Peer, Server(p) PROVE ElectedPeer(r)'
  BY <1>1, <1>3, ServersElection, ElectedStays
<1>4. ASSUME NEW p \in Peer,
             ByzantineElector(p) \/ ForceElection(p) \/ Expire(p) \/ Crash(p) \/ Restart(p)
      PROVE  ElectedPeer(r)'
  BY <1>1, <1>4, OutsidersElection
<1>5. CASE UNCHANGED vars
  <2>1. UNCHANGED <<elector, alive, granted>>
    BY <1>5 DEF vars, tallyVars, historyVars
  <2> QED
    BY <1>1, <2>1 DEF ElectedPeer
<1> QED
  BY <1>2, <1>3, <1>4, <1>5 DEF Next

\* Whatever times out, arrives late or is voted at random: if the count of the peers
\* that are up starts no lower than zero, a poll is won only with votes that servers
\* have cast for it in this poll, by more than half of those peers.
THEOREM MajoritiesElect ==
    ASSUME Garbage \subseteq Nat
    PROVE  Spec => []MajorityElects
<1>1. Init => MajorityElects
  <2>1. Init => \A p \in Peer : elector[p].pc = "idle"
    BY IdleElector DEF Init
  <2> QED
    BY <2>1 DEF MajorityElects
<1>2. IInv /\ IInv' /\ MajorityElects /\ [Next]_vars => MajorityElects'
  BY MajorityKeeps
<1> QED
  BY <1>1, <1>2, ElectionInvariant, PTL DEF Spec

-----------------------------------------------------------------------------
(* Elections implement Mastership: every step is one of its steps or leaves *)
(* elections, terms and masters alone.                                      *)

SameMasters == UNCHANGED <<won, term>> /\ \A r \in Peer : master'[r].port = master[r].port

\* Only p changes its mind about the master, which is q now.
Turns(p, q) ==
    master'[p].port = q /\ \A r \in Peer : r # p => master'[r].port = master[r].port

LEMMA QuietMastery ==
    ASSUME SameMasters
    PROVE  [Masters!Next]_(Masters!Mastery)
BY DEF SameMasters, Masters!Mastery

LEMMA TurnsFollows ==
    ASSUME NEW p \in Peer, NEW q, Turns(p, q)
    PROVE  [r \in Peer |-> master'[r].port] = [[r \in Peer |-> master[r].port] EXCEPT ![p] = q]
BY DEF Turns

LEMMA Followed ==
    ASSUME NEW p \in Peer, NEW k, master \in [Peer -> [port : 0 .. N, up : BOOLEAN]],
           master' = [master EXCEPT ![p] = k]
    PROVE  Turns(p, k.port)
BY DEF Turns

LEMMA NobodyFollowed == NoMaster.port = Masters!Nobody
BY DEF NoMaster, Masters!Nobody

LEMMA MasteryNext ==
    ASSUME NEW p \in Peer,
           \/ Masters!Win(p) \/ Masters!Lead(p) \/ Masters!Leave(p) \/ Masters!Forget(p)
           \/ \E q \in Peer, t \in Masters!TermsWon : Masters!Follow(p, q, t)
    PROVE  [Masters!Next]_(Masters!Mastery)
BY DEF Masters!Next

LEMMA WinIsWin ==
    ASSUME IInv, NEW p \in Peer, Win(p)
    PROVE  Masters!Win(p)
BY DEF Win, Masters!Win

LEMMA LeadIsLead ==
    ASSUME IInv, NEW p \in Peer, Lead(p)
    PROVE  Masters!Lead(p)
<1>1. elector[p].pc = "won" /\ UNCHANGED <<won, term>>
  BY DEF Lead, historyVars
<1>2. Masters!MayLead(p)
  <2>1. MayLead(p) /\ p # 0
    BY <1>1 DEF IInv, Legitimate, LegitimatePeer, Peer
  <2> QED
    BY <2>1 DEF MayLead, Masters!MayLead
<1>3. PICK k : k = [port |-> p, up |-> TRUE]
  OBVIOUS
<1>4. master' = [master EXCEPT ![p] = k] /\ k.port = p
  BY <1>3 DEF Lead
<1>5. Turns(p, p)
  BY <1>4, Followed DEF IInv, Types
<1> QED
  BY <1>1, <1>2, <1>5, TurnsFollows DEF Masters!Lead

LEMMA LeavesMaster ==
    ASSUME IInv, NEW p \in Peer, UNCHANGED <<won, term>>,
           master' = [master EXCEPT ![p] = NoMaster]
    PROVE  Masters!Leave(p)
<1>1. Turns(p, Masters!Nobody)
  BY Followed, NobodyFollowed DEF IInv, Types
<1> QED
  BY <1>1, TurnsFollows DEF Masters!Leave

\* An announcement that is followed comes from a peer that may lead, and its term
\* was won.
LEMMA FollowIsFollow ==
    ASSUME IInv, NEW p \in Peer, inbox[p] # <<>>, UNCHANGED won,
           NEW m, m = inbox[p][1], m.type = "MSTR", Follow(p, m), Masters!MayMove(p, m.term)
    PROVE  \E q \in Peer, t \in Masters!TermsWon : Masters!Follow(p, q, t)
<1>1. 1 \in DOMAIN inbox[p] /\ m \in Message
  BY Dequeued DEF IInv, Types
<1>2. m.from # 0 /\ MayLead(m.from) /\ WonTerm(m.term)
  BY <1>1 DEF IInv, Legitimate, LegitimateMessages
<1>3. m.from \in Peer
  <2>1. m.from \in 0 .. N
    BY <1>1 DEF Message
  <2> QED
    BY <1>2, <2>1, PeersFinite DEF Peer
<1>4. m.term \in Masters!TermsWon /\ Masters!MayLead(m.from)
  BY <1>2 DEF WonTerm, MayLead, Masters!TermsWon, Masters!MayLead
<1>5. PICK k : k = [port |-> m.from, up |-> TRUE]
  OBVIOUS
<1>6. /\ master' = [master EXCEPT ![p] = k] /\ k.port = m.from
      /\ term' = [term EXCEPT ![p] = m.term]
  BY <1>5 DEF Follow
<1>7. Turns(p, m.from)
  BY <1>6, Followed DEF IInv, Types
<1>8. Masters!Follow(p, m.from, m.term)
  BY <1>4, <1>6, <1>7, TurnsFollows DEF Masters!Follow
<1> QED
  BY <1>3, <1>4, <1>8

LEMMA AcceptMoves ==
    ASSUME IInv, NEW p \in Peer, NEW m, AcceptMaster(p, m)
    PROVE  Masters!MayMove(p, m.term)
BY DEF AcceptMaster, Masters!MayMove

\* Whoever yields has not moved on since its server's decision, or by one term that
\* it has won itself.
LEMMA YieldMoves ==
    ASSUME IInv, OvertakenOK, NEW p \in Peer, NEW m, m = inbox[p][1], Yield(p, m)
    PROVE  Masters!MayMove(p, m.term)
<1>1. CASE p \in Byzantine
  BY <1>1 DEF Masters!MayMove
<1>2. CASE p \notin Byzantine
  <2>1. verdict[p] = "overtaken" /\ OvertakenPeer(p)
    BY DEF Yield, OvertakenOK
  <2>2. PICK t \in Nat : t = term[p]
    BY DEF IInv, Types
  <2>3. PICK h : h = m.term
    OBVIOUS
  <2>4. t = h \/ (t = h + 1 /\ [peer |-> p, term |-> t] \in won)
    BY <1>2, <2>1, <2>2, <2>3 DEF OvertakenPeer
  <2>5. t = h => h >= t
    BY <2>2
  <2> QED
    BY <2>2, <2>3, <2>4, <2>5 DEF Masters!MayMove
<1> QED
  BY <1>1, <1>2

LEMMA CrashForgets ==
    ASSUME IInv, NEW p \in Peer, Crash(p)
    PROVE  Masters!Forget(p)
<1>1. /\ master' = [master EXCEPT ![p] = NoMaster] /\ term' = [term EXCEPT ![p] = 0]
      /\ UNCHANGED won
  BY DEF Crash
<1>2. Turns(p, Masters!Nobody)
  BY <1>1, Followed, NobodyFollowed DEF IInv, Types
<1> QED
  BY <1>1, <1>2, TurnsFollows DEF Masters!Forget

LEMMA ElectorMastery ==
    ASSUME IInv, NEW p \in Peer, Elector(p)
    PROVE  [Masters!Next]_(Masters!Mastery)
<1>1. CASE Win(p) \/ Lead(p)
  BY <1>1, WinIsWin, LeadIsLead, MasteryNext
<1>2. CASE Suspect(p) \/ NoPong(p)
  <2>1. master' = [master EXCEPT ![p] = NoMaster] /\ UNCHANGED <<won, term>>
    BY <1>2 DEF Suspect, NoPong, GiveUpMaster, historyVars
  <2> QED
    BY <2>1, LeavesMaster, MasteryNext
<1>3. CASE Pong(p)
  <2>1. master' = [master EXCEPT ![p].up = TRUE] /\ UNCHANGED <<won, term>>
    BY <1>3 DEF Pong, historyVars
  <2>2. SameMasters
    BY <2>1, MasterTypes DEF IInv, Types, SameMasters
  <2> QED
    BY <2>2, QuietMastery
<1>4. CASE \/ SendPing(p) \/ Stand(p) \/ Begin(p) \/ Ask(p) \/ CountVote(p) \/ NoVote(p)
           \/ GiveUp(p) \/ RemainMaster(p) \/ Announce(p) \/ Announced(p)
  <2>1. UNCHANGED <<won, term, master>>
    BY <1>4 DEF sharedVars, historyVars, SendPing, Stand, Begin, Ask, CountVote, NoVote,
       GiveUp, RemainMaster, Announce, Announced
  <2> QED
    BY <2>1, QuietMastery DEF SameMasters
<1> QED
  BY <1>1, <1>2, <1>3, <1>4 DEF Elector

LEMMA ByzantineMastery ==
    ASSUME IInv, NEW p \in Peer, ByzantineElector(p)
    PROVE  [Masters!Next]_(Masters!Mastery)
<1>1. p \in Byzantine /\ UNCHANGED <<won, term>>
  BY DEF ByzantineElector, RandomiseState, ChangeState, Meddle, historyVars
<1>2. \/ UNCHANGED master
      \/ master' = [master EXCEPT ![p].port = p]
      \/ master' = [master EXCEPT ![p].up = FALSE]
  BY DEF ByzantineElector, RandomiseState, ChangeState
<1>3. CASE UNCHANGED master
  BY <1>1, <1>3, QuietMastery DEF SameMasters
<1>4. CASE master' = [master EXCEPT ![p].port = p]
  <2>1. Turns(p, p)
    BY <1>4, MasterTypes DEF IInv, Types, Turns
  <2>2. Masters!Lead(p)
    BY <1>1, <2>1, TurnsFollows DEF Masters!Lead, Masters!MayLead
  <2> QED
    BY <2>2, MasteryNext
<1>5. CASE master' = [master EXCEPT ![p].up = FALSE]
  <2>1. SameMasters
    BY <1>1, <1>5, MasterTypes DEF IInv, Types, SameMasters
  <2> QED
    BY <2>1, QuietMastery
<1> QED
  BY <1>2, <1>3, <1>4, <1>5

LEMMA ServerMastery ==
    ASSUME IInv, OvertakenOK, NEW p \in Peer, Server(p)
    PROVE  [Masters!Next]_(Masters!Mastery)
<1>1. inbox[p] # <<>> /\ UNCHANGED won
  BY DEF Server
<1>2. PICK m : m = Head(inbox[p])
  OBVIOUS
<1>3. m = inbox[p][1]
  BY <1>1, <1>2, Dequeued DEF IInv, Types
<1>4. Judge(p, m) \/ CarryOut(p, m)
  BY <1>2 DEF Server
<1>5. CASE AcceptMaster(p, m)
  <2>1. m.type = "MSTR" /\ Follow(p, m)
    BY <1>5 DEF AcceptMaster
  <2> QED
    BY <1>1, <1>3, <1>5, <2>1, AcceptMoves, FollowIsFollow, MasteryNext
<1>6. CASE Yield(p, m)
  <2>1. m.type = "MSTR" /\ Follow(p, m)
    BY <1>3, <1>6 DEF Yield, IInv, VerdictsOK
  <2> QED
    BY <1>1, <1>3, <1>6, <2>1, YieldMoves, FollowIsFollow, MasteryNext
<1>7. CASE ObeyClient(p, m)
  <2>1. master' = [master EXCEPT ![p] = NoMaster] /\ UNCHANGED <<won, term>>
    BY <1>1, <1>7 DEF ObeyClient
  <2> QED
    BY <2>1, LeavesMaster, MasteryNext
<1>8. CASE ~ (AcceptMaster(p, m) \/ Yield(p, m) \/ ObeyClient(p, m))
  <2>1. UNCHANGED term /\ (UNCHANGED master \/ Confirm(p, m))
    BY <1>4, <1>8 DEF Judge, CarryOut, AnswerPing, RefuseBusy, JudgeCandidate, Decide,
       RandomVote, HearMaster, JudgeMaster, IgnoreMaster, sharedVars, Grant, Refuse,
       DiscardMaster
  <2>2. SameMasters
    BY <1>1, <2>1, ConfirmTypes DEF IInv, Types, SameMasters
  <2> QED
    BY <2>2, QuietMastery
<1> QED
  BY <1>5, <1>6, <1>7, <1>8

LEMMA StepMastery ==
    ASSUME IInv, OvertakenOK, [Next]_vars
    PROVE  [Masters!Next]_(Masters!Mastery)
<1>1. ASSUME NEW p \in Peer, Elector(p) \/ ByzantineElector(p) \/ Server(p)
      PROVE  [Masters!Next]_(Masters!Mastery)
  BY <1>1, ElectorMastery, ByzantineMastery, ServerMastery
<1>2. ASSUME NEW p \in Peer, Crash(p)
      PROVE  [Masters!Next]_(Masters!Mastery)
  BY <1>2, CrashForgets, MasteryNext
<1>3. ASSUME NEW p \in Peer, ForceElection(p) \/ Expire(p) \/ Restart(p)
      PROVE  [Masters!Next]_(Masters!Mastery)
  <2>1. UNCHANGED <<won, term, master>>
    BY <1>3 DEF ForceElection, Expire, Restart, sharedVars, historyVars
  <2> QED
    BY <2>1, QuietMastery DEF SameMasters
<1>4. CASE UNCHANGED vars
  <2>1. UNCHANGED <<won, term, master>>
    BY <1>4 DEF vars, sharedVars, historyVars
  <2> QED
    BY <2>1, QuietMastery DEF SameMasters
<1> QED
  BY <1>1, <1>2, <1>3, <1>4 DEF Next

LEMMA FirstMastery ==
    ASSUME Init
    PROVE  OvertakenOK /\ Masters!Init
<1>1. \A p \in Peer : verdict[p] = "none"
  BY DEF Init
<1>2. won = {} /\ term = [p \in Peer |-> 0] /\ master = [p \in Peer |-> NoMaster]
  BY DEF Init
<1>3. \A p \in Peer : master[p].port = Masters!Nobody
  BY <1>2, NobodyFollowed
<1> QED
  BY <1>1, <1>2, <1>3 DEF OvertakenOK, OvertakenPeer, Masters!Init

\* Elections keep the promise of Mastership: whoever leads or is followed has won or is
\* Byzantine, a peer moves only to terms that were won, and a correct one back only
\* from a term that it has won itself, by one, when another peer was faster.
THEOREM ElectionImplementsMastership == Spec => ImplementsMastership
<1>1. Init => OvertakenOK /\ Masters!Init
  BY FirstMastery
<1>2. IInv /\ OvertakenOK /\ [Next]_vars => OvertakenOK'
  BY OvertakenKeeps
<1>3. IInv /\ OvertakenOK /\ [Next]_vars => [Masters!Next]_(Masters!Mastery)
  BY StepMastery
<1> QED
  BY <1>1, <1>2, <1>3, ElectionInvariant, PTL DEF Spec, ImplementsMastership, Masters!Spec

=============================================================================
