-------------------------- MODULE ClientRequestProofs --------------------------
(***************************************************************************)
(* Proofs about ClientRequest, for any number of peers, any bounds, any    *)
(* changes of master and any crashes.  The inductive invariant says that   *)
(*   - a live call is the only one of its caller, and its caller waits for *)
(*     the answer to just what the call asks (CallsOK, OneCall), so no     *)
(*     answer meets a later command or another relay;                      *)
(*   - whoever holds the acknowledgement of an edit, the client or a       *)
(*     server that relayed it, holds that of an edit a master applied      *)
(*     (AcknowledgedOK);                                                   *)
(*   - the client sends a command at most once per peer and once more, and *)
(*     every sending is spent on one application or stands for one copy    *)
(*     under way (SendsOK, Budget).                                        *)
(* Most parts are stated about queues, relays and a client that are given  *)
(* as parameters, because a handler changes them in two or three moves     *)
(* that each preserve them (the call is taken, then relayed or answered).  *)
(***************************************************************************)
EXTENDS ClientRequest, FiniteSetTheorems, SequenceLemmas

-----------------------------------------------------------------------------
(* The inductive invariant.                                                *)

ClientState ==
    [pc : {"prompt", "send", "wait", "elect"}, kind : Kinds \cup {"none"},
     command : 0 .. MaxCommands, at : 1 .. N + 1, tries : 0 .. N,
     reply : Replies \cup {"none", "wait"},
     outcome : {"none", "success", "failed", "timeout"}]

Busy == [call : Call, reply : Replies \cup {"wait"}]

Types ==
    /\ up \in [Peer -> BOOLEAN]
    /\ master \in [Peer -> 0 .. N]
    /\ opened \in [Peer -> 0 .. Descriptors]
    /\ sent \in [Commands -> Nat]
    /\ applied \in [Commands -> Nat]

ClientOK(cl) ==
    /\ cl \in ClientState
    /\ cl.pc # "prompt" => cl.command \in Commands /\ cl.kind \in Kinds
    /\ cl.pc \in {"send", "wait"} => cl.at \in Peer
    /\ cl.reply = "wait" => cl.pc = "wait"
    /\ cl.pc \in {"send", "elect"} => cl.reply = "none"
    /\ cl.pc = "elect" => cl.kind = "elect"

QueuesOK(Q) ==
    /\ Q \in [Peer -> Seq(Call)]
    /\ \A p \in Peer : \A i \in DOMAIN Q[p] : Q[p][i].from # p

RelaysOK(R) ==
    /\ R \in [Peer -> Busy \cup {Idle}]
    /\ \A p \in Peer : R[p] # Idle => R[p].call.kind \in Edits /\ R[p].call.from # p

\* The caller waits, for the answer to what c asks.
Awaited(R, cl, c) ==
    IF c.from = Client
    THEN cl.reply = "wait" /\ c.command = cl.command /\ c.kind = cl.kind
    ELSE /\ R[c.from].reply = "wait"
         /\ c.command = R[c.from].call.command /\ c.kind = R[c.from].call.kind

CallsOK(Q, R, cl) ==
    \A p \in Peer :
        /\ \A i \in DOMAIN Q[p] : Q[p][i].live => Awaited(R, cl, Q[p][i])
        /\ R[p].call.live => Awaited(R, cl, R[p].call)

OneCall(Q, R) ==
    \A p, q \in Peer :
        /\ \A i \in DOMAIN Q[p], j \in DOMAIN Q[q] :
             Q[p][i].live /\ Q[q][j].live /\ Q[p][i].from = Q[q][j].from => p = q /\ i = j
        /\ R[p].call.live /\ R[q].call.live /\ R[p].call.from = R[q].call.from => p = q
        /\ \A i \in DOMAIN Q[p] :
             Q[p][i].live /\ R[q].call.live => Q[p][i].from # R[q].call.from

AcknowledgedOK(R, cl, ap) ==
    /\ cl.reply = "PING" /\ cl.kind \in Edits => cl.command \in Commands /\ ap[cl.command] > 0
    /\ \A p \in Peer : R[p].reply = "PING" => ap[R[p].call.command] > 0

Exchange(Q, R, cl, ap) ==
    /\ QueuesOK(Q) /\ RelaysOK(R) /\ ClientOK(cl)
    /\ CallsOK(Q, R, cl) /\ OneCall(Q, R)
    /\ AcknowledgedOK(R, cl, ap)

RelaysUp == \A p \in Peer : relay[p] # Idle => up[p]

SendsOK(cl, se) ==
    /\ \A i \in Commands : i > cl.command => se[i] = 0
    /\ \A i \in Commands : se[i] <= N + 1
    /\ cl.pc = "send" => se[cl.command] <= cl.tries
    /\ cl.pc = "wait" => se[cl.command] <= cl.tries + 1

Budget(Q, ap, se) ==
    \A i \in Commands : /\ IsFiniteSet(CopiesIn(Q, i))
                        /\ ap[i] + Cardinality(CopiesIn(Q, i)) <= se[i]

IInv ==
    /\ Types /\ RelaysUp
    /\ Exchange(queue, relay, client, applied)
    /\ SendsOK(client, sent)
    /\ Budget(queue, applied, sent)

-----------------------------------------------------------------------------
(* Records.                                                                *)

LEMMA ConstantsInRange ==
    /\ N \in Nat \ {0} /\ MaxCommands \in Nat /\ Descriptors \in Nat
    /\ Client \notin Peer /\ 1 \in Peer
    /\ \A p \in Peer : p \in Int /\ p \in 0 .. N /\ p \in 1 .. N + 1
BY ConstantsAssumption DEF Peer, Client

LEMMA IdleIsQuiet ==
    /\ Idle.reply = "none" /\ Idle.call.live = FALSE /\ Idle \notin Busy
BY DEF Idle, NoCall, Busy, Replies

\* The call of an idle peer is NoCall, which is not live.
LEMMA BusyRelay ==
    ASSUME NEW x \in Busy \cup {Idle}
    PROVE  /\ x.call.live \/ x.reply # "none" => x \in Busy
           /\ x # Idle <=> x \in Busy
           /\ x \in Busy => x.call \in Call /\ x.reply # "none"
BY IdleIsQuiet DEF Busy, Replies

LEMMA DeadCall ==
    ASSUME NEW c \in Call, NEW a
    PROVE  /\ Dead(c, a) \in Call
           /\ Dead(c, a).from = c.from /\ Dead(c, a).command = c.command
           /\ Dead(c, a).kind = c.kind
           /\ Dead(c, a).live => c.live /\ c.from # a
<1>1. \A b \in BOOLEAN : [c EXCEPT !.live = b]
        = [from |-> c.from, live |-> b, command |-> c.command, kind |-> c.kind]
  BY DEF Call
<1>2. [c EXCEPT !.live = FALSE]
        = [from |-> c.from, live |-> FALSE, command |-> c.command, kind |-> c.kind]
  BY <1>1, Zenon
<1>3. CASE c.from = a
  BY <1>2, <1>3 DEF Dead, Call
<1>4. CASE c.from # a
  BY <1>4 DEF Dead
<1> QED
  BY <1>3, <1>4

Deserted(x, a) == [x EXCEPT !.call = Dead(@, a)]

\* Whether or not its call was one of a's, a relay is as idle and as busy as before.
LEMMA DeadRelay ==
    ASSUME NEW x \in Busy \cup {Idle}, NEW a, NEW y, y = Deserted(x, a)
    PROVE  /\ y \in Busy \cup {Idle} /\ y.reply = x.reply
           /\ x # Idle <=> y # Idle
           /\ y.call.from = x.call.from /\ y.call.command = x.call.command
           /\ y.call.kind = x.call.kind
           /\ y.call.live => x.call.live /\ x.call.from # a
<1>1. CASE x \in Busy
  <2>1. PICK d \in Call : d = Dead(x.call, a)
    BY <1>1, DeadCall, BusyRelay
  <2>2. y = [call |-> d, reply |-> x.reply]
    BY <1>1, <2>1 DEF Busy, Deserted
  <2>3. y \in Busy /\ y.call = d /\ y.reply = x.reply
    BY <1>1, <2>2 DEF Busy
  <2>4. x.call \in Call
    BY <1>1, BusyRelay
  <2>5. /\ d.from = x.call.from /\ d.command = x.call.command /\ d.kind = x.call.kind
        /\ d.live => x.call.live /\ x.call.from # a
    BY <2>1, <2>4, DeadCall
  <2> QED
    BY <1>1, <2>3, <2>5, IdleIsQuiet
<1>2. CASE x = Idle
  <2>1. Dead(NoCall, a) = NoCall
    <3>1. [NoCall EXCEPT !.live = FALSE] = NoCall
      <4>1. NoCall.live = FALSE
        BY DEF NoCall
      <4>2. NoCall = [k \in DOMAIN NoCall |-> NoCall[k]]
        BY DEF NoCall
      <4> QED
        BY <4>1, <4>2 DEF NoCall
    <3> QED
      BY <3>1 DEF Dead
  <2>2. y = Idle
    BY <1>2, <2>1 DEF Idle, Deserted
  <2> QED
    BY <1>2, <2>2, IdleIsQuiet
<1> QED
  BY <1>1, <1>2

LEMMA CallRanges ==
    ASSUME NEW c \in Call
    PROVE  /\ c.from = Client \/ c.from \in Peer
           /\ c.command \in Commands /\ c.kind \in Kinds /\ c.live \in BOOLEAN
BY ConstantsInRange DEF Call, Client, Peer

\* A client that only gets an answer.
LEMMA ClientAnswered ==
    ASSUME NEW cl \in ClientState, NEW r \in Replies \cup {"none", "wait"},
           NEW new, new = [cl EXCEPT !.reply = r]
    PROVE  /\ new \in ClientState
           /\ new.pc = cl.pc /\ new.kind = cl.kind /\ new.command = cl.command
           /\ new.at = cl.at /\ new.tries = cl.tries /\ new.outcome = cl.outcome
           /\ new.reply = r
<1>1. [cl EXCEPT !.reply = r]
        = [pc |-> cl.pc, kind |-> cl.kind, command |-> cl.command, at |-> cl.at,
           tries |-> cl.tries, reply |-> r, outcome |-> cl.outcome]
  BY DEF ClientState
<1> QED
  BY <1>1 DEF ClientState

-----------------------------------------------------------------------------
(* What handlers do with calls, one move at a time.                        *)

\* No call of a is live.
Silent(Q, R, a) ==
    \A p \in Peer :
        /\ \A i \in DOMAIN Q[p] : Q[p][i].live => Q[p][i].from # a
        /\ R[p].call.live => R[p].call.from # a

\* c has been taken out of where it was, and is not answered yet.
Pending(Q, R, cl, c) ==
    /\ c \in Call
    /\ c.live => Silent(Q, R, c.from) /\ Awaited(R, cl, c)

WithoutFirst(Q, p) == [Q EXCEPT ![p] = Tail(@)]
WithLast(Q, q, c) == [Q EXCEPT ![q] = Append(@, c)]

\* d asks the same as c, for the same caller.
SameCall(d, c) == d.from = c.from /\ d.command = c.command /\ d.kind = c.kind

\* The live calls are where they were, but for those of a, which are gone.
QueuesStay(Q, Q2, a) ==
    \A p \in Peer : \A i \in DOMAIN Q2[p] : Q2[p][i].live =>
        i \in DOMAIN Q[p] /\ Q[p][i].live /\ SameCall(Q2[p][i], Q[p][i]) /\ Q[p][i].from # a

RelaysStay(R, R2, a) ==
    \A p \in Peer :
        /\ R2[p].call.live =>
             R[p].call.live /\ SameCall(R2[p].call, R[p].call) /\ R[p].call.from # a
        /\ R[p].reply = "wait" /\ p # a =>
             /\ R2[p].reply = "wait" /\ R2[p].call.command = R[p].call.command
             /\ R2[p].call.kind = R[p].call.kind

LEMMA CallsStay ==
    ASSUME NEW Q, NEW R, NEW cl, QueuesOK(Q), RelaysOK(R), CallsOK(Q, R, cl), OneCall(Q, R),
           NEW Q2, NEW R2, NEW a, QueuesStay(Q, Q2, a), RelaysStay(R, R2, a)
    PROVE  CallsOK(Q2, R2, cl) /\ OneCall(Q2, R2) /\ Silent(Q2, R2, a)
<1>1. ASSUME NEW c \in Call, NEW d, c.live, Awaited(R, cl, c), c.from # a, SameCall(d, c)
      PROVE  Awaited(R2, cl, d)
  <2>1. CASE c.from = Client
    BY <1>1, <2>1 DEF Awaited, SameCall
  <2>2. CASE c.from # Client
    <3>1. c.from \in Peer
      BY <2>2, CallRanges
    <3> QED
      BY <1>1, <2>2, <3>1 DEF Awaited, SameCall, RelaysStay
  <2> QED
    BY <2>1, <2>2
<1>2. \A p \in Peer : \A i \in DOMAIN Q[p] : Q[p][i] \in Call
  BY LenProperties, ElementOfSeq DEF QueuesOK
<1>3. \A p \in Peer : R[p].call.live => R[p].call \in Call
  BY BusyRelay DEF RelaysOK
<1>4. CallsOK(Q2, R2, cl)
  <2>1. ASSUME NEW p \in Peer, NEW i \in DOMAIN Q2[p], Q2[p][i].live
        PROVE  Awaited(R2, cl, Q2[p][i])
    BY <1>1, <1>2, <2>1 DEF CallsOK, QueuesStay
  <2>2. ASSUME NEW p \in Peer, R2[p].call.live
        PROVE  Awaited(R2, cl, R2[p].call)
    BY <1>1, <1>3, <2>2 DEF CallsOK, RelaysStay
  <2> QED
    BY <2>1, <2>2 DEF CallsOK
<1>5. OneCall(Q2, R2)
  <2>1. ASSUME NEW p \in Peer, NEW q \in Peer, NEW i \in DOMAIN Q2[p], NEW j \in DOMAIN Q2[q],
               Q2[p][i].live, Q2[q][j].live, Q2[p][i].from = Q2[q][j].from
        PROVE  p = q /\ i = j
    <3>1. /\ i \in DOMAIN Q[p] /\ Q[p][i].live /\ Q2[p][i].from = Q[p][i].from
          /\ j \in DOMAIN Q[q] /\ Q[q][j].live /\ Q2[q][j].from = Q[q][j].from
      BY <2>1 DEF QueuesStay, SameCall
    <3>2. Q[p][i].live /\ Q[q][j].live /\ Q[p][i].from = Q[q][j].from => p = q /\ i = j
      BY <3>1 DEF OneCall
    <3> QED
      BY <2>1, <3>1, <3>2
  <2>2. ASSUME NEW p \in Peer, NEW q \in Peer, R2[p].call.live, R2[q].call.live,
               R2[p].call.from = R2[q].call.from
        PROVE  p = q
    BY <2>2 DEF OneCall, RelaysStay, SameCall
  <2>3. ASSUME NEW p \in Peer, NEW q \in Peer, NEW i \in DOMAIN Q2[p],
               Q2[p][i].live, R2[q].call.live
        PROVE  Q2[p][i].from # R2[q].call.from
    BY <2>3 DEF OneCall, QueuesStay, RelaysStay, SameCall
  <2> QED
    BY <2>1, <2>2, <2>3 DEF OneCall
<1>6. Silent(Q2, R2, a)
  BY DEF Silent, QueuesStay, RelaysStay, SameCall
<1> QED
  BY <1>4, <1>5, <1>6

\* The first call of a queue is taken off, to be answered or relayed.
LEMMA TakeFirst ==
    ASSUME NEW Q, NEW R, NEW cl, NEW ap, Exchange(Q, R, cl, ap),
           NEW p \in Peer, Q[p] # <<>>, NEW Q2, Q2 = WithoutFirst(Q, p)
    PROVE  /\ Exchange(Q2, R, cl, ap) /\ Pending(Q2, R, cl, Head(Q[p]))
           /\ Head(Q[p]).from # p
<1> DEFINE at(r, i) == IF r = p THEN i + 1 ELSE i
<1>1. Q[p] \in Seq(Call) /\ Q \in [Peer -> Seq(Call)]
  BY DEF Exchange, QueuesOK
<1>2. /\ 1 \in DOMAIN Q[p] /\ Head(Q[p]) = Q[p][1] /\ Head(Q[p]) \in Call
      /\ Tail(Q[p]) \in Seq(Call)
      /\ \A i \in DOMAIN Tail(Q[p]) :
            i \in Nat /\ i + 1 \in DOMAIN Q[p] /\ i # 0 /\ Tail(Q[p])[i] = Q[p][i + 1]
  <2>1. PICK s \in Seq(Call) : s = Q[p]
    BY <1>1
  <2> QED
    BY <2>1, Dequeued
<1>3. /\ Q2[p] = Tail(Q[p]) /\ \A r \in Peer : r # p => Q2[r] = Q[r]
      /\ Q2 \in [Peer -> Seq(Call)]
  BY <1>1, <1>2 DEF WithoutFirst
<1>4. ASSUME NEW r \in Peer, NEW i \in DOMAIN Q2[r]
      PROVE  at(r, i) \in DOMAIN Q[r] /\ Q2[r][i] = Q[r][at(r, i)] /\ (r = p => at(r, i) # 1)
  <2>1. CASE r = p
    <3>1. i \in DOMAIN Tail(Q[p]) /\ at(r, i) = i + 1
      BY <1>3, <2>1
    <3>2. /\ i \in Nat /\ i # 0 /\ i + 1 \in DOMAIN Q[p] /\ Tail(Q[p])[i] = Q[p][i + 1]
      BY <1>2, <3>1
    <3>3. i + 1 # 1
      BY <3>2
    <3> HIDE DEF at
    <3> QED
      BY <1>3, <2>1, <3>1, <3>2, <3>3
  <2>2. CASE r # p
    BY <1>3, <2>2
  <2> QED
    BY <2>1, <2>2
<1>5. ASSUME NEW r \in Peer, NEW i \in DOMAIN Q2[r], NEW j \in DOMAIN Q2[r], at(r, i) = at(r, j)
      PROVE  i = j
  <2>1. CASE r = p
    <3>1. i \in Nat /\ j \in Nat
      BY <1>2, <1>3, <2>1
    <3> QED
      BY <1>5, <2>1, <3>1
  <2>2. CASE r # p
    BY <1>5, <2>2
  <2> QED
    BY <2>1, <2>2
<1> HIDE DEF at
<1>6. QueuesOK(Q2)
  BY <1>3, <1>4 DEF Exchange, QueuesOK
<1>7. CallsOK(Q2, R, cl)
  BY <1>4 DEF Exchange, CallsOK
<1>8. OneCall(Q2, R)
  <2>1. ASSUME NEW r \in Peer, NEW s \in Peer, NEW i \in DOMAIN Q2[r], NEW j \in DOMAIN Q2[s],
               Q2[r][i].live, Q2[s][j].live, Q2[r][i].from = Q2[s][j].from
        PROVE  r = s /\ i = j
    <3>1. r = s /\ at(r, i) = at(s, j)
      BY <1>4, <2>1 DEF Exchange, OneCall
    <3> QED
      BY <1>5, <3>1
  <2>2. ASSUME NEW r \in Peer, NEW s \in Peer, NEW i \in DOMAIN Q2[r],
               Q2[r][i].live, R[s].call.live
        PROVE  Q2[r][i].from # R[s].call.from
    BY <1>4, <2>2 DEF Exchange, OneCall
  <2> QED
    BY <2>1, <2>2 DEF Exchange, OneCall
<1>9. ASSUME Q[p][1].live
      PROVE  Silent(Q2, R, Q[p][1].from) /\ Awaited(R, cl, Q[p][1])
  <2>1. Awaited(R, cl, Q[p][1])
    BY <1>2, <1>9 DEF Exchange, CallsOK
  <2>2. ASSUME NEW r \in Peer, NEW i \in DOMAIN Q2[r], Q2[r][i].live
        PROVE  Q2[r][i].from # Q[p][1].from
    BY <1>2, <1>4, <1>9, <2>2 DEF Exchange, OneCall
  <2>3. ASSUME NEW r \in Peer, R[r].call.live
        PROVE  R[r].call.from # Q[p][1].from
    BY <1>2, <1>9, <2>3 DEF Exchange, OneCall
  <2> QED
    BY <2>1, <2>2, <2>3 DEF Silent
<1>10. Head(Q[p]).from # p
  BY <1>2 DEF Exchange, QueuesOK
<1> QED
  BY <1>2, <1>6, <1>7, <1>8, <1>9, <1>10 DEF Exchange, Pending

\* A call is put at the end of the queue of another peer than its caller.
LEMMA PutLast ==
    ASSUME NEW Q, NEW R, NEW cl, NEW ap, Exchange(Q, R, cl, ap),
           NEW c, Pending(Q, R, cl, c),
           NEW q \in Peer, c.from # q, NEW Q2, Q2 = WithLast(Q, q, c)
    PROVE  Exchange(Q2, R, cl, ap)
<1>1. Q[q] \in Seq(Call) /\ Q \in [Peer -> Seq(Call)] /\ c \in Call
  BY DEF Exchange, QueuesOK, Pending
<1>2. PICK k : k = Len(Q[q]) + 1
  OBVIOUS
<1>3. /\ Append(Q[q], c) \in Seq(Call)
      /\ DOMAIN Append(Q[q], c) = DOMAIN Q[q] \cup {k} /\ k \notin DOMAIN Q[q]
      /\ \A i \in DOMAIN Q[q] : Append(Q[q], c)[i] = Q[q][i]
      /\ Append(Q[q], c)[k] = c
  <2>1. PICK s \in Seq(Call) : s = Q[q]
    BY <1>1
  <2> QED
    BY <1>1, <1>2, <2>1, Enqueued
<1>4. /\ Q2[q] = Append(Q[q], c) /\ \A r \in Peer : r # q => Q2[r] = Q[r]
      /\ Q2 \in [Peer -> Seq(Call)]
  BY <1>1, <1>3 DEF WithLast
<1>5. \A r \in Peer : \A i \in DOMAIN Q2[r] :
        \/ i \in DOMAIN Q[r] /\ Q2[r][i] = Q[r][i]
        \/ r = q /\ i = k /\ Q2[r][i] = c
  BY <1>3, <1>4
<1>6. QueuesOK(Q2)
  BY <1>4, <1>5 DEF Exchange, QueuesOK
<1>7. CallsOK(Q2, R, cl)
  BY <1>5 DEF Exchange, CallsOK, Pending
<1>8. OneCall(Q2, R)
  <2>1. ASSUME NEW r \in Peer, NEW s \in Peer, NEW i \in DOMAIN Q2[r], NEW j \in DOMAIN Q2[s],
               Q2[r][i].live, Q2[s][j].live, Q2[r][i].from = Q2[s][j].from
        PROVE  r = s /\ i = j
    BY <1>5, <2>1 DEF Exchange, OneCall, Pending, Silent
  <2>2. ASSUME NEW r \in Peer, NEW s \in Peer, NEW i \in DOMAIN Q2[r],
               Q2[r][i].live, R[s].call.live
        PROVE  Q2[r][i].from # R[s].call.from
    BY <1>5, <2>2 DEF Exchange, OneCall, Pending, Silent
  <2> QED
    BY <2>1, <2>2 DEF Exchange, OneCall
<1> QED
  BY <1>6, <1>7, <1>8 DEF Exchange

Relaying(R, p, c) == [R EXCEPT ![p] = [call |-> c, reply |-> "wait"]]

\* A server that was idle waits for nobody, and then relays c.
LEMMA RelayStarts ==
    ASSUME NEW Q, NEW R, NEW cl, NEW ap, Exchange(Q, R, cl, ap),
           NEW c, Pending(Q, R, cl, c), c.kind \in Edits,
           NEW p \in Peer, R[p] = Idle, c.from # p,
           NEW R2, R2 = Relaying(R, p, c)
    PROVE  Exchange(Q, R2, cl, ap) /\ Silent(Q, R2, p) /\ R2[p].reply = "wait" /\ R2[p].call = c
<1>1. PICK b : b = [call |-> c, reply |-> "wait"]
  OBVIOUS
<1>2. b \in Busy /\ b.call = c /\ b.reply = "wait" /\ b # Idle
  BY <1>1, IdleIsQuiet DEF Busy, Pending
<1>3. R2[p] = b /\ (\A r \in Peer : r # p => R2[r] = R[r]) /\ R2 \in [Peer -> Busy \cup {Idle}]
  BY <1>1, <1>2 DEF Relaying, Exchange, RelaysOK
<1>4. R[p].reply # "wait" /\ p # Client
  BY IdleIsQuiet, ConstantsInRange
<1>5. Silent(Q, R, p)
  BY <1>4 DEF Exchange, CallsOK, Awaited, Silent
<1>6. RelaysOK(R2)
  BY <1>2, <1>3 DEF Exchange, RelaysOK
<1>7. ASSUME NEW d, Awaited(R, cl, d), d.from # p, d.from = Client \/ d.from \in Peer
      PROVE  Awaited(R2, cl, d)
  BY <1>3, <1>7 DEF Awaited
<1>8. /\ \A r \in Peer : \A i \in DOMAIN Q[r] : Q[r][i] \in Call
      /\ \A r \in Peer : R[r].call.live => R[r].call \in Call
  BY LenProperties, ElementOfSeq, BusyRelay DEF Exchange, QueuesOK, RelaysOK
<1>9. CallsOK(Q, R2, cl)
  <2>1. ASSUME NEW r \in Peer, NEW i \in DOMAIN Q[r], Q[r][i].live
        PROVE  Awaited(R2, cl, Q[r][i])
    BY <1>5, <1>7, <1>8, <2>1, CallRanges DEF Exchange, CallsOK, Silent
  <2>2. ASSUME NEW r \in Peer, R2[r].call.live
        PROVE  Awaited(R2, cl, R2[r].call)
    <3>1. CASE r = p
      BY <1>2, <1>3, <1>7, <2>2, <3>1, CallRanges DEF Pending
    <3>2. CASE r # p
      BY <1>3, <1>5, <1>7, <1>8, <2>2, <3>2, CallRanges DEF Exchange, CallsOK, Silent
    <3> QED
      BY <3>1, <3>2
  <2> QED
    BY <2>1, <2>2 DEF CallsOK
<1>10. OneCall(Q, R2)
  <2>1. ASSUME NEW r \in Peer, NEW s \in Peer, R2[r].call.live, R2[s].call.live,
               R2[r].call.from = R2[s].call.from
        PROVE  r = s
    BY <1>2, <1>3, <2>1 DEF Exchange, OneCall, Pending, Silent
  <2>2. ASSUME NEW r \in Peer, NEW s \in Peer, NEW i \in DOMAIN Q[r],
               Q[r][i].live, R2[s].call.live
        PROVE  Q[r][i].from # R2[s].call.from
    BY <1>2, <1>3, <2>2 DEF Exchange, OneCall, Pending, Silent
  <2> QED
    BY <2>1, <2>2 DEF Exchange, OneCall
<1>11. AcknowledgedOK(R2, cl, ap)
  BY <1>2, <1>3 DEF Exchange, AcknowledgedOK
<1>12. Silent(Q, R2, p)
  BY <1>2, <1>3, <1>5 DEF Silent
<1> QED
  BY <1>2, <1>3, <1>6, <1>9, <1>10, <1>11, <1>12 DEF Exchange

\* A server whose call is not live any longer is done with the relay.
LEMMA RelayEnds ==
    ASSUME NEW Q, NEW R, NEW cl, NEW ap, Exchange(Q, R, cl, ap),
           NEW p \in Peer, R[p] # Idle, Silent(Q, R, p),
           NEW R2, R2 = [R EXCEPT ![p] = Idle]
    PROVE  Exchange(Q, R2, cl, ap) /\ Pending(Q, R2, cl, R[p].call)
<1>1. R2[p] = Idle /\ (\A r \in Peer : r # p => R2[r] = R[r]) /\ R2 \in [Peer -> Busy \cup {Idle}]
  BY DEF Exchange, RelaysOK
<1>2. R2[p].reply = "none" /\ R2[p].call.live = FALSE /\ p # Client
  BY <1>1, IdleIsQuiet, ConstantsInRange
<1>3. CallsOK(Q, R2, cl) /\ OneCall(Q, R2)
  <2>1. QueuesStay(Q, Q, p)
    BY DEF Silent, QueuesStay, SameCall
  <2>2. RelaysStay(R, R2, p)
    BY <1>1, <1>2 DEF Silent, RelaysStay, SameCall
  <2> QED
    BY <2>1, <2>2, CallsStay DEF Exchange
<1>4. RelaysOK(R2) /\ AcknowledgedOK(R2, cl, ap)
  BY <1>1, <1>2 DEF Exchange, RelaysOK, AcknowledgedOK
<1>5. Exchange(Q, R2, cl, ap)
  BY <1>3, <1>4 DEF Exchange
<1>6. R[p].call \in Call /\ R[p].call.from # p
  BY BusyRelay DEF Exchange, RelaysOK
<1>7. ASSUME R[p].call.live
      PROVE  Silent(Q, R2, R[p].call.from) /\ Awaited(R2, cl, R[p].call)
  <2>1. Awaited(R, cl, R[p].call)
    BY <1>7 DEF Exchange, CallsOK
  <2>2. R[p].call.from = Client \/ R[p].call.from \in Peer
    BY <1>6, CallRanges
  <2>3. Awaited(R2, cl, R[p].call)
    BY <1>1, <1>6, <2>1, <2>2 DEF Awaited
  <2>4. ASSUME NEW r \in Peer, NEW i \in DOMAIN Q[r], Q[r][i].live
        PROVE  Q[r][i].from # R[p].call.from
    BY <1>7, <2>4 DEF Exchange, OneCall
  <2>5. ASSUME NEW r \in Peer, R2[r].call.live
        PROVE  R2[r].call.from # R[p].call.from
    BY <1>1, <1>2, <1>7, <2>5 DEF Exchange, OneCall
  <2> QED
    BY <2>3, <2>4, <2>5 DEF Silent
<1> QED
  BY <1>5, <1>6, <1>7 DEF Pending

\* A relay that has its answer waits no longer.
LEMMA RelayAnswered ==
    ASSUME NEW Q, NEW R, NEW cl, NEW ap, Exchange(Q, R, cl, ap),
           NEW p \in Peer, R[p].reply # "wait"
    PROVE  Silent(Q, R, p)
BY ConstantsInRange DEF Exchange, CallsOK, Awaited, Silent

LEMMA ClientQuiet ==
    ASSUME NEW Q, NEW R, NEW cl, NEW ap, Exchange(Q, R, cl, ap), cl.reply # "wait"
    PROVE  Silent(Q, R, Client)
BY DEF Exchange, CallsOK, Awaited, Silent

\* A client without a call may change as it likes; if it calls, nothing is live yet.
LEMMA ClientMoves ==
    ASSUME NEW Q, NEW R, NEW cl, NEW ap, Exchange(Q, R, cl, ap), Silent(Q, R, Client),
           NEW cl2, ClientOK(cl2),
           cl2.reply = "PING" /\ cl2.kind \in Edits =>
                cl2.command \in Commands /\ ap[cl2.command] > 0
    PROVE  Exchange(Q, R, cl2, ap)
<1>1. \A p \in Peer : \A i \in DOMAIN Q[p] : Q[p][i].live => Q[p][i].from # Client
  BY DEF Silent
<1>2. \A p \in Peer : R[p].call.live => R[p].call.from # Client
  BY DEF Silent
<1>3. QueuesOK(Q) /\ RelaysOK(R) /\ CallsOK(Q, R, cl) /\ OneCall(Q, R)
  BY DEF Exchange
<1>4. CallsOK(Q, R, cl2)
  BY <1>1, <1>2, <1>3 DEF CallsOK, Awaited
<1> QED
  BY <1>3, <1>4 DEF Exchange, AcknowledgedOK

\* An answer changes nothing but whether its caller waits.
LEMMA AnswerGiven ==
    ASSUME NEW Q, NEW R, NEW cl, NEW ap, Exchange(Q, R, cl, ap),
           NEW c, Pending(Q, R, cl, c),
           NEW r \in Replies, r = "PING" => ap[c.command] > 0,
           NEW R2, NEW cl2,
           cl2 = IF c.live /\ c.from = Client THEN [cl EXCEPT !.reply = r] ELSE cl,
           R2 = IF c.live /\ c.from # Client THEN [R EXCEPT ![c.from].reply = r] ELSE R
    PROVE  /\ Exchange(Q, R2, cl2, ap)
           /\ \A p \in Peer : R2[p] # Idle <=> R[p] # Idle
           /\ cl2.pc = cl.pc /\ cl2.command = cl.command /\ cl2.kind = cl.kind
           /\ cl2.tries = cl.tries /\ cl2.at = cl.at
<1>1. CASE ~ c.live
  BY <1>1
<1>2. CASE c.live /\ c.from = Client
  <2>1. Silent(Q, R, Client) /\ cl.reply = "wait" /\ c.command = cl.command /\ R2 = R
    BY <1>2 DEF Pending, Awaited
  <2>2. cl \in ClientState /\ r \in Replies \cup {"none", "wait"}
    BY DEF Exchange, ClientOK
  <2>3. cl2 = [cl EXCEPT !.reply = r]
    BY <1>2
  <2>4. /\ cl2 \in ClientState
        /\ cl2.pc = cl.pc /\ cl2.kind = cl.kind /\ cl2.command = cl.command
        /\ cl2.at = cl.at /\ cl2.tries = cl.tries /\ cl2.reply = r
    BY <2>2, <2>3, ClientAnswered
  <2>5. r # "wait" /\ cl.pc = "wait"
    BY <2>1 DEF Replies, Exchange, ClientOK
  <2>6. ClientOK(cl2)
    BY <2>4, <2>5 DEF Exchange, ClientOK
  <2>7. cl2.command \in Commands /\ (r = "PING" => ap[cl2.command] > 0)
    BY <2>1, <2>4, CallRanges DEF Pending
  <2>8. Exchange(Q, R, cl2, ap)
    BY <2>1, <2>4, <2>6, <2>7, ClientMoves
  <2> QED
    BY <2>1, <2>4, <2>8
<1>3. CASE c.live /\ c.from # Client
  <2>1. PICK p \in Peer : p = c.from
    BY <1>3, CallRanges DEF Pending
  <2>2. Silent(Q, R, p) /\ R[p].reply = "wait" /\ c.command = R[p].call.command
    BY <1>3, <2>1 DEF Pending, Awaited
  <2>3. PICK old \in Busy : old = R[p]
    BY <2>2, BusyRelay DEF Exchange, RelaysOK
  <2>4. PICK new : new = [call |-> old.call, reply |-> r]
    OBVIOUS
  <2>5. new \in Busy /\ new.call = old.call /\ new.reply = r
    BY <2>4 DEF Busy
  <2>6. [old EXCEPT !.reply = r] = new
    BY <2>4 DEF Busy
  <2>7. R2 = [R EXCEPT ![p] = new]
    BY <1>3, <2>1, <2>3, <2>6
  <2>8. R2[p] = new /\ (\A q \in Peer : q # p => R2[q] = R[q]) /\ R2 \in [Peer -> Busy \cup {Idle}]
    BY <2>5, <2>7 DEF Exchange, RelaysOK
  <2>9. \A q \in Peer : R2[q] # Idle <=> R[q] # Idle
    BY <2>3, <2>5, <2>8, IdleIsQuiet
  <2>10. \A q \in Peer : R2[q].call = R[q].call
    BY <2>3, <2>5, <2>8
  <2>11. CallsOK(Q, R2, cl) /\ OneCall(Q, R2)
    <3>1. QueuesStay(Q, Q, p)
      BY <2>2 DEF Silent, QueuesStay, SameCall
    <3>2. RelaysStay(R, R2, p)
      BY <2>2, <2>8, <2>10 DEF Silent, RelaysStay, SameCall
    <3> QED
      BY <3>1, <3>2, CallsStay DEF Exchange
  <2>12. RelaysOK(R2)
    BY <2>8, <2>9, <2>10 DEF Exchange, RelaysOK
  <2>13. AcknowledgedOK(R2, cl, ap)
    BY <2>2, <2>3, <2>5, <2>8, <2>10 DEF Exchange, AcknowledgedOK
  <2>14. cl2 = cl
    BY <1>3
  <2> QED
    BY <2>9, <2>11, <2>12, <2>13, <2>14 DEF Exchange
<1> QED
  BY <1>1, <1>2, <1>3

CallsEnded(Q, a) == [p \in Peer |-> [i \in DOMAIN Q[p] |-> Dead(Q[p][i], a)]]
RelaysEnded(R, a) == [p \in Peer |-> Deserted(R[p], a)]

\* A caller hangs up: its calls stay where they are, and nobody answers them.
LEMMA HungUp ==
    ASSUME NEW Q, NEW R, NEW cl, NEW ap, Exchange(Q, R, cl, ap), NEW a,
           NEW Q2, Q2 = CallsEnded(Q, a), NEW R2, R2 = RelaysEnded(R, a)
    PROVE  /\ Exchange(Q2, R2, cl, ap) /\ Silent(Q2, R2, a)
           /\ \A p \in Peer : /\ DOMAIN Q2[p] = DOMAIN Q[p]
                              /\ \A i \in DOMAIN Q[p] : SameCall(Q2[p][i], Q[p][i])
           /\ \A p \in Peer : /\ R2[p].reply = R[p].reply /\ SameCall(R2[p].call, R[p].call)
                              /\ R2[p] # Idle <=> R[p] # Idle
<1>1. ASSUME NEW p \in Peer
      PROVE  /\ Q2[p] \in Seq(Call) /\ DOMAIN Q2[p] = DOMAIN Q[p]
             /\ \A i \in DOMAIN Q[p] :
                  /\ SameCall(Q2[p][i], Q[p][i])
                  /\ Q2[p][i].live => Q[p][i].live /\ Q[p][i].from # a
  <2>1. PICK s \in Seq(Call) : s = Q[p]
    BY DEF Exchange, QueuesOK
  <2>2. PICK t : t = Q2[p]
    OBVIOUS
  <2>3. t = [i \in DOMAIN s |-> Dead(s[i], a)]
    BY <2>1, <2>2 DEF CallsEnded
  <2>4. \A i \in DOMAIN s : s[i] \in Call
    BY LenProperties, ElementOfSeq
  <2>5. \A i \in DOMAIN s : t[i] \in Call /\ SameCall(t[i], s[i])
                            /\ (t[i].live => s[i].live /\ s[i].from # a)
    BY <2>3, <2>4, DeadCall DEF SameCall
  <2>6. t = [i \in DOMAIN s |-> t[i]]
    BY <2>3
  <2>7. t \in Seq(Call) /\ DOMAIN t = DOMAIN s
    BY <2>5, <2>6, Relabelled
  <2> QED
    BY <2>1, <2>2, <2>5, <2>7
<1>2. ASSUME NEW p \in Peer
      PROVE  /\ R2[p] \in Busy \cup {Idle} /\ R2[p].reply = R[p].reply
             /\ R2[p] # Idle <=> R[p] # Idle
             /\ SameCall(R2[p].call, R[p].call)
             /\ R2[p].call.live => R[p].call.live /\ R[p].call.from # a
  <2>1. PICK x \in Busy \cup {Idle} : x = R[p]
    BY DEF Exchange, RelaysOK
  <2>2. PICK y : y = R2[p]
    OBVIOUS
  <2>3. y = Deserted(x, a)
    BY <2>1, <2>2 DEF RelaysEnded
  <2>4. /\ y \in Busy \cup {Idle} /\ y.reply = x.reply
        /\ x # Idle <=> y # Idle
        /\ y.call.from = x.call.from /\ y.call.command = x.call.command
        /\ y.call.kind = x.call.kind
        /\ y.call.live => x.call.live /\ x.call.from # a
    BY <2>3, DeadRelay
  <2> QED
    BY <2>1, <2>2, <2>4 DEF SameCall
<1>3. QueuesOK(Q2)
  <2>1. Q2 \in [Peer -> Seq(Call)]
    BY <1>1 DEF CallsEnded
  <2>2. ASSUME NEW p \in Peer, NEW i \in DOMAIN Q2[p]
        PROVE  Q2[p][i].from # p
    <3>1. i \in DOMAIN Q[p] /\ Q2[p][i].from = Q[p][i].from
      BY <1>1, <2>2 DEF SameCall
    <3> QED
      BY <3>1 DEF Exchange, QueuesOK
  <2> QED
    BY <2>1, <2>2 DEF QueuesOK
<1>4. RelaysOK(R2)
  <2>1. R2 \in [Peer -> Busy \cup {Idle}]
    BY <1>2 DEF RelaysEnded
  <2>2. ASSUME NEW p \in Peer, R2[p] # Idle
        PROVE  R2[p].call.kind \in Edits /\ R2[p].call.from # p
    <3>1. /\ R[p] # Idle /\ R2[p].call.kind = R[p].call.kind
          /\ R2[p].call.from = R[p].call.from
      BY <1>2, <2>2 DEF SameCall
    <3> QED
      BY <3>1 DEF Exchange, RelaysOK
  <2> QED
    BY <2>1, <2>2 DEF RelaysOK
<1>5. CallsOK(Q2, R2, cl) /\ OneCall(Q2, R2) /\ Silent(Q2, R2, a)
  <2>1. QueuesStay(Q, Q2, a)
    BY <1>1 DEF QueuesStay
  <2>2. RelaysStay(R, R2, a)
    BY <1>2 DEF RelaysStay, SameCall
  <2> QED
    BY <2>1, <2>2, CallsStay DEF Exchange
<1>6. AcknowledgedOK(R2, cl, ap)
  BY <1>2 DEF AcknowledgedOK, Exchange, SameCall
<1> QED
  BY <1>1, <1>2, <1>3, <1>4, <1>5, <1>6 DEF Exchange

\* A dead peer's queue is gone.
LEMMA QueueLost ==
    ASSUME NEW Q, NEW R, NEW cl, NEW ap, Exchange(Q, R, cl, ap),
           NEW p \in Peer, NEW Q2, Q2 = [Q EXCEPT ![p] = <<>>]
    PROVE  Exchange(Q2, R, cl, ap)
<1>1. <<>> \in Seq(Call) /\ DOMAIN <<>> = {}
  BY EmptySeq
<1>2. Q2[p] = <<>> /\ (\A r \in Peer : r # p => Q2[r] = Q[r]) /\ Q2 \in [Peer -> Seq(Call)]
  BY <1>1 DEF Exchange, QueuesOK
<1>3. \A r \in Peer : \A i \in DOMAIN Q2[r] : i \in DOMAIN Q[r] /\ Q2[r][i] = Q[r][i]
  BY <1>1, <1>2
<1>4. QueuesOK(Q2)
  BY <1>2, <1>3 DEF Exchange, QueuesOK
<1>5. CallsOK(Q2, R, cl) /\ OneCall(Q2, R)
  BY <1>3 DEF Exchange, CallsOK, OneCall
<1> QED
  BY <1>4, <1>5 DEF Exchange

\* Applying an edit only adds to what acknowledgements stand for.
LEMMA AppliedOnce ==
    ASSUME NEW Q, NEW R, NEW cl, NEW ap \in [Commands -> Nat], Exchange(Q, R, cl, ap),
           NEW k \in Commands, NEW ap2, ap2 = [ap EXCEPT ![k] = @ + 1]
    PROVE  Exchange(Q, R, cl, ap2) /\ ap2[k] > 0 /\ ap2 \in [Commands -> Nat]
<1>1. PICK n \in Nat : n = ap[k]
  OBVIOUS
<1>2. ap2 = [ap EXCEPT ![k] = n + 1]
  BY <1>1
<1>3. /\ ap2 \in [Commands -> Nat] /\ ap2[k] > 0
      /\ \A i \in Commands : ap[i] > 0 => ap2[i] > 0
  BY <1>2
<1>4. \A p \in Peer : R[p].reply = "PING" => R[p].call.command \in Commands
  BY BusyRelay, CallRanges DEF Exchange, RelaysOK
<1>5. AcknowledgedOK(R, cl, ap2)
  BY <1>3, <1>4 DEF Exchange, AcknowledgedOK
<1> QED
  BY <1>3, <1>5 DEF Exchange

-----------------------------------------------------------------------------
(* Copies of an edit.                                                      *)

IsEdit(c, i) == c.command = i /\ c.kind \in Edits

LEMMA CopiesMembers ==
    ASSUME NEW Q, NEW i, NEW p, NEW k
    PROVE  <<p, k>> \in CopiesIn(Q, i) <=> p \in Peer /\ k \in DOMAIN Q[p] /\ IsEdit(Q[p][k], i)
BY DEF CopiesIn, IsEdit

LEMMA CopiesPairs ==
    ASSUME NEW Q, NEW i, NEW x \in CopiesIn(Q, i)
    PROVE  /\ x = <<x[1], x[2]>> /\ x[1] \in Peer
           /\ x[2] \in DOMAIN Q[x[1]] /\ IsEdit(Q[x[1]][x[2]], i)
BY DEF CopiesIn, IsEdit

\* Calls that stay where they are, or are lost, are no more copies than before.
LEMMA CopiesStay ==
    ASSUME NEW Q, NEW Q2, NEW ap, NEW se, Budget(Q, ap, se),
           \A p \in Peer : \A k \in DOMAIN Q2[p] : k \in DOMAIN Q[p] /\ SameCall(Q2[p][k], Q[p][k]),
           ap \in [Commands -> Nat], se \in [Commands -> Nat]
    PROVE  Budget(Q2, ap, se)
<1>1. ASSUME NEW i \in Commands
      PROVE  /\ IsFiniteSet(CopiesIn(Q2, i))
             /\ ap[i] + Cardinality(CopiesIn(Q2, i)) <= se[i]
  <2>1. ASSUME NEW x \in CopiesIn(Q2, i)
        PROVE  x \in CopiesIn(Q, i)
    <3>1. /\ x = <<x[1], x[2]>> /\ x[1] \in Peer
          /\ x[2] \in DOMAIN Q2[x[1]] /\ IsEdit(Q2[x[1]][x[2]], i)
      BY CopiesPairs
    <3>2. x[2] \in DOMAIN Q[x[1]] /\ IsEdit(Q[x[1]][x[2]], i)
      BY <3>1 DEF SameCall, IsEdit
    <3>3. <<x[1], x[2]>> \in CopiesIn(Q, i)
      BY <3>1, <3>2, CopiesMembers
    <3> QED
      BY <3>1, <3>3
  <2>2. CopiesIn(Q2, i) \in SUBSET CopiesIn(Q, i) /\ IsFiniteSet(CopiesIn(Q, i))
    BY <2>1 DEF Budget
  <2>3. /\ IsFiniteSet(CopiesIn(Q2, i))
        /\ Cardinality(CopiesIn(Q2, i)) <= Cardinality(CopiesIn(Q, i))
        /\ Cardinality(CopiesIn(Q2, i)) \in Nat /\ Cardinality(CopiesIn(Q, i)) \in Nat
    BY <2>2, FS_Subset, FS_CardinalityType
  <2> QED
    BY <2>3 DEF Budget
<1> QED
  BY <1>1 DEF Budget

\* A call put at the end is one copy more, if it is an edit.
LEMMA CopiesPut ==
    ASSUME NEW Q, Q \in [Peer -> Seq(Call)], NEW q \in Peer, NEW c \in Call,
           NEW Q2, Q2 = WithLast(Q, q, c),
           NEW i \in Commands, IsFiniteSet(CopiesIn(Q, i))
    PROVE  /\ IsFiniteSet(CopiesIn(Q2, i))
           /\ IsEdit(c, i) => Cardinality(CopiesIn(Q2, i)) = Cardinality(CopiesIn(Q, i)) + 1
           /\ ~ IsEdit(c, i) => Cardinality(CopiesIn(Q2, i)) = Cardinality(CopiesIn(Q, i))
<1>1. PICK k : k = Len(Q[q]) + 1
  OBVIOUS
<1>2. /\ DOMAIN Append(Q[q], c) = DOMAIN Q[q] \cup {k} /\ k \notin DOMAIN Q[q]
      /\ \A n \in DOMAIN Q[q] : Append(Q[q], c)[n] = Q[q][n]
      /\ Append(Q[q], c)[k] = c
  <2>1. PICK s \in Seq(Call) : s = Q[q]
    OBVIOUS
  <2> QED
    BY <1>1, <2>1, Enqueued
<1>3. Q2[q] = Append(Q[q], c) /\ \A r \in Peer : r # q => Q2[r] = Q[r]
  BY DEF WithLast
<1>4. PICK new : new = <<q, k>>
  OBVIOUS
<1>5. new \notin CopiesIn(Q, i)
  BY <1>2, <1>4, CopiesMembers
<1>6. ASSUME NEW x \in CopiesIn(Q2, i)
      PROVE  x \in CopiesIn(Q, i) \/ (x = new /\ IsEdit(c, i))
  <2>1. /\ x = <<x[1], x[2]>> /\ x[1] \in Peer
        /\ x[2] \in DOMAIN Q2[x[1]] /\ IsEdit(Q2[x[1]][x[2]], i)
    BY CopiesPairs
  <2>2. CASE x[1] = q /\ x[2] = k
    BY <1>2, <1>3, <1>4, <2>1, <2>2
  <2>3. CASE ~ (x[1] = q /\ x[2] = k)
    <3>1. x[2] \in DOMAIN Q[x[1]] /\ IsEdit(Q[x[1]][x[2]], i)
      BY <1>2, <1>3, <2>1, <2>3
    <3>2. <<x[1], x[2]>> \in CopiesIn(Q, i)
      BY <2>1, <3>1, CopiesMembers
    <3> QED
      BY <2>1, <3>2
  <2> QED
    BY <2>2, <2>3
<1>7. ASSUME NEW x \in CopiesIn(Q, i)
      PROVE  x \in CopiesIn(Q2, i)
  <2>1. /\ x = <<x[1], x[2]>> /\ x[1] \in Peer
        /\ x[2] \in DOMAIN Q[x[1]] /\ IsEdit(Q[x[1]][x[2]], i)
    BY CopiesPairs
  <2>2. x[2] \in DOMAIN Q2[x[1]] /\ Q2[x[1]][x[2]] = Q[x[1]][x[2]]
    <3>1. CASE x[1] = q
      BY <1>2, <1>3, <2>1, <3>1
    <3>2. CASE x[1] # q
      BY <1>3, <2>1, <3>2
    <3> QED
      BY <3>1, <3>2
  <2>3. <<x[1], x[2]>> \in CopiesIn(Q2, i)
    BY <2>1, <2>2, CopiesMembers
  <2> QED
    BY <2>1, <2>3
<1>8. CASE IsEdit(c, i)
  <2>1. new \in CopiesIn(Q2, i)
    <3>1. k \in DOMAIN Q2[q] /\ IsEdit(Q2[q][k], i)
      BY <1>2, <1>3, <1>8
    <3>2. <<q, k>> \in CopiesIn(Q2, i)
      BY <3>1, CopiesMembers
    <3> QED
      BY <1>4, <3>2
  <2>2. CopiesIn(Q2, i) = CopiesIn(Q, i) \cup {new}
    BY <1>6, <1>7, <2>1
  <2>3. /\ IsFiniteSet(CopiesIn(Q, i) \cup {new})
        /\ Cardinality(CopiesIn(Q, i) \cup {new}) = Cardinality(CopiesIn(Q, i)) + 1
    BY <1>5, FS_AddElement
  <2> QED
    BY <1>8, <2>2, <2>3
<1>9. CASE ~ IsEdit(c, i)
  <2>1. CopiesIn(Q2, i) = CopiesIn(Q, i)
    BY <1>6, <1>7, <1>9
  <2> QED
    BY <1>9, <2>1, FS_CardinalityType
<1> QED
  BY <1>8, <1>9

\* The first call of a queue is one copy less, if it is an edit.
LEMMA CopiesTaken ==
    ASSUME NEW Q, Q \in [Peer -> Seq(Call)], NEW p \in Peer, Q[p] # <<>>,
           NEW Q2, Q2 = WithoutFirst(Q, p),
           NEW i \in Commands, IsFiniteSet(CopiesIn(Q, i))
    PROVE  /\ IsFiniteSet(CopiesIn(Q2, i))
           /\ Cardinality(CopiesIn(Q2, i)) + (IF IsEdit(Head(Q[p]), i) THEN 1 ELSE 0)
                <= Cardinality(CopiesIn(Q, i))
<1>1. PICK first : first = <<p, 1>>
  OBVIOUS
<1> DEFINE S == CopiesIn(Q2, i)
           T == CopiesIn(Q, i) \ {first}
           at(x) == IF x[1] = p THEN x[2] + 1 ELSE x[2]
           f == [x \in S |-> <<x[1], at(x)>>]
<1>2. /\ 1 \in DOMAIN Q[p] /\ Head(Q[p]) = Q[p][1]
      /\ \A k \in DOMAIN Tail(Q[p]) :
            k \in Nat /\ k + 1 \in DOMAIN Q[p] /\ k # 0 /\ Tail(Q[p])[k] = Q[p][k + 1]
  <2>1. PICK s \in Seq(Call) : s = Q[p]
    OBVIOUS
  <2> QED
    BY <2>1, Dequeued
<1>3. Q2[p] = Tail(Q[p]) /\ \A r \in Peer : r # p => Q2[r] = Q[r]
  BY DEF WithoutFirst
<1>4. ASSUME NEW x \in S
      PROVE  /\ x = <<x[1], x[2]>> /\ x[1] \in Peer
             /\ at(x) \in DOMAIN Q[x[1]] /\ IsEdit(Q[x[1]][at(x)], i)
             /\ x[1] = p => at(x) # 1 /\ at(x) = x[2] + 1 /\ x[2] \in Nat
             /\ x[1] # p => at(x) = x[2]
  <2>1. /\ x = <<x[1], x[2]>> /\ x[1] \in Peer
        /\ x[2] \in DOMAIN Q2[x[1]] /\ IsEdit(Q2[x[1]][x[2]], i)
    BY CopiesPairs
  <2>2. CASE x[1] = p
    <3>1. at(x) = x[2] + 1
      BY <2>2
    <3>2. x[2] \in DOMAIN Tail(Q[p]) /\ IsEdit(Tail(Q[p])[x[2]], i)
      BY <1>3, <2>1, <2>2
    <3>3. /\ x[2] \in Nat /\ x[2] + 1 \in DOMAIN Q[p] /\ x[2] # 0
          /\ Tail(Q[p])[x[2]] = Q[p][x[2] + 1]
      BY <1>2, <3>2
    <3>4. x[2] + 1 # 1
      BY <3>3
    <3> HIDE DEF at
    <3> QED
      BY <2>1, <2>2, <3>1, <3>2, <3>3, <3>4
  <2>3. CASE x[1] # p
    <3>1. at(x) = x[2]
      BY <2>3
    <3> HIDE DEF at
    <3> QED
      BY <1>3, <2>1, <2>3, <3>1
  <2> QED
    BY <2>2, <2>3
<1> HIDE DEF at
<1>5. ASSUME NEW x \in S
      PROVE  <<x[1], at(x)>> \in T
  <2>1. <<x[1], at(x)>> \in CopiesIn(Q, i)
    BY <1>4, CopiesMembers
  <2>2. <<x[1], at(x)>> # first
    BY <1>1, <1>4
  <2> QED
    BY <2>1, <2>2
<1>6. ASSUME NEW x \in S, NEW y \in S, <<x[1], at(x)>> = <<y[1], at(y)>>
      PROVE  x = y
  <2>1. x[1] = y[1] /\ at(x) = at(y)
    BY <1>6
  <2>2. x[2] = y[2]
    <3>1. CASE x[1] = p
      <4>1. /\ x[2] \in Nat /\ at(x) = x[2] + 1
            /\ y[2] \in Nat /\ at(y) = y[2] + 1
        BY <1>4, <2>1, <3>1
      <4>2. PICK m \in Nat, n \in Nat : m = x[2] /\ n = y[2]
        BY <4>1
      <4>3. m + 1 = n + 1
        BY <2>1, <4>1, <4>2
      <4> QED
        BY <4>2, <4>3
    <3>2. CASE x[1] # p
      BY <1>4, <2>1, <3>2
    <3> QED
      BY <3>1, <3>2
  <2> QED
    BY <1>4, <2>1, <2>2
<1>7. f \in Injection(S, T)
  <2>1. f \in [S -> T]
    BY <1>5
  <2>2. \A x, y \in S : f[x] = f[y] => x = y
    BY <1>6
  <2> HIDE DEF f, S, T
  <2> QED
    BY <2>1, <2>2 DEF Injection, IsInjective
<1>8. /\ IsFiniteSet(T)
      /\ Cardinality(T) = IF first \in CopiesIn(Q, i) THEN Cardinality(CopiesIn(Q, i)) - 1
                                                      ELSE Cardinality(CopiesIn(Q, i))
  BY FS_RemoveElement
<1>9. IsFiniteSet(S) /\ Cardinality(S) <= Cardinality(T)
  <2> HIDE DEF f, S, T
  <2> QED
    BY <1>7, <1>8, FS_Injection
<1>10. IsEdit(Head(Q[p]), i) => first \in CopiesIn(Q, i)
  BY <1>1, <1>2, CopiesMembers
<1>11. Cardinality(S) \in Nat /\ Cardinality(CopiesIn(Q, i)) \in Nat
  BY <1>9, FS_CardinalityType
<1>12. CASE IsEdit(Head(Q[p]), i)
  <2>1. Cardinality(T) = Cardinality(CopiesIn(Q, i)) - 1
    BY <1>8, <1>10, <1>12
  <2> HIDE DEF T, S
  <2> QED
    BY <1>9, <1>11, <1>12, <2>1 DEF S
<1>13. CASE ~ IsEdit(Head(Q[p]), i)
  <2>1. /\ Cardinality(T) = Cardinality(CopiesIn(Q, i)) - 1
        \/ Cardinality(T) = Cardinality(CopiesIn(Q, i))
    BY <1>8
  <2> HIDE DEF T, S
  <2> QED
    BY <1>9, <1>11, <1>13, <2>1 DEF S
<1> QED
  BY <1>12, <1>13

\* There is a sending left for c, which is neither in a queue nor applied.
Spare(Q, ap, se, c) ==
    \A i \in Commands :
        /\ IsFiniteSet(CopiesIn(Q, i))
        /\ ap[i] + Cardinality(CopiesIn(Q, i)) + (IF IsEdit(c, i) THEN 1 ELSE 0) <= se[i]

LEMMA SpareTaken ==
    ASSUME NEW Q, Q \in [Peer -> Seq(Call)], NEW p \in Peer, Q[p] # <<>>,
           NEW Q2, Q2 = WithoutFirst(Q, p),
           NEW ap \in [Commands -> Nat], NEW se \in [Commands -> Nat], Budget(Q, ap, se)
    PROVE  Spare(Q2, ap, se, Head(Q[p]))
<1>1. ASSUME NEW i \in Commands
      PROVE  /\ IsFiniteSet(CopiesIn(Q2, i))
             /\ ap[i] + Cardinality(CopiesIn(Q2, i)) + (IF IsEdit(Head(Q[p]), i) THEN 1 ELSE 0)
                    <= se[i]
  <2>1. PICK one \in {0, 1} : one = IF IsEdit(Head(Q[p]), i) THEN 1 ELSE 0
    OBVIOUS
  <2>2. IsFiniteSet(CopiesIn(Q, i)) /\ ap[i] + Cardinality(CopiesIn(Q, i)) <= se[i]
    BY DEF Budget
  <2>3. /\ IsFiniteSet(CopiesIn(Q2, i))
        /\ Cardinality(CopiesIn(Q2, i)) + one <= Cardinality(CopiesIn(Q, i))
    <3>1. /\ IsFiniteSet(CopiesIn(Q2, i))
          /\ Cardinality(CopiesIn(Q2, i)) + (IF IsEdit(Head(Q[p]), i) THEN 1 ELSE 0)
                <= Cardinality(CopiesIn(Q, i))
      BY <2>2, CopiesTaken
    <3> QED
      BY <2>1, <3>1
  <2>4. Cardinality(CopiesIn(Q2, i)) \in Nat /\ Cardinality(CopiesIn(Q, i)) \in Nat
    BY <2>2, <2>3, FS_CardinalityType
  <2>5. ap[i] \in Nat /\ se[i] \in Nat
    OBVIOUS
  <2>6. ap[i] + Cardinality(CopiesIn(Q2, i)) + one <= se[i]
    BY <2>2, <2>3, <2>4, <2>5
  <2> QED
    BY <2>1, <2>3, <2>6
<1> QED
  BY <1>1 DEF Spare

\* What is taken may be dropped, ...
LEMMA SpareDropped ==
    ASSUME NEW Q, NEW c, NEW ap \in [Commands -> Nat], NEW se \in [Commands -> Nat],
           Spare(Q, ap, se, c)
    PROVE  Budget(Q, ap, se)
<1>1. ASSUME NEW i \in Commands
      PROVE  IsFiniteSet(CopiesIn(Q, i)) /\ ap[i] + Cardinality(CopiesIn(Q, i)) <= se[i]
  <2>1. PICK one \in {0, 1} : one = IF IsEdit(c, i) THEN 1 ELSE 0
    OBVIOUS
  <2>2. /\ IsFiniteSet(CopiesIn(Q, i))
        /\ ap[i] + Cardinality(CopiesIn(Q, i)) + one <= se[i]
    BY <2>1 DEF Spare
  <2>3. Cardinality(CopiesIn(Q, i)) \in Nat /\ ap[i] \in Nat /\ se[i] \in Nat
    BY <2>2, FS_CardinalityType
  <2> QED
    BY <2>1, <2>2, <2>3
<1> QED
  BY <1>1 DEF Budget

\* ... passed on to the queue of another peer, ...
LEMMA SparePut ==
    ASSUME NEW Q, Q \in [Peer -> Seq(Call)], NEW q \in Peer,
           NEW ap \in [Commands -> Nat], NEW se \in [Commands -> Nat],
           NEW c, Spare(Q, ap, se, c),
           NEW d \in Call, d.command = c.command, d.kind = c.kind,
           NEW Q2, Q2 = WithLast(Q, q, d)
    PROVE  Budget(Q2, ap, se)
<1>1. ASSUME NEW i \in Commands
      PROVE  IsFiniteSet(CopiesIn(Q2, i)) /\ ap[i] + Cardinality(CopiesIn(Q2, i)) <= se[i]
  <2>1. PICK one \in {0, 1} : one = IF IsEdit(c, i) THEN 1 ELSE 0
    OBVIOUS
  <2>2. one = IF IsEdit(d, i) THEN 1 ELSE 0
    BY <2>1 DEF IsEdit
  <2>3. /\ IsFiniteSet(CopiesIn(Q, i))
        /\ ap[i] + Cardinality(CopiesIn(Q, i)) + one <= se[i]
    BY <2>1 DEF Spare
  <2>4. /\ IsFiniteSet(CopiesIn(Q2, i))
        /\ Cardinality(CopiesIn(Q2, i)) = Cardinality(CopiesIn(Q, i)) + one
    <3>1. /\ IsFiniteSet(CopiesIn(Q2, i))
          /\ IsEdit(d, i) => Cardinality(CopiesIn(Q2, i)) = Cardinality(CopiesIn(Q, i)) + 1
          /\ ~ IsEdit(d, i) => Cardinality(CopiesIn(Q2, i)) = Cardinality(CopiesIn(Q, i))
      <4>1. IsFiniteSet(CopiesIn(Q, i))
        BY <2>3
      <4> QED
        BY ONLY <4>1, CopiesPut, Q \in [Peer -> Seq(Call)], q \in Peer, d \in Call,
                Q2 = WithLast(Q, q, d), i \in Commands
    <3>2. Cardinality(CopiesIn(Q, i)) \in Nat
      BY <2>3, FS_CardinalityType
    <3> QED
      BY <2>2, <3>1, <3>2
  <2>5. Cardinality(CopiesIn(Q, i)) \in Nat /\ ap[i] \in Nat /\ se[i] \in Nat
    BY <2>3, FS_CardinalityType
  <2> QED
    BY <2>1, <2>3, <2>4, <2>5
<1> QED
  BY <1>1 DEF Budget

\* ... or applied.
LEMMA SpareApplied ==
    ASSUME NEW Q, NEW ap \in [Commands -> Nat], NEW se \in [Commands -> Nat],
           NEW c \in Call, Spare(Q, ap, se, c), c.kind \in Edits,
           NEW ap2, ap2 = [ap EXCEPT ![c.command] = @ + 1]
    PROVE  Budget(Q, ap2, se)
<1>1. ASSUME NEW i \in Commands
      PROVE  IsFiniteSet(CopiesIn(Q, i)) /\ ap2[i] + Cardinality(CopiesIn(Q, i)) <= se[i]
  <2>1. PICK one \in {0, 1} : one = IF IsEdit(c, i) THEN 1 ELSE 0
    OBVIOUS
  <2>2. /\ IsFiniteSet(CopiesIn(Q, i))
        /\ ap[i] + Cardinality(CopiesIn(Q, i)) + one <= se[i]
    BY <2>1 DEF Spare
  <2>3. Cardinality(CopiesIn(Q, i)) \in Nat /\ ap[i] \in Nat /\ se[i] \in Nat
    BY <2>2, FS_CardinalityType
  <2>4. ap2[i] = ap[i] + one
    BY <2>1 DEF IsEdit
  <2> QED
    BY <2>1, <2>2, <2>3, <2>4
<1> QED
  BY <1>1 DEF Budget

\* Another sending is one to spare; so is a call that is no edit.
LEMMA SpareSent ==
    ASSUME NEW Q, NEW ap \in [Commands -> Nat], NEW se \in [Commands -> Nat],
           NEW c \in Call, Budget(Q, ap, se),
           NEW se2, se2 = [se EXCEPT ![c.command] = @ + 1]
    PROVE  Spare(Q, ap, se2, c)
<1>1. ASSUME NEW i \in Commands
      PROVE  /\ IsFiniteSet(CopiesIn(Q, i))
             /\ ap[i] + Cardinality(CopiesIn(Q, i)) + (IF IsEdit(c, i) THEN 1 ELSE 0) <= se2[i]
  <2>1. PICK one \in {0, 1} : one = IF IsEdit(c, i) THEN 1 ELSE 0
    OBVIOUS
  <2>2. IsFiniteSet(CopiesIn(Q, i)) /\ ap[i] + Cardinality(CopiesIn(Q, i)) <= se[i]
    BY DEF Budget
  <2>3. Cardinality(CopiesIn(Q, i)) \in Nat /\ ap[i] \in Nat /\ se[i] \in Nat
    BY <2>2, FS_CardinalityType
  <2>4. se2[i] = IF c.command = i THEN se[i] + 1 ELSE se[i]
    OBVIOUS
  <2>5. one = 1 => c.command = i
    BY <2>1 DEF IsEdit
  <2>6. ap[i] + Cardinality(CopiesIn(Q, i)) + one <= se2[i]
    BY <2>2, <2>3, <2>4, <2>5
  <2> QED
    BY <2>1, <2>2, <2>6
<1> QED
  BY <1>1 DEF Spare

LEMMA SpareOther ==
    ASSUME NEW Q, NEW ap \in [Commands -> Nat], NEW se \in [Commands -> Nat],
           NEW c, Budget(Q, ap, se), c.kind \notin Edits
    PROVE  Spare(Q, ap, se, c)
<1>1. ASSUME NEW i \in Commands
      PROVE  /\ IsFiniteSet(CopiesIn(Q, i))
             /\ ap[i] + Cardinality(CopiesIn(Q, i)) + (IF IsEdit(c, i) THEN 1 ELSE 0) <= se[i]
  <2>1. IsFiniteSet(CopiesIn(Q, i)) /\ ap[i] + Cardinality(CopiesIn(Q, i)) <= se[i]
    BY DEF Budget
  <2>2. Cardinality(CopiesIn(Q, i)) \in Nat /\ ap[i] \in Nat /\ se[i] \in Nat
    BY <2>1, FS_CardinalityType
  <2>3. ~ IsEdit(c, i)
    BY DEF IsEdit
  <2> QED
    BY <2>1, <2>2, <2>3
<1> QED
  BY <1>1 DEF Spare

-----------------------------------------------------------------------------
(* The steps of the client.                                                *)

LEMMA SendsSame ==
    ASSUME NEW cl, NEW cl2, NEW se, SendsOK(cl, se),
           cl2.pc = cl.pc, cl2.command = cl.command, cl2.tries = cl.tries
    PROVE  SendsOK(cl2, se)
BY DEF SendsOK

LEMMA GiveCommandKeeps ==
    ASSUME IInv, NEW kind \in Kinds, GiveCommand(kind)
    PROVE  IInv'
<1>1. /\ client.pc = "prompt" /\ client.command < MaxCommands
      /\ client' = [pc |-> IF kind = "elect" THEN "elect" ELSE "send", kind |-> kind,
                    command |-> client.command + 1, at |-> 1, tries |-> 0,
                    reply |-> "none", outcome |-> "none"]
      /\ UNCHANGED <<up, master, opened, queue, relay, sent, applied>>
  BY DEF GiveCommand, peerVars, historyVars
<1>2. PICK k \in 0 .. MaxCommands : k = client.command
  BY DEF IInv, Exchange, ClientOK, ClientState
<1>3. k + 1 \in Commands /\ k + 1 \in 0 .. MaxCommands
  BY <1>1, <1>2, ConstantsInRange DEF Commands
<1>4. /\ client'.pc = IF kind = "elect" THEN "elect" ELSE "send"
      /\ client'.kind = kind /\ client'.command = k + 1 /\ client'.at = 1
      /\ client'.tries = 0 /\ client'.reply = "none" /\ client'.outcome = "none"
  BY <1>1, <1>2
<1>5. client' \in ClientState
  BY <1>1, <1>2, <1>3, ConstantsInRange DEF ClientState
<1>6. ClientOK(client')
  BY <1>3, <1>4, <1>5, ConstantsInRange DEF ClientOK
<1>7. client.reply # "wait"
  BY <1>1 DEF IInv, Exchange, ClientOK
<1>8. Exchange(queue, relay, client', applied)
  BY <1>4, <1>6, <1>7, ClientQuiet, ClientMoves DEF IInv
<1>9. SendsOK(client', sent)
  <2>1. /\ \A i \in Commands : i \in Int
        /\ \A i \in Commands : i > k => sent[i] = 0
        /\ \A i \in Commands : sent[i] <= N + 1
    BY <1>2 DEF IInv, SendsOK, Commands
  <2>2. k + 1 > k
    BY <1>2
  <2>3. sent[k + 1] = 0
    BY <1>3, <2>1, <2>2
  <2>4. \A i \in Commands : i > k + 1 => sent[i] = 0
    BY <1>2, <2>1
  <2>5. client'.pc # "wait"
    BY <1>4
  <2> QED
    BY <1>4, <2>1, <2>3, <2>4, <2>5 DEF SendsOK
<1> QED
  BY <1>1, <1>8, <1>9 DEF IInv, Types, RelaysUp

LEMMA RequestInRange ==
    ASSUME IInv, client.pc # "prompt", NEW b \in BOOLEAN
    PROVE  /\ Request(b) \in Call /\ Request(b).from = Client
           /\ Request(b).command = client.command /\ Request(b).kind = client.kind
           /\ Request(b).live = b
<1>1. client.command \in Commands /\ client.kind \in Kinds
  BY DEF IInv, Exchange, ClientOK
<1>2. Client \in 0 .. N
  BY ConstantsInRange DEF Client
<1> QED
  BY <1>1, <1>2 DEF Request, Call

\* The election is asked for at this peer, if it runs.
LEMMA RequestElectionKeeps ==
    ASSUME IInv, RequestElection
    PROVE  IInv'
<1>1. /\ client.pc = "elect" /\ client.reply = "none" /\ client.kind = "elect"
      /\ client \in ClientState /\ ClientOK(client)
      /\ UNCHANGED <<up, master, opened, relay, sent, applied>>
  BY DEF IInv, Exchange, ClientOK, RequestElection, peerVars, historyVars
<1>2. /\ Request(FALSE) \in Call /\ Request(FALSE).from = Client
      /\ Request(FALSE).kind = "elect" /\ Request(FALSE).live = FALSE
  BY <1>1, RequestInRange
<1>3. Exchange(queue', relay, client, applied) /\ Budget(queue', applied, sent)
  <2>1. CASE UNCHANGED queue
    BY <2>1 DEF IInv
  <2>2. CASE client.at \in Peer /\ Put(client.at, Request(FALSE))
    <3>1. PICK q \in Peer : q = client.at
      BY <2>2
    <3>2. queue' = WithLast(queue, q, Request(FALSE))
      BY <2>2, <3>1 DEF Put, WithLast
    <3>3. Pending(queue, relay, client, Request(FALSE)) /\ Request(FALSE).from # q
      BY <1>2, ConstantsInRange DEF Pending
    <3>4. Exchange(queue', relay, client, applied)
      BY <3>2, <3>3, PutLast DEF IInv
    <3>5. Spare(queue, applied, sent, Request(FALSE))
      BY <1>2, SpareOther DEF IInv, Types, Edits
    <3>6. queue \in [Peer -> Seq(Call)]
      BY DEF IInv, Exchange, QueuesOK
    <3>7. Budget(queue', applied, sent)
      BY <1>2, <3>2, <3>5, <3>6, SparePut DEF IInv, Types
    <3> QED
      BY <3>4, <3>7
  <2> QED
    BY <2>1, <2>2 DEF RequestElection
<1>4. /\ ClientOK(client') /\ client'.reply = "none" /\ client'.pc \in {"elect", "prompt"}
      /\ client'.command = client.command
  <2>1. CASE client.at \in Peer
    <3>1. PICK n \in 1 .. N + 1 : n = client.at + 1
      BY <2>1, ConstantsInRange DEF Peer
    <3>2. client' = [client EXCEPT !.at = n]
      BY <2>1, <3>1 DEF RequestElection
    <3>3. client' = [pc |-> client.pc, kind |-> client.kind, command |-> client.command,
                     at |-> n, tries |-> client.tries, reply |-> client.reply,
                     outcome |-> client.outcome]
      BY <1>1, <3>2 DEF ClientState
    <3> QED
      BY <1>1, <3>3 DEF ClientOK, ClientState
  <2>2. CASE client.at \notin Peer
    <3>1. client' = [client EXCEPT !.pc = "prompt"]
      BY <2>2 DEF RequestElection
    <3>2. client' = [pc |-> "prompt", kind |-> client.kind, command |-> client.command,
                     at |-> client.at, tries |-> client.tries, reply |-> client.reply,
                     outcome |-> client.outcome]
      BY <1>1, <3>1 DEF ClientState
    <3> QED
      BY <1>1, <3>2 DEF ClientOK, ClientState
  <2> QED
    BY <2>1, <2>2
<1>5. Exchange(queue', relay, client', applied)
  <2>1. Silent(queue', relay, Client)
    BY <1>1, <1>3, ClientQuiet
  <2> QED
    BY <1>3, <1>4, <2>1, ClientMoves
<1>6. SendsOK(client', sent)
  BY <1>4 DEF IInv, SendsOK
<1> QED
  BY <1>1, <1>3, <1>5, <1>6 DEF IInv, Types, RelaysUp

\* The next peer is tried, or the command ends; nothing is awaited.
LEMMA TryNextMoves ==
    ASSUME IInv, client.pc \in {"send", "wait"}, TryNext
    PROVE  ClientOK(client') /\ client'.reply = "none" /\ SendsOK(client', sent)
<1>1. /\ client \in ClientState /\ ClientOK(client)
      /\ client.command \in Commands /\ client.kind \in Kinds /\ client.at \in Peer
  BY DEF IInv, Exchange, ClientOK
<1>2. PICK k \in Commands : k = client.command
  BY <1>1
<1>3. PICK t \in 0 .. N : t = client.tries
  BY <1>1 DEF ClientState
<1>4. PICK s \in Nat : s = sent[k]
  BY DEF IInv, Types
<1>5. s <= t + 1 /\ s <= N + 1
  BY <1>2, <1>3, <1>4 DEF IInv, SendsOK
<1>6. CASE client.tries < N
  <2>1. PICK n \in Peer : n = (client.at % N) + 1
    BY <1>1, ConstantsInRange DEF Peer
  <2>2. client' = [client EXCEPT !.pc = "send", !.tries = t + 1, !.at = n, !.reply = "none"]
    BY <1>3, <1>6, <2>1 DEF TryNext
  <2>3. client' = [pc |-> "send", kind |-> client.kind, command |-> k,
                   at |-> n, tries |-> t + 1, reply |-> "none", outcome |-> client.outcome]
    BY <1>1, <1>2, <2>2 DEF ClientState
  <2>4. t + 1 \in 0 .. N /\ n \in 1 .. N + 1
    BY <1>3, <1>6, ConstantsInRange
  <2>5. client' \in ClientState
    BY <1>1, <1>2, <2>3, <2>4 DEF ClientState, Commands
  <2>6. ClientOK(client') /\ client'.reply = "none"
    BY <1>1, <1>2, <2>1, <2>3, <2>5 DEF ClientOK
  <2>7. SendsOK(client', sent)
    BY <1>2, <1>4, <1>5, <2>3 DEF IInv, SendsOK
  <2> QED
    BY <2>6, <2>7
<1>7. CASE ~ (client.tries < N)
  <2>1. client' = [client EXCEPT !.pc = "prompt", !.reply = "none", !.outcome = "timeout"]
    BY <1>7 DEF TryNext
  <2>2. client' = [pc |-> "prompt", kind |-> client.kind, command |-> k,
                   at |-> client.at, tries |-> t, reply |-> "none", outcome |-> "timeout"]
    BY <1>1, <1>2, <1>3, <2>1 DEF ClientState
  <2>3. client' \in ClientState
    BY <1>1, <1>2, <1>3, <2>2 DEF ClientState, Commands
  <2>4. ClientOK(client') /\ client'.reply = "none"
    BY <2>2, <2>3 DEF ClientOK
  <2>5. SendsOK(client', sent)
    BY <1>2, <2>2 DEF IInv, SendsOK
  <2> QED
    BY <2>4, <2>5
<1> QED
  BY <1>6, <1>7

LEMMA ConnectKeeps ==
    ASSUME IInv, Connect
    PROVE  IInv'
<1>1. /\ client.pc = "send" /\ client.reply = "none"
      /\ client \in ClientState /\ ClientOK(client)
      /\ client' = [client EXCEPT !.pc = "wait", !.reply = "wait"]
      /\ UNCHANGED <<up, master, opened, relay, applied>>
  BY DEF IInv, Exchange, ClientOK, Connect, peerVars
<1>2. PICK q \in Peer : q = client.at
  BY <1>1 DEF ClientOK
<1>3. PICK k \in Commands : k = client.command
  BY <1>1 DEF ClientOK
<1>4. client' = [pc |-> "wait", kind |-> client.kind, command |-> k, at |-> q,
                 tries |-> client.tries, reply |-> "wait", outcome |-> client.outcome]
  BY <1>1, <1>2, <1>3 DEF ClientState
<1>5. client' \in ClientState
  BY <1>1, <1>2, <1>3, <1>4, ConstantsInRange DEF ClientState, Commands
<1>6. ClientOK(client') /\ client'.reply = "wait"
  BY <1>1, <1>2, <1>3, <1>4, <1>5 DEF ClientOK
<1>7. PICK c \in Call : /\ c = Request(TRUE) /\ c.from = Client /\ c.live = TRUE
                        /\ c.command = k /\ c.kind = client.kind
  <2>1. \A b \in BOOLEAN : Request(b) \in Call /\ Request(b).from = Client
            /\ Request(b).command = client.command /\ Request(b).kind = client.kind
            /\ Request(b).live = b
    BY <1>1, RequestInRange
  <2> QED
    BY <1>3, <2>1, Zenon
<1>8. Silent(queue, relay, Client) /\ Exchange(queue, relay, client', applied)
  <2>1. Silent(queue, relay, Client)
    BY <1>1, ClientQuiet DEF IInv
  <2> QED
    BY <1>6, <2>1, ClientMoves DEF IInv
<1>9. queue' = WithLast(queue, q, c)
  BY <1>2, <1>7 DEF Connect, Put, WithLast
<1>10. Exchange(queue', relay, client', applied)
  <2>1. Pending(queue, relay, client', c) /\ c.from # q
    BY <1>4, <1>7, <1>8, ConstantsInRange DEF Pending, Awaited
  <2> QED
    BY <1>8, <1>9, <2>1, PutLast
<1>11. sent' = [sent EXCEPT ![k] = @ + 1] /\ sent \in [Commands -> Nat]
       /\ applied \in [Commands -> Nat]
  BY <1>3 DEF Connect, IInv, Types
<1>12. PICK s \in Nat : s = sent[k]
  BY <1>11
<1>13. sent' = [sent EXCEPT ![k] = s + 1] /\ sent' \in [Commands -> Nat]
  BY <1>11, <1>12
<1>14. Budget(queue', applied, sent')
  <2>1. Spare(queue, applied, sent', c)
    BY <1>7, <1>11, SpareSent DEF IInv
  <2>2. queue \in [Peer -> Seq(Call)]
    BY DEF IInv, Exchange, QueuesOK
  <2> QED
    BY <1>9, <1>11, <1>13, <2>1, <2>2, SparePut
<1>15. SendsOK(client', sent')
  <2>1. PICK t \in 0 .. N : t = client.tries
    BY <1>1 DEF ClientState
  <2>2. s <= t
    BY <1>1, <1>3, <1>12, <2>1 DEF IInv, SendsOK
  <2>3. sent'[k] = s + 1 /\ \A i \in Commands : i # k => sent'[i] = sent[i]
    BY <1>11, <1>13
  <2>4. s + 1 <= t + 1 /\ s + 1 <= N + 1
    BY <2>1, <2>2, ConstantsInRange
  <2>5. \A i \in Commands : i > k => i # k /\ sent[i] = 0
    BY <1>3 DEF IInv, SendsOK, Commands
  <2>6. \A i \in Commands : sent[i] <= N + 1
    BY DEF IInv, SendsOK
  <2>7. \A i \in Commands : sent'[i] <= N + 1
    BY <2>3, <2>4, <2>6
  <2> QED
    BY <1>4, <2>1, <2>3, <2>4, <2>5, <2>7 DEF SendsOK
<1> QED
  BY <1>1, <1>10, <1>13, <1>14, <1>15 DEF IInv, Types, RelaysUp

LEMMA ConnectFailsKeeps ==
    ASSUME IInv, ConnectFails
    PROVE  IInv'
<1>1. /\ client.pc = "send" /\ client.reply # "wait" /\ TryNext
      /\ UNCHANGED <<up, master, opened, queue, relay, sent, applied>>
  BY DEF IInv, Exchange, ClientOK, ConnectFails, peerVars, historyVars
<1>2. ClientOK(client') /\ client'.reply = "none" /\ SendsOK(client', sent)
  BY <1>1, TryNextMoves
<1>3. Exchange(queue, relay, client', applied)
  <2>1. Silent(queue, relay, Client)
    BY <1>1, ClientQuiet DEF IInv
  <2> QED
    BY <1>2, <2>1, ClientMoves DEF IInv
<1> QED
  BY <1>1, <1>2, <1>3 DEF IInv, Types, RelaysUp

LEMMA HungUpKeeps ==
    ASSUME IInv, NEW a, NEW Q2, Q2 = HungUpQueue(a), NEW R2, R2 = HungUpRelay(a)
    PROVE  /\ Exchange(Q2, R2, client, applied) /\ Silent(Q2, R2, a)
           /\ Budget(Q2, applied, sent)
           /\ \A p \in Peer : /\ R2[p].reply = relay[p].reply
                              /\ R2[p] # Idle <=> relay[p] # Idle
<1>1. Q2 = CallsEnded(queue, a)
  BY DEF HungUpQueue, CallsEnded
<1>2. R2 = RelaysEnded(relay, a)
  BY DEF HungUpRelay, RelaysEnded, Deserted
<1>3. /\ Exchange(Q2, R2, client, applied) /\ Silent(Q2, R2, a)
      /\ \A p \in Peer : /\ DOMAIN Q2[p] = DOMAIN queue[p]
                         /\ \A i \in DOMAIN queue[p] : SameCall(Q2[p][i], queue[p][i])
      /\ \A p \in Peer : /\ R2[p].reply = relay[p].reply /\ SameCall(R2[p].call, relay[p].call)
                         /\ R2[p] # Idle <=> relay[p] # Idle
  BY <1>1, <1>2, HungUp DEF IInv
<1>4. \A p \in Peer : \A k \in DOMAIN Q2[p] :
        k \in DOMAIN queue[p] /\ SameCall(Q2[p][k], queue[p][k])
  BY <1>3
<1>5. Budget(Q2, applied, sent)
  BY <1>4, CopiesStay DEF IInv, Types
<1> QED
  BY <1>3, <1>5

LEMMA NoReplyKeeps ==
    ASSUME IInv, NoReply
    PROVE  IInv'
<1>1. /\ client.pc = "wait" /\ TryNext
      /\ queue' = HungUpQueue(Client) /\ relay' = HungUpRelay(Client)
      /\ UNCHANGED <<up, master, opened, sent, applied>>
  BY DEF IInv, Exchange, ClientOK, NoReply, peerVars, historyVars
<1>2. ClientOK(client') /\ client'.reply = "none" /\ SendsOK(client', sent)
  BY <1>1, TryNextMoves
<1>3. /\ Exchange(queue', relay', client, applied) /\ Silent(queue', relay', Client)
      /\ Budget(queue', applied, sent)
      /\ \A p \in Peer : relay'[p] # Idle <=> relay[p] # Idle
  BY <1>1, HungUpKeeps
<1>4. Exchange(queue', relay', client', applied)
  BY <1>2, <1>3, ClientMoves
<1> QED
  BY <1>1, <1>2, <1>3, <1>4 DEF IInv, Types, RelaysUp

LEMMA GetReplyKeeps ==
    ASSUME IInv, GetReply
    PROVE  IInv'
<1>1. /\ client.pc = "wait" /\ client.reply \in Replies
      /\ client \in ClientState /\ ClientOK(client)
      /\ UNCHANGED <<up, master, opened, queue, relay, sent, applied>>
  BY DEF IInv, Exchange, ClientOK, GetReply, peerVars, historyVars
<1>2. PICK o \in {"timeout", "failed", "success"} :
        client' = [client EXCEPT !.pc = "prompt", !.outcome = o]
  BY DEF GetReply
<1>3. client' = [pc |-> "prompt", kind |-> client.kind, command |-> client.command,
                 at |-> client.at, tries |-> client.tries, reply |-> client.reply, outcome |-> o]
  BY <1>1, <1>2 DEF ClientState
<1>4. client' \in ClientState
  BY <1>1, <1>3 DEF ClientState
<1>5. client.reply # "wait"
  BY <1>1 DEF Replies
<1>6. ClientOK(client')
  BY <1>1, <1>3, <1>4, <1>5 DEF ClientOK
<1>7. Exchange(queue, relay, client', applied)
  <2>1. Silent(queue, relay, Client)
    BY <1>5, ClientQuiet DEF IInv
  <2>2. client'.reply = "PING" /\ client'.kind \in Edits =>
            client'.command \in Commands /\ applied[client'.command] > 0
    BY <1>3 DEF IInv, Exchange, AcknowledgedOK
  <2> QED
    BY <1>6, <2>1, <2>2, ClientMoves DEF IInv
<1>8. SendsOK(client', sent)
  BY <1>3 DEF IInv, SendsOK
<1> QED
  BY <1>1, <1>7, <1>8 DEF IInv, Types, RelaysUp

-----------------------------------------------------------------------------
(* The steps of the servers.                                               *)

\* What p's server has accepted is off its queue, and pending.
LEMMA Accepted ==
    ASSUME IInv, NEW p \in Peer, Accept(p), NEW Q, Q = WithoutFirst(queue, p)
    PROVE  /\ up[p] /\ relay[p] = Idle
           /\ Exchange(Q, relay, client, applied)
           /\ Pending(Q, relay, client, First(p))
           /\ Spare(Q, applied, sent, First(p))
           /\ First(p) \in Call /\ First(p).from # p
           /\ opened' \in [Peer -> 0 .. Descriptors]
           /\ Q \in [Peer -> Seq(Call)]
<1>1. /\ up[p] /\ relay[p] = Idle /\ queue[p] # <<>> /\ opened[p] < Descriptors
      /\ opened' = [opened EXCEPT ![p] = @ + 1]
  BY DEF Accept
<1>2. PICK n \in 0 .. Descriptors : n = opened[p]
  BY DEF IInv, Types
<1>3. n + 1 \in 0 .. Descriptors /\ opened' = [opened EXCEPT ![p] = n + 1]
  BY <1>1, <1>2, ConstantsInRange
<1>4. opened' \in [Peer -> 0 .. Descriptors]
  BY <1>3 DEF IInv, Types
<1>5. /\ Exchange(Q, relay, client, applied)
      /\ Pending(Q, relay, client, First(p)) /\ First(p).from # p
  BY <1>1, TakeFirst DEF IInv, First
<1>6. Spare(Q, applied, sent, First(p))
  BY <1>1, SpareTaken DEF IInv, Types, First, Exchange, QueuesOK
<1>7. First(p) \in Call /\ Q \in [Peer -> Seq(Call)]
  BY <1>5 DEF Pending, Exchange, QueuesOK
<1> QED
  BY <1>1, <1>4, <1>5, <1>6, <1>7

LEMMA TookFirst ==
    ASSUME NEW p \in Peer, Took(p)
    PROVE  queue' = WithoutFirst(queue, p)
BY DEF Took, WithoutFirst

\* Giving the answer is the last thing a handler does.
LEMMA Answered ==
    ASSUME Exchange(queue', relay, client, applied'), SendsOK(client, sent'),
           NEW c, Pending(queue', relay, client, c),
           NEW r \in Replies, r = "PING" => applied'[c.command] > 0, Answer(relay, c, r)
    PROVE  /\ Exchange(queue', relay', client', applied') /\ SendsOK(client', sent')
           /\ \A p \in Peer : relay'[p] # Idle <=> relay[p] # Idle
<1>1. /\ client' = IF c.live /\ c.from = Client THEN [client EXCEPT !.reply = r] ELSE client
      /\ relay' = IF c.live /\ c.from # Client THEN [relay EXCEPT ![c.from].reply = r] ELSE relay
  BY DEF Answer
<1>2. /\ Exchange(queue', relay', client', applied')
      /\ \A p \in Peer : relay'[p] # Idle <=> relay[p] # Idle
      /\ client'.pc = client.pc /\ client'.command = client.command
      /\ client'.tries = client.tries
  BY <1>1, AnswerGiven
<1>3. SendsOK(client', sent')
  BY <1>2, SendsSame
<1> QED
  BY <1>2, <1>3

LEMMA AnswerViewKeeps ==
    ASSUME IInv, NEW p \in Peer, AnswerView(p)
    PROVE  IInv'
<1>1. /\ Accept(p) /\ queue' = WithoutFirst(queue, p)
      /\ UNCHANGED <<up, master, sent, applied>>
  BY TookFirst DEF AnswerView, historyVars
<1>2. /\ Exchange(queue', relay, client, applied)
      /\ Pending(queue', relay, client, First(p))
      /\ Spare(queue', applied, sent, First(p))
      /\ opened' \in [Peer -> 0 .. Descriptors]
  BY <1>1, Accepted
<1>3. PICK r \in {"document", "document+PING"} : Answer(relay, First(p), r)
  BY DEF AnswerView
<1>4. r \in Replies /\ r # "PING"
  BY DEF Replies
<1>5. /\ Exchange(queue', relay', client', applied') /\ SendsOK(client', sent')
      /\ \A q \in Peer : relay'[q] # Idle <=> relay[q] # Idle
  BY <1>1, <1>2, <1>3, <1>4, Answered DEF IInv
<1>6. Budget(queue', applied, sent)
  BY <1>2, SpareDropped DEF IInv, Types
<1> QED
  BY <1>1, <1>2, <1>5, <1>6 DEF IInv, Types, RelaysUp

\* The call is dropped: nobody answers it, or the caller waits for no answer.
LEMMA Discarded ==
    ASSUME IInv, NEW p \in Peer, Accept(p), Took(p), master' \in [Peer -> 0 .. N],
           UNCHANGED <<up, relay, client, sent, applied>>
    PROVE  IInv'
<1>1. queue' = WithoutFirst(queue, p)
  BY TookFirst
<1>2. /\ Exchange(queue', relay, client, applied)
      /\ Spare(queue', applied, sent, First(p))
      /\ opened' \in [Peer -> 0 .. Descriptors]
  BY <1>1, Accepted
<1>3. Budget(queue', applied, sent)
  BY <1>2, SpareDropped DEF IInv, Types
<1> QED
  BY <1>2, <1>3 DEF IInv, Types, RelaysUp

LEMMA ObeyElectionKeeps ==
    ASSUME IInv, NEW p \in Peer, ObeyElection(p)
    PROVE  IInv'
<1>1. master' \in [Peer -> 0 .. N]
  BY ConstantsInRange DEF ObeyElection, IInv, Types
<1> QED
  BY <1>1, Discarded DEF ObeyElection, historyVars

LEMMA RejectEditKeeps ==
    ASSUME IInv, NEW p \in Peer, RejectEdit(p)
    PROVE  IInv'
<1>1. master' \in [Peer -> 0 .. N]
  BY DEF RejectEdit, IInv, Types
<1> QED
  BY <1>1, Discarded DEF RejectEdit, historyVars

\* The sending is spent, and the acknowledgement stands for the application.
LEMMA ApplyEditKeeps ==
    ASSUME IInv, NEW p \in Peer, ApplyEdit(p)
    PROVE  IInv'
<1>1. /\ Accept(p) /\ queue' = WithoutFirst(queue, p) /\ First(p).kind \in Edits
      /\ applied' = [applied EXCEPT ![First(p).command] = @ + 1]
      /\ Answer(relay, First(p), "PING")
      /\ UNCHANGED <<up, master, sent>>
  BY TookFirst DEF ApplyEdit
<1>2. /\ Exchange(queue', relay, client, applied)
      /\ Pending(queue', relay, client, First(p))
      /\ Spare(queue', applied, sent, First(p))
      /\ opened' \in [Peer -> 0 .. Descriptors]
      /\ First(p) \in Call
  BY <1>1, Accepted
<1>3. First(p).command \in Commands
  BY <1>2, CallRanges
<1>4. /\ Exchange(queue', relay, client, applied') /\ applied'[First(p).command] > 0
      /\ applied' \in [Commands -> Nat]
  <2>1. PICK k \in Commands : k = First(p).command
    BY <1>3
  <2>2. applied' = [applied EXCEPT ![k] = @ + 1]
    BY <1>1, <2>1
  <2>3. applied \in [Commands -> Nat]
    BY DEF IInv, Types
  <2> QED
    BY <1>2, <2>1, <2>2, <2>3, AppliedOnce
<1>5. Budget(queue', applied', sent)
  BY <1>1, <1>2, SpareApplied DEF IInv, Types
<1>6. "PING" \in Replies
  BY DEF Replies
<1>7. /\ Exchange(queue', relay', client', applied') /\ SendsOK(client', sent')
      /\ \A q \in Peer : relay'[q] # Idle <=> relay[q] # Idle
  BY <1>1, <1>2, <1>4, <1>6, Answered DEF IInv
<1> QED
  BY <1>1, <1>2, <1>4, <1>5, <1>7 DEF IInv, Types, RelaysUp

LEMMA RefuseRelayKeeps ==
    ASSUME IInv, NEW p \in Peer, RefuseRelay(p)
    PROVE  IInv'
<1>1. /\ Accept(p) /\ queue' = WithoutFirst(queue, p)
      /\ Answer(relay, First(p), "NULL")
      /\ UNCHANGED <<up, master, sent, applied>>
  BY TookFirst DEF RefuseRelay, Relays, historyVars
<1>2. /\ Exchange(queue', relay, client, applied)
      /\ Pending(queue', relay, client, First(p))
      /\ Spare(queue', applied, sent, First(p))
      /\ opened' \in [Peer -> 0 .. Descriptors]
  BY <1>1, Accepted
<1>3. "NULL" \in Replies
  BY DEF Replies
<1>4. /\ Exchange(queue', relay', client', applied') /\ SendsOK(client', sent')
      /\ \A q \in Peer : relay'[q] # Idle <=> relay[q] # Idle
  BY <1>1, <1>2, <1>3, Answered DEF IInv
<1>5. Budget(queue', applied, sent)
  BY <1>2, SpareDropped DEF IInv, Types
<1> QED
  BY <1>1, <1>2, <1>4, <1>5 DEF IInv, Types, RelaysUp

\* The call moves into the relay, and a call of the same edit into a queue.
LEMMA StartRelayKeeps ==
    ASSUME IInv, NEW p \in Peer, StartRelay(p)
    PROVE  IInv'
<1>1. /\ Accept(p) /\ First(p).kind \in Edits /\ master[p] # p /\ master[p] # 0
      /\ UNCHANGED <<up, master, client, sent, applied>>
  BY DEF StartRelay, Relays, Reachable, historyVars
<1>2. PICK q \in Peer : q = master[p]
  BY <1>1, ConstantsInRange DEF IInv, Types, Peer
<1>3. PICK c : c = First(p)
  OBVIOUS
<1>4. PICK Q : Q = WithoutFirst(queue, p)
  OBVIOUS
<1>5. /\ up[p] /\ relay[p] = Idle
      /\ Exchange(Q, relay, client, applied)
      /\ Pending(Q, relay, client, c)
      /\ Spare(Q, applied, sent, c)
      /\ c \in Call /\ c.from # p /\ c.kind \in Edits
      /\ opened' \in [Peer -> 0 .. Descriptors]
      /\ Q \in [Peer -> Seq(Call)]
  BY <1>1, <1>3, <1>4, Accepted
<1>6. PICK d : d = [from |-> p, live |-> TRUE, command |-> c.command, kind |-> c.kind]
  OBVIOUS
<1>7. d \in Call /\ d.from = p /\ d.command = c.command /\ d.kind = c.kind
  <2>1. \A b \in BOOLEAN :
            [from |-> p, live |-> b, command |-> c.command, kind |-> c.kind] \in Call
    BY <1>5, ConstantsInRange DEF Call
  <2>2. d \in Call
    BY <1>6, <2>1, Zenon
  <2> QED
    BY <1>6, <2>2
<1>8. queue' = WithLast(Q, q, d)
  <2>1. queue' = [queue EXCEPT ![p] = Tail(@), ![q] = Append(@, d)]
    BY <1>2, <1>3, <1>6 DEF StartRelay
  <2>2. p # q
    BY <1>1, <1>2
  <2> QED
    BY <1>4, <2>1, <2>2 DEF WithoutFirst, WithLast
<1>9. relay' = Relaying(relay, p, c)
  BY <1>3 DEF StartRelay, Relaying
<1>10. /\ Exchange(Q, relay', client, applied) /\ Silent(Q, relay', p)
       /\ relay'[p].reply = "wait" /\ relay'[p].call = c
  BY <1>5, <1>9, RelayStarts
<1>11. Exchange(queue', relay', client, applied)
  <2>1. Pending(Q, relay', client, d)
    BY <1>7, <1>10, ConstantsInRange DEF Pending, Awaited
  <2>2. d.from # q
    BY <1>1, <1>2, <1>7
  <2> QED
    BY <1>8, <1>10, <2>1, <2>2, PutLast
<1>12. Budget(queue', applied, sent)
  BY <1>5, <1>7, <1>8, SparePut DEF IInv, Types
<1>13. \A r \in Peer : relay'[r] # Idle => up[r]
  BY <1>5, <1>9 DEF IInv, RelaysUp, Exchange, RelaysOK, Relaying
<1> QED
  BY <1>1, <1>5, <1>11, <1>12, <1>13 DEF IInv, Types, RelaysUp

\* The relay is over, and its caller is given an answer that fits the relay's own.
LEMMA RelayDone ==
    ASSUME IInv, NEW p \in Peer, relay[p] # Idle,
           NEW R, Exchange(queue', R, client, applied), Silent(queue', R, p),
           R[p] # Idle, R[p].call = relay[p].call,
           \A q \in Peer : R[q] # Idle <=> relay[q] # Idle,
           NEW r \in Replies, r = "PING" => applied[relay[p].call.command] > 0,
           Answer([R EXCEPT ![p] = Idle], relay[p].call, r),
           Budget(queue', applied, sent),
           UNCHANGED <<up, master, opened, sent, applied>>
    PROVE  IInv'
<1>1. PICK R2 : R2 = [R EXCEPT ![p] = Idle]
  OBVIOUS
<1>2. PICK c : c = relay[p].call
  OBVIOUS
<1>3. Exchange(queue', R2, client, applied) /\ Pending(queue', R2, client, c)
  BY <1>1, <1>2, RelayEnds
<1>4. /\ client' = IF c.live /\ c.from = Client THEN [client EXCEPT !.reply = r] ELSE client
      /\ relay' = IF c.live /\ c.from # Client THEN [R2 EXCEPT ![c.from].reply = r] ELSE R2
  BY <1>1, <1>2 DEF Answer
<1>5. r = "PING" => applied[c.command] > 0
  BY <1>2
<1>6. /\ Exchange(queue', relay', client', applied)
      /\ \A q \in Peer : relay'[q] # Idle <=> R2[q] # Idle
      /\ client'.pc = client.pc /\ client'.command = client.command
      /\ client'.tries = client.tries
  BY <1>3, <1>4, <1>5, AnswerGiven
<1>7. SendsOK(client', sent)
  BY <1>6, SendsSame DEF IInv
<1>8. \A q \in Peer : relay'[q] # Idle => relay[q] # Idle
  BY <1>1, <1>6 DEF Exchange, RelaysOK
<1> QED
  BY <1>6, <1>7, <1>8 DEF IInv, Types, RelaysUp

LEMMA RelayFailsKeeps ==
    ASSUME IInv, NEW p \in Peer, RelayFails(p)
    PROVE  IInv'
<1>1. /\ relay[p].reply = "wait" /\ queue' = HungUpQueue(p)
      /\ Answer([HungUpRelay(p) EXCEPT ![p] = Idle], relay[p].call, "NULL")
      /\ UNCHANGED <<up, master, opened, sent, applied>>
  BY DEF RelayFails, peerVars, historyVars
<1>2. PICK R : R = HungUpRelay(p)
  OBVIOUS
<1>3. /\ Exchange(queue', R, client, applied) /\ Silent(queue', R, p)
      /\ Budget(queue', applied, sent)
      /\ \A q \in Peer : R[q] # Idle <=> relay[q] # Idle
  BY <1>1, <1>2, HungUpKeeps
<1>4. relay[p] # Idle /\ relay[p].call.from # p
  BY <1>1, IdleIsQuiet DEF IInv, Exchange, RelaysOK
<1>5. R[p].call = relay[p].call
  <2>1. PICK x \in Busy : x = relay[p]
    BY <1>4, BusyRelay DEF IInv, Exchange, RelaysOK
  <2>2. R[p] = [x EXCEPT !.call = Dead(x.call, p)]
    BY <1>2, <2>1 DEF HungUpRelay
  <2>3. Dead(x.call, p) = x.call
    BY <1>4, <2>1 DEF Dead
  <2> QED
    BY <2>1, <2>2, <2>3 DEF Busy
<1>6. "NULL" \in Replies
  BY DEF Replies
<1> QED
  BY <1>1, <1>2, <1>3, <1>4, <1>5, <1>6, RelayDone

LEMMA RelayAnswerKeeps ==
    ASSUME IInv, NEW p \in Peer, RelayAnswer(p)
    PROVE  IInv'
<1>1. /\ relay[p].reply \in Replies
      /\ UNCHANGED <<up, master, opened, queue, sent, applied>>
  BY DEF RelayAnswer, peerVars, historyVars
<1>2. PICK r \in PassedOn(relay[p].reply) : Answer([relay EXCEPT ![p] = Idle], relay[p].call, r)
  BY DEF RelayAnswer
<1>3. r \in Replies /\ (r = "PING" => relay[p].reply = "PING")
  BY <1>1 DEF PassedOn, Replies
<1>4. relay[p].reply # "wait" /\ relay[p].reply # "none"
  BY <1>1 DEF Replies
<1>5. Silent(queue', relay, p)
  BY <1>1, <1>4, RelayAnswered DEF IInv
<1>6. relay[p] # Idle
  BY <1>4, IdleIsQuiet
<1>7. r = "PING" => applied[relay[p].call.command] > 0
  BY <1>3 DEF IInv, Exchange, AcknowledgedOK
<1>8. Exchange(queue', relay, client, applied) /\ Budget(queue', applied, sent)
  BY <1>1 DEF IInv
<1> QED
  BY <1>1, <1>2, <1>3, <1>5, <1>6, <1>7, <1>8, RelayDone

-----------------------------------------------------------------------------
(* Processes, and the theorems.                                            *)

LEMMA DieKeeps ==
    ASSUME IInv, NEW p \in Peer, Die(p)
    PROVE  IInv'
<1>1. /\ up' = [up EXCEPT ![p] = FALSE] /\ master' = [master EXCEPT ![p] = 0]
      /\ opened' = [opened EXCEPT ![p] = 0]
      /\ queue' = [HungUpQueue(p) EXCEPT ![p] = <<>>]
      /\ relay' = [HungUpRelay(p) EXCEPT ![p] = Idle]
      /\ UNCHANGED <<client, sent, applied>>
  BY DEF Die, historyVars
<1>2. /\ up' \in [Peer -> BOOLEAN] /\ up'[p] = FALSE
      /\ \A q \in Peer : q # p => up'[q] = up[q]
  <2>1. up \in [Peer -> BOOLEAN]
    BY DEF IInv, Types
  <2> QED
    BY <1>1, <2>1, Zenon
<1>3. master' \in [Peer -> 0 .. N] /\ opened' \in [Peer -> 0 .. Descriptors]
  BY <1>1, ConstantsInRange DEF IInv, Types
<1>4. PICK Q : Q = HungUpQueue(p)
  OBVIOUS
<1>5. PICK R : R = HungUpRelay(p)
  OBVIOUS
<1>6. /\ Exchange(Q, R, client, applied) /\ Silent(Q, R, p)
      /\ Budget(Q, applied, sent)
      /\ \A q \in Peer : R[q] # Idle <=> relay[q] # Idle
  BY <1>4, <1>5, HungUpKeeps
<1>7. Exchange(Q, relay', client, applied)
  <2>1. relay' = [R EXCEPT ![p] = Idle]
    BY <1>1, <1>5
  <2>2. CASE R[p] = Idle
    <3>1. relay' = R
      BY <1>6, <2>1, <2>2 DEF Exchange, RelaysOK
    <3> QED
      BY <1>6, <3>1
  <2>3. CASE R[p] # Idle
    BY <1>6, <2>1, <2>3, RelayEnds
  <2> QED
    BY <2>2, <2>3
<1>8. queue' = [Q EXCEPT ![p] = <<>>]
  BY <1>1, <1>4
<1>9. Exchange(queue', relay', client, applied)
  BY <1>7, <1>8, QueueLost
<1>10. Budget(queue', applied, sent)
  <2>1. DOMAIN <<>> = {} /\ Q \in [Peer -> Seq(Call)]
    BY <1>6 DEF Exchange, QueuesOK
  <2>2. \A q \in Peer : \A k \in DOMAIN queue'[q] :
          k \in DOMAIN Q[q] /\ SameCall(queue'[q][k], Q[q][k])
    BY <1>8, <2>1 DEF SameCall
  <2> QED
    BY <1>6, <2>2, CopiesStay DEF IInv, Types
<1>11. \A q \in Peer : relay'[q] # Idle => q # p /\ relay[q] # Idle
  BY <1>1, <1>5, <1>6 DEF Exchange, RelaysOK
<1> QED
  BY <1>1, <1>2, <1>3, <1>9, <1>10, <1>11 DEF IInv, Types, RelaysUp

LEMMA RestartKeeps ==
    ASSUME IInv, NEW p \in Peer, Restart(p)
    PROVE  IInv'
<1>1. /\ up' = [up EXCEPT ![p] = TRUE]
      /\ UNCHANGED <<master, opened, queue, relay, client, sent, applied>>
  BY DEF Restart, historyVars
<1>2. /\ up' \in [Peer -> BOOLEAN]
      /\ \A q \in Peer : up[q] => up'[q]
  <2>1. up \in [Peer -> BOOLEAN]
    BY DEF IInv, Types
  <2> QED
    BY <1>1, <2>1, Zenon
<1> QED
  BY <1>1, <1>2 DEF IInv, Types, RelaysUp

LEMMA ChangeMasterKeeps ==
    ASSUME IInv, NEW p \in Peer, ChangeMaster(p)
    PROVE  IInv'
<1>1. UNCHANGED <<up, opened, queue, relay, client, sent, applied>>
  BY DEF ChangeMaster, historyVars
<1>2. master' \in [Peer -> 0 .. N]
  BY DEF ChangeMaster, IInv, Types
<1> QED
  BY <1>1, <1>2 DEF IInv, Types, RelaysUp

LEMMA StutterKeeps ==
    ASSUME IInv, UNCHANGED vars
    PROVE  IInv'
BY DEF IInv, Types, RelaysUp, vars, peerVars, historyVars

LEMMA InitHolds ==
    ASSUME Init
    PROVE  IInv
<1>1. /\ \A p \in Peer : relay[p] = Idle
      /\ relay \in [Peer -> Busy \cup {Idle}]
      /\ client.pc = "prompt" /\ client.reply = "none" /\ client.command = 0
      /\ sent \in [Commands -> Nat] /\ applied \in [Commands -> Nat]
      /\ \A i \in Commands : sent[i] = 0 /\ applied[i] = 0
  BY DEF Init
<1>2. /\ queue \in [Peer -> Seq(Call)]
      /\ \A p \in Peer : DOMAIN queue[p] = {}
  BY EmptySeq DEF Init
<1>3. Types
  <2>1. up \in [Peer -> BOOLEAN]
    BY Zenon DEF Init
  <2> QED
    BY <1>1, <2>1, ConstantsInRange DEF Init, Types
<1>4. client \in ClientState
  BY ConstantsInRange DEF Init, ClientState
<1>5. ClientOK(client)
  BY <1>1, <1>4 DEF ClientOK
<1>6. Exchange(queue, relay, client, applied)
  <2>1. QueuesOK(queue) /\ RelaysOK(relay)
    BY <1>1, <1>2 DEF QueuesOK, RelaysOK
  <2>2. \A p \in Peer : relay[p].call.live = FALSE /\ relay[p].reply = "none"
    BY <1>1, IdleIsQuiet
  <2>3. CallsOK(queue, relay, client) /\ OneCall(queue, relay)
    BY <1>2, <2>2 DEF CallsOK, OneCall
  <2>4. AcknowledgedOK(relay, client, applied)
    BY <1>1, <2>2 DEF AcknowledgedOK
  <2> QED
    BY <1>5, <2>1, <2>3, <2>4 DEF Exchange
<1>7. SendsOK(client, sent)
  BY <1>1, ConstantsInRange DEF SendsOK
<1>8. Budget(queue, applied, sent)
  <2>1. ASSUME NEW i \in Commands
        PROVE  CopiesIn(queue, i) = {}
    <3>1. ASSUME NEW x \in CopiesIn(queue, i)
          PROVE  FALSE
      BY <1>2, CopiesPairs
    <3> QED
      BY <3>1
  <2>2. IsFiniteSet({}) /\ Cardinality({}) = 0
    BY FS_EmptySet
  <2> QED
    BY <1>1, <2>1, <2>2 DEF Budget
<1>9. RelaysUp
  BY <1>1 DEF RelaysUp
<1> QED
  BY <1>3, <1>6, <1>7, <1>8, <1>9 DEF IInv

LEMMA NextKeeps ==
    ASSUME IInv, [Next]_vars
    PROVE  IInv'
<1>1. ASSUME NEW kind \in Kinds, GiveCommand(kind)
      PROVE  IInv'
  BY <1>1, GiveCommandKeeps
<1>2. CASE ClientStep
  BY <1>2, RequestElectionKeeps, ConnectKeeps, ConnectFailsKeeps, NoReplyKeeps, GetReplyKeeps
     DEF ClientStep
<1>3. ASSUME NEW p \in Peer, Server(p)
      PROVE  IInv'
  <2>1. CASE AnswerView(p) \/ ObeyElection(p) \/ ApplyEdit(p) \/ RejectEdit(p)
    BY <2>1, AnswerViewKeeps, ObeyElectionKeeps, ApplyEditKeeps, RejectEditKeeps
  <2>2. CASE StartRelay(p) \/ RefuseRelay(p) \/ RelayFails(p) \/ RelayAnswer(p)
    BY <2>2, StartRelayKeeps, RefuseRelayKeeps, RelayFailsKeeps, RelayAnswerKeeps
  <2>3. CASE BrokenPipe(p)
    BY <2>3, DieKeeps DEF BrokenPipe
  <2> QED
    BY <1>3, <2>1, <2>2, <2>3 DEF Server
<1>4. ASSUME NEW p \in Peer, Crash(p) \/ Restart(p) \/ ChangeMaster(p)
      PROVE  IInv'
  BY <1>4, DieKeeps, RestartKeeps, ChangeMasterKeeps DEF Crash
<1>5. CASE UNCHANGED vars
  BY <1>5, StutterKeeps
<1> QED
  BY <1>1, <1>2, <1>3, <1>4, <1>5 DEF Next

\* Every reachable state satisfies the inductive invariant: no answer meets a later
\* call, acknowledgements stand for applications, and sendings for copies.
THEOREM RequestInvariant == Spec => []IInv
<1>1. Init => IInv
  BY InitHolds
<1>2. IInv /\ [Next]_vars => IInv'
  BY NextKeeps
<1> QED
  BY <1>1, <1>2, PTL DEF Spec

\* Types; and an answer reaches only a client or a relay that waits for it
\* (send on an accepted socket whose caller may have given up long ago).
THEOREM TypeCorrect == Spec => []TypeOK
<1>1. IInv => TypeOK
  <2> SUFFICES ASSUME IInv
               PROVE  TypeOK
    OBVIOUS
  <2>1. \A p \in Peer : \A i \in DOMAIN queue[p] : queue[p][i] \in Call
    BY LenProperties, ElementOfSeq DEF IInv, Exchange, QueuesOK
  <2>2. \A p \in Peer : relay[p].reply \in Replies \cup {"none", "wait"}
    BY IdleIsQuiet DEF IInv, Exchange, RelaysOK, Busy
  <2>3. \A p \in Peer : relay[p] # Idle => relay[p].call \in Call /\ up[p]
    BY BusyRelay DEF IInv, Exchange, RelaysOK, RelaysUp
  <2>4. /\ client.pc \in {"prompt", "send", "wait", "elect"} /\ client.tries \in 0 .. N
        /\ client.reply = "wait" => client.pc = "wait"
        /\ client.pc \in {"send", "elect"} => client.reply = "none"
    BY DEF IInv, Exchange, ClientOK, ClientState
  <2> QED
    BY <2>1, <2>2, <2>3, <2>4 DEF IInv, Types, TypeOK
<1> QED
  BY <1>1, RequestInvariant, PTL

\* An edit the client was told succeeded (the PING of a master, relayed or not) was
\* applied by a peer that took itself for the master.
THEOREM SuccessMeansApplied == Spec => []SuccessWasApplied
<1>1. IInv => SuccessWasApplied
  BY DEF IInv, Exchange, AcknowledgedOK, SuccessWasApplied
<1> QED
  BY <1>1, RequestInvariant, PTL

\* Every application of an edit, and every copy of it that waits in an accept queue,
\* goes back to a sending of its own; the client sends once per peer and once more.
THEOREM NoEditMultiplies == Spec => []EditsMultiplyBySends
<1>1. IInv => EditsMultiplyBySends
  BY DEF IInv, Budget, SendsOK, Copies, EditsMultiplyBySends
<1> QED
  BY <1>1, RequestInvariant, PTL

-----------------------------------------------------------------------------
(* The service.  Answers reach the client while its command is open; only  *)
(* the end of a command, seen at the prompt, is told.                      *)

SameClient == client'.command = client.command /\ client'.pc = client.pc /\ Told' = Told

LEMMA InvisibleStep ==
    ASSUME SameClient, UNCHANGED historyVars
    PROVE  UNCHANGED Service!Service
BY DEF SameClient, historyVars, Service!Service

LEMMA AnswersUntold ==
    ASSUME IInv, NEW relays, NEW c, NEW r \in Replies, Answer(relays, c, r),
           c.live /\ c.from = Client => client.reply = "wait"
    PROVE  SameClient
<1>1. client' = IF c.live /\ c.from = Client THEN [client EXCEPT !.reply = r] ELSE client
  BY DEF Answer
<1>2. CASE c.live /\ c.from = Client
  <2>1. client.pc = "wait" /\ client \in ClientState
    BY <1>2 DEF IInv, Exchange, ClientOK
  <2>2. client'.pc = client.pc /\ client'.command = client.command
    BY <1>1, <1>2, <2>1, ClientAnswered
  <2> QED
    BY <2>1, <2>2 DEF SameClient, Told
<1>3. CASE ~ (c.live /\ c.from = Client)
  BY <1>1, <1>3 DEF SameClient, Told
<1> QED
  BY <1>2, <1>3

\* A call the client still waits for: at the head of a queue, or being relayed.
LEMMA ClientAwaits ==
    ASSUME IInv, NEW p \in Peer
    PROVE  /\ Accept(p) /\ First(p).live /\ First(p).from = Client => client.reply = "wait"
           /\ relay[p].call.live /\ relay[p].call.from = Client => client.reply = "wait"
<1>1. ASSUME Accept(p), First(p).live, First(p).from = Client
      PROVE  client.reply = "wait"
  <2>1. queue[p] \in Seq(Call) /\ queue[p] # <<>>
    BY <1>1 DEF Accept, IInv, Exchange, QueuesOK
  <2>2. 1 \in DOMAIN queue[p] /\ First(p) = queue[p][1]
    BY <2>1 DEF First
  <2>3. Awaited(relay, client, First(p))
    BY <1>1, <2>2 DEF IInv, Exchange, CallsOK
  <2> QED
    BY <1>1, <2>3 DEF Awaited
<1>2. ASSUME relay[p].call.live, relay[p].call.from = Client
      PROVE  client.reply = "wait"
  BY <1>2 DEF IInv, Exchange, CallsOK, Awaited
<1> QED
  BY <1>1, <1>2

\* A command that no send reached, or no answer came to, is tried again or ends.
LEMMA TryNextServes ==
    ASSUME IInv, client.pc \in {"send", "wait"}, TryNext, UNCHANGED historyVars
    PROVE  [Service!Next]_(Service!Service)
<1>1. client \in ClientState
  BY DEF IInv, Exchange, ClientOK
<1>2. CASE client.tries < N
  <2>1. client'.pc = "send" /\ client'.command = client.command
    BY <1>1, <1>2 DEF TryNext, ClientState
  <2> QED
    BY <2>1, InvisibleStep DEF historyVars, Service!Service, Told
<1>3. CASE ~ (client.tries < N)
  <2>1. /\ client'.pc = "prompt" /\ client'.command = client.command
        /\ client'.reply = "none" /\ client'.outcome = "timeout"
    BY <1>1, <1>3 DEF TryNext, ClientState
  <2>2. Told' = "unknown"
    BY <2>1 DEF Told
  <2>3. Service!End("unknown")
    BY <2>1, <2>2 DEF Service!End, historyVars
  <2> QED
    BY <2>3 DEF Service!Next
<1> QED
  BY <1>2, <1>3

LEMMA ClientServes ==
    ASSUME IInv, ClientStep
    PROVE  [Service!Next]_(Service!Service)
<1>1. client \in ClientState /\ ClientOK(client)
  BY DEF IInv, Exchange, ClientOK
<1>2. CASE RequestElection
  <2>1. client.pc = "elect" /\ client.reply = "none" /\ UNCHANGED historyVars
    BY <1>1, <1>2 DEF RequestElection, ClientOK
  <2>2. CASE client.at \in Peer
    <3>1. client'.pc = client.pc /\ client'.command = client.command
      BY <1>1, <1>2, <2>2 DEF RequestElection, ClientState
    <3>2. SameClient
      BY <2>1, <3>1 DEF SameClient, Told
    <3> QED
      BY <2>1, <3>2, InvisibleStep
  <2>3. CASE client.at \notin Peer
    <3>1. /\ client'.pc = "prompt" /\ client'.command = client.command
          /\ client'.reply = "none"
      BY <1>1, <1>2, <2>1, <2>3 DEF RequestElection, ClientState
    <3>2. Told' \in {"nothing", "unknown"}
      BY <3>1 DEF Told
    <3>3. Service!End(Told')
      BY <2>1, <3>1, <3>2 DEF Service!End, historyVars
    <3> QED
      BY <3>2, <3>3 DEF Service!Next
  <2> QED
    BY <2>2, <2>3
<1>3. CASE Connect
  <2>1. PICK k \in Commands : k = client.command
    BY <1>1, <1>3 DEF Connect, ClientOK
  <2>2. /\ client.pc = "send" /\ client'.pc = "wait" /\ client'.command = k
        /\ sent' = [sent EXCEPT ![k] = @ + 1] /\ UNCHANGED applied
    BY <1>1, <1>3, <2>1 DEF Connect, ClientState
  <2>3. sent[k] < N + 1
    <3>1. PICK t \in 0 .. N : t = client.tries
      BY <1>1 DEF ClientState
    <3>2. sent[k] \in Nat /\ sent[k] <= t
      BY <2>1, <2>2, <3>1 DEF IInv, Types, SendsOK
    <3> QED
      BY <3>1, <3>2, ConstantsInRange
  <2>4. Told = "nothing" /\ Told' = "nothing"
    BY <2>2 DEF Told
  <2>5. Service!Send
    BY <2>1, <2>2, <2>3, <2>4 DEF Service!Send
  <2> QED
    BY <2>5 DEF Service!Next
<1>4. CASE ConnectFails
  BY <1>4, TryNextServes DEF ConnectFails
<1>5. CASE NoReply
  <2>1. client.pc = "wait"
    BY <1>1, <1>5 DEF NoReply, ClientOK
  <2> QED
    BY <1>5, <2>1, TryNextServes DEF NoReply
<1>6. CASE GetReply
  <2>1. PICK o \in {"timeout", "failed", "success"} :
          client' = [client EXCEPT !.pc = "prompt", !.outcome = o]
    BY <1>6 DEF GetReply
  <2>2. /\ client'.pc = "prompt" /\ client'.command = client.command
        /\ client'.reply = client.reply /\ client'.kind = client.kind
        /\ client'.outcome = o
    BY <1>1, <2>1 DEF ClientState
  <2>3. client.pc = "wait" /\ UNCHANGED historyVars
    BY <1>6 DEF GetReply
  <2>4. Told' \in {"nothing", "applied", "unknown"}
    BY DEF Told
  <2>5. Told' = "applied" => applied[client.command] > 0
    BY <2>2 DEF Told, IInv, Exchange, AcknowledgedOK
  <2>6. Service!End(Told')
    BY <2>2, <2>3, <2>5 DEF Service!End, historyVars
  <2> QED
    BY <2>4, <2>6 DEF Service!Next
<1> QED
  BY <1>2, <1>3, <1>4, <1>5, <1>6 DEF ClientStep

LEMMA GiveServes ==
    ASSUME IInv, NEW kind \in Kinds, GiveCommand(kind)
    PROVE  Service!Next
<1>1. /\ client.pc = "prompt" /\ client.command < MaxCommands
      /\ client'.pc # "prompt" /\ client'.command = client.command + 1
      /\ UNCHANGED <<sent, applied>>
  BY DEF GiveCommand, historyVars
<1>2. Told' = "nothing"
  BY <1>1 DEF Told
<1>3. Service!Give
  BY <1>1, <1>2 DEF Service!Give
<1> QED
  BY <1>3 DEF Service!Next

\* ApplyEdit spends a sending of its own (Budget, before and after the step).
LEMMA ApplyServes ==
    ASSUME IInv, NEW p \in Peer, ApplyEdit(p)
    PROVE  Service!Next
<1>1. Accept(p) /\ UNCHANGED sent
  BY DEF ApplyEdit
<1>2. First(p) \in Call
  BY <1>1, Accepted
<1>3. PICK k \in Commands : k = First(p).command
  BY <1>2, CallRanges
<1>4. applied' = [applied EXCEPT ![k] = @ + 1] /\ applied[k] \in Nat /\ applied'[k] = applied[k] + 1
  BY <1>3 DEF ApplyEdit, IInv, Types
<1>5. applied'[k] <= sent[k]
  <2>1. IInv'
    BY ApplyEditKeeps
  <2>2. /\ IsFiniteSet(CopiesIn(queue', k))
        /\ applied'[k] + Cardinality(CopiesIn(queue', k)) <= sent'[k]
    BY <2>1 DEF IInv, Budget
  <2>3. Cardinality(CopiesIn(queue', k)) \in Nat /\ sent[k] \in Nat
    BY <2>2, FS_CardinalityType DEF IInv, Types
  <2> QED
    BY <1>1, <1>4, <2>2, <2>3
<1>6. SameClient
  <2>1. Answer(relay, First(p), "PING") /\ "PING" \in Replies
    BY DEF ApplyEdit, Replies
  <2> QED
    BY <1>1, <2>1, ClientAwaits, AnswersUntold
<1>7. applied[k] < sent[k]
  <2>1. sent[k] \in Nat
    BY DEF IInv, Types
  <2> QED
    BY <1>4, <1>5, <2>1
<1>8. Service!Apply(k)
  BY <1>1, <1>4, <1>6, <1>7 DEF Service!Apply, SameClient
<1> QED
  BY <1>8 DEF Service!Next, Commands, Service!Commands

\* No other step of a server, and nothing that happens to a process, is visible.
LEMMA OthersInvisible ==
    ASSUME IInv, NEW p \in Peer,
           \/ Server(p) /\ ~ ApplyEdit(p)
           \/ Crash(p) \/ Restart(p) \/ ChangeMaster(p)
    PROVE  UNCHANGED Service!Service
<1>1. UNCHANGED client => SameClient
  BY DEF SameClient, Told
<1>2. CASE AnswerView(p)
  <2>1. /\ Accept(p) /\ UNCHANGED historyVars
        /\ \E r \in Replies : Answer(relay, First(p), r)
    BY <1>2 DEF AnswerView, Replies
  <2> QED
    BY <2>1, ClientAwaits, AnswersUntold, InvisibleStep
<1>3. CASE RefuseRelay(p)
  <2>1. /\ Accept(p) /\ UNCHANGED historyVars
        /\ Answer(relay, First(p), "NULL") /\ "NULL" \in Replies
    BY <1>3 DEF RefuseRelay, Relays, Replies
  <2> QED
    BY <2>1, ClientAwaits, AnswersUntold, InvisibleStep
<1>4. CASE RelayFails(p)
  <2>1. PICK R : R = [HungUpRelay(p) EXCEPT ![p] = Idle]
    OBVIOUS
  <2>2. UNCHANGED historyVars /\ Answer(R, relay[p].call, "NULL") /\ "NULL" \in Replies
    BY <1>4, <2>1 DEF RelayFails, Replies
  <2> QED
    BY <2>2, ClientAwaits, AnswersUntold, InvisibleStep
<1>5. CASE RelayAnswer(p)
  <2>1. PICK R : R = [relay EXCEPT ![p] = Idle]
    OBVIOUS
  <2>2. PICK r \in Replies : Answer(R, relay[p].call, r)
    BY <1>5, <2>1 DEF RelayAnswer, PassedOn, Replies
  <2>3. UNCHANGED historyVars
    BY <1>5 DEF RelayAnswer
  <2> QED
    BY <2>2, <2>3, ClientAwaits, AnswersUntold, InvisibleStep
<1>6. CASE BrokenPipe(p) \/ Crash(p)
  <2>1. UNCHANGED <<client, historyVars>>
    BY <1>6 DEF BrokenPipe, Crash, Die
  <2> QED
    BY <1>1, <2>1, InvisibleStep
<1>7. CASE ObeyElection(p) \/ RejectEdit(p) \/ StartRelay(p) \/ Restart(p) \/ ChangeMaster(p)
  <2>1. UNCHANGED <<client, historyVars>>
    BY <1>7 DEF ObeyElection, RejectEdit, StartRelay, Restart, ChangeMaster
  <2> QED
    BY <1>1, <2>1, InvisibleStep
<1> QED
  BY <1>2, <1>3, <1>4, <1>5, <1>6, <1>7 DEF Server

LEMMA StepServes ==
    ASSUME IInv, [Next]_vars
    PROVE  [Service!Next]_(Service!Service)
<1>1. ASSUME NEW kind \in Kinds, GiveCommand(kind)
      PROVE  Service!Next
  BY <1>1, GiveServes
<1>2. ASSUME NEW p \in Peer, Server(p) \/ Crash(p) \/ Restart(p) \/ ChangeMaster(p)
      PROVE  [Service!Next]_(Service!Service)
  BY <1>2, ApplyServes, OthersInvisible
<1>3. CASE UNCHANGED vars
  BY <1>3 DEF vars, historyVars, Service!Service, Told
<1> QED
  BY <1>1, <1>2, <1>3, ClientServes DEF Next

\* The request path keeps the promise of RequestService: a client's command is
\* applied at most once per sending, though maybe long after the client gave it up,
\* and the client is told that it was only if that command was.
THEOREM RequestsImplementService == Spec => ImplementsService
<1>1. Init => Service!Init
  <2> SUFFICES ASSUME Init
               PROVE  Service!Init
    OBVIOUS
  <2>1. client.pc = "prompt" /\ client.command = 0 /\ client.outcome = "none"
    BY DEF Init
  <2> QED
    BY <2>1 DEF Init, Told, Service!Init, Commands, Service!Commands
<1>2. IInv /\ [Next]_vars => [Service!Next]_(Service!Service)
  BY StepServes
<1> QED
  BY <1>1, <1>2, RequestInvariant, PTL DEF Spec, ImplementsService, Service!Spec

=============================================================================
