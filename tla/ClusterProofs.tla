---------------------------- MODULE ClusterProofs ----------------------------
(***************************************************************************)
(* Proofs about Cluster, for any number of peers, changes of master and    *)
(* crashes.  The inductive invariant says that                             *)
(*   - an event, wherever it is, carries an edit that was issued and a     *)
(*     sequent under which that was applied or announced (Good);           *)
(*   - a log is closed under predecessors and holds lastSequent (LogOK);   *)
(*   - an edit waits for its multicast at one peer only, in whose log      *)
(*     there is something, and has not been announced yet (PendingOK).     *)
(***************************************************************************)
EXTENDS Cluster, ReplicaProofs

-----------------------------------------------------------------------------
(* The inductive invariant.                                                *)

Issue == [by : Peer, type : {"APND", "DELT"}, sequent : Nat, announced : Int]

GoodEvent(e) ==
    LET n == Number(e.edit)
    IN  /\ e.sequent \in Nat
        /\ n \in DOMAIN issued
        /\ e.sequent = issued[n].sequent \/ e.sequent = issued[n].announced

Good == {e \in Event : GoodEvent(e)}

\* Messages about events of E, and the tasks of replay threads.
About(E) ==
    [type : {"event"}, from : Peer, event : E]
        \cup [type : {"replay"}, from : Peer, sequent : Nat]
Task == [to : Peer \cup {Nobody}, of : (SUBSET Nat) \ {{}}]

\* What holds of the replicas when all their events are in E.
ReplicasOK(E) ==
    /\ ReplicaTypes(E)
    /\ \A p \in Peer :
        /\ LogOK(log[p], last[p])
        /\ resume[p] # 0 => HasSequent(buffer[p], resume[p])

MessagesOK(E) == inbox \in [Peer -> Seq(About(E))]

ThreadsOK == threads \in [Peer -> Seq(Task)]

PendingOK ==
    /\ pending \in [Peer -> 0 .. Len(issued)]
    /\ \A p \in Peer : pending[p] # 0 =>
        /\ log[p] # <<>>
        /\ issued[pending[p]].announced = -1
        /\ \A q \in Peer : pending[q] = pending[p] => q = p

PeersOK ==
    /\ up \in [Peer -> BOOLEAN] /\ master \in [Peer -> Peer \cup {Nobody}]
    /\ \A p \in Peer : ~ up[p] => log[p] = <<>> /\ inbox[p] = <<>> /\ pending[p] = 0

IssuedOK == issued \in Seq(Issue) /\ Len(issued) <= MaxRequests

IInv ==
    /\ IssuedOK
    /\ ReplicasOK(Good)
    /\ MessagesOK(Good)
    /\ ThreadsOK
    /\ PendingOK
    /\ PeersOK

-----------------------------------------------------------------------------
(* What is good stays good.                                                *)

LEMMA GoodUnchanged ==
    ASSUME UNCHANGED issued
    PROVE  Good' = Good
BY DEF Good, GoodEvent

\* Whatever holds of the events of a set holds of those of a larger one.
LEMMA ReplicasWeaken ==
    ASSUME NEW S, NEW T \in SUBSET Event, S \subseteq T, ReplicasOK(S)
    PROVE  ReplicasOK(T)
BY SeqMonotone DEF ReplicasOK, ReplicaTypes

LEMMA MessagesWeaken ==
    ASSUME NEW S, NEW T, S \subseteq T, MessagesOK(S)
    PROVE  MessagesOK(T)
<1>1. About(S) \subseteq About(T)
  BY DEF About
<1> QED
  BY <1>1, SeqMonotone DEF MessagesOK

\* A new edit is entered behind those issued before.
LEMMA GoodAppend ==
    ASSUME IssuedOK, NEW r \in Issue, issued' = Append(issued, r)
    PROVE  Good \subseteq Good'
<1>1. /\ DOMAIN issued \subseteq DOMAIN issued'
      /\ \A n \in DOMAIN issued : issued'[n] = issued[n]
  BY AppendProperties DEF IssuedOK
<1> QED
  BY <1>1 DEF Good, GoodEvent

\* An edit not announced before is announced: no event bears its new number yet,
\* and none loses the old one.
LEMMA GoodAnnounce ==
    ASSUME IssuedOK, NEW n \in DOMAIN issued, NEW k \in Nat,
           issued[n].announced = -1,
           issued' = [issued EXCEPT ![n].announced = k]
    PROVE  /\ Good \subseteq Good'
           /\ IssuedOK'
           /\ Len(issued') = Len(issued)
           /\ \A i \in DOMAIN issued : i # n => issued'[i] = issued[i]
           /\ issued'[n].announced = k
<1> DEFINE r == [by |-> issued[n].by, type |-> issued[n].type,
                 sequent |-> issued[n].sequent, announced |-> k]
<1>1. /\ issued \in Seq(Issue) /\ issued[n] \in Issue
      /\ issued' = [issued EXCEPT ![n] = [issued[n] EXCEPT !.announced = k]]
  BY DEF IssuedOK
<1>2. /\ [issued[n] EXCEPT !.announced = k] = r
      /\ r \in Issue /\ r.sequent = issued[n].sequent /\ r.announced = k
  <2>1. PICK old \in Issue : old = issued[n]
    BY <1>1
  <2>2. [old EXCEPT !.announced = k]
          = [by |-> old.by, type |-> old.type, sequent |-> old.sequent, announced |-> k]
    BY DEF Issue
  <2>3. [by |-> old.by, type |-> old.type, sequent |-> old.sequent, announced |-> k] \in Issue
    BY DEF Issue
  <2> QED
    BY <2>1, <2>2, <2>3
<1> HIDE DEF r
<1>3. /\ issued' \in Seq(Issue) /\ Len(issued') = Len(issued)
      /\ DOMAIN issued' = DOMAIN issued
      /\ \A i \in DOMAIN issued : i # n => issued'[i] = issued[i]
      /\ issued'[n] = r
  BY <1>1, <1>2
<1>4. ASSUME NEW e \in Good PROVE e \in Good'
  <2>1. e \in Event /\ GoodEvent(e)
    BY DEF Good
  <2>2. GoodEvent(e)'
    <3>1. CASE Number(e.edit) = n
      <4>1. e.sequent = issued[n].sequent
        BY <2>1, <3>1 DEF GoodEvent
      <4> QED
        BY <1>2, <1>3, <2>1, <3>1, <4>1 DEF GoodEvent
    <3>2. CASE Number(e.edit) # n
      BY <1>3, <2>1, <3>2 DEF GoodEvent
    <3> QED
      BY <3>1, <3>2
  <2> QED
    BY <2>1, <2>2 DEF Good
<1> QED
  BY <1>2, <1>3, <1>4 DEF IssuedOK

-----------------------------------------------------------------------------
(* What the steps have in common.                                          *)

\* apply_event keeps all replicas in shape.
LEMMA ReplicasApply ==
    ASSUME NEW E \in SUBSET Event, \A e \in E : e.sequent \in Nat, ReplicasOK(E),
           NEW p \in Peer, NEW e \in E, ApplyEvent(p, e)
    PROVE  /\ ReplicasOK(E)'
           /\ \A q \in Peer \ {p} : log'[q] = log[q]
           /\ log[p] # <<>> => log'[p] # <<>>
<1>1. /\ ReplicaTypes(E) /\ LogOK(log[p], last[p]) /\ e.sequent \in Nat
      /\ log[p] \in Seq(E)
  BY DEF ReplicasOK, ReplicaTypes
<1>2. /\ ReplicaTypes(E)'
      /\ \A q \in Peer \ {p} : /\ log'[q] = log[q] /\ last'[q] = last[q]
                               /\ buffer'[q] = buffer[q] /\ resume'[q] = resume[q]
      /\ LogOK(log'[p], last'[p])
      /\ log'[p] = log[p] \/ log'[p] = Append(log[p], e)
      /\ resume'[p] # 0 => HasSequent(buffer'[p], resume'[p])
  BY <1>1, ApplyEventLocal
<1>3. ASSUME NEW q \in Peer
      PROVE  /\ LogOK(log'[q], last'[q])
             /\ resume'[q] # 0 => HasSequent(buffer'[q], resume'[q])
  BY <1>2 DEF ReplicasOK
<1>4. log[p] # <<>> => log'[p] # <<>>
  BY <1>1, <1>2, AppendProperties
<1> QED
  BY <1>2, <1>3, <1>4 DEF ReplicasOK

\* lastSequent of a replica that has logged something.
LEMMA LastIsNatural ==
    ASSUME NEW E \in SUBSET Event, \A e \in E : e.sequent \in Nat, ReplicasOK(E),
           NEW p \in Peer, log[p] # <<>>
    PROVE  last[p] \in Nat
<1>1. log[p] \in Seq(E) /\ HasSequent(log[p], last[p])
  BY DEF ReplicasOK, ReplicaTypes, LogOK, LastInLog
<1>2. PICK i \in DOMAIN log[p] : log[p][i].sequent = last[p]
  BY <1>1 DEF HasSequent
<1> QED
  BY <1>1, <1>2

LEMMA GoodTypes == Good \in SUBSET Event /\ \A e \in Good : e.sequent \in Nat
BY DEF Good, GoodEvent

\* Taking a message off a queue.
LEMMA ConsumeKeeps ==
    ASSUME NEW E, MessagesOK(E), NEW p \in Peer, inbox[p] # <<>>
    PROVE  /\ Consumed(p) \in [Peer -> Seq(About(E))]
           /\ \A q \in Peer \ {p} : Consumed(p)[q] = inbox[q]
           /\ Head(inbox[p]) \in About(E)
<1>1. inbox[p] \in Seq(About(E)) /\ inbox \in [Peer -> Seq(About(E))]
  BY DEF MessagesOK
<1>2. Tail(inbox[p]) \in Seq(About(E)) /\ Head(inbox[p]) \in About(E)
  BY <1>1, HeadTailProperties
<1> QED
  BY <1>1, <1>2 DEF Consumed

\* A message reaches a peer that runs, or nobody.
LEMMA DeliverKeeps ==
    ASSUME NEW M, NEW queues \in [Peer -> Seq(M)], NEW q \in Peer, NEW m \in M
    PROVE  /\ Deliver(queues, q, m) \in [Peer -> Seq(M)]
           /\ \A r \in Peer : ~ up[r] => Deliver(queues, q, m)[r] = queues[r]
<1>1. Append(queues[q], m) \in Seq(M)
  BY AppendProperties
<1> QED
  BY <1>1 DEF Deliver

\* The least of a thread's sequents.
LEMMA LeastIn ==
    ASSUME NEW S \in (SUBSET Nat) \ {{}}
    PROVE  (CHOOSE n \in S : \A k \in S : n <= k) \in S
BY NatSetMinimum

-----------------------------------------------------------------------------
(* The steps.                                                              *)

\* A step that leaves what is issued alone, seen peer by peer.
LEMMA SameIssued ==
    ASSUME IInv, UNCHANGED issued,
           ReplicasOK(Good)', MessagesOK(Good)', ThreadsOK', PeersOK',
           pending' \in [Peer -> Nat],
           \A p \in Peer : pending'[p] # 0 => pending'[p] = pending[p] /\ log'[p] # <<>>
    PROVE  IInv'
<1>1. PendingOK'
  BY DEF IInv, PendingOK
<1> QED
  BY <1>1 DEF IInv, IssuedOK

LEMMA ClientRequestStep ==
    ASSUME IInv, NEW p \in Peer, NEW type \in {"APND", "DELT"}, ClientRequest(p, type)
    PROVE  IInv'
<1> DEFINE n == Len(issued) + 1
           e == [sequent |-> last[p] + 1, edit |-> EditOf(type, n)]
           r == [by |-> p, type |-> type, sequent |-> last[p] + 1, announced |-> -1]
<1>1. /\ IssuedOK /\ ReplicasOK(Good) /\ MessagesOK(Good) /\ ThreadsOK
      /\ PendingOK /\ PeersOK
      /\ n \in 1 .. MaxRequests /\ Len(issued) \in Nat
      /\ last[p] + 1 \in Nat
  BY ConstantsAssumption DEF IInv, ClientRequest, IssuedOK, ReplicasOK, LogOK
<1>2. /\ r \in Issue /\ issued' = Append(issued, r)
  BY <1>1 DEF Issue, ClientRequest
<1>3. /\ issued' \in Seq(Issue) /\ Len(issued') = n
      /\ \A i \in DOMAIN issued : i \in DOMAIN issued' /\ issued'[i] = issued[i]
      /\ n \in DOMAIN issued' /\ issued'[n] = r
      /\ DOMAIN issued = 1 .. Len(issued)
  BY <1>1, <1>2, AppendProperties DEF IssuedOK
<1>4. Good \subseteq Good' /\ Good' \in SUBSET Event /\ \A x \in Good' : x.sequent \in Nat
  BY <1>1, <1>2, GoodAppend DEF Good, GoodEvent
<1>5. e \in Good'
  <2>1. e \in Event
    <3>1. EditOf(type, n) \in Edit
      BY <1>1, ConstantsAssumption
    <3> QED
      BY <1>1, <3>1 DEF Event
  <2>2. Number(e.edit) = n /\ e.sequent = r.sequent /\ e.sequent \in Nat
    BY <1>1 DEF EditOf, Number
  <2>3. PICK x : x = e
    OBVIOUS
  <2>4. GoodEvent(x)'
    BY <1>3, <2>2, <2>3 DEF GoodEvent
  <2>5. x \in Good'
    BY <2>1, <2>3, <2>4 DEF Good
  <2> QED
    BY <2>3, <2>5
<1>6. PICK G : G = Good'
  OBVIOUS
<1>7. ReplicasOK(G) /\ MessagesOK(G)
  BY <1>1, <1>4, <1>6, ReplicasWeaken, MessagesWeaken
<1>8. ApplyEvent(p, e)
  BY DEF ClientRequest
<1>9. /\ ReplicasOK(G)'
      /\ \A q \in Peer \ {p} : log'[q] = log[q]
      /\ \A q \in Peer : log[q] # <<>> => log'[q] # <<>>
  BY <1>4, <1>5, <1>6, <1>7, <1>8, ReplicasApply
<1>10. log'[p] # <<>>
  <2>1. log \in [Peer -> Seq(Good)]
    BY <1>1 DEF ReplicasOK, ReplicaTypes
  <2>2. PerformEvent(p, e) /\ e.edit.type # "VIEW"
    BY <1>1, <1>8 DEF ApplyEvent, BufferEvent, RefuseDelete, ClientRequest, EditOf
  <2>3. \/ log[p] # <<>> /\ log' = log
        \/ log' = [log EXCEPT ![p] = Append(log[p], e)]
    BY <2>2 DEF PerformEvent, PutInLog
  <2> QED
    BY <2>1, <2>3, AppendProperties
<1>11. MessagesOK(G)' /\ ThreadsOK'
  BY <1>1, <1>7 DEF ClientRequest, MessagesOK, ThreadsOK
<1>12. PendingOK'
  <2>1. pending \in [Peer -> 0 .. Len(issued)] /\ pending' = [pending EXCEPT ![p] = n]
    BY <1>1 DEF PendingOK, ClientRequest
  <2>2. pending' \in [Peer -> 0 .. Len(issued')]
    BY <1>1, <1>3, <2>1
  <2>3. ASSUME NEW q \in Peer, pending'[q] # 0
        PROVE  /\ log'[q] # <<>>
               /\ issued'[pending'[q]].announced = -1
               /\ \A t \in Peer : pending'[t] = pending'[q] => t = q
    <3>1. CASE q = p
      BY <1>1, <1>3, <1>10, <2>1, <3>1
    <3>2. CASE q # p
      <4>1. pending'[q] = pending[q] /\ pending[q] \in DOMAIN issued
        BY <1>1, <1>3, <2>1, <2>3, <3>2
      <4> QED
        BY <1>1, <1>3, <1>9, <2>1, <2>3, <3>2, <4>1 DEF PendingOK
    <3> QED
      BY <3>1, <3>2
  <2> QED
    BY <2>2, <2>3 DEF PendingOK
<1>13. PeersOK'
  BY <1>1, <1>9 DEF PeersOK, ClientRequest, Free, peerVars, PendingOK
<1>14. IssuedOK'
  BY <1>1, <1>3 DEF IssuedOK
<1>15. ReplicasOK(Good)' /\ MessagesOK(Good)'
  BY <1>6, <1>9, <1>11 DEF ReplicasOK, ReplicaTypes, MessagesOK
<1> QED
  BY <1>11, <1>12, <1>13, <1>14, <1>15 DEF IInv

LEMMA ResumeBufferedStep ==
    ASSUME IInv, NEW p \in Peer, ResumeBuffered(p)
    PROVE  IInv'
<1> DEFINE e == FindSequent(buffer[p], resume[p])
<1>1. /\ ReplicasOK(Good) /\ PeersOK /\ PendingOK /\ MessagesOK(Good) /\ ThreadsOK
      /\ buffer[p] \in Seq(Good) /\ resume[p] # 0 /\ up[p] /\ ApplyEvent(p, e)
  BY DEF IInv, ReplicasOK, ReplicaTypes, ResumeBuffered, Resume
<1>2. e \in Good
  BY <1>1, FindSequentFinds DEF ReplicasOK
<1>3. PICK G : G = Good
  OBVIOUS
<1>4. /\ ReplicasOK(G)'
      /\ \A q \in Peer \ {p} : log'[q] = log[q]
      /\ log[p] # <<>> => log'[p] # <<>>
  BY <1>1, <1>2, <1>3, GoodTypes, ReplicasApply
<1>5. Good' = Good /\ UNCHANGED <<issued, inbox, threads, pending, up, master>>
  BY GoodUnchanged DEF ResumeBuffered, peerVars
<1>6. ReplicasOK(Good)' /\ MessagesOK(Good)' /\ ThreadsOK'
  BY <1>1, <1>3, <1>4, <1>5 DEF ReplicasOK, ReplicaTypes, MessagesOK, ThreadsOK
<1>7. PeersOK'
  BY <1>1, <1>4, <1>5 DEF PeersOK
<1> QED
  BY <1>1, <1>4, <1>5, <1>6, <1>7, SameIssued DEF PendingOK

LEMMA MulticastStep ==
    ASSUME IInv, NEW p \in Peer, Multicast(p)
    PROVE  IInv'
<1> DEFINE e == [sequent |-> last[p], edit |-> EditOf(issued[pending[p]].type, pending[p])]
<1>1. /\ IssuedOK /\ ReplicasOK(Good) /\ MessagesOK(Good) /\ ThreadsOK
      /\ PendingOK /\ PeersOK /\ up[p]
  BY DEF IInv, Multicast
<1>2. PICK n : n = pending[p]
  OBVIOUS
<1>3. /\ n \in DOMAIN issued /\ n \in 1 .. MaxRequests
      /\ issued[n] \in Issue /\ issued[n].announced = -1
      /\ \A q \in Peer : pending[q] = n => q = p
      /\ last[p] \in Nat
  <2>1. /\ n \in 0 .. Len(issued) /\ n # 0 /\ log[p] # <<>>
        /\ issued \in Seq(Issue) /\ Len(issued) <= MaxRequests
    BY <1>1, <1>2 DEF PendingOK, Multicast, IssuedOK
  <2>2. last[p] \in Nat
    BY <1>1, <2>1, GoodTypes, LastIsNatural
  <2> QED
    BY <1>1, <1>2, <2>1, <2>2, ConstantsAssumption DEF PendingOK
<1>4. issued' = [issued EXCEPT ![n].announced = last[p]]
  BY <1>2 DEF Multicast
<1>5. /\ Good \subseteq Good'
      /\ IssuedOK'
      /\ Len(issued') = Len(issued)
      /\ \A i \in DOMAIN issued : i # n => issued'[i] = issued[i]
      /\ issued'[n].announced = last[p]
  BY <1>1, <1>3, <1>4, GoodAnnounce
<1>6. PICK x : x = e
  OBVIOUS
<1>7. x \in Good'
  <2>1. issued[n].type \in {"APND", "DELT"}
    BY <1>3 DEF Issue
  <2>2. EditOf(issued[n].type, n) \in Edit
    BY <1>3, <2>1, ConstantsAssumption
  <2>3. /\ x \in Event /\ x.sequent = last[p]
        /\ x.edit = EditOf(issued[n].type, n)
    BY <1>2, <1>3, <1>6, <2>2 DEF Event
  <2>4. Number(x.edit) = n
    BY <2>3 DEF EditOf, Number
  <2>5. n \in DOMAIN issued'
    BY <1>1, <1>3, <1>5 DEF IssuedOK
  <2>6. GoodEvent(x)'
    BY <1>3, <1>5, <2>3, <2>4, <2>5 DEF GoodEvent
  <2> QED
    BY <2>3, <2>6 DEF Good
<1>8. PICK G : G = Good'
  OBVIOUS
<1>9. G \in SUBSET Event /\ Good \subseteq G
  BY <1>5, <1>8 DEF Good
<1>10. ReplicasOK(G) /\ MessagesOK(G)
  BY <1>1, <1>9, ReplicasWeaken, MessagesWeaken
<1>11. inbox' \in [Peer -> Seq(About(G))]
       /\ \A q \in Peer : ~ up[q] => inbox'[q] = inbox[q]
  <2>1. EventMessage(p, x) \in About(G)
    BY <1>7, <1>8 DEF EventMessage, About
  <2>2. \A q \in Peer : /\ inbox[q] \in Seq(About(G))
                        /\ Append(inbox[q], EventMessage(p, x)) \in Seq(About(G))
    BY <1>10, <2>1, AppendProperties DEF MessagesOK
  <2>3. inbox' = [q \in Peer |-> IF q # p /\ up[q]
                                 THEN Append(inbox[q], EventMessage(p, x)) ELSE inbox[q]]
    BY <1>6 DEF Multicast
  <2> QED
    BY <2>2, <2>3
<1>12. ReplicasOK(Good)' /\ MessagesOK(Good)' /\ ThreadsOK'
  BY <1>1, <1>8, <1>10, <1>11
  DEF Multicast, replicaVars, ReplicasOK, ReplicaTypes, MessagesOK, ThreadsOK
<1>13. PendingOK'
  <2>1. /\ pending' = [pending EXCEPT ![p] = 0] /\ log' = log
        /\ pending \in [Peer -> 0 .. Len(issued)]
        /\ DOMAIN issued = 1 .. Len(issued)
        /\ Len(issued) \in Nat
    BY <1>1 DEF Multicast, replicaVars, PendingOK, IssuedOK
  <2>2. pending' \in [Peer -> 0 .. Len(issued')]
    BY <1>5, <2>1
  <2>3. ASSUME NEW q \in Peer, pending'[q] # 0
        PROVE  /\ log'[q] # <<>>
               /\ issued'[pending'[q]].announced = -1
               /\ \A t \in Peer : pending'[t] = pending'[q] => t = q
    <3>1. q # p /\ pending'[q] = pending[q] /\ pending[q] \in DOMAIN issued
      BY <2>1, <2>3
    <3>2. pending[q] # n
      BY <1>3, <3>1
    <3>3. issued'[pending[q]] = issued[pending[q]]
      BY <1>5, <3>1, <3>2
    <3> QED
      BY <1>1, <2>1, <2>3, <3>1, <3>3 DEF PendingOK
  <2> QED
    BY <2>2, <2>3 DEF PendingOK
<1>14. PeersOK'
  BY <1>1, <1>11 DEF PeersOK, Multicast, replicaVars, peerVars, PendingOK
<1> QED
  BY <1>5, <1>12, <1>13, <1>14 DEF IInv

\* A thread is started for what is missing, and keeps the master's name.
LEMMA RequestReplayKeeps ==
    ASSUME ThreadsOK, PeersOK, NEW p \in Peer, NEW e, RequestReplay(p, e)
    PROVE  ThreadsOK'
<1>1. CASE Missing(log[p], e.sequent) # {} /\ e.sequent > last[p] + 1
  <2>1. [to |-> master[p], of |-> Missing(log[p], e.sequent)] \in Task
    BY <1>1 DEF PeersOK, Task, Missing
  <2>2. Append(threads[p], [to |-> master[p], of |-> Missing(log[p], e.sequent)]) \in Seq(Task)
    BY <2>1, AppendProperties DEF ThreadsOK
  <2> QED
    BY <1>1, <2>2 DEF RequestReplay, ThreadsOK
<1>2. CASE ~ (Missing(log[p], e.sequent) # {} /\ e.sequent > last[p] + 1)
  BY <1>2 DEF RequestReplay, ThreadsOK
<1> QED
  BY <1>1, <1>2

LEMMA ReceiveEventStep ==
    ASSUME IInv, NEW p \in Peer, ReceiveEvent(p)
    PROVE  IInv'
<1> DEFINE m == Head(inbox[p])
<1>1. /\ ReplicasOK(Good) /\ MessagesOK(Good) /\ ThreadsOK /\ PendingOK /\ PeersOK
      /\ up[p] /\ inbox[p] # <<>> /\ m.type = "event"
      /\ RequestReplay(p, m.event) /\ ApplyEvent(p, m.event)
      /\ inbox' = Consumed(p)
  BY DEF IInv, ReceiveEvent, Receives, Free, FromMaster
<1>2. PICK G : G = Good
  OBVIOUS
<1>3. /\ Consumed(p) \in [Peer -> Seq(About(G))]
      /\ \A q \in Peer \ {p} : Consumed(p)[q] = inbox[q]
      /\ m \in About(G)
  BY <1>1, <1>2, ConsumeKeeps
<1>4. m.event \in G
  BY <1>1, <1>3 DEF About
<1>5. /\ ReplicasOK(G)'
      /\ \A q \in Peer \ {p} : log'[q] = log[q]
      /\ log[p] # <<>> => log'[p] # <<>>
  BY <1>1, <1>2, <1>4, GoodTypes, ReplicasApply
<1>6. Good' = Good /\ UNCHANGED <<issued, pending, up, master>>
  BY GoodUnchanged DEF ReceiveEvent, peerVars
<1>7. ReplicasOK(Good)' /\ MessagesOK(Good)'
  BY <1>1, <1>2, <1>3, <1>5, <1>6 DEF ReplicasOK, ReplicaTypes, MessagesOK
<1>8. ThreadsOK'
  BY <1>1, RequestReplayKeeps
<1>9. PeersOK'
  BY <1>1, <1>3, <1>5, <1>6 DEF PeersOK
<1> QED
  BY <1>1, <1>5, <1>6, <1>7, <1>8, <1>9, SameIssued DEF PendingOK

\* A step that takes a message off a queue, delivers one perhaps, and leaves the
\* replicas alone.
LEMMA QueuesOnly ==
    ASSUME IInv, UNCHANGED <<replicaVars, peerVars, pending, issued>>,
           MessagesOK(Good)', ThreadsOK',
           \A q \in Peer : ~ up[q] => inbox'[q] = <<>>
    PROVE  IInv'
<1>1. Good' = Good
  BY GoodUnchanged
<1>2. ReplicasOK(Good)'
  BY <1>1 DEF IInv, ReplicasOK, ReplicaTypes, replicaVars
<1>3. PeersOK' /\ PendingOK' /\ IssuedOK'
  BY DEF IInv, PeersOK, PendingOK, IssuedOK, replicaVars, peerVars
<1> QED
  BY <1>2, <1>3 DEF IInv

LEMMA IgnoreMessageStep ==
    ASSUME IInv, NEW p \in Peer, IgnoreMessage(p)
    PROVE  IInv'
<1>1. /\ MessagesOK(Good) /\ ThreadsOK /\ PeersOK
      /\ up[p] /\ inbox[p] # <<>> /\ inbox' = Consumed(p)
      /\ UNCHANGED <<replicaVars, peerVars, pending, issued, threads>>
  BY DEF IInv, IgnoreMessage, Receives, Free
<1>2. /\ Consumed(p) \in [Peer -> Seq(About(Good))]
      /\ \A q \in Peer \ {p} : Consumed(p)[q] = inbox[q]
  <2>1. PICK G : G = Good
    OBVIOUS
  <2> QED
    BY <1>1, <2>1, ConsumeKeeps
<1>3. MessagesOK(Good)' /\ ThreadsOK'
  BY <1>1, <1>2, GoodUnchanged DEF MessagesOK, ThreadsOK
<1> QED
  BY <1>1, <1>2, <1>3, QueuesOnly DEF PeersOK

LEMMA HandleReplayStep ==
    ASSUME IInv, NEW p \in Peer, HandleReplay(p)
    PROVE  IInv'
<1> DEFINE m == Head(inbox[p])
           answer == EventMessage(p, FindSequent(log[p], m.sequent))
<1>1. PICK G : G = Good
  OBVIOUS
<1>2. /\ ReplicasOK(G) /\ MessagesOK(G) /\ ThreadsOK /\ PeersOK
      /\ up[p] /\ inbox[p] # <<>> /\ m.type = "replay"
      /\ HasSequent(log[p], m.sequent)
      /\ inbox' = Deliver(Consumed(p), m.from, answer)
      /\ UNCHANGED <<replicaVars, peerVars, pending, issued, threads>>
  BY <1>1 DEF IInv, HandleReplay, Receives, Free
<1>3. /\ Consumed(p) \in [Peer -> Seq(About(G))]
      /\ \A q \in Peer \ {p} : Consumed(p)[q] = inbox[q]
      /\ m \in About(G)
  BY <1>2, ConsumeKeeps
<1>4. m.from \in Peer
  BY <1>2, <1>3 DEF About
<1>5. answer \in About(G)
  <2>1. log[p] \in Seq(G)
    BY <1>2 DEF ReplicasOK, ReplicaTypes
  <2>2. FindSequent(log[p], m.sequent) \in G
    BY <1>2, <2>1, FindSequentFinds
  <2> QED
    BY <2>2 DEF About, EventMessage
<1>6. /\ inbox' \in [Peer -> Seq(About(G))]
      /\ \A q \in Peer : ~ up[q] => inbox'[q] = Consumed(p)[q]
  <2>1. PICK queues \in [Peer -> Seq(About(G))] : queues = Consumed(p)
    BY <1>3
  <2>2. PICK a \in About(G) : a = answer
    BY <1>5
  <2>3. inbox' = Deliver(queues, m.from, a)
    BY <1>2, <2>1, <2>2
  <2> HIDE DEF m
  <2> QED
    BY <1>4, <2>1, <2>3, DeliverKeeps
<1>7. MessagesOK(Good)' /\ ThreadsOK'
  BY <1>1, <1>2, <1>6, GoodUnchanged DEF MessagesOK, ThreadsOK
<1> QED
  BY <1>2, <1>3, <1>6, <1>7, QueuesOnly DEF PeersOK

LEMMA SendReplayStep ==
    ASSUME IInv, NEW p \in Peer, SendReplay(p)
    PROVE  IInv'
<1>1. PICK G : G = Good
  OBVIOUS
<1>2. /\ MessagesOK(G) /\ ThreadsOK /\ PeersOK
      /\ inbox \in [Peer -> Seq(About(G))]
      /\ UNCHANGED <<replicaVars, peerVars, pending, issued>>
  BY <1>1 DEF IInv, SendReplay, MessagesOK
<1>3. PICK i \in DOMAIN threads[p] :
        LET thread == threads[p][i]
            n == CHOOSE n \in thread.of : \A k \in thread.of : n <= k
        IN  /\ inbox' = IF thread.to \in Peer
                        THEN Deliver(inbox, thread.to,
                                     [type |-> "replay", from |-> p, sequent |-> n])
                        ELSE inbox
            /\ threads' = [threads EXCEPT ![p] =
                 IF thread.of # {n} THEN [threads[p] EXCEPT ![i].of = thread.of \ {n}]
                                    ELSE RemoveAt(threads[p], i)]
  BY DEF SendReplay
<1> DEFINE thread == threads[p][i]
           n == CHOOSE n \in thread.of : \A k \in thread.of : n <= k
           request == [type |-> "replay", from |-> p, sequent |-> n]
<1>4. threads[p] \in Seq(Task) /\ thread \in Task
  BY <1>2, <1>3 DEF ThreadsOK
<1>5. n \in thread.of /\ n \in Nat
  <2>1. thread.of \in (SUBSET Nat) \ {{}}
    BY <1>4 DEF Task
  <2> HIDE DEF thread
  <2> QED
    BY <2>1, LeastIn
<1>6. /\ inbox' \in [Peer -> Seq(About(G))]
      /\ \A q \in Peer : ~ up[q] => inbox'[q] = inbox[q]
  <2>1. request \in About(G)
    BY <1>5 DEF About
  <2>2. CASE thread.to \in Peer
    <3>1. inbox' = Deliver(inbox, thread.to, request)
      BY <1>3, <2>2
    <3> HIDE DEF request, thread
    <3> QED
      BY <1>2, <2>1, <2>2, <3>1, DeliverKeeps
  <2>3. CASE thread.to \notin Peer
    BY <1>2, <1>3, <2>3
  <2> QED
    BY <2>2, <2>3
<1>7. ThreadsOK'
  <2>1. CASE thread.of # {n}
    <3> DEFINE rest == [to |-> thread.to, of |-> thread.of \ {n}]
    <3>1. [thread EXCEPT !.of = thread.of \ {n}] = rest /\ rest \in Task
      <4> HIDE DEF thread, n
      <4>1. /\ thread \in [to : Peer \cup {Nobody}, of : (SUBSET Nat) \ {{}}]
            /\ n \in thread.of /\ thread.of # {n}
        BY <1>4, <1>5, <2>1 DEF Task
      <4> QED
        BY <4>1 DEF Task
    <3>2. /\ [threads[p] EXCEPT ![i].of = thread.of \ {n}] = [threads[p] EXCEPT ![i] = rest]
          /\ [threads[p] EXCEPT ![i] = rest] \in Seq(Task)
      <4> HIDE DEF n, rest
      <4>1. [threads[p] EXCEPT ![i].of = thread.of \ {n}] = [threads[p] EXCEPT ![i] = rest]
        BY <3>1
      <4>2. [threads[p] EXCEPT ![i] = rest] \in Seq(Task)
        BY <1>3, <1>4, <3>1
      <4> QED
        BY <4>1, <4>2
    <3> QED
      BY <1>2, <1>3, <2>1, <3>1, <3>2 DEF ThreadsOK
  <2>2. CASE thread.of = {n}
    <3>1. RemoveAt(threads[p], i) \in Seq(Task)
      BY <1>3, <1>4, SubSeqProperties, ConcatProperties DEF RemoveAt
    <3> QED
      BY <1>2, <1>3, <2>2, <3>1 DEF ThreadsOK
  <2> QED
    BY <2>1, <2>2
<1>8. MessagesOK(Good)'
  BY <1>1, <1>2, <1>6, GoodUnchanged DEF MessagesOK
<1> QED
  BY <1>2, <1>6, <1>7, <1>8, QueuesOnly DEF PeersOK

LEMMA ChangeMasterStep ==
    ASSUME IInv, NEW p \in Peer, ChangeMaster(p)
    PROVE  IInv'
<1>1. /\ ReplicasOK(Good) /\ MessagesOK(Good) /\ ThreadsOK /\ PendingOK /\ PeersOK /\ IssuedOK
      /\ UNCHANGED <<document, log, last, buffer, resume, up, pending, inbox, threads, issued>>
  BY DEF IInv, ChangeMaster, replicaVars
<1>2. Good' = Good
  BY <1>1, GoodUnchanged
<1>3. ReplicasOK(Good)' /\ MessagesOK(Good)' /\ ThreadsOK'
  BY <1>1, <1>2 DEF ReplicasOK, ReplicaTypes, MessagesOK, ThreadsOK
<1>4. master' \in [Peer -> Peer \cup {Nobody}]
  BY <1>1 DEF ChangeMaster, PeersOK
<1> QED
  BY <1>1, <1>3, <1>4 DEF IInv, PendingOK, PeersOK, IssuedOK

LEMMA CrashStep ==
    ASSUME IInv, NEW p \in Peer, Crash(p)
    PROVE  IInv'
<1>1. /\ ReplicasOK(Good) /\ MessagesOK(Good) /\ ThreadsOK /\ PendingOK /\ PeersOK /\ IssuedOK
      /\ UNCHANGED issued
  BY DEF IInv, Crash
<1>2. PICK G : G = Good /\ G = Good'
  BY <1>1, GoodUnchanged
<1>3. /\ log' = [log EXCEPT ![p] = <<>>] /\ last' = [last EXCEPT ![p] = -1]
      /\ buffer' = [buffer EXCEPT ![p] = <<>>] /\ resume' = [resume EXCEPT ![p] = 0]
  BY DEF Crash, Forget
<1>4. ReplicasOK(G)'
  <2>1. /\ log \in [Peer -> Seq(G)] /\ buffer \in [Peer -> Seq(G)]
        /\ last \in [Peer -> Int] /\ resume \in [Peer -> Nat]
        /\ <<>> \in Seq(G)
    BY <1>1, <1>2 DEF ReplicasOK, ReplicaTypes
  <2>2. log' \in [Peer -> Seq(G)] /\ buffer' \in [Peer -> Seq(G)]
    BY <1>3, <2>1
  <2>3. last' \in [Peer -> Int] /\ resume' \in [Peer -> Nat]
    BY <1>3, <2>1
  <2>4. ASSUME NEW q \in Peer
        PROVE  /\ LogOK(log'[q], last'[q])
               /\ resume'[q] # 0 => HasSequent(buffer'[q], resume'[q])
    <3>1. CASE q = p
      <4>1. log'[q] = <<>> /\ last'[q] = -1 /\ resume'[q] = 0
        BY <1>3, <2>1, <3>1
      <4> QED
        BY <4>1 DEF LogOK, LastInLog, Closed, NoRepeat, InOrder
    <3>2. CASE q # p
      BY <1>1, <1>3, <2>1, <3>2 DEF ReplicasOK
    <3> QED
      BY <3>1, <3>2
  <2> QED
    BY <2>2, <2>3, <2>4 DEF ReplicasOK, ReplicaTypes
<1>5. ReplicasOK(Good)'
  BY <1>2, <1>4 DEF ReplicasOK, ReplicaTypes
<1>6. MessagesOK(Good)' /\ ThreadsOK'
  BY <1>1, <1>2 DEF Crash, MessagesOK, ThreadsOK
<1>7. PeersOK'
  BY <1>1, <1>2, <1>3 DEF Crash, PeersOK, ReplicasOK, ReplicaTypes, MessagesOK, PendingOK
<1>8. pending' \in [Peer -> Nat]
      /\ \A q \in Peer : pending'[q] # 0 => pending'[q] = pending[q] /\ log'[q] # <<>>
  <2>1. pending \in [Peer -> Nat] /\ pending' = [pending EXCEPT ![p] = 0]
    BY <1>1 DEF Crash, PendingOK, IssuedOK
  <2>2. ASSUME NEW q \in Peer, pending'[q] # 0
        PROVE  pending'[q] = pending[q] /\ log'[q] # <<>>
    <3>1. q # p /\ pending'[q] = pending[q]
      BY <2>1, <2>2
    <3>2. log'[q] = log[q]
      BY <1>1, <1>3, <3>1 DEF ReplicasOK, ReplicaTypes
    <3> QED
      BY <1>1, <2>2, <3>1, <3>2 DEF PendingOK
  <2> QED
    BY <2>1, <2>2
<1> QED
  BY <1>1, <1>5, <1>6, <1>7, <1>8, SameIssued

LEMMA RestartStep ==
    ASSUME IInv, NEW p \in Peer, Restart(p)
    PROVE  IInv'
<1>1. /\ ReplicasOK(Good) /\ MessagesOK(Good) /\ ThreadsOK /\ PendingOK /\ PeersOK /\ IssuedOK
      /\ UNCHANGED <<document, log, last, buffer, resume, master, pending, inbox, threads, issued>>
  BY DEF IInv, Restart, replicaVars
<1>2. Good' = Good
  BY <1>1, GoodUnchanged
<1>3. ReplicasOK(Good)' /\ MessagesOK(Good)' /\ ThreadsOK'
  BY <1>1, <1>2 DEF ReplicasOK, ReplicaTypes, MessagesOK, ThreadsOK
<1>4. PeersOK'
  BY <1>1 DEF Restart, PeersOK
<1> QED
  BY <1>1, <1>3, <1>4 DEF IInv, PendingOK, IssuedOK

-----------------------------------------------------------------------------
(* The theorems.                                                           *)

LEMMA InitHolds == Init => IInv
<1> SUFFICES ASSUME Init PROVE IInv
  OBVIOUS
<1>1. IssuedOK
  BY ConstantsAssumption DEF Init, IssuedOK
<1>2. ReplicasOK(Good)
  <2>1. PICK G : G = Good
    OBVIOUS
  <2>2. ReplicaTypes(G)
    BY DEF Init, ReplicaInit, ReplicaTypes
  <2>3. ASSUME NEW p \in Peer
        PROVE  /\ LogOK(log[p], last[p])
               /\ resume[p] # 0 => HasSequent(buffer[p], resume[p])
    BY DEF Init, ReplicaInit, LogOK, LastInLog, Closed, NoRepeat, InOrder
  <2> QED
    BY <2>1, <2>2, <2>3 DEF ReplicasOK
<1>3. MessagesOK(Good) /\ ThreadsOK
  BY DEF Init, MessagesOK, ThreadsOK
<1>4. PendingOK
  BY DEF Init, PendingOK
<1>5. PeersOK
  BY DEF Init, PeersOK
<1> QED
  BY <1>1, <1>2, <1>3, <1>4, <1>5 DEF IInv

LEMMA NextKeeps == IInv /\ [Next]_vars => IInv'
<1> SUFFICES ASSUME IInv, [Next]_vars PROVE IInv'
  OBVIOUS
<1>1. ASSUME NEW p \in Peer, NEW type \in {"APND", "DELT"}, ClientRequest(p, type)
      PROVE  IInv'
  BY <1>1, ClientRequestStep
<1>2. ASSUME NEW p \in Peer, Server(p) PROVE IInv'
  BY <1>2, ResumeBufferedStep, MulticastStep, ReceiveEventStep, IgnoreMessageStep,
     HandleReplayStep DEF Server
<1>3. ASSUME NEW p \in Peer, SendReplay(p) PROVE IInv'
  BY <1>3, SendReplayStep
<1>4. ASSUME NEW p \in Peer, ChangeMaster(p) PROVE IInv'
  BY <1>4, ChangeMasterStep
<1>5. ASSUME NEW p \in Peer, Crash(p) PROVE IInv'
  BY <1>5, CrashStep
<1>6. ASSUME NEW p \in Peer, Restart(p) PROVE IInv'
  BY <1>6, RestartStep
<1>7. CASE UNCHANGED vars
  <2>1. /\ UNCHANGED <<replicaVars, peerVars, pending, inbox, threads, issued>>
        /\ MessagesOK(Good) /\ ThreadsOK /\ PeersOK
    BY <1>7 DEF vars, IInv
  <2>2. MessagesOK(Good)' /\ ThreadsOK'
    BY <2>1, GoodUnchanged DEF MessagesOK, ThreadsOK
  <2> QED
    BY <2>1, <2>2, QueuesOnly DEF PeersOK
<1> QED
  BY <1>1, <1>2, <1>3, <1>4, <1>5, <1>6, <1>7 DEF Next

LEMMA IInvAlways == Spec => []IInv
BY InitHolds, NextKeeps, PTL DEF Spec

\* Types, and a peer that is down holds nothing, whatever happened before.
THEOREM TypeCorrect == Spec => []TypeOK
<1>1. IInv => TypeOK
  <2> SUFFICES ASSUME IInv PROVE TypeOK
    OBVIOUS
  <2>1. PendingOK /\ PeersOK /\ ThreadsOK /\ ReplicasOK(Good) /\ MessagesOK(Good)
    BY DEF IInv
  <2>2. About(Good) \subseteq Message
    BY GoodTypes DEF About, Message
  <2>3. ASSUME NEW p \in Peer
        PROVE  /\ \A i \in DOMAIN log[p] : log[p][i] \in Event
               /\ \A i \in DOMAIN inbox[p] : inbox[p][i] \in Message
               /\ \A i \in DOMAIN threads[p] : threads[p][i].of # {}
    <3>1. /\ log[p] \in Seq(Good) /\ inbox[p] \in Seq(About(Good))
          /\ threads[p] \in Seq(Task)
      BY <2>1 DEF ReplicasOK, ReplicaTypes, MessagesOK, ThreadsOK
    <3>2. \A i \in DOMAIN log[p] : log[p][i] \in Event
      BY <3>1, GoodTypes
    <3>3. \A i \in DOMAIN inbox[p] : inbox[p][i] \in Message
      BY <2>2, <3>1
    <3>4. \A i \in DOMAIN threads[p] : threads[p][i] \in Task
      BY <3>1
    <3>5. \A t \in Task : t.of # {}
      BY DEF Task
    <3> QED
      BY <3>2, <3>3, <3>4, <3>5
  <2> QED
    BY <2>1, <2>3 DEF TypeOK, PendingOK, PeersOK
<1> QED
  BY <1>1, IInvAlways, PTL

\* Whichever masters a replica had, its log has no holes (put_in_log).
THEOREM LogsHaveNoGaps == Spec => []NoGaps
<1>1. IInv => NoGaps
  BY DEF IInv, ReplicasOK, LogOK, Closed, NoGaps
<1> QED
  BY <1>1, IInvAlways, PTL

\* An edit is logged only under the sequent its master applied it under or the
\* one it announced it under, also when a later master replays it.
THEOREM EditsLoggedAsIssued == Spec => []LoggedAsIssued
<1>1. IInv => LoggedAsIssued
  <2> SUFFICES ASSUME IInv, NEW p \in Peer, NEW i \in DOMAIN log[p]
               PROVE  log[p][i].sequent \in {issued[Number(log[p][i].edit)].sequent,
                                             issued[Number(log[p][i].edit)].announced}
    BY DEF LoggedAsIssued
  <2>1. log[p] \in Seq(Good)
    BY DEF IInv, ReplicasOK, ReplicaTypes
  <2>2. log[p][i] \in Good
    BY <2>1
  <2> QED
    BY <2>2 DEF Good, GoodEvent
<1> QED
  BY <1>1, IInvAlways, PTL

-----------------------------------------------------------------------------
(* Documents and logs.                                                     *)

\* A step takes an event in at one peer, ends one process, or leaves every
\* document and log alone.
LEMMA NextIsReplicaStep ==
    ASSUME IInv, [Next]_vars
    PROVE  ReplicaStep(Event)
<1>1. /\ ReplicasOK(Good) /\ ReplicaTypes(Good) /\ IssuedOK /\ MessagesOK(Good)
      /\ Good \in SUBSET Event
  BY GoodTypes DEF IInv, ReplicasOK
<1>2. ASSUME NEW p \in Peer, NEW type \in {"APND", "DELT"}, ClientRequest(p, type)
      PROVE  ReplicaStep(Event)
  <2>1. PICK n : n = Len(issued) + 1
    OBVIOUS
  <2>2. PICK e : e = [sequent |-> last[p] + 1, edit |-> EditOf(type, n)]
    OBVIOUS
  <2>3. n \in 1 .. MaxRequests
    BY <1>1, <1>2, <2>1, ConstantsAssumption DEF IssuedOK, ClientRequest
  <2>4. EditOf(type, n) \in Edit
    BY <2>3, ConstantsAssumption
  <2>5. e \in Event
    BY <1>1, <2>2, <2>4 DEF Event, ReplicaTypes
  <2>6. ApplyEvent(p, e)
    BY <1>2, <2>1, <2>2 DEF ClientRequest
  <2> QED
    BY <2>5, <2>6 DEF ReplicaStep
<1>3. ASSUME NEW p \in Peer, ResumeBuffered(p) PROVE ReplicaStep(Event)
  <2>1. PICK e : e = FindSequent(buffer[p], resume[p])
    OBVIOUS
  <2>2. buffer[p] \in Seq(Good) /\ HasSequent(buffer[p], resume[p])
    BY <1>1, <1>3 DEF ReplicasOK, ReplicaTypes, ResumeBuffered, Resume
  <2>3. e \in Good /\ ApplyEvent(p, e)
    BY <1>3, <2>1, <2>2, FindSequentFinds DEF ResumeBuffered, Resume
  <2> QED
    BY <1>1, <2>3 DEF ReplicaStep
<1>4. ASSUME NEW p \in Peer, ReceiveEvent(p) PROVE ReplicaStep(Event)
  <2>1. PICK m : m = Head(inbox[p])
    OBVIOUS
  <2>2. inbox[p] # <<>> /\ m.type = "event" /\ ApplyEvent(p, m.event)
    BY <1>4, <2>1 DEF ReceiveEvent, Receives, FromMaster
  <2>3. m \in About(Good)
    BY <1>1, <2>1, <2>2, ConsumeKeeps
  <2>4. m.event \in Event
    BY <1>1, <2>2, <2>3 DEF About
  <2> QED
    BY <2>2, <2>4 DEF ReplicaStep
<1>5. ASSUME NEW p \in Peer, Crash(p) PROVE ReplicaStep(Event)
  BY <1>5 DEF Crash, ReplicaStep
<1>6. ASSUME UNCHANGED replicaVars PROVE ReplicaStep(Event)
  BY <1>6 DEF replicaVars, ReplicaStep
<1>7. ASSUME NEW p \in Peer, Server(p) PROVE ReplicaStep(Event)
  BY <1>3, <1>4, <1>6, <1>7 DEF Server, Multicast, IgnoreMessage, HandleReplay
<1>8. ASSUME NEW p \in Peer, SendReplay(p) \/ ChangeMaster(p) \/ Restart(p)
      PROVE  ReplicaStep(Event)
  BY <1>6, <1>8 DEF SendReplay, ChangeMaster, Restart
<1>9. CASE UNCHANGED vars
  BY <1>6, <1>9 DEF vars
<1> QED
  BY <1>2, <1>5, <1>7, <1>8, <1>9 DEF Next

\* Through every change of master, a document is what the logged events make of
\* an empty one: put_in_log never refuses an event apply_event has performed.
THEOREM DocumentsFollowLogs == Spec => []DocumentMatchesLog
<1>1. Init => DocumentsMade
  BY DocumentsMadeFirst DEF Init
<1>2. IInv /\ DocumentsMade /\ [Next]_vars => DocumentsMade'
  <2> SUFFICES ASSUME IInv, DocumentsMade, [Next]_vars PROVE DocumentsMade'
    OBVIOUS
  <2>1. log \in [Peer -> Seq(Good)] /\ \A p \in Peer : LastInLog(log[p], last[p])
    BY DEF IInv, ReplicasOK, ReplicaTypes, LogOK
  <2>2. Good \subseteq Event
    BY GoodTypes
  <2>3. log \in [Peer -> Seq(Event)]
    BY <2>1, <2>2, SeqMonotone
  <2>4. ReplicaStep(Event)
    BY NextIsReplicaStep
  <2> QED
    BY <2>1, <2>3, <2>4, StepKeepsDocuments
<1>3. DocumentsMade => DocumentMatchesLog
  BY DEF DocumentsMade, DocumentMatchesLog
<1> QED
  BY <1>1, <1>2, <1>3, IInvAlways, PTL DEF Spec

=============================================================================
