-------------------------- MODULE ReplicationProofs --------------------------
(***************************************************************************)
(* Proofs about Replication, for every set of peers, every set of edits,   *)
(* every radix and every bound.  The inductive invariant says that         *)
(*   - the master's log is numbered 0, 1, 2, ... without repeats           *)
(*     (MasterLog);                                                        *)
(*   - every event that is not a VIEW, wherever it is, is the one the      *)
(*     master logged under its sequent (InboxGenuine, ReplicaOK);          *)
(*   - a replica's log is closed under predecessors, holds lastSequent,    *)
(*     and is in order as long as nothing was applied twice (ReplicaOK).   *)
(* From it follows, at the end, that Replication implements                *)
(* ReplicatedDocument.                                                     *)
(***************************************************************************)
EXTENDS Replication, ReplicaProofs

-----------------------------------------------------------------------------
(* The inductive invariant.                                                *)

\* The event the master logged under the sequent of e, or a VIEW.
Logged(e) ==
    /\ e.sequent \in 0 .. Len(log[Master]) - 1
    /\ e = log[Master][e.sequent + 1]

Genuine(e) == e.edit.type # "VIEW" => Logged(e)

MasterLog ==
    /\ last[Master] = Len(log[Master]) - 1
    /\ \A i \in DOMAIN log[Master] : log[Master][i].sequent = i - 1
    /\ buffer[Master] = <<>>
    /\ resume[Master] = 0

ReplicaOK(p) ==
    /\ LogOK(log[p], last[p])
    /\ \A i \in DOMAIN log[p] : Logged(log[p][i])
    /\ \A i \in DOMAIN buffer[p] : Genuine(buffer[p][i])
    /\ resume[p] # 0 => HasSequent(buffer[p], resume[p])

InboxGenuine ==
    \A f \in Follower : \A i \in DOMAIN inbox[f] : Genuine(inbox[f][i])

IInv ==
    /\ TypeOK
    /\ MasterLog
    /\ \A p \in Peer : ReplicaOK(p)
    /\ InboxGenuine

-----------------------------------------------------------------------------
(* Facts about numbers, sequences and the operators of the model.          *)

\* Min, by which a replay thread picks its next request, is in its set.
LEMMA MinInSet ==
    ASSUME NEW S \in SUBSET Nat, S # {}
    PROVE  Min(S) \in S
BY NatSetMinimum DEF Min

(* apply_event on one replica.                                             *)

\* Deleting from the end, or appending, yields a document.
LEMMA NewDocumentType ==
    ASSUME NEW doc \in Seq(Char), NEW edit \in Edit
    PROVE  NewDocument(doc, edit) \in Seq(Char)
<1>1. edit.text \in Seq(Char) /\ edit.count \in Nat
  BY ConstantsAssumption
<1>2. doc \o edit.text \in Seq(Char)
  BY <1>1, ConcatProperties
<1>3. SubSeq(doc, 1, Len(doc) - edit.count) \in Seq(Char)
  <2>1. \A i \in 1 .. Len(doc) - edit.count : doc[i] \in Char
    BY <1>1
  <2>2. Len(doc) - edit.count \in Int
    BY <1>1
  <2> QED
    BY <2>1, <2>2, SubSeqProperties
<1> QED
  BY <1>2, <1>3 DEF NewDocument

LEMMA ApplyEventType ==
    ASSUME TypeOK, NEW p \in Peer, NEW e \in Event, e.sequent \in Nat, ApplyEvent(p, e)
    PROVE  /\ document' \in [Peer -> Seq(Char)]
           /\ log' \in [Peer -> Seq(Event)]
           /\ last' \in [Peer -> Int]
           /\ buffer' \in [Peer -> Seq(Event)]
           /\ resume' \in [Peer -> Nat]
<1>1. e.edit \in Edit
  BY DEF Event
<1>2. CASE BufferEvent(p, e)
  BY <1>2 DEF BufferEvent, TypeOK
<1>3. CASE RefuseDelete(p, e)
  BY <1>3 DEF RefuseDelete, TypeOK
<1>4. CASE PerformEvent(p, e)
  <2>1. resume' \in [Peer -> Nat] /\ buffer' \in [Peer -> Seq(Event)]
    BY <1>4 DEF PerformEvent, TypeOK
  <2>2. document' \in [Peer -> Seq(Char)]
    <3>1. NewDocument(document[p], e.edit) \in Seq(Char)
      BY <1>1, NewDocumentType DEF TypeOK
    <3> QED
      BY <1>4, <3>1 DEF PerformEvent, TypeOK
  <2>3. log' \in [Peer -> Seq(Event)] /\ last' \in [Peer -> Int]
    <3>1. CASE e.edit.type = "VIEW"
      BY <1>4, <3>1 DEF PerformEvent, TypeOK
    <3>2. CASE e.edit.type # "VIEW"
      <4>1. PutInLog(p, e)
        BY <1>4, <3>2 DEF PerformEvent
      <4>2. Append(log[p], e) \in Seq(Event) /\ e.sequent \in Int
        BY AppendProperties DEF TypeOK
      <4>3. \/ log' = log /\ last' = last
            \/ /\ log' = [log EXCEPT ![p] = Append(log[p], e)]
               /\ last' = [last EXCEPT ![p] = e.sequent]
        BY <4>1, PutInLogCases
      <4> QED
        BY <4>2, <4>3 DEF TypeOK
    <3> QED
      BY <3>1, <3>2
  <2> QED
    BY <2>1, <2>2, <2>3
<1> QED
  BY <1>2, <1>3, <1>4 DEF ApplyEvent

\* A follower that applies a genuine event stays in shape, and so do the others.
LEMMA FollowerApplies ==
    ASSUME IInv, NEW f \in Follower, NEW e \in Event, e.sequent \in Nat,
           Genuine(e), ApplyEvent(f, e)
    PROVE  /\ log'[Master] = log[Master]
           /\ MasterLog'
           /\ \A p \in Peer : ReplicaOK(p)'
<1>1. /\ f \in Peer /\ f # Master /\ Master \in Peer
      /\ TypeOK /\ LogOK(log[f], last[f])
      /\ Genuine(e) /\ e.sequent \in Nat
      /\ ReplicaTypes(Event)
  BY ConstantsAssumption DEF IInv, ReplicaOK, Follower, TypeOK, ReplicaTypes
<1>2. /\ \A q \in Peer \ {f} : /\ log'[q] = log[q] /\ last'[q] = last[q]
                               /\ buffer'[q] = buffer[q] /\ resume'[q] = resume[q]
      /\ LogOK(log'[f], last'[f])
      /\ \/ log'[f] = log[f]
         \/ log'[f] = Append(log[f], e) /\ e.edit.type # "VIEW"
      /\ buffer'[f] = buffer[f] \/ buffer'[f] = Append(buffer[f], e)
      /\ resume'[f] # 0 => HasSequent(buffer'[f], resume'[f])
  BY <1>1, ApplyEventLocal
<1>3. log'[Master] = log[Master] /\ MasterLog'
  BY <1>1, <1>2 DEF MasterLog, IInv
<1>4. ASSUME NEW q \in Peer \ {f} PROVE ReplicaOK(q)'
  BY <1>2, <1>3 DEF ReplicaOK, IInv, Logged, Genuine
<1>5. ReplicaOK(f)'
  <2>1. (\A i \in DOMAIN log[f] : Logged(log[f][i]))'
    <3>1. CASE log'[f] = log[f]
      <4>1. \A i \in DOMAIN log'[f] : Logged(log'[f][i])
        BY <1>1, <3>1 DEF IInv, ReplicaOK
      <4> QED
        BY <1>3, <4>1 DEF Logged
    <3>2. CASE log'[f] = Append(log[f], e) /\ Logged(e)
      <4>1. log[f] \in Seq(Event)
        BY <1>1 DEF TypeOK
      <4>2. \A i \in DOMAIN log'[f] : 
             log'[f][i] = e \/ (i \in DOMAIN log[f] /\ log'[f][i] = log[f][i])
        BY <3>2, <4>1, AppendProperties
      <4>3. \A i \in DOMAIN log[f] : Logged(log[f][i])
        BY <1>1 DEF IInv, ReplicaOK
      <4>4. \A i \in DOMAIN log'[f] : Logged(log'[f][i])
        BY <3>2, <4>2, <4>3
      <4> QED
        BY <1>3, <4>4 DEF Logged
    <3> QED
      BY <1>1, <1>2, <3>1, <3>2 DEF Genuine
  <2>2. (\A i \in DOMAIN buffer[f] : Genuine(buffer[f][i]))'
    <3>1. buffer[f] \in Seq(Event)
      BY <1>1 DEF TypeOK
    <3>2. \A i \in DOMAIN buffer'[f] :
             buffer'[f][i] = e \/ (i \in DOMAIN buffer[f] /\ buffer'[f][i] = buffer[f][i])
      BY <1>2, <3>1, AppendProperties
    <3>3. \A i \in DOMAIN buffer[f] : Genuine(buffer[f][i])
      BY <1>1 DEF IInv, ReplicaOK
    <3>4. \A i \in DOMAIN buffer'[f] : Genuine(buffer'[f][i])
      BY <1>1, <3>2, <3>3
    <3> QED
      BY <1>3, <3>4 DEF Logged, Genuine
  <2> QED
    BY <1>2, <2>1, <2>2 DEF ReplicaOK
<1> QED
  BY <1>3, <1>4, <1>5

-----------------------------------------------------------------------------
(* What the steps have in common.                                          *)

\* No replica is touched.
LEMMA ReplicasUnchanged ==
    ASSUME IInv, UNCHANGED replicaVars
    PROVE  /\ log'[Master] = log[Master]
           /\ MasterLog'
           /\ \A p \in Peer : ReplicaOK(p)'
BY DEF IInv, replicaVars, MasterLog, ReplicaOK, Logged, Genuine

\* Taking the head off an inbox leaves genuine events only.
LEMMA ConsumeGenuine ==
    ASSUME IInv, NEW f \in Follower, inbox[f] # <<>>, Consume(f),
           log'[Master] = log[Master]
    PROVE  InboxGenuine' /\ inbox' \in [Follower -> Seq(Event)]
<1>1. /\ inbox \in [Follower -> Seq(Event)]
      /\ \A g \in Follower : \A i \in DOMAIN inbox[g] : Genuine(inbox[g][i])
  BY DEF IInv, TypeOK, InboxGenuine
<1>2. /\ inbox' = [inbox EXCEPT ![f] = Tail(inbox[f])]
      /\ Tail(inbox[f]) \in Seq(Event)
      /\ \A i \in DOMAIN Tail(inbox[f]) :
           i + 1 \in DOMAIN inbox[f] /\ Tail(inbox[f])[i] = inbox[f][i + 1]
  BY <1>1, HeadTailProperties DEF Consume
<1>3. \A g \in Follower : \A i \in DOMAIN inbox'[g] : Genuine(inbox'[g][i])
  <2> SUFFICES ASSUME NEW g \in Follower, NEW i \in DOMAIN inbox'[g]
               PROVE  Genuine(inbox'[g][i])
    OBVIOUS
  <2>1. CASE g = f
    <3>1. i + 1 \in DOMAIN inbox[f] /\ inbox'[g][i] = inbox[f][i + 1]
      BY <1>1, <1>2, <2>1
    <3> QED
      BY <1>1, <3>1
  <2>2. CASE g # f
    <3>1. inbox'[g] = inbox[g]
      BY <1>1, <1>2, <2>2
    <3> QED
      BY <1>1, <3>1
  <2> QED
    BY <2>1, <2>2
<1>4. inbox' \in [Follower -> Seq(Event)]
  BY <1>1, <1>2
<1>5. InboxGenuine'
  BY <1>3 DEF InboxGenuine, Genuine, Logged
<1> QED
  BY <1>4, <1>5

\* The event at the head of an inbox.
LEMMA HeadGenuine ==
    ASSUME IInv, NEW f \in Follower, inbox[f] # <<>>
    PROVE  Head(inbox[f]) \in Event /\ Genuine(Head(inbox[f]))
<1>1. inbox[f] \in Seq(Event) /\ \A i \in DOMAIN inbox[f] : Genuine(inbox[f][i])
  BY DEF IInv, TypeOK, InboxGenuine
<1>2. Head(inbox[f]) = inbox[f][1] /\ 1 \in DOMAIN inbox[f]
  BY <1>1
<1> QED
  BY <1>1, <1>2

\* A replay thread is started with the sequents it has to ask for.
LEMMA RequestReplayType ==
    ASSUME TypeOK, NEW f \in Follower, NEW n, RequestReplay(f, n)
    PROVE  threads' \in [Follower -> Seq((SUBSET Nat) \ {{}})]
<1>1. Missing(log[f], n) \in SUBSET Nat
  BY DEF Missing
<1>2. threads[f] \in Seq((SUBSET Nat) \ {{}})
  BY DEF TypeOK
<1>3. CASE n > last[f] + 1 /\ Missing(log[f], n) # {}
  <2>1. Append(threads[f], Missing(log[f], n)) \in Seq((SUBSET Nat) \ {{}})
    BY <1>1, <1>2, <1>3, AppendProperties
  <2>2. threads' = [threads EXCEPT ![f] = Append(threads[f], Missing(log[f], n))]
    BY <1>3 DEF RequestReplay
  <2> QED
    BY <2>1, <2>2 DEF TypeOK
<1>4. CASE ~ (n > last[f] + 1 /\ Missing(log[f], n) # {})
  BY <1>4 DEF RequestReplay, TypeOK
<1> QED
  BY <1>3, <1>4

\* The end of a follower's process leaves an empty replica.
LEMMA StopKeepsIInv ==
    ASSUME IInv, NEW f \in Follower, NEW how \in {"down", "terminated"},
           Stop(f, how), UNCHANGED <<requests, edits>>,
           faults' \in 0 .. MaxFaults
    PROVE  IInv'
<1>1. f \in Peer /\ f # Master /\ Master \in Peer /\ TypeOK
  BY ConstantsAssumption DEF Follower, IInv
<1>2. TypeOK'
  <2>1. /\ <<>> \in Seq(Char) /\ <<>> \in Seq(Event)
        /\ <<>> \in Seq((SUBSET Nat) \ {{}})
    OBVIOUS
  <2>2. /\ document' \in [Peer -> Seq(Char)]
        /\ log' \in [Peer -> Seq(Event)]
    BY <1>1, <2>1, Zenon DEF TypeOK, Stop, Forget
  <2>3. /\ buffer' \in [Peer -> Seq(Event)]
        /\ last' \in [Peer -> Int] /\ resume' \in [Peer -> Nat]
    <3>1. /\ buffer' = [buffer EXCEPT ![f] = <<>>]
          /\ last' = [last EXCEPT ![f] = -1]
          /\ resume' = [resume EXCEPT ![f] = 0]
      BY DEF Stop, Forget
    <3>2. /\ buffer \in [Peer -> Seq(Event)]
          /\ last \in [Peer -> Int] /\ resume \in [Peer -> Nat]
      BY <1>1 DEF TypeOK
    <3>3. buffer' \in [Peer -> Seq(Event)]
      BY <2>1, <3>1, <3>2
    <3>4. last' \in [Peer -> Int]
      BY <1>1, <3>1, <3>2
    <3>5. resume' \in [Peer -> Nat]
      BY <3>1, <3>2
    <3> QED
      BY <3>3, <3>4, <3>5
  <2>4. /\ status' \in [Follower -> {"up", "down", "terminated"}]
        /\ follows' \in [Follower -> BOOLEAN]
    BY <1>1 DEF TypeOK, Stop, Forget
  <2>5. /\ inbox' \in [Follower -> Seq(Event)]
        /\ threads' \in [Follower -> Seq((SUBSET Nat) \ {{}})]
    BY <1>1, <2>1 DEF TypeOK, Stop, Forget
  <2> QED
    BY <1>1, <2>2, <2>3, <2>4, <2>5 DEF TypeOK
<1>3. \A q \in Peer \ {f} : /\ log'[q] = log[q] /\ last'[q] = last[q]
                            /\ buffer'[q] = buffer[q] /\ resume'[q] = resume[q]
  BY <1>1 DEF TypeOK, Stop, Forget
<1>4. MasterLog' /\ log'[Master] = log[Master]
  BY <1>1, <1>3 DEF IInv, MasterLog
<1>5. ASSUME NEW q \in Peer \ {f} PROVE ReplicaOK(q)'
  BY <1>3, <1>4, <1>5 DEF IInv, ReplicaOK, Logged, Genuine
<1>6. ReplicaOK(f)'
  <2>1. log'[f] = <<>> /\ last'[f] = -1 /\ buffer'[f] = <<>> /\ resume'[f] = 0
    BY <1>1 DEF TypeOK, Stop, Forget
  <2> QED
    BY <2>1 DEF ReplicaOK, LogOK, LastInLog, Closed, NoRepeat, InOrder
<1>7. InboxGenuine'
  <2>1. /\ inbox'[f] = <<>>
        /\ \A g \in Follower \ {f} : inbox'[g] = inbox[g]
    BY <1>1 DEF TypeOK, Stop, Forget
  <2> QED
    BY <2>1, <1>4 DEF IInv, InboxGenuine, Genuine, Logged
<1> QED
  BY <1>2, <1>4, <1>5, <1>6, <1>7 DEF IInv

-----------------------------------------------------------------------------
(* The steps of the master.                                                *)

\* The master's log only grows, so what was logged stays logged; the edit it
\* accepts is logged and multicast under the same sequent.
LEMMA ClientRequestStep ==
    ASSUME IInv, NEW edit \in Edit, ClientRequest(edit)
    PROVE  IInv'
<1> DEFINE e == [sequent |-> last[Master] + 1, edit |-> edit]
           sent == [sequent |-> last'[Master], edit |-> edit]
           LoggedNext(x) == /\ x.sequent \in 0 .. Len(log'[Master]) - 1
                            /\ x = log'[Master][x.sequent + 1]
           GenuineNext(x) == x.edit.type # "VIEW" => LoggedNext(x)
<1>1. Master \in Peer /\ TypeOK /\ MasterLog /\ LogOK(log[Master], last[Master])
  BY ConstantsAssumption DEF IInv, ReplicaOK
<1>2. /\ log[Master] \in Seq(Event) /\ Len(log[Master]) \in Nat
      /\ DOMAIN log[Master] = 1 .. Len(log[Master])
      /\ last[Master] = Len(log[Master]) - 1
  BY <1>1 DEF TypeOK, MasterLog
<1>3. e \in Event /\ e.sequent = last[Master] + 1 /\ e.edit = edit /\ e.sequent \in Nat
  BY <1>2 DEF Event
<1>4. ApplyEvent(Master, e)
  BY DEF ClientRequest
<1>5. PerformEvent(Master, e)
  BY <1>3, <1>4 DEF ApplyEvent, BufferEvent, RefuseDelete, ClientRequest
<1>6. /\ \A q \in Peer \ {Master} : /\ log'[q] = log[q] /\ last'[q] = last[q]
                                    /\ buffer'[q] = buffer[q] /\ resume'[q] = resume[q]
      /\ LogOK(log'[Master], last'[Master])
      /\ buffer'[Master] = <<>>
      /\ resume'[Master] = 0
  <2>1. /\ \A q \in Peer \ {Master} : /\ log'[q] = log[q] /\ last'[q] = last[q]
                                      /\ buffer'[q] = buffer[q] /\ resume'[q] = resume[q]
        /\ LogOK(log'[Master], last'[Master])
    <3>1. ReplicaTypes(Event)
      BY <1>1 DEF TypeOK, ReplicaTypes
    <3> HIDE DEF e
    <3> QED
      BY <1>1, <1>3, <1>4, <3>1, ApplyEventLocal
  <2>2. buffer'[Master] = <<>> /\ resume'[Master] = 0
    BY <1>1, <1>5 DEF PerformEvent, TypeOK, MasterLog, HasSequent
  <2> QED
    BY <2>1, <2>2
<1>7. \/ edit.type = "VIEW" /\ log' = log /\ last' = last
      \/ /\ log'[Master] = Append(log[Master], e)
         /\ last'[Master] = last[Master] + 1
  <2>1. CASE edit.type = "VIEW"
    BY <1>3, <1>5, <2>1 DEF PerformEvent
  <2>2. CASE edit.type # "VIEW"
    <3>1. PutInLog(Master, e)
      BY <1>3, <1>5, <2>2 DEF PerformEvent
    <3>2. log[Master] = <<>> \/ HasSequent(log[Master], last[Master])
      BY <1>1 DEF LogOK, LastInLog
    <3> QED
      BY <1>1, <1>3, <3>1, <3>2 DEF PutInLog, TypeOK
  <2> QED
    BY <2>1, <2>2
<1>8. /\ Len(log'[Master]) >= Len(log[Master])
      /\ \A i \in DOMAIN log[Master] : log'[Master][i] = log[Master][i]
      /\ log'[Master] \in Seq(Event)
      /\ edit.type # "VIEW" => /\ Len(log'[Master]) = Len(log[Master]) + 1
                               /\ log'[Master][Len(log[Master]) + 1] = e
      /\ last'[Master] = Len(log'[Master]) - 1
      /\ \A i \in DOMAIN log'[Master] : log'[Master][i].sequent = i - 1
  <2>1. CASE edit.type = "VIEW" /\ log' = log /\ last' = last
    BY <1>1, <1>2, <2>1 DEF MasterLog
  <2>2. CASE /\ log'[Master] = Append(log[Master], e)
             /\ last'[Master] = last[Master] + 1
    <3>1. /\ log'[Master] \in Seq(Event)
          /\ Len(log'[Master]) = Len(log[Master]) + 1
          /\ \A i \in 1 .. Len(log[Master]) : log'[Master][i] = log[Master][i]
          /\ log'[Master][Len(log[Master]) + 1] = e
      BY <1>2, <1>3, <2>2, AppendProperties
    <3>2. DOMAIN log'[Master] = 1 .. Len(log[Master]) + 1
      BY <3>1, <1>2
    <3> QED
      BY <1>1, <1>2, <1>3, <2>2, <3>1, <3>2 DEF MasterLog
  <2> QED
    BY <1>7, <2>1, <2>2
<1>9. MasterLog'
  BY <1>6, <1>8 DEF MasterLog
<1>10. ASSUME NEW x \in Event
       PROVE  (Logged(x) => LoggedNext(x)) /\ (Genuine(x) => GenuineNext(x))
  <2> SUFFICES ASSUME Logged(x) PROVE LoggedNext(x)
    BY DEF Genuine
  <2>1. /\ x.sequent \in 0 .. Len(log[Master]) - 1
        /\ x = log[Master][x.sequent + 1]
    BY DEF Logged
  <2>2. x.sequent + 1 \in DOMAIN log[Master]
    BY <1>2, <2>1
  <2>3. Len(log'[Master]) \in Nat
    BY <1>8
  <2> QED
    BY <1>2, <1>8, <2>1, <2>2, <2>3
<1>11. ASSUME NEW q \in Peer \ {Master} PROVE ReplicaOK(q)'
  <2>1. /\ log[q] \in Seq(Event) /\ buffer[q] \in Seq(Event) /\ ReplicaOK(q)
        /\ log'[q] = log[q] /\ buffer'[q] = buffer[q]
        /\ last'[q] = last[q] /\ resume'[q] = resume[q]
    BY <1>1, <1>6, <1>11 DEF TypeOK, IInv
  <2>2. ASSUME NEW i \in DOMAIN log[q] PROVE LoggedNext(log[q][i])
    <3>1. log[q][i] \in Event /\ Logged(log[q][i])
      BY <2>1 DEF ReplicaOK
    <3> QED
      BY <3>1, <1>10
  <2>3. ASSUME NEW i \in DOMAIN buffer[q] PROVE GenuineNext(buffer[q][i])
    <3>1. buffer[q][i] \in Event /\ Genuine(buffer[q][i])
      BY <2>1 DEF ReplicaOK
    <3> QED
      BY <3>1, <1>10
  <2>4. (\A i \in DOMAIN log[q] : Logged(log[q][i]))'
    BY <2>1, <2>2 DEF Logged
  <2>5. (\A i \in DOMAIN buffer[q] : Genuine(buffer[q][i]))'
    BY <2>1, <2>3 DEF Genuine, Logged
  <2> QED
    BY <2>1, <2>4, <2>5 DEF ReplicaOK
<1>12. ReplicaOK(Master)'
  <2>1. (\A i \in DOMAIN log[Master] : Logged(log[Master][i]))'
    BY <1>8 DEF Logged
  <2> QED
    BY <1>6, <2>1 DEF ReplicaOK
<1>13. sent \in Event /\ GenuineNext(sent)
  <2>1. sent \in Event
    BY <1>2, <1>7 DEF Event
  <2>2. CASE edit.type = "VIEW"
    BY <2>1, <2>2
  <2>3. CASE edit.type # "VIEW"
    <3>1. sent = e /\ sent.sequent = Len(log[Master])
      BY <1>2, <1>7, <2>3
    <3> QED
      BY <1>2, <1>8, <2>1, <2>3, <3>1
  <2> QED
    BY <2>2, <2>3
<1>14. inbox' \in [Follower -> Seq(Event)] /\ InboxGenuine'
  <2>1. inbox' = [f \in Follower |-> Deliver(f, inbox[f], sent)]
    BY DEF ClientRequest
  <2>2. ASSUME NEW f \in Follower
        PROVE  /\ inbox'[f] \in Seq(Event)
               /\ \A i \in DOMAIN inbox'[f] : GenuineNext(inbox'[f][i])
    <3>1. inbox[f] \in Seq(Event) /\ \A i \in DOMAIN inbox[f] : Genuine(inbox[f][i])
      BY <1>1 DEF IInv, TypeOK, InboxGenuine
    <3>2. ASSUME NEW i \in DOMAIN inbox[f] PROVE GenuineNext(inbox[f][i])
      <4>1. inbox[f][i] \in Event
        BY <3>1
      <4> QED
        BY <1>10, <3>1, <4>1
    <3> HIDE DEF GenuineNext
    <3>3. CASE inbox'[f] = inbox[f]
      BY <3>1, <3>2, <3>3
    <3>4. CASE inbox'[f] = Append(inbox[f], sent)
      <4>1. /\ inbox'[f] \in Seq(Event)
            /\ \A i \in DOMAIN inbox'[f] :
                 inbox'[f][i] = sent \/ (i \in DOMAIN inbox[f] /\ inbox'[f][i] = inbox[f][i])
        BY <1>13, <3>1, <3>4, AppendProperties
      <4> QED
        BY <1>13, <3>2, <4>1
    <3> QED
      BY <2>1, <3>3, <3>4 DEF Deliver
  <2>3. InboxGenuine'
    BY <2>2 DEF InboxGenuine, Genuine, Logged
  <2> QED
    BY <2>1, <2>2, <2>3
<1>15. TypeOK'
  <2>1. /\ document' \in [Peer -> Seq(Char)] /\ log' \in [Peer -> Seq(Event)]
        /\ last' \in [Peer -> Int] /\ buffer' \in [Peer -> Seq(Event)]
        /\ resume' \in [Peer -> Nat]
    BY <1>1, <1>3, <1>4, ApplyEventType
  <2>2. edits' \in 0 .. MaxRequests
    BY <1>1, ConstantsAssumption DEF ClientRequest, TypeOK
  <2> QED
    BY <1>1, <1>14, <2>1, <2>2 DEF ClientRequest, TypeOK, followerVars
<1> QED
  BY <1>9, <1>11, <1>12, <1>14, <1>15 DEF IInv

\* A replay sends what the log holds, so it is genuine.
LEMMA HandleReplayStep ==
    ASSUME IInv, HandleReplay
    PROVE  IInv'
<1> DEFINE r == Head(requests)
           found == FindSequent(log[Master], r.sequent)
<1>1. /\ Master \in Peer /\ TypeOK /\ MasterLog
      /\ log[Master] \in Seq(Event) /\ inbox \in [Follower -> Seq(Event)]
      /\ requests \in Seq([sequent : Nat, from : Follower]) /\ requests # <<>>
  BY ConstantsAssumption DEF IInv, TypeOK, HandleReplay
<1>2. /\ r \in [sequent : Nat, from : Follower]
      /\ Tail(requests) \in Seq([sequent : Nat, from : Follower])
  BY <1>1, HeadTailProperties
<1>3. /\ log'[Master] = log[Master] /\ MasterLog' /\ \A p \in Peer : ReplicaOK(p)'
  BY ReplicasUnchanged DEF HandleReplay
<1>4. ASSUME HasSequent(log[Master], r.sequent) PROVE found \in Event /\ Genuine(found)
  <2>1. /\ found \in Event /\ found.sequent = r.sequent
        /\ \E i \in DOMAIN log[Master] : found = log[Master][i]
    BY <1>1, <1>2, <1>4, FindSequentFinds
  <2>2. PICK i \in DOMAIN log[Master] : found = log[Master][i]
    BY <2>1
  <2>3. found.sequent = i - 1
    BY <1>1, <2>2 DEF MasterLog
  <2>4. DOMAIN log[Master] = 1 .. Len(log[Master]) /\ Len(log[Master]) \in Nat
    BY <1>1
  <2> HIDE DEF found
  <2> QED
    BY <2>1, <2>2, <2>3, <2>4 DEF Genuine, Logged
<1>5. \/ inbox' = inbox
      \/ /\ HasSequent(log[Master], r.sequent)
         /\ inbox' = [inbox EXCEPT ![r.from] = Append(inbox[r.from], found)]
  BY <1>1, <1>2 DEF HandleReplay, Deliver
<1>6. /\ inbox' \in [Follower -> Seq(Event)]
      /\ \A f \in Follower : \A i \in DOMAIN inbox'[f] : Genuine(inbox'[f][i])
  <2>1. CASE inbox' = inbox
    BY <1>1, <2>1 DEF IInv, InboxGenuine
  <2>2. CASE /\ HasSequent(log[Master], r.sequent)
             /\ inbox' = [inbox EXCEPT ![r.from] = Append(inbox[r.from], found)]
    <3>1. found \in Event /\ Genuine(found) /\ r.from \in Follower
      BY <1>2, <1>4, <2>2
    <3> HIDE DEF found, r
    <3>2. inbox' \in [Follower -> Seq(Event)]
      BY <1>1, <2>2, <3>1, AppendProperties
    <3>3. ASSUME NEW f \in Follower, NEW i \in DOMAIN inbox'[f]
          PROVE  inbox'[f][i] = found \/ (i \in DOMAIN inbox[f] /\ inbox'[f][i] = inbox[f][i])
      <4>1. CASE f = r.from
        BY <1>1, <2>2, <3>1, <3>3, <4>1, AppendProperties
      <4>2. CASE f # r.from
        BY <1>1, <2>2, <3>1, <3>3, <4>2
      <4> QED
        BY <4>1, <4>2
    <3> QED
      BY <3>1, <3>2, <3>3 DEF IInv, InboxGenuine
  <2> QED
    BY <1>5, <2>1, <2>2
<1>7. InboxGenuine'
  BY <1>3, <1>6 DEF InboxGenuine, Genuine, Logged
<1>8. TypeOK'
  BY <1>1, <1>2, <1>6 DEF TypeOK, HandleReplay, replicaVars, followerVars
<1> QED
  BY <1>3, <1>7, <1>8 DEF IInv

-----------------------------------------------------------------------------
(* The steps of a follower.                                                *)

LEMMA ApplyBufferedStep ==
    ASSUME IInv, NEW f \in Follower, ApplyBuffered(f)
    PROVE  IInv'
<1> DEFINE e == FindSequent(buffer[f], resume[f])
<1>1. f \in Peer /\ TypeOK /\ ReplicaOK(f) /\ resume[f] \in Nat /\ buffer[f] \in Seq(Event)
  BY DEF Follower, IInv, TypeOK
<1>2. HasSequent(buffer[f], resume[f])
  BY <1>1 DEF ReplicaOK, ApplyBuffered, Resume
<1>3. /\ e \in Event /\ e.sequent = resume[f]
      /\ \E i \in DOMAIN buffer[f] : e = buffer[f][i]
  BY <1>1, <1>2, FindSequentFinds
<1> HIDE DEF e
<1>4. Genuine(e) /\ e.sequent \in Nat
  BY <1>1, <1>3 DEF ReplicaOK
<1>5. ApplyEvent(f, e)
  BY DEF ApplyBuffered, Resume, e
<1>6. log'[Master] = log[Master] /\ MasterLog' /\ \A p \in Peer : ReplicaOK(p)'
  BY <1>3, <1>4, <1>5, FollowerApplies
<1>7. /\ document' \in [Peer -> Seq(Char)] /\ log' \in [Peer -> Seq(Event)]
      /\ last' \in [Peer -> Int] /\ buffer' \in [Peer -> Seq(Event)]
      /\ resume' \in [Peer -> Nat]
  BY <1>1, <1>3, <1>4, <1>5, ApplyEventType
<1>8. TypeOK'
  BY <1>1, <1>7 DEF TypeOK, ApplyBuffered, followerVars
<1>9. InboxGenuine'
  BY <1>6 DEF IInv, InboxGenuine, Genuine, Logged, ApplyBuffered
<1> QED
  BY <1>6, <1>8, <1>9 DEF IInv

LEMMA ReceiveEventStep ==
    ASSUME IInv, NEW f \in Follower, inbox[f] # <<>>,
           ReceiveEvent(f, Head(inbox[f]))
    PROVE  IInv'
<1> DEFINE e == Head(inbox[f])
<1>1. f \in Peer /\ TypeOK
  BY DEF Follower, IInv
<1>2. e \in Event /\ Genuine(e)
  BY HeadGenuine
<1>3. e.sequent \in Nat
  BY DEF ReceiveEvent
<1> HIDE DEF e
<1>4. /\ ApplyEvent(f, e) /\ RequestReplay(f, e.sequent) /\ Consume(f)
      /\ UNCHANGED <<status, follows, requests, edits, faults>>
  BY DEF ReceiveEvent, e
<1>5. log'[Master] = log[Master] /\ MasterLog' /\ \A p \in Peer : ReplicaOK(p)'
  BY <1>2, <1>3, <1>4, FollowerApplies
<1>6. InboxGenuine' /\ inbox' \in [Follower -> Seq(Event)]
  BY <1>4, <1>5, ConsumeGenuine
<1>7. /\ document' \in [Peer -> Seq(Char)] /\ log' \in [Peer -> Seq(Event)]
      /\ last' \in [Peer -> Int] /\ buffer' \in [Peer -> Seq(Event)]
      /\ resume' \in [Peer -> Nat]
  BY <1>1, <1>2, <1>3, <1>4, ApplyEventType
<1>8. threads' \in [Follower -> Seq((SUBSET Nat) \ {{}})]
  BY <1>1, <1>4, RequestReplayType
<1>9. TypeOK'
  BY <1>1, <1>4, <1>6, <1>7, <1>8 DEF TypeOK
<1> QED
  BY <1>5, <1>6, <1>9 DEF IInv

\* RejectDuplicate, DropGarbled and IgnoreEvent take an event and apply nothing.
LEMMA DiscardStep ==
    ASSUME IInv, NEW f \in Follower, inbox[f] # <<>>, Consume(f),
           threads' \in [Follower -> Seq((SUBSET Nat) \ {{}})],
           UNCHANGED <<replicaVars, status, follows, requests, edits, faults>>
    PROVE  IInv'
<1>1. log'[Master] = log[Master] /\ MasterLog' /\ \A p \in Peer : ReplicaOK(p)'
  BY ReplicasUnchanged
<1>2. InboxGenuine' /\ inbox' \in [Follower -> Seq(Event)]
  BY <1>1, ConsumeGenuine
<1>3. TypeOK'
  BY <1>2 DEF IInv, TypeOK, replicaVars
<1> QED
  BY <1>1, <1>2, <1>3 DEF IInv

LEMMA SendReplayStep ==
    ASSUME IInv, NEW f \in Follower, SendReplay(f)
    PROVE  IInv'
<1> DEFINE LoggedSequents == (SUBSET Nat) \ {{}}
<1>1. TypeOK /\ threads[f] \in Seq(LoggedSequents)
  BY DEF IInv, TypeOK
<1>2. PICK i \in DOMAIN threads[f] :
        LET n == Min(threads[f][i])
            rest == threads[f][i] \ {n}
        IN  /\ requests' = Append(requests, [sequent |-> n, from |-> f])
            /\ threads' = [threads EXCEPT ![f] =
                 IF rest # {} THEN [@ EXCEPT ![i] = rest]
                 ELSE SubSeq(@, 1, i - 1) \o SubSeq(@, i + 1, Len(@))]
            /\ UNCHANGED <<replicaVars, status, follows, inbox, edits, faults>>
  BY DEF SendReplay
<1> DEFINE n == Min(threads[f][i])
           rest == threads[f][i] \ {n}
           without == SubSeq(threads[f], 1, i - 1) \o SubSeq(threads[f], i + 1, Len(threads[f]))
<1>3. threads[f][i] \in LoggedSequents /\ i \in 1 .. Len(threads[f]) /\ Len(threads[f]) \in Nat
  BY <1>1, <1>2
<1>4. n \in Nat
  <2>1. n \in threads[f][i]
    BY <1>3, MinInSet
  <2> QED
    BY <1>3, <2>1
<1>5. requests' \in Seq([sequent : Nat, from : Follower])
  <2>1. [sequent |-> n, from |-> f] \in [sequent : Nat, from : Follower]
    BY <1>4
  <2>2. requests' = Append(requests, [sequent |-> n, from |-> f])
    BY <1>2
  <2> QED
    BY <1>1, <2>1, <2>2, AppendProperties DEF TypeOK
<1>6. without \in Seq(LoggedSequents)
  <2>1. SubSeq(threads[f], 1, i - 1) \in Seq(LoggedSequents)
    <3>1. \A k \in 1 .. i - 1 : threads[f][k] \in LoggedSequents
      BY <1>1, <1>3
    <3>2. i - 1 \in Int /\ 1 \in Int
      BY <1>3
    <3> QED
      BY <3>1, <3>2, SubSeqProperties
  <2>2. SubSeq(threads[f], i + 1, Len(threads[f])) \in Seq(LoggedSequents)
    <3>1. \A k \in i + 1 .. Len(threads[f]) : threads[f][k] \in LoggedSequents
      BY <1>1, <1>3
    <3>2. i + 1 \in Int /\ Len(threads[f]) \in Int
      BY <1>3
    <3> QED
      BY <3>1, <3>2, SubSeqProperties
  <2> QED
    BY <2>1, <2>2, ConcatProperties
<1>7. [threads[f] EXCEPT ![i] = rest] \in Seq(LoggedSequents) \/ rest = {}
  <2>1. rest # {} => rest \in LoggedSequents
    BY <1>3
  <2> QED
    BY <1>1, <1>3, <2>1, ExceptSeq
<1>8. threads' \in [Follower -> Seq(LoggedSequents)]
  <2>1. \/ rest # {} /\ threads' = [threads EXCEPT ![f] = [threads[f] EXCEPT ![i] = rest]]
        \/ threads' = [threads EXCEPT ![f] = without]
    BY <1>2
  <2>2. threads \in [Follower -> Seq(LoggedSequents)]
    BY <1>1 DEF TypeOK
  <2> HIDE DEF rest, without, LoggedSequents
  <2> QED
    BY <1>6, <1>7, <2>1, <2>2
<1>9. /\ UNCHANGED <<replicaVars, status, follows, inbox, edits, faults>>
  BY <1>2
<1>10. log'[Master] = log[Master] /\ MasterLog' /\ \A p \in Peer : ReplicaOK(p)'
  BY <1>9, ReplicasUnchanged
<1>11. TypeOK'
  BY <1>1, <1>5, <1>8, <1>9 DEF TypeOK, replicaVars
<1>12. InboxGenuine'
  BY <1>9, <1>10 DEF IInv, InboxGenuine, Genuine, Logged
<1> QED
  BY <1>10, <1>11, <1>12 DEF IInv

\* Follow, StopFollowing and Restart change what a follower believes, not what
\* it has.
LEMMA BeliefStep ==
    ASSUME IInv, NEW f \in Follower,
           UNCHANGED <<replicaVars, threads, inbox, requests, edits>>,
           status' \in [Follower -> {"up", "down", "terminated"}],
           follows' \in [Follower -> BOOLEAN], faults' \in 0 .. MaxFaults
    PROVE  IInv'
<1>1. log'[Master] = log[Master] /\ MasterLog' /\ \A p \in Peer : ReplicaOK(p)'
  BY ReplicasUnchanged
<1>2. TypeOK'
  BY DEF IInv, TypeOK, replicaVars
<1>3. InboxGenuine'
  BY <1>1 DEF IInv, InboxGenuine, Genuine, Logged
<1> QED
  BY <1>1, <1>2, <1>3 DEF IInv

-----------------------------------------------------------------------------
(* The invariant is inductive.                                             *)

LEMMA InitIInv == Init => IInv
<1> SUFFICES ASSUME Init PROVE IInv
  OBVIOUS
<1>1. Master \in Peer
  BY ConstantsAssumption
<1>2. TypeOK
  BY ConstantsAssumption DEF Init, ReplicaInit, TypeOK
<1>3. MasterLog
  BY <1>1 DEF Init, ReplicaInit, MasterLog
<1>4. \A p \in Peer : ReplicaOK(p)
  BY DEF Init, ReplicaInit, ReplicaOK, LogOK, LastInLog, Closed, NoRepeat, InOrder
<1>5. InboxGenuine
  BY DEF Init, ReplicaInit, InboxGenuine
<1> QED
  BY <1>2, <1>3, <1>4, <1>5 DEF IInv

LEMMA NextIInv == IInv /\ [Next]_vars => IInv'
<1> SUFFICES ASSUME IInv, [Next]_vars PROVE IInv'
  OBVIOUS
<1>1. ASSUME NEW edit \in Edit, ClientRequest(edit) PROVE IInv'
  BY <1>1, ClientRequestStep
<1>2. CASE HandleReplay
  BY <1>2, HandleReplayStep
<1>3. ASSUME NEW f \in Follower, Server(f) PROVE IInv'
  <2>1. CASE ApplyBuffered(f)
    BY <2>1, ApplyBufferedStep
  <2>2. CASE IgnoreEvent(f)
    BY <2>2, DiscardStep DEF IgnoreEvent, Receives, followerVars, IInv, TypeOK
  <2>3. ASSUME inbox[f] # <<>>, ReceiveEvent(f, Head(inbox[f])) PROVE IInv'
    BY <2>3, ReceiveEventStep
  <2>4. ASSUME inbox[f] # <<>>, RejectDuplicate(f, Head(inbox[f])) PROVE IInv'
    BY <2>4, DiscardStep DEF RejectDuplicate, followerVars, IInv, TypeOK
  <2>5. ASSUME inbox[f] # <<>>, DropGarbled(f, Head(inbox[f])) PROVE IInv'
    <3>1. threads' \in [Follower -> Seq((SUBSET Nat) \ {{}})]
      BY <2>5, RequestReplayType DEF DropGarbled, IInv
    <3> QED
      BY <2>5, <3>1, DiscardStep DEF DropGarbled
  <2>6. ASSUME Terminate(f, Head(inbox[f])) PROVE IInv'
    <3>1. Stop(f, "terminated") /\ UNCHANGED <<requests, edits, faults>>
      BY <2>6 DEF Terminate
    <3>2. faults' \in 0 .. MaxFaults
      BY <3>1 DEF IInv, TypeOK
    <3> QED
      BY <3>1, <3>2, StopKeepsIInv
  <2> QED
    BY <1>3, <2>1, <2>2, <2>3, <2>4, <2>5, <2>6 DEF Server, Receives
<1>4. ASSUME NEW f \in Follower, SendReplay(f) PROVE IInv'
  BY <1>4, SendReplayStep
<1>5. ASSUME NEW f \in Follower, Follow(f) PROVE IInv'
  BY <1>5, BeliefStep DEF Follow, IInv, TypeOK
<1>6. ASSUME NEW f \in Follower, StopFollowing(f) PROVE IInv'
  <2>1. faults' \in 0 .. MaxFaults
    BY <1>6, ConstantsAssumption DEF StopFollowing, IInv, TypeOK
  <2> QED
    BY <1>6, <2>1, BeliefStep DEF StopFollowing, IInv, TypeOK
<1>7. ASSUME NEW f \in Follower, Crash(f) PROVE IInv'
  <2>1. faults' \in 0 .. MaxFaults
    BY <1>7, ConstantsAssumption DEF Crash, IInv, TypeOK
  <2> QED
    BY <1>7, <2>1, StopKeepsIInv DEF Crash
<1>8. ASSUME NEW f \in Follower, Restart(f) PROVE IInv'
  BY <1>8, BeliefStep DEF Restart, IInv, TypeOK
<1>9. CASE UNCHANGED vars
  <2>1. log'[Master] = log[Master] /\ MasterLog' /\ \A p \in Peer : ReplicaOK(p)'
    BY <1>9, ReplicasUnchanged DEF vars
  <2>2. TypeOK'
    BY <1>9 DEF IInv, TypeOK, vars, replicaVars, followerVars
  <2>3. InboxGenuine'
    BY <1>9, <2>1 DEF IInv, InboxGenuine, Genuine, Logged, vars
  <2> QED
    BY <2>1, <2>2, <2>3 DEF IInv
<1> QED
  BY <1>1, <1>2, <1>3, <1>4, <1>5, <1>6, <1>7, <1>8, <1>9 DEF Next

LEMMA SpecIInv == Spec => []IInv
BY InitIInv, NextIInv, PTL DEF Spec

-----------------------------------------------------------------------------
(* What the invariant gives.                                               *)

\* Every variable keeps its type: in particular lastSequent, the sequents asked
\* for and the resumed sequents stay numbers a log can hold.
THEOREM TypeCorrect == Spec => []TypeOK
<1>1. IInv => TypeOK
  BY DEF IInv
<1> QED
  BY <1>1, SpecIInv, PTL

\* Two logs never disagree on what is at a sequent: an event in a follower's log
\* is the one the master logged there, however it arrived.
THEOREM LogsNeverDisagree == Spec => []LogsAgree
<1>1. IInv => LogsAgree
  BY DEF IInv, ReplicaOK, Logged, LogsAgree, Follower
<1> QED
  BY <1>1, SpecIInv, PTL

\* A replica that logged a sequent has logged every lower one.
THEOREM LogsHaveNoGaps == Spec => []NoGaps
<1>1. IInv => NoGaps
  BY DEF IInv, ReplicaOK, LogOK, Closed, NoGaps
<1> QED
  BY <1>1, SpecIInv, PTL

\* A log in which nothing is repeated is a prefix of the master's log.
THEOREM WithoutRepeatsPrefix == Spec => []RepeatFreeIsPrefix
<1>1. ASSUME IInv, NEW f \in Follower, RepeatFree(f)
      PROVE  /\ Len(log[f]) <= Len(log[Master])
             /\ \A i \in DOMAIN log[f] : log[f][i] = log[Master][i]
  <2>1. /\ f \in Peer /\ Master \in Peer /\ TypeOK /\ ReplicaOK(f)
        /\ log[f] \in Seq(Event) /\ log[Master] \in Seq(Event)
    BY <1>1, ConstantsAssumption DEF IInv, Follower, TypeOK
  <2>2. InOrder(log[f], last[f])
    BY <1>1, <2>1 DEF ReplicaOK, LogOK, NoRepeat, RepeatFree
  <2>3. ASSUME NEW i \in DOMAIN log[f]
        PROVE  i <= Len(log[Master]) /\ log[f][i] = log[Master][i]
    <3>1. log[f][i].sequent = i - 1 /\ Logged(log[f][i]) /\ i \in Nat
      BY <2>1, <2>2, <2>3 DEF InOrder, ReplicaOK
    <3>2. Len(log[Master]) \in Nat
      BY <2>1
    <3> QED
      BY <3>1, <3>2 DEF Logged
  <2>4. Len(log[f]) <= Len(log[Master])
    <3>1. Len(log[f]) \in Nat /\ Len(log[Master]) \in Nat /\ DOMAIN log[f] = 1 .. Len(log[f])
      BY <2>1
    <3>2. CASE Len(log[f]) = 0
      BY <3>1, <3>2
    <3>3. CASE Len(log[f]) \in DOMAIN log[f]
      BY <2>3, <3>3
    <3> QED
      BY <3>1, <3>2, <3>3
  <2> QED
    BY <2>3, <2>4
<1>2. IInv => RepeatFreeIsPrefix
  BY <1>1 DEF RepeatFreeIsPrefix
<1> QED
  BY <1>2, SpecIInv, PTL

-----------------------------------------------------------------------------
(* Documents and logs.                                                     *)

\* A step takes an event in at one peer, ends one process, or leaves every
\* document and log alone.
LEMMA NextIsReplicaStep ==
    ASSUME IInv, [Next]_vars
    PROVE  ReplicaStep(Event)
<1>1. Master \in Peer /\ TypeOK /\ \A f \in Follower : f \in Peer
  BY ConstantsAssumption DEF IInv, Follower
<1>2. ASSUME NEW edit \in Edit, ClientRequest(edit) PROVE ReplicaStep(Event)
  <2>1. PICK e : e = [sequent |-> last[Master] + 1, edit |-> edit]
    OBVIOUS
  <2>2. e \in Event /\ ApplyEvent(Master, e)
    BY <1>1, <1>2, <2>1 DEF TypeOK, Event, ClientRequest
  <2> QED
    BY <1>1, <2>2 DEF ReplicaStep
<1>3. ASSUME NEW f \in Follower, ApplyBuffered(f) PROVE ReplicaStep(Event)
  <2>1. PICK e : e = FindSequent(buffer[f], resume[f])
    OBVIOUS
  <2>2. buffer[f] \in Seq(Event) /\ HasSequent(buffer[f], resume[f])
    BY <1>1, <1>3 DEF IInv, TypeOK, ReplicaOK, ApplyBuffered, Resume
  <2>3. e \in Event /\ ApplyEvent(f, e)
    BY <1>3, <2>1, <2>2, FindSequentFinds DEF ApplyBuffered, Resume
  <2> QED
    BY <1>1, <2>3 DEF ReplicaStep
<1>4. ASSUME NEW f \in Follower, inbox[f] # <<>>, ReceiveEvent(f, Head(inbox[f]))
      PROVE  ReplicaStep(Event)
  <2>1. Head(inbox[f]) \in Event
    BY <1>4, HeadGenuine
  <2> QED
    BY <1>1, <1>4, <2>1 DEF ReceiveEvent, ReplicaStep
<1>5. ASSUME NEW f \in Follower, NEW how, Stop(f, how) PROVE ReplicaStep(Event)
  BY <1>1, <1>5 DEF Stop, ReplicaStep
<1>6. ASSUME UNCHANGED replicaVars PROVE ReplicaStep(Event)
  BY <1>6 DEF replicaVars, ReplicaStep
<1>7. ASSUME NEW f \in Follower, Server(f) PROVE ReplicaStep(Event)
  BY <1>3, <1>4, <1>5, <1>6, <1>7
     DEF Server, Receives, IgnoreEvent, RejectDuplicate, DropGarbled, Terminate
<1>8. ASSUME NEW f \in Follower, SendReplay(f) PROVE ReplicaStep(Event)
  BY <1>6, <1>8 DEF SendReplay
<1>9. ASSUME NEW f \in Follower, Follow(f) \/ StopFollowing(f) \/ Restart(f)
      PROVE  ReplicaStep(Event)
  BY <1>6, <1>9 DEF Follow, StopFollowing, Restart
<1>10. ASSUME NEW f \in Follower, Crash(f) PROVE ReplicaStep(Event)
  BY <1>5, <1>10 DEF Crash
<1>11. CASE HandleReplay
  BY <1>6, <1>11 DEF HandleReplay
<1>12. CASE UNCHANGED vars
  BY <1>6, <1>12 DEF vars
<1> QED
  BY <1>2, <1>7, <1>8, <1>9, <1>10, <1>11, <1>12 DEF Next

\* A document is what the logged events make of an empty one: no replica changes
\* its text without logging the event, or logs one without performing it.
THEOREM DocumentsFollowLogs == Spec => []DocumentMatchesLog
<1>1. Init => DocumentsMade
  BY DocumentsMadeFirst DEF Init
<1>2. IInv /\ DocumentsMade /\ [Next]_vars => DocumentsMade'
  <2> SUFFICES ASSUME IInv, DocumentsMade, [Next]_vars PROVE DocumentsMade'
    OBVIOUS
  <2>1. log \in [Peer -> Seq(Event)] /\ \A p \in Peer : LastInLog(log[p], last[p])
    BY DEF IInv, TypeOK, ReplicaOK, LogOK
  <2>2. ReplicaStep(Event)
    BY NextIsReplicaStep
  <2> QED
    BY <2>1, <2>2, StepKeepsDocuments
<1>3. DocumentsMade => DocumentMatchesLog
  BY DEF DocumentsMade, DocumentMatchesLog
<1> QED
  BY <1>1, <1>2, <1>3, SpecIInv, PTL DEF Spec

-----------------------------------------------------------------------------
(* Replication implements ReplicatedDocument, for every set of peers and   *)
(* edits and every bound.  The steps that change a document are those of   *)
(* apply_event: at the master the edit enters the history, at a follower   *)
(* the event is the successor of what is in its log or in the log already. *)
(* That there is no third case is what the inductive invariant is for.     *)

History == [i \in 1 .. Len(log[Master]) |-> log[Master][i].edit]
LoggedSequents(events) == {events[i].sequent : i \in DOMAIN events}
Known == [f \in Follower |-> LoggedSequents(log[f])]

-----------------------------------------------------------------------------
(* The abstract state.                                                     *)

\* A step that leaves logs and documents alone is invisible.
LEMMA StepIsInvisible ==
    ASSUME log' = log, document' = document
    PROVE  [Document!Next]_(Document!State)
<1>1. Document!State' = Document!State
  BY DEF Document!State
<1> QED
  BY <1>1

\* What is known after an event is logged.
LEMMA AppendSequents ==
    ASSUME NEW events \in Seq(Event), NEW e \in Event
    PROVE  LoggedSequents(Append(events, e)) = LoggedSequents(events) \cup {e.sequent}
<1>1. \A n : n \in LoggedSequents(Append(events, e)) <=> HasSequent(Append(events, e), n)
  BY DEF LoggedSequents, HasSequent
<1>2. \A n : n \in LoggedSequents(events) <=> HasSequent(events, n)
  BY DEF LoggedSequents, HasSequent
<1> QED
  BY <1>1, <1>2, AppendHasSequent

\* put_in_log logs every event it is given: lastSequent is always in the log.
LEMMA PutInLogLogs ==
    ASSUME TypeOK, NEW p \in Peer, LogOK(log[p], last[p]), NEW e \in Event, PutInLog(p, e)
    PROVE  log' = [log EXCEPT ![p] = Append(log[p], e)]
BY DEF PutInLog, LogOK, LastInLog

\* An event that is at most one above lastSequent and not yet known is the first
\* one unknown.
LEMMA NextUnknown ==
    ASSUME NEW events \in Seq(Event), NEW n \in Int, LogOK(events, n),
           \A i \in DOMAIN events : events[i].sequent \in Nat,
           NEW k \in Nat, k <= n + 1, k \notin LoggedSequents(events)
    PROVE  LoggedSequents(events) = 0 .. k - 1
<1>1. \A j : j \in LoggedSequents(events) <=> HasSequent(events, j)
  BY DEF LoggedSequents, HasSequent
<1>2. ASSUME NEW j \in LoggedSequents(events)
      PROVE  j \in Nat /\ 0 .. j \subseteq LoggedSequents(events)
  <2>1. PICK i \in DOMAIN events : events[i].sequent = j
    BY <1>2 DEF LoggedSequents
  <2>2. \A m \in 0 .. j : HasSequent(events, m)
    BY <2>1 DEF LogOK, Closed
  <2> QED
    BY <1>1, <2>1, <2>2
<1>3. 0 .. k - 1 \subseteq LoggedSequents(events)
  <2>1. CASE events = <<>>
    <3>1. k = 0
      BY <2>1 DEF LogOK, LastInLog
    <3> QED
      BY <3>1
  <2>2. CASE events # <<>>
    <3>1. n \in LoggedSequents(events)
      BY <1>1, <2>2 DEF LogOK, LastInLog
    <3>2. 0 .. n \subseteq LoggedSequents(events)
      BY <1>2, <3>1
    <3> QED
      BY <3>2
  <2> QED
    BY <2>1, <2>2
<1>4. ASSUME NEW j \in LoggedSequents(events) PROVE j \in 0 .. k - 1
  <2>1. CASE j >= k
    BY <1>2, <2>1
  <2>2. CASE j < k
    BY <1>2, <2>2
  <2> QED
    BY <1>2, <2>1, <2>2
<1> QED
  BY <1>3, <1>4

-----------------------------------------------------------------------------
(* The steps.                                                              *)

\* A follower that applies a genuine event learns, repeats, or does nothing.
LEMMA FollowerRefines ==
    ASSUME IInv, NEW f \in Follower, NEW e \in Event, e.sequent \in Nat,
           Genuine(e), ApplyEvent(f, e)
    PROVE  [Document!Next]_(Document!State)
<1>1. /\ TypeOK /\ f \in Peer /\ f # Master /\ Master \in Peer
      /\ LogOK(log[f], last[f]) /\ log[f] \in Seq(Event) /\ last[f] \in Int
      /\ log[Master] \in Seq(Event)
      /\ \A i \in DOMAIN log[f] : log[f][i].sequent \in Nat
  <2>1. TypeOK /\ f \in Peer /\ f # Master /\ Master \in Peer /\ ReplicaOK(f)
    BY ConstantsAssumption DEF IInv, Follower
  <2>2. log[f] \in Seq(Event) /\ last[f] \in Int /\ log[Master] \in Seq(Event)
    BY <2>1 DEF TypeOK
  <2>3. \A i \in DOMAIN log[f] : log[f][i].sequent \in Nat
    <3>1. \A i \in DOMAIN log[f] : Logged(log[f][i])
      BY <2>1 DEF ReplicaOK
    <3>2. Len(log[Master]) \in Nat
      BY <2>2
    <3> QED
      BY <3>1, <3>2 DEF Logged
  <2> QED
    BY <2>1, <2>2, <2>3 DEF ReplicaOK
<1>2. CASE BufferEvent(f, e) \/ RefuseDelete(f, e)
  BY <1>2, StepIsInvisible DEF BufferEvent, RefuseDelete
<1>3. CASE PerformEvent(f, e) /\ e.edit.type = "VIEW"
  BY <1>3, StepIsInvisible DEF PerformEvent
<1>4. CASE PerformEvent(f, e) /\ e.edit.type # "VIEW"
  <2>1. /\ log' = [log EXCEPT ![f] = Append(log[f], e)]
        /\ e.sequent <= last[f] + 1
        /\ ~ TooLong(f, e.edit)
        /\ document' = [document EXCEPT ![f] = NewDocument(document[f], e.edit)]
    BY <1>1, <1>4, PutInLogLogs DEF PerformEvent
  <2>2. History' = History
    BY <1>1, <2>1 DEF History, TypeOK
  <2>3. Known' = [Known EXCEPT ![f] = Known[f] \cup {e.sequent}]
    <3>1. LoggedSequents(log'[f]) = LoggedSequents(log[f]) \cup {e.sequent}
      BY <1>1, <2>1, AppendSequents DEF TypeOK
    <3>2. \A g \in Follower \ {f} : log'[g] = log[g]
      BY <1>1, <2>1 DEF TypeOK, Follower
    <3> QED
      BY <3>1, <3>2 DEF Known
  <2>4. e.sequent \in 0 .. Len(History) - 1 /\ History[e.sequent + 1] = e.edit
    <3>1. Logged(e) /\ Len(log[Master]) \in Nat
      BY <1>1, <1>4 DEF Genuine
    <3>2. Len(History) = Len(log[Master])
      BY <3>1 DEF History
    <3> QED
      BY <3>1, <3>2 DEF Logged, History
  <2>5. Document!Perform(f, e.edit)
    BY <2>1 DEF Document!Perform, Document!TooLong, Document!Performed, TooLong, NewDocument
  <2>6. Known[f] = LoggedSequents(log[f])
    BY DEF Known
  <2>7. CASE e.sequent \in Known[f]
    <3>1. Known' = Known
      BY <2>3, <2>7 DEF Known
    <3>2. Document!Repeat(f)
      BY <2>2, <2>4, <2>5, <2>7, <3>1 DEF Document!Repeat, History, Known, LoggedSequents
    <3> QED
      BY <3>2 DEF Document!Next, Document!Follower, Follower
  <2>8. CASE e.sequent \notin Known[f]
    <3>1. Known[f] = 0 .. e.sequent - 1
      BY <1>1, <2>1, <2>6, <2>8, NextUnknown
    <3>2. (0 .. e.sequent - 1) \cup {e.sequent} = 0 .. e.sequent
      OBVIOUS
    <3>3. Document!Learn(f)
      BY <2>2, <2>3, <2>4, <2>5, <3>1, <3>2 DEF Document!Learn, History, Known, LoggedSequents
    <3> QED
      BY <3>3 DEF Document!Next, Document!Follower, Follower
  <2> QED
    BY <2>7, <2>8
<1> QED
  BY <1>2, <1>3, <1>4 DEF ApplyEvent

\* The master accepts an edit, or shows its document and nothing changes.
LEMMA MasterRefines ==
    ASSUME IInv, NEW edit \in Edit, ClientRequest(edit)
    PROVE  [Document!Next]_(Document!State)
<1> DEFINE e == [sequent |-> last[Master] + 1, edit |-> edit]
<1>1. /\ TypeOK /\ Master \in Peer /\ last[Master] \in Int
      /\ log[Master] \in Seq(Event) /\ LogOK(log[Master], last[Master])
      /\ e \in Event
  <2>1. TypeOK /\ Master \in Peer /\ LogOK(log[Master], last[Master])
    BY ConstantsAssumption DEF IInv, ReplicaOK
  <2>2. last[Master] \in Int /\ log[Master] \in Seq(Event)
    BY <2>1 DEF TypeOK
  <2> QED
    BY <2>1, <2>2 DEF Event
<1>2. PerformEvent(Master, e)
  BY <1>1 DEF ClientRequest, ApplyEvent, BufferEvent, RefuseDelete
<1>3. CASE edit.type = "VIEW"
  BY <1>2, <1>3, StepIsInvisible DEF PerformEvent
<1>4. CASE edit.type # "VIEW"
  <2>1. /\ log' = [log EXCEPT ![Master] = Append(log[Master], e)]
        /\ ~ TooLong(Master, edit)
        /\ document' = [document EXCEPT ![Master] = NewDocument(document[Master], edit)]
    BY <1>1, <1>2, <1>4, PutInLogLogs DEF PerformEvent
  <2>2. History' = Append(History, edit)
    <3>1. /\ log'[Master] = Append(log[Master], e)
          /\ Len(log'[Master]) = Len(log[Master]) + 1
          /\ \A i \in 1 .. Len(log[Master]) : log'[Master][i] = log[Master][i]
          /\ log'[Master][Len(log[Master]) + 1] = e
          /\ Len(log[Master]) \in Nat
      BY <1>1, <2>1, AppendProperties DEF TypeOK
    <3>2. /\ Len(History) = Len(log[Master])
          /\ Append(History, edit) = [i \in 1 .. Len(log[Master]) + 1 |->
                IF i = Len(log[Master]) + 1 THEN edit ELSE log[Master][i].edit]
      BY <3>1 DEF History
    <3> QED
      BY <3>1, <3>2 DEF History
  <2>3. Known' = Known
    BY <1>1, <2>1 DEF Known, Follower, TypeOK
  <2>4. Document!Perform(Master, edit)
    BY <2>1 DEF Document!Perform, Document!TooLong, Document!Performed, TooLong, NewDocument
  <2>5. Document!Accept(edit)
    BY <1>4, <2>2, <2>3, <2>4 DEF Document!Accept, History, Known, LoggedSequents
  <2> QED
    BY <2>5 DEF Document!Next
<1> QED
  BY <1>3, <1>4

\* The end of a follower's process loses what it has.
LEMMA StopRefines ==
    ASSUME IInv, NEW f \in Follower, NEW how, Stop(f, how)
    PROVE  [Document!Next]_(Document!State)
<1>1. f \in Peer /\ f # Master /\ Master \in Peer /\ TypeOK
  BY ConstantsAssumption DEF Follower, IInv
<1>2. History' = History
  BY <1>1 DEF History, Stop, Forget, TypeOK
<1>3. Known' = [Known EXCEPT ![f] = {}]
  <2>1. LoggedSequents(log'[f]) = {}
    BY <1>1 DEF LoggedSequents, Stop, Forget, TypeOK
  <2>2. \A g \in Follower \ {f} : log'[g] = log[g]
    BY <1>1 DEF Stop, Forget, TypeOK, Follower
  <2> QED
    BY <2>1, <2>2 DEF Known
<1>4. document' = [document EXCEPT ![f] = <<>>]
  BY DEF Stop, Forget
<1>5. Document!Lose(f)
  BY <1>2, <1>3, <1>4 DEF Document!Lose, History, Known, LoggedSequents
<1> QED
  BY <1>5 DEF Document!Next, Document!Follower, Follower

-----------------------------------------------------------------------------
(* The refinement.                                                         *)

LEMMA InitRefines == Init => Document!Init
<1> SUFFICES ASSUME Init PROVE Document!Init
  OBVIOUS
<1>1. Master \in Peer
  BY ConstantsAssumption
<1>2. History = <<>>
  BY <1>1 DEF Init, ReplicaInit, History
<1>3. Known = [f \in Follower |-> {}]
  BY DEF Init, ReplicaInit, Known, LoggedSequents, Follower
<1> QED
  BY <1>2, <1>3
     DEF Init, ReplicaInit, Document!Init, Document!Follower, History, Known, LoggedSequents,
         Follower

LEMMA NextRefines == IInv /\ [Next]_vars => [Document!Next]_(Document!State)
<1> SUFFICES ASSUME IInv, [Next]_vars PROVE [Document!Next]_(Document!State)
  OBVIOUS
<1>1. ASSUME NEW edit \in Edit, ClientRequest(edit)
      PROVE  [Document!Next]_(Document!State)
  BY <1>1, MasterRefines
<1>2. CASE HandleReplay
  BY <1>2, StepIsInvisible DEF HandleReplay, replicaVars
<1>3. ASSUME NEW f \in Follower, ApplyBuffered(f)
      PROVE  [Document!Next]_(Document!State)
  <2>1. f \in Peer /\ TypeOK /\ ReplicaOK(f) /\ resume[f] \in Nat /\ buffer[f] \in Seq(Event)
    BY <1>3 DEF Follower, IInv, TypeOK
  <2>2. HasSequent(buffer[f], resume[f])
    BY <1>3, <2>1 DEF ReplicaOK, ApplyBuffered, Resume
  <2>3. PICK e \in Event : /\ e = FindSequent(buffer[f], resume[f]) /\ e.sequent = resume[f]
                           /\ \E i \in DOMAIN buffer[f] : e = buffer[f][i]
    BY <2>1, <2>2, FindSequentFinds
  <2>4. Genuine(e) /\ e.sequent \in Nat
    BY <2>1, <2>3 DEF ReplicaOK
  <2>5. ApplyEvent(f, e)
    BY <1>3, <2>3 DEF ApplyBuffered, Resume
  <2> QED
    BY <1>3, <2>4, <2>5, FollowerRefines
<1>4. ASSUME NEW f \in Follower, inbox[f] # <<>>, ReceiveEvent(f, Head(inbox[f]))
      PROVE  [Document!Next]_(Document!State)
  <2>1. Head(inbox[f]) \in Event /\ Genuine(Head(inbox[f]))
    BY <1>4, HeadGenuine
  <2>2. Head(inbox[f]).sequent \in Nat /\ ApplyEvent(f, Head(inbox[f]))
    BY <1>4 DEF ReceiveEvent
  <2> QED
    BY <1>4, <2>1, <2>2, FollowerRefines
<1>5. ASSUME NEW f \in Follower, NEW e,
             RejectDuplicate(f, e) \/ DropGarbled(f, e) \/ IgnoreEvent(f)
      PROVE  [Document!Next]_(Document!State)
  BY <1>5, StepIsInvisible DEF RejectDuplicate, DropGarbled, IgnoreEvent, replicaVars
<1>6. ASSUME NEW f \in Follower, NEW e, Terminate(f, e) \/ Crash(f)
      PROVE  [Document!Next]_(Document!State)
  BY <1>6, StopRefines DEF Terminate, Crash
<1>7. ASSUME NEW f \in Follower, SendReplay(f)
      PROVE  [Document!Next]_(Document!State)
  <2>1. UNCHANGED replicaVars
    BY <1>7 DEF SendReplay
  <2> QED
    BY <2>1, StepIsInvisible DEF replicaVars
<1>8. ASSUME NEW f \in Follower, Follow(f) \/ StopFollowing(f) \/ Restart(f)
      PROVE  [Document!Next]_(Document!State)
  BY <1>8, StepIsInvisible DEF Follow, StopFollowing, Restart, replicaVars
<1>9. CASE UNCHANGED vars
  BY <1>9, StepIsInvisible DEF vars, replicaVars
<1>10. ASSUME NEW f \in Follower, Server(f)
       PROVE  [Document!Next]_(Document!State)
  BY <1>3, <1>4, <1>5, <1>6, <1>10 DEF Server, Receives
<1> QED
  BY <1>1, <1>2, <1>6, <1>7, <1>8, <1>9, <1>10 DEF Next

\* Replication keeps the promise of the abstract document: every follower
\* performs the one history of edits in order and without a gap, or again.
THEOREM ReplicationImplementsDocument == Spec => ImplementsDocument
BY SpecIInv, InitRefines, NextRefines, PTL DEF Spec, ImplementsDocument, Document!Spec

=============================================================================
