---------------------------- MODULE ReplicaProofs ----------------------------
(***************************************************************************)
(* Facts about one replica, whoever its master is: what find_sequent_in_log *)
(* finds, and that put_in_log and apply_event keep a log in shape.         *)
(***************************************************************************)
EXTENDS Replica, SequenceLemmas

-----------------------------------------------------------------------------
(* A log in shape.                                                         *)

\* The replicas hold events of E.
ReplicaTypes(E) ==
    /\ log \in [Peer -> Seq(E)] /\ buffer \in [Peer -> Seq(E)]
    /\ last \in [Peer -> Int] /\ resume \in [Peer -> Nat]

\* lastSequent is -1 as long as nothing is logged, and names a logged event.
LastInLog(events, n) ==
    IF events = <<>> THEN n = -1 ELSE HasSequent(events, n)

Closed(events) ==
    \A i \in DOMAIN events : \A n \in 0 .. events[i].sequent : HasSequent(events, n)

NoRepeat(events) ==
    \A i, j \in DOMAIN events : events[i].sequent = events[j].sequent => i = j

InOrder(events, n) ==
    /\ n = Len(events) - 1
    /\ \A i \in DOMAIN events : events[i].sequent = i - 1

\* What holds of one log and its lastSequent.
LogOK(events, n) ==
    /\ n \in Int /\ n >= -1
    /\ LastInLog(events, n)
    /\ Closed(events)
    /\ NoRepeat(events) => InOrder(events, n)

-----------------------------------------------------------------------------
(* Facts about numbers, sequences and the operators of the model.          *)

\* find_sequent_in_log returns the first event of the log with that sequent.
LEMMA FindSequentFirst ==
    ASSUME NEW E, NEW events \in Seq(E), NEW n, HasSequent(events, n)
    PROVE  \E i \in DOMAIN events : /\ FindSequent(events, n) = events[i]
                                    /\ events[i].sequent = n
                                    /\ \A j \in 1 .. i - 1 : events[j].sequent # n
<1> DEFINE First(i) == events[i].sequent = n /\ \A j \in 1 .. i - 1 : events[j].sequent # n
<1> DEFINE S == {i \in DOMAIN events : events[i].sequent = n}
<1>1. DOMAIN events = 1 .. Len(events) /\ Len(events) \in Nat
  OBVIOUS
<1>2. S \in SUBSET Nat /\ S # {}
  BY <1>1 DEF HasSequent
<1>3. PICK m \in S : \A k \in S : m <= k
  BY <1>2, NatSetMinimum
<1>4. \A j \in 1 .. m - 1 : j \notin S /\ j \in DOMAIN events
  BY <1>1, <1>2, <1>3
<1>5. \E k \in DOMAIN events : First(k)
  BY <1>3, <1>4
<1>6. PICK i \in DOMAIN events : i = (CHOOSE k \in DOMAIN events : First(k)) /\ First(i)
  BY <1>5
<1>7. FindSequent(events, n) = events[i]
  BY <1>6 DEF FindSequent
<1> QED
  BY <1>6, <1>7

LEMMA FindSequentFinds ==
    ASSUME NEW E, NEW events \in Seq(E), NEW n, HasSequent(events, n)
    PROVE  /\ FindSequent(events, n) \in E
           /\ FindSequent(events, n).sequent = n
           /\ \E i \in DOMAIN events : FindSequent(events, n) = events[i]
<1>1. PICK i \in DOMAIN events : FindSequent(events, n) = events[i] /\ events[i].sequent = n
  BY FindSequentFirst
<1>2. events[i] \in E
  OBVIOUS
<1> QED
  BY <1>1, <1>2

\* What a log holds after an event is appended.
LEMMA AppendHasSequent ==
    ASSUME NEW events \in Seq(Event), NEW e \in Event, NEW n
    PROVE  HasSequent(Append(events, e), n) <=> HasSequent(events, n) \/ e.sequent = n
<1> DEFINE after == Append(events, e)
<1>1. /\ DOMAIN events = 1 .. Len(events) /\ Len(events) \in Nat
      /\ DOMAIN after = 1 .. Len(events) + 1
      /\ \A i \in DOMAIN events : after[i] = events[i]
      /\ after[Len(events) + 1] = e
  BY AppendProperties
<1> QED
  BY <1>1 DEF HasSequent

-----------------------------------------------------------------------------
(* put_in_log keeps a log in shape when what it appends is at most the     *)
(* successor of lastSequent, the test apply_event makes.                   *)

LEMMA AppendKeepsLogOK ==
    ASSUME NEW events \in Seq(Event), NEW n, LogOK(events, n),
           NEW e \in Event, e.sequent \in Nat, e.sequent <= n + 1
    PROVE  LogOK(Append(events, e), e.sequent)
<1> DEFINE after == Append(events, e)
<1>1. /\ DOMAIN events = 1 .. Len(events) /\ Len(events) \in Nat
      /\ DOMAIN after = 1 .. Len(events) + 1
      /\ Len(after) = Len(events) + 1
      /\ \A i \in DOMAIN events : after[i] = events[i]
      /\ after[Len(events) + 1] = e
      /\ after # <<>>
  BY AppendProperties
<1>2. n \in Int /\ n >= -1
  BY DEF LogOK
<1>3. \A k \in 0 .. n : HasSequent(events, k)
  <2>1. CASE events = <<>>
    BY <2>1 DEF LogOK, LastInLog
  <2>2. CASE events # <<>>
    <3>1. PICK i \in DOMAIN events : events[i].sequent = n
      BY <2>2 DEF LogOK, LastInLog, HasSequent
    <3> QED
      BY <3>1 DEF LogOK, Closed
  <2> QED
    BY <2>1, <2>2
<1>4. Closed(after)
  <2> SUFFICES ASSUME NEW i \in DOMAIN after, NEW k \in 0 .. after[i].sequent
               PROVE  HasSequent(after, k)
    BY DEF Closed
  <2>1. CASE i \in DOMAIN events
    <3>1. HasSequent(events, k)
      BY <2>1, <1>1 DEF LogOK, Closed
    <3> QED
      BY <3>1, AppendHasSequent
  <2>2. CASE i = Len(events) + 1
    <3>1. k \in 0 .. e.sequent /\ e.sequent \in Nat
      BY <2>2, <1>1
    <3>2. k = e.sequent \/ k \in 0 .. n
      BY <3>1, <1>2
    <3> QED
      BY <3>2, <1>3, AppendHasSequent
  <2> QED
    BY <2>1, <2>2, <1>1
<1>5. LastInLog(after, e.sequent)
  BY <1>1, AppendHasSequent DEF LastInLog
<1>6. ASSUME NoRepeat(after) PROVE InOrder(after, e.sequent)
  <2>1. NoRepeat(events)
    BY <1>1, <1>6 DEF NoRepeat
  <2>2. InOrder(events, n)
    BY <2>1 DEF LogOK
  <2>3. e.sequent = Len(events)
    <3>1. e.sequent <= Len(events)
      BY <1>1, <2>2 DEF InOrder
    <3>2. ASSUME e.sequent < Len(events) PROVE FALSE
      <4>1. e.sequent + 1 \in DOMAIN events
        BY <3>2, <1>1
      <4>2. events[e.sequent + 1].sequent = e.sequent
        BY <4>1, <2>2 DEF InOrder
      <4> QED
        BY <4>1, <4>2, <1>1, <1>6 DEF NoRepeat
    <3> QED
      BY <3>1, <3>2, <1>1
  <2> QED
    BY <2>2, <2>3, <1>1 DEF InOrder
<1> QED
  BY <1>4, <1>5, <1>6 DEF LogOK

-----------------------------------------------------------------------------
(* apply_event on one replica.                                             *)

\* PutInLog either leaves the log alone or appends the event.
LEMMA PutInLogCases ==
    ASSUME NEW p \in Peer, NEW e, PutInLog(p, e)
    PROVE  \/ log' = log /\ last' = last
           \/ /\ log' = [log EXCEPT ![p] = Append(log[p], e)]
              /\ last' = [last EXCEPT ![p] = e.sequent]
BY DEF PutInLog

\* A sequence of elements of a set is one of elements of a larger set.
LEMMA SeqMonotone ==
    ASSUME NEW S, NEW T, S \subseteq T, NEW s \in Seq(S)
    PROVE  s \in Seq(T)
OBVIOUS

\* The other replicas are not touched, and this one stays in shape: the event is
\* logged or not, buffered or not, and what is resumed is in the buffer.
LEMMA ApplyEventLocal ==
    ASSUME NEW E \in SUBSET Event, ReplicaTypes(E),
           NEW p \in Peer, NEW e \in E, e.sequent \in Nat,
           LogOK(log[p], last[p]), ApplyEvent(p, e)
    PROVE  /\ ReplicaTypes(E)'
           /\ \A q \in Peer \ {p} : /\ log'[q] = log[q] /\ last'[q] = last[q]
                                    /\ buffer'[q] = buffer[q] /\ resume'[q] = resume[q]
           /\ LogOK(log'[p], last'[p])
           /\ \/ log'[p] = log[p]
              \/ log'[p] = Append(log[p], e) /\ e.edit.type # "VIEW"
           /\ buffer'[p] = buffer[p] \/ buffer'[p] = Append(buffer[p], e)
           /\ resume'[p] # 0 => HasSequent(buffer'[p], resume'[p])
<1> USE DEF ReplicaTypes
<1>0. /\ log[p] \in Seq(Event) /\ e \in Event
      /\ Append(log[p], e) \in Seq(E) /\ Append(buffer[p], e) \in Seq(E)
  BY SeqMonotone, AppendProperties
<1>1. CASE BufferEvent(p, e)
  BY <1>0, <1>1 DEF BufferEvent
<1>2. CASE RefuseDelete(p, e)
  BY <1>2 DEF RefuseDelete
<1>3. CASE PerformEvent(p, e)
  <2>1. /\ resume'[p] # 0 => HasSequent(buffer'[p], resume'[p])
        /\ buffer' = buffer
        /\ resume' \in [Peer -> Nat]
        /\ \A q \in Peer \ {p} : resume'[q] = resume[q]
    BY <1>3 DEF PerformEvent
  <2>2. CASE UNCHANGED <<log, last>>
    BY <2>1, <2>2
  <2>3. CASE /\ e.edit.type # "VIEW"
             /\ log' = [log EXCEPT ![p] = Append(log[p], e)]
             /\ last' = [last EXCEPT ![p] = e.sequent]
    <3>1. e.sequent <= last[p] + 1
      BY <1>3 DEF PerformEvent
    <3>2. LogOK(Append(log[p], e), e.sequent)
      BY <1>0, <3>1, AppendKeepsLogOK
    <3>3. log'[p] = Append(log[p], e) /\ last'[p] = e.sequent
      BY <2>3
    <3>4. \A q \in Peer \ {p} : log'[q] = log[q] /\ last'[q] = last[q]
      BY <2>3
    <3>5. log' \in [Peer -> Seq(E)] /\ last' \in [Peer -> Int]
      BY <1>0, <2>3
    <3> QED
      BY <2>1, <2>3, <3>2, <3>3, <3>4, <3>5
  <2> QED
    BY <1>3, <2>2, <2>3, PutInLogCases DEF PerformEvent
<1> QED
  BY <1>1, <1>2, <1>3 DEF ApplyEvent

-----------------------------------------------------------------------------
(* What a log makes of an empty document.                                  *)

\* t[k] is the document after the first k events.
Trace(events, n, t) ==
    t = [k \in 0 .. n |-> IF k = 0 THEN <<>> ELSE NewDocument(t[k - 1], events[k].edit)]

LEMMA TraceExists ==
    ASSUME NEW events, NEW n \in Nat
    PROVE  \E t : Trace(events, n, t)
<1> DEFINE S == {k \in Nat : ~ \E t : Trace(events, k, t)}
<1>1. SUFFICES ASSUME S # {}
               PROVE  FALSE
  OBVIOUS
<1>2. PICK m \in S : \A k \in S : m <= k
  <2>1. S \in SUBSET Nat
    OBVIOUS
  <2> HIDE DEF S
  <2> QED
    BY <1>1, <2>1, NatSetMinimum
<1>3. CASE m = 0
  <2>1. PICK t : t = [k \in 0 .. 0 |-> <<>>]
    OBVIOUS
  <2>2. t = [k \in 0 .. 0 |-> IF k = 0 THEN <<>> ELSE NewDocument(t[k - 1], events[k].edit)]
    BY <2>1
  <2> QED
    BY <1>2, <1>3, <2>2 DEF Trace
<1>4. CASE m # 0
  <2>1. m - 1 \in Nat /\ m \in Nat
    BY <1>4
  <2>2. m - 1 \notin S
    BY <1>2, <2>1
  <2>3. PICK s : Trace(events, m - 1, s)
    BY <2>1, <2>2
  <2>4. PICK t : t = [k \in 0 .. m |-> IF k = m THEN NewDocument(s[m - 1], events[m].edit)
                                                 ELSE s[k]]
    OBVIOUS
  <2>5. \A k \in 0 .. m - 1 : t[k] = s[k]
    BY <2>1, <2>4
  <2>6. s[0] = <<>> /\ \A k \in 1 .. m - 1 : s[k] = NewDocument(s[k - 1], events[k].edit)
    BY <2>1, <2>3 DEF Trace
  <2>7. ASSUME NEW k \in 0 .. m
        PROVE  t[k] = IF k = 0 THEN <<>> ELSE NewDocument(t[k - 1], events[k].edit)
    <3>1. CASE k = m
      BY <1>4, <2>1, <2>4, <2>5, <3>1
    <3>2. CASE k # m /\ k # 0
      <4>1. k \in 1 .. m - 1 /\ k - 1 \in 0 .. m - 1
        BY <2>1, <3>2
      <4> QED
        BY <2>5, <2>6, <3>2, <4>1
    <3>3. CASE k = 0
      BY <1>4, <2>1, <2>5, <2>6, <3>3
    <3> QED
      BY <3>1, <3>2, <3>3
  <2>8. Trace(events, m, t)
    BY <2>4, <2>7 DEF Trace
  <2> QED
    BY <2>8
<1> QED
  BY <1>3, <1>4

SameUpTo(events, others, n) == \A k \in 1 .. n : events[k] = others[k]

\* Logs that agree on their first n events make the same document of them.
LEMMA TracesAgree ==
    ASSUME NEW events, NEW others, NEW n \in Nat, NEW m \in Nat, n <= m,
           SameUpTo(events, others, n),
           NEW t, Trace(events, n, t), NEW s, Trace(others, m, s)
    PROVE  t[n] = s[n]
<1> DEFINE S == {k \in 0 .. n : t[k] # s[k]}
<1>1. SUFFICES ASSUME S # {}
               PROVE  FALSE
  OBVIOUS
<1>2. PICK j \in S : \A k \in S : j <= k
  <2>1. S \in SUBSET Nat
    OBVIOUS
  <2> HIDE DEF S
  <2> QED
    BY <1>1, <2>1, NatSetMinimum
<1>3. j \in 0 .. n /\ t[j] # s[j]
  BY <1>2
<1>4. t[0] = <<>> /\ s[0] = <<>>
  BY DEF Trace
<1>5. j \in 1 .. n /\ j - 1 \in 0 .. n /\ j \in 0 .. m
  BY <1>3, <1>4
<1>6. t[j - 1] = s[j - 1]
  <2>1. j - 1 \notin S
    BY <1>2, <1>5
  <2> QED
    BY <1>5, <2>1
<1>7. t[j] = NewDocument(t[j - 1], events[j].edit)
  BY <1>5 DEF Trace
<1>8. s[j] = NewDocument(s[j - 1], others[j].edit)
  BY <1>5 DEF Trace
<1>9. events[j] = others[j]
  BY <1>5 DEF SameUpTo
<1> QED
  BY <1>3, <1>6, <1>7, <1>8, <1>9

LEMMA ReplayedIsTrace ==
    ASSUME NEW E, NEW events \in Seq(E)
    PROVE  \E t : Trace(events, Len(events), t) /\ Replayed(events) = t[Len(events)]
<1>1. PICK s : Trace(events, Len(events), s)
  <2>1. PICK n \in Nat : n = Len(events)
    BY LenProperties
  <2>2. \E s : Trace(events, n, s)
    BY TraceExists
  <2> QED
    BY <2>1, <2>2
<1>2. PICK t : t = CHOOSE u : Trace(events, Len(events), u)
  OBVIOUS
<1>3. Trace(events, Len(events), t)
  BY <1>1, <1>2
<1>4. Replayed(events) = t[Len(events)]
  BY <1>2 DEF Replayed, Trace
<1> QED
  BY <1>3, <1>4

LEMMA ReplayedEmpty == Replayed(<<>>) = <<>>
<1>1. <<>> \in Seq(Event) /\ Len(<<>>) = 0
  BY EmptySeq
<1>2. PICK t : Trace(<<>>, 0, t) /\ Replayed(<<>>) = t[0]
  BY <1>1, ReplayedIsTrace
<1> QED
  BY <1>2 DEF Trace

\* An event that is logged is performed on what the events before it made.
LEMMA ReplayedAppend ==
    ASSUME NEW E, NEW events \in Seq(E), NEW e \in E
    PROVE  Replayed(Append(events, e)) = NewDocument(Replayed(events), e.edit)
<1>1. PICK n \in Nat : n = Len(events)
  BY LenProperties
<1>2. PICK after : after = Append(events, e)
  OBVIOUS
<1>3. /\ after \in Seq(E) /\ Len(after) = n + 1 /\ after[n + 1] = e
      /\ \A k \in 1 .. n : events[k] = after[k]
  BY <1>1, <1>2, AppendProperties
<1>4. PICK t : Trace(events, n, t) /\ Replayed(events) = t[n]
  BY <1>1, ReplayedIsTrace
<1>5. PICK s : Trace(after, n + 1, s) /\ Replayed(after) = s[n + 1]
  BY <1>3, ReplayedIsTrace
<1>6. t[n] = s[n]
  <2>1. PICK m \in Nat : m = n + 1
    OBVIOUS
  <2>2. n <= m /\ Trace(after, m, s)
    BY <1>5, <2>1
  <2>3. SameUpTo(events, after, n)
    BY <1>3 DEF SameUpTo
  <2> QED
    BY <1>4, <2>2, <2>3, TracesAgree
<1>7. s[n + 1] = NewDocument(s[n], e.edit)
  <2>1. n + 1 \in 0 .. n + 1 /\ n + 1 # 0 /\ (n + 1) - 1 = n
    OBVIOUS
  <2>2. s[n + 1] = NewDocument(s[(n + 1) - 1], after[n + 1].edit)
    BY <1>5, <2>1 DEF Trace
  <2> QED
    BY <1>3, <2>1, <2>2
<1> QED
  BY <1>2, <1>4, <1>5, <1>6, <1>7

-----------------------------------------------------------------------------
(* The document of a replica is what its log makes of an empty one.        *)

DocumentsMade == document = [p \in Peer |-> Replayed(log[p])]

\* What happens to the documents and logs: an event is taken in, a process ends,
\* or nothing.
ReplicaStep(E) ==
    \/ \E p \in Peer, e \in E : ApplyEvent(p, e)
    \/ \E p \in Peer : Forget(p)
    \/ UNCHANGED <<document, log>>

\* An event that changes the document is always logged: its lastSequent is in
\* the log, so put_in_log finds the predecessor it looks for.
LEMMA ApplyKeepsDocuments ==
    ASSUME NEW E, log \in [Peer -> Seq(E)], DocumentsMade,
           NEW p \in Peer, NEW e \in E, LastInLog(log[p], last[p]), ApplyEvent(p, e)
    PROVE  DocumentsMade'
<1>1. CASE UNCHANGED <<document, log>>
  BY <1>1 DEF DocumentsMade
<1>2. CASE /\ document' = [document EXCEPT ![p] = NewDocument(document[p], e.edit)]
           /\ PutInLog(p, e)
  <2>1. log' = [log EXCEPT ![p] = Append(log[p], e)]
    BY <1>2 DEF PutInLog, LastInLog
  <2>2. log[p] \in Seq(E) /\ document[p] = Replayed(log[p])
    BY DEF DocumentsMade
  <2>3. Replayed(Append(log[p], e)) = NewDocument(document[p], e.edit)
    BY <2>2, ReplayedAppend
  <2>4. document' = [q \in Peer |-> IF q = p THEN NewDocument(document[p], e.edit)
                                            ELSE Replayed(log[q])]
    BY <1>2 DEF DocumentsMade
  <2>5. log' = [q \in Peer |-> IF q = p THEN Append(log[p], e) ELSE log[q]]
    BY <2>1
  <2>6. document' = [q \in Peer |-> Replayed(log'[q])]
    BY <2>3, <2>4, <2>5
  <2> QED
    BY <2>6 DEF DocumentsMade, Replayed
<1> QED
  BY <1>1, <1>2 DEF ApplyEvent, BufferEvent, RefuseDelete, PerformEvent

LEMMA ForgetKeepsDocuments ==
    ASSUME NEW E, log \in [Peer -> Seq(E)], DocumentsMade, NEW p \in Peer, Forget(p)
    PROVE  DocumentsMade'
<1>1. document' = [q \in Peer |-> IF q = p THEN <<>> ELSE Replayed(log[q])]
  BY DEF DocumentsMade, Forget
<1>2. log' = [q \in Peer |-> IF q = p THEN <<>> ELSE log[q]]
  BY DEF Forget
<1>3. document' = [q \in Peer |-> Replayed(log'[q])]
  BY <1>1, <1>2, ReplayedEmpty
<1> QED
  BY <1>3 DEF DocumentsMade, Replayed

LEMMA StepKeepsDocuments ==
    ASSUME NEW E, log \in [Peer -> Seq(E)], DocumentsMade,
           \A p \in Peer : LastInLog(log[p], last[p]), ReplicaStep(E)
    PROVE  DocumentsMade'
<1>1. CASE UNCHANGED <<document, log>>
  BY <1>1 DEF DocumentsMade
<1> QED
  BY <1>1, ApplyKeepsDocuments, ForgetKeepsDocuments DEF ReplicaStep

LEMMA DocumentsMadeFirst ==
    ASSUME ReplicaInit
    PROVE  DocumentsMade
<1>1. document = [p \in Peer |-> Replayed(<<>>)]
  BY ReplayedEmpty DEF ReplicaInit
<1> QED
  BY <1>1 DEF ReplicaInit, DocumentsMade

=============================================================================
