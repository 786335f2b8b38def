---------------------------- MODULE CatchUpProofs ----------------------------
(***************************************************************************)
(* Proof that replays close the gaps of a follower (QuietMeansCaughtUp),   *)
(* for every set of peers, of edits, and every bound.  The inductive       *)
(* invariant adds to that of ReplicationProofs, for a follower that has    *)
(* applied nothing twice and buffers an edit it has not reached:           *)
(*   - every sequent below that is on its way, in a replay thread, as a    *)
(*     request or as an event, or is buffered as well, and the recursion   *)
(*     of apply_event is at the next one if that is buffered (GapsClosed); *)
(*   - a VIEW comes after all edits announced before it (ViewsLast);       *)
(*   - no deletion of the master's log is refused by a follower that has   *)
(*     performed what precedes it (Performed).                             *)
(***************************************************************************)
EXTENDS ReplicationProofs

-----------------------------------------------------------------------------
(* The inductive invariant.                                                *)

IsView(e) == e.edit.type = "VIEW"

\* Up to place i the buffered events are edits.
Clear(events, i) == \A j \in 1 .. i : ~ IsView(events[j])

\* The i-th buffered event is an edit ahead of lastSequent n.
Ahead(events, i, n) == Clear(events, i) /\ events[i].sequent > n

\* With an edit ahead, the recursion is at the next sequent if that is buffered,
\* else it has ended.
InStep(n, early, again) ==
    /\ HasSequent(early, n + 1) => again = n + 1
    /\ again # 0 => again = n + 1

\* The log, lastSequent, the buffer and the recursion of a replica, and the
\* sequents on their way to it.
GapsClosed(events, n, early, again, way) ==
    NoRepeat(events) => \A i \in DOMAIN early : Ahead(early, i, n) =>
        /\ InStep(n, early, again)
        /\ \A k \in n + 1 .. early[i].sequent - 1 : k \in way \/ HasSequent(early, k)

\* What replay threads have still to ask for, requests ask for, and edits in the
\* queue bear.
Way(asking, asked, queue, f) == {n \in Nat :
    \/ \E i \in DOMAIN asking : n \in asking[i]
    \/ \E i \in DOMAIN asked : asked[i].from = f /\ asked[i].sequent = n
    \/ \E i \in DOMAIN queue : queue[i].sequent = n /\ ~ IsView(queue[i])}

OnTheWay(f) == Way(threads[f], requests, inbox[f], f)

\* A VIEW bears a sequent no lower than those of the events queued before it, of
\* those buffered when it is queued, and of the edits at the head of its buffer.
ViewsLast(queue, early) ==
    /\ \A k \in DOMAIN queue : IsView(queue[k]) =>
         /\ \A i \in 1 .. k - 1 : queue[i].sequent <= queue[k].sequent
         /\ \A i \in DOMAIN early : early[i].sequent <= queue[k].sequent
    /\ \A i, j \in DOMAIN early : Clear(early, i) /\ IsView(early[j]) =>
         early[i].sequent <= early[j].sequent

\* What is queued or buffered bears a sequent below top; only events after the
\* first, and with one-digit sequents, are ever buffered.
Sequents(queue, early, top) ==
    /\ \A i \in DOMAIN queue : queue[i].sequent < top
    /\ \A i \in DOMAIN early : /\ early[i].sequent >= 1
                               /\ early[i].sequent < top
                               /\ early[i].sequent < Radix

FollowerOK(f) ==
    /\ follows[f] => status[f] = "up"
    /\ faults = 0 /\ ~ follows[f] => buffer[f] = <<>>
    /\ Sequents(inbox[f], buffer[f], Len(log[Master]))
    /\ ViewsLast(inbox[f], buffer[f])
    /\ faults = 0 => GapsClosed(log[f], last[f], buffer[f], resume[f], OnTheWay(f))

\* Every deletion the master logged was possible when it did; a VIEW is not logged.
Performed(events) == \A i \in DOMAIN events :
    /\ ~ IsView(events[i])
    /\ events[i].edit.type = "DELT" =>
         events[i].edit.count <= Len(Replayed(SubSeq(events, 1, i - 1)))

Invariant ==
    /\ IInv
    /\ DocumentsMade
    /\ Performed(log[Master])
    /\ \A f \in Follower : FollowerOK(f)

-----------------------------------------------------------------------------
(* Gaps: what the outcomes of apply_event do to them.                      *)

\* Every event of a sequence has an integer for its sequent.
LEMMA SequentsAreInt ==
    ASSUME NEW events \in Seq(Event)
    PROVE  \A i \in DOMAIN events : events[i].sequent \in Int
<1>1. \A e \in Event : e.sequent \in Int
  BY DEF Event
<1>2. \A i \in DOMAIN events : events[i] \in Event
  OBVIOUS
<1> QED
  BY <1>1, <1>2

\* More is on its way, as far as the buffer needs it.
LEMMA GapsMonotone ==
    ASSUME NEW events, NEW n \in Int, NEW early \in Seq(Event), NEW again,
           NEW way, NEW other, NEW top \in Int,
           \A i \in DOMAIN early : early[i].sequent < top,
           \A k \in way : k < top /\ k > n => k \in other,
           GapsClosed(events, n, early, again, way)
    PROVE  GapsClosed(events, n, early, again, other)
<1> SUFFICES ASSUME NoRepeat(events), NEW i \in DOMAIN early, Ahead(early, i, n)
             PROVE  /\ InStep(n, early, again)
                    /\ \A k \in n + 1 .. early[i].sequent - 1 :
                         k \in other \/ HasSequent(early, k)
  BY DEF GapsClosed
<1>1. early[i].sequent \in Int /\ early[i].sequent < top
  BY SequentsAreInt
<1>2. /\ InStep(n, early, again)
      /\ \A k \in n + 1 .. early[i].sequent - 1 : k \in way \/ HasSequent(early, k)
  BY DEF GapsClosed
<1> QED
  BY <1>1, <1>2

\* Nothing is ahead in an empty buffer.
LEMMA GapsNone ==
    ASSUME NEW events, NEW n, NEW again, NEW way
    PROVE  GapsClosed(events, n, <<>>, again, way)
BY DEF GapsClosed

\* A log without repeats had none before, and holds the sequents up to its last.
LEMMA NoRepeatBefore ==
    ASSUME NEW events \in Seq(Event), NEW e \in Event, NoRepeat(Append(events, e))
    PROVE  /\ NoRepeat(events)
           /\ ~ HasSequent(events, e.sequent)
<1>1. PICK after : after = Append(events, e)
  OBVIOUS
<1>2. PICK m \in Nat : m = Len(events)
  OBVIOUS
<1>3. /\ DOMAIN events = 1 .. m /\ DOMAIN after = 1 .. m + 1
      /\ \A i \in 1 .. m : after[i] = events[i]
      /\ after[m + 1] = e
  BY <1>1, <1>2
<1>4. \A i, j \in 1 .. m + 1 : after[i].sequent = after[j].sequent => i = j
  BY <1>1, <1>3 DEF NoRepeat
<1>5. NoRepeat(events)
  BY <1>3, <1>4 DEF NoRepeat
<1>6. ASSUME NEW i \in DOMAIN events, events[i].sequent = e.sequent PROVE FALSE
  <2>1. i \in 1 .. m + 1 /\ m + 1 \in 1 .. m + 1 /\ i # m + 1
    BY <1>3
  <2> QED
    BY <1>3, <1>4, <1>6, <2>1
<1> QED
  BY <1>5, <1>6 DEF HasSequent

\* In a log in order exactly the sequents up to lastSequent are found.
LEMMA InOrderHolds ==
    ASSUME NEW events \in Seq(Event), NEW n \in Int, InOrder(events, n), NEW k \in Int
    PROVE  HasSequent(events, k) <=> k \in 0 .. n
<1>1. /\ Len(events) \in Nat /\ n = Len(events) - 1 /\ DOMAIN events = 1 .. n + 1
      /\ \A i \in 1 .. n + 1 : events[i].sequent = i - 1
  BY DEF InOrder
<1>2. k \in 0 .. n => k + 1 \in DOMAIN events /\ events[k + 1].sequent = k
  BY <1>1
<1> QED
  BY <1>1, <1>2 DEF HasSequent

\* The next event is logged, and the recursion goes on with its successor.
LEMMA GapsWhenLogged ==
    ASSUME NEW events \in Seq(Event), NEW n \in Int, NEW early \in Seq(Event),
           NEW again, NEW way, NEW other, NEW e \in Event, e.sequent = n + 1,
           NEW next, HasSequent(early, n + 2) => next = n + 2,
           ~ HasSequent(early, n + 2) => next = 0,
           \A k \in way : k > n + 1 => k \in other,
           GapsClosed(events, n, early, again, way)
    PROVE  GapsClosed(Append(events, e), n + 1, early, next, other)
<1> SUFFICES ASSUME NoRepeat(Append(events, e)),
                    NEW i \in DOMAIN early, Ahead(early, i, n + 1)
             PROVE  /\ InStep(n + 1, early, next)
                    /\ \A k \in n + 2 .. early[i].sequent - 1 :
                         k \in other \/ HasSequent(early, k)
  BY (n + 1) + 1 = n + 2 DEF GapsClosed
<1>1. early[i].sequent \in Int
  BY SequentsAreInt
<1>2. Ahead(early, i, n)
  BY <1>1 DEF Ahead
<1>3. NoRepeat(events)
  BY NoRepeatBefore
<1>4. \A k \in n + 1 .. early[i].sequent - 1 : k \in way \/ HasSequent(early, k)
  BY <1>2, <1>3 DEF GapsClosed
<1>5. InStep(n + 1, early, next)
  BY (n + 1) + 1 = n + 2 DEF InStep
<1> QED
  BY <1>1, <1>4, <1>5

\* An old event is logged again: the follower has repeated something.
LEMMA GapsWhenRepeated ==
    ASSUME NEW events \in Seq(Event), NEW n \in Int, LogOK(events, n),
           NEW e \in Event, e.sequent \in 0 .. n,
           NEW m, NEW early, NEW again, NEW way
    PROVE  GapsClosed(Append(events, e), m, early, again, way)
<1>1. CASE NoRepeat(Append(events, e))
  <2>1. NoRepeat(events) /\ ~ HasSequent(events, e.sequent)
    BY <1>1, NoRepeatBefore
  <2>2. InOrder(events, n)
    BY <2>1 DEF LogOK
  <2> QED
    BY <2>1, <2>2, InOrderHolds
<1> QED
  BY <1>1 DEF GapsClosed

\* An early event is buffered, and all sequents below it are asked for.
LEMMA GapsWhenBuffered ==
    ASSUME NEW events \in Seq(Event), NEW n \in Int, LogOK(events, n),
           NEW early \in Seq(Event), \A i \in DOMAIN early : early[i].sequent >= 1,
           NEW way, NEW other, NEW e \in Event, e.sequent > n + 1,
           \A k \in way : k # e.sequent => k \in other,
           \A k \in 0 .. e.sequent - 1 : ~ HasSequent(events, k) => k \in other,
           GapsClosed(events, n, early, 0, way)
    PROVE  GapsClosed(events, n, Append(early, e), 0, other)
<1>1. PICK late : late = Append(early, e)
  OBVIOUS
<1>2. PICK m \in Nat : m = Len(early)
  OBVIOUS
<1>3. /\ DOMAIN early = 1 .. m /\ DOMAIN late = 1 .. m + 1
      /\ \A i \in 1 .. m : late[i] = early[i] /\ early[i].sequent \in Int
      /\ late[m + 1] = e /\ e.sequent \in Int
  <2>1. \A i \in DOMAIN early : early[i].sequent \in Int
    BY SequentsAreInt
  <2>2. e.sequent \in Int
    BY DEF Event
  <2>3. /\ DOMAIN early = 1 .. m /\ DOMAIN late = 1 .. m + 1
        /\ \A i \in 1 .. m : late[i] = early[i]
        /\ late[m + 1] = e
    BY <1>1, <1>2, AppendProperties
  <2> QED
    BY <2>1, <2>2, <2>3
<1>4. \A k : HasSequent(late, k) <=> HasSequent(early, k) \/ e.sequent = k
  BY <1>1, AppendHasSequent
<1> SUFFICES ASSUME NoRepeat(events), NEW i \in DOMAIN late, Ahead(late, i, n)
             PROVE  /\ InStep(n, late, 0)
                    /\ \A k \in n + 1 .. late[i].sequent - 1 :
                         k \in other \/ HasSequent(late, k)
  BY <1>1 DEF GapsClosed
<1>5. n >= -1 /\ InOrder(events, n)
  BY DEF LogOK
<1>6. ASSUME NEW j \in 1 .. m, Ahead(early, j, n) PROVE ~ HasSequent(early, n + 1)
  <2>1. InStep(n, early, 0)
    BY <1>3, <1>6 DEF GapsClosed
  <2>2. CASE HasSequent(early, n + 1)
    <3>1. n + 1 = 0
      BY <2>1, <2>2 DEF InStep
    <3> QED
      BY <1>3, <2>2, <3>1 DEF HasSequent
  <2> QED
    BY <2>2
<1>7. CASE i \in 1 .. m
  <2>1. Ahead(early, i, n)
    BY <1>3, <1>7 DEF Ahead, Clear
  <2>2. ~ HasSequent(late, n + 1)
    BY <1>3, <1>4, <1>6, <1>7, <2>1
  <2>3. \A k \in n + 1 .. early[i].sequent - 1 : k \in way \/ HasSequent(early, k)
    BY <1>3, <1>7, <2>1 DEF GapsClosed
  <2>4. InStep(n, late, 0)
    BY <2>2 DEF InStep
  <2> QED
    BY <1>3, <1>4, <1>7, <2>3, <2>4
<1>8. CASE i = m + 1
  <2>1. ASSUME NEW j \in 1 .. m, early[j].sequent = n + 1 PROVE FALSE
    <3>1. Clear(early, j)
      BY <1>3, <1>8 DEF Ahead, Clear
    <3>2. Ahead(early, j, n)
      BY <2>1, <3>1 DEF Ahead
    <3> QED
      BY <1>3, <1>6, <2>1, <3>2 DEF HasSequent
  <2>2. ~ HasSequent(late, n + 1)
    BY <1>3, <1>4, <2>1 DEF HasSequent
  <2>3. InStep(n, late, 0)
    BY <2>2 DEF InStep
  <2>4. ASSUME NEW k \in n + 1 .. e.sequent - 1 PROVE k \in other
    <3>1. k \in Int /\ k \in 0 .. e.sequent - 1 /\ ~ (k \in 0 .. n)
      BY <1>3, <1>5
    <3>2. ~ HasSequent(events, k)
      BY <1>5, <3>1, InOrderHolds
    <3> QED
      BY <3>1, <3>2
  <2> QED
    BY <1>3, <1>8, <2>3, <2>4
<1> QED
  BY <1>3, <1>7, <1>8

\* The recursion buffers again what it found: then no edit was ahead.
LEMMA GapsWhenBufferedAgain ==
    ASSUME NEW events, NEW n \in Int, NEW early \in Seq(Event), NEW again, again # 0,
           NEW way, NEW other, NEW j \in DOMAIN early, early[j].sequent = again,
           again > n + 1, NEW next,
           GapsClosed(events, n, early, again, way)
    PROVE  GapsClosed(events, n, Append(early, early[j]), next, other)
<1>1. PICK late : late = Append(early, early[j])
  OBVIOUS
<1>2. PICK m \in Nat : m = Len(early)
  OBVIOUS
<1>3. /\ DOMAIN early = 1 .. m /\ DOMAIN late = 1 .. m + 1
      /\ \A i \in 1 .. m : late[i] = early[i] /\ early[i].sequent \in Int
      /\ late[m + 1] = early[j] /\ j \in 1 .. m
  <2>1. early[j] \in Event
    OBVIOUS
  <2>2. \A i \in DOMAIN early : early[i].sequent \in Int
    BY SequentsAreInt
  <2> QED
    BY <1>1, <1>2, <2>1, <2>2
<1>4. ASSUME NoRepeat(events), NEW i \in DOMAIN early, Ahead(early, i, n) PROVE FALSE
  <2>1. again = n + 1
    BY <1>4 DEF GapsClosed, InStep
  <2> QED
    BY <2>1
<1>5. ASSUME NoRepeat(events), NEW i \in DOMAIN late, Ahead(late, i, n) PROVE FALSE
  <2>1. CASE i \in 1 .. m
    <3>1. Ahead(early, i, n)
      BY <1>3, <1>5, <2>1 DEF Ahead, Clear
    <3> QED
      BY <1>3, <1>4, <1>5, <2>1, <3>1
  <2>2. CASE i = m + 1
    <3>1. Clear(early, j)
      BY <1>3, <1>5, <2>2 DEF Ahead, Clear
    <3>2. Ahead(early, j, n)
      BY <1>3, <3>1 DEF Ahead
    <3> QED
      BY <1>4, <1>5, <3>2
  <2> QED
    BY <1>3, <2>1, <2>2
<1> QED
  BY <1>1, <1>5 DEF GapsClosed

\* The recursion is at an old event, or a VIEW: then no edit was ahead.
LEMMA GapsWhenNotNext ==
    ASSUME NEW events, NEW n \in Int, NEW early \in Seq(Event), NEW again, again # 0,
           NEW way, NEW other, NEW next,
           NEW j \in DOMAIN early, early[j].sequent = again,
           \A i \in 1 .. j - 1 : early[i].sequent # again,
           again # n + 1 \/ IsView(early[j]),
           ViewsLast(<<>>, early),
           GapsClosed(events, n, early, again, way)
    PROVE  GapsClosed(events, n, early, next, other)
<1>1. ASSUME NoRepeat(events), NEW i \in DOMAIN early, Ahead(early, i, n) PROVE FALSE
  <2>1. again = n + 1
    BY <1>1 DEF GapsClosed, InStep
  <2>2. IsView(early[j])
    BY <2>1
  <2>3. Clear(early, i) /\ early[i].sequent > n
    BY <1>1 DEF Ahead
  <2>4. early[i].sequent <= n + 1
    BY <2>1, <2>2, <2>3 DEF ViewsLast
  <2>5. early[i].sequent = again
    BY <2>1, <2>3, <2>4, SequentsAreInt
  <2>6. j \in 1 .. i
    BY <2>5
  <2> QED
    BY <2>2, <2>3, <2>6 DEF Clear
<1> QED
  BY <1>1 DEF GapsClosed

-----------------------------------------------------------------------------
(* Queues and buffers.                                                     *)

\* An event is queued that is no VIEW, or bears the highest sequent.
LEMMA ViewsWhenSent ==
    ASSUME NEW queue \in Seq(Event), NEW early \in Seq(Event), NEW e \in Event,
           ViewsLast(queue, early),
           IsView(e) => /\ \A i \in DOMAIN queue : queue[i].sequent <= e.sequent
                        /\ \A i \in DOMAIN early : early[i].sequent <= e.sequent
    PROVE  ViewsLast(Append(queue, e), early)
<1>1. PICK after : after = Append(queue, e)
  OBVIOUS
<1>2. PICK m \in Nat : m = Len(queue)
  OBVIOUS
<1>3. /\ DOMAIN queue = 1 .. m /\ DOMAIN after = 1 .. m + 1
      /\ \A i \in 1 .. m : after[i] = queue[i]
      /\ after[m + 1] = e
  BY <1>1, <1>2, AppendProperties
<1>4. ASSUME NEW k \in 1 .. m + 1, IsView(after[k])
      PROVE  /\ \A i \in 1 .. k - 1 : after[i].sequent <= after[k].sequent
             /\ \A i \in DOMAIN early : early[i].sequent <= after[k].sequent
  <2>1. CASE k \in 1 .. m
    <3>1. after[k] = queue[k] /\ \A i \in 1 .. k - 1 : after[i] = queue[i]
      BY <1>3, <2>1
    <3> QED
      BY <1>3, <1>4, <2>1, <3>1 DEF ViewsLast
  <2>2. CASE k = m + 1
    BY <1>3, <1>4, <2>2
  <2> QED
    BY <2>1, <2>2
<1> QED
  BY <1>1, <1>3, <1>4 DEF ViewsLast

\* The head of a queue is taken away.
LEMMA TailParts ==
    ASSUME NEW queue \in Seq(Event), queue # <<>>, NEW rest, rest = Tail(queue)
    PROVE  /\ rest \in Seq(Event)
           /\ 1 \in DOMAIN queue /\ Head(queue) = queue[1] /\ Head(queue) \in Event
           /\ \A i \in DOMAIN rest : i + 1 \in DOMAIN queue /\ rest[i] = queue[i + 1]
           /\ \A i \in DOMAIN queue : i # 1 => i - 1 \in DOMAIN rest /\ rest[i - 1] = queue[i]
<1>1. PICK m \in Nat : m = Len(queue)
  OBVIOUS
<1>2. m # 0
  BY <1>1
<1>3. /\ DOMAIN queue = 1 .. m /\ rest \in Seq(Event) /\ Len(rest) = m - 1
      /\ \A i \in 1 .. m - 1 : rest[i] = queue[i + 1]
  BY <1>1, <1>2, HeadTailProperties
<1>4. DOMAIN rest = 1 .. m - 1 /\ 1 \in 1 .. m /\ queue[1] \in Event
  BY <1>1, <1>2, <1>3
<1>5. \A i \in DOMAIN queue : i # 1 => i - 1 \in 1 .. m - 1 /\ rest[i - 1] = queue[(i - 1) + 1]
  BY <1>3
<1> QED
  BY <1>1, <1>2, <1>3, <1>4, <1>5

LEMMA ViewsWhenTaken ==
    ASSUME NEW queue \in Seq(Event), queue # <<>>, NEW early, ViewsLast(queue, early)
    PROVE  ViewsLast(Tail(queue), early)
<1>1. PICK rest : rest = Tail(queue)
  OBVIOUS
<1>2. /\ \A i \in DOMAIN rest : i + 1 \in DOMAIN queue /\ rest[i] = queue[i + 1]
      /\ rest \in Seq(Event)
  BY <1>1, TailParts
<1>3. ASSUME NEW k \in DOMAIN rest, IsView(rest[k])
      PROVE  /\ \A i \in 1 .. k - 1 : rest[i].sequent <= rest[k].sequent
             /\ \A i \in DOMAIN early : early[i].sequent <= rest[k].sequent
  <2>1. k + 1 \in DOMAIN queue /\ rest[k] = queue[k + 1] /\ k \in Nat
    BY <1>2
  <2>2. ASSUME NEW i \in 1 .. k - 1 PROVE rest[i].sequent <= rest[k].sequent
    <3>1. i \in DOMAIN rest /\ i + 1 \in 1 .. (k + 1) - 1
      BY <1>2, <2>1
    <3> QED
      BY <1>2, <1>3, <2>1, <3>1 DEF ViewsLast
  <2> QED
    BY <1>3, <2>1, <2>2 DEF ViewsLast
<1> QED
  BY <1>1, <1>3 DEF ViewsLast

\* The head of the queue, or again an event of the buffer, is buffered.
LEMMA ViewsWhenBuffered ==
    ASSUME NEW queue \in Seq(Event), NEW early \in Seq(Event), NEW e \in Event,
           ViewsLast(queue, early),
           \A k \in DOMAIN queue : IsView(queue[k]) => e.sequent <= queue[k].sequent,
           IsView(e) => \A i \in DOMAIN early :
                          Clear(early, i) => early[i].sequent <= e.sequent
    PROVE  ViewsLast(queue, Append(early, e))
<1>1. PICK late : late = Append(early, e)
  OBVIOUS
<1>2. PICK m \in Nat : m = Len(early)
  OBVIOUS
<1>3. /\ DOMAIN early = 1 .. m /\ DOMAIN late = 1 .. m + 1
      /\ \A i \in 1 .. m : late[i] = early[i]
      /\ late[m + 1] = e
  BY <1>1, <1>2, AppendProperties
<1>4. ASSUME NEW i \in 1 .. m + 1, NEW j \in 1 .. m + 1, Clear(late, i), IsView(late[j])
      PROVE  late[i].sequent <= late[j].sequent
  <2>1. i # m + 1 /\ i \in 1 .. m
    <3>1. CASE i = m + 1
      BY <1>4, <3>1 DEF Clear
    <3> QED
      BY <3>1
  <2>2. Clear(early, i) /\ late[i] = early[i]
    BY <1>3, <1>4, <2>1 DEF Clear
  <2>3. CASE j \in 1 .. m
    BY <1>3, <1>4, <2>1, <2>2, <2>3 DEF ViewsLast
  <2>4. CASE j = m + 1
    BY <1>3, <1>4, <2>1, <2>2, <2>4
  <2> QED
    BY <2>3, <2>4
<1>5. ASSUME NEW k \in DOMAIN queue, IsView(queue[k])
      PROVE  /\ \A i \in 1 .. k - 1 : queue[i].sequent <= queue[k].sequent
             /\ \A i \in DOMAIN late : late[i].sequent <= queue[k].sequent
  <2>1. /\ \A i \in 1 .. k - 1 : queue[i].sequent <= queue[k].sequent
        /\ \A i \in DOMAIN early : early[i].sequent <= queue[k].sequent
    BY <1>5 DEF ViewsLast
  <2>2. e.sequent <= queue[k].sequent
    BY <1>5
  <2>3. ASSUME NEW i \in 1 .. m + 1 PROVE late[i].sequent <= queue[k].sequent
    BY <1>3, <2>1, <2>2
  <2> QED
    BY <1>3, <2>1, <2>3
<1> QED
  BY <1>1, <1>3, <1>4, <1>5 DEF ViewsLast

LEMMA ViewsNone ==
    ASSUME NEW queue, NEW early, ViewsLast(queue, early)
    PROVE  ViewsLast(<<>>, early) /\ ViewsLast(<<>>, <<>>)
BY DEF ViewsLast

\* Sequents: an event is queued, taken, or buffered.
LEMMA SequentsWhenSent ==
    ASSUME NEW queue \in Seq(Event), NEW early, NEW e \in Event, NEW top \in Int,
           Sequents(queue, early, top), e.sequent < top
    PROVE  Sequents(Append(queue, e), early, top)
<1>1. \A i \in DOMAIN Append(queue, e) :
        \/ i \in DOMAIN queue /\ Append(queue, e)[i] = queue[i]
        \/ Append(queue, e)[i] = e
  OBVIOUS
<1> QED
  BY <1>1 DEF Sequents

LEMMA SequentsWhenTaken ==
    ASSUME NEW queue \in Seq(Event), queue # <<>>, NEW early, NEW top,
           Sequents(queue, early, top)
    PROVE  Sequents(Tail(queue), early, top)
<1>1. PICK rest : rest = Tail(queue)
  OBVIOUS
<1>2. \A i \in DOMAIN rest : i + 1 \in DOMAIN queue /\ rest[i] = queue[i + 1]
  BY <1>1, TailParts
<1> QED
  BY <1>1, <1>2 DEF Sequents

LEMMA SequentsWhenBuffered ==
    ASSUME NEW queue, NEW early \in Seq(Event), NEW e \in Event, NEW top,
           Sequents(queue, early, top),
           e.sequent >= 1, e.sequent < top, e.sequent < Radix
    PROVE  Sequents(queue, Append(early, e), top)
<1>1. \A i \in DOMAIN Append(early, e) :
        \/ i \in DOMAIN early /\ Append(early, e)[i] = early[i]
        \/ Append(early, e)[i] = e
  OBVIOUS
<1> QED
  BY <1>1 DEF Sequents

LEMMA SequentsRaised ==
    ASSUME NEW queue \in Seq(Event), NEW early \in Seq(Event),
           NEW top \in Int, NEW higher \in Int, top <= higher, Sequents(queue, early, top)
    PROVE  Sequents(queue, early, higher)
<1>1. /\ \A i \in DOMAIN queue : queue[i].sequent \in Int
      /\ \A i \in DOMAIN early : early[i].sequent \in Int
  BY SequentsAreInt
<1> QED
  BY <1>1 DEF Sequents

-----------------------------------------------------------------------------
(* What apply_event does, and what that does to the gaps.                  *)

\* The recursion goes on with the successor of sequent n, or ends.
Successor(early, n, next) ==
    /\ HasSequent(early, n + 1) => next = n + 1
    /\ ~ HasSequent(early, n + 1) => next = 0

\* The outcomes, for a replica with this log, lastSequent and buffer: what becomes
\* of them, and where the recursion is next.  Only a deletion is ever too long.
Buffered(e, events, n, early, events2, n2, early2, next) ==
    /\ e.sequent > n + 1 /\ events2 = events /\ n2 = n
    /\ early2 = Append(early, e) /\ next = 0

Refused(e, events, n, early, events2, n2, early2, next) ==
    /\ e.sequent <= n + 1 /\ events2 = events /\ n2 = n /\ early2 = early /\ next = 0

Viewed(e, events, n, early, events2, n2, early2, next) ==
    /\ e.sequent <= n + 1 /\ IsView(e) /\ events2 = events /\ n2 = n /\ early2 = early
    /\ Successor(early, e.sequent, next)

Performs(e, events, n, early, events2, n2, early2, next) ==
    /\ e.sequent <= n + 1 /\ ~ IsView(e) /\ events2 = Append(events, e)
    /\ n2 = e.sequent /\ early2 = early
    /\ Successor(early, e.sequent, next)

Outcome(e, long, events, n, early, events2, n2, early2, next) ==
    \/ Buffered(e, events, n, early, events2, n2, early2, next)
    \/ long /\ Refused(e, events, n, early, events2, n2, early2, next)
    \/ Viewed(e, events, n, early, events2, n2, early2, next)
    \/ Performs(e, events, n, early, events2, n2, early2, next)

LEMMA ApplyEventOutcome ==
    ASSUME ReplicaTypes(Event), NEW p \in Peer, NEW e \in Event,
           LogOK(log[p], last[p]), ApplyEvent(p, e)
    PROVE  /\ Outcome(e, TooLong(p, e.edit), log[p], last[p], buffer[p],
                      log'[p], last'[p], buffer'[p], resume'[p])
           /\ \A q \in Peer \ {p} : /\ log'[q] = log[q] /\ last'[q] = last[q]
                                    /\ buffer'[q] = buffer[q] /\ resume'[q] = resume[q]
<1> USE DEF ReplicaTypes
<1>1. CASE BufferEvent(p, e)
  BY <1>1 DEF BufferEvent, Outcome, Buffered
<1>2. CASE RefuseDelete(p, e)
  BY <1>2 DEF RefuseDelete, Outcome, Refused
<1>3. CASE PerformEvent(p, e)
  <2>1. /\ e.sequent <= last[p] + 1
        /\ Successor(buffer[p], e.sequent, resume'[p])
        /\ buffer'[p] = buffer[p]
        /\ \A q \in Peer \ {p} : buffer'[q] = buffer[q] /\ resume'[q] = resume[q]
    BY <1>3 DEF PerformEvent, Successor
  <2>2. CASE IsView(e)
    BY <1>3, <2>1, <2>2 DEF PerformEvent, IsView, Outcome, Viewed
  <2>3. CASE ~ IsView(e)
    <3>1. PutInLog(p, e)
      BY <1>3, <2>3 DEF PerformEvent, IsView
    <3>2. /\ log' = [log EXCEPT ![p] = Append(log[p], e)]
          /\ last' = [last EXCEPT ![p] = e.sequent]
      BY <3>1 DEF PutInLog, LogOK, LastInLog
    <3> QED
      BY <2>1, <2>3, <3>2 DEF Outcome, Performs
  <2> QED
    BY <2>2, <2>3
<1> QED
  BY <1>1, <1>2, <1>3 DEF ApplyEvent

\* Sequent k is not the next one of a follower that repeated nothing, when the
\* deletion it bears is too long.
Possible(k, long, events, n) == long /\ NoRepeat(events) => k # n + 1

\* At most e is taken off the way, and no VIEW counts.
TakesOff(e, way, other) == \A k \in way : k # e.sequent \/ IsView(e) => k \in other

\* All that is missing below an early event is on the way.
AsksBelow(e, events, n, way) ==
    e.sequent > n + 1 =>
        \A k \in 0 .. e.sequent - 1 : ~ HasSequent(events, k) => k \in way

\* A VIEW bears no sequent lower than those of the events buffered before it.
AfterBuffered(e, early) ==
    IsView(e) => \A i \in DOMAIN early : early[i].sequent <= e.sequent

\* What find_sequent_in_log finds: the first event with this sequent.
FirstAt(early, j, k) ==
    early[j].sequent = k /\ \A i \in 1 .. j - 1 : early[i].sequent # k

\* A follower takes the head of its queue in.
LEMMA GapsWhenReceived ==
    ASSUME NEW events \in Seq(Event), NEW n \in Int, LogOK(events, n),
           NEW early \in Seq(Event), NEW queue, NEW top \in Int,
           Sequents(queue, early, top),
           NEW way, NEW other, NEW e \in Event, e.sequent \in Nat,
           NEW long, NEW events2, NEW n2, NEW early2, NEW next,
           Outcome(e, long, events, n, early, events2, n2, early2, next),
           TakesOff(e, way, other), AsksBelow(e, events, n, other),
           AfterBuffered(e, early), Possible(e.sequent, long, events, n),
           GapsClosed(events, n, early, 0, way)
    PROVE  GapsClosed(events2, n2, early2, next, other)
<1> USE DEF TakesOff, AsksBelow, AfterBuffered, Possible, Sequents
<1>0. e.sequent \in Int
  OBVIOUS
<1>1. CASE Buffered(e, events, n, early, events2, n2, early2, next)
  BY <1>1, GapsWhenBuffered DEF Buffered
<1>2. CASE long /\ Refused(e, events, n, early, events2, n2, early2, next)
  <2>1. CASE NoRepeat(events)
    <3>1. e.sequent < n + 1
      BY <1>0, <1>2, <2>1 DEF Refused
    <3>2. \A k \in way : k < top /\ k > n => k \in other
      BY <1>0, <3>1
    <3>3. GapsClosed(events, n, early, 0, other)
      BY <3>2, GapsMonotone
    <3> QED
      BY <1>2, <3>3 DEF Refused
  <2>2. CASE ~ NoRepeat(events)
    BY <1>2, <2>2 DEF Refused, GapsClosed
  <2> QED
    BY <2>1, <2>2
<1>3. CASE Viewed(e, events, n, early, events2, n2, early2, next)
  <2>1. IsView(e) /\ events2 = events /\ n2 = n /\ early2 = early
    BY <1>3 DEF Viewed
  <2>2. \A i \in DOMAIN early : early[i].sequent \in Int
    BY SequentsAreInt
  <2>3. ~ HasSequent(early, e.sequent + 1)
    BY <1>0, <2>1, <2>2 DEF HasSequent
  <2>4. next = 0
    BY <1>3, <2>3 DEF Viewed, Successor
  <2>5. \A k \in way : k < top /\ k > n => k \in other
    BY <2>1
  <2>6. GapsClosed(events, n, early, 0, other)
    BY <2>5, GapsMonotone
  <2> QED
    BY <2>1, <2>4, <2>6
<1>4. CASE Performs(e, events, n, early, events2, n2, early2, next)
  <2>1. /\ ~ IsView(e) /\ events2 = Append(events, e) /\ n2 = e.sequent /\ early2 = early
        /\ Successor(early, e.sequent, next) /\ e.sequent <= n + 1
    BY <1>4 DEF Performs
  <2>2. CASE e.sequent = n + 1
    <3>1. \A k \in way : k > n + 1 => k \in other
      BY <2>2
    <3>2. e.sequent + 1 = n + 2
      BY <2>2
    <3>3. /\ HasSequent(early, n + 2) => next = n + 2
          /\ ~ HasSequent(early, n + 2) => next = 0
      BY <2>1, <3>2 DEF Successor
    <3>4. GapsClosed(Append(events, e), n + 1, early, next, other)
      BY <2>2, <3>1, <3>3, GapsWhenLogged
    <3> QED
      BY <2>1, <2>2, <3>4
  <2>3. CASE e.sequent # n + 1
    <3>1. e.sequent \in 0 .. n
      BY <1>0, <2>1, <2>3
    <3> QED
      BY <2>1, <3>1, GapsWhenRepeated
  <2> QED
    BY <2>2, <2>3
<1> QED
  BY <1>1, <1>2, <1>3, <1>4 DEF Outcome

\* apply_event recurses on what it finds in the buffer.
LEMMA GapsWhenResumed ==
    ASSUME NEW events \in Seq(Event), NEW n \in Int, LogOK(events, n),
           NEW early \in Seq(Event), ViewsLast(<<>>, early),
           NEW way, NEW again \in Nat, again # 0,
           NEW j \in DOMAIN early, FirstAt(early, j, again),
           NEW long, NEW events2, NEW n2, NEW early2, NEW next,
           Outcome(early[j], long, events, n, early, events2, n2, early2, next),
           Possible(again, long, events, n),
           GapsClosed(events, n, early, again, way)
    PROVE  GapsClosed(events2, n2, early2, next, way)
<1> USE DEF FirstAt, Possible
<1>1. PICK e \in Event : e = early[j]
  OBVIOUS
<1>2. Outcome(e, long, events, n, early, events2, n2, early2, next) /\ e.sequent = again
  BY <1>1
<1>3. CASE Buffered(e, events, n, early, events2, n2, early2, next)
  BY <1>1, <1>2, <1>3, GapsWhenBufferedAgain DEF Buffered
<1>4. CASE long /\ Refused(e, events, n, early, events2, n2, early2, next)
  <2>1. CASE NoRepeat(events)
    BY <1>4, <2>1, GapsWhenNotNext DEF Refused
  <2>2. CASE ~ NoRepeat(events)
    BY <1>4, <2>2 DEF Refused, GapsClosed
  <2> QED
    BY <2>1, <2>2
<1>5. CASE Viewed(e, events, n, early, events2, n2, early2, next)
  BY <1>1, <1>5, GapsWhenNotNext DEF Viewed
<1>6. CASE Performs(e, events, n, early, events2, n2, early2, next)
  <2>1. /\ events2 = Append(events, e) /\ n2 = again /\ early2 = early
        /\ Successor(early, again, next) /\ again <= n + 1
    BY <1>2, <1>6 DEF Performs
  <2>2. CASE again = n + 1
    <3>1. again + 1 = n + 2
      BY <2>2
    <3>2. /\ HasSequent(early, n + 2) => next = n + 2
          /\ ~ HasSequent(early, n + 2) => next = 0
      BY <2>1, <3>1 DEF Successor
    <3>3. GapsClosed(Append(events, e), n + 1, early, next, way)
      BY <1>2, <2>2, <3>2, GapsWhenLogged
    <3> QED
      BY <2>1, <2>2, <3>3
  <2>3. CASE again # n + 1
    <3>1. e.sequent \in 0 .. n
      BY <1>2, <2>1, <2>3
    <3> QED
      BY <2>1, <3>1, GapsWhenRepeated
  <2> QED
    BY <2>2, <2>3
<1> QED
  BY <1>2, <1>3, <1>4, <1>5, <1>6 DEF Outcome

-----------------------------------------------------------------------------
(* Deletions.                                                              *)

\* A follower in step with the master has the document the master deleted from.
LEMMA DeletionFits ==
    ASSUME IInv, DocumentsMade, Performed(log[Master]),
           NEW f \in Follower, NEW e, Logged(e), e.sequent = last[f] + 1, NoRepeat(log[f])
    PROVE  ~ TooLong(f, e.edit)
<1>1. /\ f \in Peer /\ Master \in Peer /\ ReplicaOK(f)
      /\ log[f] \in Seq(Event) /\ log[Master] \in Seq(Event)
  BY ConstantsAssumption DEF IInv, TypeOK, Follower
<1>2. PICK n \in Nat : n = Len(log[f])
  BY <1>1
<1>3. PICK m \in Nat : m = Len(log[Master])
  BY <1>1
<1>4. InOrder(log[f], last[f])
  BY <1>1 DEF ReplicaOK, LogOK
<1>5. /\ last[f] = n - 1 /\ DOMAIN log[f] = 1 .. n /\ DOMAIN log[Master] = 1 .. m
      /\ \A i \in 1 .. n : log[f][i].sequent = i - 1
  BY <1>1, <1>2, <1>3, <1>4 DEF InOrder
<1>6. n + 1 \in 1 .. m /\ e = log[Master][n + 1]
  <2>1. e.sequent = n /\ e.sequent \in 0 .. m - 1 /\ e = log[Master][e.sequent + 1]
    BY <1>2, <1>3, <1>5 DEF Logged
  <2> QED
    BY <2>1
<1>7. \A i \in 1 .. n : log[f][i] = log[Master][i]
  <2>1. ASSUME NEW i \in 1 .. n PROVE log[f][i] = log[Master][i]
    <3>1. Logged(log[f][i]) /\ log[f][i].sequent = i - 1
      BY <1>1, <1>5 DEF ReplicaOK
    <3>2. log[f][i] = log[Master][(i - 1) + 1] /\ (i - 1) + 1 = i
      BY <3>1 DEF Logged
    <3> QED
      BY <3>2
  <2> QED
    BY <2>1
<1>8. log[f] = SubSeq(log[Master], 1, n)
  BY <1>1, <1>2, <1>3, <1>5, <1>6, <1>7
<1>9. document[f] = Replayed(log[f])
  BY <1>1 DEF DocumentsMade
<1>10. e.edit.type = "DELT" => e.edit.count <= Len(Replayed(SubSeq(log[Master], 1, n)))
  <2>1. (n + 1) - 1 = n
    OBVIOUS
  <2> QED
    BY <1>5, <1>6, <2>1 DEF Performed
<1>11. e.edit.type = "DELT" => e.edit.count \in Nat /\ Len(document[f]) \in Nat
  <2>1. e \in Event /\ document[f] \in Seq(Char)
    BY <1>1, <1>5, <1>6 DEF IInv, TypeOK
  <2>2. e.edit \in Edit
    BY <2>1 DEF Event
  <2>3. e.edit.count \in Nat
    BY <2>2, ConstantsAssumption
  <2> QED
    BY <2>1, <2>3
<1> QED
  BY <1>8, <1>9, <1>10, <1>11 DEF TooLong

\* The master logs an edit only when it can be performed.
LEMMA PerformedAppend ==
    ASSUME NEW events \in Seq(Event), NEW e \in Event, Performed(events), ~ IsView(e),
           e.edit.type = "DELT" => e.edit.count <= Len(Replayed(events))
    PROVE  Performed(Append(events, e))
<1>1. PICK after : after = Append(events, e)
  OBVIOUS
<1>2. PICK m \in Nat : m = Len(events)
  OBVIOUS
<1>3. /\ DOMAIN events = 1 .. m /\ DOMAIN after = 1 .. m + 1
      /\ \A i \in 1 .. m : after[i] = events[i]
      /\ after[m + 1] = e /\ after \in Seq(Event) /\ Len(after) = m + 1
  BY <1>1, <1>2, AppendProperties
<1>4. ASSUME NEW i \in 1 .. m + 1 PROVE SubSeq(after, 1, i - 1) = SubSeq(events, 1, i - 1)
  BY <1>2, <1>3
<1>5. SubSeq(events, 1, m) = events
  BY <1>2, <1>3
<1>6. ASSUME NEW i \in 1 .. m + 1
      PROVE  /\ ~ IsView(after[i])
             /\ after[i].edit.type = "DELT" =>
                  after[i].edit.count <= Len(Replayed(SubSeq(after, 1, i - 1)))
  <2>1. CASE i \in 1 .. m
    BY <1>3, <1>4, <2>1 DEF Performed
  <2>2. CASE i = m + 1
    <3>1. i - 1 = m
      BY <2>2
    <3> QED
      BY <1>3, <1>4, <1>5, <2>2, <3>1
  <2> QED
    BY <2>1, <2>2
<1> QED
  BY <1>1, <1>3, <1>6 DEF Performed

-----------------------------------------------------------------------------
(* What is on its way.                                                     *)

Request == [sequent : Nat, from : Follower]
Unasked == (SUBSET Nat) \ {{}}

\* The elements of a sequence after something is appended.
LEMMA AppendElements ==
    ASSUME NEW S, NEW s \in Seq(S), NEW x \in S, NEW more, more = Append(s, x)
    PROVE  /\ \A i \in DOMAIN s : i \in DOMAIN more /\ more[i] = s[i]
           /\ \E i \in DOMAIN more : more[i] = x
<1>1. Len(s) + 1 \in DOMAIN more /\ more[Len(s) + 1] = x
  BY AppendProperties
<1>2. \A i \in DOMAIN s : i \in DOMAIN more /\ more[i] = s[i]
  BY AppendProperties
<1> QED
  BY <1>1, <1>2

\* Another request, event or replay thread takes nothing away.
LEMMA RequestGrows ==
    ASSUME NEW asking, NEW asked \in Seq(Request), NEW queue, NEW f, NEW r \in Request
    PROVE  /\ Way(asking, asked, queue, f) \subseteq Way(asking, Append(asked, r), queue, f)
           /\ r.from = f => r.sequent \in Way(asking, Append(asked, r), queue, f)
<1>1. PICK more : more = Append(asked, r)
  OBVIOUS
<1>2. /\ \A i \in DOMAIN asked : i \in DOMAIN more /\ more[i] = asked[i]
      /\ \E i \in DOMAIN more : more[i] = r
  BY <1>1, AppendElements
<1>3. r.sequent \in Nat
  BY DEF Request
<1>4. Way(asking, asked, queue, f) \subseteq Way(asking, more, queue, f)
  BY <1>2 DEF Way
<1>5. r.from = f => r.sequent \in Way(asking, more, queue, f)
  BY <1>2, <1>3 DEF Way
<1> QED
  BY <1>1, <1>4, <1>5

LEMMA EventGrows ==
    ASSUME NEW asking, NEW asked, NEW queue \in Seq(Event), NEW f, NEW e \in Event
    PROVE  /\ Way(asking, asked, queue, f) \subseteq Way(asking, asked, Append(queue, e), f)
           /\ ~ IsView(e) /\ e.sequent \in Nat =>
                e.sequent \in Way(asking, asked, Append(queue, e), f)
<1>1. PICK more : more = Append(queue, e)
  OBVIOUS
<1>2. /\ \A i \in DOMAIN queue : i \in DOMAIN more /\ more[i] = queue[i]
      /\ \E i \in DOMAIN more : more[i] = e
  BY <1>1, AppendElements
<1>3. Way(asking, asked, queue, f) \subseteq Way(asking, asked, more, f)
  BY <1>2 DEF Way
<1>4. ~ IsView(e) /\ e.sequent \in Nat => e.sequent \in Way(asking, asked, more, f)
  BY <1>2 DEF Way
<1> QED
  BY <1>1, <1>3, <1>4

LEMMA WayThread ==
    ASSUME NEW asking \in Seq(Unasked), NEW asked, NEW queue, NEW f, NEW S \in Unasked
    PROVE  /\ Way(asking, asked, queue, f) \subseteq Way(Append(asking, S), asked, queue, f)
           /\ S \subseteq Way(Append(asking, S), asked, queue, f)
<1>1. PICK more : more = Append(asking, S)
  OBVIOUS
<1>2. /\ \A i \in DOMAIN asking : i \in DOMAIN more /\ more[i] = asking[i]
      /\ \E i \in DOMAIN more : more[i] = S
  BY <1>1, AppendElements
<1>3. S \subseteq Nat
  BY DEF Unasked
<1>4. Way(asking, asked, queue, f) \subseteq Way(more, asked, queue, f)
  BY <1>2 DEF Way
<1>5. S \subseteq Way(more, asked, queue, f)
  BY <1>2, <1>3 DEF Way
<1> QED
  BY <1>1, <1>4, <1>5

\* Taking an event, or answering a request, takes that one off the way at most.
LEMMA WayTaken ==
    ASSUME NEW asking, NEW asked, NEW queue \in Seq(Event), NEW f, queue # <<>>
    PROVE  \A k \in Way(asking, asked, queue, f) :
             k # Head(queue).sequent \/ IsView(Head(queue)) =>
                 k \in Way(asking, asked, Tail(queue), f)
<1>1. PICK rest : rest = Tail(queue)
  OBVIOUS
<1>2. /\ Head(queue) = queue[1]
      /\ \A i \in DOMAIN queue : i # 1 => i - 1 \in DOMAIN rest /\ rest[i - 1] = queue[i]
  BY <1>1, TailParts
<1> SUFFICES ASSUME NEW k \in Way(asking, asked, queue, f),
                    k # Head(queue).sequent \/ IsView(Head(queue))
             PROVE  k \in Way(asking, asked, rest, f)
  BY <1>1
<1> HIDE DEF IsView
<1>3. CASE \E i \in DOMAIN queue : queue[i].sequent = k /\ ~ IsView(queue[i])
  <2>1. PICK i \in DOMAIN queue : queue[i].sequent = k /\ ~ IsView(queue[i])
    BY <1>3
  <2>2. i # 1
    BY <1>2, <2>1
  <2>3. \E j \in DOMAIN rest : rest[j] = queue[i]
    BY <1>2, <2>2
  <2>4. \E j \in DOMAIN rest : rest[j].sequent = k /\ ~ IsView(rest[j])
    BY <2>1, <2>3
  <2> QED
    BY <2>4 DEF Way
<1>4. CASE ~ \E i \in DOMAIN queue : queue[i].sequent = k /\ ~ IsView(queue[i])
  BY <1>4 DEF Way
<1> QED
  BY <1>3, <1>4

LEMMA WayAnswered ==
    ASSUME NEW asking, NEW asked \in Seq(Request), NEW queue, NEW f, asked # <<>>
    PROVE  \A k \in Way(asking, asked, queue, f) :
             Head(asked).from # f \/ k # Head(asked).sequent =>
                 k \in Way(asking, Tail(asked), queue, f)
<1>1. PICK rest : rest = Tail(asked)
  OBVIOUS
<1>2. /\ Head(asked) = asked[1]
      /\ \A i \in DOMAIN asked : i # 1 => i - 1 \in DOMAIN rest /\ rest[i - 1] = asked[i]
  <2>1. PICK m \in Nat : m = Len(asked)
    OBVIOUS
  <2>2. /\ DOMAIN asked = 1 .. m /\ Len(rest) = m - 1 /\ rest \in Seq(Request)
        /\ \A i \in 1 .. m - 1 : rest[i] = asked[i + 1]
    BY <1>1, <2>1, HeadTailProperties
  <2>3. \A i \in 1 .. m : i # 1 => i - 1 \in 1 .. m - 1 /\ rest[i - 1] = asked[(i - 1) + 1]
    BY <2>2
  <2> QED
    BY <2>1, <2>2, <2>3
<1> SUFFICES ASSUME NEW k \in Way(asking, asked, queue, f),
                    Head(asked).from # f \/ k # Head(asked).sequent
             PROVE  k \in Way(asking, rest, queue, f)
  BY <1>1
<1> HIDE DEF IsView
<1>3. CASE \E i \in DOMAIN asked : asked[i].from = f /\ asked[i].sequent = k
  <2>1. PICK i \in DOMAIN asked : asked[i].from = f /\ asked[i].sequent = k
    BY <1>3
  <2>2. i # 1
    BY <1>2, <2>1
  <2>3. \E j \in DOMAIN rest : rest[j] = asked[i]
    BY <1>2, <2>2
  <2>4. \E j \in DOMAIN rest : rest[j].from = f /\ rest[j].sequent = k
    BY <2>1, <2>3
  <2> QED
    BY <2>4 DEF Way
<1>4. CASE ~ \E i \in DOMAIN asked : asked[i].from = f /\ asked[i].sequent = k
  BY <1>4 DEF Way
<1> QED
  BY <1>3, <1>4

\* The first a elements of a sequence and its last b, but for the one between.
Ends(s, a, b) == SubSeq(s, 1, a) \o SubSeq(s, a + 2, a + b + 1)

LEMMA OthersStayCounted ==
    ASSUME NEW S, NEW s \in Seq(S), NEW a \in Nat, NEW b \in Nat, Len(s) = a + b + 1,
           NEW j \in 1 .. Len(s), j # a + 1
    PROVE  \E h \in DOMAIN Ends(s, a, b) : Ends(s, a, b)[h] = s[j]
<1>0. PICK out : out = Ends(s, a, b)
  OBVIOUS
<1> SUFFICES \E h \in DOMAIN out : out[h] = s[j]
  BY <1>0
<1>1. PICK head : head = SubSeq(s, 1, a)
  OBVIOUS
<1>2. PICK tail : tail = SubSeq(s, a + 2, a + b + 1)
  OBVIOUS
<1>3. \A h \in 1 .. a + b + 1 : s[h] \in S
  OBVIOUS
<1>4. /\ head \in Seq(S) /\ Len(head) = a
      /\ \A h \in 1 .. a : head[h] = s[h]
  <2>1. \A h \in 1 .. a : s[h] \in S
    BY <1>3
  <2>2. /\ head \in Seq(S) /\ Len(head) = IF 1 <= a THEN a - 1 + 1 ELSE 0
        /\ \A h \in 1 .. a - 1 + 1 : head[h] = s[1 + h - 1]
    BY <1>1, <2>1, SubSeqProperties
  <2>3. \A h \in 1 .. a : 1 + h - 1 = h /\ h \in 1 .. a - 1 + 1
    OBVIOUS
  <2>4. Len(head) = a
    BY <2>2
  <2> QED
    BY <2>2, <2>3, <2>4
<1>5. /\ tail \in Seq(S) /\ Len(tail) = b
      /\ \A h \in 1 .. b : tail[h] = s[h + a + 1]
  <2>1. \A h \in a + 2 .. a + b + 1 : s[h] \in S
    BY <1>3
  <2>2. /\ tail \in Seq(S)
        /\ Len(tail) = IF a + 2 <= a + b + 1 THEN a + b + 1 - (a + 2) + 1 ELSE 0
        /\ \A h \in 1 .. a + b + 1 - (a + 2) + 1 : tail[h] = s[a + 2 + h - 1]
    BY <1>2, <2>1, SubSeqProperties
  <2>3. \A h \in 1 .. b : a + 2 + h - 1 = h + a + 1 /\ h \in 1 .. a + b + 1 - (a + 2) + 1
    OBVIOUS
  <2>4. Len(tail) = b
    BY <2>2
  <2> QED
    BY <2>2, <2>3, <2>4
<1>6. /\ out \in Seq(S) /\ Len(out) = a + b
      /\ \A h \in 1 .. a + b : out[h] = IF h <= a THEN head[h] ELSE tail[h - a]
  <2>1. out = head \o tail
    BY <1>0, <1>1, <1>2 DEF Ends
  <2>2. head \in Seq(S) /\ tail \in Seq(S)
    BY <1>4, <1>5
  <2>3. /\ out \in Seq(S) /\ Len(out) = Len(head) + Len(tail)
        /\ \A h \in 1 .. Len(head) + Len(tail) :
             out[h] = IF h <= Len(head) THEN head[h] ELSE tail[h - Len(head)]
    <3>1. /\ head \o tail \in Seq(S) /\ Len(head \o tail) = Len(head) + Len(tail)
          /\ \A h \in 1 .. Len(head) + Len(tail) :
               (head \o tail)[h] = IF h <= Len(head) THEN head[h] ELSE tail[h - Len(head)]
      BY <2>2, ConcatProperties, Zenon
    <3> QED
      BY <2>1, <3>1, Zenon
  <2>4. Len(head) = a /\ Len(tail) = b
    BY <1>4, <1>5
  <2> QED
    BY <2>3, <2>4
<1>7. DOMAIN out = 1 .. a + b
  BY <1>6
<1>8. CASE j <= a
  <2>1. j \in 1 .. a /\ j \in 1 .. a + b
    BY <1>8
  <2>2. out[j] = s[j]
    BY <1>4, <1>6, <2>1
  <2> QED
    BY <1>7, <2>1, <2>2
<1>9. CASE j > a + 1
  <2>1. PICK h \in Nat : h = j - 1
    OBVIOUS
  <2>2. /\ h \in 1 .. a + b /\ ~ (h <= a) /\ h - a \in 1 .. b /\ (h - a) + a + 1 = j
    BY <1>9, <2>1
  <2>3. out[h] = s[j]
    BY <1>5, <1>6, <2>2
  <2> QED
    BY <1>7, <2>2, <2>3
<1> QED
  BY <1>8, <1>9

\* A sequence without its i-th element, as SendReplay takes a thread away.
Without(s, i) == SubSeq(s, 1, i - 1) \o SubSeq(s, i + 1, Len(s))

LEMMA OthersStay ==
    ASSUME NEW S, NEW s \in Seq(S), NEW i \in DOMAIN s, NEW j \in DOMAIN s, j # i
    PROVE  \E h \in DOMAIN Without(s, i) : Without(s, i)[h] = s[j]
<1>1. PICK m \in Nat : m = Len(s)
  OBVIOUS
<1>2. i \in 1 .. m /\ j \in 1 .. m
  BY <1>1
<1>3. PICK a \in Nat : a = i - 1
  BY <1>2
<1>4. PICK b \in Nat : b = m - i
  BY <1>2
<1>5. i = a + 1 /\ i + 1 = a + 2
  BY <1>2, <1>3
<1>6. m = a + b + 1
  BY <1>2, <1>4, <1>5
<1>7. Without(s, i) = Ends(s, a, b)
  BY <1>1, <1>3, <1>5, <1>6 DEF Without, Ends
<1>8. Len(s) = a + b + 1 /\ j \in 1 .. Len(s) /\ j # a + 1
  BY <1>1, <1>2, <1>5, <1>6
<1>9. \E h \in DOMAIN Ends(s, a, b) : Ends(s, a, b)[h] = s[j]
  BY <1>8, OthersStayCounted
<1> QED
  BY <1>7, <1>9

\* A replay thread sends the least of its sequents: that is then a request.
LEMMA WayAsked ==
    ASSUME NEW asking \in Seq(Unasked), NEW asked \in Seq(Request),
           NEW queue \in Seq(Event), NEW f \in Follower,
           NEW i \in DOMAIN asking, NEW n \in Nat, NEW rest, rest = asking[i] \ {n},
           NEW asking2,
           asking2 = IF rest # {} THEN [asking EXCEPT ![i] = rest]
                     ELSE Without(asking, i),
           NEW r, r = [sequent |-> n, from |-> f]
    PROVE  Way(asking, asked, queue, f) \subseteq Way(asking2, Append(asked, r), queue, f)
<1>1. r \in Request /\ r.from = f /\ r.sequent = n
  BY DEF Request
<1>2. PICK more : more = Append(asked, r)
  OBVIOUS
<1>3. /\ Way(asking, asked, queue, f) \subseteq Way(asking, more, queue, f)
      /\ n \in Way(asking2, more, queue, f)
  BY <1>1, <1>2, RequestGrows
<1>4. ASSUME NEW j \in DOMAIN asking, NEW k \in asking[j], k # n
      PROVE  \E h \in DOMAIN asking2 : k \in asking2[h]
  <2>1. PICK m \in Nat : m = Len(asking)
    OBVIOUS
  <2>2. DOMAIN asking = 1 .. m
    BY <2>1
  <2>3. CASE rest # {}
    <3>1. asking2 = [asking EXCEPT ![i] = rest]
      BY <2>3
    <3>2. j \in DOMAIN asking2 /\ k \in asking2[j]
      BY <1>4, <3>1
    <3> QED
      BY <3>2
  <2>4. CASE rest = {}
    <3>1. j # i
      BY <1>4, <2>4
    <3>2. asking2 = Without(asking, i)
      BY <2>4
    <3>3. PICK h \in DOMAIN Without(asking, i) : Without(asking, i)[h] = asking[j]
      BY <3>1, OthersStay
    <3> QED
      BY <1>4, <3>2, <3>3
  <2> QED
    BY <2>3, <2>4
<1>5. ASSUME NEW k \in Way(asking, more, queue, f), k # n
      PROVE  k \in Way(asking2, more, queue, f)
  BY <1>4, <1>5 DEF Way
<1> QED
  BY <1>2, <1>3, <1>5

-----------------------------------------------------------------------------
(* Followers to whose replica nothing happens.                             *)

\* What the invariant says of a follower, spelled out for the proofs.
LEMMA FollowerFacts ==
    ASSUME Invariant, NEW f \in Follower
    PROVE  /\ f \in Peer /\ Master \in Peer /\ f # Master /\ IInv /\ FollowerOK(f)
           /\ log[f] \in Seq(Event) /\ last[f] \in Int /\ buffer[f] \in Seq(Event)
           /\ resume[f] \in Nat /\ LogOK(log[f], last[f])
           /\ inbox[f] \in Seq(Event) /\ threads[f] \in Seq(Unasked)
           /\ requests \in Seq(Request) /\ Len(log[Master]) \in Nat
           /\ ReplicaTypes(Event)
BY ConstantsAssumption
   DEF Invariant, IInv, TypeOK, ReplicaOK, Follower, Unasked, Request, ReplicaTypes

LEMMA KeptReplica ==
    ASSUME Invariant, NEW f \in Follower,
           log'[f] = log[f], last'[f] = last[f], buffer'[f] = buffer[f],
           resume'[f] = resume[f],
           follows'[f] => status'[f] = "up",
           faults' = 0 => faults = 0 /\ (follows'[f] \/ buffer[f] = <<>>),
           Sequents(inbox'[f], buffer[f], Len(log'[Master])),
           ViewsLast(inbox'[f], buffer[f]),
           \A k \in OnTheWay(f) :
             /\ faults' = 0 /\ buffer[f] # <<>> /\ NoRepeat(log[f])
             /\ k < Len(log[Master]) /\ k < Radix
             => k \in Way(threads'[f], requests', inbox'[f], f)
    PROVE  FollowerOK(f)'
<1>1. /\ FollowerOK(f) /\ last[f] \in Int /\ buffer[f] \in Seq(Event)
      /\ Len(log[Master]) \in Nat
  BY FollowerFacts
<1>2. PICK way : way = Way(threads'[f], requests', inbox'[f], f)
  OBVIOUS
<1>3. ASSUME faults' = 0
      PROVE  GapsClosed(log[f], last[f], buffer[f], resume[f], way)
  <2>1. CASE buffer[f] = <<>>
    BY <2>1, GapsNone
  <2>2. CASE ~ NoRepeat(log[f])
    BY <2>2 DEF GapsClosed
  <2>3. CASE buffer[f] # <<>> /\ NoRepeat(log[f])
    <3>1. PICK top \in Int : /\ top \in {Radix, Len(log[Master])}
                             /\ top <= Radix /\ top <= Len(log[Master])
      <4>1. PICK m \in Int : m = Len(log[Master])
        BY <1>1
      <4>2. PICK r \in Int : r = Radix
        BY ConstantsAssumption
      <4>3. CASE r <= m
        BY <4>1, <4>2, <4>3
      <4>4. CASE m <= r
        BY <4>1, <4>2, <4>4
      <4> QED
        BY <4>3, <4>4
    <3>2. \A i \in DOMAIN buffer[f] : buffer[f][i].sequent < top
      BY <1>1, <3>1 DEF FollowerOK, Sequents
    <3>3. GapsClosed(log[f], last[f], buffer[f], resume[f], OnTheWay(f))
      BY <1>1, <1>3 DEF FollowerOK
    <3>4. ASSUME NEW k \in OnTheWay(f), k < top PROVE k \in way
      <4>1. k \in Nat
        BY DEF OnTheWay, Way
      <4> QED
        BY <1>1, <1>2, <1>3, <2>3, <3>1, <3>4, <4>1, ConstantsAssumption
    <3> QED
      BY <1>1, <3>1, <3>2, <3>3, <3>4, GapsMonotone
  <2> QED
    BY <2>1, <2>2, <2>3
<1>4. OnTheWay(f)' = way
  BY <1>2 DEF OnTheWay
<1>5. faults' = 0 => GapsClosed(log'[f], last'[f], buffer'[f], resume'[f], OnTheWay(f)')
  BY <1>3, <1>4
<1> QED
  BY <1>5 DEF FollowerOK

\* Nothing of f's is touched by another peer's step but the requests, of which
\* there may be one more.
Untouched(f) ==
    /\ log'[f] = log[f] /\ last'[f] = last[f] /\ buffer'[f] = buffer[f]
    /\ resume'[f] = resume[f]
    /\ status'[f] = status[f] /\ follows'[f] = follows[f]
    /\ inbox'[f] = inbox[f] /\ threads'[f] = threads[f]

LEMMA UntouchedKept ==
    ASSUME Invariant, NEW f \in Follower, Untouched(f),
           faults' = 0 => faults = 0, log'[Master] = log[Master],
           \/ requests' = requests
           \/ \E r \in Request : requests' = Append(requests, r)
    PROVE  FollowerOK(f)'
<1>1. /\ FollowerOK(f) /\ inbox[f] \in Seq(Event) /\ requests \in Seq(Request)
  BY FollowerFacts
<1>2. OnTheWay(f) \subseteq Way(threads[f], requests', inbox[f], f)
  <2>1. CASE requests' = requests
    BY <2>1 DEF OnTheWay
  <2>2. ASSUME NEW r \in Request, requests' = Append(requests, r)
        PROVE  OnTheWay(f) \subseteq Way(threads[f], requests', inbox[f], f)
    BY <1>1, <2>2, RequestGrows DEF OnTheWay
  <2> QED
    BY <2>1, <2>2
<1> QED
  BY <1>1, <1>2, KeptReplica DEF Untouched, FollowerOK


-----------------------------------------------------------------------------
(* The steps of another follower.                                          *)

\* Only g's replica, queue and threads are touched.
OnlyTouches(g) ==
    /\ \A q \in Peer \ {g} : /\ log'[q] = log[q] /\ last'[q] = last[q]
                             /\ buffer'[q] = buffer[q] /\ resume'[q] = resume[q]
    /\ \A q \in Follower \ {g} : /\ status'[q] = status[q] /\ follows'[q] = follows[q]
                                 /\ inbox'[q] = inbox[q] /\ threads'[q] = threads[q]

LEMMA AppliesTouch ==
    ASSUME Invariant, NEW g \in Follower, NEW e \in Event, ApplyEvent(g, e)
    PROVE  \A q \in Peer \ {g} : /\ log'[q] = log[q] /\ last'[q] = last[q]
                                 /\ buffer'[q] = buffer[q] /\ resume'[q] = resume[q]
BY FollowerFacts, ApplyEventOutcome

LEMMA StopTouches ==
    ASSUME Invariant, NEW g \in Follower, NEW how, Stop(g, how)
    PROVE  OnlyTouches(g)
BY FollowerFacts DEF Invariant, IInv, TypeOK, Stop, Forget, OnlyTouches

LEMMA ReplayTouches ==
    ASSUME Invariant, NEW g \in Follower, NEW n, RequestReplay(g, n)
    PROVE  \A q \in Follower \ {g} : threads'[q] = threads[q]
<1>1. \/ threads' = threads
      \/ threads' = [threads EXCEPT ![g] = Append(threads[g], Missing(log[g], n))]
  BY DEF RequestReplay
<1> QED
  BY <1>1 DEF Invariant, IInv, TypeOK

LEMMA ServerTouches ==
    ASSUME Invariant, NEW g \in Follower, Server(g)
    PROVE  OnlyTouches(g) /\ requests' = requests /\ faults' = faults
<1>1. /\ inbox \in [Follower -> Seq(Event)] /\ status \in [Follower -> {"up", "down", "terminated"}]
      /\ buffer[g] \in Seq(Event) /\ inbox[g] \in Seq(Event)
  BY FollowerFacts DEF Invariant, IInv, TypeOK
<1>2. Consume(g) => \A q \in Follower \ {g} : inbox'[q] = inbox[q]
  BY <1>1 DEF Consume
<1>3. CASE ApplyBuffered(g)
  <2>1. PICK e : e = FindSequent(buffer[g], resume[g])
    OBVIOUS
  <2>2. HasSequent(buffer[g], resume[g])
    BY <1>3, FollowerFacts DEF IInv, ReplicaOK, ApplyBuffered, Resume
  <2>3. e \in Event /\ ApplyEvent(g, e)
    BY <1>1, <1>3, <2>1, <2>2, FindSequentFinds DEF ApplyBuffered, Resume
  <2> QED
    BY <1>3, <2>3, AppliesTouch DEF ApplyBuffered, OnlyTouches, followerVars
<1>4. CASE IgnoreEvent(g)
  BY <1>2, <1>4 DEF IgnoreEvent, OnlyTouches, followerVars, replicaVars
<1>5. ASSUME NEW e \in Event,
             \/ ReceiveEvent(g, e) \/ RejectDuplicate(g, e)
             \/ DropGarbled(g, e) \/ Terminate(g, e)
      PROVE  OnlyTouches(g) /\ requests' = requests /\ faults' = faults
  <2>1. CASE ReceiveEvent(g, e)
    <3>1. /\ ApplyEvent(g, e) /\ Consume(g) /\ RequestReplay(g, e.sequent)
          /\ UNCHANGED <<status, follows, requests, edits, faults>>
      BY <2>1 DEF ReceiveEvent
    <3>2. \A q \in Follower \ {g} : threads'[q] = threads[q]
      BY <3>1, ReplayTouches
    <3>3. \A q \in Peer \ {g} : /\ log'[q] = log[q] /\ last'[q] = last[q]
                                /\ buffer'[q] = buffer[q] /\ resume'[q] = resume[q]
      BY <3>1, AppliesTouch
    <3> QED
      BY <1>2, <3>1, <3>2, <3>3 DEF OnlyTouches
  <2>2. CASE RejectDuplicate(g, e)
    BY <1>2, <2>2 DEF RejectDuplicate, OnlyTouches, followerVars, replicaVars
  <2>3. CASE DropGarbled(g, e)
    BY <1>2, <2>3, ReplayTouches DEF DropGarbled, OnlyTouches, replicaVars
  <2>4. CASE Terminate(g, e)
    BY <2>4, StopTouches DEF Terminate
  <2> QED
    BY <1>5, <2>1, <2>2, <2>3, <2>4
<1>6. inbox[g] # <<>> => Head(inbox[g]) \in Event
  BY <1>1
<1> QED
  BY <1>3, <1>4, <1>5, <1>6 DEF Server, Receives

LEMMA SendTouches ==
    ASSUME Invariant, NEW g \in Follower, SendReplay(g)
    PROVE  /\ OnlyTouches(g) /\ faults' = faults
           /\ \E r \in Request : requests' = Append(requests, r)
<1>1. PICK i \in DOMAIN threads[g] :
        LET n == Min(threads[g][i])
            rest == threads[g][i] \ {n}
        IN  /\ requests' = Append(requests, [sequent |-> n, from |-> g])
            /\ threads' = [threads EXCEPT ![g] =
                 IF rest # {} THEN [@ EXCEPT ![i] = rest]
                 ELSE SubSeq(@, 1, i - 1) \o SubSeq(@, i + 1, Len(@))]
            /\ UNCHANGED <<replicaVars, status, follows, inbox, edits, faults>>
  BY DEF SendReplay
<1>2. PICK asking : threads' = [threads EXCEPT ![g] = asking]
  BY <1>1
<1>3. \A q \in Follower \ {g} : threads'[q] = threads[q]
  BY <1>2 DEF Invariant, IInv, TypeOK
<1>4. PICK n : n = Min(threads[g][i])
  OBVIOUS
<1>5. n \in Nat
  <2>1. threads[g][i] \in Unasked
    BY FollowerFacts
  <2> QED
    BY <1>4, <2>1, MinInSet DEF Unasked
<1>6. PICK r : r = [sequent |-> n, from |-> g]
  OBVIOUS
<1>7. r \in Request
  BY <1>5, <1>6 DEF Request
<1>8. requests' = Append(requests, r)
  BY <1>1, <1>4, <1>6
<1> QED
  BY <1>1, <1>3, <1>7, <1>8 DEF OnlyTouches, replicaVars

\* What f has stands when another follower takes a step.
LEMMA OtherFollowerKept ==
    ASSUME Invariant, NEW f \in Follower, NEW g \in Follower, f # g, OnlyTouches(g),
           faults' = 0 => faults = 0,
           \/ requests' = requests
           \/ \E r \in Request : requests' = Append(requests, r)
    PROVE  FollowerOK(f)'
<1>1. /\ f \in Peer \ {g} /\ Master \in Peer \ {g}
  BY FollowerFacts
<1>2. Untouched(f) /\ log'[Master] = log[Master]
  BY <1>1 DEF OnlyTouches, Untouched
<1> QED
  BY <1>2, UntouchedKept

-----------------------------------------------------------------------------
(* What a follower does or suffers without applying an event.              *)

LEMMA StopOwn ==
    ASSUME Invariant, NEW f \in Follower, NEW how, Stop(f, how)
    PROVE  FollowerOK(f)'
<1>1. /\ log'[f] = <<>> /\ last'[f] = -1 /\ buffer'[f] = <<>> /\ resume'[f] = 0
      /\ follows'[f] = FALSE /\ inbox'[f] = <<>>
  BY FollowerFacts DEF IInv, TypeOK, Stop, Forget
<1>2. Sequents(<<>>, <<>>, Len(log'[Master])) /\ ViewsLast(<<>>, <<>>)
  BY DEF Sequents, ViewsLast
<1>3. GapsClosed(log'[f], last'[f], <<>>, resume'[f], OnTheWay(f)')
  BY GapsNone
<1> QED
  BY <1>1, <1>2, <1>3 DEF FollowerOK

\* The follower takes the master for its master, or no more, or is started.
LEMMA BeliefOwn ==
    ASSUME Invariant, NEW f \in Follower,
           UNCHANGED <<replicaVars, threads, inbox, requests>>,
           follows'[f] => status'[f] = "up",
           faults' = 0 => faults = 0 /\ (follows'[f] \/ ~ follows[f])
    PROVE  FollowerOK(f)'
<1>1. FollowerOK(f)
  BY FollowerFacts
<1> QED
  BY <1>1, KeptReplica DEF FollowerOK, OnTheWay, replicaVars

LEMMA SendReplayOwn ==
    ASSUME Invariant, NEW f \in Follower, SendReplay(f)
    PROVE  FollowerOK(f)'
<1>1. PICK i \in DOMAIN threads[f] :
        LET n == Min(threads[f][i])
            rest == threads[f][i] \ {n}
        IN  /\ requests' = Append(requests, [sequent |-> n, from |-> f])
            /\ threads' = [threads EXCEPT ![f] =
                 IF rest # {} THEN [@ EXCEPT ![i] = rest]
                 ELSE SubSeq(@, 1, i - 1) \o SubSeq(@, i + 1, Len(@))]
            /\ UNCHANGED <<replicaVars, status, follows, inbox, edits, faults>>
  BY DEF SendReplay
<1>2. PICK n : n = Min(threads[f][i])
  OBVIOUS
<1>3. n \in Nat
  <2>1. threads[f][i] \in Unasked
    BY FollowerFacts
  <2> QED
    BY <1>2, <2>1, MinInSet DEF Unasked
<1>4. PICK rest : rest = threads[f][i] \ {n}
  OBVIOUS
<1>5. PICK r : r = [sequent |-> n, from |-> f]
  OBVIOUS
<1>6. PICK asking : asking = IF rest # {} THEN [threads[f] EXCEPT ![i] = rest]
                             ELSE Without(threads[f], i)
  OBVIOUS
<1>7. requests' = Append(requests, r)
  BY <1>1, <1>2, <1>5
<1>8. threads'[f] = asking
  <2>1. threads' = [threads EXCEPT ![f] = asking]
    BY <1>1, <1>2, <1>4, <1>6 DEF Without
  <2> QED
    BY <2>1 DEF Invariant, IInv, TypeOK
<1>9. OnTheWay(f) \subseteq Way(asking, Append(requests, r), inbox[f], f)
  <2>1. /\ threads[f] \in Seq(Unasked) /\ requests \in Seq(Request)
        /\ inbox[f] \in Seq(Event)
    BY FollowerFacts
  <2> QED
    BY <1>3, <1>4, <1>5, <1>6, <2>1, WayAsked DEF OnTheWay
<1>10. FollowerOK(f)
  BY FollowerFacts
<1> QED
  BY <1>1, <1>7, <1>8, <1>9, <1>10, KeptReplica DEF FollowerOK, replicaVars

\* A replay thread is started: then all that the log lacks is on its way.
LEMMA ReplayStarted ==
    ASSUME Invariant, NEW f \in Follower, NEW n \in Int, RequestReplay(f, n),
           NEW asked, NEW queue
    PROVE  /\ Way(threads[f], asked, queue, f) \subseteq Way(threads'[f], asked, queue, f)
           /\ n > last[f] + 1 =>
                Missing(log[f], n) \subseteq Way(threads'[f], asked, queue, f)
<1>1. PICK missing : missing = Missing(log[f], n)
  OBVIOUS
<1>2. missing \subseteq Nat
  BY <1>1 DEF Missing
<1>3. threads \in [Follower -> Seq(Unasked)] /\ threads[f] \in Seq(Unasked)
  BY FollowerFacts DEF IInv, TypeOK, Unasked
<1>4. CASE n > last[f] + 1 /\ missing # {}
  <2>1. threads' = [threads EXCEPT ![f] = Append(threads[f], missing)]
    BY <1>1, <1>4 DEF RequestReplay
  <2>2. threads'[f] = Append(threads[f], missing) /\ missing \in Unasked
    BY <1>2, <1>3, <1>4, <2>1 DEF Unasked
  <2> QED
    BY <1>1, <1>3, <2>2, WayThread
<1>5. CASE ~ (n > last[f] + 1 /\ missing # {})
  BY <1>1, <1>5 DEF RequestReplay
<1> QED
  BY <1>4, <1>5

\* The head of the queue is taken away and not applied: no event that is needed.
LEMMA DiscardOwn ==
    ASSUME Invariant, NEW f \in Follower, inbox[f] # <<>>, Consume(f),
           UNCHANGED <<replicaVars, status, follows, requests, faults>>,
           Way(threads[f], requests, Tail(inbox[f]), f)
             \subseteq Way(threads'[f], requests, Tail(inbox[f]), f),
           \/ ~ follows[f]
           \/ ~ NoRepeat(log[f])
           \/ Head(inbox[f]).sequent >= Radix
    PROVE  FollowerOK(f)'
<1>1. FollowerOK(f) /\ inbox[f] \in Seq(Event) /\ buffer[f] \in Seq(Event)
  BY FollowerFacts
<1>2. PICK rest : rest = Tail(inbox[f])
  OBVIOUS
<1>3. inbox'[f] = rest
  BY <1>2 DEF Consume, Invariant, IInv, TypeOK
<1>4. Sequents(rest, buffer[f], Len(log[Master])) /\ ViewsLast(rest, buffer[f])
  BY <1>1, <1>2, SequentsWhenTaken, ViewsWhenTaken DEF FollowerOK
<1>5. Head(inbox[f]).sequent \in Int
  BY <1>1, <1>2, TailParts DEF Event
<1>6. ASSUME NEW k \in OnTheWay(f), faults = 0, buffer[f] # <<>>, NoRepeat(log[f]), k < Radix
      PROVE  k \in Way(threads'[f], requests, rest, f)
  <2>1. Head(inbox[f]).sequent >= Radix
    BY <1>1, <1>6 DEF FollowerOK
  <2>2. k # Head(inbox[f]).sequent
    <3>1. k \in Nat
      BY DEF OnTheWay, Way
    <3> QED
      BY <1>5, <1>6, <2>1, <3>1, ConstantsAssumption
  <2>3. k \in Way(threads[f], requests, rest, f)
    BY <1>1, <1>2, <2>2, WayTaken DEF OnTheWay
  <2> QED
    BY <1>2, <2>3
<1>7. /\ log' = log /\ last' = last /\ buffer' = buffer /\ resume' = resume
      /\ status' = status /\ follows' = follows /\ requests' = requests /\ faults' = faults
  BY DEF replicaVars
<1>8. \A k \in OnTheWay(f) :
        /\ faults' = 0 /\ buffer[f] # <<>> /\ NoRepeat(log[f])
        /\ k < Len(log[Master]) /\ k < Radix
        => k \in Way(threads'[f], requests', inbox'[f], f)
  BY <1>3, <1>6, <1>7
<1>9. /\ follows'[f] => status'[f] = "up"
      /\ faults' = 0 => faults = 0 /\ (follows'[f] \/ buffer[f] = <<>>)
      /\ Sequents(inbox'[f], buffer[f], Len(log'[Master]))
      /\ ViewsLast(inbox'[f], buffer[f])
  BY <1>1, <1>3, <1>4, <1>7 DEF FollowerOK
<1> QED
  BY <1>7, <1>8, <1>9, KeptReplica

\* What f's log holds is no duplicate as long as nothing is repeated.
LEMMA DuplicateMeansRepeat ==
    ASSUME Invariant, NEW f \in Follower, NEW n \in Int, IsDuplicate(f, n)
    PROVE  ~ NoRepeat(log[f])
<1>1. /\ log[f] \in Seq(Event) /\ LogOK(log[f], last[f])
  BY FollowerFacts
<1>2. CASE NoRepeat(log[f])
  <2>1. InOrder(log[f], last[f]) /\ last[f] \in Int
    BY <1>1, <1>2 DEF LogOK
  <2>2. n \in 0 .. last[f]
    BY <1>1, <2>1, InOrderHolds DEF IsDuplicate
  <2> QED
    BY <2>1, <2>2 DEF IsDuplicate
<1> QED
  BY <1>2

-----------------------------------------------------------------------------
(* A follower applies an event.                                            *)

\* apply_event buffers an early event, or leaves the buffer alone.
LEMMA OutcomeBuffer ==
    ASSUME NEW e, NEW long, NEW events, NEW n, NEW early,
           NEW events2, NEW n2, NEW early2, NEW next,
           Outcome(e, long, events, n, early, events2, n2, early2, next)
    PROVE  \/ early2 = early
           \/ early2 = Append(early, e) /\ e.sequent > n + 1
BY DEF Outcome, Buffered, Refused, Viewed, Performs

\* The next event is never refused by a follower that repeated nothing.
LEMMA NextIsPossible ==
    ASSUME Invariant, NEW f \in Follower, NEW e, Genuine(e),
           TooLong(f, e.edit), NoRepeat(log[f])
    PROVE  e.sequent # last[f] + 1
<1>1. Logged(e)
  BY DEF TooLong, Genuine
<1> QED
  BY <1>1, DeletionFits DEF Invariant

LEMMA ApplyBufferedOwn ==
    ASSUME Invariant, NEW f \in Follower, ApplyBuffered(f)
    PROVE  FollowerOK(f)'
<1>1. /\ f \in Peer /\ Master \in Peer /\ f # Master /\ IInv /\ FollowerOK(f)
      /\ log[f] \in Seq(Event) /\ last[f] \in Int /\ buffer[f] \in Seq(Event)
      /\ resume[f] \in Nat /\ LogOK(log[f], last[f])
      /\ inbox[f] \in Seq(Event) /\ ReplicaTypes(Event)
  BY FollowerFacts
<1>2. /\ resume[f] # 0 /\ ApplyEvent(f, FindSequent(buffer[f], resume[f]))
      /\ UNCHANGED <<followerVars, inbox, requests, edits, faults>>
  BY DEF ApplyBuffered, Resume
<1>3. HasSequent(buffer[f], resume[f])
  BY <1>1, <1>2 DEF IInv, ReplicaOK
<1>4. PICK j \in DOMAIN buffer[f] :
        /\ FindSequent(buffer[f], resume[f]) = buffer[f][j]
        /\ buffer[f][j].sequent = resume[f]
        /\ \A i \in 1 .. j - 1 : buffer[f][i].sequent # resume[f]
  BY <1>1, <1>3, FindSequentFirst
<1>5. PICK e \in Event : e = buffer[f][j]
  BY <1>1
<1>6. Genuine(e) /\ e.sequent = resume[f] /\ ApplyEvent(f, e)
  BY <1>1, <1>2, <1>4, <1>5 DEF IInv, ReplicaOK
<1>7. PICK long \in BOOLEAN : long = TooLong(f, e.edit)
  BY DEF TooLong
<1>8. /\ Outcome(e, long, log[f], last[f], buffer[f],
                 log'[f], last'[f], buffer'[f], resume'[f])
      /\ log'[Master] = log[Master]
  BY <1>1, <1>6, <1>7, ApplyEventOutcome
<1>9. PICK early2 : early2 = buffer'[f]
  OBVIOUS
<1>10. \/ early2 = buffer[f]
       \/ early2 = Append(buffer[f], e) /\ e.sequent > last[f] + 1
  BY <1>8, <1>9, OutcomeBuffer
<1>11. Sequents(inbox[f], early2, Len(log[Master]))
  <2>1. Sequents(inbox[f], buffer[f], Len(log[Master]))
    BY <1>1 DEF FollowerOK
  <2>2. e.sequent >= 1 /\ e.sequent < Len(log[Master]) /\ e.sequent < Radix
    BY <1>5, <2>1 DEF Sequents
  <2> QED
    BY <1>1, <1>10, <2>1, <2>2, SequentsWhenBuffered
<1>12. ViewsLast(inbox[f], early2)
  <2>1. ViewsLast(inbox[f], buffer[f])
    BY <1>1 DEF FollowerOK
  <2>2. /\ \A k \in DOMAIN inbox[f] : IsView(inbox[f][k]) => e.sequent <= inbox[f][k].sequent
        /\ IsView(e) => \A i \in DOMAIN buffer[f] :
                          Clear(buffer[f], i) => buffer[f][i].sequent <= e.sequent
    BY <1>5, <2>1 DEF ViewsLast
  <2> QED
    BY <1>1, <1>10, <2>1, <2>2, ViewsWhenBuffered
<1>13. follows[f] \/ faults # 0
  <2>1. buffer[f] # <<>>
    BY <1>3 DEF HasSequent
  <2> QED
    BY <1>1, <2>1 DEF FollowerOK
<1>14. ASSUME faults = 0
       PROVE  GapsClosed(log'[f], last'[f], early2, resume'[f], OnTheWay(f))
  <2>1. GapsClosed(log[f], last[f], buffer[f], resume[f], OnTheWay(f))
    BY <1>1, <1>14 DEF FollowerOK
  <2>2. Possible(resume[f], long, log[f], last[f])
    BY <1>6, <1>7, NextIsPossible DEF Possible
  <2>3. ViewsLast(<<>>, buffer[f])
    BY <1>1, ViewsNone DEF FollowerOK
  <2>4. Outcome(buffer[f][j], long, log[f], last[f], buffer[f],
                log'[f], last'[f], early2, resume'[f])
    BY <1>5, <1>8, <1>9
  <2>5. FirstAt(buffer[f], j, resume[f])
    BY <1>4 DEF FirstAt
  <2> QED
    BY <1>1, <1>2, <2>1, <2>2, <2>3, <2>4, <2>5, GapsWhenResumed
<1>15. OnTheWay(f)' = OnTheWay(f)
  BY <1>2 DEF OnTheWay, followerVars
<1>16. /\ follows' = follows /\ status' = status /\ faults' = faults /\ inbox' = inbox
       /\ follows[f] => status[f] = "up"
  BY <1>1, <1>2 DEF followerVars, FollowerOK
<1> QED
  BY <1>8, <1>9, <1>11, <1>12, <1>13, <1>14, <1>15, <1>16 DEF FollowerOK

LEMMA ReceiveEventOwn ==
    ASSUME Invariant, NEW f \in Follower, Receives(f), follows[f],
           ReceiveEvent(f, Head(inbox[f]))
    PROVE  FollowerOK(f)'
<1>1. /\ f \in Peer /\ Master \in Peer /\ f # Master /\ IInv /\ FollowerOK(f)
      /\ log[f] \in Seq(Event) /\ last[f] \in Int /\ buffer[f] \in Seq(Event)
      /\ LogOK(log[f], last[f]) /\ Len(log[Master]) \in Nat
      /\ inbox[f] \in Seq(Event) /\ ReplicaTypes(Event)
  BY FollowerFacts
<1>2. inbox[f] # <<>> /\ resume[f] = 0 /\ status[f] = "up"
  BY DEF Receives, Idle
<1>3. PICK e : e = Head(inbox[f])
  OBVIOUS
<1>4. PICK rest : rest = Tail(inbox[f])
  OBVIOUS
<1>5. /\ rest \in Seq(Event) /\ e \in Event
      /\ 1 \in DOMAIN inbox[f] /\ e = inbox[f][1]
      /\ \A i \in DOMAIN rest : i + 1 \in DOMAIN inbox[f] /\ rest[i] = inbox[f][i + 1]
  BY <1>1, <1>2, <1>3, <1>4, TailParts
<1>6. /\ e.sequent \in 0 .. Radix - 1 /\ RequestReplay(f, e.sequent) /\ ApplyEvent(f, e)
      /\ Consume(f) /\ UNCHANGED <<status, follows, requests, edits, faults>>
  BY <1>3 DEF ReceiveEvent
<1>7. e.sequent \in Nat /\ e.sequent < Radix /\ Genuine(e)
  BY <1>1, <1>2, <1>3, <1>6, ConstantsAssumption, HeadGenuine
<1>8. inbox'[f] = rest
  BY <1>4, <1>6 DEF Consume, Invariant, IInv, TypeOK
<1>9. PICK long \in BOOLEAN : long = TooLong(f, e.edit)
  BY DEF TooLong
<1>10. PICK early2 : early2 = buffer'[f]
  OBVIOUS
<1>11. /\ Outcome(e, long, log[f], last[f], buffer[f],
                  log'[f], last'[f], early2, resume'[f])
       /\ log'[Master] = log[Master]
  BY <1>1, <1>5, <1>6, <1>9, <1>10, ApplyEventOutcome
<1>12. \/ early2 = buffer[f]
       \/ early2 = Append(buffer[f], e) /\ e.sequent > last[f] + 1
  BY <1>11, OutcomeBuffer
<1>13. Sequents(rest, early2, Len(log[Master]))
  <2>1. Sequents(rest, buffer[f], Len(log[Master]))
    BY <1>1, <1>2, <1>4, SequentsWhenTaken DEF FollowerOK
  <2>2. e.sequent < Len(log[Master])
    BY <1>1, <1>5 DEF FollowerOK, Sequents
  <2>3. e.sequent > last[f] + 1 => e.sequent >= 1
    BY <1>1, <1>7 DEF LogOK
  <2> QED
    BY <1>1, <1>5, <1>7, <1>12, <2>1, <2>2, <2>3, SequentsWhenBuffered
<1>14. /\ ViewsLast(rest, buffer[f])
       /\ IsView(e) => \A i \in DOMAIN buffer[f] : buffer[f][i].sequent <= e.sequent
       /\ \A k \in DOMAIN rest : IsView(rest[k]) => e.sequent <= rest[k].sequent
  <2>1. ViewsLast(inbox[f], buffer[f])
    BY <1>1 DEF FollowerOK
  <2>2. ViewsLast(rest, buffer[f])
    BY <1>1, <1>2, <1>4, <2>1, ViewsWhenTaken
  <2>3. IsView(e) => \A i \in DOMAIN buffer[f] : buffer[f][i].sequent <= e.sequent
    BY <1>5, <2>1 DEF ViewsLast
  <2>4. ASSUME NEW k \in DOMAIN rest, IsView(rest[k]) PROVE e.sequent <= rest[k].sequent
    <3>1. k + 1 \in DOMAIN inbox[f] /\ rest[k] = inbox[f][k + 1]
      BY <1>5
    <3>2. 1 \in 1 .. (k + 1) - 1
      BY <1>5
    <3> QED
      BY <1>5, <2>1, <2>4, <3>1, <3>2 DEF ViewsLast
  <2> QED
    BY <2>2, <2>3, <2>4
<1>15. ViewsLast(rest, early2)
  BY <1>1, <1>5, <1>12, <1>14, ViewsWhenBuffered
<1>16. PICK other : other = Way(threads'[f], requests, rest, f)
  OBVIOUS
<1>17. ASSUME faults = 0
       PROVE  GapsClosed(log'[f], last'[f], early2, resume'[f], other)
  <2>1. GapsClosed(log[f], last[f], buffer[f], 0, OnTheWay(f))
    BY <1>1, <1>2, <1>17 DEF FollowerOK
  <2>2. Possible(e.sequent, long, log[f], last[f])
    BY <1>7, <1>9, NextIsPossible DEF Possible
  <2>3. e.sequent \in Int
    BY <1>7
  <2>4. /\ Way(threads[f], requests, rest, f) \subseteq other
        /\ e.sequent > last[f] + 1 => Missing(log[f], e.sequent) \subseteq other
    BY <1>6, <1>16, <2>3, ReplayStarted
  <2>5. TakesOff(e, OnTheWay(f), other)
    BY <1>1, <1>2, <1>3, <1>4, <2>4, WayTaken DEF OnTheWay, TakesOff
  <2>6. AsksBelow(e, log[f], last[f], other)
    BY <2>4 DEF Missing, AsksBelow
  <2>7. AfterBuffered(e, buffer[f])
    BY <1>14 DEF AfterBuffered
  <2>8. Sequents(inbox[f], buffer[f], Len(log[Master]))
    BY <1>1 DEF FollowerOK
  <2> QED
    BY <1>1, <1>5, <1>7, <1>11, <2>1, <2>2, <2>5, <2>6, <2>7, <2>8, GapsWhenReceived
<1>18. OnTheWay(f)' = other
  BY <1>6, <1>8, <1>16 DEF OnTheWay
<1>19. follows' = follows /\ status' = status /\ faults' = faults
  BY <1>6
<1> QED
  BY <1>2, <1>8, <1>10, <1>11, <1>13, <1>15, <1>17, <1>18, <1>19 DEF FollowerOK

-----------------------------------------------------------------------------
(* The steps of the master.                                                *)

\* What is asked for and logged by the master is sent.
LEMMA HandleReplayKept ==
    ASSUME Invariant, NEW f \in Follower, HandleReplay
    PROVE  FollowerOK(f)'
<1>1. /\ f \in Peer /\ Master \in Peer /\ f # Master /\ IInv /\ FollowerOK(f)
      /\ buffer[f] \in Seq(Event) /\ Len(log[Master]) \in Nat
      /\ inbox[f] \in Seq(Event) /\ requests \in Seq(Request)
      /\ log[Master] \in Seq(Event) /\ inbox \in [Follower -> Seq(Event)]
  BY FollowerFacts DEF IInv, TypeOK
<1>2. requests # <<>> /\ requests' = Tail(requests)
  BY DEF HandleReplay
<1>3. PICK r : r = Head(requests)
  OBVIOUS
<1>4. r \in Request /\ r.sequent \in Nat
  <2>1. r \in Request
    BY <1>1, <1>2, <1>3
  <2> QED
    BY <2>1 DEF Request
<1>5. PICK known \in BOOLEAN :
        known <=> r.sequent <= Len(log[Master]) /\ HasSequent(log[Master], r.sequent)
  OBVIOUS
<1>6. PICK e : e = FindSequent(log[Master], r.sequent)
  OBVIOUS
<1>7. /\ UNCHANGED <<replicaVars, followerVars, edits, faults>>
      /\ known => inbox' = [inbox EXCEPT ![r.from] = Deliver(r.from, inbox[r.from], e)]
      /\ ~ known => inbox' = inbox
  BY <1>3, <1>5, <1>6 DEF HandleReplay
<1>8. /\ known /\ r.from = f /\ status[f] = "up" => inbox'[f] = Append(inbox[f], e)
      /\ ~ (known /\ r.from = f /\ status[f] = "up") => inbox'[f] = inbox[f]
  BY <1>1, <1>7 DEF Deliver
<1>9. known => /\ e \in Event /\ e.sequent = r.sequent /\ ~ IsView(e)
               /\ e.sequent < Len(log[Master])
  <2>1. ASSUME known
        PROVE  /\ e \in Event /\ e.sequent = r.sequent
               /\ \E i \in DOMAIN log[Master] : e = log[Master][i]
    BY <1>1, <1>5, <1>6, <2>1, FindSequentFinds
  <2>2. ASSUME NEW i \in DOMAIN log[Master], e = log[Master][i]
        PROVE  ~ IsView(e) /\ e.sequent < Len(log[Master])
    <3>1. e.sequent = i - 1 /\ i \in 1 .. Len(log[Master])
      BY <1>1, <2>2 DEF IInv, MasterLog
    <3>2. ~ IsView(e)
      BY <2>2 DEF Invariant, Performed
    <3> QED
      BY <1>1, <3>1, <3>2
  <2> QED
    BY <2>1, <2>2
<1>10. /\ Sequents(inbox'[f], buffer[f], Len(log[Master]))
       /\ ViewsLast(inbox'[f], buffer[f])
  <2>1. Sequents(inbox[f], buffer[f], Len(log[Master])) /\ ViewsLast(inbox[f], buffer[f])
    BY <1>1 DEF FollowerOK
  <2>2. CASE inbox'[f] = inbox[f]
    BY <2>1, <2>2
  <2>3. CASE known /\ inbox'[f] = Append(inbox[f], e)
    <3>1. Sequents(Append(inbox[f], e), buffer[f], Len(log[Master]))
      BY <1>1, <1>9, <2>1, <2>3, SequentsWhenSent
    <3>2. ViewsLast(Append(inbox[f], e), buffer[f])
      <4>1. e \in Event /\ ~ IsView(e)
        BY <1>9, <2>3
      <4> HIDE DEF IsView
      <4> QED
        BY <1>1, <2>1, <4>1, ViewsWhenSent
    <3> QED
      BY <2>3, <3>1, <3>2
  <2> QED
    BY <1>8, <2>2, <2>3
<1>11. ASSUME NEW k \in OnTheWay(f), faults = 0, buffer[f] # <<>>, k < Len(log[Master])
       PROVE  k \in Way(threads[f], requests', inbox'[f], f)
  <2>1. status[f] = "up"
    BY <1>1, <1>11 DEF FollowerOK
  <2>2. CASE r.from # f \/ k # r.sequent
    <3>1. k \in Way(threads[f], requests', inbox[f], f)
      BY <1>1, <1>2, <1>3, <2>2, WayAnswered DEF OnTheWay
    <3>2. CASE inbox'[f] = inbox[f]
      BY <3>1, <3>2
    <3>3. CASE known /\ inbox'[f] = Append(inbox[f], e)
      BY <1>1, <1>9, <3>1, <3>3, EventGrows
    <3> QED
      BY <1>8, <3>2, <3>3
  <2>3. CASE r.from = f /\ k = r.sequent
    <3>1. k + 1 \in DOMAIN log[Master] /\ log[Master][k + 1].sequent = k
      <4>1. k \in Nat /\ k + 1 \in DOMAIN log[Master] /\ (k + 1) - 1 = k
        BY <1>1, <1>4, <1>11, <2>3
      <4> QED
        BY <1>1, <4>1 DEF IInv, MasterLog
    <3>2. known
      BY <1>1, <1>4, <1>5, <1>11, <2>3, <3>1 DEF HasSequent
    <3>3. inbox'[f] = Append(inbox[f], e)
      BY <1>8, <2>1, <2>3, <3>2
    <3>4. e \in Event /\ ~ IsView(e) /\ e.sequent \in Nat /\ e.sequent = k
      BY <1>4, <1>9, <2>3, <3>2
    <3>5. e.sequent \in Way(threads[f], requests', Append(inbox[f], e), f)
      BY <1>1, <3>4, EventGrows
    <3> QED
      BY <3>3, <3>4, <3>5
  <2> QED
    BY <2>2, <2>3
<1>12. /\ log' = log /\ last' = last /\ buffer' = buffer /\ resume' = resume
       /\ status' = status /\ follows' = follows /\ threads' = threads /\ faults' = faults
  BY <1>7 DEF replicaVars, followerVars
<1>13. \A k \in OnTheWay(f) :
         /\ faults' = 0 /\ buffer[f] # <<>> /\ NoRepeat(log[f])
         /\ k < Len(log[Master]) /\ k < Radix
         => k \in Way(threads'[f], requests', inbox'[f], f)
  BY <1>11, <1>12
<1>14. /\ follows'[f] => status'[f] = "up"
       /\ faults' = 0 => faults = 0 /\ (follows'[f] \/ buffer[f] = <<>>)
  BY <1>1, <1>12 DEF FollowerOK
<1> QED
  BY <1>10, <1>12, <1>13, <1>14, KeptReplica

\* The master's log, and the replicas of the followers, after an edit.
LEMMA ClientRequestFacts ==
    ASSUME Invariant, NEW edit \in Edit, ClientRequest(edit), NEW e,
           e = [sequent |-> last[Master] + 1, edit |-> edit]
    PROVE  /\ \A q \in Follower : /\ log'[q] = log[q] /\ last'[q] = last[q]
                                  /\ buffer'[q] = buffer[q] /\ resume'[q] = resume[q]
           /\ e \in Event /\ e.edit = edit /\ log[Master] \in Seq(Event)
           /\ \/ log'[Master] = log[Master]
              \/ log'[Master] = Append(log[Master], e) /\ ~ IsView(e)
           /\ last'[Master] = Len(log'[Master]) - 1
<1>1. /\ Master \in Peer /\ IInv /\ TypeOK /\ MasterLog /\ ReplicaTypes(Event)
      /\ LogOK(log[Master], last[Master]) /\ log[Master] \in Seq(Event)
  BY ConstantsAssumption DEF Invariant, IInv, ReplicaOK, TypeOK, ReplicaTypes
<1>2. e \in Event /\ e.edit = edit /\ e.sequent \in Nat
  <2>1. last[Master] + 1 \in Nat
    BY <1>1 DEF MasterLog
  <2> QED
    BY <2>1 DEF Event
<1>3. ApplyEvent(Master, e)
  BY DEF ClientRequest
<1>4. /\ \A q \in Peer \ {Master} : /\ log'[q] = log[q] /\ last'[q] = last[q]
                                    /\ buffer'[q] = buffer[q] /\ resume'[q] = resume[q]
      /\ \/ log'[Master] = log[Master]
         \/ log'[Master] = Append(log[Master], e) /\ e.edit.type # "VIEW"
  BY <1>1, <1>2, <1>3, ApplyEventLocal
<1>5. MasterLog'
  BY <1>1, ClientRequestStep DEF IInv
<1> QED
  BY <1>1, <1>2, <1>4, <1>5 DEF MasterLog, Follower, IsView

\* An edit is multicast under the last sequent of the master's log.
LEMMA ClientRequestKept ==
    ASSUME Invariant, NEW f \in Follower, NEW edit \in Edit, ClientRequest(edit)
    PROVE  FollowerOK(f)'
<1>1. /\ FollowerOK(f) /\ buffer[f] \in Seq(Event) /\ Len(log[Master]) \in Nat
      /\ inbox[f] \in Seq(Event)
  BY FollowerFacts
<1>2. PICK e : e = [sequent |-> last[Master] + 1, edit |-> edit]
  OBVIOUS
<1>3. /\ log'[f] = log[f] /\ last'[f] = last[f]
      /\ buffer'[f] = buffer[f] /\ resume'[f] = resume[f]
      /\ e \in Event /\ log[Master] \in Seq(Event)
      /\ log'[Master] = log[Master] \/ log'[Master] = Append(log[Master], e)
      /\ last'[Master] = Len(log'[Master]) - 1
  BY <1>2, ClientRequestFacts
<1>4. PICK low \in Nat : low = Len(log[Master])
  BY <1>1
<1>5. PICK top \in Nat : top = Len(log'[Master])
  BY <1>3
<1>6. low <= top
  BY <1>3, <1>4, <1>5
<1>7. PICK sent : sent = [sequent |-> last'[Master], edit |-> edit]
  OBVIOUS
<1>8. sent \in Event /\ sent.sequent = top - 1
  BY <1>3, <1>5, <1>7 DEF Event
<1>9. /\ inbox'[f] = inbox[f] \/ inbox'[f] = Append(inbox[f], sent)
      /\ UNCHANGED <<followerVars, requests, faults>>
  BY <1>7 DEF ClientRequest, Deliver
<1>10. Sequents(inbox[f], buffer[f], low) /\ ViewsLast(inbox[f], buffer[f])
  BY <1>1, <1>4 DEF FollowerOK
<1>11. Sequents(inbox'[f], buffer[f], top)
  <2>1. Sequents(inbox[f], buffer[f], top)
    BY <1>1, <1>6, <1>10, SequentsRaised
  <2>2. sent.sequent < top
    BY <1>8
  <2>3. Sequents(Append(inbox[f], sent), buffer[f], top)
    BY <1>1, <1>8, <2>1, <2>2, SequentsWhenSent
  <2> QED
    BY <1>9, <2>1, <2>3
<1>12. ViewsLast(inbox'[f], buffer[f])
  <2>1. /\ \A i \in DOMAIN inbox[f] : inbox[f][i].sequent \in Int
        /\ \A i \in DOMAIN buffer[f] : buffer[f][i].sequent \in Int
    BY <1>1, SequentsAreInt
  <2>2. /\ \A i \in DOMAIN inbox[f] : inbox[f][i].sequent <= sent.sequent
        /\ \A i \in DOMAIN buffer[f] : buffer[f][i].sequent <= sent.sequent
    BY <1>6, <1>8, <1>10, <2>1 DEF Sequents
  <2> HIDE DEF IsView
  <2>3. ViewsLast(Append(inbox[f], sent), buffer[f])
    BY <1>1, <1>8, <1>10, <2>2, ViewsWhenSent
  <2> QED
    BY <1>9, <1>10, <2>3
<1>13. OnTheWay(f) \subseteq Way(threads'[f], requests', inbox'[f], f)
  <2>1. OnTheWay(f) \subseteq Way(threads[f], requests, Append(inbox[f], sent), f)
    BY <1>1, <1>8, EventGrows DEF OnTheWay
  <2> QED
    BY <1>9, <2>1 DEF OnTheWay, followerVars
<1>14. /\ follows' = follows /\ status' = status /\ faults' = faults
       /\ follows'[f] => status'[f] = "up"
       /\ faults' = 0 => faults = 0 /\ (follows'[f] \/ buffer[f] = <<>>)
  BY <1>1, <1>9 DEF FollowerOK, followerVars
<1>15. \A k \in OnTheWay(f) :
         /\ faults' = 0 /\ buffer[f] # <<>> /\ NoRepeat(log[f])
         /\ k < Len(log[Master]) /\ k < Radix
         => k \in Way(threads'[f], requests', inbox'[f], f)
  BY <1>13
<1> QED
  BY <1>3, <1>5, <1>11, <1>12, <1>14, <1>15, KeptReplica

\* The master accepts no deletion that is too long.
LEMMA ClientRequestPerformed ==
    ASSUME Invariant, NEW edit \in Edit, ClientRequest(edit)
    PROVE  Performed(log'[Master])
<1>1. PICK e : e = [sequent |-> last[Master] + 1, edit |-> edit]
  OBVIOUS
<1>2. /\ e \in Event /\ e.edit = edit /\ log[Master] \in Seq(Event)
      /\ \/ log'[Master] = log[Master]
         \/ log'[Master] = Append(log[Master], e) /\ ~ IsView(e)
  BY <1>1, ClientRequestFacts
<1>3. Performed(log[Master])
  BY DEF Invariant
<1>4. document[Master] = Replayed(log[Master]) /\ Len(document[Master]) \in Nat
  BY ConstantsAssumption DEF Invariant, IInv, TypeOK, DocumentsMade
<1>5. edit.count \in Nat
  BY ConstantsAssumption
<1>6. e.edit.type = "DELT" => e.edit.count <= Len(Replayed(log[Master]))
  BY <1>2, <1>4, <1>5 DEF ClientRequest, TooLong
<1>7. ~ IsView(e) => Performed(Append(log[Master], e))
  BY <1>2, <1>3, <1>6, PerformedAppend
<1> QED
  BY <1>2, <1>3, <1>7

-----------------------------------------------------------------------------
(* The invariant is inductive.                                             *)

LEMMA InitInvariant == Init => Invariant
<1> SUFFICES ASSUME Init PROVE Invariant
  OBVIOUS
<1>1. IInv /\ DocumentsMade
  BY InitIInv, DocumentsMadeFirst DEF Init
<1>2. Performed(log[Master])
  BY ConstantsAssumption DEF Init, ReplicaInit, Performed
<1>3. ASSUME NEW f \in Follower PROVE FollowerOK(f)
  <2>1. /\ buffer[f] = <<>> /\ inbox[f] = <<>> /\ follows[f] = FALSE
    BY DEF Init, ReplicaInit, Follower
  <2> QED
    BY <2>1, GapsNone DEF FollowerOK, Sequents, ViewsLast
<1> QED
  BY <1>1, <1>2, <1>3 DEF Invariant

\* A step of f's server thread.
LEMMA ServerOwn ==
    ASSUME Invariant, NEW f \in Follower, Server(f)
    PROVE  FollowerOK(f)'
<1>1. CASE ApplyBuffered(f)
  BY <1>1, ApplyBufferedOwn
<1>2. CASE IgnoreEvent(f)
  BY <1>2, DiscardOwn DEF IgnoreEvent, Receives, followerVars
<1>3. ASSUME Receives(f), follows[f], NEW e, e = Head(inbox[f]),
             \/ ReceiveEvent(f, e) \/ RejectDuplicate(f, e)
             \/ DropGarbled(f, e) \/ Terminate(f, e)
      PROVE  FollowerOK(f)'
  <2>1. CASE ReceiveEvent(f, e)
    BY <1>3, <2>1, ReceiveEventOwn
  <2>2. e.sequent >= 0 => ParsedSequent(e.sequent) \in Int
    <3>1. e \in Event
      BY <1>3, FollowerFacts DEF Receives
    <3> QED
      BY <3>1, ConstantsAssumption DEF ParsedSequent, Event
  <2>3. CASE RejectDuplicate(f, e)
    <3>1. ~ NoRepeat(log[f])
      BY <2>2, <2>3, DuplicateMeansRepeat DEF RejectDuplicate
    <3> QED
      BY <1>3, <2>3, <3>1, DiscardOwn DEF RejectDuplicate, Receives, followerVars
  <2>4. CASE DropGarbled(f, e)
    <3>1. RequestReplay(f, ParsedSequent(e.sequent)) /\ e.sequent >= Radix
      BY <2>4 DEF DropGarbled
    <3>2. PICK n \in Int : n = ParsedSequent(e.sequent)
      <4>1. e \in Event
        BY <1>3, FollowerFacts DEF Receives
      <4> QED
        BY <2>2, <3>1, <4>1, ConstantsAssumption DEF Event
    <3>3. Way(threads[f], requests, Tail(inbox[f]), f)
            \subseteq Way(threads'[f], requests, Tail(inbox[f]), f)
      BY <3>1, <3>2, ReplayStarted
    <3> QED
      BY <1>3, <2>4, <3>1, <3>3, DiscardOwn DEF DropGarbled, Receives
  <2>5. CASE Terminate(f, e)
    BY <2>5, StopOwn DEF Terminate
  <2> QED
    BY <1>3, <2>1, <2>3, <2>4, <2>5
<1> QED
  BY <1>1, <1>2, <1>3 DEF Server

\* A step of follower g keeps what holds of follower f.
LEMMA FollowerStepKept ==
    ASSUME Invariant, NEW f \in Follower, NEW g \in Follower,
           \/ Server(g) \/ SendReplay(g) \/ Follow(g)
           \/ StopFollowing(g) \/ Crash(g) \/ Restart(g)
    PROVE  FollowerOK(f)' /\ log'[Master] = log[Master]
<1>1. /\ Master \in Peer \ {g} /\ faults \in Nat /\ FollowerOK(f)
      /\ status \in [Follower -> {"up", "down", "terminated"}]
      /\ follows \in [Follower -> BOOLEAN]
  <2>1. Master \in Peer \ {g} /\ FollowerOK(f)
    BY FollowerFacts
  <2> QED
    BY <2>1, ConstantsAssumption DEF Invariant, IInv, TypeOK
<1>2. /\ OnlyTouches(g) /\ (faults' = 0 => faults = 0)
      /\ \/ requests' = requests
         \/ \E r \in Request : requests' = Append(requests, r)
  <2>1. CASE Server(g)
    BY <2>1, ServerTouches
  <2>2. CASE SendReplay(g)
    BY <2>2, SendTouches
  <2>3. CASE Follow(g) \/ Restart(g)
    BY <1>1, <2>3 DEF Follow, Restart, OnlyTouches, replicaVars
  <2>4. CASE StopFollowing(g)
    BY <1>1, <2>4 DEF StopFollowing, OnlyTouches, replicaVars
  <2>5. CASE Crash(g)
    BY <1>1, <2>5, StopTouches DEF Crash
  <2> QED
    BY <2>1, <2>2, <2>3, <2>4, <2>5
<1>3. log'[Master] = log[Master]
  BY <1>1, <1>2 DEF OnlyTouches
<1>4. ASSUME f # g PROVE FollowerOK(f)'
  BY <1>2, <1>4, OtherFollowerKept
<1>5. ASSUME f = g PROVE FollowerOK(f)'
  <2>1. CASE Server(f)
    BY <2>1, ServerOwn
  <2>2. CASE SendReplay(f)
    BY <2>2, SendReplayOwn
  <2>3. CASE Follow(f)
    BY <1>1, <2>3, BeliefOwn DEF Follow, Idle
  <2>4. CASE StopFollowing(f)
    <3>1. faults' # 0 /\ follows'[f] = FALSE
      BY <1>1, <2>4 DEF StopFollowing
    <3> QED
      BY <2>4, <3>1, BeliefOwn DEF StopFollowing, replicaVars
  <2>5. CASE Crash(f)
    BY <2>5, StopOwn DEF Crash
  <2>6. CASE Restart(f)
    <3>1. status'[f] = "up" /\ follows' = follows /\ faults' = faults
      BY <1>1, <2>6 DEF Restart
    <3> QED
      BY <2>6, <3>1, BeliefOwn DEF Restart
  <2> QED
    BY <1>5, <2>1, <2>2, <2>3, <2>4, <2>5, <2>6
<1> QED
  BY <1>3, <1>4, <1>5

LEMMA NextInvariant == Invariant /\ [Next]_vars => Invariant'
<1> SUFFICES ASSUME Invariant, [Next]_vars PROVE Invariant'
  OBVIOUS
<1>1. IInv'
  BY NextIInv DEF Invariant
<1>2. DocumentsMade'
  <2>1. /\ log \in [Peer -> Seq(Event)] /\ \A p \in Peer : LastInLog(log[p], last[p])
        /\ DocumentsMade /\ IInv
    BY DEF Invariant, IInv, TypeOK, ReplicaOK, LogOK
  <2>2. ReplicaStep(Event)
    BY <2>1, NextIsReplicaStep
  <2> QED
    BY <2>1, <2>2, StepKeepsDocuments
<1>3. Performed(log'[Master]) /\ \A f \in Follower : FollowerOK(f)'
  <2>1. Performed(log[Master]) /\ \A f \in Follower : FollowerOK(f)
    BY DEF Invariant
  <2>2. ASSUME NEW edit \in Edit, ClientRequest(edit)
        PROVE  Performed(log'[Master]) /\ \A f \in Follower : FollowerOK(f)'
    BY <2>2, ClientRequestPerformed, ClientRequestKept
  <2>3. CASE HandleReplay
    <3>1. log' = log
      BY <2>3 DEF HandleReplay, replicaVars
    <3> QED
      BY <2>1, <2>3, <3>1, HandleReplayKept
  <2>4. ASSUME NEW g \in Follower,
               \/ Server(g) \/ SendReplay(g) \/ Follow(g)
               \/ StopFollowing(g) \/ Crash(g) \/ Restart(g)
        PROVE  Performed(log'[Master]) /\ \A f \in Follower : FollowerOK(f)'
    <3>1. \A f \in Follower : FollowerOK(f)'
      BY <2>4, FollowerStepKept
    <3>2. log'[Master] = log[Master]
      BY <2>4, FollowerStepKept
    <3> QED
      BY <2>1, <3>1, <3>2
  <2>5. CASE UNCHANGED vars
    <3>1. log' = log
      BY <2>5 DEF vars, replicaVars
    <3>2. ASSUME NEW f \in Follower PROVE FollowerOK(f)'
      <4>1. Untouched(f) /\ requests' = requests /\ faults' = faults
        BY <2>5 DEF Untouched, vars, replicaVars, followerVars
      <4> QED
        BY <3>1, <4>1, UntouchedKept
    <3> QED
      BY <2>1, <3>1, <3>2
  <2> QED
    BY <2>2, <2>3, <2>4, <2>5 DEF Next
<1>4. Performed(log[Master])'
  BY <1>3 DEF Performed, Replayed, IsView
<1> QED
  BY <1>1, <1>2, <1>3, <1>4 DEF Invariant

-----------------------------------------------------------------------------
(* What the invariant gives.                                               *)

\* When replays come to rest they have closed every gap: what a follower that
\* lost nothing and repeated nothing still buffers it has logged as well, unless
\* a VIEW took its place.
THEOREM RestMeansCaughtUp == Spec => []QuietMeansCaughtUp
<1>1. ASSUME Invariant, faults = 0, NEW f \in Follower, Quiet(f), RepeatFree(f),
             NEW i \in DOMAIN buffer[f],
             \A j \in 1 .. i : buffer[f][j].edit.type # "VIEW"
      PROVE  HasSequent(log[f], buffer[f][i].sequent)
  <2>1. /\ FollowerOK(f) /\ log[f] \in Seq(Event) /\ buffer[f] \in Seq(Event)
        /\ LogOK(log[f], last[f]) /\ last[f] \in Int
    BY <1>1, FollowerFacts
  <2>2. NoRepeat(log[f])
    BY <1>1 DEF NoRepeat, RepeatFree
  <2>3. PICK n \in Int : n = last[f]
    BY <2>1
  <2>4. PICK early \in Seq(Event) : early = buffer[f]
    BY <2>1
  <2>5. GapsClosed(log[f], n, early, 0, OnTheWay(f)) /\ OnTheWay(f) = {}
    <3>1. threads[f] = <<>> /\ inbox[f] = <<>> /\ resume[f] = 0
      BY <1>1 DEF Quiet, Idle
    <3>2. \A k \in DOMAIN requests : requests[k].from # f
      BY <1>1 DEF Quiet
    <3> QED
      BY <1>1, <2>1, <2>3, <2>4, <3>1, <3>2 DEF FollowerOK, OnTheWay, Way
  <2>6. /\ \A j \in DOMAIN early : early[j].sequent \in Int /\ early[j].sequent >= 1
        /\ n >= -1 /\ InOrder(log[f], n)
    BY <2>1, <2>2, <2>3, <2>4, SequentsAreInt DEF FollowerOK, Sequents, LogOK
  <2>7. CASE early[i].sequent > n
    <3>1. Ahead(early, i, n)
      BY <1>1, <2>4, <2>7 DEF Ahead, Clear, IsView
    <3>2. /\ InStep(n, early, 0)
          /\ \A k \in n + 1 .. early[i].sequent - 1 : HasSequent(early, k)
      BY <1>1, <2>2, <2>4, <2>5, <3>1 DEF GapsClosed
    <3>3. i \in DOMAIN early /\ early[i].sequent \in Int
      BY <1>1, <2>4, <2>6
    <3>4. HasSequent(early, n + 1)
      <4>1. CASE early[i].sequent = n + 1
        BY <3>3, <4>1 DEF HasSequent
      <4>2. CASE early[i].sequent # n + 1
        BY <2>7, <3>2, <3>3, <4>2
      <4> QED
        BY <4>1, <4>2
    <3>5. n + 1 = 0
      BY <3>2, <3>4 DEF InStep
    <3> QED
      BY <2>6, <3>4, <3>5 DEF HasSequent
  <2>8. CASE ~ (early[i].sequent > n)
    <3>1. early[i].sequent \in Int /\ early[i].sequent \in 0 .. n
      BY <1>1, <2>4, <2>6, <2>8
    <3> QED
      BY <2>1, <2>4, <2>6, <3>1, InOrderHolds
  <2> QED
    BY <2>7, <2>8
<1>2. Invariant => QuietMeansCaughtUp
  BY <1>1 DEF QuietMeansCaughtUp
<1> QED
  BY <1>2, InitInvariant, NextInvariant, PTL DEF Spec
=============================================================================
