--------------------------- MODULE DeliveryProofs ---------------------------
(***************************************************************************)
(* Proofs about Delivery, for any texts that may be typed, any document    *)
(* there may be before and any size of a read's buffer.  First what the    *)
(* operators of Wire do: the sums and numerals, what joining fields and    *)
(* taking them apart again gives, that every marshalled message has its    *)
(* separators (MarshalWellFormed), that a beginning with all of them is    *)
(* taken apart as the whole text would be (PrefixRead), that what a        *)
(* process signs it verifies, what a relay and a follower read of what was *)
(* composed.                                                               *)
(* The inductive invariant Inv then says, place by place, which texts can  *)
(* be on their way:                                                        *)
(*   - to the relay the client's order as it was composed (AtRelay);       *)
(*   - to the master that order as the relay reads it, or what a Byzantine *)
(*     relay can make of it: no type that is served, or the vandal's text  *)
(*     under a signature that was good for the client's (AtMaster);        *)
(*   - to a follower an event about what the master has done to its own    *)
(*     document (Done), or the false deletion that no client has signed    *)
(*     (AtFollower);                                                       *)
(* and that no text is anything but five fields (Shaped).  Inv is about    *)
(* the whole text (Sent); what a receiver takes apart after one read       *)
(* (Received) is the same, or the read ended before the separators did and *)
(* nothing is said of the rest (ReadAsSent, ShortIsReadable).  A vandal's  *)
(* text is accepted only when its sum is that of the client's modulo the   *)
(* port of the client (SameSum), and the key of a peer is good for the     *)
(* port of the first client only at 4000 (OnlyFirstPeer).                  *)
(***************************************************************************)
EXTENDS Delivery, SequenceLemmas

-----------------------------------------------------------------------------
(* Recursive functions: the values up to n, and that there are such values. *)

IsHorner(f, t, base, zero, n) ==
    f = [i \in 0 .. n |-> IF i = 0 THEN 0 ELSE base * f[i - 1] + (t[i] - zero)]

LEMMA HornerExists ==
    ASSUME NEW t, NEW base, NEW zero, NEW n \in Nat
    PROVE  \E f : IsHorner(f, t, base, zero, n)
<1> DEFINE S == {k \in Nat : ~ \E f : IsHorner(f, t, base, zero, k)}
<1>1. SUFFICES ASSUME S # {}
               PROVE  FALSE
  OBVIOUS
<1>2. PICK m \in S : \A k \in S : m <= k
  <2>1. S \in SUBSET Nat
    OBVIOUS
  <2> HIDE DEF S
  <2> QED
    BY <1>1, <2>1, NatSetMinimum
<1>3. CASE m = 0
  <2>1. PICK f : f = [i \in 0 .. 0 |-> 0]
    OBVIOUS
  <2>2. f = [i \in 0 .. 0 |-> IF i = 0 THEN 0 ELSE base * f[i - 1] + (t[i] - zero)]
    BY <2>1
  <2> QED
    BY <1>2, <1>3, <2>2 DEF IsHorner
<1>4. CASE m # 0
  <2>1. m - 1 \in Nat /\ m \in Nat
    BY <1>4
  <2>2. PICK g : IsHorner(g, t, base, zero, m - 1)
    BY <1>2, <2>1
  <2>3. PICK v : v = base * g[m - 1] + (t[m] - zero)
    OBVIOUS
  <2>4. PICK f : f = [i \in 0 .. m |-> IF i = m THEN v ELSE g[i]]
    OBVIOUS
  <2>5. \A i \in 0 .. m - 1 : f[i] = g[i]
    BY <2>1, <2>4
  <2>6. g[0] = 0 /\ \A i \in 1 .. m - 1 : g[i] = base * g[i - 1] + (t[i] - zero)
    BY <2>1, <2>2 DEF IsHorner
  <2>7. ASSUME NEW i \in 0 .. m
        PROVE  f[i] = IF i = 0 THEN 0 ELSE base * f[i - 1] + (t[i] - zero)
    <3>1. CASE i = m
      <4>1. f[m] = v /\ f[m - 1] = g[m - 1]
        BY <2>1, <2>4, <2>5
      <4> QED
        BY <1>4, <2>3, <3>1, <4>1
    <3>2. CASE i = 0
      BY <1>4, <2>1, <2>5, <2>6, <3>2
    <3>3. CASE i # m /\ i # 0
      <4>1. i \in 1 .. m - 1 /\ i \in 0 .. m - 1 /\ i - 1 \in 0 .. m - 1
        BY <2>1, <3>3
      <4>2. f[i] = g[i] /\ f[i - 1] = g[i - 1]
        BY <2>5, <4>1
      <4>3. g[i] = base * g[i - 1] + (t[i] - zero)
        BY <2>6, <4>1
      <4> QED
        BY <3>3, <4>2, <4>3
    <3> QED
      BY <3>1, <3>2, <3>3
  <2>8. f = [i \in 0 .. m |-> IF i = 0 THEN 0 ELSE base * f[i - 1] + (t[i] - zero)]
    BY <2>4, <2>7
  <2> QED
    BY <1>2, <2>8 DEF IsHorner
<1> QED
  BY <1>3, <1>4

\* What Horner computes character by character.
HornerSteps(f, t, base, zero) ==
    /\ f[0] = 0
    /\ \A i \in 1 .. Len(t) : f[i] = base * f[i - 1] + (t[i] - zero)

LEMMA HornerValue ==
    ASSUME NEW t \in Seq(Int), NEW base \in Int, NEW zero \in Int
    PROVE  \E f \in [0 .. Len(t) -> Int] :
              HornerSteps(f, t, base, zero) /\ Horner(t, base, zero) = f[Len(t)]
<1>1. PICK n \in Nat : n = Len(t)
  BY LenProperties
<1>2. PICK f : f = CHOOSE g : IsHorner(g, t, base, zero, n)
  OBVIOUS
<1>3. IsHorner(f, t, base, zero, n)
  BY <1>2, HornerExists
<1>4. Horner(t, base, zero) = f[n]
  BY <1>1, <1>2 DEF Horner, IsHorner
<1>5. HornerSteps(f, t, base, zero)
  <2>1. \A i \in 0 .. n : f[i] = IF i = 0 THEN 0 ELSE base * f[i - 1] + (t[i] - zero)
    BY <1>3 DEF IsHorner
  <2>2. f[0] = 0
    BY <2>1
  <2>3. ASSUME NEW i \in 1 .. n PROVE f[i] = base * f[i - 1] + (t[i] - zero)
    <3>1. i \in 0 .. n /\ i # 0
      OBVIOUS
    <3> QED
      BY <2>1, <3>1
  <2> QED
    BY <1>1, <2>2, <2>3 DEF HornerSteps
<1>6. \A i \in 1 .. n : t[i] \in Int
  BY <1>1, ElementOfSeq
<1>7. \A i \in 0 .. n : f[i] \in Int
  <2> DEFINE S == {i \in 0 .. n : f[i] \notin Int}
  <2>1. SUFFICES ASSUME S # {}
                 PROVE  FALSE
    OBVIOUS
  <2>2. PICK m \in S : \A k \in S : m <= k
    <3>1. S \in SUBSET Nat
      OBVIOUS
    <3> HIDE DEF S
    <3> QED
      BY <2>1, <3>1, NatSetMinimum
  <2>3. m \in 0 .. n /\ f[m] \notin Int /\ m # 0
    BY <1>5, <2>2 DEF HornerSteps
  <2>4. m \in 1 .. n /\ m - 1 \in 0 .. n /\ m - 1 \notin S
    BY <2>2, <2>3
  <2>5. f[m - 1] \in Int
    BY <2>4
  <2>6. f[m] = base * f[m - 1] + (t[m] - zero)
    BY <1>1, <1>5, <2>4 DEF HornerSteps
  <2>7. t[m] \in Int
    BY <1>6, <2>4
  <2> QED
    BY <2>3, <2>5, <2>6, <2>7
<1>8. f \in [0 .. n -> Int]
  BY <1>3, <1>7 DEF IsHorner
<1> QED
  BY <1>1, <1>4, <1>5, <1>8

\* What is read of equal beginnings is equal.
LEMMA HornerAgrees ==
    ASSUME NEW s \in Seq(Int), NEW t \in Seq(Int), NEW base \in Int, NEW zero \in Int,
           NEW f, HornerSteps(f, s, base, zero), NEW g, HornerSteps(g, t, base, zero),
           NEW n \in 0 .. Len(s), n <= Len(t), \A i \in 1 .. n : s[i] = t[i]
    PROVE  f[n] = g[n]
<1> DEFINE S == {i \in 0 .. n : f[i] # g[i]}
<1>1. Len(s) \in Nat /\ Len(t) \in Nat
  BY LenProperties
<1>2. SUFFICES ASSUME S # {}
               PROVE  FALSE
  BY <1>1
<1>3. PICK m \in S : \A k \in S : m <= k
  <2>1. S \in SUBSET Nat
    BY <1>1
  <2> HIDE DEF S
  <2> QED
    BY <1>2, <2>1, NatSetMinimum
<1>4. m \in 0 .. n /\ f[m] # g[m] /\ m # 0
  BY <1>3 DEF HornerSteps
<1>5. m \in 1 .. n /\ m - 1 \in 0 .. n /\ m - 1 \notin S /\ m \in 1 .. Len(s) /\ m \in 1 .. Len(t)
  BY <1>1, <1>3, <1>4
<1>6. f[m - 1] = g[m - 1]
  BY <1>5
<1>7. /\ f[m] = base * f[m - 1] + (s[m] - zero)
      /\ g[m] = base * g[m - 1] + (t[m] - zero)
  BY <1>5 DEF HornerSteps
<1>8. s[m] = t[m]
  BY <1>5
<1> QED
  BY <1>4, <1>6, <1>7, <1>8

LEMMA HornerInt ==
    ASSUME NEW t \in Seq(Int), NEW base \in Int, NEW zero \in Int
    PROVE  Horner(t, base, zero) \in Int
<1>1. Len(t) \in Nat
  BY LenProperties
<1> QED
  BY <1>1, HornerValue

LEMMA HornerEmpty ==
    ASSUME NEW base \in Int, NEW zero \in Int
    PROVE  Horner(<<>>, base, zero) = 0
<1>1. PICK t \in Seq(Int) : t = <<>> /\ Len(t) = 0
  BY EmptySeq
<1>2. PICK f : HornerSteps(f, t, base, zero) /\ Horner(t, base, zero) = f[Len(t)]
  BY HornerValue
<1>3. f[0] = 0
  BY <1>2 DEF HornerSteps
<1> QED
  BY <1>1, <1>2, <1>3

LEMMA HornerAppend ==
    ASSUME NEW t \in Seq(Int), NEW c \in Int, NEW base \in Int, NEW zero \in Int
    PROVE  Horner(Append(t, c), base, zero) = base * Horner(t, base, zero) + (c - zero)
<1>1. PICK n \in Nat : n = Len(t)
  BY LenProperties
<1>2. PICK s \in Seq(Int) : s = Append(t, c)
  BY AppendProperties
<1>3. Len(s) = n + 1 /\ s[n + 1] = c /\ \A i \in 1 .. n : s[i] = t[i]
  BY <1>1, <1>2, AppendProperties
<1>4. PICK f : HornerSteps(f, t, base, zero) /\ Horner(t, base, zero) = f[Len(t)]
  BY HornerValue
<1>5. PICK g : HornerSteps(g, s, base, zero) /\ Horner(s, base, zero) = g[Len(s)]
  BY HornerValue
<1>6. f[n] = g[n]
  <2>1. n \in 0 .. Len(t) /\ n <= Len(s)
    BY <1>1, <1>3
  <2>2. \A i \in 1 .. n : t[i] = s[i]
    BY <1>3
  <2> QED
    BY <1>4, <1>5, <2>1, <2>2, HornerAgrees
<1>7. g[n + 1] = base * g[n] + (c - zero)
  <2>1. n + 1 \in 1 .. Len(s) /\ (n + 1) - 1 = n
    BY <1>3
  <2>2. g[n + 1] = base * g[(n + 1) - 1] + (s[n + 1] - zero)
    BY <1>5, <2>1 DEF HornerSteps
  <2> QED
    BY <1>3, <2>1, <2>2
<1> QED
  BY <1>1, <1>2, <1>3, <1>4, <1>5, <1>6, <1>7

\* A number that is read of digits is not negative.
LEMMA HornerOfDigits ==
    ASSUME NEW t \in Seq(Digits)
    PROVE  Horner(t, 10, 48) \in Nat
<1>1. PICK n \in Nat : n = Len(t)
  BY LenProperties
<1>2. \A i \in 1 .. n : t[i] \in Int /\ t[i] - 48 >= 0
  BY <1>1, ElementOfSeq DEF Digits
<1>3. t \in Seq(Int)
  BY SeqDef DEF Digits
<1>4. PICK f \in [0 .. n -> Int] : HornerSteps(f, t, 10, 48) /\ Horner(t, 10, 48) = f[n]
  BY <1>1, <1>3, HornerValue
<1> DEFINE S == {i \in 0 .. n : f[i] < 0}
<1>5. SUFFICES ASSUME S # {}
               PROVE  FALSE
  BY <1>4
<1>6. PICK m \in S : \A k \in S : m <= k
  <2>1. S \in SUBSET Nat
    OBVIOUS
  <2> HIDE DEF S
  <2> QED
    BY <1>5, <2>1, NatSetMinimum
<1>7. m \in 0 .. n /\ f[m] < 0 /\ m # 0
  BY <1>4, <1>6 DEF HornerSteps
<1>8. m \in 1 .. n /\ m - 1 \in 0 .. n /\ m - 1 \notin S
  BY <1>6, <1>7
<1>9. f[m - 1] >= 0 /\ f[m - 1] \in Int /\ f[m] \in Int
  BY <1>4, <1>7, <1>8
<1>10. f[m] = 10 * f[m - 1] + (t[m] - 48)
  BY <1>1, <1>4, <1>8 DEF HornerSteps
<1> QED
  BY <1>2, <1>7, <1>8, <1>9, <1>10

\* What StringSum computes character by character.
Sums(f, t) == f[0] = 0 /\ \A i \in 1 .. Len(t) : f[i] = f[i - 1] + t[i]

LEMMA SumValue ==
    ASSUME NEW t \in Seq(Int)
    PROVE  \E f \in [0 .. Len(t) -> Int] : Sums(f, t) /\ StringSum(t) = f[Len(t)]
<1>1. PICK n \in Nat : n = Len(t)
  BY LenProperties
<1>2. PICK f \in [0 .. n -> Int] : HornerSteps(f, t, 1, 0) /\ Horner(t, 1, 0) = f[n]
  <2>1. PICK one \in Int, none \in Int : one = 1 /\ none = 0
    OBVIOUS
  <2>2. \E f \in [0 .. Len(t) -> Int] :
           HornerSteps(f, t, one, none) /\ Horner(t, one, none) = f[Len(t)]
    BY HornerValue
  <2> QED
    BY <1>1, <2>1, <2>2
<1>3. f[0] = 0
  BY <1>2 DEF HornerSteps
<1>4. ASSUME NEW i \in 1 .. n PROVE f[i] = f[i - 1] + t[i]
  <2>1. f[i] = 1 * f[i - 1] + (t[i] - 0)
    BY <1>1, <1>2 DEF HornerSteps
  <2>2. i - 1 \in 0 .. n /\ f[i - 1] \in Int /\ t[i] \in Int
    BY <1>1, ElementOfSeq
  <2> QED
    BY <2>1, <2>2
<1>5. Sums(f, t)
  BY <1>1, <1>3, <1>4 DEF Sums
<1> QED
  BY <1>1, <1>2, <1>5 DEF StringSum

LEMMA SumsAgree ==
    ASSUME NEW s \in Seq(Int), NEW t \in Seq(Int), NEW f, Sums(f, s), NEW g, Sums(g, t),
           NEW n \in 0 .. Len(s), n <= Len(t), \A i \in 1 .. n : s[i] = t[i]
    PROVE  f[n] = g[n]
<1> DEFINE S == {i \in 0 .. n : f[i] # g[i]}
<1>1. Len(s) \in Nat /\ Len(t) \in Nat
  BY LenProperties
<1>2. SUFFICES ASSUME S # {}
               PROVE  FALSE
  BY <1>1
<1>3. PICK m \in S : \A k \in S : m <= k
  <2>1. S \in SUBSET Nat
    BY <1>1
  <2> HIDE DEF S
  <2> QED
    BY <1>2, <2>1, NatSetMinimum
<1>4. m \in 0 .. n /\ f[m] # g[m] /\ m # 0
  BY <1>3 DEF Sums
<1>5. m \in 1 .. n /\ m - 1 \in 0 .. n /\ m - 1 \notin S /\ m \in 1 .. Len(s) /\ m \in 1 .. Len(t)
  BY <1>1, <1>3, <1>4
<1>6. f[m - 1] = g[m - 1]
  BY <1>5
<1>7. f[m] = f[m - 1] + s[m] /\ g[m] = g[m - 1] + t[m]
  BY <1>5 DEF Sums
<1>8. s[m] = t[m]
  BY <1>5
<1> QED
  BY <1>4, <1>6, <1>7, <1>8

\* The sum of a text is the sum of its parts.
LEMMA SumOfConcat ==
    ASSUME NEW s \in Seq(Int), NEW t \in Seq(Int)
    PROVE  StringSum(s \o t) = StringSum(s) + StringSum(t)
<1>1. PICK l \in Nat, n \in Nat : l = Len(s) /\ n = Len(t)
  BY LenProperties
<1>2. PICK u \in Seq(Int) : u = s \o t
  BY ConcatProperties
<1>3. /\ Len(u) = l + n
      /\ \A i \in 1 .. l : u[i] = s[i]
      /\ \A i \in 1 .. n : u[l + i] = t[i]
  BY <1>1, <1>2, ConcatProperties
<1>4. PICK f : f \in [0 .. l -> Int] /\ Sums(f, s) /\ StringSum(s) = f[l]
  BY <1>1, SumValue
<1>5. PICK g : g \in [0 .. n -> Int] /\ Sums(g, t) /\ StringSum(t) = g[n]
  BY <1>1, SumValue
<1>6. PICK h : h \in [0 .. l + n -> Int] /\ Sums(h, u) /\ StringSum(u) = h[l + n]
  BY <1>3, SumValue
<1>7. h[l] = f[l]
  <2>1. l \in 0 .. Len(s) /\ l <= Len(u)
    BY <1>1, <1>3
  <2>2. \A i \in 1 .. l : s[i] = u[i]
    BY <1>3
  <2> QED
    <3>1. Sums(f, s) /\ Sums(h, u)
      BY <1>4, <1>6
    <3>2. f[l] = h[l]
      BY <2>1, <2>2, <3>1, SumsAgree
    <3> QED
      BY <3>2
<1>8. h[l + n] = f[l] + g[n]
  <2> DEFINE S == {i \in 0 .. n : h[l + i] # f[l] + g[i]}
  <2>1. SUFFICES ASSUME S # {}
                 PROVE  FALSE
    <3>1. n \in 0 .. n
      OBVIOUS
    <3> QED
      BY <3>1
  <2>2. PICK m \in S : \A k \in S : m <= k
    <3>1. S \in SUBSET Nat
      OBVIOUS
    <3> HIDE DEF S
    <3> QED
      BY <2>1, <3>1, NatSetMinimum
  <2>3. m \in 0 .. n /\ h[l + m] # f[l] + g[m]
    BY <2>2
  <2>4. m # 0
    <3>1. g[0] = 0 /\ f[l] \in Int /\ l + 0 = l
      BY <1>4, <1>5 DEF Sums
    <3> QED
      BY <1>7, <2>3, <3>1
  <2>5. m \in 1 .. n /\ m - 1 \in 0 .. n /\ m - 1 \notin S
    BY <2>2, <2>3, <2>4
  <2>6. h[l + (m - 1)] = f[l] + g[m - 1]
    BY <2>5
  <2>7. l + m \in 1 .. Len(u) /\ (l + m) - 1 = l + (m - 1)
    BY <1>3, <2>5
  <2>8. h[l + m] = h[l + (m - 1)] + u[l + m]
    BY <1>6, <2>7 DEF Sums
  <2>9. g[m] = g[m - 1] + t[m]
    BY <1>1, <1>5, <2>5 DEF Sums
  <2>10. u[l + m] = t[m] /\ t[m] \in Int
    BY <1>1, <1>3, <2>5, ElementOfSeq
  <2>11. f[l] \in Int /\ g[m - 1] \in Int
    BY <1>4, <1>5, <2>5
  <2>12. f[l] + g[m] = (f[l] + g[m - 1]) + t[m]
    <3>1. PICK a \in Int, b \in Int, c \in Int : a = f[l] /\ b = g[m - 1] /\ c = t[m]
      BY <2>10, <2>11
    <3>2. a + (b + c) = (a + b) + c
      OBVIOUS
    <3> QED
      BY <2>9, <3>1, <3>2
  <2> QED
    BY <2>3, <2>6, <2>8, <2>10, <2>12
<1> QED
  BY <1>2, <1>4, <1>5, <1>6, <1>8

LEMMA SumInt == ASSUME NEW t \in Seq(Int) PROVE StringSum(t) \in Int
BY HornerInt DEF StringSum

LEMMA SumOfOne == ASSUME NEW c \in Int PROVE StringSum(<<c>>) = c
<1>1. PICK t : t = Append(<<>>, c)
  OBVIOUS
<1>2. t \in Seq(Int) /\ Len(t) = 1 /\ t[1] = c /\ t = <<c>>
  BY <1>1, EmptySeq, AppendProperties
<1>3. PICK f : f \in [0 .. Len(t) -> Int] /\ Sums(f, t) /\ StringSum(t) = f[Len(t)]
  BY <1>2, SumValue
<1>4. f[0] = 0 /\ f[1] = f[0] + t[1]
  <2>1. 1 \in 1 .. Len(t) /\ 1 - 1 = 0
    BY <1>2
  <2>2. f[1] = f[1 - 1] + t[1]
    BY <1>3, <2>1 DEF Sums
  <2> QED
    BY <1>3, <2>1, <2>2 DEF Sums
<1> QED
  BY <1>1, <1>2, <1>3, <1>4

LEMMA SumNat ==
    ASSUME NEW t \in Seq(Nat)
    PROVE  StringSum(t) \in Nat
<1>1. PICK n \in Nat : n = Len(t)
  BY LenProperties
<1>2. \A i \in 1 .. n : t[i] \in Int /\ t[i] >= 0
  BY <1>1, ElementOfSeq
<1>3. t \in Seq(Int)
  BY SeqMonotonic
<1>4. PICK f \in [0 .. n -> Int] : Sums(f, t) /\ StringSum(t) = f[n]
  BY <1>1, <1>3, SumValue
<1> DEFINE S == {i \in 0 .. n : f[i] < 0}
<1>5. SUFFICES ASSUME S # {}
               PROVE  FALSE
  BY <1>4
<1>6. PICK m \in S : \A k \in S : m <= k
  <2>1. S \in SUBSET Nat
    OBVIOUS
  <2> HIDE DEF S
  <2> QED
    BY <1>5, <2>1, NatSetMinimum
<1>7. m \in 0 .. n /\ f[m] < 0 /\ m # 0
  BY <1>4, <1>6 DEF Sums
<1>8. m \in 1 .. n /\ m - 1 \in 0 .. n /\ m - 1 \notin S
  BY <1>6, <1>7
<1>9. f[m - 1] >= 0 /\ f[m - 1] \in Int /\ f[m] \in Int
  BY <1>4, <1>7, <1>8
<1>10. f[m] = f[m - 1] + t[m]
  BY <1>1, <1>4, <1>8 DEF Sums
<1> QED
  BY <1>2, <1>7, <1>8, <1>9, <1>10

-----------------------------------------------------------------------------
(* Sanitising.                                                             *)

IsKept(f, t, removed, n) ==
    f = [i \in 0 .. n |->
            IF i = 0 THEN <<>>
            ELSE IF t[i] \in removed THEN f[i - 1] ELSE Append(f[i - 1], t[i])]

\* The same as one step, for a text that is not looked into.
Kept(kept, c, removed) == IF c \in removed THEN kept ELSE Append(kept, c)

LEMMA KeptExists ==
    ASSUME NEW t, NEW removed, NEW n \in Nat
    PROVE  \E f : IsKept(f, t, removed, n)
<1> DEFINE S == {k \in Nat : ~ \E f : IsKept(f, t, removed, k)}
<1>1. SUFFICES ASSUME S # {}
               PROVE  FALSE
  OBVIOUS
<1>2. PICK m \in S : \A k \in S : m <= k
  <2>1. S \in SUBSET Nat
    OBVIOUS
  <2> HIDE DEF S
  <2> QED
    BY <1>1, <2>1, NatSetMinimum
<1>3. CASE m = 0
  <2>1. PICK f : f = [i \in 0 .. 0 |-> <<>>]
    OBVIOUS
  <2>2. f = [i \in 0 .. 0 |-> IF i = 0 THEN <<>> ELSE Kept(f[i - 1], t[i], removed)]
    BY <2>1
  <2> QED
    BY <1>2, <1>3, <2>2 DEF IsKept, Kept
<1>4. CASE m # 0
  <2>1. m - 1 \in Nat /\ m \in Nat
    BY <1>4
  <2>2. PICK g : IsKept(g, t, removed, m - 1)
    BY <1>2, <2>1
  <2>3. PICK v : v = Kept(g[m - 1], t[m], removed)
    OBVIOUS
  <2>4. PICK f : f = [i \in 0 .. m |-> IF i = m THEN v ELSE g[i]]
    OBVIOUS
  <2>5. \A i \in 0 .. m - 1 : f[i] = g[i]
    BY <2>1, <2>4
  <2>6. g[0] = <<>> /\ \A i \in 1 .. m - 1 : g[i] = Kept(g[i - 1], t[i], removed)
    <3>1. \A i \in 0 .. m - 1 :
              g[i] = IF i = 0 THEN <<>> ELSE Kept(g[i - 1], t[i], removed)
      BY <2>2 DEF IsKept, Kept
    <3> QED
      BY <2>1, <3>1
  <2>7. ASSUME NEW i \in 0 .. m
        PROVE  f[i] = IF i = 0 THEN <<>> ELSE Kept(f[i - 1], t[i], removed)
    <3>1. CASE i = m
      <4>1. f[m] = v /\ f[m - 1] = g[m - 1]
        BY <2>1, <2>4, <2>5
      <4> QED
        BY <1>4, <2>3, <3>1, <4>1
    <3>2. CASE i = 0
      BY <1>4, <2>1, <2>5, <2>6, <3>2
    <3>3. CASE i # m /\ i # 0
      <4>1. i \in 1 .. m - 1 /\ i \in 0 .. m - 1 /\ i - 1 \in 0 .. m - 1
        BY <2>1, <3>3
      <4>2. f[i] = g[i] /\ f[i - 1] = g[i - 1]
        BY <2>5, <4>1
      <4>3. g[i] = Kept(g[i - 1], t[i], removed)
        BY <2>6, <4>1
      <4> QED
        BY <3>3, <4>2, <4>3
    <3> QED
      BY <3>1, <3>2, <3>3
  <2>8. f = [i \in 0 .. m |-> IF i = 0 THEN <<>> ELSE Kept(f[i - 1], t[i], removed)]
    BY <2>4, <2>7
  <2> QED
    BY <1>2, <2>8 DEF IsKept, Kept
<1> QED
  BY <1>3, <1>4

LEMMA WithoutValue ==
    ASSUME NEW t, NEW removed, Len(t) \in Nat
    PROVE  \E f : /\ Without(t, removed) = f[Len(t)]
                  /\ f[0] = <<>>
                  /\ \A i \in 1 .. Len(t) : f[i] = Kept(f[i - 1], t[i], removed)
<1>1. PICK n \in Nat : n = Len(t)
  OBVIOUS
<1>2. PICK f : f = CHOOSE g : IsKept(g, t, removed, n)
  OBVIOUS
<1>3. IsKept(f, t, removed, n)
  BY <1>2, KeptExists
<1>4. Without(t, removed) = f[n]
  BY <1>1, <1>2 DEF Without, IsKept
<1>5. \A i \in 0 .. n : f[i] = IF i = 0 THEN <<>> ELSE Kept(f[i - 1], t[i], removed)
  BY <1>3 DEF IsKept, Kept
<1>6. f[0] = <<>>
  BY <1>5
<1>7. ASSUME NEW i \in 1 .. n PROVE f[i] = Kept(f[i - 1], t[i], removed)
  <2>1. i \in 0 .. n /\ i # 0
    OBVIOUS
  <2> QED
    BY <1>5, <2>1
<1> QED
  BY <1>1, <1>4, <1>6, <1>7

LEMMA WithoutType ==
    ASSUME NEW S, NEW t \in Seq(S), NEW removed
    PROVE  Without(t, removed) \in Seq(S)
<1>1. PICK n \in Nat : n = Len(t)
  BY LenProperties
<1>2. PICK f : /\ Without(t, removed) = f[n]
               /\ f[0] = <<>>
               /\ \A i \in 1 .. n : f[i] = Kept(f[i - 1], t[i], removed)
  BY <1>1, WithoutValue
<1> DEFINE Bad == {i \in 0 .. n : f[i] \notin Seq(S)}
<1>3. SUFFICES ASSUME Bad # {}
               PROVE  FALSE
  BY <1>2
<1>4. PICK m \in Bad : \A k \in Bad : m <= k
  <2>1. Bad \in SUBSET Nat
    OBVIOUS
  <2> HIDE DEF Bad
  <2> QED
    BY <1>3, <2>1, NatSetMinimum
<1>5. m \in 0 .. n /\ f[m] \notin Seq(S) /\ m # 0
  BY <1>2, <1>4, EmptySeq
<1>6. m \in 1 .. n /\ m - 1 \in 0 .. n /\ m - 1 \notin Bad
  BY <1>4, <1>5
<1>7. f[m - 1] \in Seq(S)
  BY <1>6
<1>8. t[m] \in S
  BY <1>1, <1>6, ElementOfSeq
<1>9. f[m] = Kept(f[m - 1], t[m], removed)
  BY <1>2, <1>6
<1> QED
  BY <1>5, <1>7, <1>8, <1>9, AppendProperties DEF Kept

\* A text from which nothing is removed stays as it is.
LEMMA WithoutNothing ==
    ASSUME NEW S, NEW t \in Seq(S), NEW removed, \A i \in 1 .. Len(t) : t[i] \notin removed
    PROVE  Without(t, removed) = t
<1>1. PICK n \in Nat : n = Len(t)
  BY LenProperties
<1>2. PICK f : /\ Without(t, removed) = f[n]
               /\ f[0] = <<>>
               /\ \A i \in 1 .. n : f[i] = Kept(f[i - 1], t[i], removed)
  BY <1>1, WithoutValue
<1> DEFINE Bad == {i \in 0 .. n : f[i] # SubSeq(t, 1, i)}
<1>3. SubSeq(t, 1, n) = t
  BY <1>1, SubSeqFull
<1>4. SUFFICES ASSUME Bad # {}
               PROVE  FALSE
  <2>1. f[n] = SubSeq(t, 1, n) => Without(t, removed) = t
    BY <1>2, <1>3
  <2> QED
    BY <2>1
<1>5. PICK m \in Bad : \A k \in Bad : m <= k
  <2>1. Bad \in SUBSET Nat
    OBVIOUS
  <2> HIDE DEF Bad
  <2> QED
    BY <1>4, <2>1, NatSetMinimum
<1>6. m \in 0 .. n /\ f[m] # SubSeq(t, 1, m)
  BY <1>5
<1>7. SubSeq(t, 1, 0) = <<>>
  BY SubSeqEmpty
<1>8. m \in 1 .. n /\ m - 1 \in 0 .. n /\ m - 1 \notin Bad
  <2>1. m # 0
    BY <1>2, <1>6, <1>7
  <2> QED
    BY <1>5, <1>6, <2>1
<1>9. f[m - 1] = SubSeq(t, 1, m - 1)
  BY <1>8
<1>10. f[m] = Append(f[m - 1], t[m])
  BY <1>1, <1>2, <1>8 DEF Kept
<1>11. SubSeq(t, 1, m) = Append(SubSeq(t, 1, m - 1), t[m])
  BY <1>1, <1>8, SubSeqProperties
<1> QED
  BY <1>6, <1>9, <1>10, <1>11

-----------------------------------------------------------------------------
(* Numbers.                                                                *)

LEMMA Division ==
    ASSUME NEW n \in Nat
    PROVE  /\ n \div 10 \in Nat
           /\ n % 10 \in 0 .. 9
           /\ n = 10 * (n \div 10) + (n % 10)
           /\ n >= 10 => n \div 10 < n
OBVIOUS

NumeralStep(f, n) == IF n < 10 THEN <<48 + n>> ELSE Append(f[n \div 10], 48 + (n % 10))
IsNumeral(f, n) == f = [i \in 0 .. n |-> NumeralStep(f, i)]

\* What a step looks up is a smaller number's.
LEMMA NumeralLocal ==
    ASSUME NEW f, NEW g, NEW n \in Nat, \A i \in 0 .. n - 1 : f[i] = g[i]
    PROVE  NumeralStep(f, n) = NumeralStep(g, n)
<1>1. CASE n < 10
  BY <1>1 DEF NumeralStep
<1>2. CASE n >= 10
  <2>1. n \div 10 \in 0 .. n - 1
    BY <1>2, Division
  <2>2. f[n \div 10] = g[n \div 10]
    BY <2>1
  <2> QED
    BY <2>2 DEF NumeralStep
<1> QED
  BY <1>1, <1>2

LEMMA NumeralExists ==
    ASSUME NEW n \in Nat
    PROVE  \E f : IsNumeral(f, n)
<1> DEFINE S == {k \in Nat : ~ \E f : IsNumeral(f, k)}
<1>1. SUFFICES ASSUME S # {}
               PROVE  FALSE
  OBVIOUS
<1>2. PICK m \in S : \A k \in S : m <= k
  <2>1. S \in SUBSET Nat
    OBVIOUS
  <2> HIDE DEF S
  <2> QED
    BY <1>1, <2>1, NatSetMinimum
<1>3. PICK g : m = 0 \/ IsNumeral(g, m - 1)
  <2>1. CASE m = 0
    BY <2>1
  <2>2. CASE m # 0
    <3>1. m - 1 \in Nat /\ m - 1 \notin S
      BY <1>2, <2>2
    <3> QED
      BY <3>1
  <2> QED
    BY <2>1, <2>2
<1>4. PICK v : v = NumeralStep(g, m)
  OBVIOUS
<1>5. PICK f : f = [i \in 0 .. m |-> IF i = m THEN v ELSE g[i]]
  OBVIOUS
<1>6. \A i \in 0 .. m - 1 : f[i] = g[i]
  BY <1>5
<1>7. ASSUME NEW i \in 0 .. m PROVE f[i] = NumeralStep(f, i)
  <2>1. i \in Nat /\ NumeralStep(f, i) = NumeralStep(g, i)
    <3>1. \A j \in 0 .. i - 1 : f[j] = g[j]
      BY <1>6
    <3> QED
      BY <3>1, NumeralLocal
  <2>2. CASE i = m
    BY <1>4, <1>5, <2>1, <2>2
  <2>3. CASE i # m
    <3>1. i \in 0 .. m - 1 /\ IsNumeral(g, m - 1)
      BY <1>3, <2>3
    <3>2. g[i] = NumeralStep(g, i)
      BY <3>1 DEF IsNumeral
    <3> QED
      BY <1>6, <2>1, <3>1, <3>2
  <2> QED
    BY <2>2, <2>3
<1>8. f = [i \in 0 .. m |-> NumeralStep(f, i)]
  BY <1>5, <1>7
<1> QED
  BY <1>2, <1>8 DEF IsNumeral

LEMMA NumeralsAgree ==
    ASSUME NEW n \in Nat, NEW m \in Nat, n <= m,
           NEW f, IsNumeral(f, n), NEW g, IsNumeral(g, m)
    PROVE  f[n] = g[n]
<1> DEFINE S == {i \in 0 .. n : f[i] # g[i]}
<1>1. SUFFICES ASSUME S # {}
               PROVE  FALSE
  OBVIOUS
<1>2. PICK j \in S : \A k \in S : j <= k
  <2>1. S \in SUBSET Nat
    OBVIOUS
  <2> HIDE DEF S
  <2> QED
    BY <1>1, <2>1, NatSetMinimum
<1>3. j \in 0 .. n /\ j \in 0 .. m /\ j \in Nat /\ f[j] # g[j]
  BY <1>2
<1>4. \A i \in 0 .. j - 1 : f[i] = g[i]
  BY <1>2, <1>3
<1>5. NumeralStep(f, j) = NumeralStep(g, j)
  BY <1>3, <1>4, NumeralLocal
<1>6. f[j] = NumeralStep(f, j) /\ g[j] = NumeralStep(g, j)
  BY <1>3 DEF IsNumeral
<1> QED
  BY <1>3, <1>5, <1>6

\* The definition of Numeral determines it.
LEMMA NumeralDef ==
    ASSUME NEW n \in Nat
    PROVE  Numeral[n] = NumeralStep(Numeral, n)
<1>1. PICK f : f = [k \in Nat |-> (CHOOSE g : IsNumeral(g, k))[k]]
  OBVIOUS
<1>2. ASSUME NEW k \in Nat PROVE f[k] = NumeralStep(f, k)
  <2>1. PICK g : IsNumeral(g, k) /\ f[k] = g[k]
    BY <1>1, NumeralExists
  <2>2. ASSUME NEW i \in 0 .. k - 1 PROVE g[i] = f[i]
    <3>1. PICK h : IsNumeral(h, i) /\ f[i] = h[i]
      BY <1>1, NumeralExists
    <3>2. h[i] = g[i]
      BY <2>1, <3>1, NumeralsAgree
    <3> QED
      BY <3>1, <3>2
  <2>3. NumeralStep(g, k) = NumeralStep(f, k)
    BY <2>2, NumeralLocal
  <2>4. g[k] = NumeralStep(g, k)
    BY <2>1 DEF IsNumeral
  <2> QED
    BY <2>1, <2>3, <2>4
<1>3. f = [k \in Nat |-> NumeralStep(f, k)]
  BY <1>1, <1>2
<1>4. Numeral = CHOOSE g : g = [k \in Nat |-> NumeralStep(g, k)]
  BY DEF Numeral, NumeralStep
<1>5. Numeral = [k \in Nat |-> NumeralStep(Numeral, k)]
  BY <1>3, <1>4
<1> QED
  BY <1>5

LEMMA NumeralShort ==
    ASSUME NEW n \in Nat, n < 10
    PROVE  Numeral[n] = <<48 + n>>
BY NumeralDef DEF NumeralStep

LEMMA NumeralLong ==
    ASSUME NEW n \in Nat, n >= 10
    PROVE  Numeral[n] = Append(Numeral[n \div 10], 48 + (n % 10))
<1>1. ~ (n < 10)
  OBVIOUS
<1> QED
  BY <1>1, NumeralDef DEF NumeralStep

\* A numeral is made of digits, and is read as the number it was made of.
LEMMA NumeralDigits ==
    ASSUME NEW n \in Nat
    PROVE  /\ Numeral[n] \in Seq(Digits) /\ Numeral[n] # <<>>
           /\ Horner(Numeral[n], 10, 48) = n
<1> DEFINE Right(k) == /\ Numeral[k] \in Seq(Digits) /\ Numeral[k] # <<>>
                       /\ Horner(Numeral[k], 10, 48) = k
           S == {k \in Nat : ~ Right(k)}
<1>1. SUFFICES ASSUME S # {}
               PROVE  FALSE
  OBVIOUS
<1>2. PICK m \in S : \A k \in S : m <= k
  <2>1. S \in SUBSET Nat
    OBVIOUS
  <2> HIDE DEF S
  <2> QED
    BY <1>1, <2>1, NatSetMinimum
<1>3. ASSUME NEW t \in Seq(Digits), NEW d \in 0 .. 9
      PROVE  /\ Append(t, 48 + d) \in Seq(Digits) /\ Append(t, 48 + d) # <<>>
             /\ Horner(Append(t, 48 + d), 10, 48) = 10 * Horner(t, 10, 48) + d
  <2>1. PICK c \in Digits : c = 48 + d
    BY DEF Digits
  <2>2. t \in Seq(Int) /\ c \in Int
    BY SeqMonotonic DEF Digits
  <2>3. PICK base \in Int, zero \in Int : base = 10 /\ zero = 48
    OBVIOUS
  <2>4. Horner(Append(t, c), base, zero) = base * Horner(t, base, zero) + (c - zero)
    BY <2>2, HornerAppend
  <2> QED
    BY <2>1, <2>3, <2>4, AppendProperties
<1>4. CASE m < 10
  <2>1. Numeral[m] = Append(<<>>, 48 + m)
    <3>1. Append(<<>>, 48 + m) = <<48 + m>>
      OBVIOUS
    <3> QED
      BY <1>4, <3>1, NumeralShort
  <2>2. <<>> \in Seq(Digits) /\ Horner(<<>>, 10, 48) = 0
    <3>1. PICK base \in Int, zero \in Int : base = 10 /\ zero = 48
      OBVIOUS
    <3>2. Horner(<<>>, base, zero) = 0
      BY HornerEmpty
    <3> QED
      BY <3>1, <3>2, EmptySeq
  <2>3. m \in 0 .. 9
    BY <1>4
  <2>4. /\ Append(<<>>, 48 + m) \in Seq(Digits) /\ Append(<<>>, 48 + m) # <<>>
        /\ Horner(Append(<<>>, 48 + m), 10, 48) = 10 * Horner(<<>>, 10, 48) + m
    BY <1>3, <2>2, <2>3
  <2>5. Right(m)
    BY <2>1, <2>2, <2>3, <2>4
  <2> QED
    BY <2>5
<1>5. CASE m >= 10
  <2>1. PICK q \in Nat, r \in 0 .. 9 : q = m \div 10 /\ r = m % 10 /\ m = 10 * q + r /\ q < m
    BY <1>5, Division
  <2>2. Numeral[m] = Append(Numeral[q], 48 + r)
    BY <1>5, <2>1, NumeralLong
  <2>3. Right(q)
    BY <1>2, <2>1
  <2>4. Right(m)
    BY <1>3, <2>1, <2>2, <2>3
  <2> QED
    BY <2>4
<1> QED
  BY <1>4, <1>5

-----------------------------------------------------------------------------
(* Fields of texts.                                                        *)

Clear(t, sep) == \A i \in 1 .. Len(t) : t[i] # sep

LEMMA PlaceNone ==
    ASSUME NEW t \in Seq(Int), NEW sep, Clear(t, sep)
    PROVE  Place(t, sep) = 0
BY DEF Place, SelectInSeq, Clear

LEMMA PlaceFirst ==
    ASSUME NEW t \in Seq(Int), NEW sep, NEW k \in 1 .. Len(t), t[k] = sep,
           \A i \in 1 .. Len(t) : t[i] = sep => k <= i
    PROVE  Place(t, sep) = k
BY DEF Place, SelectInSeq, Min

LEMMA PlaceSome ==
    ASSUME NEW t \in Seq(Int), NEW sep, ~ Clear(t, sep)
    PROVE  \E k \in 1 .. Len(t) :
              /\ Place(t, sep) = k /\ t[k] = sep
              /\ \A i \in 1 .. k - 1 : t[i] # sep
<1>1. Len(t) \in Nat
  BY LenProperties
<1> DEFINE S == {i \in 1 .. Len(t) : t[i] = sep}
<1>2. S # {}
  BY DEF Clear
<1>3. PICK k \in S : \A i \in S : k <= i
  <2>1. S \in SUBSET Nat
    OBVIOUS
  <2> HIDE DEF S
  <2> QED
    BY <1>2, <2>1, NatSetMinimum
<1>4. /\ k \in 1 .. Len(t) /\ t[k] = sep
      /\ \A i \in 1 .. Len(t) : t[i] = sep => k <= i
  BY <1>3
<1>5. Place(t, sep) = k
  BY <1>4, PlaceFirst
<1>6. \A i \in 1 .. k - 1 : t[i] # sep
  BY <1>1, <1>4
<1> QED
  BY <1>4, <1>5, <1>6

Join(s, sep, u) == s \o <<sep>> \o u

IsJoin(t, s, sep, u) ==
    /\ Len(t) = Len(s) + 1 + Len(u)
    /\ \A i \in 1 .. Len(s) : t[i] = s[i]
    /\ t[Len(s) + 1] = sep
    /\ \A i \in 1 .. Len(u) : t[Len(s) + 1 + i] = u[i]

LEMMA JoinProperties ==
    ASSUME NEW S, NEW s \in Seq(S), NEW sep \in S, NEW u \in Seq(S)
    PROVE  Join(s, sep, u) \in Seq(S) /\ IsJoin(Join(s, sep, u), s, sep, u)
<1>1. PICK l \in Nat, n \in Nat : l = Len(s) /\ n = Len(u)
  BY LenProperties
<1>2. PICK p \in Seq(S) : p = Append(s, sep)
  BY AppendProperties
<1>3. Len(p) = l + 1 /\ p[l + 1] = sep /\ \A i \in 1 .. l : p[i] = s[i]
  BY <1>1, <1>2, AppendProperties
<1>4. p = s \o <<sep>>
  BY <1>2, AppendIsConcat
<1>5. PICK t \in Seq(S) : t = p \o u
  BY ConcatProperties
<1>6. /\ Len(t) = l + 1 + n
      /\ \A i \in 1 .. l + 1 + n : t[i] = IF i <= l + 1 THEN p[i] ELSE u[i - (l + 1)]
  BY <1>1, <1>3, <1>5, ConcatProperties
<1>7. t = Join(s, sep, u)
  BY <1>4, <1>5 DEF Join
<1>8. \A i \in 1 .. l : t[i] = s[i]
  BY <1>3, <1>6
<1>9. t[l + 1] = sep
  BY <1>3, <1>6
<1>10. \A i \in 1 .. n : t[l + 1 + i] = u[i]
  <2>1. TAKE i \in 1 .. n
  <2>2. l + 1 + i \in 1 .. l + 1 + n /\ ~ (l + 1 + i <= l + 1) /\ (l + 1 + i) - (l + 1) = i
    OBVIOUS
  <2> QED
    BY <1>6, <2>2
<1>11. IsJoin(t, s, sep, u)
  BY <1>1, <1>6, <1>8, <1>9, <1>10 DEF IsJoin
<1> QED
  BY <1>5, <1>7, <1>11

\* What is joined is taken apart again.
LEMMA SplitJoined ==
    ASSUME NEW s \in Seq(Int), NEW sep \in Int, NEW u \in Seq(Int), Clear(s, sep)
    PROVE  /\ Holds(Join(s, sep, u), sep)
           /\ Before(Join(s, sep, u), sep) = s
           /\ After(Join(s, sep, u), sep) = u
<1>1. PICK l \in Nat, n \in Nat : l = Len(s) /\ n = Len(u)
  BY LenProperties
<1>2. PICK t : t = Join(s, sep, u)
  OBVIOUS
<1>3. t \in Seq(Int)
  BY <1>2, JoinProperties
<1>4. /\ Len(t) = l + 1 + n
      /\ \A i \in 1 .. l : t[i] = s[i]
      /\ t[l + 1] = sep
      /\ \A i \in 1 .. n : t[l + 1 + i] = u[i]
  <2>1. IsJoin(t, s, sep, u)
    BY <1>2, JoinProperties
  <2> QED
    BY <1>1, <2>1 DEF IsJoin
<1>5. Place(t, sep) = l + 1
  <2>1. l + 1 \in 1 .. Len(t)
    BY <1>4
  <2>2. ASSUME NEW i \in 1 .. Len(t), t[i] = sep PROVE l + 1 <= i
    <3>1. \A j \in 1 .. l : t[j] # sep
      BY <1>1, <1>4 DEF Clear
    <3> QED
      BY <1>4, <2>2, <3>1
  <2> QED
    BY <1>3, <1>4, <2>1, <2>2, PlaceFirst
<1>6. SubSeq(t, 1, l) = s
  <2>1. \A i \in 1 .. l : t[i] \in Int
    BY <1>3, <1>4, ElementOfSeq
  <2>2. /\ SubSeq(t, 1, l) \in Seq(Int)
        /\ Len(SubSeq(t, 1, l)) = l
        /\ \A i \in 1 .. l : SubSeq(t, 1, l)[i] = t[i]
    BY <2>1, SubSeqProperties
  <2>3. \A i \in 1 .. l : SubSeq(t, 1, l)[i] = s[i]
    BY <1>4, <2>2
  <2> QED
    BY <1>1, <2>2, <2>3, SeqEqual
<1>7. SubSeq(t, l + 2, l + 1 + n) = u
  <2>1. \A i \in l + 2 .. l + 1 + n : t[i] \in Int
    BY <1>3, <1>4, ElementOfSeq
  <2>2. PICK v : v = SubSeq(t, l + 2, l + 1 + n)
    OBVIOUS
  <2>3. /\ v \in Seq(Int)
        /\ Len(v) = IF l + 2 <= l + 1 + n THEN (l + 1 + n) - (l + 2) + 1 ELSE 0
        /\ \A i \in 1 .. (l + 1 + n) - (l + 2) + 1 : v[i] = t[(l + 2) + i - 1]
    BY <2>1, <2>2, SubSeqProperties
  <2>4. Len(v) = n
    BY <2>3
  <2>5. ASSUME NEW i \in 1 .. n PROVE v[i] = u[i]
    <3>1. i \in 1 .. (l + 1 + n) - (l + 2) + 1 /\ (l + 2) + i - 1 = l + 1 + i
      OBVIOUS
    <3> QED
      BY <1>4, <2>3, <3>1
  <2> QED
    BY <1>1, <2>2, <2>3, <2>4, <2>5, SeqEqual
<1>8. Holds(t, sep)
  BY <1>5 DEF Holds
<1>9. Before(t, sep) = s
  <2>1. (l + 1) - 1 = l
    OBVIOUS
  <2> QED
    BY <1>5, <1>6, <2>1 DEF Before
<1>10. After(t, sep) = u
  <2>1. (l + 1) + 1 = l + 2
    OBVIOUS
  <2> QED
    BY <1>4, <1>5, <1>7, <2>1 DEF After
<1> QED
  BY <1>2, <1>8, <1>9, <1>10

\* A text with a separator is what is before and what is after the first one.
LEMMA SplitHolds ==
    ASSUME NEW S, S \subseteq Int, NEW t \in Seq(S), NEW sep, Holds(t, sep)
    PROVE  /\ sep \in S
           /\ Before(t, sep) \in Seq(S) /\ After(t, sep) \in Seq(S)
           /\ Clear(Before(t, sep), sep)
           /\ t = Join(Before(t, sep), sep, After(t, sep))
<1>1. PICK n \in Nat : n = Len(t)
  BY LenProperties
<1>2. t \in Seq(Int)
  BY SeqMonotonic
<1>3. ~ Clear(t, sep)
  BY <1>2, PlaceNone DEF Holds
<1>4. PICK k \in 1 .. n : /\ Place(t, sep) = k /\ t[k] = sep
                          /\ \A i \in 1 .. k - 1 : t[i] # sep
  BY <1>1, <1>2, <1>3, PlaceSome
<1>5. \A i \in 1 .. n : t[i] \in S
  BY <1>1, ElementOfSeq
<1>6. sep \in S
  BY <1>4, <1>5
<1>7. PICK b : b = SubSeq(t, 1, k - 1)
  OBVIOUS
<1>8. PICK a : a = SubSeq(t, k + 1, n)
  OBVIOUS
<1>9. b = Before(t, sep) /\ a = After(t, sep)
  BY <1>1, <1>4, <1>7, <1>8 DEF Before, After
<1>10. b \in Seq(S) /\ Len(b) = k - 1 /\ \A i \in 1 .. k - 1 : b[i] = t[i]
  <2>1. \A i \in 1 .. k - 1 : t[i] \in S
    BY <1>5
  <2>2. /\ b \in Seq(S)
        /\ Len(b) = IF 1 <= k - 1 THEN (k - 1) - 1 + 1 ELSE 0
        /\ \A i \in 1 .. (k - 1) - 1 + 1 : b[i] = t[1 + i - 1]
    BY <1>7, <2>1, SubSeqProperties
  <2> QED
    BY <2>2
<1>11. a \in Seq(S) /\ Len(a) = n - k /\ \A i \in 1 .. n - k : a[i] = t[k + i]
  <2>1. \A i \in k + 1 .. n : t[i] \in S
    BY <1>5
  <2>2. /\ a \in Seq(S)
        /\ Len(a) = IF k + 1 <= n THEN n - (k + 1) + 1 ELSE 0
        /\ \A i \in 1 .. n - (k + 1) + 1 : a[i] = t[(k + 1) + i - 1]
    BY <1>8, <2>1, SubSeqProperties
  <2> QED
    BY <2>2
<1>12. Clear(b, sep)
  BY <1>4, <1>10 DEF Clear
<1>13. t = Join(b, sep, a)
  <2>1. PICK j : j = Join(b, sep, a)
    OBVIOUS
  <2>2. j \in Seq(S)
    BY <1>6, <1>10, <1>11, <2>1, JoinProperties
  <2>3. /\ Len(j) = (k - 1) + 1 + (n - k)
        /\ \A i \in 1 .. k - 1 : j[i] = b[i]
        /\ j[(k - 1) + 1] = sep
        /\ \A i \in 1 .. n - k : j[(k - 1) + 1 + i] = a[i]
    <3>1. IsJoin(j, b, sep, a)
      BY <1>6, <1>10, <1>11, <2>1, JoinProperties
    <3> QED
      BY <1>10, <1>11, <3>1 DEF IsJoin
  <2>4. Len(j) = n
    BY <2>3
  <2>5. ASSUME NEW i \in 1 .. n PROVE j[i] = t[i]
    <3>1. CASE i < k
      <4>1. i \in 1 .. k - 1
        BY <3>1
      <4>2. j[i] = b[i]
        BY <2>3, <4>1
      <4>3. b[i] = t[i]
        BY <1>10, <4>1
      <4> QED
        BY <4>2, <4>3
    <3>2. CASE i = k
      BY <1>4, <2>3, <3>2
    <3>3. CASE i > k
      <4>1. i - k \in 1 .. n - k /\ (k - 1) + 1 + (i - k) = i /\ k + (i - k) = i
        BY <3>3
      <4>2. j[(k - 1) + 1 + (i - k)] = a[i - k]
        BY <2>3, <4>1
      <4>3. a[i - k] = t[k + (i - k)]
        BY <1>11, <4>1
      <4> QED
        BY <4>1, <4>2, <4>3
    <3> QED
      BY <3>1, <3>2, <3>3
  <2> QED
    BY <1>1, <2>2, <2>1, <2>4, <2>5, SeqEqual
<1> QED
  BY <1>6, <1>9, <1>10, <1>11, <1>12, <1>13

\* A text without a separator has nothing before it, and is its own rest.
LEMMA SplitClear ==
    ASSUME NEW S, S \subseteq Int, NEW t \in Seq(S), NEW sep, ~ Holds(t, sep)
    PROVE  Clear(t, sep) /\ Before(t, sep) = <<>> /\ After(t, sep) = t
<1>1. t \in Seq(Int)
  BY SeqMonotonic
<1>2. Place(t, sep) = 0
  BY DEF Holds
<1>3. Clear(t, sep)
  BY <1>1, <1>2, PlaceSome
<1>4. SubSeq(t, 1, 0 - 1) = <<>>
  BY SubSeqEmpty
<1>5. SubSeq(t, 0 + 1, Len(t)) = t
  BY SubSeqFull
<1> QED
  BY <1>2, <1>3, <1>4, <1>5 DEF Before, After

LEMMA FieldTypes ==
    ASSUME NEW S, S \subseteq Int, NEW t \in Seq(S), NEW sep
    PROVE  Before(t, sep) \in Seq(S) /\ After(t, sep) \in Seq(S) /\ Clear(Before(t, sep), sep)
<1>1. <<>> \in Seq(S) /\ Clear(<<>>, sep)
  BY EmptySeq DEF Clear
<1> QED
  BY <1>1, SplitHolds, SplitClear

LEMMA ClearHolds ==
    ASSUME NEW t \in Seq(Int), NEW sep
    PROVE  Holds(t, sep) <=> ~ Clear(t, sep)
BY PlaceNone, SplitClear DEF Holds

-----------------------------------------------------------------------------
(* Numbers at the beginning of texts.                                      *)

LEMMA DigitsAreClear ==
    ASSUME NEW t \in Seq(Digits)
    PROVE  /\ t \in Seq(Nat) /\ t \in Seq(Int)
           /\ Clear(t, Colon) /\ Clear(t, Dollar)
           /\ Sanitise(t) = t /\ SanitiseSignature(t) = t
<1>1. t \in Seq(Nat) /\ t \in Seq(Int)
  BY SeqMonotonic DEF Digits
<1>2. \A i \in 1 .. Len(t) : t[i] \in Digits
  BY ElementOfSeq
<1>3. Clear(t, Colon) /\ Clear(t, Dollar)
  BY <1>2 DEF Clear, Digits, Colon, Dollar
<1>4. \A i \in 1 .. Len(t) : t[i] \notin {Colon} /\ t[i] \notin {Dollar, Percent}
  BY <1>2 DEF Digits, Colon, Dollar, Percent
<1>5. Sanitise(t) = t
  BY <1>4, WithoutNothing DEF Sanitise
<1>6. SanitiseSignature(t) = t
  BY <1>4, WithoutNothing DEF SanitiseSignature
<1> QED
  BY <1>1, <1>3, <1>5, <1>6

LEMMA LeadingAll ==
    ASSUME NEW t \in Seq(Digits)
    PROVE  LeadingDigits(t) = t
<1>1. \A i \in 1 .. Len(t) : t[i] \in Digits
  BY ElementOfSeq
<1> QED
  BY <1>1 DEF LeadingDigits, SelectInSeq

LEMMA LeadingStops ==
    ASSUME NEW t \in Seq(Int), NEW k \in 1 .. Len(t), t[k] \notin Digits,
           \A i \in 1 .. k - 1 : t[i] \in Digits
    PROVE  LeadingDigits(t) = SubSeq(t, 1, k - 1)
<1>1. Len(t) \in Nat
  BY LenProperties
<1>2. PICK I : I = {i \in 1 .. Len(t) : t[i] \notin Digits}
  OBVIOUS
<1>3. k \in I /\ \A i \in I : k <= i
  <2>1. ASSUME NEW i \in I PROVE k <= i
    <3>1. i \in 1 .. Len(t) /\ t[i] \notin Digits
      BY <1>2
    <3> QED
      BY <1>1, <3>1
  <2> QED
    BY <1>2, <2>1
<1>4. I # {} /\ I \subseteq Int
  BY <1>2, <1>3
<1>5. Min(I) = k
  <2>1. \A x \in I : (\A y \in I : x =< y) => x = k
    <3>1. TAKE x \in I
    <3>2. HAVE \A y \in I : x =< y
    <3>3. x \in Int /\ x =< k /\ k <= x
      BY <1>3, <1>4, <3>2
    <3> QED
      BY <3>3
  <2>2. PICK x \in I : x = Min(I) /\ \A y \in I : x =< y
    BY <1>3 DEF Min
  <2> QED
    BY <2>1, <2>2
<1>6. LeadingDigits(t) = IF Min(I) = 0 THEN t ELSE SubSeq(t, 1, Min(I) - 1)
  BY <1>2, <1>4 DEF LeadingDigits, SelectInSeq
<1> QED
  BY <1>5, <1>6

\* What is read of a text are digits.
LEMMA LeadingType ==
    ASSUME NEW t \in Seq(Int)
    PROVE  LeadingDigits(t) \in Seq(Digits)
<1>1. PICK n \in Nat : n = Len(t)
  BY LenProperties
<1>2. CASE \A i \in 1 .. n : t[i] \in Digits
  <2>1. t \in Seq(Digits)
    <3>1. SubSeq(t, 1, n) \in Seq(Digits)
      BY <1>2, SubSeqProperties
    <3> QED
      BY <1>1, <3>1, SubSeqFull
  <2> QED
    BY <2>1, LeadingAll
<1>3. CASE ~ \A i \in 1 .. n : t[i] \in Digits
  <2> DEFINE S == {i \in 1 .. n : t[i] \notin Digits}
  <2>1. PICK k \in S : \A i \in S : k <= i
    <3>1. S \in SUBSET Nat /\ S # {}
      BY <1>3
    <3> HIDE DEF S
    <3> QED
      BY <3>1, NatSetMinimum
  <2>2. k \in 1 .. n /\ t[k] \notin Digits /\ \A i \in 1 .. k - 1 : t[i] \in Digits
    BY <2>1
  <2>3. LeadingDigits(t) = SubSeq(t, 1, k - 1)
    BY <1>1, <2>2, LeadingStops
  <2> QED
    BY <2>2, <2>3, SubSeqProperties
<1> QED
  BY <1>2, <1>3

LEMMA StoiNat ==
    ASSUME NEW t \in Seq(Int)
    PROVE  Stoi(t) \in Nat
BY LeadingType, HornerOfDigits DEF Stoi

\* A number is read back, also when something that is no digit follows.
LEMMA ReadNumeral ==
    ASSUME NEW n \in Nat
    PROVE  IsNumber(Numeral[n]) /\ Stoi(Numeral[n]) = n
<1>1. PICK t : t = Numeral[n]
  OBVIOUS
<1>2. t \in Seq(Digits) /\ t # <<>> /\ Horner(t, 10, 48) = n
  BY <1>1, NumeralDigits
<1>3. Head(t) \in Digits
  BY <1>2, HeadTailProperties
<1>4. LeadingDigits(t) = t
  BY <1>2, LeadingAll
<1> QED
  BY <1>1, <1>2, <1>3, <1>4 DEF IsNumber, Stoi

LEMMA ReadJoinedNumeral ==
    ASSUME NEW n \in Nat, NEW u \in Seq(Int)
    PROVE  Stoi(Join(Numeral[n], Colon, u)) = n
<1>1. PICK d : d = Numeral[n]
  OBVIOUS
<1>2. d \in Seq(Digits) /\ Horner(d, 10, 48) = n
  BY <1>1, NumeralDigits
<1>3. d \in Seq(Int) /\ Colon \in Int
  BY <1>2, DigitsAreClear DEF Colon
<1>4. PICK l \in Nat : l = Len(d)
  BY <1>2, LenProperties
<1>5. PICK t : t = Join(d, Colon, u)
  OBVIOUS
<1>6. t \in Seq(Int) /\ IsJoin(t, d, Colon, u)
  BY <1>3, <1>5, JoinProperties
<1>7. Len(u) \in Nat
  BY LenProperties
<1>8. l + 1 \in 1 .. Len(t) /\ t[l + 1] = Colon /\ \A i \in 1 .. l : t[i] = d[i]
  BY <1>4, <1>6, <1>7 DEF IsJoin
<1>9. \A i \in 1 .. l : d[i] \in Digits
  BY <1>2, <1>4, ElementOfSeq
<1>10. t[l + 1] \notin Digits /\ \A i \in 1 .. (l + 1) - 1 : t[i] \in Digits
  <2>1. t[l + 1] \notin Digits
    BY <1>8 DEF Colon, Digits
  <2>2. ASSUME NEW i \in 1 .. (l + 1) - 1 PROVE t[i] \in Digits
    <3>1. i \in 1 .. l
      OBVIOUS
    <3> QED
      BY <1>8, <1>9, <3>1
  <2> QED
    BY <2>1, <2>2
<1>11. LeadingDigits(t) = SubSeq(t, 1, (l + 1) - 1)
  BY <1>6, <1>8, <1>10, LeadingStops
<1>12. SubSeq(t, 1, (l + 1) - 1) = d
  <2>1. (l + 1) - 1 = l /\ l - 1 + 1 = l
    OBVIOUS
  <2>2. PICK v : v = SubSeq(t, 1, l)
    OBVIOUS
  <2>3. \A i \in 1 .. l : t[i] \in Int
    BY <1>6, <1>8, ElementOfSeq
  <2>4. /\ v \in Seq(Int)
        /\ Len(v) = IF 1 <= l THEN l - 1 + 1 ELSE 0
        /\ \A i \in 1 .. l - 1 + 1 : v[i] = t[1 + i - 1]
    BY <2>2, <2>3, SubSeqProperties
  <2>5. Len(v) = Len(d)
    BY <1>4, <2>4
  <2>6. \A i \in 1 .. l : v[i] = d[i]
    BY <1>8, <2>4
  <2>7. v = d
    BY <1>3, <1>4, <2>4, <2>5, <2>6, SeqEqual
  <2> QED
    BY <2>1, <2>2, <2>7
<1> QED
  BY <1>1, <1>2, <1>5, <1>11, <1>12 DEF Stoi

-----------------------------------------------------------------------------
(* Messages as texts.                                                      *)

MessageOf(S) ==
    [type : Seq(S), port : Seq(S), term : Seq(S), body : Seq(S), sign : Seq(S)]

LEMMA SeparatorsAreNat == Colon \in Nat /\ Dollar \in Nat /\ Percent \in Nat
BY DEF Colon, Dollar, Percent

Cat(s, t) == s \o t

LEMMA JoinThen ==
    ASSUME NEW S, NEW s \in Seq(S), NEW c \in S, NEW u \in Seq(S), NEW v \in Seq(S)
    PROVE  Cat(Join(s, c, u), v) = Join(s, c, Cat(u, v))
<1>1. <<c>> \in Seq(S)
  OBVIOUS
<1>2. s \o <<c>> \in Seq(S)
  BY <1>1, ConcatProperties
<1> QED
  BY <1>2, ConcatAssociative DEF Join, Cat

LEMMA ThenJoin ==
    ASSUME NEW S, NEW v \in Seq(S), NEW s \in Seq(S), NEW c \in S, NEW u \in Seq(S)
    PROVE  Cat(v, Join(s, c, u)) = Join(Cat(v, s), c, u)
<1>1. <<c>> \in Seq(S)
  OBVIOUS
<1>2. s \o <<c>> \in Seq(S)
  BY <1>1, ConcatProperties
<1>3. v \o ((s \o <<c>>) \o u) = (v \o (s \o <<c>>)) \o u
  BY <1>2, ConcatAssociative
<1>4. v \o (s \o <<c>>) = (v \o s) \o <<c>>
  BY <1>1, ConcatAssociative
<1> QED
  BY <1>3, <1>4 DEF Join, Cat

LEMMA Rejoin ==
    ASSUME NEW S, NEW s \in Seq(S), NEW c \in S, NEW u \in Seq(S), NEW d \in S, NEW v \in Seq(S)
    PROVE  Join(Join(s, c, u), d, v) = Join(s, c, Join(u, d, v))
<1>1. PICK w : w = <<d>>
  OBVIOUS
<1>2. w \in Seq(S)
  BY <1>1
<1>3. PICK j : j = Join(s, c, u)
  OBVIOUS
<1>4. Cat(j, w) = Join(s, c, Cat(u, w))
  BY <1>2, <1>3, JoinThen
<1>5. PICK x : x = Cat(u, w)
  OBVIOUS
<1>6. x \in Seq(S)
  BY <1>2, <1>5, ConcatProperties DEF Cat
<1>7. Cat(Join(s, c, x), v) = Join(s, c, Cat(x, v))
  BY <1>6, JoinThen
<1>8. Join(j, d, v) = Cat(Cat(j, w), v)
  BY <1>1 DEF Join, Cat
<1>9. Join(u, d, v) = Cat(x, v)
  BY <1>1, <1>5 DEF Join, Cat
<1> QED
  BY <1>3, <1>4, <1>5, <1>7, <1>8, <1>9

LEMMA JoinIntegers ==
    ASSUME NEW s \in Seq(Int), NEW c \in Int, NEW u \in Seq(Int)
    PROVE  Join(s, c, u) \in Seq(Int)
BY JoinProperties

LEMMA RejoinIntegers ==
    ASSUME NEW s \in Seq(Int), NEW c \in Int, NEW u \in Seq(Int), NEW d \in Int, NEW v \in Seq(Int)
    PROVE  Join(Join(s, c, u), d, v) = Join(s, c, Join(u, d, v))
<1>1. PICK S : S = Int
  OBVIOUS
<1>2. s \in Seq(S) /\ c \in S /\ u \in Seq(S) /\ d \in S /\ v \in Seq(S)
  BY <1>1
<1> QED
  BY <1>2, Rejoin

LEMMA ThenJoinIntegers ==
    ASSUME NEW v \in Seq(Int), NEW s \in Seq(Int), NEW c \in Int, NEW u \in Seq(Int)
    PROVE  Cat(v, Join(s, c, u)) = Join(Cat(v, s), c, u)
<1>1. PICK S : S = Int
  OBVIOUS
<1>2. v \in Seq(S) /\ s \in Seq(S) /\ c \in S /\ u \in Seq(S)
  BY <1>1
<1> QED
  BY <1>2, ThenJoin

\* A message from its first field to its last.
SignRest(m) == Join(m.sign, Colon, <<>>)
BodyRest(m) == Join(m.body, Dollar, SignRest(m))
TermRest(m) == Join(m.term, Colon, BodyRest(m))
PortRest(m) == Join(m.port, Colon, TermRest(m))

LEMMA RestTypes ==
    ASSUME NEW S, Nat \subseteq S, NEW m \in MessageOf(S)
    PROVE  /\ SignRest(m) \in Seq(S) /\ BodyRest(m) \in Seq(S)
           /\ TermRest(m) \in Seq(S) /\ PortRest(m) \in Seq(S)
<1>1. Colon \in S /\ Dollar \in S
  BY SeparatorsAreNat
<1>2. /\ m.port \in Seq(S) /\ m.term \in Seq(S) /\ m.body \in Seq(S) /\ m.sign \in Seq(S)
      /\ <<>> \in Seq(S)
  BY EmptySeq DEF MessageOf
<1>3. SignRest(m) \in Seq(S)
  BY <1>1, <1>2, JoinProperties DEF SignRest
<1>4. BodyRest(m) \in Seq(S)
  BY <1>1, <1>2, <1>3, JoinProperties DEF BodyRest
<1>5. TermRest(m) \in Seq(S)
  BY <1>1, <1>2, <1>4, JoinProperties DEF TermRest
<1>6. PortRest(m) \in Seq(S)
  BY <1>1, <1>2, <1>5, JoinProperties DEF PortRest
<1> QED
  BY <1>3, <1>4, <1>5, <1>6

LEMMA MarshalInFields ==
    ASSUME NEW S, Nat \subseteq S, NEW m \in MessageOf(S)
    PROVE  Marshal(m) = Join(m.type, Colon, PortRest(m)) /\ Marshal(m) \in Seq(S)
<1>1. Colon \in S /\ Dollar \in S
  BY SeparatorsAreNat
<1>2. /\ m.type \in Seq(S) /\ m.port \in Seq(S) /\ m.term \in Seq(S)
      /\ m.body \in Seq(S) /\ m.sign \in Seq(S) /\ <<>> \in Seq(S)
  BY EmptySeq DEF MessageOf
<1>3. PICK p1 : p1 = Join(m.type, Colon, m.port)
  OBVIOUS
<1>4. PICK p2 : p2 = Join(p1, Colon, m.term)
  OBVIOUS
<1>5. PICK p3 : p3 = Join(p2, Colon, m.body)
  OBVIOUS
<1>6. PICK p4 : p4 = Join(p3, Dollar, m.sign)
  OBVIOUS
<1>7. p1 \in Seq(S) /\ p2 \in Seq(S) /\ p3 \in Seq(S) /\ p4 \in Seq(S)
  <2>1. p1 \in Seq(S)
    BY <1>1, <1>2, <1>3, JoinProperties
  <2>2. p2 \in Seq(S)
    BY <1>1, <1>2, <1>4, <2>1, JoinProperties
  <2>3. p3 \in Seq(S)
    BY <1>1, <1>2, <1>5, <2>2, JoinProperties
  <2>4. p4 \in Seq(S)
    BY <1>1, <1>2, <1>6, <2>3, JoinProperties
  <2> QED
    BY <2>1, <2>2, <2>3, <2>4
<1>8. Marshal(m) = p4 \o <<Colon>>
  <2>1. Unsigned(m) = p3 \o <<Dollar>>
    BY <1>3, <1>4, <1>5 DEF Unsigned, Join
  <2> QED
    BY <1>6, <2>1 DEF Marshal, Join
<1>9. Marshal(m) = Join(p4, Colon, <<>>)
  <2>1. p4 \o <<Colon>> \in Seq(S)
    <3>1. <<Colon>> \in Seq(S)
      BY <1>1
    <3> QED
      BY <1>7, <3>1, ConcatProperties
  <2>2. (p4 \o <<Colon>>) \o <<>> = p4 \o <<Colon>>
    BY <2>1, ConcatEmptySeq
  <2> QED
    BY <1>8, <2>2 DEF Join
<1>10. SignRest(m) \in Seq(S) /\ BodyRest(m) \in Seq(S) /\ TermRest(m) \in Seq(S)
       /\ PortRest(m) \in Seq(S)
  BY RestTypes
<1>11. PICK r1, r2, r3, r4 : /\ r1 = PortRest(m) /\ r2 = TermRest(m)
                             /\ r3 = BodyRest(m) /\ r4 = SignRest(m)
  OBVIOUS
<1>12. PICK f1, f2, f3, f4, f5, e : /\ f1 = m.type /\ f2 = m.port /\ f3 = m.term
                                    /\ f4 = m.body /\ f5 = m.sign /\ e = <<>>
  OBVIOUS
<1>13. /\ f1 \in Seq(S) /\ f2 \in Seq(S) /\ f3 \in Seq(S) /\ f4 \in Seq(S) /\ f5 \in Seq(S)
       /\ p1 \in Seq(S) /\ p2 \in Seq(S) /\ p3 \in Seq(S) /\ p4 \in Seq(S)
       /\ r1 \in Seq(S) /\ r2 \in Seq(S) /\ r3 \in Seq(S) /\ r4 \in Seq(S) /\ e \in Seq(S)
  BY <1>2, <1>7, <1>10, <1>11, <1>12
<1>14. Join(p4, Colon, e) = Join(p3, Dollar, r4)
  <2>0. p3 \in Seq(S) /\ f5 \in Seq(S) /\ e \in Seq(S)
    BY <1>13
  <2>1. Join(Join(p3, Dollar, f5), Colon, e) = Join(p3, Dollar, Join(f5, Colon, e))
    BY <1>1, <2>0, Rejoin
  <2>2. r4 = Join(f5, Colon, e) /\ p4 = Join(p3, Dollar, f5)
    BY <1>6, <1>11, <1>12 DEF SignRest
  <2> QED
    BY <2>1, <2>2
<1>15. Join(p3, Dollar, r4) = Join(p2, Colon, r3)
  <2>0. p2 \in Seq(S) /\ f4 \in Seq(S) /\ r4 \in Seq(S)
    BY <1>13
  <2>1. Join(Join(p2, Colon, f4), Dollar, r4) = Join(p2, Colon, Join(f4, Dollar, r4))
    BY <1>1, <2>0, Rejoin
  <2>2. r3 = Join(f4, Dollar, r4) /\ p3 = Join(p2, Colon, f4)
    BY <1>5, <1>11, <1>12 DEF BodyRest
  <2> QED
    BY <2>1, <2>2
<1>16. Join(p2, Colon, r3) = Join(p1, Colon, r2)
  <2>0. p1 \in Seq(S) /\ f3 \in Seq(S) /\ r3 \in Seq(S)
    BY <1>13
  <2>1. Join(Join(p1, Colon, f3), Colon, r3) = Join(p1, Colon, Join(f3, Colon, r3))
    BY <1>1, <2>0, Rejoin
  <2>2. r2 = Join(f3, Colon, r3) /\ p2 = Join(p1, Colon, f3)
    BY <1>4, <1>11, <1>12 DEF TermRest
  <2> QED
    BY <2>1, <2>2
<1>17. Join(p1, Colon, r2) = Join(f1, Colon, r1)
  <2>0. f1 \in Seq(S) /\ f2 \in Seq(S) /\ r2 \in Seq(S)
    BY <1>13
  <2>1. Join(Join(f1, Colon, f2), Colon, r2) = Join(f1, Colon, Join(f2, Colon, r2))
    BY <1>1, <2>0, Rejoin
  <2>2. r1 = Join(f2, Colon, r2) /\ p1 = Join(f1, Colon, f2)
    BY <1>3, <1>11, <1>12 DEF PortRest
  <2> QED
    BY <2>1, <2>2
<1>18. Join(f1, Colon, r1) \in Seq(S)
  BY <1>1, <1>2, <1>10, <1>11, <1>12, JoinProperties
<1> QED
  BY <1>9, <1>11, <1>12, <1>14, <1>15, <1>16, <1>17, <1>18

\* What unmarshal_message makes of a text are fields without their separators.
Clean(m) ==
    /\ Clear(m.type, Colon) /\ Clear(m.port, Colon) /\ Clear(m.term, Colon)
    /\ Clear(m.body, Dollar) /\ Clear(m.sign, Colon)

LEMMA UnmarshalTypes ==
    ASSUME NEW S, S \subseteq Int, NEW t \in Seq(S)
    PROVE  Unmarshal(t) \in MessageOf(S) /\ Clean(Unmarshal(t))
<1>1. PICK t1 : t1 = After(t, Colon)
  OBVIOUS
<1>2. PICK t2 : t2 = After(t1, Colon)
  OBVIOUS
<1>3. PICK t3 : t3 = After(t2, Colon)
  OBVIOUS
<1>4. PICK t4 : t4 = After(t3, Dollar)
  OBVIOUS
<1>5. t1 \in Seq(S) /\ t2 \in Seq(S) /\ t3 \in Seq(S) /\ t4 \in Seq(S)
  BY <1>1, <1>2, <1>3, <1>4, FieldTypes
<1>6. Before(t, Colon) \in Seq(S) /\ Clear(Before(t, Colon), Colon)
  BY FieldTypes
<1>7. Before(t1, Colon) \in Seq(S) /\ Clear(Before(t1, Colon), Colon)
  BY <1>5, FieldTypes
<1>8. Before(t2, Colon) \in Seq(S) /\ Clear(Before(t2, Colon), Colon)
  BY <1>5, FieldTypes
<1>9. Before(t3, Dollar) \in Seq(S) /\ Clear(Before(t3, Dollar), Dollar)
  BY <1>5, FieldTypes
<1>10. Before(t4, Colon) \in Seq(S) /\ Clear(Before(t4, Colon), Colon)
  BY <1>5, FieldTypes
<1>11. Unmarshal(t) = [type |-> Before(t, Colon), port |-> Before(t1, Colon),
                       term |-> Before(t2, Colon), body |-> Before(t3, Dollar),
                       sign |-> Before(t4, Colon)]
  BY <1>1, <1>2, <1>3, <1>4 DEF Unmarshal
<1> QED
  BY <1>6, <1>7, <1>8, <1>9, <1>10, <1>11 DEF MessageOf, Clean

\* The part of a typed text that stays in the body, and that has no "$".
LEMMA BodyProperties ==
    ASSUME NEW S, S \subseteq Int, NEW t \in Seq(S)
    PROVE  /\ Body(t) \in Seq(S) /\ Clear(Body(t), Dollar)
           /\ Clear(t, Dollar) => Body(t) = t
           /\ Holds(t, Dollar) => t = Join(Body(t), Dollar, After(t, Dollar))
<1>1. t \in Seq(Int)
  BY SeqMonotonic
<1> QED
  BY <1>1, FieldTypes, SplitHolds, SplitClear, ClearHolds DEF Body

\* A message that was put together is taken apart into the same fields, up to
\* the first "$" in its body.
LEMMA UnmarshalMarshalled ==
    ASSUME NEW m \in MessageOf(Int),
           Clear(m.type, Colon), Clear(m.port, Colon), Clear(m.term, Colon)
    PROVE  /\ Unmarshal(Marshal(m)).type = m.type
           /\ Unmarshal(Marshal(m)).port = m.port
           /\ Unmarshal(Marshal(m)).term = m.term
           /\ Unmarshal(Marshal(m)).body = Body(m.body)
           /\ (Clear(m.body, Dollar) /\ Clear(m.sign, Colon)) =>
                  Unmarshal(Marshal(m)).sign = m.sign
<1>1. Colon \in Int /\ Dollar \in Int /\ Nat \subseteq Int
  BY SeparatorsAreNat
<1>2. /\ m.type \in Seq(Int) /\ m.port \in Seq(Int) /\ m.term \in Seq(Int)
      /\ m.body \in Seq(Int) /\ m.sign \in Seq(Int) /\ <<>> \in Seq(Int)
  BY EmptySeq DEF MessageOf
<1>3. /\ SignRest(m) \in Seq(Int) /\ BodyRest(m) \in Seq(Int)
      /\ TermRest(m) \in Seq(Int) /\ PortRest(m) \in Seq(Int)
  BY <1>1, RestTypes
<1>4. PICK t : t = Marshal(m)
  OBVIOUS
<1>5. Before(t, Colon) = m.type /\ After(t, Colon) = PortRest(m)
  <2>1. t = Join(m.type, Colon, PortRest(m))
    BY <1>1, <1>4, MarshalInFields
  <2> QED
    BY <1>1, <1>2, <1>3, <2>1, SplitJoined
<1>6. Before(PortRest(m), Colon) = m.port /\ After(PortRest(m), Colon) = TermRest(m)
  BY <1>1, <1>2, <1>3, SplitJoined DEF PortRest
<1>7. Before(TermRest(m), Colon) = m.term /\ After(TermRest(m), Colon) = BodyRest(m)
  BY <1>1, <1>2, <1>3, SplitJoined DEF TermRest
<1>8. Before(BodyRest(m), Dollar) = Body(m.body)
  <2>1. CASE Clear(m.body, Dollar)
    <3>1. Body(m.body) = m.body
      BY <1>2, <2>1, BodyProperties
    <3>2. Before(BodyRest(m), Dollar) = m.body
      BY <1>1, <1>2, <1>3, <2>1, SplitJoined DEF BodyRest
    <3> QED
      BY <3>1, <3>2
  <2>2. CASE ~ Clear(m.body, Dollar)
    <3>1. PICK b : b = Body(m.body)
      OBVIOUS
    <3>2. PICK a : a = After(m.body, Dollar)
      OBVIOUS
    <3>3. /\ b \in Seq(Int) /\ a \in Seq(Int) /\ Clear(b, Dollar)
          /\ m.body = Join(b, Dollar, a)
      BY <1>2, <2>2, <3>1, <3>2, ClearHolds, BodyProperties, FieldTypes
    <3>4. BodyRest(m) = Join(b, Dollar, Join(a, Dollar, SignRest(m)))
      BY <1>1, <1>3, <3>3, Rejoin DEF BodyRest
    <3>5. Join(a, Dollar, SignRest(m)) \in Seq(Int)
      BY <1>1, <1>3, <3>3, JoinProperties
    <3> QED
      BY <1>1, <3>1, <3>3, <3>4, <3>5, SplitJoined
  <2> QED
    BY <2>1, <2>2
<1>9. ASSUME Clear(m.body, Dollar), Clear(m.sign, Colon)
      PROVE  Before(After(BodyRest(m), Dollar), Colon) = m.sign
  <2>1. After(BodyRest(m), Dollar) = SignRest(m)
    BY <1>1, <1>2, <1>3, <1>9, SplitJoined DEF BodyRest
  <2>2. Before(SignRest(m), Colon) = m.sign
    BY <1>1, <1>2, <1>9, SplitJoined DEF SignRest
  <2> QED
    BY <2>1, <2>2
<1>10. Unmarshal(t) = [type |-> m.type, port |-> m.port, term |-> m.term,
                       body |-> Body(m.body),
                       sign |-> Before(After(BodyRest(m), Dollar), Colon)]
  BY <1>5, <1>6, <1>7, <1>8 DEF Unmarshal
<1> QED
  BY <1>4, <1>9, <1>10

\* What is sent on is taken apart into what was received.
LEMMA UnmarshalClean ==
    ASSUME NEW m \in MessageOf(Int), Clean(m)
    PROVE  Unmarshal(Marshal(m)) = m
<1>1. Body(m.body) = m.body
  BY BodyProperties DEF MessageOf, Clean
<1>2. PICK u : u = Unmarshal(Marshal(m))
  OBVIOUS
<1>3. /\ u.type = m.type /\ u.port = m.port /\ u.term = m.term
      /\ u.body = m.body /\ u.sign = m.sign
  BY <1>1, <1>2, UnmarshalMarshalled DEF Clean
<1>4. u \in MessageOf(Int)
  <2>1. Marshal(m) \in Seq(Int)
    BY MarshalInFields
  <2> QED
    BY <1>2, <2>1, UnmarshalTypes
<1>5. /\ u = [type |-> u.type, port |-> u.port, term |-> u.term,
            body |-> u.body, sign |-> u.sign]
      /\ m = [type |-> m.type, port |-> m.port, term |-> m.term,
            body |-> m.body, sign |-> m.sign]
  BY <1>4 DEF MessageOf
<1> QED
  BY <1>2, <1>3, <1>5

-----------------------------------------------------------------------------
(* What is sent has the separators that a receiver looks for.              *)

LEMMA JoinHolds ==
    ASSUME NEW a \in Seq(Int), NEW sep \in Int, NEW b \in Seq(Int)
    PROVE  Holds(Join(a, sep, b), sep)
<1>1. PICK t : t = Join(a, sep, b)
  OBVIOUS
<1>2. t \in Seq(Int) /\ IsJoin(t, a, sep, b)
  BY <1>1, JoinProperties
<1>3. Len(a) \in Nat /\ Len(b) \in Nat
  BY LenProperties
<1>4. Len(a) + 1 \in 1 .. Len(t) /\ t[Len(a) + 1] = sep
  BY <1>2, <1>3 DEF IsJoin
<1>5. ~ Clear(t, sep)
  BY <1>4 DEF Clear
<1> QED
  BY <1>1, <1>2, <1>5, ClearHolds

\* Behind the first separator of a joined text is at least its second part.
LEMMA AfterJoin ==
    ASSUME NEW a \in Seq(Int), NEW sep \in Int, NEW b \in Seq(Int)
    PROVE  \E x \in Seq(Int) : After(Join(a, sep, b), sep) = Cat(x, b)
<1>1. CASE Clear(a, sep)
  <2>1. After(Join(a, sep, b), sep) = b
    BY <1>1, SplitJoined
  <2>2. <<>> \in Seq(Int) /\ b = Cat(<<>>, b)
    BY EmptySeq, ConcatEmptySeq DEF Cat
  <2> QED
    BY <2>1, <2>2
<1>2. CASE ~ Clear(a, sep)
  <2>1. PICK p : p = Before(a, sep)
    OBVIOUS
  <2>2. PICK q : q = After(a, sep)
    OBVIOUS
  <2>3. /\ p \in Seq(Int) /\ q \in Seq(Int) /\ Clear(p, sep)
        /\ a = Join(p, sep, q)
    BY <1>2, <2>1, <2>2, ClearHolds, SplitHolds
  <2>4. PICK r : r = Join(q, sep, b)
    OBVIOUS
  <2>5. r \in Seq(Int)
    BY <2>3, <2>4, JoinProperties
  <2>6. Join(a, sep, b) = Join(p, sep, r)
    <3>1. Join(Join(p, sep, q), sep, b) = Join(p, sep, Join(q, sep, b))
      BY <2>3, RejoinIntegers
    <3> QED
      BY <2>3, <2>4, <3>1
  <2>7. After(Join(a, sep, b), sep) = r
    BY <2>3, <2>5, <2>6, SplitJoined
  <2>8. q \o <<sep>> \in Seq(Int)
    <3>1. <<sep>> \in Seq(Int)
      OBVIOUS
    <3> QED
      BY <2>3, <3>1, ConcatProperties
  <2>9. r = Cat(q \o <<sep>>, b)
    BY <2>4 DEF Cat, Join
  <2> QED
    BY <2>7, <2>8, <2>9
<1> QED
  BY <1>1, <1>2

\* So it is when another text comes first.
LEMMA AfterField ==
    ASSUME NEW x \in Seq(Int), NEW a \in Seq(Int), NEW sep \in Int, NEW b \in Seq(Int)
    PROVE  /\ Holds(Cat(x, Join(a, sep, b)), sep)
           /\ \E y \in Seq(Int) : After(Cat(x, Join(a, sep, b)), sep) = Cat(y, b)
<1>1. PICK c : c = Cat(x, a)
  OBVIOUS
<1>2. c \in Seq(Int)
  BY <1>1, ConcatProperties DEF Cat
<1>3. Cat(x, Join(a, sep, b)) = Join(c, sep, b)
  <2>1. Cat(x, Join(a, sep, b)) = Join(Cat(x, a), sep, b)
    BY ThenJoinIntegers
  <2> QED
    BY <1>1, <2>1
<1>4. Holds(Join(c, sep, b), sep)
  BY <1>2, JoinHolds
<1>5. \E y \in Seq(Int) : After(Join(c, sep, b), sep) = Cat(y, b)
  BY <1>2, AfterJoin
<1> QED
  BY <1>3, <1>4, <1>5

\* Every text put together from the five fields of a message, whatever is in them.
LEMMA MarshalWellFormed ==
    ASSUME NEW m \in MessageOf(Int)
    PROVE  WellFormed(Marshal(m))
<1>1. Colon \in Int /\ Dollar \in Int /\ Nat \subseteq Int
  BY SeparatorsAreNat
<1>2. PICK f1, f2, f3, f4, f5, e : /\ f1 = m.type /\ f2 = m.port /\ f3 = m.term
                                   /\ f4 = m.body /\ f5 = m.sign /\ e = <<>>
  OBVIOUS
<1>3. PICK r1, r2, r3, r4 : /\ r1 = PortRest(m) /\ r2 = TermRest(m)
                            /\ r3 = BodyRest(m) /\ r4 = SignRest(m)
  OBVIOUS
<1>4. /\ f1 \in Seq(Int) /\ f2 \in Seq(Int) /\ f3 \in Seq(Int) /\ f4 \in Seq(Int)
      /\ f5 \in Seq(Int) /\ e \in Seq(Int)
  BY <1>2, EmptySeq DEF MessageOf
<1>5. r1 \in Seq(Int) /\ r2 \in Seq(Int) /\ r3 \in Seq(Int) /\ r4 \in Seq(Int)
  BY <1>1, <1>3, RestTypes
<1>6. /\ r1 = Join(f2, Colon, r2) /\ r2 = Join(f3, Colon, r3)
      /\ r3 = Join(f4, Dollar, r4) /\ r4 = Join(f5, Colon, e)
  BY <1>2, <1>3 DEF PortRest, TermRest, BodyRest, SignRest
<1>7. PICK t : t = Marshal(m)
  OBVIOUS
<1>8. t = Join(f1, Colon, r1)
  BY <1>1, <1>2, <1>3, <1>7, MarshalInFields
<1>9. Holds(t, Colon)
  BY <1>1, <1>4, <1>5, <1>8, JoinHolds
<1>10. PICK x1 \in Seq(Int) : After(t, Colon) = Cat(x1, r1)
  BY <1>1, <1>4, <1>5, <1>8, AfterJoin
<1>11. PICK t1 : t1 = After(t, Colon)
  OBVIOUS
<1>12. Holds(t1, Colon) /\ \E x \in Seq(Int) : After(t1, Colon) = Cat(x, r2)
  BY <1>1, <1>4, <1>5, <1>6, <1>10, <1>11, AfterField
<1>13. PICK t2 : t2 = After(t1, Colon)
  OBVIOUS
<1>14. Holds(t2, Colon) /\ \E x \in Seq(Int) : After(t2, Colon) = Cat(x, r3)
  BY <1>1, <1>4, <1>5, <1>6, <1>12, <1>13, AfterField
<1>15. PICK t3 : t3 = After(t2, Colon)
  OBVIOUS
<1>16. Holds(t3, Dollar) /\ \E x \in Seq(Int) : After(t3, Dollar) = Cat(x, r4)
  BY <1>1, <1>4, <1>5, <1>6, <1>14, <1>15, AfterField
<1>17. PICK t4 : t4 = After(t3, Dollar)
  OBVIOUS
<1>18. Holds(t4, Colon)
  BY <1>1, <1>4, <1>6, <1>16, <1>17, AfterField
<1>19. WellFormed(t)
  BY <1>9, <1>11, <1>12, <1>13, <1>14, <1>15, <1>16, <1>17, <1>18 DEF WellFormed
<1> QED
  BY <1>7, <1>19

LEMMA MarshalSomething ==
    ASSUME NEW m \in MessageOf(Int)
    PROVE  Marshal(m) # <<>>
<1>1. Holds(Marshal(m), Colon)
  BY MarshalWellFormed DEF WellFormed
<1>2. <<>> \in Seq(Int) /\ Clear(<<>>, Colon)
  BY EmptySeq DEF Clear
<1> QED
  BY <1>1, <1>2, ClearHolds

-----------------------------------------------------------------------------
(* What a read leaves out of a text does not matter, if the separators are *)
(* in what it takes.                                                       *)

LEMMA PrefixSplit ==
    ASSUME NEW p \in Seq(Int), NEW q \in Seq(Int), NEW sep \in Int, Holds(p, sep)
    PROVE  /\ After(p, sep) \in Seq(Int)
           /\ Before(Cat(p, q), sep) = Before(p, sep)
           /\ After(Cat(p, q), sep) = Cat(After(p, sep), q)
<1>1. PICK S : S = Int
  OBVIOUS
<1>2. PICK a, b : a = Before(p, sep) /\ b = After(p, sep)
  OBVIOUS
<1>3. a \in Seq(S) /\ b \in Seq(S) /\ Clear(a, sep) /\ p = Join(a, sep, b)
  BY <1>1, <1>2, SplitHolds
<1>4. p \in Seq(S) /\ q \in Seq(S) /\ sep \in S
  BY <1>1
<1>5. Cat(Join(a, sep, b), q) = Join(a, sep, Cat(b, q))
  BY <1>3, <1>4, JoinThen
<1>6. Cat(b, q) \in Seq(S)
  BY <1>3, <1>4, ConcatProperties DEF Cat
<1>7. /\ Before(Join(a, sep, Cat(b, q)), sep) = a
      /\ After(Join(a, sep, Cat(b, q)), sep) = Cat(b, q)
  BY <1>1, <1>3, <1>6, SplitJoined
<1> QED
  BY <1>1, <1>2, <1>3, <1>5, <1>7

LEMMA PrefixRead ==
    ASSUME NEW p \in Seq(Int), NEW q \in Seq(Int), WellFormed(p)
    PROVE  Unmarshal(Cat(p, q)) = Unmarshal(p)
<1>1. Colon \in Int /\ Dollar \in Int
  BY SeparatorsAreNat
<1>2. PICK p1 : p1 = After(p, Colon)
  OBVIOUS
<1>3. PICK p2 : p2 = After(p1, Colon)
  OBVIOUS
<1>4. PICK p3 : p3 = After(p2, Colon)
  OBVIOUS
<1>5. PICK p4 : p4 = After(p3, Dollar)
  OBVIOUS
<1>6. /\ Holds(p, Colon) /\ Holds(p1, Colon) /\ Holds(p2, Colon)
      /\ Holds(p3, Dollar) /\ Holds(p4, Colon)
  BY <1>2, <1>3, <1>4, <1>5 DEF WellFormed
<1>7. PICK t : t = Cat(p, q)
  OBVIOUS
<1>8. p1 \in Seq(Int) /\ Before(t, Colon) = Before(p, Colon) /\ After(t, Colon) = Cat(p1, q)
  BY <1>1, <1>2, <1>6, <1>7, PrefixSplit
<1>9. PICK t1 : t1 = Cat(p1, q)
  OBVIOUS
<1>10. p2 \in Seq(Int) /\ Before(t1, Colon) = Before(p1, Colon) /\ After(t1, Colon) = Cat(p2, q)
  BY <1>1, <1>3, <1>6, <1>8, <1>9, PrefixSplit
<1>11. PICK t2 : t2 = Cat(p2, q)
  OBVIOUS
<1>12. p3 \in Seq(Int) /\ Before(t2, Colon) = Before(p2, Colon) /\ After(t2, Colon) = Cat(p3, q)
  BY <1>1, <1>4, <1>6, <1>10, <1>11, PrefixSplit
<1>13. PICK t3 : t3 = Cat(p3, q)
  OBVIOUS
<1>14. p4 \in Seq(Int) /\ Before(t3, Dollar) = Before(p3, Dollar) /\ After(t3, Dollar) = Cat(p4, q)
  BY <1>1, <1>5, <1>6, <1>12, <1>13, PrefixSplit
<1>15. PICK t4 : t4 = Cat(p4, q)
  OBVIOUS
<1>16. Before(t4, Colon) = Before(p4, Colon)
  BY <1>1, <1>6, <1>14, <1>15, PrefixSplit
<1>17. Unmarshal(p) = [type |-> Before(p, Colon), port |-> Before(p1, Colon),
                       term |-> Before(p2, Colon), body |-> Before(p3, Dollar),
                       sign |-> Before(p4, Colon)]
  BY <1>2, <1>3, <1>4, <1>5 DEF Unmarshal
<1>18. /\ t1 = After(t, Colon) /\ t2 = After(t1, Colon)
       /\ t3 = After(t2, Colon) /\ t4 = After(t3, Dollar)
  BY <1>8, <1>9, <1>10, <1>11, <1>12, <1>13, <1>14, <1>15
<1>19. Unmarshal(t) = [type |-> Before(t, Colon), port |-> Before(t1, Colon),
                       term |-> Before(t2, Colon), body |-> Before(t3, Dollar),
                       sign |-> Before(t4, Colon)]
  BY <1>18 DEF Unmarshal
<1> QED
  BY <1>7, <1>8, <1>10, <1>12, <1>14, <1>16, <1>17, <1>19

-----------------------------------------------------------------------------
(* Composed messages and their signatures.                                 *)

LEMMA UnsignedTypes ==
    ASSUME NEW S, Nat \subseteq S, NEW m \in MessageOf(S)
    PROVE  Unsigned(m) \in Seq(S)
<1>1. Colon \in S /\ Dollar \in S
  BY SeparatorsAreNat
<1>2. /\ m.type \in Seq(S) /\ m.port \in Seq(S) /\ m.term \in Seq(S) /\ m.body \in Seq(S)
  BY DEF MessageOf
<1>3. PICK p1 : p1 = Join(m.type, Colon, m.port)
  OBVIOUS
<1>4. p1 \in Seq(S)
  BY <1>1, <1>2, <1>3, JoinProperties
<1>5. PICK p2 : p2 = Join(p1, Colon, m.term)
  OBVIOUS
<1>6. p2 \in Seq(S)
  BY <1>1, <1>2, <1>4, <1>5, JoinProperties
<1>7. PICK p3 : p3 = Join(p2, Colon, m.body)
  OBVIOUS
<1>8. p3 \in Seq(S)
  BY <1>1, <1>2, <1>6, <1>7, JoinProperties
<1>9. Unsigned(m) = p3 \o <<Dollar>>
  BY <1>3, <1>5, <1>7 DEF Unsigned, Join
<1>10. <<Dollar>> \in Seq(S)
  BY <1>1
<1> QED
  BY <1>8, <1>9, <1>10, ConcatProperties

\* What compose_message_as signs, and the message it makes of it.
Draft(type, port, term, body) ==
    [type |-> <<type>>, port |-> Numeral[port], term |-> Numeral[term],
     body |-> body, sign |-> <<>>]
Composed(key, type, port, term, body) ==
    [type |-> <<type>>, port |-> Numeral[port], term |-> Numeral[term], body |-> body,
     sign |-> Sign(Unsigned(Draft(type, port, term, body)), key)]

LEMMA NumeralIsNat ==
    ASSUME NEW n, n \in Nat
    PROVE  Numeral[n] \in Seq(Nat) /\ Numeral[n] \in Seq(Digits) /\ Numeral[n] # <<>>
BY NumeralDigits, DigitsAreClear

LEMMA DraftTypes ==
    ASSUME NEW type \in Nat, NEW port \in Nat, NEW term \in Nat, NEW body \in Seq(Nat)
    PROVE  /\ Draft(type, port, term, body) \in MessageOf(Nat)
           /\ Unsigned(Draft(type, port, term, body)) \in Seq(Nat)
           /\ StringSum(Unsigned(Draft(type, port, term, body))) \in Nat
<1>1. Numeral[port] \in Seq(Nat) /\ Numeral[term] \in Seq(Nat)
  BY NumeralIsNat
<1>2. <<type>> \in Seq(Nat) /\ <<>> \in Seq(Nat)
  BY EmptySeq
<1>3. PICK m : m = Draft(type, port, term, body)
  OBVIOUS
<1>4. m \in MessageOf(Nat)
  BY <1>1, <1>2, <1>3 DEF Draft, MessageOf
<1>5. Unsigned(m) \in Seq(Nat)
  BY <1>4, UnsignedTypes
<1> QED
  BY <1>3, <1>4, <1>5, SumNat

IsComposed(m, key, type, port, term, body) ==
    /\ ComposeAs(key, type, port, term, body) = Marshal(m)
    /\ m \in MessageOf(Nat)
    /\ m.type = <<type>> /\ m.port = Numeral[port] /\ m.term = Numeral[term]
    /\ m.body = body
    /\ StringSum(Unsigned(m)) \in Nat
    /\ m.sign = Numeral[StringSum(Unsigned(m)) + 100 * key]
    /\ m.sign \in Seq(Digits)

\* A composed message is made of naturals, and its signature is a number.
LEMMA ComposedProperties ==
    ASSUME NEW key, key \in Nat, NEW type, type \in Nat, NEW port, port \in Nat,
           NEW term, term \in Nat, NEW body \in Seq(Nat)
    PROVE  IsComposed(Composed(key, type, port, term, body), key, type, port, term, body)
<1>1. PICK m : m = Composed(key, type, port, term, body)
  OBVIOUS
<1>2. PICK d : d = Draft(type, port, term, body)
  OBVIOUS
<1>3. d \in MessageOf(Nat) /\ StringSum(Unsigned(d)) \in Nat
  BY <1>2, DraftTypes
<1>4. PICK k : k = StringSum(Unsigned(d)) + 100 * key
  OBVIOUS
<1>5. k \in Nat
  BY <1>3, <1>4
<1>6. Sign(Unsigned(d), key) = Numeral[k]
  BY <1>4 DEF Sign, SecretKey
<1>7. /\ m.type = <<type>> /\ m.port = Numeral[port] /\ m.term = Numeral[term]
      /\ m.body = body /\ m.sign = Numeral[k]
  BY <1>1, <1>2, <1>6 DEF Composed
<1>8. Unsigned(m) = Unsigned(d)
  BY <1>2, <1>7 DEF Unsigned, Draft
<1>9. m \in MessageOf(Nat)
  <2>1. Numeral[k] \in Seq(Nat) /\ Numeral[port] \in Seq(Nat) /\ Numeral[term] \in Seq(Nat)
    BY <1>5, NumeralIsNat
  <2>2. <<type>> \in Seq(Nat)
    OBVIOUS
  <2> QED
    BY <1>1, <1>2, <1>6, <2>1, <2>2 DEF Composed, MessageOf
<1>10. m = [d EXCEPT !.sign = Sign(Unsigned(d), key)]
  BY <1>1, <1>2 DEF Composed, Draft
<1>11. ComposeAs(key, type, port, term, body) = Marshal(m)
  BY <1>2, <1>10 DEF ComposeAs, Draft
<1> QED
  BY <1>1, <1>3, <1>4, <1>5, <1>7, <1>8, <1>9, <1>11, NumeralIsNat DEF IsComposed

\* A secret key is a multiple of the port it belongs to.
LEMMA KeyIsMultiple ==
    ASSUME NEW a \in Nat, NEW port \in PeerPorts \cup ClientPorts
    PROVE  (a + 100 * port) % port = a % port
<1>1. \/ port = 4000 \/ port = 4001 \/ port = 4002 \/ port = 4003 \/ port = 4004
      \/ port = 5000 \/ port = 5001
  BY DEF PeerPorts, ClientPorts
<1>2. CASE port = 4000
  BY <1>2
<1>3. CASE port = 4001
  BY <1>3
<1>4. CASE port = 4002
  BY <1>4
<1>5. CASE port = 4003
  BY <1>5
<1>6. CASE port = 4004
  BY <1>6
<1>7. CASE port = 5000
  BY <1>7
<1>8. CASE port = 5001
  BY <1>8
<1> QED
  BY <1>1, <1>2, <1>3, <1>4, <1>5, <1>6, <1>7, <1>8

\* What verify_message computes of a message whose port and signature are numbers.
LEMMA VerifyNumbers ==
    ASSUME NEW m, NEW port \in Nat, NEW signature \in Nat, port # 0,
           m.port = Numeral[port], m.sign = Numeral[signature]
    PROVE  /\ ~ Throws(m)
           /\ VerifyMessage(m) <=> signature % port = StringSum(Unsigned(m)) % port
<1>1. IsNumber(m.port) /\ Stoi(m.port) = port
  BY ReadNumeral
<1>2. IsNumber(m.sign) /\ Stoi(m.sign) = signature
  BY ReadNumeral
<1>3. SanitiseSignature(m.sign) = m.sign
  BY NumeralIsNat, DigitsAreClear
<1>4. ~ Throws(m)
  BY <1>1, <1>2, <1>3 DEF Throws
<1> QED
  BY <1>1, <1>2, <1>3, <1>4 DEF VerifyMessage, Verifies

\* A message that is signed with the key of the port it names is accepted.
LEMMA SignVerifies ==
    ASSUME NEW port \in PeerPorts \cup ClientPorts, NEW type \in Nat, NEW term \in Nat,
           NEW body \in Seq(Nat), NEW m, m = Composed(port, type, port, term, body)
    PROVE  ~ Throws(m) /\ VerifyMessage(m)
<1>1. port \in Nat /\ port # 0
  BY DEF PeerPorts, ClientPorts
<1>2. PICK a : a = StringSum(Unsigned(m))
  OBVIOUS
<1>3. a \in Nat /\ m.port = Numeral[port] /\ m.sign = Numeral[a + 100 * port]
  <2>1. PICK key : key = port
    OBVIOUS
  <2>2. key \in Nat /\ m = Composed(key, type, port, term, body)
    BY <1>1, <2>1
  <2>4. IsComposed(m, key, type, port, term, body)
    BY <1>1, <2>2, ComposedProperties
  <2>3. /\ StringSum(Unsigned(m)) \in Nat /\ m.port = Numeral[port]
        /\ m.sign = Numeral[StringSum(Unsigned(m)) + 100 * key]
    BY <2>4 DEF IsComposed
  <2> QED
    BY <1>2, <2>1, <2>3
<1>4. PICK k : k = a + 100 * port
  OBVIOUS
<1>5. k \in Nat /\ k % port = a % port
  <2>1. (a + 100 * port) % port = a % port
    BY <1>3, KeyIsMultiple
  <2> QED
    BY <1>1, <1>3, <1>4, <2>1
<1> QED
  BY <1>1, <1>2, <1>3, <1>4, <1>5, VerifyNumbers

LEMMA OnlyFirstPeer ==
    ASSUME NEW a \in Nat, NEW peer \in 4000 .. 4004, (a + 100 * peer) % 5000 = a % 5000
    PROVE  peer = 4000
OBVIOUS

LEMMA FalseElectionVerifies ==
    ASSUME NEW peer \in PeerPorts, NEW type, NEW port, port \in Nat, port = 5000,
           NEW term, NEW body, NEW m,
           IsComposed(m, peer, type, port, term, body), VerifyMessage(m)
    PROVE  peer = 4000
<1>1. peer \in 4000 .. 4004
  BY DEF PeerPorts
<1>2. PICK a : a = StringSum(Unsigned(m))
  OBVIOUS
<1>3. a \in Nat /\ m.port = Numeral[port] /\ m.sign = Numeral[a + 100 * peer]
  BY <1>2 DEF IsComposed
<1>4. PICK k : k = a + 100 * peer
  OBVIOUS
<1>5. k \in Nat
  BY <1>1, <1>3, <1>4
<1>6. k % port = a % port
  BY <1>2, <1>3, <1>4, <1>5, VerifyNumbers
<1>7. (a + 100 * peer) % 5000 = a % 5000
  BY <1>4, <1>6
<1> QED
  BY <1>1, <1>3, <1>7, OnlyFirstPeer

LEMMA SumsCancel ==
    ASSUME NEW u, NEW v, NEW f, NEW b, NEW c, NEW p \in Nat, p # 0,
           StringSum(f) \in Int, StringSum(b) \in Int, StringSum(c) \in Int,
           StringSum(u) \in Int, StringSum(v) \in Int,
           StringSum(u) = (StringSum(f) + StringSum(b)) + 36,
           StringSum(v) = (StringSum(f) + StringSum(c)) + 36,
           StringSum(u) % p = StringSum(v) % p
    PROVE  StringSum(b) % p = StringSum(c) % p
<1>1. PICK x \in Int, y \in Int, z \in Int :
          x = StringSum(f) /\ y = StringSum(b) /\ z = StringSum(c)
  OBVIOUS
<1>2. PICK q \in Int : q = p
  OBVIOUS
<1>3. q > 0 /\ ((x + y) + 36) % q = ((x + z) + 36) % q
  BY <1>1, <1>2
<1>4. y % q = z % q
  BY <1>3
<1> QED
  BY <1>1, <1>2, <1>4

\* A signature that is good for two bodies says that their sums are the same
\* modulo the port of the client.
LEMMA SameSum ==
    ASSUME NEW m \in MessageOf(Int), NEW port \in Nat, port # 0, m.port = Numeral[port],
           NEW body \in Seq(Int), NEW n, n = [m EXCEPT !.body = body],
           VerifyMessage(m), VerifyMessage(n)
    PROVE  StringSum(m.body) % port = StringSum(body) % port
<1>1. PICK t, p, r : t = m.type /\ p = m.port /\ r = m.term
  OBVIOUS
<1>2. t \in Seq(Int) /\ p \in Seq(Int) /\ r \in Seq(Int) /\ m.body \in Seq(Int)
  BY <1>1 DEF MessageOf
<1>3. n.type = t /\ n.port = p /\ n.term = r /\ n.body = body /\ n.sign = m.sign
  BY <1>1 DEF MessageOf
<1>4. PICK front : front = t \o <<Colon>> \o p \o <<Colon>> \o r \o <<Colon>>
  OBVIOUS
<1>5. Unsigned(m) = (front \o m.body) \o <<Dollar>>
  BY <1>1, <1>4 DEF Unsigned
<1>6. Unsigned(n) = (front \o body) \o <<Dollar>>
  BY <1>3, <1>4 DEF Unsigned
<1>7. front \in Seq(Int)
  <2>1. <<Colon>> \in Seq(Int)
    BY DEF Colon
  <2>2. t \o <<Colon>> \in Seq(Int)
    BY <1>2, <2>1, ConcatProperties
  <2>3. (t \o <<Colon>>) \o p \in Seq(Int)
    BY <1>2, <2>2, ConcatProperties
  <2>4. ((t \o <<Colon>>) \o p) \o <<Colon>> \in Seq(Int)
    BY <2>1, <2>3, ConcatProperties
  <2>5. (((t \o <<Colon>>) \o p) \o <<Colon>>) \o r \in Seq(Int)
    BY <1>2, <2>4, ConcatProperties
  <2> QED
    BY <1>4, <2>1, <2>5, ConcatProperties
<1>8. ASSUME NEW b \in Seq(Int)
      PROVE  StringSum((front \o b) \o <<Dollar>>) = (StringSum(front) + StringSum(b)) + 36
  <2>1. PICK d : d = <<Dollar>>
    OBVIOUS
  <2>2. d \in Seq(Int) /\ StringSum(d) = 36
    BY <2>1, SumOfOne DEF Dollar
  <2>3. PICK x : x = front \o b
    OBVIOUS
  <2>4. x \in Seq(Int) /\ StringSum(x) = StringSum(front) + StringSum(b)
    BY <1>7, <2>3, ConcatProperties, SumOfConcat
  <2>5. StringSum(x \o d) = StringSum(x) + StringSum(d)
    BY <2>2, <2>4, SumOfConcat
  <2> QED
    BY <2>1, <2>2, <2>3, <2>4, <2>5
<1>9. PICK s : s = Stoi(SanitiseSignature(m.sign))
  OBVIOUS
<1>10. Stoi(p) = port
  BY <1>1, ReadNumeral
<1>11. s % port = StringSum(Unsigned(m)) % port /\ s % port = StringSum(Unsigned(n)) % port
  BY <1>1, <1>3, <1>9, <1>10 DEF VerifyMessage, Verifies
<1>12. /\ StringSum(Unsigned(m)) = (StringSum(front) + StringSum(m.body)) + 36
       /\ StringSum(Unsigned(n)) = (StringSum(front) + StringSum(body)) + 36
  BY <1>2, <1>5, <1>6, <1>8
<1>13. StringSum(Unsigned(m)) % port = StringSum(Unsigned(n)) % port
  BY <1>11
<1>14. /\ StringSum(front) \in Int /\ StringSum(m.body) \in Int /\ StringSum(body) \in Int
  BY <1>2, <1>7, SumInt
<1>15. StringSum(Unsigned(m)) \in Int /\ StringSum(Unsigned(n)) \in Int
  BY <1>12, <1>14
<1> QED
  BY <1>12, <1>13, <1>14, <1>15, SumsCancel

-----------------------------------------------------------------------------
(* Log events in the bodies of messages.                                   *)

LEMMA ClearJoin ==
    ASSUME NEW s \in Seq(Int), NEW c \in Int, NEW u \in Seq(Int), NEW sep, c # sep,
           Clear(s, sep), Clear(u, sep)
    PROVE  Clear(Join(s, c, u), sep)
<1>1. PICK t : t = Join(s, c, u)
  OBVIOUS
<1>2. t \in Seq(Int) /\ IsJoin(t, s, c, u)
  BY <1>1, JoinProperties
<1>3. PICK l \in Nat, n \in Nat : l = Len(s) /\ n = Len(u)
  BY LenProperties
<1>4. /\ Len(t) = l + 1 + n /\ t[l + 1] = c
      /\ \A i \in 1 .. l : t[i] = s[i]
      /\ \A i \in 1 .. n : t[l + 1 + i] = u[i]
  BY <1>2, <1>3 DEF IsJoin
<1>5. (\A i \in 1 .. l : s[i] # sep) /\ (\A i \in 1 .. n : u[i] # sep)
  BY <1>3 DEF Clear
<1>6. ASSUME NEW i \in 1 .. l + 1 + n PROVE t[i] # sep
  <2>1. CASE i <= l
    <3>1. i \in 1 .. l
      BY <2>1
    <3> QED
      BY <1>4, <1>5, <3>1
  <2>2. CASE i = l + 1
    BY <1>4, <2>2
  <2>3. CASE i > l + 1
    <3>1. i - (l + 1) \in 1 .. n /\ l + 1 + (i - (l + 1)) = i
      BY <2>3
    <3> QED
      BY <1>4, <1>5, <3>1
  <2> QED
    BY <2>1, <2>2, <2>3
<1>7. Clear(t, sep)
  BY <1>4, <1>6 DEF Clear
<1> QED
  BY <1>1, <1>7

\* A text up to its first separator.
UpTo(t, sep) == IF Holds(t, sep) THEN Before(t, sep) ELSE t

LEMMA UpToProperties ==
    ASSUME NEW S, S \subseteq Int, NEW t \in Seq(S), NEW sep
    PROVE  /\ UpTo(t, sep) \in Seq(S) /\ Clear(UpTo(t, sep), sep)
           /\ Clear(t, sep) => UpTo(t, sep) = t
<1>1. t \in Seq(Int)
  BY SeqMonotonic
<1> QED
  BY <1>1, FieldTypes, SplitClear, ClearHolds DEF UpTo

\* A separator behind a text does not change what comes before its first one.
LEMMA BeforeJoin ==
    ASSUME NEW a \in Seq(Int), NEW sep \in Int, NEW b \in Seq(Int)
    PROVE  Before(Join(a, sep, b), sep) = UpTo(a, sep)
<1>1. CASE Clear(a, sep)
  <2>1. Before(Join(a, sep, b), sep) = a
    BY <1>1, SplitJoined
  <2> QED
    BY <1>1, <2>1, ClearHolds DEF UpTo
<1>2. CASE ~ Clear(a, sep)
  <2>1. PICK p : p = Before(a, sep)
    OBVIOUS
  <2>2. PICK q : q = After(a, sep)
    OBVIOUS
  <2>3. /\ p \in Seq(Int) /\ q \in Seq(Int) /\ Clear(p, sep)
        /\ a = Join(p, sep, q)
    BY <1>2, <2>1, <2>2, ClearHolds, SplitHolds
  <2>4. PICK r : r = Join(q, sep, b)
    OBVIOUS
  <2>5. r \in Seq(Int)
    BY <2>3, <2>4, JoinProperties
  <2>6. Join(Join(p, sep, q), sep, b) = Join(p, sep, Join(q, sep, b))
    BY <2>3, RejoinIntegers
  <2>7. Before(Join(p, sep, r), sep) = p
    BY <2>3, <2>5, SplitJoined
  <2>8. UpTo(a, sep) = p
    BY <1>2, <2>1, ClearHolds DEF UpTo
  <2> QED
    BY <2>3, <2>4, <2>6, <2>7, <2>8
<1> QED
  BY <1>1, <1>2

\* What comes before the first of another separator.
LEMMA UpToJoin ==
    ASSUME NEW s \in Seq(Int), NEW c \in Int, NEW u \in Seq(Int), NEW sep \in Int, c # sep,
           Clear(s, sep)
    PROVE  UpTo(Join(s, c, u), sep) = Join(s, c, UpTo(u, sep))
<1>1. PICK t : t = Join(s, c, u)
  OBVIOUS
<1>2. t \in Seq(Int)
  BY <1>1, JoinProperties
<1>3. CASE Clear(u, sep)
  <2>1. Clear(t, sep)
    BY <1>1, <1>3, ClearJoin
  <2> QED
    BY <1>1, <1>2, <1>3, <2>1, ClearHolds DEF UpTo
<1>4. CASE ~ Clear(u, sep)
  <2>1. PICK b : b = Before(u, sep)
    OBVIOUS
  <2>2. PICK a : a = After(u, sep)
    OBVIOUS
  <2>3. /\ b \in Seq(Int) /\ a \in Seq(Int) /\ Clear(b, sep) /\ u = Join(b, sep, a)
    BY <1>4, <2>1, <2>2, ClearHolds, SplitHolds
  <2>4. PICK j : j = Join(s, c, b)
    OBVIOUS
  <2>5. j \in Seq(Int)
    BY <2>3, <2>4, JoinProperties
  <2>6. Clear(j, sep)
    BY <2>3, <2>4, ClearJoin
  <2>7. Join(Join(s, c, b), sep, a) = Join(s, c, Join(b, sep, a))
    BY <2>3, RejoinIntegers
  <2>8. t = Join(j, sep, a)
    BY <1>1, <2>3, <2>4, <2>7
  <2>9. Holds(t, sep) /\ Before(t, sep) = j
    BY <2>3, <2>5, <2>6, <2>8, SplitJoined
  <2>10. UpTo(u, sep) = b /\ UpTo(t, sep) = j
    BY <1>4, <2>1, <2>9, ClearHolds DEF UpTo
  <2> QED
    BY <1>1, <2>4, <2>10
<1> QED
  BY <1>3, <1>4

LEMMA BehindOne ==
    ASSUME NEW d \in Int, NEW c \in Int, NEW u \in Seq(Int), NEW t, t = Join(<<d>>, c, u)
    PROVE  SubSeq(t, 3, Len(t)) = u
<1>1. PICK s : s = <<d>>
  OBVIOUS
<1>2. s \in Seq(Int) /\ Len(s) = 1
  BY <1>1
<1>3. t \in Seq(Int) /\ IsJoin(t, s, c, u)
  BY <1>1, <1>2, JoinProperties
<1>4. PICK n \in Nat : n = Len(u)
  BY LenProperties
<1>5. Len(t) = 1 + 1 + n /\ \A i \in 1 .. n : t[1 + 1 + i] = u[i]
  BY <1>2, <1>3, <1>4 DEF IsJoin
<1>6. PICK v : v = SubSeq(t, 3, Len(t))
  OBVIOUS
<1>7. \A i \in 3 .. 1 + 1 + n : t[i] \in Int
  BY <1>3, <1>5, ElementOfSeq
<1>8. /\ v \in Seq(Int)
      /\ Len(v) = IF 3 <= 1 + 1 + n THEN (1 + 1 + n) - 3 + 1 ELSE 0
      /\ \A i \in 1 .. (1 + 1 + n) - 3 + 1 : v[i] = t[3 + i - 1]
  <2>1. PICK lo, hi : lo = 3 /\ hi = 1 + 1 + n
    OBVIOUS
  <2>2. lo \in Int /\ hi \in Int
    BY <2>1
  <2>3. v = SubSeq(t, lo, hi)
    BY <1>5, <1>6, <2>1
  <2>4. \A i \in lo .. hi : t[i] \in Int
    BY <1>7, <2>1
  <2>5. /\ v \in Seq(Int)
        /\ Len(v) = IF lo <= hi THEN hi - lo + 1 ELSE 0
        /\ \A i \in 1 .. hi - lo + 1 : v[i] = t[lo + i - 1]
    BY <2>2, <2>3, <2>4, SubSeqProperties
  <2> QED
    BY <2>1, <2>5
<1>9. Len(v) = n
  BY <1>8
<1>10. ASSUME NEW i \in 1 .. n PROVE v[i] = u[i]
  <2>1. i \in 1 .. (1 + 1 + n) - 3 + 1 /\ 3 + i - 1 = 1 + 1 + i
    OBVIOUS
  <2> QED
    BY <1>5, <1>8, <2>1
<1>11. v = u
  BY <1>4, <1>8, <1>9, <1>10, SeqEqual
<1> QED
  BY <1>6, <1>11

\* The body of a log event from its first field to its last.
EventRest(client, sign) == Join(Numeral[client], Colon, sign)

LEMMA EventInFields ==
    ASSUME NEW sequent, sequent \in 0 .. 9, NEW data \in Seq(Nat),
           NEW client, client \in Nat, NEW sign \in Seq(Nat),
           NEW e, e = [sequent |-> sequent, data |-> data, client |-> client, sign |-> sign]
    PROVE  /\ EventRest(client, sign) \in Seq(Nat)
           /\ Join(data, Colon, EventRest(client, sign)) \in Seq(Nat)
           /\ EventBody(e) \in Seq(Nat)
           /\ EventBody(e) =
                Join(<<48 + sequent>>, Colon, Join(data, Colon, EventRest(client, sign)))
<1>1. Colon \in Nat
  BY DEF Colon
<1>2. PICK n1, n2 : n1 = Numeral[sequent] /\ n2 = Numeral[client]
  OBVIOUS
<1>3. n1 \in Seq(Nat) /\ n2 \in Seq(Nat) /\ n1 = <<48 + sequent>>
  <2>1. n2 \in Seq(Nat)
    BY <1>2, NumeralIsNat
  <2>2. sequent \in Nat /\ sequent < 10
    OBVIOUS
  <2>3. Numeral[sequent] = <<48 + sequent>>
    BY <2>2, NumeralShort
  <2>4. Numeral[sequent] \in Seq(Nat)
    BY <2>2, NumeralIsNat
  <2> QED
    BY <1>2, <2>1, <2>3, <2>4
<1>4. PICK r : r = EventRest(client, sign)
  OBVIOUS
<1>5. r = Join(n2, Colon, sign) /\ r \in Seq(Nat)
  BY <1>1, <1>2, <1>3, <1>4, JoinProperties DEF EventRest
<1>6. PICK q : q = Join(data, Colon, r)
  OBVIOUS
<1>7. q \in Seq(Nat)
  BY <1>1, <1>5, <1>6, JoinProperties
<1>8. PICK p : p = Join(n1, Colon, data)
  OBVIOUS
<1>9. p \in Seq(Nat)
  BY <1>1, <1>3, <1>8, JoinProperties
<1>10. EventBody(e) = Join(Join(p, Colon, n2), Colon, sign)
  BY <1>2, <1>8 DEF EventBody, Join
<1>11. PICK N : N = Nat
  OBVIOUS
<1>12. /\ Colon \in N /\ n1 \in Seq(N) /\ n2 \in Seq(N) /\ data \in Seq(N) /\ sign \in Seq(N)
       /\ p \in Seq(N) /\ r \in Seq(N)
  BY <1>1, <1>3, <1>5, <1>9, <1>11
<1>13. Join(Join(p, Colon, n2), Colon, sign) = Join(p, Colon, Join(n2, Colon, sign))
  BY <1>12, Rejoin
<1>14. Join(Join(n1, Colon, data), Colon, r) = Join(n1, Colon, Join(data, Colon, r))
  BY <1>12, Rejoin
<1>15. EventBody(e) = Join(n1, Colon, q)
  BY <1>5, <1>6, <1>8, <1>10, <1>13, <1>14
<1>16. Join(n1, Colon, q) \in Seq(Nat)
  BY <1>1, <1>3, <1>7, JoinProperties
<1> QED
  BY <1>3, <1>4, <1>5, <1>6, <1>7, <1>15, <1>16

EventReads(event, data, client, sign) ==
    /\ event.body \in {<<>>, UpTo(data, Colon)}
    /\ Clear(data, Colon) =>
          event = [body |-> data, client |-> client,
                   sign |-> SanitiseSignature(UpTo(sign, Dollar))]

\* The follower reads the text of an event up to the first ":" in it, or nothing;
\* of a text without one it reads all that the master wrote.
LEMMA EventIsRead ==
    ASSUME NEW sequent, sequent \in 0 .. 9, NEW data \in Seq(Nat),
           NEW client, client \in Nat, NEW sign \in Seq(Nat),
           NEW e, e = [sequent |-> sequent, data |-> data, client |-> client, sign |-> sign],
           Clear(data, Dollar),
           NEW event, event = UnmarshalEvent(UpTo(EventBody(e), Dollar))
    PROVE  EventReads(event, data, client, sign)
<1>1. Colon \in Nat /\ Dollar \in Nat /\ Colon # Dollar
  BY DEF Colon, Dollar
<1>2. PICK n : n = Numeral[client]
  OBVIOUS
<1>3. n \in Seq(Digits) /\ n \in Seq(Int) /\ Clear(n, Colon) /\ Clear(n, Dollar)
  BY <1>2, NumeralIsNat, DigitsAreClear
<1>4. PICK d : d = 48 + sequent
  OBVIOUS
<1>5. d \in Int /\ d # Dollar
  BY <1>4 DEF Dollar
<1>6. PICK h : h = <<d>>
  OBVIOUS
<1>7. h \in Seq(Int) /\ Clear(h, Dollar)
  BY <1>5, <1>6 DEF Clear
<1>8. data \in Seq(Int) /\ sign \in Seq(Int)
  BY SeqMonotonic
<1>9. PICK s : s = UpTo(sign, Dollar)
  OBVIOUS
<1>10. s \in Seq(Int)
  BY <1>8, <1>9, UpToProperties
<1>11. PICK r : r = EventRest(client, sign)
  OBVIOUS
<1>12. r \in Seq(Int) /\ r = Join(n, Colon, sign)
  <2>1. r = Join(n, Colon, sign)
    BY <1>2, <1>11 DEF EventRest
  <2> QED
    BY <1>1, <1>3, <1>8, <2>1, JoinIntegers
<1>13. PICK x : x = Join(n, Colon, s)
  OBVIOUS
<1>14. x \in Seq(Int) /\ UpTo(r, Dollar) = x
  <2>1. x \in Seq(Int)
    BY <1>1, <1>3, <1>10, <1>13, JoinIntegers
  <2>2. UpTo(Join(n, Colon, sign), Dollar) = Join(n, Colon, UpTo(sign, Dollar))
    BY <1>1, <1>3, <1>8, UpToJoin
  <2> QED
    BY <1>9, <1>12, <1>13, <2>1, <2>2
<1>15. PICK q : q = Join(data, Colon, r)
  OBVIOUS
<1>16. PICK t : t = Join(data, Colon, x)
  OBVIOUS
<1>17. q \in Seq(Int) /\ t \in Seq(Int)
  BY <1>1, <1>8, <1>12, <1>14, <1>15, <1>16, JoinIntegers
<1>18. UpTo(q, Dollar) = t
  BY <1>1, <1>8, <1>12, <1>14, <1>15, <1>16, UpToJoin
<1>19. EventBody(e) = Join(h, Colon, q)
  BY <1>4, <1>6, <1>11, <1>15, EventInFields
<1>20. UpTo(EventBody(e), Dollar) = Join(h, Colon, t)
  <2>1. UpTo(Join(h, Colon, q), Dollar) = Join(h, Colon, UpTo(q, Dollar))
    BY <1>1, <1>7, <1>17, UpToJoin
  <2> QED
    BY <1>18, <1>19, <2>1
<1>21. PICK b : b = UpTo(EventBody(e), Dollar)
  OBVIOUS
<1>22. SubSeq(b, 3, Len(b)) = t
  BY <1>1, <1>5, <1>6, <1>17, <1>20, <1>21, BehindOne
<1>23. Before(t, Colon) = UpTo(data, Colon)
  BY <1>1, <1>8, <1>14, <1>16, BeforeJoin
<1>24. event = IF IsNumber(Before(After(t, Colon), Colon))
               THEN [body |-> Before(t, Colon), client |-> Stoi(After(t, Colon)),
                     sign |-> SanitiseSignature(After(After(t, Colon), Colon))]
               ELSE [body |-> <<>>, client |-> -1, sign |-> <<>>]
  BY <1>21, <1>22 DEF UnmarshalEvent
<1>25. event.body \in {<<>>, UpTo(data, Colon)}
  BY <1>23, <1>24
<1>26. ASSUME Clear(data, Colon)
       PROVE  event = [body |-> data, client |-> client, sign |-> SanitiseSignature(s)]
  <2>1. Before(t, Colon) = data /\ After(t, Colon) = x
    BY <1>1, <1>8, <1>14, <1>16, <1>26, SplitJoined
  <2>2. Before(x, Colon) = n /\ After(x, Colon) = s
    BY <1>1, <1>3, <1>10, <1>13, SplitJoined
  <2>3. IsNumber(n)
    BY <1>2, ReadNumeral
  <2>4. Stoi(x) = client
    BY <1>2, <1>10, <1>13, ReadJoinedNumeral
  <2> QED
    BY <1>24, <2>1, <2>2, <2>3, <2>4
<1> QED
  BY <1>9, <1>25, <1>26 DEF EventReads

-----------------------------------------------------------------------------
(* Beginnings of texts, and what an edit makes of a document.              *)

Beginning(p, t) == \E n \in 0 .. Len(t) : p = SubSeq(t, 1, n)

LEMMA Cut ==
    ASSUME NEW t \in Seq(Int), NEW n, n \in 0 .. Len(t), NEW p, p = SubSeq(t, 1, n)
    PROVE  p \in Seq(Int) /\ Len(p) = n /\ \A i \in 1 .. n : p[i] = t[i]
<1>1. n \in Nat
  BY LenProperties
<1>2. \A i \in 1 .. n : t[i] \in Int
  BY ElementOfSeq, LenProperties
<1>3. /\ p \in Seq(Int)
      /\ Len(p) = IF 1 <= n THEN n - 1 + 1 ELSE 0
      /\ \A i \in 1 .. n - 1 + 1 : p[i] = t[1 + i - 1]
  BY <1>1, <1>2, SubSeqProperties
<1> QED
  BY <1>1, <1>3

\* A read takes a beginning of the text, all of it if it fits.
LEMMA ReadBeginning ==
    ASSUME NEW t \in Seq(Int)
    PROVE  /\ Read(t) \in Seq(Int)
           /\ \E q \in Seq(Int) : t = Cat(Read(t), q)
           /\ Len(t) <= Buffer => Read(t) = t
<1>1. PICK l \in Nat : l = Len(t)
  BY LenProperties
<1>2. PICK n \in 0 .. l : n = (IF l < Buffer THEN l ELSE Buffer)
  BY ConstantsAssumption
<1>3. PICK p : p = SubSeq(t, 1, n)
  OBVIOUS
<1>4. Read(t) = p
  BY <1>1, <1>2, <1>3 DEF Read
<1>5. p \in Seq(Int) /\ Len(p) = n /\ \A i \in 1 .. n : p[i] = t[i]
  BY <1>1, <1>2, <1>3, Cut
<1>6. ASSUME l <= Buffer PROVE p = t
  <2>1. n = l
    BY <1>2, <1>6, ConstantsAssumption
  <2>2. SubSeq(t, 1, Len(t)) = t
    BY SubSeqFull
  <2> QED
    BY <1>1, <1>3, <2>1, <2>2
<1>7. \A i \in n + 1 .. l : t[i] \in Int
  BY <1>1, <1>2, ElementOfSeq
<1>8. PICK q : q = SubSeq(t, n + 1, l)
  OBVIOUS
<1>9. q \in Seq(Int) /\ Len(q) = l - n /\ \A i \in 1 .. l - n : q[i] = t[n + i]
  <2>1. n + 1 \in Int /\ l \in Int /\ \A i \in n + 1 .. l : t[i] \in Int
    BY <1>2, <1>7
  <2>2. /\ q \in Seq(Int)
        /\ Len(q) = IF n + 1 <= l THEN l - (n + 1) + 1 ELSE 0
        /\ \A i \in 1 .. l - (n + 1) + 1 : q[i] = t[(n + 1) + i - 1]
    BY <1>8, <2>1, SubSeqProperties
  <2>3. Len(q) = l - n
    BY <1>2, <2>2
  <2>4. ASSUME NEW i \in 1 .. l - n PROVE q[i] = t[n + i]
    <3>1. i \in 1 .. l - (n + 1) + 1 /\ (n + 1) + i - 1 = n + i
      BY <1>2
    <3> QED
      BY <2>2, <3>1
  <2> QED
    BY <2>2, <2>3, <2>4
<1>10. PICK c : c = Cat(p, q)
  OBVIOUS
<1>11. /\ c \in Seq(Int) /\ Len(c) = n + (l - n)
       /\ \A i \in 1 .. n + (l - n) : c[i] = IF i <= n THEN p[i] ELSE q[i - n]
  <2>1. c = p \o q /\ p \in Seq(Int) /\ q \in Seq(Int)
    BY <1>5, <1>9, <1>10 DEF Cat
  <2>2. /\ c \in Seq(Int) /\ Len(c) = Len(p) + Len(q)
        /\ \A i \in 1 .. Len(p) + Len(q) : c[i] = IF i <= Len(p) THEN p[i] ELSE q[i - Len(p)]
    BY <2>1, ConcatProperties
  <2>3. Len(p) = n /\ Len(q) = l - n
    BY <1>5, <1>9
  <2> QED
    BY <2>2, <2>3
<1>12. ASSUME NEW i \in 1 .. l PROVE c[i] = t[i]
  <2>1. i \in 1 .. n + (l - n)
    BY <1>2
  <2>2. CASE i <= n
    BY <1>5, <1>11, <2>1, <2>2
  <2>3. CASE i > n
    <3>1. i - n \in 1 .. l - n /\ n + (i - n) = i
      BY <1>2, <2>3
    <3>2. q[i - n] = t[i]
      BY <1>9, <3>1
    <3>3. c[i] = q[i - n]
      BY <1>2, <1>11, <2>1, <2>3
    <3> QED
      BY <3>2, <3>3
  <2> QED
    BY <1>2, <2>2, <2>3
<1>13. c = t
  <2>1. Len(c) = Len(t)
    BY <1>1, <1>2, <1>11
  <2>2. \A i \in 1 .. Len(c) : c[i] = t[i]
    BY <1>1, <1>12, <2>1
  <2> QED
    BY <1>11, <2>1, <2>2, SeqEqual
<1> QED
  BY <1>1, <1>4, <1>5, <1>6, <1>9, <1>10, <1>13

LEMMA BeginningItself ==
    ASSUME NEW t \in Seq(Int)
    PROVE  Beginning(t, t) /\ Beginning(<<>>, t)
<1>1. Len(t) \in 0 .. Len(t) /\ 0 \in 0 .. Len(t)
  BY LenProperties
<1>2. t = SubSeq(t, 1, Len(t))
  BY SubSeqFull
<1>3. <<>> = SubSeq(t, 1, 0)
  BY SubSeqEmpty
<1> QED
  BY <1>1, <1>2, <1>3 DEF Beginning

LEMMA BeginningUpTo ==
    ASSUME NEW t \in Seq(Int), NEW sep
    PROVE  Beginning(UpTo(t, sep), t)
<1>1. CASE ~ Holds(t, sep)
  BY <1>1, BeginningItself DEF UpTo
<1>2. CASE Holds(t, sep)
  <2>1. PICK k \in 1 .. Len(t) : Place(t, sep) = k
    BY <1>2, ClearHolds, PlaceSome
  <2>2. k - 1 \in 0 .. Len(t)
    BY LenProperties
  <2>3. UpTo(t, sep) = SubSeq(t, 1, k - 1)
    BY <1>2, <2>1 DEF UpTo, Before
  <2> QED
    BY <2>2, <2>3 DEF Beginning
<1> QED
  BY <1>1, <1>2

LEMMA BeginningOfBeginning ==
    ASSUME NEW t \in Seq(Int), NEW p, Beginning(p, t), NEW q, Beginning(q, p)
    PROVE  Beginning(q, t)
<1>1. PICK n : n \in 0 .. Len(t) /\ p = SubSeq(t, 1, n)
  BY DEF Beginning
<1>2. p \in Seq(Int) /\ Len(p) = n /\ \A i \in 1 .. n : p[i] = t[i]
  BY <1>1, Cut
<1>3. PICK k : k \in 0 .. Len(p) /\ q = SubSeq(p, 1, k)
  BY DEF Beginning
<1>4. q \in Seq(Int) /\ Len(q) = k /\ \A i \in 1 .. k : q[i] = p[i]
  BY <1>2, <1>3, Cut
<1>5. k \in 0 .. Len(t) /\ k \in 0 .. n
  BY <1>1, <1>2, <1>3, LenProperties
<1>6. PICK s : s = SubSeq(t, 1, k)
  OBVIOUS
<1>7. s \in Seq(Int) /\ Len(s) = k /\ \A i \in 1 .. k : s[i] = t[i]
  BY <1>5, <1>6, Cut
<1>8. ASSUME NEW i \in 1 .. Len(q) PROVE q[i] = s[i]
  <2>0. n \in Int /\ k \in Int /\ k <= n
    BY <1>1, <1>5
  <2>1. i \in 1 .. k /\ i \in 1 .. n
    BY <1>4, <2>0
  <2> QED
    BY <1>2, <1>4, <1>7, <2>1
<1>9. q = s
  BY <1>4, <1>7, <1>8, SeqEqual
<1> QED
  BY <1>5, <1>6, <1>9 DEF Beginning

LEMMA SanitiseType ==
    ASSUME NEW S, NEW t \in Seq(S)
    PROVE  Sanitise(t) \in Seq(S)
BY WithoutType DEF Sanitise

\* A beginning of which something is left is that of at least one character.
LEMMA SanitisedBeginning ==
    ASSUME NEW t \in Seq(Int), NEW p, Beginning(p, t), Sanitise(p) # <<>>
    PROVE  \E n \in DOMAIN t : p = SubSeq(t, 1, n)
<1>1. PICK n : n \in 0 .. Len(t) /\ p = SubSeq(t, 1, n)
  BY DEF Beginning
<1>2. n # 0
  <2>1. Sanitise(<<>>) = <<>>
    <3>1. PICK e : e = <<>>
      OBVIOUS
    <3>2. e \in Seq(Int) /\ Len(e) = 0
      BY <3>1, EmptySeq
    <3>3. \A i \in 1 .. Len(e) : e[i] \notin {Colon}
      BY <3>2
    <3>4. Without(e, {Colon}) = e
      BY <3>2, <3>3, WithoutNothing
    <3> QED
      BY <3>1, <3>4 DEF Sanitise
  <2>2. SubSeq(t, 1, 0) = <<>>
    BY SubSeqEmpty
  <2> QED
    BY <1>1, <2>1, <2>2
<1>3. n \in DOMAIN t
  <2>1. n \in 1 .. Len(t)
    BY <1>1, <1>2, LenProperties
  <2> QED
    BY <2>1, LenProperties
<1> QED
  BY <1>1, <1>3

LEMMA CutIsPrefix ==
    ASSUME NEW t \in Seq(Int), NEW n, n \in 0 .. Len(t), NEW p, p = SubSeq(t, 1, n)
    PROVE  IsPrefix(p, t)
<1>1. p \in Seq(Int) /\ Len(p) = n
  BY Cut
<1>2. SubSeq(p, 1, Len(p)) = p
  BY <1>1, SubSeqFull
<1> QED
  BY <1>1, <1>2, LenProperties DEF IsPrefix

LEMMA PrefixItself ==
    ASSUME NEW t \in Seq(Int)
    PROVE  IsPrefix(t, t)
<1>1. Len(t) \in 0 .. Len(t) /\ t = SubSeq(t, 1, Len(t))
  BY LenProperties, SubSeqFull
<1> QED
  BY <1>1, CutIsPrefix

LEMMA Deleted ==
    ASSUME NEW document \in Seq(Int), NEW text \in Seq(Int), NEW type, type = <<DELT>>,
           ~ TooLong(document, type, text)
    PROVE  /\ Performed(document, type, text) \in Seq(Int)
           /\ IsPrefix(Performed(document, type, text), document)
<1>1. PICK n : n = Len(document) - Stoi(text)
  OBVIOUS
<1>2. n \in 0 .. Len(document)
  BY <1>1, StoiNat, LenProperties DEF TooLong
<1>3. PICK p : p = SubSeq(document, 1, n)
  OBVIOUS
<1>4. p \in Seq(Int) /\ IsPrefix(p, document)
  BY <1>2, <1>3, Cut, CutIsPrefix
<1>5. Performed(document, type, text) = p
  BY <1>1, <1>3 DEF Performed
<1> QED
  BY <1>4, <1>5

LEMMA Appended ==
    ASSUME NEW document \in Seq(Int), NEW text \in Seq(Int), NEW type, type # <<DELT>>
    PROVE  /\ Performed(document, type, text) \in Seq(Int)
           /\ Performed(document, type, text) = document \o text
           /\ Len(Performed(document, type, text)) >= Len(document)
<1>1. Performed(document, type, text) = document \o text
  BY DEF Performed
<1>2. document \o text \in Seq(Int) /\ Len(document \o text) = Len(document) + Len(text)
  BY ConcatProperties
<1>3. Len(document) \in Nat /\ Len(text) \in Nat
  BY LenProperties
<1> QED
  BY <1>1, <1>2, <1>3

-----------------------------------------------------------------------------
(* What the receivers of a composed message read.                          *)

LEMMA MarshalledType ==
    ASSUME NEW m \in MessageOf(Int)
    PROVE  Unmarshal(Marshal(m)).type = UpTo(m.type, Colon)
<1>1. Colon \in Int /\ Nat \subseteq Int
  BY DEF Colon
<1>2. m.type \in Seq(Int) /\ PortRest(m) \in Seq(Int)
  BY <1>1, RestTypes DEF MessageOf
<1>3. Marshal(m) = Join(m.type, Colon, PortRest(m))
  BY <1>1, MarshalInFields
<1>4. Before(Marshal(m), Colon) = UpTo(m.type, Colon)
  BY <1>1, <1>2, <1>3, BeforeJoin
<1> QED
  BY <1>4 DEF Unmarshal

LEMMA MessagesOfNaturals ==
    ASSUME NEW m \in MessageOf(Nat)
    PROVE  m \in MessageOf(Int)
<1>1. /\ m.type \in Seq(Nat) /\ m.port \in Seq(Nat) /\ m.term \in Seq(Nat)
      /\ m.body \in Seq(Nat) /\ m.sign \in Seq(Nat)
  BY DEF MessageOf
<1>2. Seq(Nat) \subseteq Seq(Int)
  BY SeqMonotonic
<1> QED
  BY <1>1, <1>2 DEF MessageOf

LEMMA OneWord ==
    ASSUME NEW c, c \in Int, NEW sep, c # sep
    PROVE  <<c>> \in Seq(Int) /\ Clear(<<c>>, sep)
BY DEF Clear

\* What is read of a composed message: its fields, the body up to the first "$",
\* and all of it when the body has no "$".
IsRead(r, m, type, port, body) ==
    /\ r \in MessageOf(Nat) /\ Clean(r)
    /\ r.type = <<type>> /\ r.port = Numeral[port] /\ r.body = UpTo(body, Dollar)
    /\ Clear(body, Dollar) => r = m

LEMMA ComposedIsRead ==
    ASSUME NEW key, key \in Nat, NEW type, type \in Nat, type # Colon,
           NEW port, port \in Nat, NEW term, term \in Nat, NEW body \in Seq(Nat),
           NEW m, IsComposed(m, key, type, port, term, body)
    PROVE  IsRead(Unmarshal(Marshal(m)), m, type, port, body)
<1>1. PICK r : r = Unmarshal(Marshal(m))
  OBVIOUS
<1>2. /\ m \in MessageOf(Nat) /\ m.type = <<type>> /\ m.port = Numeral[port]
      /\ m.term = Numeral[term] /\ m.body = body /\ m.sign \in Seq(Digits)
  BY DEF IsComposed
<1>3. m \in MessageOf(Int)
  BY <1>2, MessagesOfNaturals
<1>4. /\ Clear(m.type, Colon) /\ Clear(m.port, Colon) /\ Clear(m.term, Colon)
      /\ Clear(m.sign, Colon)
  <2>1. Clear(m.type, Colon)
    BY <1>2, OneWord
  <2>2. Numeral[port] \in Seq(Digits) /\ Numeral[term] \in Seq(Digits)
    BY NumeralIsNat
  <2> QED
    BY <1>2, <2>1, <2>2, DigitsAreClear
<1>5. r.type = m.type /\ r.port = m.port /\ r.body = Body(m.body)
  BY <1>1, <1>3, <1>4, UnmarshalMarshalled
<1>6. r \in MessageOf(Nat) /\ Clean(r)
  <2>1. Marshal(m) \in Seq(Nat)
    BY <1>2, MarshalInFields
  <2> QED
    BY <1>1, <2>1, UnmarshalTypes
<1>7. Body(body) = UpTo(body, Dollar)
  BY DEF Body, UpTo
<1>8. ASSUME Clear(body, Dollar) PROVE r = m
  <2>1. Clean(m)
    BY <1>2, <1>4, <1>8 DEF Clean
  <2> QED
    BY <1>1, <1>3, <2>1, UnmarshalClean
<1> QED
  BY <1>1, <1>2, <1>5, <1>6, <1>7, <1>8 DEF IsRead

\* A message that a peer or a client composes as itself is accepted, when its body
\* has no "$".
LEMMA OwnMessageIsAccepted ==
    ASSUME NEW port \in PeerPorts \cup ClientPorts, NEW type, type \in Nat, type # Colon,
           NEW term, term \in Nat, NEW body \in Seq(Nat), Clear(body, Dollar),
           NEW m, m = Composed(port, type, port, term, body)
    PROVE  /\ Unmarshal(Marshal(m)) = m
           /\ ~ Throws(m) /\ VerifyMessage(m)
<1>1. PICK key : key = port
  OBVIOUS
<1>2. key \in Nat
  BY <1>1 DEF PeerPorts, ClientPorts
<1>3. m = Composed(key, type, key, term, body)
  BY <1>1
<1>4. IsComposed(m, key, type, key, term, body)
  BY <1>2, <1>3, ComposedProperties
<1>5. Unmarshal(Marshal(m)) = m
  BY <1>2, <1>4, ComposedIsRead DEF IsRead
<1> QED
  BY <1>5, SignVerifies

-----------------------------------------------------------------------------
(* The inductive invariant.                                                *)

IsEdit(o) ==
    /\ o.kind = "edit" /\ o.client \in ClientPorts /\ o.type \in {APND, DELT}
    /\ o.text \in Seq(Nat) /\ Acceptable(o.type, o.text)

\* What the client sends, and what a peer reads of it.
Order(o) == Composed(o.client, o.type, o.client, 0, o.text)
Asked(o) == Unmarshal(Marshal(Order(o)))

\* What would be read of a text that is read as a whole.
Sent == Unmarshal(wire)

Untouched == doc.master = doc.before /\ doc.follower = doc.before

AtPrompt == at = "prompt" => Untouched

AtRelay ==
    at = "relay" =>
        /\ Untouched /\ IsEdit(origin) /\ wire = Marshal(Order(origin))
        /\ route.first \in PeerPorts /\ route.master \in PeerPorts

\* What a Byzantine relay makes of it is no request, or has the vandal's body and
\* the signature of a body that was accepted.
AlteredType == wire = <<>> \/ Sent.type \notin {<<APND>>, <<DELT>>, <<ELCT>>}
AlteredBody ==
    VerifyMessage(Asked(origin)) /\ Sent = [Asked(origin) EXCEPT !.body = <<Vandalism>>]

\* A request for an election as a Byzantine peer composes it.
FalseRequest(peer) == Composed(peer, ELCT, 5000, 0, <<>>)

AtMaster ==
    at = "master" =>
        /\ Untouched
        /\ \/ /\ IsEdit(origin) /\ route.master \in PeerPorts
              /\ \/ wire # <<>> /\ Sent = Asked(origin)
                 \/ route.byzantine # 0 /\ (AlteredType \/ AlteredBody)
           \/ /\ origin.kind = "false election" /\ route.byzantine \in PeerPorts
              /\ wire = Marshal(FalseRequest(route.byzantine))

\* The message of a log event.
Logged(peer, type, data, client, sign) ==
    Composed(peer, type, peer, 1,
        EventBody([sequent |-> Sequent, data |-> data, client |-> client, sign |-> sign]))

\* The master has done what the follower is told to do.
Done(data) ==
    LET text == Sanitise(data)
    IN  /\ data = Asked(origin).body \/ (origin.type = APND /\ Disguised)
        /\ text # <<>> /\ ~ TooLong(doc.before, <<origin.type>>, text)
        /\ doc.master = Performed(doc.before, <<origin.type>>, text)
        /\ wire = Marshal(Logged(route.master, origin.type, data, origin.client,
                                 Asked(origin).sign))

AtFollower ==
    at = "follower" =>
        /\ wire # <<>>
        /\ \/ /\ IsEdit(origin) /\ route.master \in PeerPorts
              /\ doc.follower = doc.before
              /\ \E data \in {Asked(origin).body, <<Vandalism>>} : Done(data)
           \/ /\ Untouched /\ origin.kind = "false delete" /\ route.byzantine \in PeerPorts
              /\ wire = Marshal(Logged(route.byzantine, DELT, Numeral[Len(doc.before)], 0, <<>>))

AtElectorate ==
    at = "electorate" => Untouched /\ origin.kind = "announcement"

\* Every text is one of five fields, whatever a Byzantine peer has put into them.
Shaped == wire = <<>> \/ \E m \in MessageOf(Int) : wire = Marshal(m)

Types ==
    /\ at \in Places /\ fate \in Fates
    /\ doc \in [{"before", "master", "follower"} -> Seq(Int)]

Overran == fate = "overrun" => Len(wire) > Buffer

Inv ==
    /\ Types /\ Shaped /\ Overran
    /\ AtPrompt /\ AtRelay /\ AtMaster /\ AtFollower /\ AtElectorate
    /\ at # "done" => fate = "none"
    /\ OnlyTypedText /\ NoDeletionUnasked /\ FalseElectionFails /\ PlainTextArrives

-----------------------------------------------------------------------------
(* What Inv says of the text that is received.                             *)

LEMMA OrderComposed ==
    ASSUME NEW o, IsEdit(o)
    PROVE  /\ o.client \in Nat /\ o.client # 0 /\ o.type \in Nat /\ o.type # Colon
           /\ o.client \in PeerPorts \cup ClientPorts
           /\ o.text \in Seq(Nat) /\ o.text \in Seq(Int)
           /\ IsComposed(Order(o), o.client, o.type, o.client, 0, o.text)
<1>1. PICK c, t, z : c = o.client /\ t = o.type /\ z = 0
  OBVIOUS
<1>2. c \in ClientPorts /\ t \in {APND, DELT} /\ o.text \in Seq(Nat)
  BY <1>1 DEF IsEdit
<1>3. c \in Nat /\ c # 0 /\ t \in Nat /\ t # Colon /\ z \in Nat
  BY <1>1, <1>2 DEF ClientPorts, APND, DELT, Colon
<1>4. IsComposed(Composed(c, t, c, z, o.text), c, t, c, z, o.text)
  BY <1>2, <1>3, ComposedProperties
<1>5. o.text \in Seq(Int)
  BY <1>2, SeqMonotonic
<1> QED
  BY <1>1, <1>2, <1>3, <1>4, <1>5 DEF Order

LEMMA AskedIsRead ==
    ASSUME NEW o, IsEdit(o)
    PROVE  IsRead(Asked(o), Order(o), o.type, o.client, o.text)
<1>1. PICK c, t, z, x, m : c = o.client /\ t = o.type /\ z = 0 /\ x = o.text /\ m = Order(o)
  OBVIOUS
<1>2. c \in Nat /\ t \in Nat /\ t # Colon /\ z \in Nat /\ x \in Seq(Nat)
  BY <1>1, OrderComposed
<1>3. IsComposed(m, c, t, c, z, x)
  BY <1>1, OrderComposed
<1>4. IsRead(Unmarshal(Marshal(m)), m, t, c, x)
  BY <1>2, <1>3, ComposedIsRead
<1> QED
  BY <1>1, <1>4 DEF Asked

LEMMA FalseRequestIsRead ==
    ASSUME NEW peer \in PeerPorts
    PROVE  /\ IsComposed(FalseRequest(peer), peer, ELCT, 5000, 0, <<>>)
           /\ IsRead(Unmarshal(Marshal(FalseRequest(peer))), FalseRequest(peer), ELCT, 5000, <<>>)
           /\ Unmarshal(Marshal(FalseRequest(peer))) = FalseRequest(peer)
<1>1. PICK key, t, p, z, e : key = peer /\ t = ELCT /\ p = 5000 /\ z = 0 /\ e = <<>>
  OBVIOUS
<1>2. /\ key \in Nat /\ t \in Nat /\ t # Colon /\ p \in Nat /\ z \in Nat
      /\ e \in Seq(Nat) /\ Clear(e, Dollar)
  BY <1>1, EmptySeq DEF PeerPorts, ELCT, Colon, Clear
<1>3. PICK m : m = Composed(key, t, p, z, e)
  OBVIOUS
<1>4. IsComposed(m, key, t, p, z, e)
  BY <1>2, <1>3, ComposedProperties
<1>5. IsRead(Unmarshal(Marshal(m)), m, t, p, e)
  BY <1>2, <1>4, ComposedIsRead
<1>6. Unmarshal(Marshal(m)) = m
  BY <1>2, <1>5 DEF IsRead
<1>7. m = FalseRequest(peer)
  BY <1>1, <1>3 DEF FalseRequest
<1> QED
  BY <1>1, <1>4, <1>5, <1>6, <1>7

\* The key of a peer is good for the first client's port only if it is 4000's.
LEMMA FalseRequestVerifies ==
    ASSUME NEW peer \in PeerPorts, VerifyMessage(FalseRequest(peer))
    PROVE  peer = 4000
<1>1. PICK type, port, term, body, m :
          type = ELCT /\ port = 5000 /\ term = 0 /\ body = <<>> /\ m = FalseRequest(peer)
  OBVIOUS
<1>2. IsComposed(m, peer, type, port, term, body)
  <2>1. IsComposed(FalseRequest(peer), peer, ELCT, 5000, 0, <<>>)
    BY FalseRequestIsRead
  <2> QED
    BY <1>1, <2>1
<1>3. port \in Nat /\ port = 5000 /\ VerifyMessage(m)
  BY <1>1
<1> QED
  BY <1>2, <1>3, FalseElectionVerifies

\* A text without separators is read as it was sent, and the signature is good.
LEMMA PlainOrder ==
    ASSUME NEW o, IsEdit(o), ~ HasSeparator(o.text)
    PROVE  /\ Clear(o.text, Colon) /\ Clear(o.text, Dollar)
           /\ Asked(o) = Order(o) /\ ~ Throws(Order(o)) /\ VerifyMessage(Order(o))
<1>1. PICK c, t, z, x, m : c = o.client /\ t = o.type /\ z = 0 /\ x = o.text /\ m = Order(o)
  OBVIOUS
<1>2. /\ c \in Nat /\ t \in Nat /\ t # Colon /\ z \in Nat /\ x \in Seq(Nat) /\ x \in Seq(Int)
      /\ c \in PeerPorts \cup ClientPorts
  BY <1>1, OrderComposed
<1>3. Clear(x, Colon) /\ Clear(x, Dollar)
  BY <1>1, <1>2, ClearHolds DEF HasSeparator
<1>4. m = Composed(c, t, c, z, x)
  BY <1>1 DEF Order
<1>5. Unmarshal(Marshal(m)) = m /\ ~ Throws(m) /\ VerifyMessage(m)
  BY <1>2, <1>3, <1>4, OwnMessageIsAccepted
<1> QED
  BY <1>1, <1>3, <1>5 DEF Asked

\* A message that can be taken apart after one read is read as it was sent.
LEMMA ReadAsSent ==
    ASSUME Inv, Readable
    PROVE  wire # <<>> /\ Received = Sent
<1>1. wire # <<>> /\ WellFormed(Read(wire))
  BY DEF Readable
<1>2. PICK m \in MessageOf(Int) : wire = Marshal(m)
  BY <1>1 DEF Inv, Shaped
<1>3. wire \in Seq(Int)
  <2>1. Nat \subseteq Int
    OBVIOUS
  <2> QED
    BY <1>2, <2>1, MarshalInFields
<1>4. PICK p : p = Read(wire)
  OBVIOUS
<1>5. p \in Seq(Int) /\ \E q \in Seq(Int) : wire = Cat(p, q)
  BY <1>3, <1>4, ReadBeginning
<1>6. PICK q \in Seq(Int) : wire = Cat(p, q)
  BY <1>5
<1>7. Unmarshal(Cat(p, q)) = Unmarshal(p)
  BY <1>1, <1>4, <1>5, PrefixRead
<1> QED
  BY <1>1, <1>4, <1>6, <1>7 DEF Received, Sent

\* Only a text that is too long for one read has not all of its separators in it.
LEMMA ShortIsReadable ==
    ASSUME Inv, wire # <<>>, ~ WellFormed(Read(wire))
    PROVE  Len(wire) > Buffer
<1>1. PICK m \in MessageOf(Int) : wire = Marshal(m)
  BY DEF Inv, Shaped
<1>2. wire \in Seq(Int) /\ WellFormed(wire)
  <2>1. Nat \subseteq Int
    OBVIOUS
  <2> QED
    BY <1>1, <2>1, MarshalInFields, MarshalWellFormed
<1>3. ~ (Len(wire) <= Buffer)
  BY <1>2, ReadBeginning
<1>4. Len(wire) \in Nat
  BY <1>2, LenProperties
<1> QED
  BY <1>3, <1>4, ConstantsAssumption

\* A request that a master accepts is what the client signed, up to the first
\* "$", or has the vandal's body with the sum of the client's.
LEMMA AcceptedRequest ==
    ASSUME Inv, Accepted("master"), Received.type \in {<<APND>>, <<DELT>>}
    PROVE  /\ IsEdit(origin) /\ route.master \in PeerPorts /\ Untouched
           /\ Received.type = <<origin.type>> /\ Received.port = Numeral[origin.client]
           /\ Received.sign = Asked(origin).sign
           /\ \/ Received.body = Asked(origin).body
              \/ Received.body = <<Vandalism>> /\ Disguised
<1>1. /\ at = "master" /\ wire # <<>> /\ Received = Sent
      /\ VerifyMessage(Sent) /\ Sent.type \in {<<APND>>, <<DELT>>}
  BY ReadAsSent DEF Accepted
<1>2. <<ELCT>> # <<APND>> /\ <<ELCT>> # <<DELT>>
  BY DEF ELCT, APND, DELT
<1>3. Untouched
  BY <1>1 DEF Inv, AtMaster
<1>4. ~ (wire = Marshal(FalseRequest(route.byzantine)) /\ route.byzantine \in PeerPorts)
  <2>1. SUFFICES ASSUME wire = Marshal(FalseRequest(route.byzantine)),
                        route.byzantine \in PeerPorts
                 PROVE  Sent.type = <<ELCT>>
    BY <1>1, <1>2
  <2> QED
    BY <2>1, FalseRequestIsRead DEF IsRead, Sent
<1>5. ~ AlteredType
  BY <1>1 DEF AlteredType
<1>6. /\ IsEdit(origin) /\ route.master \in PeerPorts
      /\ \/ Sent = Asked(origin)
         \/ route.byzantine # 0 /\ AlteredBody
  BY <1>1, <1>4, <1>5 DEF Inv, AtMaster
<1>7. IsRead(Asked(origin), Order(origin), origin.type, origin.client, origin.text)
  BY <1>6, AskedIsRead
<1>8. /\ Asked(origin).type = <<origin.type>> /\ Asked(origin).port = Numeral[origin.client]
      /\ Asked(origin) \in MessageOf(Int)
      /\ Asked(origin).body = UpTo(origin.text, Dollar)
  BY <1>7, MessagesOfNaturals DEF IsRead
<1>9. CASE Sent = Asked(origin)
  BY <1>1, <1>3, <1>6, <1>8, <1>9
<1>10. CASE route.byzantine # 0 /\ AlteredBody
  <2>1. PICK m, n, v : m = Asked(origin) /\ n = Sent /\ v = <<Vandalism>>
    OBVIOUS
  <2>2. /\ m \in MessageOf(Int) /\ n = [m EXCEPT !.body = v]
        /\ VerifyMessage(m) /\ VerifyMessage(n)
    BY <1>1, <1>8, <1>10, <2>1 DEF AlteredBody
  <2>3. n.type = m.type /\ n.port = m.port /\ n.sign = m.sign /\ n.body = v
    BY <2>2 DEF MessageOf
  <2>4. v \in Seq(Int) /\ StringSum(v) = Vandalism
    BY <2>1, SumOfOne DEF Vandalism
  <2>5. PICK c \in Nat : c = origin.client
    BY <1>6, OrderComposed
  <2>6. c # 0 /\ m.port = Numeral[c]
    BY <1>6, <1>8, <2>1, <2>5, OrderComposed
  <2>7. StringSum(m.body) % c = StringSum(v) % c
    BY <2>2, <2>4, <2>6, SameSum
  <2>8. m.body = Body(origin.text)
    BY <1>8, <2>1 DEF Body, UpTo
  <2>9. Disguised
    BY <1>10, <2>4, <2>5, <2>7, <2>8 DEF Disguised
  <2> QED
    BY <1>1, <1>3, <1>6, <1>8, <2>1, <2>3, <2>9
<1> QED
  BY <1>6, <1>9, <1>10

LoggedReads(m, r, peer, type, data, client, sign) ==
    /\ m \in MessageOf(Nat)
    /\ ComposeAs(peer, type, peer, 1,
           EventBody([sequent |-> Sequent, data |-> data, client |-> client,
                      sign |-> sign])) = Marshal(m)
    /\ r.type = <<type>> /\ r.port = Numeral[peer]
    /\ EventReads(UnmarshalEvent(r.body), data, client, sign)
    /\ Clear(sign, Dollar) => ~ Throws(r) /\ VerifyMessage(r)

\* What a follower reads of a log event.
LEMMA LoggedIsRead ==
    ASSUME NEW peer \in PeerPorts, NEW type, type \in {APND, DELT},
           NEW data \in Seq(Nat), Clear(data, Dollar),
           NEW client, client \in Nat, NEW sign \in Seq(Nat),
           NEW m, m = Logged(peer, type, data, client, sign),
           NEW r, r = Unmarshal(Marshal(m))
    PROVE  LoggedReads(m, r, peer, type, data, client, sign)
<1>1. PICK p, one : p = peer /\ one = 1
  OBVIOUS
<1>2. p \in Nat /\ one \in Nat /\ p \in PeerPorts \cup ClientPorts /\ type \in Nat /\ type # Colon
  BY <1>1 DEF PeerPorts, APND, DELT, Colon
<1>3. PICK s : s = Sequent
  OBVIOUS
<1>4. s \in 0 .. 9
  BY <1>3, ConstantsAssumption
<1>5. PICK e : e = [sequent |-> s, data |-> data, client |-> client, sign |-> sign]
  OBVIOUS
<1>6. PICK b : b = EventBody(e)
  OBVIOUS
<1>7. PICK u, v : u = EventRest(client, sign) /\ v = Join(data, Colon, u)
  OBVIOUS
<1>8. /\ u \in Seq(Nat) /\ v \in Seq(Nat) /\ b \in Seq(Nat)
      /\ b = Join(<<48 + s>>, Colon, v)
  BY <1>4, <1>5, <1>6, <1>7, EventInFields
<1>9. m = Composed(p, type, p, one, b)
  BY <1>1, <1>3, <1>5, <1>6 DEF Logged
<1>10. IsComposed(m, p, type, p, one, b)
  BY <1>2, <1>8, <1>9, ComposedProperties
<1>11. IsRead(r, m, type, p, b)
  BY <1>2, <1>8, <1>10, ComposedIsRead
<1>12. PICK event : event = UnmarshalEvent(UpTo(EventBody(e), Dollar))
  OBVIOUS
<1>13. EventReads(event, data, client, sign)
  BY <1>4, <1>5, <1>12, EventIsRead
<1>14. event = UnmarshalEvent(r.body)
  BY <1>6, <1>11, <1>12 DEF IsRead
<1>15. ASSUME Clear(sign, Dollar) PROVE ~ Throws(r) /\ VerifyMessage(r)
  <2>1. PICK n, h, c : n = Numeral[client] /\ h = <<48 + s>> /\ c = Colon
    OBVIOUS
  <2>2. /\ n \in Seq(Int) /\ Clear(n, Dollar)
    BY <2>1, NumeralIsNat, DigitsAreClear
  <2>3. h \in Seq(Int) /\ Clear(h, Dollar)
    <3>1. 48 + s \in Int /\ 48 + s # Dollar
      BY <1>4 DEF Dollar
    <3> QED
      BY <2>1, <3>1, OneWord
  <2>4. c \in Int /\ c # Dollar
    BY <2>1 DEF Colon, Dollar
  <2>5. sign \in Seq(Int) /\ data \in Seq(Int) /\ u \in Seq(Int) /\ v \in Seq(Int)
    BY <1>8, SeqMonotonic
  <2>6. Clear(u, Dollar)
    <3>1. u = Join(n, c, sign)
      BY <1>7, <2>1 DEF EventRest
    <3> QED
      BY <1>15, <2>2, <2>4, <2>5, <3>1, ClearJoin
  <2>7. Clear(v, Dollar)
    <3>1. v = Join(data, c, u)
      BY <1>7, <2>1
    <3> QED
      BY <2>4, <2>5, <2>6, <3>1, ClearJoin
  <2>8. Clear(b, Dollar)
    <3>1. b = Join(h, c, v)
      BY <1>8, <2>1
    <3> QED
      BY <2>3, <2>4, <2>5, <2>7, <3>1, ClearJoin
  <2>9. r = m
    BY <1>11, <2>8 DEF IsRead
  <2>10. ~ Throws(m) /\ VerifyMessage(m)
    BY <1>2, <1>8, <1>9, SignVerifies
  <2> QED
    BY <2>9, <2>10
<1>16. ComposeAs(peer, type, peer, 1,
           EventBody([sequent |-> Sequent, data |-> data, client |-> client,
                      sign |-> sign])) = Marshal(m)
  BY <1>1, <1>3, <1>5, <1>6, <1>10 DEF IsComposed
<1> QED
  BY <1>1, <1>10, <1>11, <1>13, <1>14, <1>15, <1>16 DEF IsComposed, IsRead, LoggedReads

\* What the master logs of a request that it has accepted.
LEMMA LoggedData ==
    ASSUME NEW o, IsEdit(o), NEW data, data \in {Asked(o).body, <<Vandalism>>}
    PROVE  /\ data \in Seq(Nat) /\ data \in Seq(Int) /\ Clear(data, Dollar)
           /\ Asked(o).sign \in Seq(Nat)
           /\ o.client \in Nat /\ o.type \in {APND, DELT}
<1>1. IsRead(Asked(o), Order(o), o.type, o.client, o.text)
  BY AskedIsRead
<1>2. /\ Asked(o).body \in Seq(Nat) /\ Asked(o).sign \in Seq(Nat)
      /\ Asked(o).body = UpTo(o.text, Dollar)
  BY <1>1 DEF IsRead, MessageOf
<1>3. o.text \in Seq(Int) /\ o.client \in Nat
  BY OrderComposed
<1>4. Clear(Asked(o).body, Dollar)
  BY <1>2, <1>3, UpToProperties
<1>5. <<Vandalism>> \in Seq(Nat) /\ Clear(<<Vandalism>>, Dollar)
  <2>1. Vandalism \in Nat /\ Vandalism \in Int /\ Vandalism # Dollar
    BY DEF Vandalism, Dollar
  <2> QED
    BY <2>1, OneWord
<1>6. data \in Seq(Nat) /\ Clear(data, Dollar)
  BY <1>2, <1>4, <1>5
<1> QED
  BY <1>2, <1>3, <1>6, SeqMonotonic DEF IsEdit

-----------------------------------------------------------------------------
(* What an edit leaves of a document.                                      *)

IsTyped(document, before, o) ==
    \/ IsPrefix(document, before)
    \/ /\ o.kind = "edit" /\ o.type = APND
       /\ \E n \in DOMAIN o.text : document = before \o Sanitise(SubSeq(o.text, 1, n))
IsVandalised(document, before, o) ==
    o.kind = "edit" /\ o.type = APND /\ document = before \o <<Vandalism>>
IsCut(document, before, o) ==
    Len(document) < Len(before) /\ ~ (o.kind = "edit" /\ o.type = DELT)

Fine(document) ==
    \/ IsTyped(document, doc.before, origin)
    \/ Disguised /\ IsVandalised(document, doc.before, origin)

NotCut(document) == ~ IsCut(document, doc.before, origin)

LEMMA FineDocuments ==
    /\ OnlyTypedText <=> Fine(doc.master) /\ Fine(doc.follower)
    /\ NoDeletionUnasked <=> NotCut(doc.master) /\ NotCut(doc.follower)
<1>1. /\ OnlyTypedText <=> Fine(doc["master"]) /\ Fine(doc["follower"])
      /\ NoDeletionUnasked <=> NotCut(doc["master"]) /\ NotCut(doc["follower"])
  BY Zenon DEF OnlyTypedText, NoDeletionUnasked, Fine, NotCut, IsTyped, IsVandalised, IsCut
<1> QED
  BY <1>1

LEMMA Unchanged ==
    ASSUME NEW document \in Seq(Int), document = doc.before
    PROVE  Fine(document) /\ NotCut(document)
<1>1. IsPrefix(document, doc.before)
  BY PrefixItself
<1>2. Len(document) \in Nat
  BY LenProperties
<1> QED
  BY <1>1, <1>2 DEF Fine, NotCut, IsTyped, IsCut

LEMMA VandalismIsClean ==
    /\ <<Vandalism>> \in Seq(Int) /\ Sanitise(<<Vandalism>>) = <<Vandalism>>
    /\ UpTo(<<Vandalism>>, Colon) = <<Vandalism>>
    /\ ~ IsNumber(<<Vandalism>>)
<1>1. PICK v : v = <<Vandalism>>
  OBVIOUS
<1>2. Vandalism \in Int /\ Vandalism # Colon /\ Vandalism \notin Digits
  BY DEF Vandalism, Colon, Digits
<1>3. v \in Seq(Int) /\ Clear(v, Colon) /\ Head(v) = Vandalism /\ Len(v) = 1 /\ v[1] = Vandalism
  BY <1>1, <1>2, OneWord
<1>4. UpTo(v, Colon) = v
  BY <1>3, UpToProperties
<1>5. \A i \in 1 .. Len(v) : v[i] \notin {Colon}
  BY <1>2, <1>3
<1>6. Sanitise(v) = v
  BY <1>3, <1>5, WithoutNothing DEF Sanitise
<1>7. ~ IsNumber(v)
  BY <1>2, <1>3 DEF IsNumber
<1> QED
  BY <1>1, <1>3, <1>4, <1>6, <1>7

\* What a replica has made of its document that was as before.
LEMMA Edited ==
    ASSUME IsEdit(origin), doc.before \in Seq(Int), NEW p, p \in Seq(Int),
           Beginning(p, origin.text)
             \/ (origin.type = APND /\ Disguised /\ p = <<Vandalism>>),
           NEW text, text = Sanitise(p), text # <<>>,
           NEW type, type = <<origin.type>>, ~ TooLong(doc.before, type, text),
           NEW document, document = Performed(doc.before, type, text)
    PROVE  document \in Seq(Int) /\ Fine(document) /\ NotCut(document)
<1>1. text \in Seq(Int)
  BY SanitiseType
<1>2. origin.kind = "edit" /\ origin.type \in {APND, DELT} /\ origin.text \in Seq(Int)
  BY OrderComposed DEF IsEdit
<1>3. CASE origin.type = DELT
  <2>1. document \in Seq(Int) /\ IsPrefix(document, doc.before)
    BY <1>1, <1>3, Deleted
  <2> QED
    BY <1>2, <1>3, <2>1 DEF Fine, NotCut, IsTyped, IsCut
<1>4. CASE origin.type = APND
  <2>1. type # <<DELT>>
    BY <1>4 DEF APND, DELT
  <2>2. /\ document \in Seq(Int) /\ document = doc.before \o text
        /\ Len(document) >= Len(doc.before)
    BY <1>1, <2>1, Appended
  <2>3. NotCut(document)
    BY <2>2, LenProperties DEF NotCut, IsCut
  <2>4. CASE Beginning(p, origin.text)
    <3>1. PICK n \in DOMAIN origin.text : p = SubSeq(origin.text, 1, n)
      BY <1>2, <2>4, SanitisedBeginning
    <3>2. document = doc.before \o Sanitise(SubSeq(origin.text, 1, n))
      BY <2>2, <3>1
    <3> QED
      BY <1>2, <1>4, <2>2, <2>3, <3>2 DEF Fine, IsTyped
  <2>5. CASE Disguised /\ p = <<Vandalism>>
    <3>1. document = doc.before \o <<Vandalism>>
      BY <2>2, <2>5, VandalismIsClean
    <3> QED
      BY <1>2, <1>4, <2>2, <2>3, <2>5, <3>1 DEF Fine, IsVandalised
  <2> QED
    BY <2>4, <2>5
<1> QED
  BY <1>2, <1>3, <1>4

-----------------------------------------------------------------------------
(* Steps that only send, and steps that only stop.                         *)

LEMMA OnTheWay ==
    ASSUME Inv, Untouched, at # "done", doc' = doc, fate' = fate,
           at' \in {"relay", "master", "follower", "electorate"},
           Shaped', AtRelay', AtMaster', AtFollower', AtElectorate'
    PROVE  Inv'
<1>1. Types' /\ fate' = "none"
  BY DEF Inv, Types, Places
<1>2. AtPrompt'
  BY DEF AtPrompt
<1>3. doc'.master \in Seq(Int) /\ doc'.follower \in Seq(Int)
  BY DEF Inv, Types
<1>4. doc'.master = doc'.before /\ doc'.follower = doc'.before
  BY DEF Untouched
<1>5. Fine(doc.master)' /\ NotCut(doc.master)' /\ Fine(doc.follower)' /\ NotCut(doc.follower)'
  <2>1. IsPrefix(doc'.master, doc'.before) /\ IsPrefix(doc'.follower, doc'.before)
    BY <1>3, <1>4, PrefixItself
  <2>2. Len(doc'.master) \in Nat /\ Len(doc'.follower) \in Nat
    BY <1>3, LenProperties
  <2> QED
    BY <1>4, <2>1, <2>2 DEF Fine, NotCut, IsTyped, IsCut
<1>6. OnlyTypedText' /\ NoDeletionUnasked'
  BY <1>5, FineDocuments, PTL
<1>7. FalseElectionFails' /\ PlainTextArrives' /\ Overran'
  BY <1>1 DEF FalseElectionFails, PlainTextArrives, Overran
<1> QED
  BY <1>1, <1>2, <1>6, <1>7 DEF Inv

LEMMA Stopped ==
    ASSUME Inv, NEW how, how \in Fates, Stop(how), PlainTextArrives',
           how = "deposed" => route.byzantine = 4000, how = "overrun" => Len(wire) > Buffer
    PROVE  Inv'
<1>1. /\ at' = "done" /\ fate' = how /\ wire' = wire /\ origin' = origin /\ route' = route
      /\ doc' = doc
  BY DEF Stop
<1>2. Types' /\ Shaped'
  BY <1>1 DEF Inv, Types, Places, Shaped
<1>3. AtPrompt' /\ AtRelay' /\ AtMaster' /\ AtFollower' /\ AtElectorate'
  BY <1>1 DEF AtPrompt, AtRelay, AtMaster, AtFollower, AtElectorate
<1>4. OnlyTypedText' /\ NoDeletionUnasked'
  <2>1. Fine(doc.master) /\ NotCut(doc.master) /\ Fine(doc.follower) /\ NotCut(doc.follower)
    BY FineDocuments DEF Inv
  <2>2. Disguised' <=> Disguised
    BY <1>1 DEF Disguised
  <2>3. Fine(doc.master)' /\ NotCut(doc.master)'
    BY <1>1, <2>1, <2>2 DEF Fine, NotCut
  <2>4. Fine(doc.follower)' /\ NotCut(doc.follower)'
    BY <1>1, <2>1, <2>2 DEF Fine, NotCut
  <2> QED
    BY <2>3, <2>4, FineDocuments, PTL
<1>5. FalseElectionFails' /\ Overran'
  BY <1>1 DEF FalseElectionFails, Overran
<1> QED
  BY <1>1, <1>2, <1>3, <1>4, <1>5 DEF Inv

-----------------------------------------------------------------------------
(* A text without separators on its way.                                   *)

Plain ==
    origin.kind = "edit" /\ route.byzantine = 0 /\ ~ HasSeparator(origin.text)

LEMMA PlainAtPeers ==
    ASSUME Inv, Plain, at \in {"relay", "master"}
    PROVE  /\ IsEdit(origin) /\ Untouched /\ wire # <<>>
           /\ Sent = Order(origin) /\ ~ Throws(Sent) /\ VerifyMessage(Sent)
           /\ Sent.type = <<origin.type>> /\ Sent.body = origin.text
           /\ Sanitise(origin.text) = origin.text
           /\ origin.text # <<>> /\ ~ NoCount(<<origin.type>>, origin.text)
<1>1. IsEdit(origin) /\ Untouched
  BY DEF Inv, AtRelay, AtMaster, Plain
<1>2. /\ Clear(origin.text, Colon) /\ Asked(origin) = Order(origin)
      /\ ~ Throws(Order(origin)) /\ VerifyMessage(Order(origin))
  BY <1>1, PlainOrder DEF Plain
<1>3. wire # <<>> /\ Sent = Asked(origin)
  <2>1. CASE at = "relay"
    <3>1. wire = Marshal(Order(origin))
      BY <2>1 DEF Inv, AtRelay
    <3>2. Order(origin) \in MessageOf(Nat)
      BY <1>1, OrderComposed DEF IsComposed
    <3>3. wire # <<>>
      BY <3>1, <3>2, MessagesOfNaturals, MarshalSomething
    <3> QED
      BY <3>1, <3>3 DEF Sent, Asked
  <2>2. CASE at = "master"
    BY <2>2 DEF Inv, AtMaster, Plain
  <2> QED
    BY <2>1, <2>2
<1>4. /\ Order(origin).type = <<origin.type>> /\ Order(origin).body = origin.text
  BY <1>1, OrderComposed DEF IsComposed
<1>5. Sanitise(origin.text) = origin.text
  <2>1. origin.text \in Seq(Int)
    BY <1>1, OrderComposed
  <2>2. \A i \in 1 .. Len(origin.text) : origin.text[i] \notin {Colon}
    BY <1>2 DEF Clear
  <2> QED
    BY <2>1, <2>2, WithoutNothing DEF Sanitise
<1>6. origin.text # <<>> /\ (origin.type = DELT => IsNumber(origin.text))
  BY <1>1 DEF IsEdit, Acceptable
<1>7. ~ NoCount(<<origin.type>>, origin.text)
  BY <1>6 DEF NoCount
<1> QED
  BY <1>1, <1>2, <1>3, <1>4, <1>5, <1>6, <1>7

\* The follower puts together the message of the client as it was.
LEMMA PlainAtFollower ==
    ASSUME Inv, Plain, at = "follower", Readable
    PROVE  /\ IsEdit(origin) /\ doc.follower = doc.before
           /\ ~ Throws(Received) /\ VerifyMessage(Received)
           /\ Received.port = Numeral[route.master] /\ Received.type = <<origin.type>>
           /\ Event.body = origin.text
           /\ ~ Throws(ClientMessage) /\ VerifyMessage(ClientMessage)
           /\ ClientMessage.type = <<origin.type>> /\ ClientMessage.body = origin.text
           /\ Sanitise(origin.text) = origin.text
           /\ origin.text # <<>> /\ ~ NoCount(<<origin.type>>, origin.text)
           /\ ~ TooLong(doc.before, <<origin.type>>, origin.text)
           /\ doc.master = Wanted
<1>1. /\ IsEdit(origin) /\ route.master \in PeerPorts /\ doc.follower = doc.before
      /\ Done(Asked(origin).body)
  <2>1. /\ IsEdit(origin) /\ route.master \in PeerPorts /\ doc.follower = doc.before
        /\ \E data \in {Asked(origin).body, <<Vandalism>>} : Done(data)
    BY DEF Inv, AtFollower, Plain
  <2>2. PICK data : Done(data)
    BY <2>1
  <2>3. data = Asked(origin).body
    BY <2>2 DEF Done, Disguised, Plain
  <2> QED
    BY <2>1, <2>2, <2>3
<1>2. PICK o, t, x, c, s, m :
          /\ o = origin /\ t = origin.type /\ x = origin.text /\ c = origin.client
          /\ m = Order(origin) /\ s = m.sign
  OBVIOUS
<1>3. /\ Clear(x, Colon) /\ Clear(x, Dollar) /\ Asked(o) = m
      /\ ~ Throws(m) /\ VerifyMessage(m)
  BY <1>1, <1>2, PlainOrder DEF Plain
<1>4. /\ m.type = <<t>> /\ m.port = Numeral[c] /\ m.term = Numeral[0] /\ m.body = x
      /\ s \in Seq(Digits) /\ m \in MessageOf(Nat)
  BY <1>1, <1>2, OrderComposed DEF IsComposed
<1>5. /\ x \in Seq(Nat) /\ x \in Seq(Int) /\ c \in Nat /\ t \in {APND, DELT}
  BY <1>1, <1>2, OrderComposed DEF IsEdit
<1>6. /\ s \in Seq(Nat) /\ s \in Seq(Int) /\ Clear(s, Dollar) /\ SanitiseSignature(s) = s
      /\ UpTo(s, Dollar) = s
  <2>1. s \in Seq(Nat) /\ s \in Seq(Int) /\ Clear(s, Dollar) /\ SanitiseSignature(s) = s
    BY <1>4, DigitsAreClear
  <2>2. UpTo(s, Dollar) = s
    BY <2>1, UpToProperties
  <2> QED
    BY <2>1, <2>2
<1>7. PICK g, p : p = route.master /\ g = Logged(p, t, x, c, s)
  OBVIOUS
<1>8. wire = Marshal(g)
  BY <1>1, <1>2, <1>3, <1>4, <1>7 DEF Done
<1>9. Received = Unmarshal(Marshal(g))
  BY <1>8, ReadAsSent DEF Sent
<1>10. PICK r : r = Unmarshal(Marshal(g))
  OBVIOUS
<1>11. p \in PeerPorts
  BY <1>1, <1>7
<1>12. /\ g \in MessageOf(Nat)
       /\ r.type = <<t>> /\ r.port = Numeral[p]
       /\ EventReads(UnmarshalEvent(r.body), x, c, s)
       /\ ~ Throws(r) /\ VerifyMessage(r)
  <2>1. /\ p \in PeerPorts /\ t \in {APND, DELT} /\ x \in Seq(Nat) /\ Clear(x, Dollar)
        /\ c \in Nat /\ s \in Seq(Nat)
    BY <1>3, <1>5, <1>6, <1>11
  <2>2. LoggedReads(g, r, p, t, x, c, s)
    BY <1>7, <1>10, <2>1, LoggedIsRead
  <2> QED
    BY <1>6, <2>2 DEF LoggedReads
<1>13. Event = [body |-> x, client |-> c, sign |-> s]
  BY <1>3, <1>6, <1>9, <1>10, <1>12 DEF EventReads, Event
<1>14. ClientMessage = m
  <2>1. ~ c < 0
    BY <1>5
  <2>2. ClientMessage = [type |-> m.type, port |-> m.port, term |-> m.term, body |-> m.body,
                         sign |-> m.sign]
    BY <1>2, <1>4, <1>9, <1>10, <1>12, <1>13, <2>1 DEF ClientMessage, AsSent
  <2>3. m = [type |-> m.type, port |-> m.port, term |-> m.term, body |-> m.body,
             sign |-> m.sign]
    BY <1>4 DEF MessageOf
  <2> QED
    BY <2>2, <2>3
<1>15. Sanitise(x) = x
  <2>1. \A i \in 1 .. Len(x) : x[i] \notin {Colon}
    BY <1>3 DEF Clear
  <2> QED
    BY <1>5, <2>1, WithoutNothing DEF Sanitise
<1>16. x # <<>> /\ ~ NoCount(<<t>>, x)
  BY <1>1, <1>2 DEF IsEdit, Acceptable, NoCount
<1>17. ~ TooLong(doc.before, <<t>>, x) /\ doc.master = Wanted
  BY <1>1, <1>2, <1>3, <1>4, <1>15 DEF Done, Wanted
<1> QED
  BY <1>1, <1>2, <1>3, <1>4, <1>7, <1>9, <1>10, <1>12, <1>13, <1>14, <1>15, <1>16, <1>17

LEMMA PlainIsServed ==
    ASSUME Inv, Plain, Serving
    PROVE  /\ wire # <<>>
           /\ Readable => ~ Throws(Received) /\ VerifyMessage(Received)
<1>1. at # "electorate"
  BY DEF Inv, AtElectorate, Plain
<1>2. at \in {"relay", "master"} \/ at = "follower"
  BY <1>1 DEF Serving
<1>3. CASE at \in {"relay", "master"}
  BY <1>3, PlainAtPeers, ReadAsSent
<1>4. CASE at = "follower"
  BY <1>4, PlainAtFollower DEF Inv, AtFollower
<1> QED
  BY <1>2, <1>3, <1>4

LEMMA NothingPlain ==
    ASSUME NEW how, Stop(how), ~ Plain
    PROVE  PlainTextArrives'
BY DEF Stop, Plain, PlainTextArrives

-----------------------------------------------------------------------------
(* The steps.                                                              *)

LEMMA InitInv == Init => Inv
<1> SUFFICES ASSUME Init PROVE Inv
  OBVIOUS
<1>1. PICK document \in Documents :
         doc = [before |-> document, master |-> document, follower |-> document]
  BY DEF Init
<1>2. document \in Seq(Int)
  BY <1>1, ConstantsAssumption, SeqMonotonic
<1>3. at = "prompt" /\ fate = "none" /\ wire = <<>>
  BY DEF Init
<1>4. Types /\ Untouched
  BY <1>1, <1>2, <1>3 DEF Types, Untouched, Places, Fates
<1>5. doc.master \in Seq(Int) /\ doc.follower \in Seq(Int)
      /\ doc.master = doc.before /\ doc.follower = doc.before
  BY <1>1, <1>2
<1>6. OnlyTypedText /\ NoDeletionUnasked
  BY <1>5, Unchanged, FineDocuments
<1> QED
  BY <1>3, <1>4, <1>6 DEF Inv, Shaped, AtPrompt, AtRelay, AtMaster, AtFollower, AtElectorate,
                          FalseElectionFails, PlainTextArrives, Overran

LEMMA IgnoreEmptyKeeps == ASSUME Inv, IgnoreEmpty PROVE Inv'
<1>1. Stop("ignored") /\ ~ Plain
  BY PlainIsServed DEF IgnoreEmpty
<1> QED
  BY <1>1, NothingPlain, Stopped DEF Fates

LEMMA OverrunKeeps == ASSUME Inv, Overrun PROVE Inv'
<1>1. Stop("overrun") /\ Len(wire) > Buffer
  BY ShortIsReadable DEF Overrun
<1>2. PlainTextArrives'
  BY <1>1 DEF Stop, PlainTextArrives
<1> QED
  BY <1>1, <1>2, Stopped DEF Fates

LEMMA EndOnMessageKeeps == ASSUME Inv, EndOnMessage PROVE Inv'
<1>1. Stop("ended") /\ ~ Plain
  BY PlainIsServed DEF EndOnMessage
<1> QED
  BY <1>1, NothingPlain, Stopped DEF Fates

LEMMA IgnoreUnverifiedKeeps == ASSUME Inv, IgnoreUnverified PROVE Inv'
<1>1. Stop("ignored") /\ ~ Plain
  BY PlainIsServed DEF IgnoreUnverified
<1> QED
  BY <1>1, NothingPlain, Stopped DEF Fates

LEMMA CountVotesKeeps == ASSUME Inv, CountVotes PROVE Inv'
<1>1. Stop("counted") /\ ~ Plain
  BY DEF CountVotes, Accepted, Inv, AtElectorate, Plain
<1> QED
  BY <1>1, NothingPlain, Stopped DEF Fates

LEMMA EndOnEditKeeps == ASSUME Inv, EndOnEdit PROVE Inv'
<1>1. Stop("ended") /\ ~ Plain
  <2>1. SUFFICES ASSUME Plain PROVE FALSE
    BY DEF EndOnEdit
  <2>2. at = "master" /\ NoCount(Sent.type, Sanitise(Sent.body))
    BY ReadAsSent DEF EndOnEdit, Accepted
  <2> QED
    BY <2>1, <2>2, PlainAtPeers
<1> QED
  BY <1>1, NothingPlain, Stopped DEF Fates

LEMMA RejectEditKeeps == ASSUME Inv, RejectEdit PROVE Inv'
<1>1. Stop("rejected") /\ at = "master" /\ Received = Sent
  BY ReadAsSent DEF RejectEdit, Accepted
<1>2. CASE ~ Plain
  BY <1>1, <1>2, NothingPlain, Stopped DEF Fates
<1>3. CASE Plain
  <2>1. /\ Untouched /\ Received.type = <<origin.type>> /\ Received.body = origin.text
        /\ Sanitise(origin.text) = origin.text /\ origin.text # <<>>
    BY <1>1, <1>3, PlainAtPeers
  <2>2. TooLong(doc.master, <<origin.type>>, origin.text)
    BY <2>1 DEF RejectEdit
  <2>3. TooLong(doc.before, <<origin.type>>, origin.text)
    BY <2>1, <2>2 DEF Untouched
  <2>4. PlainTextArrives'
    BY <1>1, <2>1, <2>3 DEF PlainTextArrives, Stop, Untouched
  <2> QED
    BY <1>1, <2>4, Stopped DEF Fates
<1> QED
  BY <1>2, <1>3

LEMMA ObeyElectionKeeps == ASSUME Inv, ObeyElection PROVE Inv'
<1>1. /\ Stop("deposed") /\ at = "master" /\ wire # <<>> /\ VerifyMessage(Sent)
      /\ Sent.type = <<ELCT>>
  BY ReadAsSent DEF ObeyElection, Accepted
<1>2. ~ AlteredType
  BY <1>1 DEF AlteredType
<1>3. ASSUME IsEdit(origin), Sent = Asked(origin) \/ AlteredBody
      PROVE  FALSE
  <2>1. IsRead(Asked(origin), Order(origin), origin.type, origin.client, origin.text)
    BY <1>3, AskedIsRead
  <2>2. Asked(origin).type = <<origin.type>> /\ Asked(origin) \in MessageOf(Nat)
    BY <2>1 DEF IsRead
  <2>3. Sent.type = Asked(origin).type
    BY <1>3, <2>2 DEF AlteredBody, MessageOf
  <2>4. origin.type # ELCT
    BY <1>3 DEF IsEdit, APND, DELT, ELCT
  <2> QED
    BY <1>1, <2>2, <2>3, <2>4
<1>4. /\ origin.kind = "false election" /\ route.byzantine \in PeerPorts
      /\ wire = Marshal(FalseRequest(route.byzantine))
  BY <1>1, <1>2, <1>3 DEF Inv, AtMaster
<1>5. PICK peer : peer = route.byzantine
  OBVIOUS
<1>6. peer \in PeerPorts /\ wire = Marshal(FalseRequest(peer))
  BY <1>4, <1>5
<1>7. Sent = FalseRequest(peer)
  BY <1>6, FalseRequestIsRead DEF Sent
<1>8. route.byzantine = 4000
  BY <1>1, <1>5, <1>6, <1>7, FalseRequestVerifies
<1>9. ~ Plain
  BY <1>4 DEF Plain
<1> QED
  BY <1>1, <1>8, <1>9, NothingPlain, Stopped DEF Fates

LEMMA EndOnEventKeeps == ASSUME Inv, EndOnEvent PROVE Inv'
<1>1. Stop("ended") /\ at = "follower" /\ Readable /\ EndsOn(ClientMessage)
  BY DEF EndOnEvent, FromMaster, Accepted
<1>2. ~ Plain
  BY <1>1, PlainAtFollower DEF EndsOn
<1> QED
  BY <1>1, <1>2, NothingPlain, Stopped DEF Fates

LEMMA IgnoreEventKeeps == ASSUME Inv, IgnoreEvent PROVE Inv'
<1>1. Stop("ignored") /\ at = "follower" /\ Readable
  BY DEF IgnoreEvent, FromMaster, Accepted
<1>2. ~ Plain
  <2>1. SUFFICES ASSUME Plain PROVE FALSE
    OBVIOUS
  <2>2. Accepted("follower") /\ FromMaster
    BY <1>1, <2>1, PlainAtFollower DEF FromMaster, Accepted
  <2>3. \/ ~ VerifyMessage(ClientMessage)
        \/ Sanitise(Event.body) = <<>>
        \/ TooLong(doc.follower, Received.type, Sanitise(Event.body))
    BY <2>2 DEF IgnoreEvent
  <2> QED
    BY <1>1, <2>1, <2>3, PlainAtFollower
<1> QED
  BY <1>1, <1>2, NothingPlain, Stopped DEF Fates

LEMMA EditedIsInv ==
    ASSUME Inv, at # "done", at' \in {"follower", "done"}, origin' = origin, route' = route,
           doc' \in [{"before", "master", "follower"} -> Seq(Int)],
           doc'.before = doc.before,
           Fine(doc'.master), NotCut(doc'.master), Fine(doc'.follower), NotCut(doc'.follower),
           Shaped', AtFollower', PlainTextArrives',
           fate' \in {"none", "applied"}, at' = "follower" => fate' = "none"
    PROVE  Inv'
<1>1. Types'
  BY DEF Types, Places, Fates
<1>2. AtPrompt' /\ AtRelay' /\ AtMaster' /\ AtElectorate'
  BY DEF AtPrompt, AtRelay, AtMaster, AtElectorate
<1>3. Disguised' <=> Disguised
  BY DEF Disguised
<1>4. Fine(doc.master)' /\ NotCut(doc.master)'
  BY <1>3 DEF Fine, NotCut
<1>5. Fine(doc.follower)' /\ NotCut(doc.follower)'
  BY <1>3 DEF Fine, NotCut
<1>6. OnlyTypedText' /\ NoDeletionUnasked'
  BY <1>4, <1>5, FineDocuments, PTL
<1>7. FalseElectionFails' /\ Overran'
  BY DEF FalseElectionFails, Overran
<1> QED
  BY <1>1, <1>2, <1>6, <1>7 DEF Inv

\* What is logged is the beginning of what was typed, or the vandal's text.
LEMMA DataIsFine ==
    ASSUME IsEdit(origin), NEW data, data = Asked(origin).body
    PROVE  Beginning(data, origin.text)
<1>1. IsRead(Asked(origin), Order(origin), origin.type, origin.client, origin.text)
  BY AskedIsRead
<1>2. data = UpTo(origin.text, Dollar) /\ origin.text \in Seq(Int)
  BY <1>1, OrderComposed DEF IsRead
<1> QED
  BY <1>2, BeginningUpTo

LEMMA ApplyEditKeeps == ASSUME Inv, ApplyEdit PROVE Inv'
<1>1. PICK data, text, type, peer, client, sign :
        /\ data = Received.body /\ text = Sanitise(data) /\ type = origin.type
        /\ peer = route.master /\ client = origin.client /\ sign = Asked(origin).sign
  OBVIOUS
<1>2. Accepted("master") /\ Received.type \in {<<APND>>, <<DELT>>}
  BY DEF ApplyEdit
<1>3. /\ IsEdit(origin) /\ peer \in PeerPorts /\ Untouched
      /\ Received.type = <<type>> /\ Received.port = Numeral[client] /\ Received.sign = sign
      /\ data = Asked(origin).body \/ (data = <<Vandalism>> /\ Disguised)
  BY <1>1, <1>2, AcceptedRequest
<1>4. /\ text # <<>> /\ ~ NoCount(<<type>>, text) /\ ~ TooLong(doc.master, <<type>>, text)
      /\ doc' = [doc EXCEPT !.master = Performed(@, <<type>>, text)]
      /\ at' = "follower" /\ origin' = origin /\ route' = route /\ fate' = fate
  BY <1>1, <1>3 DEF ApplyEdit, Send
<1>5. /\ data \in Seq(Nat) /\ data \in Seq(Int) /\ Clear(data, Dollar) /\ sign \in Seq(Nat)
      /\ client \in Nat /\ type \in {APND, DELT}
  <2>1. data \in {Asked(origin).body, <<Vandalism>>}
    BY <1>3
  <2> QED
    BY <1>1, <1>3, <2>1, LoggedData
<1>6. PICK m, r : m = Logged(peer, type, data, client, sign) /\ r = Unmarshal(Marshal(m))
  OBVIOUS
<1>7. LoggedReads(m, r, peer, type, data, client, sign)
  BY <1>3, <1>5, <1>6, LoggedIsRead
<1>8. wire' = Marshal(m)
  <2>1. Head(Received.type) = type
    BY <1>3
  <2>2. Stoi(Received.port) = client
    BY <1>3, <1>5, ReadNumeral
  <2>3. wire' = Compose(type, peer, 1,
                    EventBody([sequent |-> Sequent, data |-> data, client |-> client,
                               sign |-> sign]))
    BY <1>1, <1>3, <2>1, <2>2 DEF ApplyEdit, Send
  <2> QED
    BY <1>7, <2>3 DEF LoggedReads, Compose
<1>9. doc \in [{"before", "master", "follower"} -> Seq(Int)]
  BY DEF Inv, Types
<1>10. /\ doc'.before = doc.before /\ doc'.follower = doc.before
       /\ doc'.master = Performed(doc.before, <<type>>, text)
  BY <1>3, <1>4, <1>9 DEF Untouched
<1>11. ~ TooLong(doc.before, <<type>>, text) /\ doc.before \in Seq(Int)
  BY <1>3, <1>4, <1>9 DEF Untouched
<1>12. data = Asked(origin).body \/ (type = APND /\ Disguised /\ data = <<Vandalism>>)
  <2>1. CASE data = <<Vandalism>> /\ type = DELT
    BY <1>1, <1>4, <2>1, VandalismIsClean DEF NoCount
  <2> QED
    BY <1>3, <1>5, <2>1
<1>13. Beginning(data, origin.text) \/ (type = APND /\ Disguised /\ data = <<Vandalism>>)
  BY <1>3, <1>12, DataIsFine
<1>14. doc'.master \in Seq(Int) /\ Fine(doc'.master) /\ NotCut(doc'.master)
  BY <1>1, <1>3, <1>4, <1>5, <1>10, <1>11, <1>13, Edited
<1>15. Fine(doc'.follower) /\ NotCut(doc'.follower)
  BY <1>10, <1>11, Unchanged
<1>16. doc' \in [{"before", "master", "follower"} -> Seq(Int)]
  BY <1>4, <1>9, <1>10, <1>14
<1>17. Shaped' /\ wire' # <<>>
  BY <1>7, <1>8, MessagesOfNaturals, MarshalSomething DEF Shaped, LoggedReads
<1>18. AtFollower'
  <2>1. Disguised' <=> Disguised
    BY <1>4 DEF Disguised
  <2>2. Done(data)'
    BY <1>1, <1>4, <1>6, <1>8, <1>10, <1>11, <1>12, <2>1 DEF Done
  <2>3. data \in {Asked(origin).body, <<Vandalism>>}
    BY <1>12
  <2>4. \E d \in {Asked(origin).body, <<Vandalism>>} : Done(d)'
    BY <2>2, <2>3
  <2>5. IsEdit(origin') /\ route'.master \in PeerPorts /\ doc'.follower = doc'.before
    BY <1>1, <1>3, <1>4, <1>10
  <2> QED
    BY <1>4, <1>17, <2>4, <2>5 DEF AtFollower
<1>19. at = "master" /\ fate = "none"
  BY <1>2 DEF Accepted, Inv
<1>20. PlainTextArrives'
  BY <1>4 DEF PlainTextArrives
<1> QED
  BY <1>4, <1>10, <1>14, <1>15, <1>16, <1>17, <1>18, <1>19, <1>20, EditedIsInv

\* Of nothing nothing is left.
LEMMA NothingSanitised ==
    /\ Sanitise(<<>>) = <<>> /\ SanitiseSignature(<<>>) = <<>>
    /\ UpTo(<<>>, Dollar) = <<>>
<1>1. PICK e : e = <<>>
  OBVIOUS
<1>2. e \in Seq(Int) /\ Len(e) = 0
  BY <1>1, EmptySeq
<1>3. Clear(e, Dollar)
  BY <1>2 DEF Clear
<1>4. UpTo(e, Dollar) = e
  BY <1>2, <1>3, UpToProperties
<1>5. /\ \A i \in 1 .. Len(e) : e[i] \notin {Colon}
      /\ \A i \in 1 .. Len(e) : e[i] \notin {Dollar, Percent}
  BY <1>2
<1>6. Sanitise(e) = e /\ SanitiseSignature(e) = e
  BY <1>2, <1>5, WithoutNothing DEF Sanitise, SanitiseSignature
<1> QED
  BY <1>1, <1>4, <1>6

LEMMA ApplyEventKeeps == ASSUME Inv, ApplyEvent PROVE Inv'
<1>1. /\ at = "follower" /\ fate = "none" /\ FromMaster /\ Received = Sent
      /\ VerifyMessage(ClientMessage) /\ ~ EndsOn(ClientMessage)
  BY ReadAsSent DEF ApplyEvent, FromMaster, Accepted, Inv
<1>2. PICK text, type, p :
        p = Event.body /\ text = Sanitise(p) /\ type = origin.type
  OBVIOUS
<1>3. /\ text # <<>> /\ ~ TooLong(doc.follower, Received.type, text)
      /\ doc' = [doc EXCEPT !.follower = Performed(@, Received.type, text)]
      /\ at' = "done" /\ fate' = "applied" /\ wire' = wire /\ origin' = origin /\ route' = route
  BY <1>2 DEF ApplyEvent
<1>4. doc \in [{"before", "master", "follower"} -> Seq(Int)]
  BY DEF Inv, Types
<1>5. CASE /\ IsEdit(origin) /\ route.master \in PeerPorts /\ doc.follower = doc.before
           /\ \E data \in {Asked(origin).body, <<Vandalism>>} : Done(data)
  <2>1. PICK data : data \in {Asked(origin).body, <<Vandalism>>} /\ Done(data)
    BY <1>5
  <2>2. data = Asked(origin).body \/ (type = APND /\ Disguised /\ data = <<Vandalism>>)
    BY <1>2, <2>1 DEF Done
  <2>3. PICK peer, client, sign, m :
           /\ peer = route.master /\ client = origin.client /\ sign = Asked(origin).sign
           /\ m = Logged(peer, type, data, client, sign)
    OBVIOUS
  <2>4. wire = Marshal(m)
    BY <1>2, <2>1, <2>3 DEF Done
  <2>5. /\ data \in Seq(Nat) /\ data \in Seq(Int) /\ Clear(data, Dollar) /\ sign \in Seq(Nat)
        /\ client \in Nat /\ type \in {APND, DELT}
    BY <1>2, <1>5, <2>1, <2>3, LoggedData
  <2>6. PICK r : r = Unmarshal(Marshal(m))
    OBVIOUS
  <2>7. peer \in PeerPorts
    BY <1>5, <2>3
  <2>8. LoggedReads(m, r, peer, type, data, client, sign)
    BY <2>3, <2>5, <2>6, <2>7, LoggedIsRead
  <2>9. Received = r /\ Received.type = <<type>>
    BY <1>1, <2>4, <2>6, <2>8 DEF Sent, LoggedReads
  <2>10. p \in {<<>>, UpTo(data, Colon)}
    BY <1>2, <2>8, <2>9 DEF LoggedReads, EventReads, Event
  <2>11. p = UpTo(data, Colon)
    BY <1>2, <1>3, <2>10, NothingSanitised
  <2>12. p \in Seq(Int)
    BY <2>5, <2>11, UpToProperties
  <2>13. Beginning(p, origin.text) \/ (type = APND /\ Disguised /\ p = <<Vandalism>>)
    <3>1. CASE data = Asked(origin).body
      <4>1. Beginning(data, origin.text)
        BY <1>5, <3>1, DataIsFine
      <4>2. Beginning(p, data)
        BY <2>5, <2>11, BeginningUpTo
      <4>3. origin.text \in Seq(Int)
        BY <1>5, OrderComposed
      <4> QED
        BY <4>1, <4>2, <4>3, BeginningOfBeginning
    <3>2. CASE type = APND /\ Disguised /\ data = <<Vandalism>>
      BY <2>11, <3>2, VandalismIsClean
    <3> QED
      BY <2>2, <3>1, <3>2
  <2>14. /\ doc'.before = doc.before /\ doc'.master = doc.master
         /\ doc'.follower = Performed(doc.before, <<type>>, text)
    BY <1>3, <1>4, <1>5, <2>9
  <2>15. doc.before \in Seq(Int) /\ ~ TooLong(doc.before, <<type>>, text)
    BY <1>3, <1>4, <1>5, <2>9
  <2>16. doc'.follower \in Seq(Int) /\ Fine(doc'.follower) /\ NotCut(doc'.follower)
    BY <1>2, <1>3, <1>5, <2>12, <2>13, <2>14, <2>15, Edited
  <2>17. Fine(doc'.master) /\ NotCut(doc'.master)
    BY <2>14, FineDocuments DEF Inv
  <2>18. doc' \in [{"before", "master", "follower"} -> Seq(Int)]
    BY <1>3, <1>4, <2>14, <2>16
  <2>19. Shaped'
    BY <1>3 DEF Inv, Shaped
  <2>20. AtFollower'
    BY <1>3 DEF AtFollower
  <2>21. PlainTextArrives'
    <3>1. CASE ~ Plain
      BY <1>3, <3>1 DEF Plain, PlainTextArrives
    <3>2. CASE Plain
      <4>1. /\ ~ TooLong(doc.before, <<type>>, origin.text) /\ doc.master = Wanted
            /\ p = origin.text /\ Sanitise(origin.text) = origin.text
        BY <1>1, <1>2, <3>2, PlainAtFollower DEF FromMaster, Accepted
      <4>2. text = origin.text
        BY <1>2, <4>1
      <4>3. doc'.follower = Wanted
        BY <1>2, <2>14, <4>2 DEF Wanted
      <4>4. Wanted' = Wanted
        BY <1>3, <2>14 DEF Wanted
      <4> QED
        BY <1>2, <1>3, <2>14, <4>1, <4>3, <4>4 DEF PlainTextArrives
    <3> QED
      BY <3>1, <3>2
  <2> QED
    BY <1>1, <1>3, <2>14, <2>16, <2>17, <2>18, <2>19, <2>20, <2>21, EditedIsInv
<1>6. CASE /\ Untouched /\ origin.kind = "false delete" /\ route.byzantine \in PeerPorts
           /\ wire = Marshal(Logged(route.byzantine, DELT, Numeral[Len(doc.before)], 0, <<>>))
  <2>1. PICK peer, t, data, client, sign, m :
           /\ peer = route.byzantine /\ t = DELT /\ data = Numeral[Len(doc.before)]
           /\ client = 0 /\ sign = <<>> /\ m = Logged(peer, t, data, client, sign)
    OBVIOUS
  <2>2. Len(doc.before) \in Nat
    BY <1>4, LenProperties
  <2>3. data \in Seq(Nat) /\ Clear(data, Dollar) /\ Clear(data, Colon)
    BY <2>1, <2>2, NumeralIsNat, DigitsAreClear
  <2>4. sign \in Seq(Nat) /\ client \in Nat /\ t \in {APND, DELT} /\ peer \in PeerPorts
    BY <1>6, <2>1, EmptySeq
  <2>5. PICK r : r = Unmarshal(Marshal(m))
    OBVIOUS
  <2>6. LoggedReads(m, r, peer, t, data, client, sign)
    BY <2>1, <2>3, <2>4, <2>5, LoggedIsRead
  <2>7. Received = r
    BY <1>1, <1>6, <2>1, <2>5 DEF Sent
  <2>8. Event.sign = SanitiseSignature(UpTo(sign, Dollar))
    BY <2>3, <2>6, <2>7 DEF LoggedReads, EventReads, Event
  <2>9. SanitiseSignature(UpTo(sign, Dollar)) = <<>> /\ SanitiseSignature(<<>>) = <<>>
    BY <2>1, NothingSanitised
  <2>10. ClientMessage.sign = <<>>
    BY <2>8, <2>9 DEF ClientMessage, AsSent
  <2>11. Throws(ClientMessage)
    BY <2>9, <2>10 DEF Throws, IsNumber
  <2> QED
    BY <1>1, <2>11 DEF EndsOn
<1> QED
  BY <1>1, <1>5, <1>6 DEF Inv, AtFollower

LEMMA SendCommandKeeps ==
    ASSUME Inv, NEW client \in ClientPorts, NEW first \in PeerPorts, NEW master \in PeerPorts,
           NEW byzantine, byzantine \in {0, first},
           SendCommand(client, first, master, byzantine)
    PROVE  Inv'
<1>1. PICK type \in {APND, DELT}, text \in Typed :
         /\ Acceptable(type, text)
         /\ Origin("edit", client, type, text, 0)
         /\ Send(Compose(type, client, 0, text), IF first = master THEN "master" ELSE "relay")
  BY DEF SendCommand
<1>2. /\ at = "prompt" /\ doc' = doc /\ fate' = fate /\ at' \in {"relay", "master"}
      /\ route' = [first |-> first, master |-> master, byzantine |-> byzantine]
  BY <1>1 DEF SendCommand, Send
<1>3. Untouched /\ Untouched'
  BY <1>2 DEF Inv, AtPrompt, Untouched
<1>4. PICK o : o = origin'
  OBVIOUS
<1>5. o.kind = "edit" /\ o.client = client /\ o.type = type /\ o.text = text
  BY <1>1, <1>4 DEF Origin
<1>6. IsEdit(o)
  BY <1>1, <1>5, ConstantsAssumption DEF IsEdit
<1>7. IsComposed(Order(o), o.client, o.type, o.client, 0, o.text)
  BY <1>6, OrderComposed
<1>8. wire' = Marshal(Order(o)) /\ Order(o) \in MessageOf(Int)
  <2>1. ComposeAs(o.client, o.type, o.client, 0, o.text) = Marshal(Order(o))
    BY <1>7 DEF IsComposed
  <2>2. Order(o) \in MessageOf(Int)
    BY <1>7, MessagesOfNaturals DEF IsComposed
  <2> QED
    BY <1>1, <1>5, <2>1, <2>2 DEF Send, Compose
<1>9. Shaped'
  BY <1>8 DEF Shaped
<1>10. route'.first \in PeerPorts /\ route'.master \in PeerPorts
  BY <1>2
<1>11. AtRelay'
  BY <1>3, <1>4, <1>6, <1>8, <1>10 DEF AtRelay
<1>12. AtMaster'
  <2>1. wire' # <<>>
    BY <1>8, MarshalSomething
  <2>2. Sent' = Asked(origin')
    BY <1>4, <1>8 DEF Sent, Asked
  <2> QED
    BY <1>3, <1>4, <1>6, <1>10, <2>1, <2>2 DEF AtMaster
<1>13. AtFollower' /\ AtElectorate'
  BY <1>2 DEF AtFollower, AtElectorate
<1> QED
  BY <1>2, <1>3, <1>9, <1>11, <1>12, <1>13, OnTheWay

\* What a relaying peer has accepted is the client's request, as it reads it.
LEMMA AcceptedAtRelay ==
    ASSUME Inv, Accepted("relay")
    PROVE  /\ IsEdit(origin) /\ Untouched
           /\ route.first \in PeerPorts /\ route.master \in PeerPorts
           /\ Received = Asked(origin) /\ VerifyMessage(Asked(origin))
           /\ Asked(origin) \in MessageOf(Int) /\ Clean(Asked(origin))
<1>1. at = "relay" /\ VerifyMessage(Received) /\ Received = Sent
  BY ReadAsSent DEF Accepted
<1>2. /\ IsEdit(origin) /\ Untouched /\ wire = Marshal(Order(origin))
      /\ route.first \in PeerPorts /\ route.master \in PeerPorts
  BY <1>1 DEF Inv, AtRelay
<1>3. Received = Asked(origin)
  BY <1>1, <1>2 DEF Sent, Asked
<1>4. IsRead(Asked(origin), Order(origin), origin.type, origin.client, origin.text)
  BY <1>2, AskedIsRead
<1>5. Asked(origin) \in MessageOf(Int) /\ Clean(Asked(origin))
  BY <1>4, MessagesOfNaturals DEF IsRead
<1> QED
  BY <1>1, <1>2, <1>3, <1>5

LEMMA RelayKeeps == ASSUME Inv, Relay PROVE Inv'
<1>1. /\ Accepted("relay") /\ at = "relay" /\ at' = "master" /\ wire' = Marshal(Received)
      /\ origin' = origin /\ route' = route /\ doc' = doc /\ fate' = fate
  BY DEF Relay, Send, Accepted
<1>2. PICK m : m = Asked(origin)
  OBVIOUS
<1>3. /\ IsEdit(origin) /\ Untouched /\ route.master \in PeerPorts
      /\ Received = m /\ m \in MessageOf(Int) /\ Clean(m)
  BY <1>1, <1>2, AcceptedAtRelay
<1>4. Unmarshal(Marshal(m)) = m
  BY <1>3, UnmarshalClean
<1>5. wire' = Marshal(m) /\ wire' # <<>>
  BY <1>1, <1>3, MarshalSomething
<1>6. Sent' = m
  BY <1>4, <1>5 DEF Sent
<1>7. AtMaster'
  BY <1>1, <1>2, <1>3, <1>5, <1>6 DEF AtMaster, Untouched
<1>8. Shaped'
  BY <1>3, <1>5 DEF Shaped
<1>9. AtRelay' /\ AtFollower' /\ AtElectorate'
  BY <1>1 DEF AtRelay, AtFollower, AtElectorate
<1> QED
  BY <1>1, <1>3, <1>7, <1>8, <1>9, OnTheWay

\* No character has the code of a type of request.
LEMMA NoCharacterIsAType ==
    ASSUME NEW n \in Nat, NEW c, c = AsChar(n)
    PROVE  /\ c \in Int /\ <<c>> \in Seq(Int)
           /\ UpTo(<<c>>, Colon) \notin {<<APND>>, <<DELT>>, <<ELCT>>}
<1>1. c \in Int /\ c < 128
  BY DEF AsChar
<1>2. PICK t, u : t = <<c>> /\ u = UpTo(t, Colon)
  OBVIOUS
<1>3. t \in Seq(Int) /\ t[1] = c
  BY <1>1, <1>2
<1>4. PICK k : k \in 0 .. Len(t) /\ u = SubSeq(t, 1, k)
  BY <1>2, <1>3, BeginningUpTo DEF Beginning
<1>5. Len(u) = k /\ \A i \in 1 .. k : u[i] = t[i]
  BY <1>3, <1>4, Cut
<1>6. ASSUME NEW w \in {APND, DELT, ELCT}, u = <<w>> PROVE FALSE
  <2>1. Len(u) = 1 /\ u[1] = w
    BY <1>6
  <2>2. u[1] = c
    BY <1>3, <1>5, <2>1
  <2> QED
    BY <1>1, <2>1, <2>2 DEF APND, DELT, ELCT
<1> QED
  BY <1>1, <1>2, <1>3, <1>6

LEMMA RelayAlteredKeeps == ASSUME Inv, RelayAltered PROVE Inv'
<1>1. /\ Accepted("relay") /\ at = "relay" /\ at' = "master" /\ route.byzantine = route.first
      /\ origin' = origin /\ route' = route /\ doc' = doc /\ fate' = fate
  BY DEF RelayAltered, Send, Accepted
<1>2. PICK m, c, v : m = Asked(origin) /\ c = AsChar(Len(doc.before)) /\ v = <<Vandalism>>
  OBVIOUS
<1>3. /\ IsEdit(origin) /\ Untouched /\ route.master \in PeerPorts /\ route.first \in PeerPorts
      /\ Received = m /\ m \in MessageOf(Int) /\ Clean(m) /\ VerifyMessage(m)
  BY <1>1, <1>2, AcceptedAtRelay
<1>4. route'.byzantine # 0
  BY <1>1, <1>3 DEF PeerPorts
<1>5. (AlteredType' \/ AlteredBody') /\ Shaped'
  <2>1. \/ wire' = IF c = 0 THEN <<>> ELSE Marshal([m EXCEPT !.type = <<c>>])
        \/ wire' = Marshal([m EXCEPT !.body = v])
    BY <1>2, <1>3 DEF RelayAltered, Send
  <2>2. CASE c = 0 /\ wire' = <<>>
    BY <2>2 DEF AlteredType, Shaped
  <2>3. CASE wire' = Marshal([m EXCEPT !.type = <<c>>])
    <3>1. Len(doc.before) \in Nat
      BY LenProperties DEF Inv, Types
    <3>2. <<c>> \in Seq(Int) /\ UpTo(<<c>>, Colon) \notin {<<APND>>, <<DELT>>, <<ELCT>>}
      BY <1>2, <3>1, NoCharacterIsAType
    <3>3. PICK t, n : t = <<c>> /\ n = [m EXCEPT !.type = t]
      OBVIOUS
    <3>4. n \in MessageOf(Int) /\ n.type = t
      BY <1>3, <3>2, <3>3 DEF MessageOf
    <3>5. wire' = Marshal(n)
      BY <2>3, <3>3
    <3>6. Sent'.type = UpTo(t, Colon)
      BY <3>4, <3>5, MarshalledType DEF Sent
    <3> QED
      BY <3>2, <3>3, <3>4, <3>5, <3>6 DEF AlteredType, Shaped
  <2>4. CASE wire' = Marshal([m EXCEPT !.body = v])
    <3>1. v \in Seq(Int) /\ Clear(v, Dollar)
      <4>1. Vandalism \in Int /\ Vandalism # Dollar
        BY DEF Vandalism, Dollar
      <4> QED
        BY <1>2, <4>1, OneWord
    <3>2. PICK n : n = [m EXCEPT !.body = v]
      OBVIOUS
    <3>3. n \in MessageOf(Int) /\ Clean(n)
      BY <1>3, <3>1, <3>2 DEF MessageOf, Clean
    <3>4. wire' = Marshal(n)
      BY <2>4, <3>2
    <3>5. Sent' = n
      BY <3>3, <3>4, UnmarshalClean DEF Sent
    <3>6. Asked(origin') = m
      BY <1>1, <1>2
    <3> QED
      BY <1>2, <1>3, <3>2, <3>3, <3>4, <3>5, <3>6 DEF AlteredBody, Shaped
  <2> QED
    BY <2>1, <2>2, <2>3, <2>4
<1>6. AtMaster'
  BY <1>1, <1>3, <1>4, <1>5 DEF AtMaster, Untouched
<1>7. AtRelay' /\ AtFollower' /\ AtElectorate'
  BY <1>1 DEF AtRelay, AtFollower, AtElectorate
<1> QED
  BY <1>1, <1>3, <1>5, <1>6, <1>7, OnTheWay

LEMMA FalseDeleteKeeps ==
    ASSUME Inv, NEW byzantine \in PeerPorts, NEW master \in PeerPorts,
           FalseDelete(byzantine, master)
    PROVE  Inv'
<1>1. PICK t, data, client, sign, m :
         /\ t = DELT /\ data = Numeral[Len(doc.before)] /\ client = 0 /\ sign = <<>>
         /\ m = Logged(byzantine, t, data, client, sign)
  OBVIOUS
<1>2. /\ at = "prompt" /\ at' = "follower" /\ doc' = doc /\ fate' = fate
      /\ origin'.kind = "false delete" /\ route'.byzantine = byzantine
      /\ wire' = ComposeAs(byzantine, t, byzantine, 1,
                     EventBody([sequent |-> Sequent, data |-> data, client |-> client,
                                sign |-> sign]))
  BY <1>1 DEF FalseDelete, Send, Origin, Compose
<1>3. Untouched /\ Untouched'
  BY <1>2 DEF Inv, AtPrompt, Untouched
<1>4. Len(doc.before) \in Nat
  BY LenProperties DEF Inv, Types
<1>5. data \in Seq(Nat) /\ Clear(data, Dollar)
  BY <1>1, <1>4, NumeralIsNat, DigitsAreClear
<1>6. sign \in Seq(Nat) /\ client \in Nat /\ t \in {APND, DELT}
  BY <1>1, EmptySeq
<1>7. PICK r : r = Unmarshal(Marshal(m))
  OBVIOUS
<1>8. LoggedReads(m, r, byzantine, t, data, client, sign)
  BY <1>1, <1>5, <1>6, <1>7, LoggedIsRead
<1>9. wire' = Marshal(m) /\ m \in MessageOf(Int) /\ wire' # <<>>
  BY <1>2, <1>8, MessagesOfNaturals, MarshalSomething DEF LoggedReads
<1>10. AtFollower'
  BY <1>1, <1>2, <1>3, <1>9 DEF AtFollower
<1>11. Shaped'
  BY <1>9 DEF Shaped
<1>12. AtRelay' /\ AtMaster' /\ AtElectorate'
  BY <1>2 DEF AtRelay, AtMaster, AtElectorate
<1> QED
  BY <1>2, <1>3, <1>10, <1>11, <1>12, OnTheWay

LEMMA FalseElectionKeeps ==
    ASSUME Inv, NEW byzantine \in PeerPorts, NEW master \in PeerPorts,
           FalseElection(byzantine, master)
    PROVE  Inv'
<1>1. PICK t, p, z, e : /\ t = ELCT /\ p = 5000 /\ z = 0 /\ e = <<>>
                        /\ wire' = ComposeAs(byzantine, t, p, z, e)
  <2>1. PICK w : w = wire'
    OBVIOUS
  <2>2. w = ComposeAs(byzantine, ELCT, 5000, 0, <<>>)
    <3>1. wire' = ComposeAs(byzantine, ELCT, 5000, 0, <<>>)
      BY DEF FalseElection, Send, Origin
    <3> QED
      BY <2>1, <3>1
  <2>3. \E t, p, z, e : /\ t = ELCT /\ p = 5000 /\ z = 0 /\ e = <<>>
                        /\ w = ComposeAs(byzantine, t, p, z, e)
    BY <2>2, SMT
  <2> QED
    BY <2>1, <2>3
<1>2. /\ at = "prompt" /\ at' = "master" /\ doc' = doc /\ fate' = fate
      /\ origin'.kind = "false election" /\ route'.byzantine = byzantine
  BY DEF FalseElection, Send, Origin
<1>3. PICK m : m = FalseRequest(byzantine)
  OBVIOUS
<1>4. Untouched /\ Untouched'
  BY <1>2 DEF Inv, AtPrompt, Untouched
<1>5. wire' = Marshal(m) /\ m \in MessageOf(Int)
  <2>1. IsComposed(m, byzantine, t, p, z, e)
    <3>1. IsComposed(FalseRequest(byzantine), byzantine, ELCT, 5000, 0, <<>>)
      BY FalseRequestIsRead
    <3> QED
      BY <1>1, <1>3, <3>1
  <2>2. ComposeAs(byzantine, t, p, z, e) = Marshal(m) /\ m \in MessageOf(Nat)
    BY <2>1 DEF IsComposed
  <2> QED
    BY <1>1, <2>2, MessagesOfNaturals
<1>6. AtMaster'
  <2>1. wire' = Marshal(FalseRequest(route'.byzantine))
    <3>1. wire' = Marshal(FalseRequest(byzantine))
      BY <1>5, <1>3
    <3>2. route'.byzantine = byzantine
      BY <1>2
    <3> QED
      BY <3>1, <3>2
  <2>2. origin'.kind = "false election" /\ route'.byzantine \in PeerPorts
    BY <1>2
  <2> QED
    BY <1>4, <2>1, <2>2 DEF AtMaster
<1>7. Shaped'
  BY <1>5 DEF Shaped
<1>8. AtRelay' /\ AtFollower' /\ AtElectorate'
  BY <1>2 DEF AtRelay, AtFollower, AtElectorate
<1> QED
  BY <1>2, <1>4, <1>6, <1>7, <1>8, OnTheWay

\* Votes and records of votes are texts of naturals.
LEMMA VotesAreNat ==
    ASSUME NEW v, v.port \in Nat, v.term \in Nat
    PROVE  SignVote(v) \in Seq(Nat) /\ ComposeVote(v) \in Seq(Nat)
<1>1. PICK a, n, k, c, u :
         /\ a = (IF v.yes THEN YesWeCan ELSE NoCando) /\ n = Numeral[v.port]
         /\ k = Numeral[v.term] /\ c = Percent /\ u = UnsignedVote(v)
  OBVIOUS
<1>2. a \in Nat /\ c \in Nat
  BY <1>1 DEF YesWeCan, NoCando, Percent
<1>3. n \in Seq(Nat) /\ k \in Seq(Nat)
  BY <1>1, NumeralIsNat
<1>4. <<a, c>> \in Seq(Nat) /\ <<c>> \in Seq(Nat)
  BY <1>2
<1>5. u = <<a, c>> \o n \o <<c>> \o k \o <<c>>
  BY <1>1 DEF UnsignedVote
<1>6. u \in Seq(Nat)
  BY <1>3, <1>4, <1>5, ConcatProperties
<1>7. PICK p, s : p = v.port /\ s = Sign(u, p)
  OBVIOUS
<1>8. s \in Seq(Nat)
  <2>1. StringSum(u) \in Nat
    BY <1>6, SumNat
  <2>2. PICK i : i = StringSum(u) + 100 * p
    OBVIOUS
  <2>3. i \in Nat
    BY <1>7, <2>1, <2>2
  <2>4. s = Numeral[i]
    BY <1>7, <2>2 DEF Sign, SecretKey
  <2> QED
    BY <2>3, <2>4, NumeralIsNat
<1>9. SignVote(v) = u \o s /\ ComposeVote(v) = u \o s \o <<c>>
  BY <1>1, <1>7 DEF SignVote, ComposeVote
<1> QED
  BY <1>4, <1>6, <1>8, <1>9, ConcatProperties

LEMMA RecordIsNat ==
    ASSUME NEW leader \in PeerPorts, NEW voters, NEW term, term \in 1 .. 2
    PROVE  ComposeVoteRecord(leader, voters, term) \in Seq(Nat)
<1>1. term \in Nat /\ term - 1 \in Nat
  OBVIOUS
<1>2. <<Colon>> \in Seq(Nat) /\ <<>> \in Seq(Nat)
  BY SeparatorsAreNat, EmptySeq
<1> DEFINE entry(p) ==
        IF p \in voters THEN Vote(p, leader, term) \o <<Colon>> ELSE <<>>
<1>3. ASSUME NEW p, p \in Nat
      PROVE  entry(p) \in Seq(Nat)
  <2>1. PICK v, w : v = Yes(p, term) /\ w = Yes(p, term - 1)
    OBVIOUS
  <2>2. v.port \in Nat /\ v.term \in Nat /\ w.port \in Nat /\ w.term \in Nat
    BY <1>1, <1>3, <2>1 DEF Yes
  <2>3. SignVote(v) \in Seq(Nat) /\ ComposeVote(w) \in Seq(Nat)
    BY <2>2, VotesAreNat
  <2>4. Vote(p, leader, term) \in Seq(Nat)
    BY <2>1, <2>3 DEF Vote
  <2> QED
    BY <1>2, <2>4, ConcatProperties
<1>4. PICK a, b, c, d, e : /\ a = entry(4000) /\ b = entry(4001) /\ c = entry(4002)
                           /\ d = entry(4003) /\ e = entry(4004)
  <2> HIDE DEF entry
  <2> QED
    OBVIOUS
<1>5. /\ a \in Seq(Nat) /\ b \in Seq(Nat) /\ c \in Seq(Nat) /\ d \in Seq(Nat)
      /\ e \in Seq(Nat)
  <2> HIDE DEF entry
  <2> QED
    BY <1>3, <1>4
<1>6. ComposeVoteRecord(leader, voters, term) = a \o b \o c \o d \o e
  BY <1>4 DEF ComposeVoteRecord
<1> QED
  BY <1>5, <1>6, ConcatProperties

LEMMA AnnounceKeeps ==
    ASSUME Inv, NEW leader \in PeerPorts, NEW voters \in SUBSET PeerPorts,
           Announce(leader, voters)
    PROVE  Inv'
<1>1. PICK term, record :
         /\ term \in 1 .. 2 /\ record = ComposeVoteRecord(leader, voters, term)
         /\ Send(Compose(MSTR, leader, term, record), "electorate")
  BY DEF Announce
<1>2. /\ at = "prompt" /\ at' = "electorate" /\ doc' = doc /\ fate' = fate
      /\ origin'.kind = "announcement" /\ wire' = Compose(MSTR, leader, term, record)
  BY <1>1 DEF Announce, Send, Origin
<1>3. Untouched /\ Untouched'
  BY <1>2 DEF Inv, AtPrompt, Untouched
<1>4. PICK t, m : t = MSTR /\ m = Composed(leader, t, leader, term, record)
  OBVIOUS
<1>5. t \in Nat /\ term \in Nat /\ leader \in Nat /\ record \in Seq(Nat)
  BY <1>1, <1>4, RecordIsNat DEF MSTR, PeerPorts
<1>6. IsComposed(m, leader, t, leader, term, record)
  BY <1>4, <1>5, ComposedProperties
<1>7. wire' = Marshal(m) /\ m \in MessageOf(Int)
  BY <1>2, <1>4, <1>6, MessagesOfNaturals DEF IsComposed, Compose
<1>8. Shaped'
  BY <1>7 DEF Shaped
<1>9. AtElectorate'
  BY <1>2, <1>3 DEF AtElectorate
<1>10. AtRelay' /\ AtMaster' /\ AtFollower'
  BY <1>2 DEF AtRelay, AtMaster, AtFollower
<1> QED
  BY <1>2, <1>3, <1>8, <1>9, <1>10, OnTheWay

LEMMA StutterKeeps == ASSUME Inv, UNCHANGED vars PROVE Inv'
<1>1. /\ at' = at /\ wire' = wire /\ origin' = origin /\ route' = route /\ doc' = doc
      /\ fate' = fate
  BY DEF vars
<1>2. Types' /\ Shaped' /\ (at' # "done" => fate' = "none")
  BY <1>1 DEF Inv, Types, Shaped
<1>3. AtPrompt' /\ AtRelay' /\ AtElectorate'
  BY <1>1 DEF Inv, AtPrompt, AtRelay, AtElectorate, Untouched
<1>4. AtMaster'
  <2>1. (AlteredType' <=> AlteredType) /\ (AlteredBody' <=> AlteredBody)
        /\ Sent' = Sent
    BY <1>1 DEF AlteredType, AlteredBody, Sent
  <2> QED
    BY <1>1, <2>1 DEF Inv, AtMaster, Untouched
<1>5. Disguised' <=> Disguised
  BY <1>1 DEF Disguised
<1>6. AtFollower'
  <2>1. ASSUME NEW data PROVE Done(data)' <=> Done(data)
    BY <1>1, <1>5 DEF Done
  <2> QED
    BY <1>1, <2>1 DEF Inv, AtFollower, Untouched
<1>7. OnlyTypedText' /\ NoDeletionUnasked'
  BY <1>1, <1>5 DEF Inv, OnlyTypedText, NoDeletionUnasked
<1>8. FalseElectionFails' /\ PlainTextArrives' /\ Overran'
  BY <1>1 DEF Inv, FalseElectionFails, PlainTextArrives, Wanted, Overran
<1> QED
  BY <1>2, <1>3, <1>4, <1>6, <1>7, <1>8 DEF Inv

\* Every step keeps the invariant.
LEMMA NextInv == Inv /\ [Next]_vars => Inv'
<1> SUFFICES ASSUME Inv, [Next]_vars PROVE Inv'
  OBVIOUS
<1>1. CASE UNCHANGED vars
  BY <1>1, StutterKeeps
<1>2. ASSUME NEW client \in ClientPorts, NEW first \in PeerPorts, NEW master \in PeerPorts,
             \/ SendCommand(client, first, master, 0)
             \/ first # master /\ SendCommand(client, first, master, first)
      PROVE  Inv'
  BY <1>2, SendCommandKeeps
<1>3. CASE IgnoreEmpty \/ Overrun \/ EndOnMessage \/ IgnoreUnverified
  BY <1>3, IgnoreEmptyKeeps, OverrunKeeps, EndOnMessageKeeps, IgnoreUnverifiedKeeps
<1>4. CASE Relay \/ RelayAltered
  BY <1>4, RelayKeeps, RelayAlteredKeeps
<1>5. CASE EndOnEdit \/ RejectEdit \/ ApplyEdit \/ ObeyElection
  BY <1>5, EndOnEditKeeps, RejectEditKeeps, ApplyEditKeeps, ObeyElectionKeeps
<1>6. CASE EndOnEvent \/ IgnoreEvent \/ ApplyEvent
  BY <1>6, EndOnEventKeeps, IgnoreEventKeeps, ApplyEventKeeps
<1>7. ASSUME NEW byzantine \in PeerPorts, NEW master \in PeerPorts,
             FalseDelete(byzantine, master) \/ FalseElection(byzantine, master)
      PROVE  Inv'
  BY <1>7, FalseDeleteKeeps, FalseElectionKeeps
<1>8. ASSUME NEW leader \in PeerPorts, NEW voters \in SUBSET PeerPorts,
             Announce(leader, voters)
      PROVE  Inv'
  BY <1>8, AnnounceKeeps
<1>9. CASE CountVotes
  BY <1>9, CountVotesKeeps
<1> QED
  BY <1>1, <1>2, <1>3, <1>4, <1>5, <1>6, <1>7, <1>8, <1>9 DEF Next

\* The invariant is what the theorems below rest on.
THEOREM Invariance == Spec => []Inv
<1> QED
  BY InitInv, NextInv, PTL DEF Spec

\* A text that is sent has all the separators that the loops of unmarshal_message
\* look for, whatever a user, a client or a Byzantine peer has put into it, and a
\* receiver whose loops run on behind what it has read has been sent a text that is
\* longer than its buffer.
THEOREM TypeCorrect == Spec => []TypeOK
<1>1. Inv => TypeOK
  <2> SUFFICES ASSUME Inv PROVE TypeOK
    OBVIOUS
  <2>1. wire = <<>> \/ \E m \in MessageOf(Int) : wire = Marshal(m)
    BY DEF Inv, Shaped
  <2>2. CASE wire = <<>>
    <3>1. wire \in Seq(Int)
      BY <2>2, EmptySeq
    <3> QED
      BY <2>2, <3>1 DEF TypeOK, Inv, Types, Overran
  <2>3. ASSUME NEW m \in MessageOf(Int), wire = Marshal(m) PROVE TypeOK
    <3>1. Marshal(m) \in Seq(Int) /\ WellFormed(Marshal(m))
      <4>1. Nat \subseteq Int
        OBVIOUS
      <4> QED
        BY <4>1, MarshalInFields, MarshalWellFormed
    <3> QED
      BY <2>3, <3>1 DEF TypeOK, Inv, Types, Overran
  <2> QED
    BY <2>1, <2>2, <2>3
<1> QED
  BY <1>1, Invariance, PTL

\* A text that holds neither ":" nor "$" and that the client sends arrives at master
\* and follower as the user typed it, or is rejected by the master for deleting too
\* much, unless the request or its event is longer than the buffer of a receiver, in
\* which case the theorem says nothing of what the receiver makes of it.
THEOREM PlainTextIsDelivered == Spec => []PlainTextArrives
<1>1. Inv => PlainTextArrives
  BY DEF Inv
<1> QED
  BY <1>1, Invariance, PTL

\* Whatever was typed and whatever a Byzantine peer has done to it, up to a message
\* that is too long for its receiver, a document only grows by a beginning of what
\* was typed, or by the vandal's text in its place when that has the same sum modulo
\* the port of the client.
THEOREM DocumentsHoldTypedText == Spec => []OnlyTypedText
<1>1. Inv => OnlyTypedText
  BY DEF Inv
<1> QED
  BY <1>1, Invariance, PTL

\* No replica deletes anything that a client has not asked to delete.
THEOREM DeletionsAreAsked == Spec => []NoDeletionUnasked
<1>1. Inv => NoDeletionUnasked
  BY DEF Inv
<1> QED
  BY <1>1, Invariance, PTL

\* A request for an election that a peer signs in a client's name is obeyed only
\* when the peer is the one at port 4000.
THEOREM FalseElectionsFail == Spec => []FalseElectionFails
<1>1. Inv => FalseElectionFails
  BY DEF Inv
<1> QED
  BY <1>1, Invariance, PTL

=============================================================================
