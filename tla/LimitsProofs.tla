--------------------------------- MODULE LimitsProofs --------------------------------
(***************************************************************************)
(* Proofs about the limits on who connects and how much is read: Admission *)
(* (that the sliding windows of security.go admit no more than they should *)
(* and that a block lasts, where two requests were not inside the same     *)
(* method at once) and TokenBucket (that it implements LeakyBucket).       *)
(*                                                                         *)
(* The argument for Admission relates what is stored to the history of who *)
(* passed: the two end alike, up to what is as old as the last overlap.    *)
(* A handler inside a method has read what agrees as far.  Once the last   *)
(* overlap is a Window ago, all that passed within Window is stored.       *)
(***************************************************************************)
EXTENDS Admission, TokenBucket, SequenceTheorems, WellFoundedInduction, TLAPS

--------------------------------------------------------------------------------
(* Admission: sequences of timestamps *)

\* Of the indices that satisfy something there is a least one.
LEMMA LeastIndex ==
  ASSUME NEW I \in SUBSET Nat, I # {}
  PROVE  \E m \in I : \A k \in I : m <= k
<1> DEFINE LessThan == {ss \in Nat \X Nat : ss[1] < ss[2]}
<1>0. IsWellFoundedOn(LessThan, Nat)
  BY NatLessThanWellFounded DEF OpToRel
<1>1. PICK m \in I : \A k \in I : ~(<<k, m>> \in LessThan)
  <2> HIDE DEF LessThan
  <2> QED BY <1>0, WFMin, Zenon
<1>2. \A k \in I : m <= k
  <2> SUFFICES ASSUME NEW k \in I, ~(m <= k) PROVE FALSE
    OBVIOUS
  <2>1. k \in Nat /\ m \in Nat /\ k < m
    BY SMT
  <2>2. <<k, m>> \in LessThan
    BY <2>1
  <2> HIDE DEF LessThan
  <2> QED
    BY <1>1, <2>2, Zenon
<1> QED
  BY <1>2

LEMMA AgesAreNat ==
  ASSUME NEW s \in Seq(Ages)
  PROVE  /\ Len(s) \in Nat
         /\ \A i \in 1 .. Len(s) : s[i] \in Nat /\ s[i] \in 0 .. Window
<1>1. ASSUME NEW i \in 1 .. Len(s) PROVE s[i] \in 0 .. Window
  <2>1. s[i] \in Ages
    OBVIOUS
  <2> QED
    BY <2>1 DEF Ages
<1>2. \A a \in 0 .. Window : a \in Nat
  OBVIOUS
<1> QED
  BY <1>1, <1>2

\* The filter leaves out the first p timestamps, none of which is valid.
LEMMA ValidIs ==
  ASSUME NEW s \in Seq(Ages)
  PROVE  \E p \in 0 .. Len(s) :
           /\ \A i \in 1 .. p : s[i] >= Window
           /\ Valid(s) \in Seq(Ages) /\ Len(Valid(s)) = Len(s) - p
           /\ \A i \in 1 .. Len(s) - p : Valid(s)[i] = s[p + i]
           /\ Valid(s) # <<>> => Valid(s)[1] < Window
<1> DEFINE Cut(n) == n = Len(s) \/ s[n + 1] < Window
           Drop(n) == (\A i \in 1 .. n : s[i] >= Window) /\ Cut(n)
<1>1. Len(s) \in Nat /\ \A i \in 1 .. Len(s) : s[i] \in Nat
  BY AgesAreNat
<1>2. \E n \in 0 .. Len(s) : Drop(n)
  <2> DEFINE I == {n \in 0 .. Len(s) : Cut(n)}
  <2>1. I \in SUBSET Nat /\ Len(s) \in I
    BY <1>1
  <2>2. PICK n \in I : \A k \in I : n <= k
    <3> HIDE DEF I
    <3> QED
      BY <2>1, LeastIndex
  <2>3. n \in 0 .. Len(s) /\ Cut(n)
    BY <2>2
  <2>4. ASSUME NEW i \in 1 .. n PROVE s[i] >= Window
    <3>1. i - 1 \in 0 .. Len(s) /\ ~(n <= i - 1) /\ (i - 1) + 1 = i /\ i \in 1 .. Len(s)
      <4> HIDE DEF I, Cut
      <4> QED
        BY <1>1, <2>3
    <3>2. i - 1 \notin I
      <4> HIDE DEF I
      <4> QED
        BY <2>2, <3>1
    <3>3. ~(s[i] < Window)
      BY <3>1, <3>2
    <3> QED
      BY <1>1, <3>1, <3>3, AdmissionAssumption
  <2> QED
    BY <2>3, <2>4
<1> DEFINE p == CHOOSE n \in 0 .. Len(s) : Drop(n)
<1>3. p \in 0 .. Len(s) /\ Drop(p)
  <2> HIDE DEF Drop
  <2> QED
    BY <1>2
<1>4. Valid(s) = SubSeq(s, p + 1, Len(s))
  BY DEF Valid
<1> HIDE DEF p
<1>5. /\ SubSeq(s, p + 1, Len(s)) \in Seq(Ages)
      /\ Len(SubSeq(s, p + 1, Len(s))) = Len(s) - p
      /\ \A i \in 1 .. Len(s) - p : SubSeq(s, p + 1, Len(s))[i] = s[p + i]
  <2>1. p + 1 \in Nat /\ p + 1 <= Len(s) + 1 /\ p \in Nat
    BY <1>1, <1>3
  <2> QED
    BY <1>1, <2>1
<1>6. ASSUME Valid(s) # <<>> PROVE Valid(s)[1] < Window
  <2>1. Len(s) - p \in Nat /\ Len(s) - p # 0
    BY <1>1, <1>3, <1>4, <1>5, <1>6
  <2>2. 1 \in 1 .. Len(s) - p /\ p # Len(s)
    BY <2>1
  <2> QED
    BY <1>3, <1>4, <1>5, <2>2
<1> QED
  BY <1>3, <1>4, <1>5, <1>6

\* Two sequences end alike, and what one has before that is not younger than b.
Agree(s, t, b) ==
  \E n \in 0 .. Len(s) :
    /\ n <= Len(t)
    /\ \A i \in 1 .. n : s[Len(s) - n + i] = t[Len(t) - n + i]
    /\ \A i \in 1 .. Len(s) - n : s[i] >= b
    /\ \A i \in 1 .. Len(t) - n : t[i] >= b

Aged(s) == [i \in 1 .. Len(s) |-> Older(Window, s[i])]

LEMMA AgreeSymmetric ==
  ASSUME NEW s \in Seq(Ages), NEW t \in Seq(Ages), NEW b \in Nat, Agree(s, t, b)
  PROVE  Agree(t, s, b)
<1>1. Len(s) \in Nat /\ Len(t) \in Nat
  OBVIOUS
<1>2. PICK n \in 0 .. Len(s) :
        /\ n <= Len(t)
        /\ \A i \in 1 .. n : s[Len(s) - n + i] = t[Len(t) - n + i]
        /\ \A i \in 1 .. Len(s) - n : s[i] >= b
        /\ \A i \in 1 .. Len(t) - n : t[i] >= b
  BY DEF Agree
<1>3. n \in 0 .. Len(t) /\ n <= Len(s)
  BY <1>1, <1>2
<1> QED
  BY <1>2, <1>3, Zenon DEF Agree

\* Nothing is younger than 0.
LEMMA AgreeOnNothing ==
  ASSUME NEW s \in Seq(Ages), NEW t \in Seq(Ages)
  PROVE  Agree(s, t, 0)
<1>1. /\ Len(s) \in Nat /\ \A i \in 1 .. Len(s) : s[i] >= 0
      /\ Len(t) \in Nat /\ \A i \in 1 .. Len(t) : t[i] >= 0
  BY AgesAreNat
<1>2. 1 .. 0 = {} /\ 0 \in 0 .. Len(s) /\ 0 <= Len(t) /\ Len(s) - 0 = Len(s) /\ Len(t) - 0 = Len(t)
  BY <1>1
<1> QED
  BY <1>1, <1>2 DEF Agree

LEMMA AgreeOnLess ==
  ASSUME NEW s \in Seq(Ages), NEW t \in Seq(Ages), NEW b \in Nat, NEW c \in Nat,
         c <= b, Agree(s, t, b)
  PROVE  Agree(s, t, c)
<1>1. /\ Len(s) \in Nat /\ \A i \in 1 .. Len(s) : s[i] \in Nat
      /\ Len(t) \in Nat /\ \A i \in 1 .. Len(t) : t[i] \in Nat
  BY AgesAreNat
<1>2. PICK n \in 0 .. Len(s) :
        /\ n <= Len(t)
        /\ \A i \in 1 .. n : s[Len(s) - n + i] = t[Len(t) - n + i]
        /\ \A i \in 1 .. Len(s) - n : s[i] >= b
        /\ \A i \in 1 .. Len(t) - n : t[i] >= b
  BY DEF Agree
<1>3. ASSUME NEW i \in 1 .. Len(s) - n PROVE s[i] >= c
  <2>1. i \in 1 .. Len(s)
    BY <1>1, <1>2
  <2> QED
    BY <1>1, <1>2, <2>1
<1>4. ASSUME NEW i \in 1 .. Len(t) - n PROVE t[i] >= c
  <2>1. i \in 1 .. Len(t)
    BY <1>1, <1>2
  <2> QED
    BY <1>1, <1>2, <2>1
<1> QED
  BY <1>2, <1>3, <1>4 DEF Agree

\* The filter drops nothing younger than b.
LEMMA AgreeValid ==
  ASSUME NEW s \in Seq(Ages), NEW t \in Seq(Ages), NEW b \in 0 .. Window, Agree(s, t, b)
  PROVE  Agree(Valid(s), t, b)
<1>1. /\ Len(s) \in Nat /\ Len(t) \in Nat /\ Window \in Nat
      /\ \A i \in 1 .. Len(s) : s[i] \in Nat
  BY AgesAreNat, AdmissionAssumption
<1>2. PICK n \in 0 .. Len(s) :
        /\ n <= Len(t)
        /\ \A i \in 1 .. n : s[Len(s) - n + i] = t[Len(t) - n + i]
        /\ \A i \in 1 .. Len(s) - n : s[i] >= b
        /\ \A i \in 1 .. Len(t) - n : t[i] >= b
  BY DEF Agree
<1>3. PICK p \in 0 .. Len(s) :
        /\ \A i \in 1 .. p : s[i] >= Window
        /\ Valid(s) \in Seq(Ages) /\ Len(Valid(s)) = Len(s) - p
        /\ \A i \in 1 .. Len(s) - p : Valid(s)[i] = s[p + i]
  BY ValidIs
<1> DEFINE v == Valid(s)
<1> HIDE DEF v
<1>4. v = Valid(s)
  BY DEF v
<1>5. CASE p <= Len(s) - n
  <2>1. n \in 0 .. Len(v) /\ n <= Len(t)
    BY <1>1, <1>2, <1>3, <1>4, <1>5
  <2>2. ASSUME NEW i \in 1 .. n PROVE v[Len(v) - n + i] = t[Len(t) - n + i]
    <3> DEFINE l == Len(v)
    <3>0. l = Len(s) - p
      BY <1>3, <1>4
    <3> HIDE DEF l
    <3>1. l - n + i \in 1 .. Len(s) - p /\ p + (l - n + i) = Len(s) - n + i
      BY <1>1, <1>2, <1>5, <3>0
    <3> USE DEF l
    <3> QED
      BY <1>2, <1>3, <1>4, <3>1
  <2>3. ASSUME NEW i \in 1 .. Len(v) - n PROVE v[i] >= b
    <3>1. i \in 1 .. Len(s) - p /\ p + i \in 1 .. Len(s) - n
      BY <1>1, <1>2, <1>3, <1>4, <1>5
    <3> QED
      BY <1>2, <1>3, <1>4, <3>1
  <2> QED
    BY <1>2, <1>4, <2>1, <2>2, <2>3 DEF Agree
<1>6. CASE p > Len(s) - n
  <2> DEFINE k == Len(s) - p
  <2>1. k \in 0 .. Len(v) /\ k <= Len(t) /\ k < n /\ Len(v) = k
    BY <1>1, <1>2, <1>3, <1>4, <1>6
  <2>2. ASSUME NEW i \in 1 .. k PROVE v[Len(v) - k + i] = t[Len(t) - k + i]
    <3>1. /\ Len(v) - k + i = i /\ i \in 1 .. Len(s) - p
          /\ (n - k) + i \in 1 .. n
          /\ Len(s) - n + ((n - k) + i) = p + i /\ Len(t) - n + ((n - k) + i) = Len(t) - k + i
      BY <1>1, <1>2, <1>3, <2>1
    <3> QED
      BY <1>2, <1>3, <1>4, <3>1
  <2>3. ASSUME NEW i \in 1 .. Len(t) - k PROVE t[i] >= b
    <3>1. CASE i \in 1 .. Len(t) - n
      BY <1>2, <3>1
    <3>2. CASE i \notin 1 .. Len(t) - n
      <4> DEFINE j == i - (Len(t) - n)
      <4>1. /\ j \in 1 .. n /\ Len(t) - n + j = i /\ Len(s) - n + j \in 1 .. p
        BY <1>1, <1>2, <2>1, <3>2
      <4>2. t[i] = s[Len(s) - n + j] /\ s[Len(s) - n + j] >= Window
        BY <1>2, <1>3, <4>1
      <4>3. s[Len(s) - n + j] \in Nat
        <5>1. Len(s) - n + j \in 1 .. Len(s)
          BY <1>1, <1>2, <4>1
        <5> QED
          BY <1>1, <5>1
      <4> QED
        BY <1>1, <4>2, <4>3
    <3> QED
      BY <3>1, <3>2
  <2>4. 1 .. Len(v) - k = {}
    BY <2>1
  <2> QED
    BY <1>4, <2>1, <2>2, <2>3, <2>4 DEF Agree
<1> QED
  BY <1>1, <1>2, <1>3, <1>5, <1>6

LEMMA AgreeAppend ==
  ASSUME NEW s \in Seq(Ages), NEW t \in Seq(Ages), NEW a \in Ages, NEW b \in Nat,
         Agree(s, t, b)
  PROVE  Agree(Append(s, a), Append(t, a), b)
<1> DEFINE u == Append(s, a)
           v == Append(t, a)
<1>1. Len(s) \in Nat /\ Len(t) \in Nat
  OBVIOUS
<1>2. PICK n \in 0 .. Len(s) :
        /\ n <= Len(t)
        /\ \A i \in 1 .. n : s[Len(s) - n + i] = t[Len(t) - n + i]
        /\ \A i \in 1 .. Len(s) - n : s[i] >= b
        /\ \A i \in 1 .. Len(t) - n : t[i] >= b
  BY DEF Agree
<1>3. /\ Len(u) = Len(s) + 1 /\ Len(v) = Len(t) + 1
      /\ u[Len(s) + 1] = a /\ v[Len(t) + 1] = a
      /\ \A i \in 1 .. Len(s) : u[i] = s[i]
      /\ \A i \in 1 .. Len(t) : v[i] = t[i]
  OBVIOUS
<1> HIDE DEF u, v
<1>4. ASSUME NEW i \in 1 .. n + 1
      PROVE  u[Len(u) - (n + 1) + i] = v[Len(v) - (n + 1) + i]
  <2>1. Len(u) - (n + 1) + i = Len(s) - n + i /\ Len(v) - (n + 1) + i = Len(t) - n + i
    BY <1>1, <1>2, <1>3
  <2>2. CASE i = n + 1
    BY <1>1, <1>2, <1>3, <2>1, <2>2
  <2>3. CASE i \in 1 .. n
    <3>1. Len(s) - n + i \in 1 .. Len(s) /\ Len(t) - n + i \in 1 .. Len(t)
      BY <1>1, <1>2, <2>3
    <3> QED
      BY <1>2, <1>3, <2>1, <2>3, <3>1
  <2> QED
    BY <1>2, <2>2, <2>3
<1>5. ASSUME NEW i \in 1 .. Len(u) - (n + 1) PROVE u[i] >= b
  <2>1. i \in 1 .. Len(s) - n /\ i \in 1 .. Len(s)
    BY <1>1, <1>2, <1>3
  <2> QED
    BY <1>2, <1>3, <2>1
<1>6. ASSUME NEW i \in 1 .. Len(v) - (n + 1) PROVE v[i] >= b
  <2>1. i \in 1 .. Len(t) - n /\ i \in 1 .. Len(t)
    BY <1>1, <1>2, <1>3
  <2> QED
    BY <1>2, <1>3, <2>1
<1>7. n + 1 \in 0 .. Len(u) /\ n + 1 <= Len(v)
  BY <1>1, <1>2, <1>3
<1>8. Agree(u, v, b)
  BY <1>4, <1>5, <1>6, <1>7 DEF Agree
<1> QED
  BY <1>8 DEF u, v

LEMMA AgedIs ==
  ASSUME NEW s \in Seq(Ages)
  PROVE  /\ Aged(s) \in Seq(Ages) /\ Len(Aged(s)) = Len(s)
         /\ \A i \in 1 .. Len(s) :
              /\ Aged(s)[i] = Older(Window, s[i])
              /\ s[i] \in 0 .. Window /\ Older(Window, s[i]) \in 0 .. Window
<1>1. \A i \in 1 .. Len(s) : s[i] \in 0 .. Window
  BY AgesAreNat
<1>2. \A a \in 0 .. Window : Older(Window, a) \in 0 .. Window
  BY AdmissionAssumption DEF Older
<1>3. Aged(s) \in [1 .. Len(s) -> Ages]
  BY <1>1, <1>2 DEF Aged, Ages
<1>4. Len(s) \in Nat
  OBVIOUS
<1>5. Aged(s) \in Seq(Ages) /\ Len(Aged(s)) = Len(s)
  BY <1>3, <1>4
<1> QED
  BY <1>1, <1>2, <1>5 DEF Aged

LEMMA AgreeAged ==
  ASSUME NEW s \in Seq(Ages), NEW t \in Seq(Ages), NEW b \in 0 .. Window,
         NEW c \in 0 .. Window, c <= b + 1, Agree(s, t, b)
  PROVE  Agree(Aged(s), Aged(t), c)
<1>1. Len(s) \in Nat /\ Len(t) \in Nat /\ Window \in Nat
  BY AdmissionAssumption
<1>2. PICK n \in 0 .. Len(s) :
        /\ n <= Len(t)
        /\ \A i \in 1 .. n : s[Len(s) - n + i] = t[Len(t) - n + i]
        /\ \A i \in 1 .. Len(s) - n : s[i] >= b
        /\ \A i \in 1 .. Len(t) - n : t[i] >= b
  BY DEF Agree
<1>3. \A a \in 0 .. Window : a >= b => Older(Window, a) >= c
  BY <1>1 DEF Older
<1>4. /\ Len(Aged(s)) = Len(s) /\ Len(Aged(t)) = Len(t)
      /\ \A i \in 1 .. Len(s) : s[i] \in 0 .. Window /\ Aged(s)[i] = Older(Window, s[i])
      /\ \A i \in 1 .. Len(t) : t[i] \in 0 .. Window /\ Aged(t)[i] = Older(Window, t[i])
  BY AgedIs
<1>5. ASSUME NEW i \in 1 .. n
      PROVE  Aged(s)[Len(s) - n + i] = Aged(t)[Len(t) - n + i]
  <2>1. Len(s) - n + i \in 1 .. Len(s) /\ Len(t) - n + i \in 1 .. Len(t)
    BY <1>1, <1>2
  <2> QED
    BY <1>2, <1>4, <2>1
<1>6. ASSUME NEW i \in 1 .. Len(s) - n PROVE Aged(s)[i] >= c
  <2>1. i \in 1 .. Len(s)
    BY <1>1, <1>2
  <2> QED
    BY <1>2, <1>3, <1>4, <2>1
<1>7. ASSUME NEW i \in 1 .. Len(t) - n PROVE Aged(t)[i] >= c
  <2>1. i \in 1 .. Len(t)
    BY <1>1, <1>2
  <2> QED
    BY <1>2, <1>3, <1>4, <2>1
<1> QED
  BY <1>2, <1>4, <1>5, <1>6, <1>7 DEF Agree

--------------------------------------------------------------------------------
(* What a method has stored, what a handler has read, and who passed *)

\* The oldest first.
InOrder(s) == \A i, j \in 1 .. Len(s) : i <= j => s[i] >= s[j]

\* p: who really passed within Window, s: what is stored, b: the bound below which the two
\* agree.
StoredOK(p, s, limit, b) ==
  /\ Len(s) <= limit
  /\ p # <<>> => p[1] < Window
  /\ Agree(p, s, b)
  /\ InOrder(s)

\* m: what a handler inside the method has read, and its own timestamp.
ReaderOK(p, m, limit, b) ==
  /\ m # <<>> /\ Len(m) - 1 <= limit
  /\ Agree(p, Front(m), b)
  /\ InOrder(m)

\* A block that is younger than what passed is a Window younger, where b bounds what is
\* known.
Later(a, b, g) == a < b /\ a < g => g - a > Window

LEMMA FrontIs ==
  ASSUME NEW m \in Seq(Ages), m # <<>>
  PROVE  /\ Front(m) \in Seq(Ages) /\ Len(m) \in Nat \ {0} /\ Len(Front(m)) = Len(m) - 1
         /\ \A i \in 1 .. Len(m) - 1 : Front(m)[i] = m[i]
         /\ Last(m) = m[Len(m)] /\ Last(m) \in Ages
         /\ m = Append(Front(m), Last(m))
<1>1. Len(m) \in Nat \ {0}
  OBVIOUS
<1>2. /\ Front(m) \in Seq(Ages) /\ Len(Front(m)) = Len(m) - 1
      /\ \A i \in 1 .. Len(m) - 1 : Front(m)[i] = m[i]
  <2>1. /\ SubSeq(m, 1, Len(m) - 1) \in Seq(Ages)
        /\ Len(SubSeq(m, 1, Len(m) - 1)) = Len(m) - 1
        /\ \A i \in 1 .. Len(m) - 1 : SubSeq(m, 1, Len(m) - 1)[i] = m[i]
    <3> DEFINE l == Len(m) - 1
    <3>1. l \in Nat /\ l \in Int /\ 1 \in Int /\ \A i \in 1 .. l : m[i] \in Ages
      BY <1>1
    <3> HIDE DEF l
    <3>2. /\ SubSeq(m, 1, l) \in Seq(Ages)
          /\ Len(SubSeq(m, 1, l)) = IF 1 <= l THEN l - 1 + 1 ELSE 0
          /\ \A i \in 1 .. l - 1 + 1 : SubSeq(m, 1, l)[i] = m[1 + i - 1]
      BY <3>1, SubSeqProperties
    <3>3. /\ l - 1 + 1 = l /\ (IF 1 <= l THEN l - 1 + 1 ELSE 0) = l
          /\ \A i \in 1 .. l : 1 + i - 1 = i
      BY <3>1
    <3>4. /\ SubSeq(m, 1, l) \in Seq(Ages) /\ Len(SubSeq(m, 1, l)) = l
          /\ \A i \in 1 .. l : SubSeq(m, 1, l)[i] = m[i]
      BY <3>2, <3>3
    <3> QED
      BY <3>4 DEF l
  <2> QED
    BY <2>1, Zenon DEF Front
<1>3. Last(m) = m[Len(m)] /\ m[Len(m)] \in Ages
  BY <1>1 DEF Last
<1>4. m = Append(Front(m), Last(m))
  <2> DEFINE u == Append(Front(m), Last(m))
  <2>1. /\ u \in Seq(Ages) /\ Len(u) = Len(m) /\ u[Len(m)] = m[Len(m)]
        /\ \A i \in 1 .. Len(m) - 1 : u[i] = m[i]
    BY <1>1, <1>2, <1>3
  <2> HIDE DEF u
  <2>2. \A i \in 1 .. Len(m) : u[i] = m[i]
    BY <1>1, <2>1
  <2>3. m = u
    BY <2>1, <2>2, SeqEqual
  <2> QED
    BY <2>3 DEF u
<1> QED
  BY <1>1, <1>2, <1>3, <1>4

LEMMA FrontOfAppend ==
  ASSUME NEW s \in Seq(Ages), NEW a \in Ages
  PROVE  /\ Append(s, a) \in Seq(Ages) /\ Append(s, a) # <<>>
         /\ Len(Append(s, a)) = Len(s) + 1
         /\ Front(Append(s, a)) = s /\ Last(Append(s, a)) = a
<1> DEFINE u == Append(s, a)
<1>1. /\ u \in Seq(Ages) /\ u # <<>> /\ Len(u) = Len(s) + 1 /\ u[Len(s) + 1] = a
      /\ \A i \in 1 .. Len(s) : u[i] = s[i]
  OBVIOUS
<1> HIDE DEF u
<1>2. Len(Front(u)) = Len(s) /\ Front(u) \in Seq(Ages) /\ Last(u) = a
  BY <1>1, FrontIs
<1>3. \A i \in 1 .. Len(s) : Front(u)[i] = s[i]
  <2>1. Len(u) - 1 = Len(s)
    BY <1>1
  <2>2. \A i \in 1 .. Len(u) - 1 : Front(u)[i] = u[i]
    BY <1>1, FrontIs
  <2> QED
    BY <1>1, <2>1, <2>2
<1>4. Front(u) = s
  BY <1>2, <1>3, SeqEqual
<1> QED
  BY <1>1, <1>2, <1>4 DEF u

LEMMA ValidNotLonger ==
  ASSUME NEW s \in Seq(Ages)
  PROVE  /\ Valid(s) \in Seq(Ages) /\ Len(Valid(s)) <= Len(s)
         /\ \A i \in 1 .. Len(Valid(s)) : \E j \in 1 .. Len(s) : Valid(s)[i] = s[j]
         /\ Valid(s) # <<>> => Valid(s)[1] < Window
         /\ InOrder(s) => InOrder(Valid(s))
<1>1. PICK p \in 0 .. Len(s) :
        /\ Valid(s) \in Seq(Ages) /\ Len(Valid(s)) = Len(s) - p
        /\ \A i \in 1 .. Len(s) - p : Valid(s)[i] = s[p + i]
        /\ Valid(s) # <<>> => Valid(s)[1] < Window
  BY ValidIs
<1>2. ASSUME NEW i \in 1 .. Len(s) - p PROVE p + i \in 1 .. Len(s)
  OBVIOUS
<1>3. ASSUME InOrder(s), NEW i \in 1 .. Len(s) - p, NEW j \in 1 .. Len(s) - p, i <= j
      PROVE  Valid(s)[i] >= Valid(s)[j]
  <2>1. p + i \in 1 .. Len(s) /\ p + j \in 1 .. Len(s) /\ p + i <= p + j
    BY <1>2, <1>3
  <2>2. s[p + i] >= s[p + j]
    BY <1>3, <2>1 DEF InOrder
  <2> QED
    BY <1>1, <2>2
<1>4. InOrder(s) => InOrder(Valid(s))
  BY <1>1, <1>3 DEF InOrder
<1> QED
  BY <1>1, <1>2, <1>4

\* A handler enters: it reads the valid ones and adds its own.
LEMMA Enters ==
  ASSUME NEW p \in Seq(Ages), NEW s \in Seq(Ages), NEW limit \in Nat, NEW b \in 0 .. Window,
         StoredOK(p, s, limit, b)
  PROVE  ReaderOK(p, Append(Valid(s), 0), limit, b)
<1>1. Valid(s) \in Seq(Ages) /\ Len(Valid(s)) <= Len(s) /\ 0 \in Ages /\ b \in Nat
  BY ValidNotLonger, AdmissionAssumption DEF Ages
<1>2. Agree(p, Valid(s), b)
  <2>1. Agree(s, p, b)
    BY <1>1, AgreeSymmetric DEF StoredOK
  <2>2. Agree(Valid(s), p, b)
    BY <2>1, AgreeValid
  <2> QED
    BY <1>1, <2>2, AgreeSymmetric
<1> DEFINE v == Valid(s)
           m == Append(v, 0)
<1> HIDE DEF v
<1>3. /\ v \in Seq(Ages) /\ Len(v) <= Len(s) /\ Agree(p, v, b) /\ InOrder(v)
  BY <1>1, <1>2, ValidNotLonger DEF v, StoredOK
<1>4. m # <<>> /\ Len(m) = Len(v) + 1 /\ Front(m) = v /\ Last(m) = 0 /\ m \in Seq(Ages)
  BY <1>1, <1>3, FrontOfAppend
<1>5. InOrder(m)
  <2>1. /\ Len(v) \in Nat /\ m[Len(v) + 1] = 0
        /\ \A i \in 1 .. Len(v) : m[i] = v[i] /\ v[i] \in Nat
    BY <1>1, <1>3, AgesAreNat
  <2> HIDE DEF m
  <2>2. ASSUME NEW i \in 1 .. Len(m), NEW j \in 1 .. Len(m), i <= j PROVE m[i] >= m[j]
    <3>1. CASE j \in 1 .. Len(v)
      <4>1. i \in 1 .. Len(v)
        BY <2>2, <3>1
      <4>2. v[i] >= v[j]
        BY <1>3, <2>2, <3>1, <4>1 DEF InOrder
      <4> QED
        BY <2>1, <3>1, <4>1, <4>2
    <3>2. CASE j = Len(v) + 1
      <4>1. i \in 1 .. Len(v) \/ i = Len(v) + 1
        BY <2>1, <2>2, <3>2
      <4> QED
        BY <2>1, <3>2, <4>1
    <3> QED
      BY <1>4, <2>1, <3>1, <3>2
  <2> QED
    BY <2>2 DEF InOrder
<1> HIDE DEF m
<1>6. Len(m) - 1 <= limit
  BY <1>3, <1>4 DEF StoredOK
<1>7. ReaderOK(p, m, limit, b)
  BY <1>3, <1>4, <1>5, <1>6 DEF ReaderOK
<1> QED
  BY <1>7 DEF m, v

\* It is turned away, and stores what it read.
LEMMA TurnedAway ==
  ASSUME NEW p \in Seq(Ages), NEW s \in Seq(Ages), NEW m \in Seq(Ages),
         NEW limit \in Nat, NEW b \in 0 .. Window,
         StoredOK(p, s, limit, b), ReaderOK(p, m, limit, b)
  PROVE  StoredOK(p, Front(m), limit, b)
<1>1. /\ m # <<>> /\ Len(m) \in Nat /\ Len(Front(m)) = Len(m) - 1
      /\ \A i \in 1 .. Len(m) - 1 : Front(m)[i] = m[i] /\ i \in 1 .. Len(m)
  BY FrontIs DEF ReaderOK
<1>2. InOrder(Front(m))
  BY <1>1 DEF InOrder, ReaderOK
<1> QED
  BY <1>1, <1>2 DEF StoredOK, ReaderOK

\* It passes, and stores its own with what it read.
LEMMA Passes ==
  ASSUME NEW p \in Seq(Ages), NEW m \in Seq(Ages), NEW limit \in Nat, NEW b \in 0 .. Window,
         ReaderOK(p, m, limit, b), ~(Len(m) > limit)
  PROVE  /\ Last(m) \in Ages /\ Valid(Append(p, Last(m))) \in Seq(Ages)
         /\ StoredOK(Valid(Append(p, Last(m))), m, limit, b)
<1>1. m # <<>> /\ Agree(p, Front(m), b) /\ b \in Nat
  BY AdmissionAssumption DEF ReaderOK
<1>2. Front(m) \in Seq(Ages) /\ Last(m) \in Ages /\ m = Append(Front(m), Last(m)) /\ Len(m) \in Nat
  BY <1>1, FrontIs
<1>3. PICK a \in Ages : a = Last(m)
  BY <1>2
<1>4. Append(p, a) \in Seq(Ages)
  BY FrontOfAppend
<1>5. Agree(Append(p, a), m, b)
  BY <1>1, <1>2, <1>3, AgreeAppend
<1>6. Agree(Valid(Append(p, a)), m, b)
  BY <1>4, <1>5, AgreeValid
<1> QED
  <2>1. /\ Valid(Append(p, a)) \in Seq(Ages)
        /\ Valid(Append(p, a)) # <<>> => Valid(Append(p, a))[1] < Window
    BY <1>4, ValidNotLonger, Zenon
  <2>2. Len(m) <= limit
    BY <1>2
  <2> QED
    BY <1>2, <1>3, <1>6, <2>1, <2>2, Zenon DEF StoredOK, ReaderOK

\* A smaller bound asks for less.
LEMMA KnownOnLess ==
  ASSUME NEW p \in Seq(Ages), NEW s \in Seq(Ages), NEW m \in Seq(Ages),
         NEW limit \in Nat, NEW b \in 0 .. Window, NEW c \in 0 .. Window, c <= b
  PROVE  /\ StoredOK(p, s, limit, b) => StoredOK(p, s, limit, c)
         /\ ReaderOK(p, m, limit, b) => ReaderOK(p, m, limit, c)
<1>1. b \in Nat /\ c \in Nat
  OBVIOUS
<1>2. StoredOK(p, s, limit, b) => StoredOK(p, s, limit, c)
  BY <1>1, AgreeOnLess DEF StoredOK
<1>3. ASSUME ReaderOK(p, m, limit, b) PROVE ReaderOK(p, m, limit, c)
  <2>1. Front(m) \in Seq(Ages) /\ Agree(p, Front(m), b)
    BY <1>3, FrontIs DEF ReaderOK
  <2>2. Agree(p, Front(m), c)
    BY <1>1, <2>1, AgreeOnLess
  <2> QED
    BY <1>3, <2>2 DEF ReaderOK
<1> QED
  BY <1>2, <1>3

\* Where another was inside as well, the reader knows nothing of who passed.
LEMMA KnowsNothing ==
  ASSUME NEW p \in Seq(Ages), NEW q \in Seq(Ages), NEW m \in Seq(Ages),
         NEW limit \in Nat, NEW b \in 0 .. Window, ReaderOK(p, m, limit, b)
  PROVE  ReaderOK(q, m, limit, 0)
<1>1. Front(m) \in Seq(Ages)
  BY FrontIs DEF ReaderOK
<1>2. Agree(q, Front(m), 0)
  BY <1>1, AgreeOnNothing
<1> QED
  BY <1>2 DEF ReaderOK

LEMMA OrderAges ==
  ASSUME NEW s \in Seq(Ages), InOrder(s)
  PROVE  InOrder(Aged(s))
<1>1. \A x, y \in 0 .. Window : x >= y => Older(Window, x) >= Older(Window, y)
  BY AdmissionAssumption DEF Older
<1>2. /\ Len(Aged(s)) = Len(s)
      /\ \A i \in 1 .. Len(s) : Aged(s)[i] = Older(Window, s[i]) /\ s[i] \in 0 .. Window
  BY AgedIs
<1> QED
  BY <1>1, <1>2 DEF InOrder

LEMMA StoredAges ==
  ASSUME NEW p \in Seq(Ages), NEW s \in Seq(Ages), NEW limit \in Nat, NEW b \in 0 .. Window,
         NEW c \in 0 .. Window, c <= b + 1, StoredOK(p, s, limit, b)
  PROVE  StoredOK(Valid(Aged(p)), Aged(s), limit, c)
<1>1. /\ Aged(p) \in Seq(Ages) /\ Aged(s) \in Seq(Ages) /\ Len(Aged(s)) = Len(s)
  BY AgedIs
<1>2. Agree(Aged(p), Aged(s), c)
  BY AgreeAged DEF StoredOK
<1>3. Agree(Valid(Aged(p)), Aged(s), c)
  BY <1>1, <1>2, AgreeValid
<1> QED
  BY <1>1, <1>3, ValidNotLonger, OrderAges DEF StoredOK

LEMMA ReaderAges ==
  ASSUME NEW p \in Seq(Ages), NEW m \in Seq(Ages), NEW limit \in Nat, NEW b \in 0 .. Window,
         NEW c \in 0 .. Window, c <= b + 1, ReaderOK(p, m, limit, b)
  PROVE  /\ ReaderOK(Valid(Aged(p)), Aged(m), limit, c)
         /\ Last(Aged(m)) = Older(Window, Last(m))
<1>1. /\ m # <<>> /\ Len(m) \in Nat \ {0} /\ Front(m) \in Seq(Ages)
      /\ Len(Front(m)) = Len(m) - 1
      /\ Last(m) = m[Len(m)]
      /\ \A i \in 1 .. Len(m) - 1 : Front(m)[i] = m[i]
  BY FrontIs DEF ReaderOK
<1>2. /\ Aged(p) \in Seq(Ages) /\ Aged(m) \in Seq(Ages) /\ Len(Aged(m)) = Len(m)
      /\ Aged(Front(m)) \in Seq(Ages) /\ Len(Aged(Front(m))) = Len(m) - 1
      /\ \A i \in 1 .. Len(m) : Aged(m)[i] = Older(Window, m[i]) /\ m[i] \in 0 .. Window
      /\ \A i \in 1 .. Len(m) - 1 : Aged(Front(m))[i] = Older(Window, Front(m)[i])
  BY <1>1, AgedIs
<1> DEFINE u == Aged(m)
           f == Aged(Front(m))
<1> HIDE DEF u, f
<1>3. u # <<>> /\ u \in Seq(Ages) /\ Len(u) = Len(m)
  BY <1>1, <1>2 DEF u
<1>4. /\ Front(u) \in Seq(Ages) /\ Len(Front(u)) = Len(m) - 1
      /\ Last(u) = u[Len(m)]
      /\ \A i \in 1 .. Len(m) - 1 : Front(u)[i] = u[i]
  BY <1>3, FrontIs
<1>5. \A i \in 1 .. Len(m) - 1 : i \in 1 .. Len(m)
  BY <1>1
<1>6. Len(m) \in 1 .. Len(m)
  BY <1>1
<1>7. Front(u) = f
  <2>1. \A i \in 1 .. Len(m) - 1 : Front(u)[i] = f[i]
    BY <1>1, <1>2, <1>4, <1>5 DEF u, f
  <2>2. f \in Seq(Ages) /\ Len(f) = Len(m) - 1
    BY <1>2 DEF f
  <2> QED
    BY <1>4, <2>1, <2>2, SeqEqual
<1>8. Last(u) = Older(Window, Last(m))
  BY <1>1, <1>2, <1>4, <1>6 DEF u
<1>9. Agree(Valid(Aged(p)), Front(u), c)
  <2>1. Agree(p, Front(m), b)
    BY DEF ReaderOK
  <2>2. Agree(Aged(p), f, c)
    BY <1>1, <2>1, AgreeAged DEF f
  <2>3. Agree(Valid(Aged(p)), f, c)
    BY <1>2, <2>2, AgreeValid DEF f
  <2> QED
    BY <1>7, <2>3
<1>10. InOrder(u)
  BY OrderAges DEF ReaderOK, u
<1>11. ReaderOK(Valid(Aged(p)), u, limit, c)
  BY <1>3, <1>9, <1>10 DEF ReaderOK
<1> QED
  BY <1>8, <1>11 DEF u

\* What passed and is younger than b, the reader has read: its own is not older.
LEMMA OwnIsYoungest ==
  ASSUME NEW p \in Seq(Ages), NEW m \in Seq(Ages), NEW limit \in Nat, NEW b \in 0 .. Window,
         ReaderOK(p, m, limit, b), NEW i \in 1 .. Len(p), p[i] < b
  PROVE  p[i] >= Last(m)
<1>1. /\ m # <<>> /\ Len(m) \in Nat \ {0} /\ Front(m) \in Seq(Ages)
      /\ Len(Front(m)) = Len(m) - 1
      /\ \A j \in 1 .. Len(m) - 1 : Front(m)[j] = m[j] /\ m[j] >= Last(m)
  <2>1. /\ m # <<>> /\ Len(m) \in Nat \ {0} /\ Front(m) \in Seq(Ages)
        /\ Len(Front(m)) = Len(m) - 1 /\ Last(m) = m[Len(m)]
        /\ \A j \in 1 .. Len(m) - 1 : Front(m)[j] = m[j]
    BY FrontIs DEF ReaderOK
  <2>2. \A j \in 1 .. Len(m) - 1 :
          j \in 1 .. Len(m) /\ Len(m) \in 1 .. Len(m) /\ j <= Len(m)
    BY <2>1
  <2> QED
    BY <2>1, <2>2 DEF InOrder, ReaderOK
<1>2. Len(p) \in Nat /\ p[i] \in Nat /\ b \in Nat
  BY AgesAreNat
<1> DEFINE t == Front(m)
<1> HIDE DEF t
<1>3. PICK n \in 0 .. Len(p) :
        /\ n <= Len(t)
        /\ \A j \in 1 .. n : p[Len(p) - n + j] = t[Len(t) - n + j]
        /\ \A j \in 1 .. Len(p) - n : p[j] >= b
  BY DEF Agree, ReaderOK, t
<1>4. Len(t) = Len(m) - 1
  BY <1>1 DEF t
<1>5. i > Len(p) - n
  BY <1>2, <1>3
<1> DEFINE j == i - (Len(p) - n)
           k == Len(t) - n + j
<1>6. j \in 1 .. n /\ Len(p) - n + j = i /\ k \in 1 .. Len(m) - 1
  BY <1>1, <1>2, <1>3, <1>4, <1>5
<1>7. p[i] = t[k]
  BY <1>3, <1>6
<1> HIDE DEF k
<1> QED
  BY <1>1, <1>6, <1>7 DEF t

LEMMA LaterAges ==
  ASSUME NEW a \in 0 .. Window, NEW b \in 0 .. Window, NEW c \in 0 .. Window, c <= b + 1,
         NEW g \in 0 .. LongAgo, Later(a, b, g)
  PROVE  Later(Older(Window, a), c, Older(LongAgo, g))
BY AdmissionAssumption DEF Later, Older, LongAgo

--------------------------------------------------------------------------------
(* The invariant *)

Places == {"idle", "ip", "auth", "player"}

AdmissionTypes ==
  /\ serving \in [Handlers -> Places]
  /\ mine \in [Handlers -> Seq(Ages)]
  /\ connections \in Seq(Ages) /\ timestamps \in Seq(Ages)
  /\ blocked \in BOOLEAN /\ blockedAge \in 0 .. LongAgo
  /\ passed \in [ip : Seq(Ages), player : Seq(Ages)]
  /\ sinceOverlap \in 0 .. Window + 1

\* What is known of the stored timestamps is known of those that are younger than the last
\* overlap.
Bound == IF sinceOverlap < Window THEN sinceOverlap ELSE Window

OverlapOK == Overlap(serving) => sinceOverlap = 0

StampsOK ==
  /\ StoredOK(passed.ip, connections, Threshold, Bound)
  /\ StoredOK(passed.player, timestamps, Limit, Bound)

ReadersOK ==
  \A h \in Handlers :
    /\ serving[h] = "ip" => ReaderOK(passed.ip, mine[h], Threshold, Bound)
    /\ serving[h] = "player" => ReaderOK(passed.player, mine[h], Limit, Bound)

\* An address that is not blocked has not been for a Window; nobody has passed after the
\* block, nor will a handler inside.
BlockOK ==
  /\ ~blocked => blockedAge > Window
  /\ \A i \in 1 .. Len(passed.ip) : Later(passed.ip[i], Bound, blockedAge)
  /\ \A h \in Handlers : serving[h] = "ip" => Later(Last(mine[h]), Bound, blockedAge)

AdmissionInv == AdmissionTypes /\ OverlapOK /\ StampsOK /\ ReadersOK /\ BlockOK

LEMMA BoundIs ==
  ASSUME AdmissionTypes
  PROVE  Bound \in 0 .. Window
BY AdmissionAssumption DEF AdmissionTypes, Bound

LEMMA LaterOnLess ==
  ASSUME NEW a \in 0 .. Window, NEW b \in 0 .. Window, NEW c \in 0 .. Window, c <= b,
         NEW g \in 0 .. LongAgo, Later(a, b, g)
  PROVE  Later(a, c, g)
BY AdmissionAssumption DEF Later

\* A handler that moves may begin an overlap, and nothing is known of what is as young as
\* one; those that were in the method with it were an overlap.
LEMMA GoesOn ==
  ASSUME AdmissionTypes, OverlapOK, NEW h \in Handlers, NEW to \in Places, Goes(h, to)
  PROVE  /\ serving' \in [Handlers -> Places] /\ sinceOverlap' \in 0 .. Window + 1
         /\ Bound' \in 0 .. Window /\ Bound' <= Bound
         /\ OverlapOK'
         /\ serving'[h] = to /\ \A k \in Handlers : k # h => serving'[k] = serving[k]
         /\ \A k \in Handlers :
              k # h /\ serving[k] = serving[h] /\ serving[h] \in {"ip", "player"} => Bound' = 0
<1>1. /\ serving' \in [Handlers -> Places]
      /\ serving'[h] = to /\ \A k \in Handlers : k # h => serving'[k] = serving[k]
  BY DEF AdmissionTypes, Goes
<1>2. sinceOverlap' = IF Overlap(serving') THEN 0 ELSE sinceOverlap
  BY DEF Goes
<1>3. sinceOverlap' \in 0 .. Window + 1 /\ sinceOverlap' <= sinceOverlap
  BY <1>2, AdmissionAssumption DEF AdmissionTypes
<1>4. OverlapOK'
  BY <1>2 DEF OverlapOK, Overlap
<1>5. Bound' \in 0 .. Window /\ Bound' <= Bound
  BY <1>3, AdmissionAssumption DEF AdmissionTypes, Bound
<1>6. ASSUME NEW k \in Handlers, k # h, serving[k] = serving[h], serving[h] \in {"ip", "player"}
      PROVE  Bound' = 0
  <2>1. Overlap(serving)
    BY <1>6 DEF Overlap
  <2>2. sinceOverlap = 0
    BY <2>1 DEF OverlapOK
  <2>3. sinceOverlap' = 0
    BY <1>3, <2>2
  <2> QED
    BY <2>3, AdmissionAssumption DEF Bound
<1> QED
  BY <1>1, <1>3, <1>4, <1>5, <1>6

\* What is stored, and the handlers that neither move nor are overtaken, are as before.
LEMMA RestIsKept ==
  ASSUME AdmissionInv, Bound' \in 0 .. Window, Bound' <= Bound
  PROVE  /\ StoredOK(passed.ip, connections, Threshold, Bound')
         /\ StoredOK(passed.player, timestamps, Limit, Bound')
         /\ \A k \in Handlers :
              /\ serving[k] = "ip" =>
                   /\ ReaderOK(passed.ip, mine[k], Threshold, Bound')
                   /\ Later(Last(mine[k]), Bound', blockedAge)
              /\ serving[k] = "player" => ReaderOK(passed.player, mine[k], Limit, Bound')
         /\ \A i \in 1 .. Len(passed.ip) : Later(passed.ip[i], Bound', blockedAge)
<1>1. PICK b \in 0 .. Window : b = Bound
  BY BoundIs DEF AdmissionInv
<1>2. PICK c \in 0 .. Window : c = Bound'
  OBVIOUS
<1>3. /\ passed.ip \in Seq(Ages) /\ passed.player \in Seq(Ages) /\ c <= b
      /\ connections \in Seq(Ages) /\ timestamps \in Seq(Ages) /\ blockedAge \in 0 .. LongAgo
      /\ Threshold \in Nat /\ Limit \in Nat
      /\ \A k \in Handlers : mine[k] \in Seq(Ages)
  BY <1>1, <1>2, AdmissionAssumption DEF AdmissionInv, AdmissionTypes
<1>4. /\ StoredOK(passed.ip, connections, Threshold, c)
      /\ StoredOK(passed.player, timestamps, Limit, c)
  BY <1>1, <1>3, KnownOnLess DEF AdmissionInv, StampsOK
<1>5. ASSUME NEW k \in Handlers
      PROVE  /\ serving[k] = "ip" =>
                  /\ ReaderOK(passed.ip, mine[k], Threshold, c)
                  /\ Later(Last(mine[k]), c, blockedAge)
             /\ serving[k] = "player" => ReaderOK(passed.player, mine[k], Limit, c)
  <2>1. CASE serving[k] = "ip"
    <3>1. ReaderOK(passed.ip, mine[k], Threshold, b) /\ Later(Last(mine[k]), b, blockedAge)
      BY <1>1, <2>1 DEF AdmissionInv, ReadersOK, BlockOK
    <3>2. Last(mine[k]) \in 0 .. Window
      BY <1>3, <3>1, FrontIs DEF ReaderOK, Ages
    <3>3. ReaderOK(passed.ip, mine[k], Threshold, c)
      BY <1>3, <3>1, KnownOnLess
    <3>4. Later(Last(mine[k]), c, blockedAge)
      BY <1>3, <3>1, <3>2, LaterOnLess
    <3> QED
      BY <2>1, <3>3, <3>4
  <2>2. CASE serving[k] = "player"
    <3>1. ReaderOK(passed.player, mine[k], Limit, b)
      BY <1>1, <2>2 DEF AdmissionInv, ReadersOK
    <3>2. ReaderOK(passed.player, mine[k], Limit, c)
      BY <1>3, <3>1, KnownOnLess
    <3> QED
      BY <2>2, <3>2
  <2> QED
    BY <2>1, <2>2
<1>6. ASSUME NEW i \in 1 .. Len(passed.ip) PROVE Later(passed.ip[i], c, blockedAge)
  <2>1. passed.ip[i] \in 0 .. Window
    BY <1>3, AgesAreNat
  <2>2. Later(passed.ip[i], b, blockedAge)
    BY <1>1 DEF AdmissionInv, BlockOK
  <2> QED
    BY <1>3, <2>1, <2>2, LaterOnLess
<1> QED
  BY <1>2, <1>4, <1>5, <1>6

--------------------------------------------------------------------------------
(* Each step preserves it *)

LEMMA ConnectKeeps ==
  ASSUME AdmissionInv, NEW h \in Handlers, Connect(h)
  PROVE  AdmissionInv'
<1>1. CASE blocked /\ blockedAge <= Window
  BY <1>1 DEF Connect, AdmissionInv, AdmissionTypes, OverlapOK, Overlap, StampsOK, ReadersOK,
              BlockOK, Bound
<1>2. CASE ~(blocked /\ blockedAge <= Window)
  <2> DEFINE m == Append(Valid(connections), 0)
  <2>1. /\ serving[h] = "idle" /\ blocked' = FALSE /\ Goes(h, "ip")
        /\ mine' = [mine EXCEPT ![h] = m]
        /\ UNCHANGED <<connections, blockedAge, timestamps, passed>>
    BY <1>2 DEF Connect
  <2>2. /\ AdmissionTypes /\ blockedAge > Window
        /\ connections \in Seq(Ages) /\ passed.ip \in Seq(Ages) /\ Threshold \in Nat
    BY <1>2, AdmissionAssumption DEF AdmissionInv, AdmissionTypes, BlockOK
  <2>3. /\ serving' \in [Handlers -> Places] /\ sinceOverlap' \in 0 .. Window + 1
        /\ Bound' \in 0 .. Window /\ Bound' <= Bound /\ OverlapOK'
        /\ serving'[h] = "ip" /\ \A k \in Handlers : k # h => serving'[k] = serving[k]
    BY <2>1, GoesOn DEF AdmissionInv, Places
  <2>4. /\ StoredOK(passed.ip, connections, Threshold, Bound')
        /\ StoredOK(passed.player, timestamps, Limit, Bound')
        /\ \A k \in Handlers :
             /\ serving[k] = "ip" =>
                  /\ ReaderOK(passed.ip, mine[k], Threshold, Bound')
                  /\ Later(Last(mine[k]), Bound', blockedAge)
             /\ serving[k] = "player" => ReaderOK(passed.player, mine[k], Limit, Bound')
        /\ \A i \in 1 .. Len(passed.ip) : Later(passed.ip[i], Bound', blockedAge)
    BY <2>3, RestIsKept
  <2>5. m \in Seq(Ages) /\ Last(m) = 0
    BY <2>2, ValidNotLonger, FrontOfAppend, AdmissionAssumption DEF Ages
  <2>6. ReaderOK(passed.ip, m, Threshold, Bound')
    BY <2>2, <2>3, <2>4, Enters
  <2>7. Later(Last(m), Bound', blockedAge)
    BY <2>2, <2>5, AdmissionAssumption DEF Later, AdmissionTypes
  <2> HIDE DEF m
  <2>8. mine' \in [Handlers -> Seq(Ages)] /\ mine'[h] = m
        /\ \A k \in Handlers : k # h => mine'[k] = mine[k]
    BY <2>1, <2>2, <2>5 DEF AdmissionTypes
  <2>9. AdmissionTypes'
    BY <2>1, <2>2, <2>3, <2>8 DEF AdmissionTypes
  <2>10. StampsOK'
    BY <2>1, <2>4 DEF StampsOK
  <2>11. ReadersOK'
    <3> SUFFICES ASSUME NEW k \in Handlers
                 PROVE  /\ serving'[k] = "ip" => ReaderOK(passed'.ip, mine'[k], Threshold, Bound')
                        /\ serving'[k] = "player" => ReaderOK(passed'.player, mine'[k], Limit, Bound')
      BY DEF ReadersOK
    <3>1. CASE k = h
      BY <2>1, <2>3, <2>6, <2>8, <3>1
    <3>2. CASE k # h
      BY <2>1, <2>3, <2>4, <2>8, <3>2
    <3> QED
      BY <3>1, <3>2
  <2>12. BlockOK'
    <3> SUFFICES ASSUME NEW k \in Handlers
                 PROVE  serving'[k] = "ip" => Later(Last(mine'[k]), Bound', blockedAge')
      BY <2>1, <2>2, <2>4 DEF BlockOK
    <3>1. CASE k = h
      BY <2>1, <2>7, <2>8, <3>1
    <3>2. CASE k # h
      BY <2>1, <2>3, <2>4, <2>8, <3>2
    <3> QED
      BY <3>1, <3>2
  <2> QED
    BY <2>3, <2>9, <2>10, <2>11, <2>12 DEF AdmissionInv
<1> QED
  BY <1>1, <1>2

LEMMA RecordConnectionKeeps ==
  ASSUME AdmissionInv, NEW h \in Handlers, RecordConnection(h)
  PROVE  AdmissionInv'
<1>1. /\ AdmissionTypes /\ serving[h] = "ip" /\ mine' = [mine EXCEPT ![h] = <<>>]
      /\ timestamps' = timestamps
      /\ mine[h] \in Seq(Ages) /\ passed.ip \in Seq(Ages) /\ passed.player \in Seq(Ages)
      /\ connections \in Seq(Ages) /\ Threshold \in Nat /\ Limit \in Nat
  BY AdmissionAssumption DEF RecordConnection, AdmissionInv, AdmissionTypes
<1>2. PICK to \in Places : Goes(h, to) /\ to \in {"idle", "auth"}
  BY DEF RecordConnection, Places
<1>3. /\ serving' \in [Handlers -> Places] /\ sinceOverlap' \in 0 .. Window + 1
      /\ Bound' \in 0 .. Window /\ Bound' <= Bound /\ OverlapOK'
      /\ serving'[h] = to /\ \A k \in Handlers : k # h => serving'[k] = serving[k]
      /\ \A k \in Handlers :
           k # h /\ serving[k] = serving[h] /\ serving[h] \in {"ip", "player"} => Bound' = 0
  BY <1>1, <1>2, GoesOn DEF AdmissionInv
<1>4. /\ StoredOK(passed.ip, connections, Threshold, Bound')
      /\ StoredOK(passed.player, timestamps, Limit, Bound')
      /\ \A k \in Handlers :
           /\ serving[k] = "ip" =>
                /\ ReaderOK(passed.ip, mine[k], Threshold, Bound')
                /\ Later(Last(mine[k]), Bound', blockedAge)
           /\ serving[k] = "player" => ReaderOK(passed.player, mine[k], Limit, Bound')
      /\ \A i \in 1 .. Len(passed.ip) : Later(passed.ip[i], Bound', blockedAge)
  BY <1>3, RestIsKept
<1>5. PICK c \in 0 .. Window : c = Bound'
  BY <1>3
<1>6. PICK m \in Seq(Ages) : m = mine[h]
  BY <1>1
<1>7. /\ ReaderOK(passed.ip, m, Threshold, c) /\ Later(Last(m), c, blockedAge)
      /\ m # <<>> /\ Front(m) \in Seq(Ages) /\ Last(m) \in Ages
  <2>1. ReaderOK(passed.ip, m, Threshold, c) /\ Later(Last(m), c, blockedAge)
    BY <1>1, <1>4, <1>5, <1>6
  <2> QED
    BY <2>1, FrontIs DEF ReaderOK
<1>8. /\ mine' \in [Handlers -> Seq(Ages)]
      /\ \A k \in Handlers : k # h => mine'[k] = mine[k]
  BY <1>1 DEF AdmissionTypes
\* The others in the method were an overlap.
<1>9. ASSUME NEW k \in Handlers, serving'[k] = "ip"
      PROVE  /\ k # h /\ c = 0 /\ mine'[k] = mine[k]
             /\ \A q \in Seq(Ages) : ReaderOK(q, mine'[k], Threshold, c)
             /\ \A g \in 0 .. LongAgo : Later(Last(mine'[k]), c, g)
  <2>1. k # h /\ serving[k] = "ip"
    BY <1>2, <1>3, <1>9
  <2>2. c = 0 /\ mine'[k] = mine[k] /\ mine[k] \in Seq(Ages)
    BY <1>1, <1>3, <1>5, <1>8, <2>1 DEF AdmissionTypes
  <2>3. ReaderOK(passed.ip, mine[k], Threshold, 0)
    BY <1>4, <1>5, <2>1, <2>2
  <2>4. Last(mine[k]) \in Nat
    BY <2>2, <2>3, FrontIs DEF ReaderOK, Ages
  <2>5. \A g \in 0 .. LongAgo : Later(Last(mine[k]), 0, g)
    BY <2>4 DEF Later
  <2>6. \A q \in Seq(Ages) : ReaderOK(q, mine[k], Threshold, 0)
    BY <1>1, <2>2, <2>3, KnowsNothing, AdmissionAssumption
  <2> QED
    BY <2>1, <2>2, <2>5, <2>6
<1>10. ASSUME NEW k \in Handlers, serving'[k] = "player"
       PROVE  ReaderOK(passed.player, mine'[k], Limit, c)
  BY <1>2, <1>3, <1>4, <1>5, <1>8, <1>10
<1>11. CASE Len(m) > Threshold
  <2>1. /\ connections' = Front(m) /\ blocked' = TRUE /\ blockedAge' = Last(m)
        /\ UNCHANGED passed
    BY <1>6, <1>11 DEF RecordConnection
  <2>2. blockedAge' \in 0 .. LongAgo
    BY <1>7, <2>1, AdmissionAssumption DEF Ages, LongAgo
  <2>3. AdmissionTypes'
    BY <1>1, <1>3, <1>7, <1>8, <2>1, <2>2 DEF AdmissionTypes
  <2>4. StampsOK'
    <3>1. StoredOK(passed.ip, Front(m), Threshold, c)
      BY <1>1, <1>4, <1>5, <1>7, TurnedAway
    <3> QED
      BY <1>1, <1>4, <1>5, <2>1, <3>1 DEF StampsOK
  <2>5. ReadersOK'
    BY <1>1, <1>5, <1>9, <1>10, <2>1 DEF ReadersOK
  <2>6. BlockOK'
    <3>1. ASSUME NEW i \in 1 .. Len(passed.ip) PROVE Later(passed.ip[i], c, Last(m))
      <4>1. passed.ip[i] \in Nat /\ Last(m) \in Nat
        BY <1>1, <1>7, AgesAreNat DEF Ages
      <4>2. passed.ip[i] < c => passed.ip[i] >= Last(m)
        BY <1>1, <1>7, OwnIsYoungest
      <4> QED
        BY <4>1, <4>2 DEF Later
    <3>2. ASSUME NEW k \in Handlers, serving'[k] = "ip"
          PROVE  Later(Last(mine'[k]), c, blockedAge')
      BY <1>9, <2>2, <3>2
    <3> QED
      BY <1>5, <2>1, <3>1, <3>2 DEF BlockOK
  <2> QED
    BY <1>3, <2>3, <2>4, <2>5, <2>6 DEF AdmissionInv
<1>12. CASE ~(Len(m) > Threshold)
  <2> DEFINE q == Valid(Append(passed.ip, Last(m)))
  <2>1. /\ connections' = m /\ passed' = [passed EXCEPT !.ip = q]
        /\ UNCHANGED <<blocked, blockedAge>>
    BY <1>6, <1>12 DEF RecordConnection
  <2>2. q \in Seq(Ages) /\ StoredOK(q, m, Threshold, c)
    BY <1>1, <1>7, <1>12, Passes
  <2>3. ASSUME NEW i \in 1 .. Len(q) PROVE Later(q[i], c, blockedAge)
    <3> DEFINE u == Append(passed.ip, Last(m))
    <3>1. /\ u \in Seq(Ages) /\ Len(u) = Len(passed.ip) + 1
          /\ \A j \in 1 .. Len(passed.ip) : u[j] = passed.ip[j]
          /\ u[Len(passed.ip) + 1] = Last(m)
      BY <1>1, <1>7, AppendProperties
    <3>2. PICK j \in 1 .. Len(u) : q[i] = u[j]
      BY <3>1, ValidNotLonger
    <3> HIDE DEF u, q
    <3>3. CASE j \in 1 .. Len(passed.ip)
      BY <1>4, <1>5, <3>1, <3>2, <3>3
    <3>4. CASE j = Len(passed.ip) + 1
      BY <1>7, <3>1, <3>2, <3>4
    <3> QED
      BY <1>1, <3>1, <3>3, <3>4, SMTT(30)
  <2> HIDE DEF q
  <2>4. passed' \in [ip : Seq(Ages), player : Seq(Ages)] /\ passed'.ip = q
        /\ passed'.player = passed.player
    BY <1>1, <2>1, <2>2 DEF AdmissionTypes
  <2>5. AdmissionTypes'
    BY <1>1, <1>3, <1>8, <2>1, <2>4 DEF AdmissionTypes
  <2>6. StampsOK'
    BY <1>1, <1>4, <1>5, <2>1, <2>2, <2>4 DEF StampsOK
  <2>7. ReadersOK'
    BY <1>5, <1>9, <1>10, <2>2, <2>4 DEF ReadersOK
  <2>8. BlockOK'
    <3>1. (~blocked)' => (blockedAge > Window)'
      BY <2>1 DEF AdmissionInv, BlockOK
    <3>2. ASSUME NEW k \in Handlers, serving'[k] = "ip"
          PROVE  Later(Last(mine'[k]), c, blockedAge')
      BY <1>1, <1>9, <2>1, <3>2 DEF AdmissionTypes
    <3> QED
      BY <1>5, <2>1, <2>3, <2>4, <3>1, <3>2 DEF BlockOK
  <2> QED
    BY <1>3, <2>5, <2>6, <2>7, <2>8 DEF AdmissionInv
<1> QED
  BY <1>11, <1>12

LEMMA AuthenticateKeeps ==
  ASSUME AdmissionInv, NEW h \in Handlers, Authenticate(h)
  PROVE  AdmissionInv'
<1> DEFINE m == Append(Valid(timestamps), 0)
<1>1. /\ AdmissionTypes /\ serving[h] = "auth"
      /\ UNCHANGED <<connections, blocked, blockedAge, timestamps, passed>>
      /\ timestamps \in Seq(Ages) /\ passed.player \in Seq(Ages) /\ Limit \in Nat
  BY AdmissionAssumption DEF Authenticate, AdmissionInv, AdmissionTypes
<1>2. PICK to \in Places :
        /\ Goes(h, to)
        /\ \/ to = "idle" /\ mine' = mine
           \/ to = "player" /\ mine' = [mine EXCEPT ![h] = m]
  BY DEF Authenticate, Places
<1>3. /\ serving' \in [Handlers -> Places] /\ sinceOverlap' \in 0 .. Window + 1
      /\ Bound' \in 0 .. Window /\ Bound' <= Bound /\ OverlapOK'
      /\ serving'[h] = to /\ \A k \in Handlers : k # h => serving'[k] = serving[k]
  BY <1>1, <1>2, GoesOn DEF AdmissionInv
<1>4. /\ StoredOK(passed.ip, connections, Threshold, Bound')
      /\ StoredOK(passed.player, timestamps, Limit, Bound')
      /\ \A k \in Handlers :
           /\ serving[k] = "ip" =>
                /\ ReaderOK(passed.ip, mine[k], Threshold, Bound')
                /\ Later(Last(mine[k]), Bound', blockedAge)
           /\ serving[k] = "player" => ReaderOK(passed.player, mine[k], Limit, Bound')
      /\ \A i \in 1 .. Len(passed.ip) : Later(passed.ip[i], Bound', blockedAge)
  BY <1>3, RestIsKept
<1>5. m \in Seq(Ages)
  BY <1>1, ValidNotLonger, FrontOfAppend, AdmissionAssumption DEF Ages
<1>6. ReaderOK(passed.player, m, Limit, Bound')
  BY <1>1, <1>3, <1>4, Enters
<1> HIDE DEF m
<1>7. /\ mine' \in [Handlers -> Seq(Ages)]
      /\ to = "player" => mine'[h] = m
      /\ \A k \in Handlers : k # h => mine'[k] = mine[k]
  BY <1>1, <1>2, <1>5 DEF AdmissionTypes
<1>8. AdmissionTypes'
  BY <1>1, <1>3, <1>7 DEF AdmissionTypes
<1>9. StampsOK'
  BY <1>1, <1>4 DEF StampsOK
<1>10. ReadersOK'
  <2> SUFFICES ASSUME NEW k \in Handlers
               PROVE  /\ serving'[k] = "ip" => ReaderOK(passed'.ip, mine'[k], Threshold, Bound')
                      /\ serving'[k] = "player" => ReaderOK(passed'.player, mine'[k], Limit, Bound')
    BY DEF ReadersOK
  <2>1. CASE k = h
    BY <1>1, <1>2, <1>3, <1>6, <1>7, <2>1
  <2>2. CASE k # h
    BY <1>1, <1>3, <1>4, <1>7, <2>2
  <2> QED
    BY <2>1, <2>2
<1>11. BlockOK'
  <2> SUFFICES ASSUME NEW k \in Handlers, serving'[k] = "ip"
               PROVE  Later(Last(mine'[k]), Bound', blockedAge')
    BY <1>1, <1>4 DEF BlockOK, AdmissionInv
  <2>1. k # h
    BY <1>2, <1>3
  <2> QED
    BY <1>1, <1>3, <1>4, <1>7, <2>1
<1> QED
  BY <1>3, <1>8, <1>9, <1>10, <1>11 DEF AdmissionInv

LEMMA AllowKeeps ==
  ASSUME AdmissionInv, NEW h \in Handlers, Allow(h)
  PROVE  AdmissionInv'
<1>1. /\ AdmissionTypes /\ serving[h] = "player" /\ mine' = [mine EXCEPT ![h] = <<>>]
      /\ Goes(h, "idle") /\ UNCHANGED <<connections, blocked, blockedAge>>
      /\ mine[h] \in Seq(Ages) /\ passed.ip \in Seq(Ages) /\ passed.player \in Seq(Ages)
      /\ timestamps \in Seq(Ages) /\ Threshold \in Nat /\ Limit \in Nat
  BY AdmissionAssumption DEF Allow, AdmissionInv, AdmissionTypes
<1>2. /\ serving' \in [Handlers -> Places] /\ sinceOverlap' \in 0 .. Window + 1
      /\ Bound' \in 0 .. Window /\ Bound' <= Bound /\ OverlapOK'
      /\ serving'[h] = "idle" /\ \A k \in Handlers : k # h => serving'[k] = serving[k]
      /\ \A k \in Handlers :
           k # h /\ serving[k] = serving[h] /\ serving[h] \in {"ip", "player"} => Bound' = 0
  BY <1>1, GoesOn DEF AdmissionInv, Places
<1>3. /\ StoredOK(passed.ip, connections, Threshold, Bound')
      /\ StoredOK(passed.player, timestamps, Limit, Bound')
      /\ \A k \in Handlers :
           /\ serving[k] = "ip" =>
                /\ ReaderOK(passed.ip, mine[k], Threshold, Bound')
                /\ Later(Last(mine[k]), Bound', blockedAge)
           /\ serving[k] = "player" => ReaderOK(passed.player, mine[k], Limit, Bound')
      /\ \A i \in 1 .. Len(passed.ip) : Later(passed.ip[i], Bound', blockedAge)
  BY <1>2, RestIsKept
<1>4. PICK c \in 0 .. Window : c = Bound'
  BY <1>2
<1>5. PICK m \in Seq(Ages) : m = mine[h]
  BY <1>1
<1>6. ReaderOK(passed.player, m, Limit, c) /\ m # <<>> /\ Front(m) \in Seq(Ages)
  <2>1. ReaderOK(passed.player, m, Limit, c)
    BY <1>1, <1>3, <1>4, <1>5
  <2> QED
    BY <2>1, FrontIs DEF ReaderOK
<1>7. /\ mine' \in [Handlers -> Seq(Ages)]
      /\ \A k \in Handlers : k # h => mine'[k] = mine[k]
  BY <1>1 DEF AdmissionTypes
<1>8. ASSUME NEW k \in Handlers, serving'[k] = "player"
      PROVE  \A q \in Seq(Ages) : ReaderOK(q, mine'[k], Limit, c)
  <2>1. k # h /\ serving[k] = "player"
    BY <1>2, <1>8
  <2>2. c = 0 /\ mine'[k] = mine[k] /\ mine[k] \in Seq(Ages)
    BY <1>1, <1>2, <1>4, <1>7, <2>1 DEF AdmissionTypes
  <2>3. ReaderOK(passed.player, mine[k], Limit, 0)
    BY <1>3, <1>4, <2>1, <2>2
  <2>4. \A q \in Seq(Ages) : ReaderOK(q, mine[k], Limit, 0)
    BY <1>1, <2>2, <2>3, KnowsNothing, AdmissionAssumption
  <2> QED
    BY <2>2, <2>4
<1>9. ASSUME NEW k \in Handlers, serving'[k] = "ip"
      PROVE  /\ ReaderOK(passed.ip, mine'[k], Threshold, c)
             /\ Later(Last(mine'[k]), c, blockedAge')
  BY <1>1, <1>2, <1>3, <1>4, <1>7, <1>9
<1>10. PICK q \in Seq(Ages) :
         /\ StoredOK(q, timestamps', Limit, c) /\ timestamps' \in Seq(Ages)
         /\ passed' = [passed EXCEPT !.player = q]
  <2>1. CASE Len(m) > Limit
    <3>1. timestamps' = Front(m) /\ UNCHANGED passed
      BY <1>5, <2>1 DEF Allow
    <3>2. StoredOK(passed.player, Front(m), Limit, c)
      BY <1>1, <1>3, <1>4, <1>6, TurnedAway
    <3>3. passed = [passed EXCEPT !.player = passed.player]
      BY <1>1 DEF AdmissionTypes
    <3> QED
      BY <1>1, <1>6, <3>1, <3>2, <3>3
  <2>2. CASE ~(Len(m) > Limit)
    <3>1. /\ timestamps' = m
          /\ passed' = [passed EXCEPT !.player = Valid(Append(passed.player, Last(m)))]
      BY <1>5, <2>2 DEF Allow
    <3>2. /\ Valid(Append(passed.player, Last(m))) \in Seq(Ages)
          /\ StoredOK(Valid(Append(passed.player, Last(m))), m, Limit, c)
      BY <1>1, <1>6, <2>2, Passes
    <3> QED
      BY <3>1, <3>2
  <2> QED
    BY <2>1, <2>2
<1>11. /\ passed' \in [ip : Seq(Ages), player : Seq(Ages)]
       /\ passed'.player = q /\ passed'.ip = passed.ip
  BY <1>1, <1>10 DEF AdmissionTypes
<1>12. AdmissionTypes'
  BY <1>1, <1>2, <1>7, <1>10, <1>11 DEF AdmissionTypes
<1>13. StampsOK'
  BY <1>1, <1>3, <1>4, <1>10, <1>11 DEF StampsOK
<1>14. ReadersOK'
  BY <1>4, <1>8, <1>9, <1>11 DEF ReadersOK
<1>15. BlockOK'
  BY <1>1, <1>3, <1>4, <1>9, <1>11 DEF BlockOK, AdmissionInv
<1> QED
  BY <1>2, <1>12, <1>13, <1>14, <1>15 DEF AdmissionInv

LEMMA TimeKeeps ==
  ASSUME AdmissionInv, TimePasses
  PROVE  AdmissionInv'
<1>1. /\ mine' = [h \in Handlers |-> Aged(mine[h])]
      /\ connections' = Aged(connections) /\ timestamps' = Aged(timestamps)
      /\ passed' = [ip |-> Valid(Aged(passed.ip)), player |-> Valid(Aged(passed.player))]
      /\ blockedAge' = Older(LongAgo, blockedAge)
      /\ sinceOverlap' = IF Overlap(serving) THEN 0 ELSE Older(Window + 1, sinceOverlap)
      /\ UNCHANGED <<serving, blocked>>
  BY DEF TimePasses, Aged
<1>2. /\ AdmissionTypes /\ passed.ip \in Seq(Ages) /\ passed.player \in Seq(Ages)
      /\ connections \in Seq(Ages) /\ timestamps \in Seq(Ages) /\ blockedAge \in 0 .. LongAgo
      /\ \A h \in Handlers : mine[h] \in Seq(Ages)
      /\ Threshold \in Nat /\ Limit \in Nat /\ sinceOverlap \in 0 .. Window + 1
  BY AdmissionAssumption DEF AdmissionInv, AdmissionTypes
<1>3. /\ sinceOverlap' \in 0 .. Window + 1 /\ sinceOverlap' <= sinceOverlap + 1
  BY <1>1, <1>2, AdmissionAssumption DEF Older
<1>4. OverlapOK'
  BY <1>1 DEF OverlapOK, Overlap
<1>5. PICK b \in 0 .. Window : b = Bound
  BY <1>2, BoundIs
<1>6. PICK c \in 0 .. Window : c = Bound' /\ c <= b + 1
  <2>1. Bound' \in 0 .. Window /\ Bound' <= b + 1
    BY <1>2, <1>3, <1>5, AdmissionAssumption DEF Bound
  <2> QED
    BY <2>1
<1> DEFINE p == Aged(passed.ip)
           q == Aged(passed.player)
<1>7. /\ p \in Seq(Ages) /\ q \in Seq(Ages) /\ Valid(p) \in Seq(Ages) /\ Valid(q) \in Seq(Ages)
      /\ \A h \in Handlers : Aged(mine[h]) \in Seq(Ages)
      /\ Aged(connections) \in Seq(Ages) /\ Aged(timestamps) \in Seq(Ages)
  BY <1>2, AgedIs, ValidNotLonger
<1>8. blockedAge' \in 0 .. LongAgo /\ (blockedAge > Window => blockedAge' > Window)
  BY <1>1, <1>2, AdmissionAssumption, SMTT(30) DEF Older, LongAgo
<1>9. StoredOK(Valid(p), Aged(connections), Threshold, c)
  BY <1>2, <1>5, <1>6, StoredAges DEF AdmissionInv, StampsOK
<1>10. StoredOK(Valid(q), Aged(timestamps), Limit, c)
  BY <1>2, <1>5, <1>6, StoredAges DEF AdmissionInv, StampsOK
<1>11. ASSUME NEW h \in Handlers, serving[h] = "ip"
       PROVE  /\ ReaderOK(Valid(p), Aged(mine[h]), Threshold, c)
              /\ Later(Last(Aged(mine[h])), c, Older(LongAgo, blockedAge))
  <2>1. ReaderOK(passed.ip, mine[h], Threshold, b) /\ Later(Last(mine[h]), b, blockedAge)
    BY <1>5, <1>11 DEF AdmissionInv, ReadersOK, BlockOK
  <2>2. /\ ReaderOK(Valid(p), Aged(mine[h]), Threshold, c)
        /\ Last(Aged(mine[h])) = Older(Window, Last(mine[h]))
    BY <1>2, <1>6, <2>1, ReaderAges
  <2>3. Last(mine[h]) \in 0 .. Window
    BY <1>2, <2>1, FrontIs DEF ReaderOK, Ages
  <2> QED
    BY <1>2, <1>6, <2>1, <2>2, <2>3, LaterAges
<1>12. ASSUME NEW h \in Handlers, serving[h] = "player"
       PROVE  ReaderOK(Valid(q), Aged(mine[h]), Limit, c)
  <2>1. ReaderOK(passed.player, mine[h], Limit, b)
    BY <1>5, <1>12 DEF AdmissionInv, ReadersOK
  <2> QED
    BY <1>2, <1>6, <2>1, ReaderAges
<1>13. ASSUME NEW i \in 1 .. Len(Valid(p))
       PROVE  Later(Valid(p)[i], c, Older(LongAgo, blockedAge))
  <2>1. PICK j \in 1 .. Len(p) : Valid(p)[i] = p[j]
    BY <1>7, ValidNotLonger
  <2>2. /\ j \in 1 .. Len(passed.ip) /\ p[j] = Older(Window, passed.ip[j])
        /\ passed.ip[j] \in 0 .. Window
    BY <1>2, AgedIs
  <2>3. Later(passed.ip[j], b, blockedAge)
    BY <1>5, <2>2 DEF AdmissionInv, BlockOK
  <2> HIDE DEF p
  <2> QED
    BY <1>2, <1>6, <2>1, <2>2, <2>3, LaterAges
<1> HIDE DEF p, q
<1>14. /\ passed' \in [ip : Seq(Ages), player : Seq(Ages)]
       /\ passed'.ip = Valid(p) /\ passed'.player = Valid(q)
  BY <1>1, <1>7 DEF p, q
<1>15. mine' \in [Handlers -> Seq(Ages)] /\ \A h \in Handlers : mine'[h] = Aged(mine[h])
  BY <1>1, <1>7
<1>16. AdmissionTypes'
  BY <1>1, <1>2, <1>3, <1>7, <1>8, <1>14, <1>15 DEF AdmissionTypes
<1>17. StampsOK'
  BY <1>1, <1>6, <1>9, <1>10, <1>14 DEF StampsOK
<1>18. ReadersOK'
  BY <1>1, <1>6, <1>11, <1>12, <1>14, <1>15 DEF ReadersOK
<1>19. BlockOK'
  <2>1. (~blocked)' => (blockedAge > Window)'
    BY <1>1, <1>8 DEF AdmissionInv, BlockOK
  <2> QED
    BY <1>1, <1>6, <1>11, <1>13, <1>14, <1>15, <2>1 DEF BlockOK
<1> QED
  BY <1>4, <1>16, <1>17, <1>18, <1>19 DEF AdmissionInv

LEMMA AdmissionInvariant == AdmissionSpec => []AdmissionInv
<1>1. AdmissionInit => AdmissionInv
  <2> SUFFICES ASSUME AdmissionInit PROVE AdmissionInv
    OBVIOUS
  <2>1. <<>> \in Seq(Ages) /\ Len(<<>>) = 0 /\ passed.ip = <<>> /\ passed.player = <<>>
    BY DEF AdmissionInit
  <2>2. AdmissionTypes
    <3>1. LongAgo \in 0 .. LongAgo /\ Window + 1 \in 0 .. Window + 1
      BY AdmissionAssumption DEF LongAgo
    <3>2. serving \in [Handlers -> Places] /\ mine \in [Handlers -> Seq(Ages)]
      BY <2>1 DEF AdmissionInit, Places
    <3>3. passed \in [ip : Seq(Ages), player : Seq(Ages)]
      BY <2>1 DEF AdmissionInit
    <3> QED
      BY <2>1, <3>1, <3>2, <3>3 DEF AdmissionInit, AdmissionTypes
  <2>3. OverlapOK /\ ReadersOK
    BY DEF AdmissionInit, OverlapOK, Overlap, ReadersOK
  <2>4. Agree(<<>>, <<>>, Bound)
    BY <2>1 DEF Agree
  <2>5. StampsOK
    <3>1. connections = <<>> /\ timestamps = <<>> /\ InOrder(<<>>)
      BY DEF AdmissionInit, InOrder
    <3>2. Threshold \in Nat /\ Limit \in Nat
      BY AdmissionAssumption
    <3>3. 0 <= Threshold /\ 0 <= Limit
      BY <3>2
    <3> QED
      BY <2>1, <2>4, <3>1, <3>3 DEF StampsOK, StoredOK
  <2>6. BlockOK
    BY <2>1, AdmissionAssumption DEF AdmissionInit, BlockOK, LongAgo
  <2> QED
    BY <2>2, <2>3, <2>5, <2>6 DEF AdmissionInv
<1>2. AdmissionInv /\ [AdmissionNext]_admissionVars => AdmissionInv'
  <2> SUFFICES ASSUME AdmissionInv, [AdmissionNext]_admissionVars PROVE AdmissionInv'
    OBVIOUS
  <2>1. CASE TimePasses
    BY <2>1, TimeKeeps
  <2>2. ASSUME NEW h \in Handlers, Connect(h) \/ RecordConnection(h) \/ Authenticate(h) \/ Allow(h)
        PROVE  AdmissionInv'
    BY <2>2, ConnectKeeps, RecordConnectionKeeps, AuthenticateKeeps, AllowKeeps
  <2>3. CASE UNCHANGED admissionVars
    BY <2>3 DEF admissionVars, AdmissionInv, AdmissionTypes, OverlapOK, Overlap, StampsOK,
                ReadersOK, BlockOK, Bound
  <2> QED
    BY <2>1, <2>2, <2>3 DEF AdmissionNext
<1> QED
  BY <1>1, <1>2, PTL DEF AdmissionSpec

\* All that passed is within Window and among what is stored.
LEMMA StoredHasAll ==
  ASSUME NEW p \in Seq(Ages), NEW s \in Seq(Ages), NEW limit \in Nat,
         StoredOK(p, s, limit, Window)
  PROVE  /\ Len(p) <= limit
         /\ \A i \in 1 .. Len(p) : p[i] < Window
<1>1. PICK n \in 0 .. Len(p) :
        /\ n <= Len(s) /\ \A i \in 1 .. Len(p) - n : p[i] >= Window
        /\ \A i \in 1 .. n : p[Len(p) - n + i] = s[Len(s) - n + i]
  BY DEF StoredOK, Agree
<1>2. Len(p) \in Nat /\ Len(s) \in Nat /\ Window \in Nat /\ Len(s) <= limit
  BY AdmissionAssumption DEF StoredOK
<1>3. n = Len(p)
  <2> SUFFICES ASSUME n # Len(p) PROVE FALSE
    OBVIOUS
  <2>1. 1 \in 1 .. Len(p) - n /\ 1 \in 1 .. Len(p) /\ p # <<>>
    BY <1>1, <1>2
  <2>2. p[1] >= Window /\ p[1] < Window /\ p[1] \in Nat
    <3>1. p[1] >= Window
      BY <1>1, <2>1
    <3>2. p[1] < Window
      BY <2>1 DEF StoredOK
    <3>3. p[1] \in Nat
      BY <2>1, AgesAreNat
    <3> QED
      BY <3>1, <3>2, <3>3
  <2> QED
    BY <1>2, <2>2
<1>4. ASSUME NEW i \in 1 .. Len(p) PROVE p[i] < Window
  <2> DEFINE d == Len(s) - n
  <2>1. /\ 1 \in 1 .. n /\ i \in 1 .. n /\ Len(p) - n + 1 = 1 /\ Len(p) - n + i = i
        /\ d + 1 \in 1 .. Len(s) /\ d + i \in 1 .. Len(s) /\ d + 1 <= d + i
        /\ 1 \in 1 .. Len(p) /\ p # <<>>
    BY <1>1, <1>2, <1>3
  <2>2. p[1] = s[d + 1] /\ p[i] = s[d + i]
    BY <1>1, <2>1
  <2> HIDE DEF d
  <2>3. s[d + 1] >= s[d + i]
    BY <2>1 DEF InOrder, StoredOK
  <2>4. p[1] < Window
    BY <2>1 DEF StoredOK
  <2>5. p[1] \in Nat /\ p[i] \in Nat
    BY <2>1, AgesAreNat
  <2> QED
    BY <1>2, <2>2, <2>3, <2>4, <2>5
<1> QED
  BY <1>1, <1>2, <1>3, <1>4

\* An address never passes more than Threshold times in a Window, nor a player more than
\* Limit times, unless two requests were inside the same method less than a Window ago.
THEOREM AdmitsAtMostLimit == AdmissionSpec => []AtMostLimit
<1>1. AdmissionInv => AtMostLimit
  <2> SUFFICES ASSUME AdmissionInv, sinceOverlap > Window
               PROVE  Len(passed.ip) <= Threshold /\ Len(passed.player) <= Limit
    BY DEF AtMostLimit
  <2>1. /\ passed.ip \in Seq(Ages) /\ passed.player \in Seq(Ages)
        /\ connections \in Seq(Ages) /\ timestamps \in Seq(Ages)
        /\ Threshold \in Nat /\ Limit \in Nat /\ Bound = Window
    BY AdmissionAssumption DEF AdmissionInv, AdmissionTypes, Bound
  <2> QED
    BY <2>1, StoredHasAll DEF AdmissionInv, StampsOK
<1> QED
  BY <1>1, AdmissionInvariant, PTL

\* Nobody passes from a blocked address within a Window of the block, unless two requests
\* were inside the same method less than a Window ago.
THEOREM BlockKeepsOut == AdmissionSpec => []BlockLasts
<1>1. AdmissionInv => BlockLasts
  <2> SUFFICES ASSUME AdmissionInv, sinceOverlap > Window, NEW i \in 1 .. Len(passed.ip),
                      passed.ip[i] < blockedAge
               PROVE  blockedAge - passed.ip[i] > Window
    BY DEF BlockLasts
  <2>1. /\ passed.ip \in Seq(Ages) /\ connections \in Seq(Ages) /\ Threshold \in Nat
        /\ Bound = Window
    BY AdmissionAssumption DEF AdmissionInv, AdmissionTypes, Bound
  <2>2. passed.ip[i] < Window
    BY <2>1, StoredHasAll DEF AdmissionInv, StampsOK
  <2> QED
    BY <2>1, <2>2 DEF AdmissionInv, BlockOK, Later
<1> QED
  BY <1>1, AdmissionInvariant, PTL

\* The filter takes the timestamps from the front for as long as they are not valid: what
\* both methods store is in the order of time, so that it leaves the valid ones and no other.
THEOREM StoredInOrder ==
  AdmissionSpec =>
    [](\A s \in {connections, timestamps} :
         InOrder(s) /\ \A i \in 1 .. Len(Valid(s)) : Valid(s)[i] < Window)
<1>1. ASSUME NEW s \in Seq(Ages), InOrder(s), NEW i \in 1 .. Len(Valid(s))
      PROVE  Valid(s)[i] < Window
  <2> DEFINE v == Valid(s)
  <2>1. v \in Seq(Ages) /\ InOrder(v) /\ (v # <<>> => v[1] < Window)
    BY <1>1, ValidNotLonger
  <2> HIDE DEF v
  <2>2. i \in 1 .. Len(v)
    BY <1>1 DEF v
  <2>3. Len(v) \in Nat /\ 1 \in 1 .. Len(v) /\ 1 <= i /\ v # <<>>
    BY <2>1, <2>2
  <2>4. v[1] >= v[i] /\ v[1] < Window
    BY <2>1, <2>2, <2>3 DEF InOrder
  <2>5. v[1] \in Nat /\ v[i] \in Nat
    BY <2>1, <2>2, <2>3, AgesAreNat
  <2>6. v[i] < Window
    BY <2>4, <2>5, AdmissionAssumption
  <2> QED
    BY <2>6 DEF v
<1>2. AdmissionInv => \A s \in {connections, timestamps} :
                        InOrder(s) /\ \A i \in 1 .. Len(Valid(s)) : Valid(s)[i] < Window
  <2> SUFFICES ASSUME AdmissionInv, NEW s \in {connections, timestamps}
               PROVE  InOrder(s) /\ \A i \in 1 .. Len(Valid(s)) : Valid(s)[i] < Window
    OBVIOUS
  <2>1. s \in Seq(Ages) /\ InOrder(s)
    BY DEF AdmissionInv, AdmissionTypes, StampsOK, StoredOK
  <2> QED
    BY <1>1, <2>1
<1> QED
  BY <1>2, AdmissionInvariant, PTL

--------------------------------------------------------------------------------
(* TokenBucket: with any bucket size and rate *)

\* What a tick adds is not lost by adding it later.
LEMMA RefillAdds ==
  ASSUME NEW n \in Nat
  PROVE  /\ n * Refill \in Nat
         /\ (n + 1) * Refill = n * Refill + Refill
         /\ n * Refill >= n
BY TokenBucketAssumption

\* What is missing up to the size is the difference.
LEMMA UpToTheSize ==
  ASSUME NEW size \in Nat, NEW n \in Nat, n <= size
  PROVE  (IF n < size THEN size - n ELSE 0) = size - n
OBVIOUS

\* The bucket never holds more than its size nor less than nothing (client.go:174).
THEOREM BucketTypeCorrect == BucketSpec => []BucketTypeOK
<1>1. BucketInit => BucketTypeOK
  BY TokenBucketAssumption DEF BucketInit, BucketTypeOK
<1>2. BucketTypeOK /\ [BucketNext]_bucketVars => BucketTypeOK'
  <2> SUFFICES ASSUME BucketTypeOK, [BucketNext]_bucketVars
               PROVE  BucketTypeOK'
    OBVIOUS
  <2>1. CASE IsRateLimited
    <3>1. sinceRefill * Refill \in Nat
      BY RefillAdds DEF BucketTypeOK
    <3>2. Full(tokens + sinceRefill * Refill) \in 0 .. Bucket
      BY <3>1, TokenBucketAssumption DEF BucketTypeOK, Full
    <3> QED
      BY <2>1, <3>2, TokenBucketAssumption DEF IsRateLimited, BucketTypeOK
  <2>2. CASE TicksPass
    BY <2>2, TokenBucketAssumption DEF TicksPass, BucketTypeOK
  <2>3. CASE UNCHANGED bucketVars
    BY <2>3 DEF bucketVars, BucketTypeOK
  <2> QED
    BY <2>1, <2>2, <2>3 DEF BucketNext
<1> QED
  BY <1>1, <1>2, PTL DEF BucketSpec

\* A message is served with the late refill exactly when it is served with a bucket that
\* leaks at every tick, and leaves the same missing in both.
LEMMA MessageIsMessage ==
  ASSUME BucketTypeOK, IsRateLimited
  PROVE  Leaky!Serve \/ Leaky!Refuse
<1> DEFINE all == tokens + sinceRefill * Refill
           refilled == Full(all)
<1>1. all \in Nat /\ refilled \in 0 .. Bucket
  BY RefillAdds, TokenBucketAssumption DEF BucketTypeOK, Full
<1>2. Missing = Bucket - refilled
  BY <1>1, TokenBucketAssumption DEF Missing, Full
<1>3. tokens' \in Nat /\ tokens' <= Bucket /\ sinceRefill' = 0
  BY <1>1, TokenBucketAssumption DEF IsRateLimited
<1>4. Missing' = Bucket - tokens'
  <2>1. sinceRefill' * Refill = 0
    BY <1>3, TokenBucketAssumption
  <2>2. tokens' + sinceRefill' * Refill = tokens'
    BY <1>3, <2>1
  <2>3. Missing' = IF tokens' < Bucket THEN Bucket - tokens' ELSE 0
    BY <2>2, Zenon DEF Missing
  <2> QED
    BY <1>3, <2>3, TokenBucketAssumption, UpToTheSize
<1>5. CASE refilled >= Cost
  <2>1. tokens' = refilled - Cost /\ answer' = "served"
    BY <1>5 DEF IsRateLimited
  <2> HIDE DEF refilled
  <2>2. Missing + Cost <= Bucket /\ Missing' = Missing + Cost
    BY <1>1, <1>2, <1>4, <1>5, <2>1, TokenBucketAssumption
  <2> QED
    BY <2>1, <2>2 DEF Leaky!Serve
<1>6. CASE ~(refilled >= Cost)
  <2>1. tokens' = refilled /\ answer' = "refused"
    BY <1>6 DEF IsRateLimited
  <2> HIDE DEF refilled
  <2>2. Missing + Cost > Bucket /\ Missing' = Missing
    BY <1>1, <1>2, <1>4, <1>6, <2>1, TokenBucketAssumption
  <2> QED
    BY <2>1, <2>2 DEF Leaky!Refuse
<1> QED
  BY <1>5, <1>6

\* A tick is a leak: nothing is lost by not counting past Bucket ticks.
LEMMA TickIsLeak ==
  ASSUME BucketTypeOK, TicksPass
  PROVE  Leaky!Leak
<1> DEFINE n == sinceRefill
<1>1. n \in Nat /\ tokens \in Nat /\ UNCHANGED <<tokens, answer>>
  BY DEF BucketTypeOK, TicksPass
<1>2. CASE n < Bucket
  <2>1. sinceRefill' = n + 1
    BY <1>2 DEF TicksPass
  <2>2. sinceRefill' * Refill = n * Refill + Refill /\ n * Refill \in Nat
    BY <1>1, <2>1, RefillAdds
  <2> QED
    BY <1>1, <2>2, TokenBucketAssumption DEF Missing, Leaky!Leak, Leaky!Leaked
<1>3. CASE ~(n < Bucket)
  <2>1. sinceRefill' = Bucket /\ n = Bucket
    BY <1>1, <1>3, TokenBucketAssumption DEF TicksPass, BucketTypeOK
  <2>2. Bucket * Refill \in Nat /\ Bucket * Refill >= Bucket
    BY RefillAdds, TokenBucketAssumption
  <2>3. Missing = 0 /\ Missing' = 0
    BY <1>1, <2>1, <2>2, TokenBucketAssumption DEF Missing
  <2> QED
    BY <1>1, <2>3, TokenBucketAssumption DEF Leaky!Leak, Leaky!Leaked
<1> QED
  BY <1>2, <1>3

\* The bucket that is refilled when a message comes is a bucket that leaks at every tick
\* (client.go:166).
THEOREM BucketRefinement == BucketSpec => ImplementsLeakyBucket
<1>1. BucketInit => Leaky!Init
  BY TokenBucketAssumption DEF BucketInit, Leaky!Init, Missing
<1>2. BucketTypeOK /\ [BucketNext]_bucketVars => [Leaky!Next]_<<Missing, answer>>
  <2> SUFFICES ASSUME BucketTypeOK, [BucketNext]_bucketVars
               PROVE  [Leaky!Next]_<<Missing, answer>>
    OBVIOUS
  <2>1. CASE IsRateLimited
    BY <2>1, MessageIsMessage DEF Leaky!Next
  <2>2. CASE TicksPass
    BY <2>2, TickIsLeak DEF Leaky!Next
  <2>3. CASE UNCHANGED bucketVars
    BY <2>3 DEF bucketVars, Missing
  <2> QED
    BY <2>1, <2>2, <2>3 DEF BucketNext
<1> QED
  BY <1>1, <1>2, BucketTypeCorrect, PTL DEF BucketSpec, ImplementsLeakyBucket, Leaky!Spec
================================================================================
