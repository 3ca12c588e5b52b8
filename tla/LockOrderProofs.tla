------------------------------ MODULE LockOrderProofs ------------------------------
(***************************************************************************)
(* Proofs about LockOrder, for any number of goroutines and any capacity   *)
(* of actionCh: nobody waits in a circle, except one of the hub's          *)
(* goroutine with h.mu in its hand and a full actionCh.                    *)
(*                                                                         *)
(* The locks have ranks, s.mu below h.mu below gm.mu.  Each function is    *)
(* proper: it gives back what it locks, and while it holds a lock it locks *)
(* higher ones only.  The operations a goroutine has still to carry out    *)
(* are the end of a proper function, from which one reads what it holds.   *)
(* In a circle, who holds a lock waits for a higher one; there are three.  *)
(***************************************************************************)
EXTENDS LockOrder, SequenceTheorems, WellFoundedInduction, TLAPS

--------------------------------------------------------------------------------
(* Operations and the locks they hold *)

Acquires == {"lock", "rlock"}
Releases == {"unlock", "runlock"}
Verbs == Acquires \union Releases \union {"put", "take", "play", "return", "drop", "stop"}
Operation == [do : Verbs, on : Locks \union {"none"}]

Rank(l) == CASE l = "s.mu" -> 1 [] l = "h.mu" -> 2 [] l = "gm.mu" -> 3

\* Before the operation i, lock l is held: the next operation on it gives it back.
Holding(ops, i, l) ==
  \E j \in i .. Len(ops) :
    ops[j].do \in Releases /\ ops[j].on = l /\ \A k \in i .. j - 1 : ops[k].on # l

\* What is locked is given back, and is above all that is held.
Tidy(ops) ==
  \A i \in 1 .. Len(ops) : ops[i].do \in Acquires =>
    /\ ops[i].on \in Locks
    /\ Holding(ops, i + 1, ops[i].on)
    /\ \A l \in Locks : Holding(ops, i, l) => Rank(l) < Rank(ops[i].on)

\* Nothing is put into actionCh with a lock held.
PutsBare(ops) ==
  \A i \in 1 .. Len(ops) : ops[i].do = "put" => \A l \in Locks : ~Holding(ops, i, l)

PutsNothing(ops) == \A i \in 1 .. Len(ops) : ops[i].do # "put"

\* A function that begins with no lock held, and takes none of rank low or below.
Proper(ops, low) ==
  /\ ops \in Seq(Operation)
  /\ Tidy(ops)
  /\ \A l \in Locks : ~Holding(ops, 1, l)
  /\ \A i \in 1 .. Len(ops) : ops[i].on \in Locks => low < Rank(ops[i].on)

LEMMA RankIs ==
  ASSUME NEW l \in Locks
  PROVE  Rank(l) \in 1 .. 3
BY DEF Rank, Locks

LEMMA OperationIs ==
  ASSUME NEW s \in Seq(Operation), NEW i \in 1 .. Len(s)
  PROVE  s[i] \in Operation /\ s[i].do \in Verbs /\ s[i].on \in Locks \union {"none"}
<1>1. s[i] \in Operation
  OBVIOUS
<1> QED
  BY <1>1 DEF Operation

LEMMA NothingIsProper ==
  ASSUME NEW low \in Nat
  PROVE  Proper(<<>>, low) /\ PutsBare(<<>>) /\ PutsNothing(<<>>)
<1>1. <<>> \in Seq(Operation) /\ Len(<<>>) = 0 /\ 1 .. 0 = {}
  OBVIOUS
<1> QED
  BY <1>1 DEF Proper, Tidy, Holding, PutsBare, PutsNothing

LEMMA ProperBelow ==
  ASSUME NEW ops, NEW low \in Nat, NEW low2 \in Nat, low2 <= low, Proper(ops, low)
  PROVE  Proper(ops, low2)
<1>1. ASSUME NEW i \in 1 .. Len(ops), ops[i].on \in Locks PROVE low2 < Rank(ops[i].on)
  <2>1. low < Rank(ops[i].on) /\ Rank(ops[i].on) \in Nat
    BY <1>1, RankIs DEF Proper
  <2> QED
    BY <2>1
<1> QED
  BY <1>1 DEF Proper

\* An operation that is on no lock.
LEMMA DoIsProper ==
  ASSUME NEW what \in {"put", "take", "play", "return", "drop", "stop"}, NEW low \in Nat
  PROVE  /\ Proper(Do(what), low) /\ PutsBare(Do(what))
         /\ what # "put" => PutsNothing(Do(what))
<1> DEFINE op == [do |-> what, on |-> "none"]
           s == <<op>>
<1>1. op \in Operation /\ op.do = what /\ op.on = "none"
  BY DEF Operation, Verbs
<1> HIDE DEF op
<1>2. /\ s \in Seq(Operation) /\ Len(s) = 1 /\ s[1] = op
      /\ \A i \in 1 .. Len(s) : s[i] = op
  BY <1>1
<1> HIDE DEF s
<1>3. "none" \notin Locks /\ what \notin Acquires /\ what \notin Releases
  BY DEF Locks, Acquires, Releases
<1>4. \A i \in 1 .. Len(s), l \in Locks : ~Holding(s, i, l)
  <2> SUFFICES ASSUME NEW i \in 1 .. Len(s), NEW l \in Locks, NEW j \in i .. Len(s),
                      s[j].do \in Releases
               PROVE  FALSE
    BY DEF Holding
  <2>1. j \in 1 .. Len(s)
    BY <1>2
  <2> QED
    BY <1>1, <1>2, <1>3, <2>1
<1>5. Tidy(s)
  BY <1>1, <1>2, <1>3 DEF Tidy
<1>6. Proper(s, low)
  BY <1>1, <1>2, <1>3, <1>4, <1>5 DEF Proper
<1>7. PutsBare(s) /\ (what # "put" => PutsNothing(s))
  BY <1>1, <1>2, <1>4 DEF PutsBare, PutsNothing
<1>8. s = Do(what)
  BY DEF s, op, Do, Op
<1> QED
  BY <1>6, <1>7, <1>8

LEMMA JoinIs ==
  ASSUME NEW a \in Seq(Operation), NEW b \in Seq(Operation)
  PROVE  /\ a \o b \in Seq(Operation)
         /\ Len(a) \in Nat /\ Len(b) \in Nat /\ Len(a \o b) = Len(a) + Len(b)
         /\ \A i \in 1 .. Len(a) : (a \o b)[i] = a[i]
         /\ \A i \in 1 .. Len(b) : (a \o b)[Len(a) + i] = b[i]
<1> DEFINE u == a \o b
           m == Len(a)
           n == Len(b)
<1>1. m \in Nat /\ n \in Nat /\ u \in Seq(Operation) /\ Len(u) = m + n
  OBVIOUS
<1>2. \A i \in 1 .. m + n : u[i] = IF i <= m THEN a[i] ELSE b[i - m]
  BY ConcatProperties, Zenon
<1> HIDE DEF u, m, n
<1>3. ASSUME NEW i \in 1 .. m PROVE u[i] = a[i]
  <2>1. i \in 1 .. m + n /\ i <= m
    BY <1>1
  <2> QED
    BY <1>2, <2>1
<1>4. ASSUME NEW i \in 1 .. n PROVE u[m + i] = b[i]
  <2> DEFINE k == m + i
  <2>1. k \in 1 .. m + n /\ ~(k <= m) /\ k - m = i
    BY <1>1
  <2> HIDE DEF k
  <2>2. u[k] = b[k - m]
    BY <1>2, <2>1
  <2>3. u[k] = b[i]
    BY <2>1, <2>2
  <2> QED
    BY <2>3 DEF k
<1> QED
  BY <1>1, <1>3, <1>4 DEF u, m, n

\* One function after another.
LEMMA ThenIsProper ==
  ASSUME NEW low \in Nat, NEW a, NEW b, Proper(a, low), Proper(b, low)
  PROVE  /\ Proper(a \o b, low)
         /\ PutsBare(a) /\ PutsBare(b) => PutsBare(a \o b)
         /\ PutsNothing(a) /\ PutsNothing(b) => PutsNothing(a \o b)
<1> DEFINE u == a \o b
           m == Len(a)
           n == Len(b)
<1>1. /\ a \in Seq(Operation) /\ b \in Seq(Operation) /\ m \in Nat /\ n \in Nat
  BY DEF Proper
<1>2. /\ u \in Seq(Operation) /\ Len(u) = m + n
      /\ \A i \in 1 .. m : u[i] = a[i]
      /\ \A i \in 1 .. n : u[m + i] = b[i]
  BY <1>1, JoinIs
<1> HIDE DEF u
\* In the first, what is held is what it holds.
<1>3. ASSUME NEW i \in 1 .. m, NEW l \in Locks, Holding(u, i, l) PROVE Holding(a, i, l)
  <2>1. PICK j \in i .. m + n :
          u[j].do \in Releases /\ u[j].on = l /\ \A k \in i .. j - 1 : u[k].on # l
    BY <1>2, <1>3 DEF Holding
  <2>2. CASE j <= m
    <3>1. j \in i .. m /\ j \in 1 .. m /\ \A k \in i .. j - 1 : k \in 1 .. m
      BY <1>1, <2>1, <2>2
    <3> QED
      BY <1>2, <2>1, <3>1 DEF Holding
  <2>3. CASE j > m
    <3> DEFINE j2 == j - m
    <3>1. j2 \in 1 .. n /\ m + j2 = j
      BY <1>1, <2>1, <2>3
    <3>2. ASSUME NEW k \in 1 .. j2 - 1 PROVE b[k].on # l
      <4>1. m + k \in i .. j - 1 /\ k \in 1 .. n
        BY <1>1, <2>1, <2>3, <3>1
      <4> QED
        BY <1>2, <2>1, <4>1
    <3> HIDE DEF j2
    <3>3. b[j2].do \in Releases /\ b[j2].on = l
      BY <1>2, <2>1, <3>1
    <3>4. Holding(b, 1, l)
      BY <3>1, <3>2, <3>3 DEF Holding
    <3> QED
      BY <3>4 DEF Proper
  <2> QED
    BY <1>1, <2>1, <2>2, <2>3
<1>4. ASSUME NEW i \in 1 .. m + 1, NEW l, Holding(a, i, l) PROVE Holding(u, i, l)
  <2>1. PICK j \in i .. m :
          a[j].do \in Releases /\ a[j].on = l /\ \A k \in i .. j - 1 : a[k].on # l
    BY <1>4 DEF Holding
  <2>2. j \in i .. m + n /\ j \in 1 .. m /\ \A k \in i .. j - 1 : k \in 1 .. m
    BY <1>1, <2>1
  <2> QED
    BY <1>2, <2>1, <2>2 DEF Holding
\* So in the second.
<1>5. ASSUME NEW i \in 1 .. n, NEW l, Holding(u, m + i, l) PROVE Holding(b, i, l)
  <2>1. PICK j \in m + i .. m + n :
          u[j].do \in Releases /\ u[j].on = l /\ \A k \in m + i .. j - 1 : u[k].on # l
    BY <1>2, <1>5 DEF Holding
  <2> DEFINE j2 == j - m
  <2>2. j2 \in i .. n /\ j2 \in 1 .. n /\ m + j2 = j
    BY <1>1, <2>1
  <2>3. ASSUME NEW k \in i .. j2 - 1 PROVE b[k].on # l
    <3>1. m + k \in m + i .. j - 1 /\ k \in 1 .. n
      BY <1>1, <2>1, <2>2
    <3> QED
      BY <1>2, <2>1, <3>1
  <2> HIDE DEF j2
  <2> QED
    BY <1>2, <2>1, <2>2, <2>3 DEF Holding
<1>6. ASSUME NEW i \in 1 .. n + 1, NEW l, Holding(b, i, l) PROVE Holding(u, m + i, l)
  <2>1. PICK j \in i .. n :
          b[j].do \in Releases /\ b[j].on = l /\ \A k \in i .. j - 1 : b[k].on # l
    BY <1>6 DEF Holding
  <2>2. m + j \in m + i .. m + n /\ j \in 1 .. n
    BY <1>1, <2>1
  <2>3. ASSUME NEW k \in m + i .. (m + j) - 1 PROVE u[k].on # l
    <3>1. k - m \in i .. j - 1 /\ k - m \in 1 .. n /\ m + (k - m) = k
      BY <1>1, <2>1, <2>2
    <3>2. u[k] = b[k - m]
      BY <1>2, <3>1
    <3> QED
      BY <2>1, <3>1, <3>2
  <2>4. u[m + j] = b[j]
    BY <1>2, <2>2
  <2> QED
    BY <1>2, <2>1, <2>2, <2>3, <2>4 DEF Holding
<1>7. ASSUME NEW i \in 1 .. m + n
      PROVE  i \in 1 .. m \/ \E k \in 1 .. n : i = m + k
  <2>1. CASE i <= m
    BY <1>1, <2>1
  <2>2. CASE i > m
    <3>1. i - m \in 1 .. n /\ i = m + (i - m)
      BY <1>1, <2>2
    <3> QED
      BY <3>1
  <2> QED
    BY <1>1, <2>1, <2>2
<1>8. Tidy(u)
  <2> SUFFICES ASSUME NEW i \in 1 .. m + n, u[i].do \in Acquires
               PROVE  /\ u[i].on \in Locks /\ Holding(u, i + 1, u[i].on)
                      /\ \A l \in Locks : Holding(u, i, l) => Rank(l) < Rank(u[i].on)
    BY <1>2 DEF Tidy
  <2>1. CASE i \in 1 .. m
    <3>1. /\ u[i] = a[i] /\ i + 1 \in 1 .. m + 1
      BY <1>1, <1>2, <2>1
    <3>2. /\ a[i].on \in Locks /\ Holding(a, i + 1, a[i].on)
          /\ \A l \in Locks : Holding(a, i, l) => Rank(l) < Rank(a[i].on)
      BY <2>1, <3>1 DEF Proper, Tidy
    <3> QED
      BY <1>3, <1>4, <2>1, <3>1, <3>2
  <2>2. ASSUME NEW k \in 1 .. n, i = m + k
        PROVE  /\ u[i].on \in Locks /\ Holding(u, i + 1, u[i].on)
               /\ \A l \in Locks : Holding(u, i, l) => Rank(l) < Rank(u[i].on)
    <3>1. u[i] = b[k] /\ k + 1 \in 1 .. n + 1 /\ i + 1 = m + (k + 1)
      BY <1>1, <1>2, <2>2
    <3>2. /\ b[k].on \in Locks /\ Holding(b, k + 1, b[k].on)
          /\ \A l \in Locks : Holding(b, k, l) => Rank(l) < Rank(b[k].on)
      BY <2>2, <3>1 DEF Proper, Tidy
    <3> QED
      BY <1>5, <1>6, <2>2, <3>1, <3>2
  <2> QED
    BY <1>7, <2>1, <2>2
<1>9. ASSUME NEW l \in Locks PROVE ~Holding(u, 1, l)
  <2>1. CASE m = 0
    <3>1. Holding(u, 1, l) => Holding(b, 1, l)
      <4>1. CASE n = 0
        BY <1>2, <2>1, <4>1 DEF Holding
      <4>2. CASE n # 0
        <5>1. 1 \in 1 .. n /\ m + 1 = 1
          BY <1>1, <2>1, <4>2
        <5> QED
          BY <1>5, <5>1
      <4> QED
        BY <4>1, <4>2
    <3> QED
      BY <3>1 DEF Proper
  <2>2. CASE m # 0
    <3>1. 1 \in 1 .. m
      BY <1>1, <2>2
    <3> QED
      BY <1>3, <3>1 DEF Proper
  <2> QED
    BY <2>1, <2>2
<1>10. ASSUME NEW i \in 1 .. m + n, u[i].on \in Locks PROVE low < Rank(u[i].on)
  <2>1. \A k \in 1 .. n : i = m + k => u[i] = b[k]
    BY <1>2
  <2> QED
    BY <1>2, <1>7, <1>10, <2>1 DEF Proper
<1>11. Proper(u, low)
  BY <1>2, <1>8, <1>9, <1>10 DEF Proper
<1>12. ASSUME PutsBare(a), PutsBare(b) PROVE PutsBare(u)
  <2> SUFFICES ASSUME NEW i \in 1 .. m + n, u[i].do = "put", NEW l \in Locks, Holding(u, i, l)
               PROVE  FALSE
    BY <1>2 DEF PutsBare
  <2>1. CASE i \in 1 .. m
    BY <1>2, <1>3, <1>12, <2>1 DEF PutsBare
  <2>2. ASSUME NEW k \in 1 .. n, i = m + k PROVE FALSE
    BY <1>2, <1>5, <1>12, <2>2 DEF PutsBare
  <2> QED
    BY <1>7, <2>1, <2>2
<1>13. ASSUME PutsNothing(a), PutsNothing(b) PROVE PutsNothing(u)
  <2> SUFFICES ASSUME NEW i \in 1 .. m + n PROVE u[i].do # "put"
    BY <1>2 DEF PutsNothing
  <2>1. CASE i \in 1 .. m
    BY <1>2, <1>13, <2>1 DEF PutsNothing
  <2>2. ASSUME NEW k \in 1 .. n, i = m + k PROVE u[i].do # "put"
    BY <1>2, <1>13, <2>2 DEF PutsNothing
  <2> QED
    BY <1>7, <2>1, <2>2
<1> QED
  BY <1>11, <1>12, <1>13 DEF u

\* A function that runs with lock l held.
LEMMA UnderIsProper ==
  ASSUME NEW low \in Nat, NEW l \in Locks, low < Rank(l), NEW ops, Proper(ops, Rank(l)),
         NEW acquire \in Acquires, NEW release \in Releases
  PROVE  LET u == Op(acquire, l) \o ops \o Op(release, l)
         IN  /\ Proper(u, low)
             /\ PutsNothing(ops) => PutsNothing(u) /\ PutsBare(u)
<1> DEFINE first == [do |-> acquire, on |-> l]
           last == [do |-> release, on |-> l]
           u == Op(acquire, l) \o ops \o Op(release, l)
           n == Len(ops)
<1>1. /\ first \in Operation /\ first.do = acquire /\ first.on = l
      /\ last \in Operation /\ last.do = release /\ last.on = l
      /\ ops \in Seq(Operation) /\ n \in Nat
  BY DEF Operation, Verbs, Proper
<1> HIDE DEF first, last
<1>2. /\ u \in Seq(Operation) /\ Len(u) = n + 2
      /\ u[1] = first /\ u[n + 2] = last
      /\ \A i \in 1 .. n : u[i + 1] = ops[i]
  <2> DEFINE f == <<first>>
             e == <<last>>
             v == f \o ops
  <2>1. f \in Seq(Operation) /\ Len(f) = 1 /\ f[1] = first
        /\ e \in Seq(Operation) /\ Len(e) = 1 /\ e[1] = last
    BY <1>1
  <2> HIDE DEF f, e
  <2>2. /\ v \in Seq(Operation) /\ Len(v) = 1 + n
        /\ v[1] = f[1] /\ \A i \in 1 .. n : v[1 + i] = ops[i]
    <3>1. 1 \in 1 .. Len(f)
      BY <2>1
    <3>2. /\ v \in Seq(Operation) /\ Len(v) = Len(f) + n
          /\ v[1] = f[1] /\ \A i \in 1 .. n : v[Len(f) + i] = ops[i]
      BY <1>1, <2>1, <3>1, JoinIs, ZenonT(40)
    <3> QED
      BY <2>1, <3>2
  <2> HIDE DEF v
  <2> DEFINE w == v \o e
  <2>3. /\ w \in Seq(Operation) /\ Len(w) = (1 + n) + 1
        /\ \A i \in 1 .. 1 + n : w[i] = v[i]
        /\ w[(1 + n) + 1] = e[1]
    <3>1. 1 \in 1 .. Len(e)
      BY <2>1
    <3>2. /\ w \in Seq(Operation) /\ Len(w) = Len(v) + Len(e)
          /\ \A i \in 1 .. Len(v) : w[i] = v[i]
          /\ w[Len(v) + 1] = e[1]
      BY <2>1, <2>2, <3>1, JoinIs, ZenonT(40)
    <3> QED
      BY <2>1, <2>2, <3>2
  <2>8. w = u
    BY DEF w, v, f, e, first, last, Op
  <2> HIDE DEF w, u
  <2>9. /\ 1 \in 1 .. 1 + n /\ (1 + n) + 1 = n + 2
        /\ \A i \in 1 .. n : i + 1 \in 1 .. 1 + n /\ i + 1 = 1 + i
    BY <1>1
  <2>10. \A i \in 1 .. n : w[i + 1] = ops[i]
    BY <2>2, <2>3, <2>9
  <2> QED
    BY <2>1, <2>2, <2>3, <2>8, <2>9, <2>10
<1> HIDE DEF u
<1>3. /\ acquire \notin Releases /\ release \notin Acquires /\ acquire # "put" /\ release # "put"
      /\ \A k \in 1 .. n : ops[k].on # l
  <2>1. acquire \notin Releases /\ release \notin Acquires /\ acquire # "put" /\ release # "put"
    BY DEF Acquires, Releases
  <2>2. ASSUME NEW k \in 1 .. n, ops[k].on = l PROVE FALSE
    <3>1. Rank(l) < Rank(l) /\ Rank(l) \in 1 .. 3
      BY <2>2, RankIs DEF Proper
    <3> QED
      BY <3>1
  <2> QED
    BY <2>1, <2>2
\* The lock itself.
<1>4. ~Holding(u, 1, l)
  <2> SUFFICES ASSUME NEW j \in 1 .. n + 2, u[j].do \in Releases,
                      \A k \in 1 .. j - 1 : u[k].on # l
               PROVE  FALSE
    BY <1>2 DEF Holding
  <2>1. j # 1
    BY <1>1, <1>2, <1>3
  <2>2. 1 \in 1 .. j - 1
    BY <2>1
  <2> QED
    BY <1>1, <1>2, <2>2
<1>5. ASSUME NEW i \in 2 .. n + 2 PROVE Holding(u, i, l)
  <2>1. ASSUME NEW k \in i .. (n + 2) - 1 PROVE u[k].on # l
    <3>1. k - 1 \in 1 .. n /\ (k - 1) + 1 = k
      BY <1>1, <2>1
    <3>2. u[k] = ops[k - 1]
      BY <1>2, <3>1
    <3> QED
      BY <1>3, <3>1, <3>2
  <2>2. n + 2 \in i .. n + 2
    BY <1>1
  <2> QED
    BY <1>1, <1>2, <2>1, <2>2 DEF Holding
\* The others are held as the function holds them.
<1>6. ASSUME NEW i \in 1 .. n + 1, NEW m \in Locks, m # l, Holding(u, i + 1, m)
      PROVE  i \in 1 .. n /\ Holding(ops, i, m)
  <2>1. PICK j \in i + 1 .. n + 2 :
          u[j].do \in Releases /\ u[j].on = m /\ \A k \in i + 1 .. j - 1 : u[k].on # m
    BY <1>2, <1>6 DEF Holding
  <2>2. j # n + 2
    BY <1>1, <1>2, <1>6, <2>1
  <2> DEFINE j2 == j - 1
  <2>3. j2 \in i .. n /\ j2 \in 1 .. n /\ j2 + 1 = j /\ i \in 1 .. n
    BY <1>1, <2>1, <2>2, SMTT(30)
  <2>4. ASSUME NEW k \in i .. j2 - 1 PROVE ops[k].on # m
    <3>1. k + 1 \in i + 1 .. j - 1 /\ k \in 1 .. n
      BY <1>1, <2>1, <2>3
    <3> QED
      BY <1>2, <2>1, <3>1
  <2> HIDE DEF j2
  <2> QED
    BY <1>2, <2>1, <2>3, <2>4 DEF Holding
<1>7. ASSUME NEW m \in Locks PROVE ~Holding(u, 1, m)
  <2> SUFFICES ASSUME m # l, Holding(u, 1, m) PROVE FALSE
    BY <1>4
  <2>1. PICK j \in 1 .. n + 2 :
          u[j].do \in Releases /\ u[j].on = m /\ \A k \in 1 .. j - 1 : u[k].on # m
    BY <1>2 DEF Holding
  <2>2. j # 1 /\ j # n + 2
    BY <1>1, <1>2, <2>1
  <2>3. j \in 2 .. n + 2 /\ \A k \in 2 .. j - 1 : k \in 1 .. j - 1
    BY <1>1, <2>1, <2>2
  <2>4. Holding(u, 1 + 1, m)
    BY <1>2, <2>1, <2>3 DEF Holding
  <2>5. 1 \in 1 .. n + 1
    BY <1>1
  <2>6. Holding(ops, 1, m)
    BY <1>6, <2>4, <2>5
  <2> QED
    BY <2>6 DEF Proper
<1>8. ASSUME NEW i \in 1 .. n + 1, NEW m, Holding(ops, i, m) PROVE Holding(u, i + 1, m)
  <2>1. PICK j \in i .. n :
          ops[j].do \in Releases /\ ops[j].on = m /\ \A k \in i .. j - 1 : ops[k].on # m
    BY <1>8 DEF Holding
  <2>2. j + 1 \in i + 1 .. n + 2 /\ j \in 1 .. n
    BY <1>1, <2>1
  <2>3. ASSUME NEW k \in i + 1 .. (j + 1) - 1 PROVE u[k].on # m
    <3>1. k - 1 \in i .. j - 1 /\ k - 1 \in 1 .. n /\ (k - 1) + 1 = k
      BY <1>1, <2>1, <2>2
    <3>2. u[k] = ops[k - 1]
      BY <1>2, <3>1
    <3> QED
      BY <2>1, <3>1, <3>2
  <2>4. u[j + 1] = ops[j]
    BY <1>2, <2>2
  <2> QED
    BY <1>2, <2>1, <2>2, <2>3, <2>4 DEF Holding
<1>9. ASSUME NEW i \in 1 .. n + 2
      PROVE  i = 1 \/ i = n + 2 \/ \E k \in 1 .. n : i = k + 1
  <2>1. CASE i # 1 /\ i # n + 2
    <3>1. i - 1 \in 1 .. n /\ i = (i - 1) + 1
      BY <1>1, <2>1
    <3> QED
      BY <3>1
  <2> QED
    BY <2>1
<1>10. Tidy(u)
  <2> SUFFICES ASSUME NEW i \in 1 .. n + 2, u[i].do \in Acquires
               PROVE  /\ u[i].on \in Locks /\ Holding(u, i + 1, u[i].on)
                      /\ \A m \in Locks : Holding(u, i, m) => Rank(m) < Rank(u[i].on)
    BY <1>2 DEF Tidy
  <2>1. CASE i = 1
    <3>1. u[i].on = l /\ i + 1 \in 2 .. n + 2
      BY <1>1, <1>2, <2>1
    <3> QED
      BY <1>5, <1>7, <2>1, <3>1
  <2>2. i # n + 2
    BY <1>1, <1>2, <1>3
  <2>3. ASSUME NEW k \in 1 .. n, i = k + 1
        PROVE  /\ u[i].on \in Locks /\ Holding(u, i + 1, u[i].on)
               /\ \A m \in Locks : Holding(u, i, m) => Rank(m) < Rank(u[i].on)
    <3>1. u[i] = ops[k] /\ k + 1 \in 1 .. n + 1 /\ k \in 1 .. n + 1
      BY <1>1, <1>2, <2>3
    <3>2. /\ ops[k].on \in Locks /\ Holding(ops, k + 1, ops[k].on)
          /\ \A m \in Locks : Holding(ops, k, m) => Rank(m) < Rank(ops[k].on)
          /\ Rank(l) < Rank(ops[k].on)
      BY <2>3, <3>1 DEF Proper, Tidy
    <3>3. Holding(u, i + 1, u[i].on)
      BY <1>8, <2>3, <3>1, <3>2
    <3>4. ASSUME NEW m \in Locks, Holding(u, i, m) PROVE Rank(m) < Rank(u[i].on)
      BY <1>6, <2>3, <3>1, <3>2, <3>4
    <3> QED
      BY <3>1, <3>2, <3>3, <3>4
  <2> QED
    BY <1>9, <2>1, <2>2, <2>3
<1>11. ASSUME NEW i \in 1 .. n + 2, u[i].on \in Locks PROVE low < Rank(u[i].on)
  <2>1. CASE i = 1 \/ i = n + 2
    BY <1>1, <1>2, <2>1
  <2>2. ASSUME NEW k \in 1 .. n, i = k + 1 PROVE low < Rank(u[i].on)
    <3>1. u[i] = ops[k]
      BY <1>2, <2>2
    <3>2. Rank(l) < Rank(ops[k].on) /\ Rank(l) \in Nat /\ Rank(ops[k].on) \in Nat
      BY <1>11, <3>1, RankIs DEF Proper
    <3> QED
      BY <3>1, <3>2
  <2> QED
    BY <1>9, <2>1, <2>2
<1>12. Proper(u, low)
  BY <1>2, <1>7, <1>10, <1>11 DEF Proper
<1>13. ASSUME PutsNothing(ops) PROVE PutsNothing(u)
  <2> SUFFICES ASSUME NEW i \in 1 .. n + 2 PROVE u[i].do # "put"
    BY <1>2 DEF PutsNothing
  <2>1. CASE i = 1 \/ i = n + 2
    BY <1>1, <1>2, <1>3, <2>1
  <2>2. ASSUME NEW k \in 1 .. n, i = k + 1 PROVE u[i].do # "put"
    BY <1>2, <1>13, <2>2 DEF PutsNothing
  <2> QED
    BY <1>9, <2>1, <2>2
<1>14. PutsNothing(u) => PutsBare(u)
  BY DEF PutsNothing, PutsBare
<1> QED
  BY <1>12, <1>13, <1>14 DEF u

LEMMA LockedIsProper ==
  ASSUME NEW low \in Nat, NEW l \in Locks, low < Rank(l), NEW ops, Proper(ops, Rank(l))
  PROVE  /\ Proper(Locked(l, ops), low)
         /\ PutsNothing(ops) => PutsNothing(Locked(l, ops)) /\ PutsBare(Locked(l, ops))
BY UnderIsProper DEF Locked, Acquires, Releases

LEMMA RLockedIsProper ==
  ASSUME NEW low \in Nat, NEW l \in Locks, low < Rank(l), NEW ops, Proper(ops, Rank(l))
  PROVE  /\ Proper(RLocked(l, ops), low)
         /\ PutsNothing(ops) => PutsNothing(RLocked(l, ops)) /\ PutsBare(RLocked(l, ops))
BY UnderIsProper DEF RLocked, Acquires, Releases

--------------------------------------------------------------------------------
(* The functions *)

LEMMA CallsAreProper ==
  /\ Proper(SendToPlayer, 1) /\ PutsNothing(SendToPlayer) /\ PutsBare(SendToPlayer)
  /\ Proper(FindSession, 2) /\ PutsNothing(FindSession) /\ PutsBare(FindSession)
  /\ Proper(HasPlayer, 0) /\ PutsNothing(HasPlayer) /\ PutsBare(HasPlayer)
  /\ Proper(CreateGame, 2) /\ PutsNothing(CreateGame) /\ PutsBare(CreateGame)
  /\ Proper(HandleGameEnd, 2) /\ PutsNothing(HandleGameEnd) /\ PutsBare(HandleGameEnd)
<1>1. /\ "s.mu" \in Locks /\ "h.mu" \in Locks /\ "gm.mu" \in Locks
      /\ Rank("s.mu") = 1 /\ Rank("h.mu") = 2 /\ Rank("gm.mu") = 3
      /\ 0 < 1 /\ 1 < 2 /\ 2 < 3
  BY DEF Locks, Rank
<1>2. \A low \in Nat : Proper(<<>>, low) /\ PutsNothing(<<>>)
  BY NothingIsProper
<1>3. Proper(Do("drop"), 3) /\ PutsNothing(Do("drop"))
  BY DoIsProper
<1>4. Proper(SendToPlayer, 1) /\ PutsNothing(SendToPlayer) /\ PutsBare(SendToPlayer)
  BY <1>1, <1>2, RLockedIsProper DEF SendToPlayer
<1>5. Proper(FindSession, 2) /\ PutsNothing(FindSession) /\ PutsBare(FindSession)
  BY <1>1, <1>2, RLockedIsProper DEF FindSession
<1>6. Proper(HasPlayer, 0) /\ PutsNothing(HasPlayer) /\ PutsBare(HasPlayer)
  BY <1>1, <1>2, RLockedIsProper DEF HasPlayer
<1>7. Proper(CreateGame, 2) /\ PutsNothing(CreateGame) /\ PutsBare(CreateGame)
  BY <1>1, <1>2, LockedIsProper DEF CreateGame
<1>8. Proper(HandleGameEnd, 2) /\ PutsNothing(HandleGameEnd) /\ PutsBare(HandleGameEnd)
  BY <1>1, <1>3, LockedIsProper DEF HandleGameEnd
<1> QED
  BY <1>4, <1>5, <1>6, <1>7, <1>8

\* What a function is that a goroutine other than the hub's may begin.
Bare(ops)  == Proper(ops, 0) /\ PutsBare(ops)
Quiet(ops) == Bare(ops) /\ PutsNothing(ops)

LEMMA ThenIsBare ==
  ASSUME NEW a, NEW b
  PROVE  /\ Bare(a) /\ Bare(b) => Bare(a \o b)
         /\ Quiet(a) /\ Quiet(b) => Quiet(a \o b)
BY ThenIsProper DEF Bare, Quiet

LEMMA LockedIsQuiet ==
  ASSUME NEW l \in Locks, NEW ops, Proper(ops, Rank(l)), PutsNothing(ops)
  PROVE  Quiet(Locked(l, ops)) /\ Quiet(RLocked(l, ops))
<1>1. 0 < Rank(l) /\ 0 \in Nat
  BY RankIs
<1> QED
  BY <1>1, LockedIsProper, RLockedIsProper DEF Quiet, Bare

LEMMA CallsAreQuiet ==
  /\ Quiet(SendToPlayer) /\ Quiet(FindSession) /\ Quiet(HasPlayer) /\ Quiet(CreateGame)
  /\ Quiet(HandleGameEnd)
<1>1. 0 \in Nat /\ 1 \in Nat /\ 2 \in Nat /\ 0 <= 1 /\ 0 <= 2
  OBVIOUS
<1> QED
  BY <1>1, CallsAreProper, ProperBelow DEF Quiet, Bare

LEMMA DoIsBare ==
  ASSUME NEW what \in {"put", "take", "play", "return", "drop", "stop"}
  PROVE  Bare(Do(what)) /\ (what # "put" => Quiet(Do(what)))
BY DoIsProper DEF Bare, Quiet

LEMMA HubIsProper ==
  ASSUME NEW f \in HandleRegister \union HandleUnregister
  PROVE  Proper(f, 0)
<1>1. "h.mu" \in Locks /\ Rank("h.mu") = 2 /\ 0 < 2 /\ 0 \in Nat /\ 2 \in Nat
  BY DEF Locks, Rank
<1>2. Proper(<<>>, 2) /\ Proper(Do("put"), 2)
  BY <1>1, NothingIsProper, DoIsProper
<1>3. ASSUME NEW d \in HandleDisconnect PROVE Proper(d, 2)
  BY <1>1, <1>2, CallsAreProper, ThenIsProper DEF HandleDisconnect
<1>4. \A d : Proper(d, 2) => Proper(Locked("h.mu", d), 0)
  BY <1>1, LockedIsProper
<1> QED
  BY <1>2, <1>3, <1>4 DEF HandleRegister, HandleUnregister

\* What sends to the players with s.mu held.
LEMMA UnderSessionIsQuiet ==
  /\ Quiet(Locked("s.mu", <<>>)) /\ Quiet(Locked("s.mu", Broadcast))
  /\ Quiet(RLocked("s.mu", Broadcast)) /\ Quiet(Locked("s.mu", Broadcast \o HandleGameEnd))
<1>1. "s.mu" \in Locks /\ Rank("s.mu") = 1 /\ 1 \in Nat /\ 2 \in Nat /\ 1 <= 2
  BY DEF Locks, Rank
<1>2. Proper(<<>>, 1) /\ PutsNothing(<<>>)
  BY <1>1, NothingIsProper
<1>3. Proper(Broadcast, 1) /\ PutsNothing(Broadcast)
  BY CallsAreProper DEF Broadcast
<1>4. Proper(HandleGameEnd, 1) /\ PutsNothing(HandleGameEnd)
  BY <1>1, CallsAreProper, ProperBelow
<1>5. Proper(Broadcast \o HandleGameEnd, 1) /\ PutsNothing(Broadcast \o HandleGameEnd)
  BY <1>1, <1>3, <1>4, ThenIsProper
<1> QED
  BY <1>1, <1>2, <1>3, <1>5, LockedIsQuiet

LEMMA TimerIsQuiet ==
  ASSUME NEW f \in ForfeitGame
  PROVE  Quiet(f)
BY UnderSessionIsQuiet DEF ForfeitGame

LEMMA StartIsQuiet == Quiet(Start)
<1>1. Quiet(Do("play"))
  BY DoIsBare
<1>2. Quiet(Locked("s.mu", <<>>) \o RLocked("s.mu", Broadcast))
  BY UnderSessionIsQuiet, ThenIsBare
<1>3. Quiet((Locked("s.mu", <<>>) \o RLocked("s.mu", Broadcast)) \o Locked("s.mu", Broadcast))
  BY <1>2, UnderSessionIsQuiet, ThenIsBare
<1> QED
  BY <1>1, <1>3, ThenIsBare DEF Start

LEMMA RunIsQuiet ==
  ASSUME NEW f \in RoundTimers \union HandleAction \union {Do("return")}
  PROVE  Quiet(f)
<1>1. Quiet(Do("return")) /\ Quiet(Do("take"))
  BY DoIsBare
<1>2. ASSUME NEW a \in HandleAction PROVE Quiet(a)
  BY <1>1, UnderSessionIsQuiet, ThenIsBare DEF HandleAction
<1>3. Quiet(HandleGameEnd \o Do("return"))
  BY <1>1, CallsAreQuiet, ThenIsBare
<1>4. ASSUME NEW a \in FinalizeRound,
             NEW b \in {Locked("s.mu", Broadcast), HandleGameEnd \o Do("return")}
      PROVE  Quiet(a \o b)
  <2>1. Quiet(a) /\ Quiet(b)
    BY <1>3, UnderSessionIsQuiet DEF FinalizeRound
  <2> QED
    BY <2>1, ThenIsBare
<1>5. ASSUME f \in RoundTimers PROVE Quiet(f)
  <2>1. PICK a \in FinalizeRound,
             b \in {Locked("s.mu", Broadcast), HandleGameEnd \o Do("return")} : f = a \o b
    BY <1>5, SMTT(30) DEF RoundTimers
  <2>2. Quiet(a \o b)
    BY <1>4, Zenon
  <2> QED
    BY <2>1, <2>2, Zenon
<1> QED
  BY <1>1, <1>2, <1>5

LEMMA OthersAreBare ==
  ASSUME NEW f \in {SubmitAnswer, HandleReconnect, FindSession, SendToPlayer, CreateMatch,
                    StopSession}
  PROVE  Bare(f)
<1>1. /\ Bare(FindSession) /\ Bare(HasPlayer) /\ Bare(SendToPlayer) /\ Bare(CreateGame)
      /\ Bare(Do("put"))
  BY CallsAreQuiet, DoIsBare DEF Quiet
<1>2. Bare(SubmitAnswer)
  <2>1. Bare(FindSession \o HasPlayer)
    BY <1>1, ThenIsBare
  <2> QED
    BY <1>1, <2>1, ThenIsBare DEF SubmitAnswer
<1>3. Bare(HandleReconnect)
  <2>1. Bare(FindSession \o HasPlayer)
    BY <1>1, ThenIsBare
  <2>2. Bare((FindSession \o HasPlayer) \o HasPlayer)
    BY <1>1, <2>1, ThenIsBare
  <2>3. Bare(((FindSession \o HasPlayer) \o HasPlayer) \o Do("put"))
    BY <1>1, <2>2, ThenIsBare
  <2> QED
    BY <1>1, <2>3, ThenIsBare DEF HandleReconnect
<1>4. Bare(CreateMatch)
  <2>1. Bare(CreateGame \o Broadcast)
    BY <1>1, ThenIsBare DEF Broadcast
  <2> QED
    BY <1>1, <2>1, ThenIsBare DEF CreateMatch
<1>5. Bare(StopSession)
  <2>1. "gm.mu" \in Locks /\ Rank("gm.mu") = 3 /\ 3 \in Nat
    BY DEF Locks, Rank
  <2>2. Proper(Do("stop"), 3) /\ PutsNothing(Do("stop"))
    BY <2>1, DoIsProper
  <2>3. Bare(Locked("gm.mu", Do("stop")))
    BY <2>1, <2>2, LockedIsQuiet DEF Quiet
  <2> QED
    BY <1>1, <2>3, ThenIsBare DEF StopSession
<1> QED
  BY <1>1, <1>2, <1>3, <1>4, <1>5

--------------------------------------------------------------------------------
(* The invariant *)

OrderTypes ==
  /\ todo \in [Goroutines -> Seq(Operation)]
  /\ writing \in [Locks -> SUBSET Goroutines] /\ reading \in [Locks -> SUBSET Goroutines]

\* What each goroutine has still to do is the end of a proper function: of one that puts
\* nothing with a lock held, unless it is the hub's; of one that puts nothing, in run().
DoneInOrder ==
  /\ \A g \in Goroutines : Tidy(todo[g]) /\ (g # "hub" => PutsBare(todo[g]))
  /\ PutsNothing(todo["run"])

\* Who has a lock has still to give it back.
GivenBack ==
  \A g \in Goroutines, l \in Locks :
    g \in writing[l] \union reading[l] => Holding(todo[g], 1, l)

OrderInv == OrderTypes /\ DoneInOrder /\ GivenBack

\* Of the indices that satisfy something there is a least one.
LEMMA LeastIndex ==
  ASSUME NEW I \in SUBSET Nat, I # {}
  PROVE  \E m \in I : \A k \in I : m <= k
<1> DEFINE LessThan == {ss \in Nat \X Nat : ss[1] < ss[2]}
<1>0. IsWellFoundedOn(LessThan, Nat)
  BY NatLessThanWellFounded DEF OpToRel
<1>1. PICK m \in I : \A k \in I : ~(<<k, m>> \in LessThan)
  <2> HIDE DEF LessThan
  <2> QED BY <1>0, WFMin, Zenon
<1>2. \A k \in I : m <= k
  <2> SUFFICES ASSUME NEW k \in I, ~(m <= k) PROVE FALSE
    OBVIOUS
  <2>1. k \in Nat /\ m \in Nat /\ k < m
    BY SMT
  <2>2. <<k, m>> \in LessThan
    BY <2>1
  <2> HIDE DEF LessThan
  <2> QED
    BY <1>1, <2>2, Zenon
<1> QED
  BY <1>2

\* The end of a sequence of operations.
LEMMA EndIs ==
  ASSUME NEW s \in Seq(Operation), NEW d \in 1 .. Len(s), NEW q \in Seq(Operation),
         Len(q) = Len(s) - d, \A i \in 1 .. Len(s) - d : q[i] = s[d + i]
  PROVE  /\ Tidy(s) => Tidy(q)
         /\ PutsBare(s) => PutsBare(q)
         /\ PutsNothing(s) => PutsNothing(q)
         /\ \A i \in 1 .. Len(s) - d + 1, l \in Locks : Holding(q, i, l) <=> Holding(s, d + i, l)
<1> DEFINE n == Len(s) - d
<1>1. Len(s) \in Nat /\ n \in Nat /\ d \in Nat /\ Len(q) = n /\ Len(s) = d + n
  OBVIOUS
<1>2. \A i \in 1 .. n : q[i] = s[d + i]
  OBVIOUS
<1> HIDE DEF n
<1>3. ASSUME NEW i \in 1 .. n + 1, NEW l, Holding(q, i, l) PROVE Holding(s, d + i, l)
  <2>1. PICK j \in i .. n :
          q[j].do \in Releases /\ q[j].on = l /\ \A k \in i .. j - 1 : q[k].on # l
    BY <1>1, <1>3 DEF Holding
  <2>2. d + j \in d + i .. d + n /\ j \in 1 .. n
    BY <1>1, <2>1
  <2>3. ASSUME NEW k \in d + i .. (d + j) - 1 PROVE s[k].on # l
    <3>1. k - d \in i .. j - 1 /\ k - d \in 1 .. n /\ d + (k - d) = k
      BY <1>1, <2>1, <2>2
    <3>2. s[k] = q[k - d]
      BY <1>2, <3>1
    <3> QED
      BY <2>1, <3>1, <3>2
  <2>4. s[d + j] = q[j]
    BY <1>2, <2>2
  <2> QED
    BY <1>1, <2>1, <2>2, <2>3, <2>4 DEF Holding
<1>4. ASSUME NEW i \in 1 .. n + 1, NEW l, Holding(s, d + i, l) PROVE Holding(q, i, l)
  <2>1. PICK j \in d + i .. d + n :
          s[j].do \in Releases /\ s[j].on = l /\ \A k \in d + i .. j - 1 : s[k].on # l
    BY <1>1, <1>4 DEF Holding
  <2> DEFINE j2 == j - d
  <2>2. j2 \in i .. n /\ j2 \in 1 .. n /\ d + j2 = j
    BY <1>1, <2>1
  <2>3. ASSUME NEW k \in i .. j2 - 1 PROVE q[k].on # l
    <3>1. d + k \in d + i .. j - 1 /\ k \in 1 .. n
      BY <1>1, <2>1, <2>2
    <3> QED
      BY <1>2, <2>1, <3>1
  <2> HIDE DEF j2
  <2> QED
    BY <1>1, <1>2, <2>1, <2>2, <2>3 DEF Holding
<1>5. ASSUME NEW i \in 1 .. n
      PROVE  /\ d + i \in 1 .. d + n /\ q[i] = s[d + i]
             /\ i \in 1 .. n + 1 /\ i + 1 \in 1 .. n + 1 /\ d + (i + 1) = (d + i) + 1
  BY <1>1, <1>2
<1>6. ASSUME Tidy(s) PROVE Tidy(q)
  <2> SUFFICES ASSUME NEW i \in 1 .. n, q[i].do \in Acquires
               PROVE  /\ q[i].on \in Locks /\ Holding(q, i + 1, q[i].on)
                      /\ \A l \in Locks : Holding(q, i, l) => Rank(l) < Rank(q[i].on)
    BY <1>1 DEF Tidy
  <2>1. /\ q[i].on \in Locks /\ Holding(s, (d + i) + 1, q[i].on)
        /\ \A l \in Locks : Holding(s, d + i, l) => Rank(l) < Rank(q[i].on)
    BY <1>1, <1>5, <1>6 DEF Tidy
  <2> QED
    BY <1>3, <1>4, <1>5, <2>1
<1>7. ASSUME PutsBare(s) PROVE PutsBare(q)
  <2> SUFFICES ASSUME NEW i \in 1 .. n, q[i].do = "put", NEW l \in Locks, Holding(q, i, l)
               PROVE  FALSE
    BY <1>1 DEF PutsBare
  <2> QED
    BY <1>1, <1>3, <1>5, <1>7 DEF PutsBare
<1>8. ASSUME PutsNothing(s) PROVE PutsNothing(q)
  BY <1>1, <1>5, <1>8 DEF PutsNothing
<1> QED
  BY <1>3, <1>4, <1>6, <1>7, <1>8 DEF n

LEMMA FirstIs ==
  ASSUME NEW s \in Seq(Operation), s # <<>>
  PROVE  /\ Len(s) \in Nat \ {0} /\ Head(s) = s[1] /\ 1 \in 1 .. Len(s) /\ Head(s) \in Operation
         /\ Tail(s) \in Seq(Operation) /\ Len(Tail(s)) = Len(s) - 1
         /\ \A i \in 1 .. Len(s) - 1 : Tail(s)[i] = s[i + 1]
<1>1. /\ Len(s) \in Nat \ {0} /\ Head(s) = s[1]
      /\ Tail(s) \in Seq(Operation) /\ Len(Tail(s)) = Len(s) - 1
  BY HeadTailProperties
<1>2. 1 \in 1 .. Len(s)
  BY <1>1
<1>3. s[1] \in Operation
  BY <1>2
<1>4. ASSUME NEW i \in 1 .. Len(s) - 1 PROVE Tail(s)[i] = s[i + 1]
  BY <1>1, <1>4, HeadTailProperties
<1> QED
  BY <1>1, <1>2, <1>3, <1>4

\* The locks that are given back at the beginning of a sequence of operations.
LEMMA GivesBackFirst ==
  ASSUME NEW ops \in Seq(Operation)
  PROVE  \E n \in 0 .. Len(ops) :
           /\ \A i \in 1 .. n : ops[i].do \in Releases
           /\ n = Len(ops) \/ ops[n + 1].do \notin Releases
<1> DEFINE Cut(n) == n = Len(ops) \/ ops[n + 1].do \notin Releases
           I == {n \in 0 .. Len(ops) : Cut(n)}
<1>1. Len(ops) \in Nat /\ I \in SUBSET Nat /\ Len(ops) \in I
  OBVIOUS
<1>2. PICK n \in I : \A k \in I : n <= k
  <2> HIDE DEF I
  <2> QED
    BY <1>1, LeastIndex
<1>3. n \in 0 .. Len(ops) /\ Cut(n)
  BY <1>2
<1>4. ASSUME NEW i \in 1 .. n PROVE ops[i].do \in Releases
  <2>1. i - 1 \in 0 .. Len(ops) /\ ~(n <= i - 1) /\ (i - 1) + 1 = i
    <3> HIDE DEF I, Cut
    <3> QED
      BY <1>1, <1>3
  <2>2. i - 1 \notin I
    <3> HIDE DEF I
    <3> QED
      BY <1>2, <2>1
  <2> QED
    BY <2>1, <2>2
<1> QED
  BY <1>3, <1>4

\* A goroutine carries out an operation that gives nothing back, and what follows.
LEMMA ProceedKeeps ==
  ASSUME OrderInv, NEW g \in Goroutines, todo[g] # <<>>, Head(todo[g]).do \notin Releases,
         NEW w \in [Locks -> SUBSET Goroutines], NEW r \in [Locks -> SUBSET Goroutines],
         Proceed(g, w, r),
         \A h \in Goroutines, l \in Locks : h \in w[l] \union r[l] =>
           \/ h \in writing[l] \union reading[l]
           \/ h = g /\ Head(todo[g]).do \in Acquires /\ Head(todo[g]).on = l
  PROVE  OrderInv'
<1>1. OrderTypes /\ DoneInOrder /\ GivenBack
  BY DEF OrderInv
<1>2. PICK s \in Seq(Operation) : s = todo[g]
  BY <1>1 DEF OrderTypes
<1>3. /\ Len(s) \in Nat \ {0} /\ Head(s) = s[1] /\ 1 \in 1 .. Len(s)
      /\ Tail(s) \in Seq(Operation) /\ Len(Tail(s)) = Len(s) - 1
      /\ \A i \in 1 .. Len(s) - 1 : Tail(s)[i] = s[i + 1]
  BY <1>2, FirstIs
<1> DEFINE ops == Tail(s)
           Back(n) == /\ \A i \in 1 .. n : ops[i].do \in Releases
                      /\ n = Len(ops) \/ ops[n + 1].do \notin Releases
           n == CHOOSE n \in 0 .. Len(ops) : Back(n)
           back == {ops[i].on : i \in 1 .. n}
           q == SubSeq(ops, n + 1, Len(ops))
           Without(holders) == [l \in Locks |-> IF l \in back THEN holders[l] \ {g} ELSE holders[l]]
<1>4. n \in 0 .. Len(ops)
  <2>1. \E k \in 0 .. Len(ops) : Back(k)
    BY <1>3, GivesBackFirst
  <2> HIDE DEF Back
  <2> QED
    BY <2>1
<1>5. /\ todo' = [todo EXCEPT ![g] = q]
      /\ writing' = Without(w) /\ reading' = Without(r)
  BY <1>2, SMTT(30) DEF Proceed, Releases
<1> HIDE DEF n
<1> DEFINE d == n + 1
<1>6. /\ q \in Seq(Operation) /\ Len(q) = Len(s) - d /\ d \in 1 .. Len(s) /\ n \in Nat
      /\ \A i \in 1 .. Len(s) - d : q[i] = s[d + i]
  <2>1. n + 1 \in Int /\ Len(ops) \in Int /\ n \in Nat /\ d \in 1 .. Len(s)
    BY <1>3, <1>4
  <2>2. \A i \in n + 1 .. Len(ops) : ops[i] \in Operation
    BY <1>3, <1>4
  <2>3. /\ q \in Seq(Operation)
        /\ Len(q) = IF n + 1 <= Len(ops) THEN Len(ops) - (n + 1) + 1 ELSE 0
        /\ \A i \in 1 .. Len(ops) - (n + 1) + 1 : q[i] = ops[n + 1 + i - 1]
    BY <2>1, <2>2, SubSeqProperties
  <2> HIDE DEF q, ops
  <2>4. Len(q) = Len(s) - d /\ Len(ops) - (n + 1) + 1 = Len(s) - d
    <3> DEFINE m == Len(ops)
    <3>1. m = Len(s) - 1 /\ n \in 0 .. m
      BY <1>3, <1>4 DEF ops
    <3> HIDE DEF m
    <3>2. m \in Nat /\ n \in Nat /\ n <= m /\ Len(s) - d = m - n
      BY <1>3, <3>1
    <3> HIDE DEF d
    <3>3. m - (n + 1) + 1 = m - n /\ (IF n + 1 <= m THEN m - (n + 1) + 1 ELSE 0) = m - n
      BY <3>2
    <3> QED
      BY <2>3, <3>2, <3>3 DEF m
  <2>5. ASSUME NEW i \in 1 .. Len(s) - d PROVE q[i] = s[d + i]
    <3>1. /\ n + 1 + i - 1 = n + i /\ n + i \in 1 .. Len(s) - 1 /\ (n + i) + 1 = d + i
      BY <1>3, <2>1
    <3>2. q[i] = ops[n + i]
      BY <2>3, <2>4, <3>1
    <3> QED
      BY <1>3, <3>1, <3>2 DEF ops
  <2> QED
    BY <2>1, <2>3, <2>4, <2>5
<1> HIDE DEF q
<1>7. /\ Tidy(s) => Tidy(q)
      /\ PutsBare(s) => PutsBare(q)
      /\ PutsNothing(s) => PutsNothing(q)
      /\ \A l \in Locks : Holding(s, d + 1, l) => Holding(q, 1, l)
  <2>1. 1 \in 1 .. Len(s) - d + 1
    BY <1>3, <1>6
  <2> HIDE DEF d
  <2> QED
    BY <1>6, <2>1, EndIs
<1>8. OrderTypes'
  <2>1. todo' \in [Goroutines -> Seq(Operation)]
    BY <1>1, <1>5, <1>6 DEF OrderTypes
  <2>2. writing' \in [Locks -> SUBSET Goroutines] /\ reading' \in [Locks -> SUBSET Goroutines]
    <3> HIDE DEF back
    <3> QED
      BY <1>5
  <2> QED
    BY <2>1, <2>2 DEF OrderTypes
<1>9. /\ todo'[g] = q /\ \A h \in Goroutines : h # g => todo'[h] = todo[h]
  BY <1>1, <1>5 DEF OrderTypes
<1>10. DoneInOrder'
  <2>1. ASSUME NEW h \in Goroutines
        PROVE  /\ Tidy(todo'[h]) /\ (h # "hub" => PutsBare(todo'[h]))
               /\ PutsNothing(todo[h]) => PutsNothing(todo'[h])
    <3>1. CASE h = g
      BY <1>1, <1>2, <1>7, <1>9, <3>1 DEF DoneInOrder
    <3>2. CASE h # g
      BY <1>1, <1>9, <3>2 DEF DoneInOrder
    <3> QED
      BY <3>1, <3>2
  <2>2. "run" \in Goroutines
    BY DEF Goroutines
  <2>3. PutsNothing(todo'["run"])
    BY <1>1, <2>1, <2>2 DEF DoneInOrder
  <2> QED
    BY <2>1, <2>3 DEF DoneInOrder
<1>11. GivenBack'
  <2> SUFFICES ASSUME NEW h \in Goroutines, NEW l \in Locks, h \in writing'[l] \union reading'[l]
               PROVE  Holding(todo'[h], 1, l)
    BY DEF GivenBack
  <2>1. h \in w[l] \union r[l] /\ (h = g => l \notin back)
    <3> HIDE DEF back
    <3> QED
      BY <1>5
  <2>2. CASE h # g
    <3>1. h \in writing[l] \union reading[l]
      BY <2>1, <2>2
    <3> QED
      BY <1>1, <1>9, <2>2, <3>1 DEF GivenBack
  <2>3. CASE h = g
    <3>1. Holding(s, 2, l)
      <4>1. CASE g \in writing[l] \union reading[l]
        <5>1. Holding(s, 1, l)
          BY <1>1, <1>2, <4>1 DEF GivenBack
        <5>2. PICK j \in 1 .. Len(s) :
                s[j].do \in Releases /\ s[j].on = l /\ \A k \in 1 .. j - 1 : s[k].on # l
          BY <5>1 DEF Holding
        <5>3. j # 1
          BY <1>2, <1>3, <5>2
        <5>4. j \in 2 .. Len(s) /\ \A k \in 2 .. j - 1 : k \in 1 .. j - 1
          BY <1>3, <5>2, <5>3
        <5> QED
          BY <5>2, <5>4 DEF Holding
      <4>2. CASE s[1].do \in Acquires /\ s[1].on = l
        <5>1. Holding(s, 1 + 1, l)
          BY <1>1, <1>2, <1>3, <4>2 DEF DoneInOrder, Tidy
        <5> QED
          BY <5>1
      <4> QED
        BY <1>2, <1>3, <2>1, <2>3, <4>1, <4>2
    <3>2. PICK j \in 2 .. Len(s) :
            s[j].do \in Releases /\ s[j].on = l /\ \A k \in 2 .. j - 1 : s[k].on # l
      BY <3>1 DEF Holding
    <3>3. ~(j <= d)
      <4> SUFFICES ASSUME j <= d PROVE FALSE
        OBVIOUS
      <4>1. j - 1 \in 1 .. n /\ j - 1 \in 1 .. Len(s) - 1 /\ (j - 1) + 1 = j
        BY <1>3, <1>6, <3>2
      <4>2. ops[j - 1] = s[j]
        BY <1>3, <4>1
      <4>3. l \in back
        BY <3>2, <4>1, <4>2
      <4> QED
        BY <2>1, <2>3, <4>3
    <3>4. j \in d + 1 .. Len(s) /\ \A k \in d + 1 .. j - 1 : k \in 2 .. j - 1
      BY <1>3, <1>6, <3>2, <3>3
    <3>5. Holding(s, d + 1, l)
      BY <3>2, <3>4 DEF Holding
    <3> QED
      BY <1>7, <1>9, <2>3, <3>5
  <2> QED
    BY <2>2, <2>3
<1> QED
  BY <1>8, <1>10, <1>11 DEF OrderInv

LEMMA BeginKeeps ==
  ASSUME OrderInv, NEW g \in Goroutines, Begin(g)
  PROVE  OrderInv'
<1>1. OrderTypes /\ DoneInOrder /\ GivenBack /\ todo[g] = <<>> /\ UNCHANGED <<writing, reading>>
  BY DEF OrderInv, Begin
<1>2. PICK f \in Functions(g) : todo' = [todo EXCEPT ![g] = f]
  BY DEF Begin
<1>3. Proper(f, 0) /\ (g # "hub" => PutsBare(f)) /\ (g = "run" => PutsNothing(f))
  <2>1. CASE g = "hub"
    <3>1. Functions(g) = HandleRegister \union HandleUnregister
      BY <2>1 DEF Functions
    <3> QED
      BY <2>1, <3>1, HubIsProper
  <2>2. CASE g = "timer"
    <3>1. f \in ForfeitGame
      BY <2>2 DEF Functions
    <3> QED
      BY <2>2, <3>1, TimerIsQuiet DEF Quiet, Bare
  <2>3. CASE g = "run"
    <3>1. f \in RoundTimers \union HandleAction \union {Do("return")}
      BY <2>3 DEF Functions
    <3> QED
      BY <3>1, RunIsQuiet DEF Quiet, Bare
  <2>4. CASE g \notin {"hub", "timer", "run"}
    <3>1. f \in {SubmitAnswer, HandleReconnect, FindSession, SendToPlayer, CreateMatch,
                 StopSession}
      BY <2>4 DEF Functions
    <3> QED
      BY <2>4, <3>1, OthersAreBare DEF Bare
  <2> QED
    BY <2>1, <2>2, <2>3, <2>4
<1>4. f \in Seq(Operation) /\ Tidy(f)
  BY <1>3 DEF Proper
<1>5. /\ todo' \in [Goroutines -> Seq(Operation)] /\ todo'[g] = f
      /\ \A h \in Goroutines : h # g => todo'[h] = todo[h]
  BY <1>1, <1>2, <1>4 DEF OrderTypes
<1>6. OrderTypes'
  BY <1>1, <1>5 DEF OrderTypes
<1>7. DoneInOrder'
  <2>1. "run" \in Goroutines
    BY DEF Goroutines
  <2>2. PutsNothing(todo'["run"])
    BY <1>1, <1>3, <1>5, <2>1 DEF DoneInOrder
  <2>3. ASSUME NEW h \in Goroutines
        PROVE  Tidy(todo'[h]) /\ (h # "hub" => PutsBare(todo'[h]))
    <3>1. CASE h = g
      BY <1>3, <1>4, <1>5, <3>1
    <3>2. CASE h # g
      BY <1>1, <1>5, <3>2 DEF DoneInOrder
    <3> QED
      BY <3>1, <3>2
  <2> QED
    BY <2>2, <2>3 DEF DoneInOrder
\* Who rests holds nothing.
<1>8. GivenBack'
  <2>1. \A l \in Locks : g \notin writing[l] \union reading[l]
    BY <1>1 DEF GivenBack, Holding
  <2> SUFFICES ASSUME NEW h \in Goroutines, NEW l \in Locks, h \in writing[l] \union reading[l]
               PROVE  Holding(todo'[h], 1, l)
    BY <1>1 DEF GivenBack
  <2>2. h # g
    BY <2>1
  <2> QED
    BY <1>1, <1>5, <2>2 DEF GivenBack
<1> QED
  BY <1>6, <1>7, <1>8 DEF OrderInv

\* The lock that a goroutine wants.
LEMMA WantedIs ==
  ASSUME OrderInv, NEW g \in Goroutines, NEW do \in Acquires, Wants(g, do)
  PROVE  /\ todo[g] # <<>> /\ Head(todo[g]).do = do /\ Wanted(g) = Head(todo[g]).on
         /\ Wanted(g) \in Locks
         /\ \A l \in Locks : Holding(todo[g], 1, l) => Rank(l) < Rank(Wanted(g))
<1>1. /\ todo[g] # <<>> /\ Head(todo[g]).do = do /\ Wanted(g) = Head(todo[g]).on
      /\ todo[g] \in Seq(Operation) /\ Tidy(todo[g])
  BY DEF Wants, Wanted, OrderInv, OrderTypes, DoneInOrder
<1>2. Head(todo[g]) = todo[g][1] /\ 1 \in 1 .. Len(todo[g])
  BY <1>1, FirstIs
<1> QED
  BY <1>1, <1>2 DEF Tidy

LEMMA OrderInvariant == OrderSpec => []OrderInv
<1>1. OrderInit => OrderInv
  <2> SUFFICES ASSUME OrderInit PROVE OrderInv
    OBVIOUS
  <2>1. Quiet(Start) /\ Quiet(<<>>)
    BY StartIsQuiet, NothingIsProper DEF Quiet, Bare
  <2>2. /\ todo \in [Goroutines -> {Start, <<>>}]
        /\ \A l \in Locks : writing[l] = {} /\ reading[l] = {}
        /\ writing \in [Locks -> SUBSET Goroutines] /\ reading \in [Locks -> SUBSET Goroutines]
    BY DEF OrderInit, Free
  <2>3. \A ops \in {Start, <<>>} :
          ops \in Seq(Operation) /\ Tidy(ops) /\ PutsBare(ops) /\ PutsNothing(ops)
    BY <2>1 DEF Quiet, Bare, Proper
  <2>4. \A g \in Goroutines : todo[g] \in {Start, <<>>}
    BY <2>2
  <2>5. todo \in [Goroutines -> Seq(Operation)]
    BY <2>2, <2>3
  <2>6. OrderTypes /\ GivenBack
    BY <2>2, <2>5 DEF OrderTypes, GivenBack
  <2>7. "run" \in Goroutines
    BY DEF Goroutines
  <2>8. DoneInOrder
    BY <2>3, <2>4, <2>7 DEF DoneInOrder
  <2> QED
    BY <2>6, <2>8 DEF OrderInv
<1>2. OrderInv /\ [OrderNext]_orderVars => OrderInv'
  <2> SUFFICES ASSUME OrderInv, [OrderNext]_orderVars PROVE OrderInv'
    OBVIOUS
  <2>0. writing \in [Locks -> SUBSET Goroutines] /\ reading \in [Locks -> SUBSET Goroutines]
    BY DEF OrderInv, OrderTypes
  <2>1. ASSUME NEW g \in Goroutines, Begin(g) PROVE OrderInv'
    BY <2>1, BeginKeeps
  <2>2. ASSUME NEW g \in Goroutines, WriteLock(g) PROVE OrderInv'
    <3>1. /\ todo[g] # <<>> /\ Head(todo[g]).do = "lock" /\ Wanted(g) = Head(todo[g]).on
          /\ Wanted(g) \in Locks
      BY <2>2, WantedIs DEF WriteLock, Acquires
    <3> DEFINE w == [writing EXCEPT ![Wanted(g)] = {g}]
    <3>2. w \in [Locks -> SUBSET Goroutines] /\ Proceed(g, w, reading)
      BY <2>0, <2>2, <3>1 DEF WriteLock
    <3>3. \A h \in Goroutines, l \in Locks : h \in w[l] \union reading[l] =>
            h \in writing[l] \union reading[l] \/ (h = g /\ Wanted(g) = l)
      BY <2>0, <3>1
    <3> HIDE DEF w
    <3>4. "lock" \in Acquires /\ "lock" \notin Releases
      BY DEF Acquires, Releases
    <3> QED
      BY <2>0, <3>1, <3>2, <3>3, <3>4, ProceedKeeps
  <2>3. ASSUME NEW g \in Goroutines, ReadLock(g) PROVE OrderInv'
    <3>1. /\ todo[g] # <<>> /\ Head(todo[g]).do = "rlock" /\ Wanted(g) = Head(todo[g]).on
          /\ Wanted(g) \in Locks
      BY <2>3, WantedIs DEF ReadLock, Acquires
    <3> DEFINE r == [reading EXCEPT ![Wanted(g)] = @ \union {g}]
    <3>2. r \in [Locks -> SUBSET Goroutines] /\ Proceed(g, writing, r)
      BY <2>0, <2>3, <3>1 DEF ReadLock
    <3>3. \A h \in Goroutines, l \in Locks : h \in writing[l] \union r[l] =>
            h \in writing[l] \union reading[l] \/ (h = g /\ Wanted(g) = l)
      BY <2>0, <3>1
    <3> HIDE DEF r
    <3>4. "rlock" \in Acquires /\ "rlock" \notin Releases
      BY DEF Acquires, Releases
    <3> QED
      BY <2>0, <3>1, <3>2, <3>3, <3>4, ProceedKeeps
  <2>4. ASSUME NEW g \in Goroutines, Put(g) \/ Take(g) \/ Mark(g) PROVE OrderInv'
    <3>1. Proceed(g, writing, reading)
      BY <2>4 DEF Put, Take, Mark
    <3>2. todo[g] # <<>> /\ Head(todo[g]).do \in {"put", "take", "play", "return", "drop", "stop"}
      BY <2>4 DEF Put, Take, Mark, Wants
    <3>3. Head(todo[g]).do \notin Releases
      BY <3>2 DEF Releases
    <3> QED
      BY <2>0, <3>1, <3>2, <3>3, ProceedKeeps
  <2>5. CASE UNCHANGED orderVars
    BY <2>5 DEF orderVars, OrderInv, OrderTypes, DoneInOrder, GivenBack
  <2> QED
    BY <2>1, <2>2, <2>3, <2>4, <2>5 DEF OrderNext
<1> QED
  BY <1>1, <1>2, PTL DEF OrderSpec

--------------------------------------------------------------------------------
(* Nobody waits in a circle *)

\* Nobody waits in a circle, whatever the number of goroutines and the capacity of actionCh,
\* except one in which the hub's goroutine waits for room in a full actionCh with h.mu in
\* its hand (hub.go:78-87, manager.go:151, session.go:163).
THEOREM NobodyWaitsInACircle == OrderSpec => []NoCircle
<1>1. ASSUME OrderInv, NEW D \in SUBSET Goroutines, D # {},
             \A g \in D : WaitsFor(g) \intersect D # {},
             ~("hub" \in D /\ HubInFullChannel)
      PROVE  FALSE
  <2> DEFINE Held(l) == writing[l] \union reading[l]
             Acquiring(g) == Wants(g, "lock") \/ Wants(g, "rlock")
             Putting(g) == Wants(g, "put") /\ queued = ActionCap
  <2>1. ASSUME NEW g \in D PROVE g \in Goroutines /\ (Acquiring(g) \/ Putting(g))
    <3>1. WaitsFor(g) # {}
      BY <1>1
    <3> QED
      BY <1>1, <3>1 DEF WaitsFor
  <2>2. ASSUME NEW g \in D, Putting(g) PROVE g # "hub" /\ "run" \in D
    <3>1. todo[g] # <<>> /\ Head(todo[g]).do = "put" /\ queued = ActionCap
      BY <2>2 DEF Wants
    <3>2. WaitsFor(g) \subseteq {"run"}
      BY <3>1 DEF WaitsFor, Wants
    <3>3. "run" \in D
      BY <1>1, <3>2
    <3>4. g # "hub"
      BY <1>1, <2>2 DEF HubInFullChannel
    <3> QED
      BY <3>3, <3>4
  \* Of those that want a lock, there is one that holds it.
  <2>3. ASSUME NEW g \in D, Acquiring(g)
        PROVE  Wanted(g) \in Locks /\ \E h \in D : h \in Held(Wanted(g))
    <3>1. Wanted(g) \in Locks
      BY <2>1, <2>3, <1>1, WantedIs DEF Acquires
    <3>2. ASSUME NEW x \in D, Wants(x, "lock") PROVE \E h \in D : h \in Held(Wanted(x))
      <4>1. WaitsFor(x) = Held(Wanted(x))
        BY <3>2 DEF WaitsFor, Wants
      <4> QED
        BY <1>1, <4>1
    <3>3. CASE Wants(g, "lock")
      BY <3>1, <3>2, <3>3
    <3>4. CASE Wants(g, "rlock")
      <4> DEFINE l == Wanted(g)
      <4>1. WaitsFor(g) = writing[l] \union
              {x \in Goroutines : reading[l] # {} /\ Wants(x, "lock") /\ Wanted(x) = l}
        <5>1. todo[g] # <<>> /\ ~Wants(g, "lock")
          BY <3>4 DEF Wants
        <5>2. Wants(g, "rlock") /\ ~Wants(g, "put")
          BY <3>4 DEF Wants
        <5> QED
          BY <5>1, <5>2 DEF WaitsFor
      <4>2. PICK x \in D : x \in WaitsFor(g)
        BY <1>1
      <4>3. CASE x \in writing[l]
        BY <3>1, <4>3
      <4>4. CASE Wants(x, "lock") /\ Wanted(x) = l
        BY <3>1, <3>2, <4>4
      <4> QED
        BY <4>1, <4>2, <4>3, <4>4
    <3> QED
      BY <2>3, <3>3, <3>4
  \* Who holds a lock wants a higher one.
  <2>4. ASSUME NEW h \in D, NEW l \in Locks, h \in Held(l)
        PROVE  Acquiring(h) /\ Rank(l) < Rank(Wanted(h))
    <3>1. h \in Goroutines /\ Holding(todo[h], 1, l)
      BY <1>1, <2>4 DEF OrderInv, GivenBack
    <3>2. ~Putting(h)
      <4> SUFFICES ASSUME Putting(h) PROVE FALSE
        OBVIOUS
      <4>1. h # "hub" /\ todo[h] # <<>> /\ Head(todo[h]).do = "put"
        BY <2>2 DEF Wants
      <4>2. PutsBare(todo[h]) /\ todo[h] \in Seq(Operation)
        BY <1>1, <3>1, <4>1 DEF OrderInv, DoneInOrder, OrderTypes
      <4>3. todo[h][1].do = "put" /\ 1 \in 1 .. Len(todo[h])
        BY <4>1, <4>2, FirstIs
      <4> QED
        BY <3>1, <4>2, <4>3 DEF PutsBare
    <3>3. Acquiring(h)
      BY <2>1, <3>2
    <3> QED
      BY <1>1, <3>1, <3>3, WantedIs DEF Acquires
  <2> HIDE DEF Held, Acquiring
  \* So each lock that one of them wants is below another.
  <2>5. ASSUME NEW g \in D, Acquiring(g)
        PROVE  \E h \in D : Acquiring(h) /\ Rank(Wanted(g)) < Rank(Wanted(h))
    BY <2>3, <2>4, <2>5
  <2>6. \A g \in D : Acquiring(g) => Rank(Wanted(g)) \in 1 .. 3
    BY <2>3, RankIs
  <2>7. \A g \in D : Acquiring(g) => ~(Rank(Wanted(g)) >= 3)
    BY <2>5, <2>6
  <2>8. \A g \in D : Acquiring(g) => ~(Rank(Wanted(g)) >= 2)
    BY <2>5, <2>6, <2>7
  <2>9. \A g \in D : ~Acquiring(g)
    BY <2>5, <2>6, <2>8
  \* And one does want a lock, for run() puts nothing.
  <2>10. PICK g \in D : TRUE
    BY <1>1
  <2>11. "run" \in D
    BY <2>1, <2>2, <2>9, <2>10
  <2>12. ~Wants("run", "put")
    <3> SUFFICES ASSUME Wants("run", "put") PROVE FALSE
      OBVIOUS
    <3>1. todo["run"] \in Seq(Operation) /\ PutsNothing(todo["run"])
      BY <1>1, <2>11 DEF OrderInv, OrderTypes, DoneInOrder
    <3>2. todo["run"] # <<>> /\ Head(todo["run"]).do = "put"
      BY DEF Wants
    <3> QED
      BY <3>1, <3>2, FirstIs DEF PutsNothing
  <2> QED
    BY <2>1, <2>9, <2>11, <2>12
<1>2. OrderInv => NoCircle
  <2> SUFFICES ASSUME OrderInv, NEW D \in (SUBSET Goroutines) \ {{}},
                      \A g \in D : WaitsFor(g) \intersect D # {},
                      ~("hub" \in D /\ HubInFullChannel)
               PROVE  FALSE
    BY DEF NoCircle
  <2>1. D \in SUBSET Goroutines /\ D # {}
    OBVIOUS
  <2> QED
    BY <1>1, <2>1, Zenon
<1> QED
  BY <1>2, OrderInvariant, PTL
================================================================================
