--------------------------- MODULE SquarePoll_proofs ---------------------------
(***************************************************************************)
(* Theorems about SquarePoll.  The invariant says where calls in flight     *)
(* may ask from and what has come out so far; Deliver needs what a page     *)
(* holds and what folding #firstSighting over it does, so those come first. *)
(***************************************************************************)
EXTENDS SquarePoll, FiniteSetTheorems, SequenceTheorems, WellFoundedInduction, TLAPS

------------------------------------------------------------------------------
(* Pages.                                                                   *)

(* A set of natural numbers has a least member.                             *)
LEMMA Least ==
  ASSUME NEW S \in SUBSET Nat, S # {}
  PROVE  \E m \in S : \A k \in S : m <= k
<1> DEFINE Below == OpToRel(<, Nat)
<1>1. IsWellFoundedOn(Below, Nat)
  BY NatLessThanWellFounded
<1>2. \A x, y \in Nat : <<y, x>> \in Below <=> y < x
  BY DEF OpToRel
<1> HIDE DEF Below
<1>3. \E x \in S : \A y \in S : ~ (<<y, x>> \in Below)
  <2>1. S \subseteq Nat /\ S # {}
    OBVIOUS
  <2> QED
    BY <1>1, <2>1, WFMin, Zenon
<1>4. PICK x \in S : \A y \in S : ~ (<<y, x>> \in Below)
  BY <1>3
<1>5. \A k \in S : x \in Nat /\ k \in Nat /\ ~ (k < x)
  BY <1>2, <1>4
<1>6. \A k \in S : x <= k
  BY <1>5
<1> QED
  BY <1>4, <1>6

------------------------------------------------------------------------------
(* The messages of a page.                                                  *)

Kept(from, to) == {p \in (from + 1)..to : log[p] = "message"}

Rising(s) == \A i, j \in DOMAIN s : i < j => s[i] < s[j]

(* They can be put in order, by induction on the end of the page.           *)
LEMMA KeptInOrder ==
  ASSUME NEW from \in Nat, NEW to \in Nat
  PROVE  \E g \in Seq(Nat) : Rising(g) /\ \A p \in Nat : Contains(g, p) <=> p \in Kept(from, to)
<1> DEFINE Orders(k) ==
             {g \in Seq(Nat) : Rising(g) /\ \A p \in Nat : Contains(g, p) <=> p \in Kept(from, k)}
           Bad == {k \in Nat : Orders(k) = {}}
<1>1. Orders(0) # {}
  <2>1. <<>> \in Seq(Nat) /\ Len(<<>>) = 0 /\ DOMAIN <<>> = {}
    OBVIOUS
  <2>2. Kept(from, 0) = {}
    BY DEF Kept
  <2>3. <<>> \in Orders(0)
    BY <2>1, <2>2 DEF Rising, Contains
  <2> QED
    BY <2>3
<1>2. ASSUME NEW k \in Nat \ {0}, NEW g \in Orders(k - 1)
      PROVE  Orders(k) # {}
  <2>1. /\ g \in Seq(Nat) /\ Rising(g) /\ Len(g) \in Nat /\ DOMAIN g = 1..Len(g)
        /\ \A p \in Nat : Contains(g, p) <=> p \in Kept(from, k - 1)
    OBVIOUS
  <2>2. \A p \in Nat : p \in Kept(from, k) <=> p \in Kept(from, k - 1) \/ (p = k /\ k \in Kept(from, k))
    BY DEF Kept
  <2>3. CASE k \notin Kept(from, k)
    <3>1. g \in Orders(k)
      BY <2>1, <2>2, <2>3
    <3> QED
      BY <3>1
  <2>4. CASE k \in Kept(from, k)
    <3> DEFINE h == Append(g, k)
    <3>1. /\ h \in Seq(Nat) /\ Len(h) = Len(g) + 1 /\ h[Len(g) + 1] = k
          /\ \A i \in 1..Len(g) : h[i] = g[i]
      BY <2>1, AppendProperties
    <3>2. DOMAIN h = 1..(Len(g) + 1)
      BY <2>1, <3>1
    <3> HIDE DEF h
    <3>3. \A i \in 1..Len(g) : g[i] \in Nat /\ g[i] < k
      <4> SUFFICES ASSUME NEW i \in 1..Len(g)
                   PROVE  g[i] \in Nat /\ g[i] < k
        OBVIOUS
      <4>1. g[i] \in Nat /\ Contains(g, g[i])
        BY <2>1 DEF Contains
      <4>2. g[i] \in Kept(from, k - 1)
        BY <2>1, <4>1
      <4> QED
        BY <4>1, <4>2 DEF Kept
    <3>4. Rising(h)
      <4> SUFFICES ASSUME NEW i \in DOMAIN h, NEW j \in DOMAIN h, i < j
                   PROVE  h[i] < h[j]
        BY DEF Rising
      <4>1. CASE j = Len(g) + 1
        <5>1. i \in 1..Len(g)
          BY <2>1, <3>2, <4>1
        <5>2. h[i] = g[i] /\ h[j] = k /\ g[i] < k
          BY <3>1, <3>3, <4>1, <5>1
        <5> QED
          BY <5>2
      <4>2. CASE j # Len(g) + 1
        <5>1. i \in 1..Len(g) /\ j \in 1..Len(g)
          BY <2>1, <3>2, <4>2
        <5> QED
          BY <2>1, <3>1, <5>1 DEF Rising
      <4> QED
        BY <4>1, <4>2
    <3>5. \A p \in Nat : Contains(h, p) <=> Contains(g, p) \/ p = k
      <4>1. \A i \in 1..(Len(g) + 1) : i \in 1..Len(g) \/ i = Len(g) + 1
        BY <2>1
      <4>2. 1..Len(g) \subseteq 1..(Len(g) + 1) /\ Len(g) + 1 \in 1..(Len(g) + 1)
        BY <2>1
      <4> QED
        BY <3>1, <4>1, <4>2 DEF Contains
    <3>6. h \in Orders(k)
      BY <2>1, <2>2, <2>4, <3>1, <3>4, <3>5
    <3> QED
      BY <3>6
  <2> QED
    BY <2>3, <2>4
<1>3. Bad = {}
  <2> SUFFICES ASSUME Bad # {}
               PROVE  FALSE
    OBVIOUS
  <2>1. Bad \in SUBSET Nat
    OBVIOUS
  <2> HIDE DEF Bad
  <2>2. PICK k \in Bad : \A l \in Bad : k <= l
    BY <2>1, Least
  <2>3. k \in Nat /\ Orders(k) = {}
    BY <2>2 DEF Bad
  <2>4. k # 0
    BY <1>1, <2>3
  <2>5. k - 1 \in Nat /\ ~(k <= k - 1)
    BY <2>3, <2>4
  <2>6. Orders(k - 1) # {}
    BY <2>2, <2>5 DEF Bad
  <2> HIDE DEF Orders
  <2> QED
    BY <1>2, <2>3, <2>4, <2>6
<1> QED
  BY <1>3

(* A page is a sequence of just these, in order.                            *)
LEMMA PageInOrder ==
  ASSUME NEW from \in Nat, NEW to \in Nat, NEW page, page = Messages(from, to)
  PROVE  /\ page \in Seq(Nat) /\ Rising(page)
         /\ \A p \in Nat : Contains(page, p) <=> p \in Kept(from, to)
<1> DEFINE kept == Kept(from, to)
<1>1. PICK g \in Seq(Nat) : Rising(g) /\ \A p \in Nat : Contains(g, p) <=> p \in kept
  BY KeptInOrder
<1> DEFINE n == Len(g)
<1>2. n \in Nat /\ DOMAIN g = 1..n /\ g \in [1..n -> Nat] /\ kept \subseteq Nat
  BY DEF Kept
<1>3. \A i \in 1..n : g[i] \in kept
  BY <1>1, <1>2 DEF Contains
<1>4. \A p \in kept : \E i \in 1..n : g[i] = p
  BY <1>1, <1>2 DEF Contains
<1>5. \A i, j \in 1..n : g[i] = g[j] => i = j
  <2> SUFFICES ASSUME NEW i \in 1..n, NEW j \in 1..n, g[i] = g[j]
               PROVE  i = j
    OBVIOUS
  <2>1. g[i] \in Nat /\ g[j] \in Nat /\ (i < j => g[i] < g[j]) /\ (j < i => g[j] < g[i])
    BY <1>1, <1>2 DEF Rising
  <2> QED
    BY <1>2, <2>1
<1> HIDE DEF kept, n
<1>6. g \in [1..n -> kept]
  BY <1>2, <1>3
<1>7. ExistsBijection(1..n, kept)
  <2>1. g \in Bijection(1..n, kept)
    BY <1>4, <1>5, <1>6 DEF Bijection, Injection, Surjection, IsInjective
  <2> QED
    BY <2>1 DEF ExistsBijection
<1>8. IsFiniteSet(1..n) /\ Cardinality(1..n) = n
  BY <1>2, FS_Interval
<1>9. IsFiniteSet(kept) /\ Cardinality(kept) = n
  BY <1>7, <1>8, FS_Bijection
<1>10. page = CHOOSE s \in [1..n -> kept] : Rising(s)
  BY <1>9 DEF Messages, Rising, kept, Kept
<1>11. page \in [1..n -> kept] /\ Rising(page)
  BY <1>1, <1>6, <1>10
<1>12. \A i, j \in 1..n : page[i] = page[j] => i = j
  <2> SUFFICES ASSUME NEW i \in 1..n, NEW j \in 1..n, page[i] = page[j]
               PROVE  i = j
    OBVIOUS
  <2>1. page[i] \in Nat /\ page[j] \in Nat /\ (i < j => page[i] < page[j])
        /\ (j < i => page[j] < page[i])
    BY <1>2, <1>11 DEF Rising
  <2> QED
    BY <1>2, <2>1
<1>13. page \in Injection(1..n, kept)
  BY <1>11, <1>12 DEF Injection, IsInjective
<1>14. page \in Surjection(1..n, kept)
  <2> DEFINE slots == 1..n
  <2>1. IsFiniteSet(kept) /\ Cardinality(slots) = Cardinality(kept) /\ page \in Injection(slots, kept)
    BY <1>8, <1>9, <1>13
  <2> HIDE DEF slots
  <2>2. page \in Surjection(slots, kept)
    BY <2>1, FS_Injection
  <2> QED
    BY <2>2 DEF slots
<1>15. page \in Seq(Nat) /\ Len(page) = n
  <2>1. page \in [1..n -> Nat]
    BY <1>2, <1>11 DEF kept, Kept
  <2>2. page \in Seq(Nat)
    BY <1>2, <2>1
  <2>3. Len(page) = n
    BY <1>2, <2>1, <2>2
  <2> QED
    BY <2>2, <2>3
<1>16. \A p \in kept : \E i \in 1..n : page[i] = p
  BY <1>14 DEF Surjection
<1>17. \A p \in Nat : Contains(page, p) <=> p \in kept
  BY <1>11, <1>15, <1>16 DEF Contains
<1> QED
  BY <1>11, <1>15, <1>17 DEF kept

------------------------------------------------------------------------------
(* Folding FirstSighting over a page.                                       *)

Sift(base, page, g, s) ==
  IF s = {} THEN base ELSE FirstSighting(g[s \ {Max(s)}], page[Max(s)])

LEMMA LastOfRange ==
  ASSUME NEW k \in Nat \ {0}, NEW s \in SUBSET (1..k), k \in s
  PROVE  Max(s) = k
<1>1. \A y \in s : k >= y /\ y \in Nat
  OBVIOUS
<1>2. Max(s) \in s /\ Max(s) >= k
  BY <1>1 DEF Max
<1>3. Max(s) \in Nat /\ Max(s) <= k
  BY <1>1, <1>2
<1> QED
  BY <1>2, <1>3

(* The recursive function behind the fold exists, by induction on the       *)
(* length of the page.                                                      *)
LEMMA SiftExists ==
  ASSUME NEW base, NEW page, NEW n \in Nat
  PROVE  \E g : g = [s \in SUBSET (1..n) |-> Sift(base, page, g, s)]
<1> DEFINE Has(k) == \E g : g = [s \in SUBSET (1..k) |-> Sift(base, page, g, s)]
           Bad == {k \in Nat : ~ Has(k)}
<1>1. Has(0)
  <2>1. 1..0 = {} /\ SUBSET (1..0) = {{}}
    OBVIOUS
  <2> DEFINE g == [s \in SUBSET (1..0) |-> base]
  <2>2. \A s \in SUBSET (1..0) : Sift(base, page, g, s) = base
    BY <2>1 DEF Sift
  <2>3. g = [s \in SUBSET (1..0) |-> Sift(base, page, g, s)]
    BY <2>2
  <2> QED
    BY <2>3
<1>2. ASSUME NEW k \in Nat \ {0}, Has(k - 1)
      PROVE  Has(k)
  <2>1. PICK g : g = [s \in SUBSET (1..(k - 1)) |-> Sift(base, page, g, s)]
    BY <1>2
  <2> DEFINE h == [s \in SUBSET (1..k) |->
                     IF k \in s THEN FirstSighting(g[s \ {k}], page[k]) ELSE g[s]]
  <2>2. \A s \in SUBSET (1..(k - 1)) : s \in SUBSET (1..k) /\ k \notin s /\ h[s] = g[s]
    OBVIOUS
  <2>3. ASSUME NEW s \in SUBSET (1..k), k \in s
        PROVE  h[s] = Sift(base, page, h, s)
    <3>1. s \ {k} \in SUBSET (1..(k - 1))
      OBVIOUS
    <3>2. h[s \ {k}] = g[s \ {k}]
      BY <2>2, <3>1
    <3>3. Max(s) = k
      BY <2>3, LastOfRange
    <3>4. h[s] = FirstSighting(g[s \ {k}], page[k])
      BY <2>3
    <3> HIDE DEF h
    <3> QED
      BY <2>3, <3>2, <3>3, <3>4 DEF Sift
  <2>4. ASSUME NEW s \in SUBSET (1..k), k \notin s
        PROVE  h[s] = Sift(base, page, h, s)
    <3>1. s \in SUBSET (1..(k - 1))
      BY <2>4
    <3>2. h[s] = g[s] /\ g[s] = Sift(base, page, g, s)
      BY <2>1, <2>2, <3>1
    <3> HIDE DEF h
    <3>3. CASE s = {}
      BY <3>2, <3>3 DEF Sift
    <3>4. CASE s # {}
      <4>1. s \ {Max(s)} \in SUBSET (1..(k - 1))
        BY <3>1
      <4>2. h[s \ {Max(s)}] = g[s \ {Max(s)}]
        BY <2>2, <4>1
      <4> QED
        BY <3>2, <3>4, <4>2 DEF Sift
    <3> QED
      BY <3>3, <3>4
  <2>5. \A s \in SUBSET (1..k) : h[s] = Sift(base, page, h, s)
    BY <2>3, <2>4
  <2>6. h = [s \in SUBSET (1..k) |-> h[s]]
    OBVIOUS
  <2> HIDE DEF h
  <2>7. h = [s \in SUBSET (1..k) |-> Sift(base, page, h, s)]
    BY <2>5, <2>6
  <2> QED
    BY <2>7
<1>3. Bad = {}
  <2> SUFFICES ASSUME Bad # {}
               PROVE  FALSE
    OBVIOUS
  <2>1. Bad \in SUBSET Nat
    OBVIOUS
  <2> HIDE DEF Bad
  <2>2. PICK k \in Bad : \A l \in Bad : k <= l
    BY <2>1, Least
  <2>3. k \in Nat /\ ~ Has(k)
    BY <2>2 DEF Bad
  <2>4. k # 0
    BY <1>1, <2>3
  <2>5. k - 1 \in Nat /\ ~(k <= k - 1)
    BY <2>3, <2>4
  <2>6. Has(k - 1)
    BY <2>2, <2>5 DEF Bad
  <2> HIDE DEF Has
  <2> QED
    BY <1>2, <2>3, <2>4, <2>6
<1> QED
  BY <1>3

(* So the fold is the last of a sequence of outputs, one for each message   *)
(* taken.                                                                   *)
LEMMA FoldSteps ==
  ASSUME NEW base, NEW page \in Seq(Nat)
  PROVE  \E outs :
           /\ outs[0] = base
           /\ \A k \in 1..Len(page) : outs[k] = FirstSighting(outs[k - 1], page[k])
           /\ FoldLeft(FirstSighting, base, page) = outs[Len(page)]
<1>1. DOMAIN page = 1..Len(page) /\ Len(page) \in Nat
  OBVIOUS
<1>2. \E g : g = [s \in SUBSET DOMAIN page |-> Sift(base, page, g, s)]
  <2> DEFINE n == Len(page)
  <2>1. n \in Nat /\ DOMAIN page = 1..n
    BY <1>1
  <2> HIDE DEF n
  <2>2. \E g : g = [s \in SUBSET (1..n) |-> Sift(base, page, g, s)]
    BY <2>1, SiftExists
  <2> QED
    BY <2>1, <2>2, Zenon
<1> DEFINE it == CHOOSE h : h = [s \in SUBSET DOMAIN page |-> Sift(base, page, h, s)]
<1>3. it = [s \in SUBSET DOMAIN page |-> Sift(base, page, it, s)]
  BY <1>2
<1>4. FoldLeft(FirstSighting, base, page) = it[DOMAIN page]
  BY DEF FoldLeft, MapThenFoldSet, Sift
<1> HIDE DEF it
<1>5. \A s \in SUBSET (1..Len(page)) : it[s] = Sift(base, page, it, s)
  BY <1>1, <1>3
<1> DEFINE outs == [k \in 0..Len(page) |-> it[1..k]]
<1>6. outs[0] = base
  <2>1. 1..0 = {} /\ 0 \in 0..Len(page)
    BY <1>1
  <2> QED
    BY <1>5, <2>1 DEF Sift
<1>7. \A k \in 1..Len(page) : outs[k] = FirstSighting(outs[k - 1], page[k])
  <2> SUFFICES ASSUME NEW k \in 1..Len(page)
               PROVE  outs[k] = FirstSighting(outs[k - 1], page[k])
    OBVIOUS
  <2>1. /\ k \in Nat \ {0} /\ k \in 0..Len(page) /\ k - 1 \in 0..Len(page)
        /\ 1..k \in SUBSET (1..Len(page)) /\ k \in 1..k /\ 1..k # {}
    <3>1. k \in Nat /\ 1 <= k /\ k <= Len(page) /\ Len(page) \in Nat
      BY <1>1
    <3>2. k \in Nat \ {0} /\ k \in 0..Len(page) /\ k - 1 \in 0..Len(page) /\ k \in 1..k
      BY <3>1
    <3>3. \A x \in 1..k : x \in 1..Len(page)
      BY <3>1
    <3> QED
      BY <3>2, <3>3, Zenon
  <2>2. Max(1..k) = k
    BY <2>1, LastOfRange
  <2>3. (1..k) \ {k} = 1..(k - 1)
    BY <2>1
  <2>4. it[1..k] = FirstSighting(it[1..(k - 1)], page[k])
    BY <1>5, <2>1, <2>2, <2>3 DEF Sift
  <2> QED
    BY <2>1, <2>4
<1>8. FoldLeft(FirstSighting, base, page) = outs[Len(page)]
  BY <1>1, <1>4
<1> QED
  BY <1>6, <1>7, <1>8

(* What the staggered loop has put out so far: it remembers the last        *)
(* SeenMax messages, or all while they are fewer, and a message repeated    *)
(* lies further back than that.                                             *)
Sighted(out) ==
  /\ out.seen \in Seq(1..MaxLog) /\ out.emitted \in Seq(1..MaxLog)
  /\ Len(out.seen) = Smaller(SeenMax, Len(out.emitted))
  /\ \A i \in 1..Len(out.seen) :
       out.seen[i] = out.emitted[Len(out.emitted) - Len(out.seen) + i]
  /\ \A i, j \in 1..Len(out.emitted) :
       i < j /\ out.emitted[i] = out.emitted[j] => j - i > SeenMax

(* One more message is emitted exactly if it is not among the remembered,   *)
(* and is among the emitted afterwards.                                     *)
LEMMA SightingKeeps ==
  ASSUME NEW out, Sighted(out), NEW p \in 1..MaxLog, NEW new, new = FirstSighting(out, p)
  PROVE  /\ Sighted(new)
         /\ \A q : Contains(new.emitted, q) <=> Contains(out.emitted, q) \/ q = p
<1> DEFINE s == out.seen
           e == out.emitted
           m == Len(s)
           n == Len(e)
<1> USE PollAssumption
<1>1. /\ s \in Seq(1..MaxLog) /\ e \in Seq(1..MaxLog) /\ m = Len(s) /\ n = Len(e)
      /\ m \in Nat /\ n \in Nat /\ SeenMax \in Nat \ {0} /\ m = Smaller(SeenMax, n)
  BY DEF Sighted
<1>2. \A i \in 1..m : s[i] = e[n - m + i]
  BY DEF Sighted
<1>3. \A i, j \in 1..n : i < j /\ e[i] = e[j] => j - i > SeenMax
  BY DEF Sighted
<1> HIDE DEF m, n
<1>4. /\ m \in Nat /\ n \in Nat /\ SeenMax \in Nat \ {0}
      /\ m <= n /\ m <= SeenMax /\ (m = SeenMax \/ m = n)
  BY <1>1 DEF Smaller
<1>5. CASE Contains(s, p)
  <2>1. new = out
    BY <1>5 DEF FirstSighting
  <2>2. PICK i \in 1..m : s[i] = p
    BY <1>1, <1>5 DEF Contains
  <2>3. n - m + i \in 1..n
    BY <1>4, <2>2
  <2>4. Contains(e, p)
    BY <1>1, <1>2, <2>2, <2>3 DEF Contains
  <2> QED
    BY <2>1, <2>4
<1>6. CASE ~ Contains(s, p)
  <2> DEFINE a == Append(s, p)
             t == IF Len(a) > SeenMax THEN Tail(a) ELSE a
             f == Append(e, p)
  <2>1. new = [seen |-> t, emitted |-> f]
    BY <1>6 DEF FirstSighting
  <2>2. f \in Seq(1..MaxLog) /\ Len(f) = n + 1
    BY <1>1, AppendProperties
  <2>3. f[n + 1] = p /\ \A i \in 1..n : f[i] = e[i]
    BY <1>1, AppendProperties
  <2>4. a \in Seq(1..MaxLog) /\ Len(a) = m + 1
    <3>1. s \in Seq(1..MaxLog) /\ m = Len(s)
      BY <1>1
    <3> QED
      BY <3>1, AppendProperties
  <2>5. a[m + 1] = p /\ \A i \in 1..m : a[i] = s[i]
    <3>1. s \in Seq(1..MaxLog) /\ m = Len(s)
      BY <1>1
    <3> QED
      BY <3>1, AppendProperties
  <2> HIDE DEF a, f
  <2>6. \A i \in 1..(m + 1) : a[i] = f[n - m + i]
    <3> SUFFICES ASSUME NEW i \in 1..(m + 1)
                 PROVE  a[i] = f[n - m + i]
      OBVIOUS
    <3>1. CASE i = m + 1
      <4>1. n - m + i = n + 1
        BY <1>4, <3>1
      <4> QED
        BY <2>3, <2>5, <3>1, <4>1
    <3>2. CASE i # m + 1
      <4>1. i \in 1..m /\ n - m + i \in 1..n
        BY <1>4, <3>2
      <4> QED
        BY <1>2, <2>3, <2>5, <4>1
    <3> QED
      BY <3>1, <3>2
  <2>7. /\ t \in Seq(1..MaxLog) /\ Len(t) = Smaller(SeenMax, n + 1)
        /\ \A i \in 1..Len(t) : t[i] = f[n + 1 - Len(t) + i]
    <3>1. CASE m = SeenMax
      <4>1. t = Tail(a) /\ a # <<>>
        BY <1>4, <2>4, <3>1
      <4>2. t \in Seq(1..MaxLog) /\ Len(t) = m + 1 - 1
        <5>1. a \in Seq(1..MaxLog) /\ a # <<>>
          BY <2>4, <4>1
        <5>2. Tail(a) \in Seq(1..MaxLog) /\ Len(Tail(a)) = Len(a) - 1
          BY <5>1, HeadTailProperties
        <5> HIDE DEF t
        <5>3. Len(a) = m + 1 /\ t = Tail(a)
          BY <2>4, <4>1
        <5> QED
          BY <1>4, <5>2, <5>3
      <4>3. Len(t) = m
        BY <1>4, <4>2
      <4>4. \A i \in 1..m : t[i] = a[i + 1]
        <5> HIDE DEF t
        <5> QED
          BY <2>4, <4>1, <4>3, HeadTailProperties
      <4> HIDE DEF t
      <4>5. Len(t) = Smaller(SeenMax, n + 1)
        BY <1>4, <3>1, <4>3 DEF Smaller
      <4>6. \A i \in 1..m : t[i] = f[n + 1 - m + i]
        <5> SUFFICES ASSUME NEW i \in 1..m
                     PROVE  t[i] = f[n + 1 - m + i]
          OBVIOUS
        <5>1. i + 1 \in 1..(m + 1) /\ n - m + (i + 1) = n + 1 - m + i
          BY <1>4
        <5> QED
          BY <2>6, <4>4, <5>1
      <4> QED
        BY <4>2, <4>3, <4>5, <4>6
    <3>2. CASE m # SeenMax
      <4>1. t = a
        BY <1>4, <2>4, <3>2
      <4>2. m + 1 = Smaller(SeenMax, n + 1)
        BY <1>4, <3>2 DEF Smaller
      <4>3. n + 1 - (m + 1) = n - m
        BY <1>4
      <4> HIDE DEF t
      <4> QED
        BY <2>4, <2>6, <4>1, <4>2, <4>3
    <3> QED
      BY <3>1, <3>2
  <2>8. \A i, j \in 1..(n + 1) : i < j /\ f[i] = f[j] => j - i > SeenMax
    <3> SUFFICES ASSUME NEW i \in 1..(n + 1), NEW j \in 1..(n + 1), i < j, f[i] = f[j]
                 PROVE  j - i > SeenMax
      OBVIOUS
    <3>1. i \in 1..n
      BY <1>4
    <3>2. f[i] = e[i]
      BY <2>3, <3>1
    <3>3. CASE j = n + 1
      <4>1. e[i] = p
        BY <2>3, <3>2, <3>3
      <4>2. ~ (i > n - m)
        <5> SUFFICES ASSUME i > n - m
                     PROVE  FALSE
          OBVIOUS
        <5> DEFINE k == i - (n - m)
        <5>1. k \in 1..m /\ n - m + k = i
          BY <1>4, <3>1
        <5> HIDE DEF k
        <5>2. s[k] = p
          BY <1>2, <4>1, <5>1
        <5> QED
          BY <1>1, <1>6, <5>1, <5>2 DEF Contains
      <4> QED
        BY <1>4, <3>1, <3>3, <4>2
    <3>4. CASE j # n + 1
      <4>1. j \in 1..n
        BY <1>4, <3>4
      <4>2. f[j] = e[j]
        BY <2>3, <4>1
      <4> QED
        BY <1>3, <3>1, <3>2, <4>1, <4>2
    <3> QED
      BY <3>3, <3>4
  <2>9. \A q : Contains(f, q) <=> Contains(e, q) \/ q = p
    <3>1. \A i : i \in 1..(n + 1) <=> i \in 1..n \/ i = n + 1
      BY <1>4
    <3>2. \A q : Contains(f, q) <=> \E i \in 1..(n + 1) : f[i] = q
      BY <2>2 DEF Contains
    <3>3. \A q : Contains(e, q) <=> \E i \in 1..n : e[i] = q
      BY <1>1 DEF Contains
    <3> QED
      BY <2>3, <3>1, <3>2, <3>3
  <2> HIDE DEF t
  <2>10. new.seen = t /\ new.emitted = f
    BY <2>1
  <2>11. Sighted(new)
    <3>1. new.seen \in Seq(1..MaxLog) /\ Len(new.seen) = Smaller(SeenMax, Len(new.emitted))
      BY <2>2, <2>7, <2>10
    <3>2. new.emitted \in Seq(1..MaxLog)
      BY <2>2, <2>10
    <3>3. \A i \in 1..Len(new.seen) :
            new.seen[i] = new.emitted[Len(new.emitted) - Len(new.seen) + i]
      <4>1. Len(f) = n + 1 /\ \A i \in 1..Len(t) : t[i] = f[n + 1 - Len(t) + i]
        BY <2>2, <2>7
      <4> QED
        BY <1>4, <2>10, <4>1
    <3>4. \A i, j \in 1..Len(new.emitted) :
            i < j /\ new.emitted[i] = new.emitted[j] => j - i > SeenMax
      BY <2>2, <2>8, <2>10
    <3> QED
      BY <3>1, <3>2, <3>3, <3>4 DEF Sighted
  <2> QED
    BY <2>9, <2>10, <2>11
<1> QED
  BY <1>5, <1>6

(* A page emits what it holds and was not there yet, and nothing else.      *)
LEMMA FoldKeeps ==
  ASSUME NEW base, Sighted(base), NEW page \in Seq(1..MaxLog),
         NEW out, out = FoldLeft(FirstSighting, base, page)
  PROVE  /\ Sighted(out)
         /\ \A q : Contains(out.emitted, q) <=> Contains(base.emitted, q) \/ Contains(page, q)
<1> USE PollAssumption
<1>1. page \in Seq(Nat) /\ Len(page) \in Nat /\ \A k \in 1..Len(page) : page[k] \in 1..MaxLog
  <2>1. \A x \in 1..MaxLog : x \in Nat
    OBVIOUS
  <2> QED
    BY <2>1
<1>2. PICK outs : /\ outs[0] = base
                  /\ \A k \in 1..Len(page) : outs[k] = FirstSighting(outs[k - 1], page[k])
                  /\ FoldLeft(FirstSighting, base, page) = outs[Len(page)]
  BY <1>1, FoldSteps, Zenon
<1> DEFINE Took(k) == /\ Sighted(outs[k])
                      /\ \A q : Contains(outs[k].emitted, q)
                                  <=> Contains(base.emitted, q) \/ \E i \in 1..k : page[i] = q
           Bad == {k \in 0..Len(page) : ~ Took(k)}
<1>3. Took(0)
  BY <1>2
<1>4. ASSUME NEW k \in 1..Len(page), Took(k - 1)
      PROVE  Took(k)
  <2> DEFINE old == outs[k - 1]
             new == outs[k]
  <2>1. new = FirstSighting(old, page[k]) /\ page[k] \in 1..MaxLog
    BY <1>1, <1>2
  <2>2. /\ Sighted(old)
        /\ \A q : Contains(old.emitted, q)
                    <=> Contains(base.emitted, q) \/ \E i \in 1..(k - 1) : page[i] = q
    BY <1>4
  <2> HIDE DEF old, new
  <2>3. /\ Sighted(new)
        /\ \A q : Contains(new.emitted, q) <=> Contains(old.emitted, q) \/ q = page[k]
    BY <2>1, <2>2, SightingKeeps
  <2>4. \A i : i \in 1..k <=> i \in 1..(k - 1) \/ i = k
    BY <1>1
  <2>5. \A q : Contains(new.emitted, q)
                 <=> Contains(base.emitted, q) \/ \E i \in 1..k : page[i] = q
    BY <2>2, <2>3, <2>4
  <2> QED
    BY <2>3, <2>5 DEF new
<1>5. Bad = {}
  <2> SUFFICES ASSUME Bad # {}
               PROVE  FALSE
    OBVIOUS
  <2>1. Bad \in SUBSET Nat
    BY <1>1
  <2> HIDE DEF Bad
  <2>2. PICK k \in Bad : \A l \in Bad : k <= l
    BY <2>1, Least
  <2>3. k \in 0..Len(page) /\ ~ Took(k)
    BY <2>2 DEF Bad
  <2>4. k # 0
    BY <1>3, <2>3
  <2>5. k \in 1..Len(page) /\ k - 1 \in 0..Len(page) /\ ~(k <= k - 1)
    BY <1>1, <2>3, <2>4
  <2>6. Took(k - 1)
    BY <2>2, <2>5 DEF Bad
  <2> HIDE DEF Took
  <2> QED
    BY <1>4, <2>3, <2>5, <2>6
<1>6. Took(Len(page))
  BY <1>1, <1>5
<1> QED
  BY <1>2, <1>6 DEF Contains

------------------------------------------------------------------------------
(* The calls in flight.                                                     *)

LEMMA Removed ==
  ASSUME NEW S, NEW s \in Seq(S), NEW i \in 1..Len(s), NEW r, r = RemoveAt(s, i)
  PROVE  /\ r \in Seq(S) /\ Len(r) = Len(s) - 1
         /\ \A j \in 1..Len(r) : r[j] = IF j < i THEN s[j] ELSE s[j + 1]
<1> DEFINE n == Len(s)
           a == SubSeq(s, 1, i - 1)
           b == SubSeq(s, i + 1, n)
<1>1. n \in Nat /\ i \in Nat /\ 1 <= i /\ i <= n /\ \A j \in 1..n : s[j] \in S
  OBVIOUS
<1>2. a \in Seq(S) /\ Len(a) = i - 1 /\ \A j \in 1..(i - 1) : a[j] = s[j]
  <2>1. a = [j \in 1..(i - 1) |-> s[j]]
    BY <1>1
  <2>2. \A j \in 1..(i - 1) : j \in 1..n
    BY <1>1
  <2>3. a \in [1..(i - 1) -> S]
    <3> HIDE DEF a, n
    <3> QED
      BY <1>1, <2>1, <2>2
  <2> QED
    BY <1>1, <2>1, <2>3
<1>3. b \in Seq(S) /\ Len(b) = n - i /\ \A j \in 1..(n - i) : b[j] = s[j + i]
  <2>1. b = [j \in 1..(n - i) |-> s[j + i]]
    BY <1>1
  <2>2. \A j \in 1..(n - i) : j + i \in 1..n
    BY <1>1
  <2>3. b \in [1..(n - i) -> S]
    <3> HIDE DEF b, n
    <3> QED
      BY <1>1, <2>1, <2>2
  <2> QED
    BY <1>1, <2>1, <2>3
<1>4. r = a \o b
  BY DEF RemoveAt
<1> HIDE DEF n, a, b
<1>5. /\ r \in Seq(S) /\ Len(r) = i - 1 + (n - i)
      /\ \A j \in 1..Len(r) : r[j] = IF j <= i - 1 THEN a[j] ELSE b[j - (i - 1)]
  BY <1>2, <1>3, <1>4, ConcatProperties
<1>6. Len(r) = n - 1
  BY <1>1, <1>5
<1>7. ASSUME NEW j \in 1..(n - 1)
      PROVE  r[j] = IF j < i THEN s[j] ELSE s[j + 1]
  <2>1. CASE j < i
    <3>1. j \in 1..(i - 1)
      BY <1>1, <2>1
    <3> QED
      BY <1>1, <1>2, <1>5, <1>6, <2>1, <3>1
  <2>2. CASE ~ (j < i)
    <3>1. j - (i - 1) \in 1..(n - i) /\ j - (i - 1) + i = j + 1 /\ ~ (j <= i - 1)
      BY <1>1, <2>2
    <3> QED
      BY <1>3, <1>5, <1>6, <2>2, <3>1
  <2> QED
    BY <2>1, <2>2
<1> QED
  BY <1>5, <1>6, <1>7 DEF n

(* What is known of a call stays as it is, except that it may be given up.  *)
Aged(new, old) ==
  /\ new.from = old.from /\ new.sent = old.sent
  /\ new.got = old.got /\ new.to = old.to
  /\ old.late => new.late

(* Calls have settled, timed out or been told to stop, pages have been      *)
(* taken, and no call was made or answered.                                 *)
Thins(new, old) ==
  /\ new \in Seq(Fetch) /\ Len(new) <= Len(old)
  /\ \A i \in 1..Len(new) : \E j \in 1..Len(old) : Aged(new[i], old[j])

LEMMA ThinsTwice ==
  ASSUME NEW a \in Seq(Fetch), NEW b, NEW c, Thins(b, a), Thins(c, b)
  PROVE  Thins(c, a)
<1>1. Len(a) \in Nat /\ Len(b) \in Nat /\ Len(c) \in Nat
  BY DEF Thins
<1>2. Len(c) <= Len(a)
  BY <1>1 DEF Thins
<1>3. \A i \in 1..Len(c) : \E j \in 1..Len(a) : Aged(c[i], a[j])
  <2> SUFFICES ASSUME NEW i \in 1..Len(c)
               PROVE  \E j \in 1..Len(a) : Aged(c[i], a[j])
    OBVIOUS
  <2>1. PICK k \in 1..Len(b) : Aged(c[i], b[k])
    BY DEF Thins
  <2>2. PICK j \in 1..Len(a) : Aged(b[k], a[j])
    BY DEF Thins
  <2>3. Aged(c[i], a[j])
    BY <2>1, <2>2 DEF Aged
  <2> QED
    BY <2>3
<1> QED
  BY <1>2, <1>3 DEF Thins

LEMMA RemovedThins ==
  ASSUME NEW s \in Seq(Fetch), NEW i \in 1..Len(s), NEW r, r = RemoveAt(s, i)
  PROVE  Thins(r, s)
<1>1. /\ r \in Seq(Fetch) /\ Len(r) = Len(s) - 1
      /\ \A j \in 1..Len(r) : r[j] = IF j < i THEN s[j] ELSE s[j + 1]
  BY Removed
<1>2. \A j \in 1..Len(r) : \E k \in 1..Len(s) : r[j] = s[k]
  <2> SUFFICES ASSUME NEW j \in 1..Len(r)
               PROVE  \E k \in 1..Len(s) : r[j] = s[k]
    OBVIOUS
  <2>1. j \in 1..Len(s) /\ j + 1 \in 1..Len(s)
    BY <1>1
  <2> QED
    BY <1>1, <2>1
<1>3. \A j \in 1..Len(r) : \E k \in 1..Len(s) : Aged(r[j], s[k])
  BY <1>2 DEF Aged
<1>4. Len(r) <= Len(s)
  BY <1>1
<1> QED
  BY <1>1, <1>3, <1>4 DEF Thins

LEMMA MarkedLate ==
  ASSUME NEW f \in Fetch, NEW b \in BOOLEAN, NEW g, g = [f EXCEPT !.late = b]
  PROVE  /\ g \in Fetch /\ g.from = f.from /\ g.sent = f.sent /\ g.late = b
         /\ g.got = f.got /\ g.to = f.to
BY DEF Fetch

LEMMA MarkedStale ==
  ASSUME NEW f \in Fetch, NEW b \in BOOLEAN, NEW g, g = [f EXCEPT !.fresh = b]
  PROVE  g \in Fetch /\ Aged(g, f)
BY DEF Fetch, Aged

LEMMA LateThins ==
  ASSUME NEW s \in Seq(Fetch), NEW r, r = AllLate(s)
  PROVE  /\ Thins(r, s) /\ Len(r) = Len(s)
         /\ \A j \in 1..Len(r) : r[j].got = s[j].got /\ (r[j].late \/ r[j].got)
<1>1. r = [j \in 1..Len(s) |-> [s[j] EXCEPT !.late = @ \/ ~s[j].got]]
  BY DEF AllLate
<1>2. ASSUME NEW j \in 1..Len(s)
      PROVE  r[j] \in Fetch /\ Aged(r[j], s[j]) /\ (r[j].late \/ r[j].got)
  <2> DEFINE f == s[j]
             g == r[j]
             b == f.late \/ ~f.got
  <2>1. f \in Fetch /\ g = [f EXCEPT !.late = b]
    BY <1>1
  <2>2. b \in BOOLEAN /\ f.got \in BOOLEAN /\ (f.late => b) /\ (~f.got => b)
    <3> HIDE DEF g
    <3> QED
      BY <2>1 DEF Fetch
  <2> HIDE DEF f, g, b
  <2>3. /\ g \in Fetch /\ g.from = f.from /\ g.sent = f.sent /\ g.late = b
        /\ g.got = f.got /\ g.to = f.to
    BY <2>1, <2>2, MarkedLate
  <2>4. g \in Fetch /\ Aged(g, f) /\ (g.late \/ g.got)
    BY <2>2, <2>3 DEF Aged
  <2> QED
    BY <2>4 DEF f, g
<1>3. r \in Seq(Fetch) /\ Len(r) = Len(s)
  <2>1. r \in [1..Len(s) -> Fetch] /\ Len(s) \in Nat
    BY <1>1, <1>2
  <2> QED
    BY <2>1
<1>4. Len(r) <= Len(s)
  BY <1>3
<1>5. \A j \in 1..Len(r) : r[j].got = s[j].got /\ (r[j].late \/ r[j].got) /\ Aged(r[j], s[j])
  BY <1>2, <1>3 DEF Aged
<1> HIDE <1>1
<1> QED
  BY <1>3, <1>4, <1>5 DEF Thins

LEMMA MarkedThins ==
  ASSUME NEW s \in Seq(Fetch), NEW i \in 1..Len(s),
         NEW r, r = [s EXCEPT ![i].late = TRUE]
  PROVE  Thins(r, s)
<1> DEFINE n == Len(s)
           g == [s[i] EXCEPT !.late = TRUE]
<1>1. /\ s \in [1..n -> Fetch] /\ n \in Nat /\ i \in 1..n
      /\ r = [s EXCEPT ![i] = g] /\ n = Len(s)
  OBVIOUS
<1>2. g \in Fetch /\ Aged(g, s[i])
  <2>1. s[i] \in Fetch
    OBVIOUS
  <2>2. /\ g \in Fetch /\ g.from = s[i].from /\ g.sent = s[i].sent /\ g.late = TRUE
        /\ g.got = s[i].got /\ g.to = s[i].to
    <3> DEFINE f == s[i]
    <3>1. f \in Fetch /\ TRUE \in BOOLEAN /\ g = [f EXCEPT !.late = TRUE]
      BY <2>1
    <3> HIDE DEF f, g
    <3>2. /\ g \in Fetch /\ g.from = f.from /\ g.sent = f.sent /\ g.late = TRUE
          /\ g.got = f.got /\ g.to = f.to
      BY <3>1, MarkedLate
    <3> QED
      BY <3>2 DEF f
  <2> HIDE DEF g
  <2> QED
    BY <2>2 DEF Aged
<1> HIDE DEF n, g
<1>3. r \in [1..n -> Fetch] /\ r[i] = g /\ \A j \in 1..n : j # i => r[j] = s[j]
  BY <1>1, <1>2
<1>4. r \in Seq(Fetch) /\ Len(r) = n
  BY <1>1, <1>3
<1>5. \A j \in 1..n : Aged(s[j], s[j])
  BY DEF Aged
<1>6. \A j \in 1..n : Aged(r[j], s[j])
  <2> SUFFICES ASSUME NEW j \in 1..n
               PROVE  Aged(r[j], s[j])
    OBVIOUS
  <2>1. CASE j = i
    BY <1>2, <1>3, <2>1, Zenon
  <2>2. CASE j # i
    BY <1>3, <1>5, <2>2, Zenon
  <2> QED
    BY <2>1, <2>2
<1>7. Len(r) <= Len(s)
  BY <1>1, <1>4
<1> QED
  BY <1>1, <1>4, <1>6, <1>7, Zenon DEF Thins

LEMMA AdoptedThins ==
  ASSUME inFlight \in Seq(Fetch), NEW i \in 1..Len(inFlight), NEW r, r = Adopted(i)
  PROVE  /\ Thins(r, inFlight) /\ Len(r) = Len(inFlight) - 1
         /\ \A j \in 1..Len(r) :
              r[j].got = IF j < i THEN inFlight[j].got ELSE inFlight[j + 1].got
<1> DEFINE n == Len(inFlight)
           s == inFlight
<1>1. n \in Nat /\ n - 1 \in Nat /\ \A j \in 1..(n - 1) : j \in 1..n /\ j + 1 \in 1..n
  OBVIOUS
<1>2. \A j \in 1..n : s[j] \in Fetch
  OBVIOUS
<1>3. /\ DOMAIN r = 1..(n - 1) /\ r = [j \in 1..(n - 1) |-> r[j]]
      /\ \A j \in 1..(n - 1) :
           r[j] = IF j < i THEN [s[j] EXCEPT !.fresh = s[j].fresh /\ ~s[i].fresh] ELSE s[j + 1]
  BY DEF Adopted
<1> HIDE DEF n, s
<1>4. ASSUME NEW j \in 1..(n - 1)
      PROVE  /\ r[j] \in Fetch
             /\ Aged(r[j], IF j < i THEN s[j] ELSE s[j + 1])
             /\ r[j].got = IF j < i THEN s[j].got ELSE s[j + 1].got
  <2>1. j \in 1..n /\ j + 1 \in 1..n /\ s[j] \in Fetch /\ s[j + 1] \in Fetch
    BY <1>1, <1>2
  <2>2. CASE j < i
    <3> DEFINE f == s[j]
               g == r[j]
               b == f.fresh /\ ~s[i].fresh
    <3>1. f \in Fetch /\ b \in BOOLEAN /\ g = [f EXCEPT !.fresh = b]
      BY <1>3, <2>1, <2>2
    <3> HIDE DEF f, g, b
    <3>2. g \in Fetch /\ Aged(g, f)
      BY <3>1, MarkedStale
    <3>3. g.got = f.got
      BY <3>2 DEF Aged
    <3> QED
      BY <2>2, <3>2, <3>3, Zenon DEF f, g
  <2>3. CASE ~ (j < i)
    <3>1. r[j] = s[j + 1]
      BY <1>3, <2>3
    <3>2. Aged(s[j + 1], s[j + 1])
      BY DEF Aged
    <3> QED
      BY <2>1, <2>3, <3>1, <3>2, Zenon
  <2> QED
    BY <2>2, <2>3
<1>5. r \in Seq(Fetch) /\ Len(r) = n - 1
  <2>1. r \in [1..(n - 1) -> Fetch]
    BY <1>3, <1>4
  <2> QED
    BY <1>1, <2>1
<1>6. Len(r) <= n
  BY <1>1, <1>5
<1>7. \A j \in 1..Len(r) : \E k \in 1..n : Aged(r[j], s[k])
  BY <1>1, <1>4, <1>5
<1>8. n = Len(s) /\ s = inFlight
  BY DEF n, s
<1>9. Thins(r, inFlight)
  BY <1>5, <1>6, <1>7, <1>8, Zenon DEF Thins
<1> QED
  BY <1>4, <1>5, <1>8, <1>9

------------------------------------------------------------------------------
(* The inductive invariant.                                                 *)

Silent(x) == x >= Limit /\ \A p \in (x - Limit + 1)..x : log[p] = "other"

(* Every message after the drain up to x has been emitted.                  *)
Covered(x) == \A p \in (drainedAt + 1)..x : log[p] = "message" => Contains(emitted, p)

(* Between x and the end of the drain there is no message.                  *)
Clear(x) == \A p \in (x + 1)..drainedAt : log[p] # "message"

(* Where the poll stands in the room, and what ended the drain.             *)
Room ==
  /\ opts \in Options /\ stage \in Stages /\ hold \in BOOLEAN
  /\ aborted \in BOOLEAN /\ faults \in 0..MaxFaults
  /\ log \in Seq(Kinds) /\ Len(log) <= MaxLog /\ Backlog <= Len(log)
  /\ cursor \in 0..Len(log) /\ drainedAt \in 0..Len(log) /\ drained \in BOOLEAN
  /\ ~drained => drainedAt = 0 /\ emitted = <<>>
  /\ drained => drainedAt >= Backlog \/ Silent(drainedAt)

(* Rounds are raced until the drain is over, and after it by a poll that    *)
(* does not stagger.                                                        *)
Flight ==
  /\ inFlight \in Seq(Fetch)
  /\ CallsBounded
  /\ stage = "ended" => inFlight = <<>>
  /\ stage = "racing" => ~aborted
  /\ stage \in {"racing", "won"} => (drained => opts.stagger = 1)
  /\ stage = "staggered" => drained /\ opts.stagger > 1

(* A page in hand ends at the log's end at the earliest when the poll       *)
(* started, unless it is full.                                              *)
PageKnown(f) ==
  /\ f.from <= f.to /\ f.to <= Len(log)
  /\ f.to >= Backlog \/ f.to = f.from + Limit

(* A call asks for no more than there was when it was made; a staggered one *)
(* asks from a place up to which all is emitted.                            *)
Asked ==
  \A i \in 1..Len(inFlight) :
    /\ inFlight[i].from <= inFlight[i].sent
    /\ Backlog <= inFlight[i].sent /\ inFlight[i].sent <= Len(log)
    /\ aborted => inFlight[i].late \/ inFlight[i].got
    /\ inFlight[i].got => PageKnown(inFlight[i])
    /\ stage = "staggered" => Covered(inFlight[i].from) /\ Clear(inFlight[i].from)

(* A racing poll repeats only what came without a token, and everything     *)
(* else it has emitted lies behind the cursor.                              *)
Told ==
  /\ \A i, j \in 1..Len(emitted) : i < j /\ emitted[i] = emitted[j] => i \in unmoved
  /\ \A i \in 1..Len(emitted) : i \in unmoved \/ emitted[i] <= cursor

(* What has come out: live messages only, all of them up to the cursor, by  *)
(* a staggered poll with repeats far apart.                                 *)
Output ==
  /\ emitted \in Seq(1..MaxLog) /\ seen \in Seq(1..MaxLog)
  /\ \A i \in 1..Len(emitted) : emitted[i] > drainedAt
  /\ drained => Covered(cursor) /\ Clear(cursor)
  /\ unmoved \subseteq 1..Len(emitted)
  /\ opts.stagger > 1 => unmoved = {} /\ Sighted([seen |-> seen, emitted |-> emitted])
  /\ opts.stagger = 1 => seen = <<>> /\ Told

PollInv == Room /\ Flight /\ Asked /\ Output

LEMMA Starts == Init => PollInv
<1> SUFFICES ASSUME Init
             PROVE  PollInv
  OBVIOUS
<1> USE PollAssumption
<1>1. log \in Seq(Kinds) /\ Len(log) = Backlog
  <2>1. log \in [1..Backlog -> Kinds] /\ Backlog \in Nat
    BY DEF Init
  <2> QED
    BY <2>1
<1>2. opts \in Options /\ opts.stagger \in Nat /\ opts.width \in Nat
  BY DEF Init
<1>3. Room
  <2>1. /\ stage = "ready" /\ hold = FALSE /\ aborted = FALSE /\ faults = 0
        /\ cursor = 0 /\ drainedAt = 0 /\ drained = FALSE /\ emitted = <<>>
    BY DEF Init
  <2>2. Backlog \in Nat /\ Backlog <= MaxLog /\ MaxFaults \in Nat
    OBVIOUS
  <2>3. faults \in 0..MaxFaults /\ cursor \in 0..Len(log) /\ drainedAt \in 0..Len(log)
    BY <1>1, <2>1, <2>2
  <2>4. Len(log) <= MaxLog /\ Backlog <= Len(log)
    BY <1>1, <2>2
  <2> QED
    BY <1>1, <1>2, <2>1, <2>3, <2>4 DEF Room, Stages
<1>4. Flight
  <2>1. inFlight \in Seq(Fetch) /\ Len(inFlight) = 0
    BY DEF Init
  <2>2. CallsBounded
    BY <1>2, <2>1 DEF Init, CallsBounded
  <2> QED
    BY <2>1, <2>2 DEF Init, Flight
<1>5. Asked
  <2>1. Len(inFlight) = 0
    BY DEF Init
  <2> QED
    BY <2>1 DEF Asked
<1>6. Output
  <2>1. /\ emitted = <<>> /\ seen = <<>> /\ Len(emitted) = 0 /\ Len(seen) = 0
        /\ emitted \in Seq(1..MaxLog) /\ DOMAIN emitted = {} /\ ~drained /\ unmoved = {}
    BY DEF Init
  <2>2. Smaller(SeenMax, 0) = 0
    BY DEF Smaller
  <2>3. Sighted([seen |-> seen, emitted |-> emitted])
    BY <2>1, <2>2 DEF Sighted
  <2>4. Told
    BY <2>1 DEF Told
  <2> QED
    BY <2>1, <2>3, <2>4 DEF Output
<1> QED
  BY <1>3, <1>4, <1>5, <1>6 DEF PollInv

(* A step that makes no call keeps the bounds, whatever else it does to     *)
(* cursor and output, if it stays where it is or ends a round.              *)
LEMMA ThinFlight ==
  ASSUME Room, Flight, Asked, Thins(inFlight', inFlight),
         opts' = opts, log' = log,
         stage' = stage \/ (stage \in {"racing", "won"} /\ stage' = "settling"),
         stage' \in {"racing", "won"} => cursor' = cursor /\ drained' = drained,
         stage' = "racing" => aborted' = aborted,
         stage' = "staggered" => /\ drained' = drained /\ drainedAt' = drainedAt
                                 /\ \A p : Contains(emitted, p) => Contains(emitted', p),
         aborted' = aborted
           \/ \A i \in 1..Len(inFlight') : inFlight'[i].late \/ inFlight'[i].got
  PROVE  Flight' /\ Asked'
<1> USE PollAssumption
<1> DEFINE old == inFlight
           new == inFlight'
<1>1. /\ new \in Seq(Fetch) /\ Len(new) \in Nat /\ Len(old) \in Nat /\ Len(new) <= Len(old)
      /\ old \in Seq(Fetch) /\ DOMAIN new = 1..Len(new) /\ DOMAIN old = 1..Len(old)
  BY DEF Thins, Flight
<1>2. \A i \in 1..Len(new) : \E j \in 1..Len(old) : Aged(new[i], old[j])
  BY DEF Thins
<1>3. old = <<>> => new = <<>>
  BY <1>1
<1>4. opts.stagger \in Nat /\ opts.width \in Nat
  BY DEF Room
<1> HIDE DEF old, new
<1>5. CallsBounded'
  <2>1. Len(new) <= IF stage' = "staggered" THEN opts'.stagger ELSE opts'.width
    <3>1. Len(old) <= IF stage = "staggered" THEN opts.stagger ELSE opts.width
      BY DEF Flight, CallsBounded, old
    <3>2. stage' = "staggered" <=> stage = "staggered"
      OBVIOUS
    <3> QED
      BY <1>1, <1>4, <3>1, <3>2
  <2>2. stage' = "ready" => new = <<>>
    BY <1>3 DEF Flight, CallsBounded, old
  <2>3. stage' \in {"racing", "won"} => \A i \in 1..Len(new) : new[i].from = cursor'
    <3> SUFFICES ASSUME stage' \in {"racing", "won"}, NEW i \in 1..Len(new)
                 PROVE  new[i].from = cursor'
      OBVIOUS
    <3>1. PICK j \in 1..Len(old) : new[i].from = old[j].from
      BY <1>2 DEF Aged
    <3>2. stage' = stage
      OBVIOUS
    <3>3. old[j].from = cursor
      BY <1>1, <3>2 DEF Flight, CallsBounded, old
    <3> QED
      BY <3>1, <3>3
  <2> QED
    BY <1>1, <2>1, <2>2, <2>3 DEF CallsBounded, new
<1>6. Flight'
  <2>1. stage' = "ended" => new = <<>>
    BY <1>3 DEF Flight, old
  <2>2. /\ stage' = "racing" => ~aborted'
        /\ stage' \in {"racing", "won"} => (drained' => opts'.stagger = 1)
    BY DEF Flight
  <2>3. stage' = "staggered" => drained' /\ opts'.stagger > 1
    BY DEF Flight
  <2> QED
    BY <1>1, <1>5, <2>1, <2>2, <2>3 DEF Flight, new
<1>7. Asked'
  <2> SUFFICES ASSUME NEW i \in 1..Len(new)
               PROVE  /\ new[i].from <= new[i].sent
                      /\ Backlog <= new[i].sent /\ new[i].sent <= Len(log)
                      /\ aborted' => new[i].late \/ new[i].got
                      /\ new[i].got => PageKnown(new[i])
                      /\ stage' = "staggered" =>
                           /\ Clear(new[i].from) /\ drainedAt' = drainedAt
                           /\ \A p \in (drainedAt + 1)..new[i].from :
                                log[p] = "message" => Contains(emitted', p)
    BY DEF Asked, Covered, Clear, PageKnown, Contains, new
  <2>1. PICK j \in 1..Len(old) : Aged(new[i], old[j])
    BY <1>2
  <2>2. /\ old[j].from <= old[j].sent
        /\ Backlog <= old[j].sent /\ old[j].sent <= Len(log)
        /\ aborted => old[j].late \/ old[j].got
        /\ old[j].got => PageKnown(old[j])
        /\ stage = "staggered" => Covered(old[j].from) /\ Clear(old[j].from)
    BY DEF Asked, old
  <2>3. aborted' => new[i].late \/ new[i].got
    BY <2>1, <2>2 DEF new, Aged
  <2>4. new[i].got => PageKnown(new[i])
    BY <2>1, <2>2 DEF Aged, PageKnown
  <2>5. ASSUME stage' = "staggered"
        PROVE  /\ Clear(new[i].from)
               /\ \A p \in (drainedAt + 1)..new[i].from :
                    log[p] = "message" => Contains(emitted', p)
    <3>1. stage = "staggered" /\ new[i].from = old[j].from
      BY <2>1, <2>5 DEF Aged
    <3>2. Covered(old[j].from) /\ Clear(old[j].from)
      BY <2>2, <3>1
    <3> QED
      BY <2>5, <3>1, <3>2 DEF Covered
  <2>6. new[i].from = old[j].from /\ new[i].sent = old[j].sent
    BY <2>1 DEF Aged
  <2> QED
    BY <2>2, <2>3, <2>4, <2>5, <2>6
<1> QED
  BY <1>6, <1>7

------------------------------------------------------------------------------
(* The steps.                                                               *)

LEMMA RoomHolds ==
  ASSUME Room, Output, UNCHANGED <<opts, log, cursorVars, outVars>>,
         stage' \in Stages, hold' \in BOOLEAN, aborted' \in BOOLEAN, faults' \in 0..MaxFaults
  PROVE  Room' /\ Output'
<1>1. /\ opts' = opts /\ log' = log /\ cursor' = cursor /\ drained' = drained
      /\ drainedAt' = drainedAt /\ seen' = seen /\ emitted' = emitted /\ unmoved' = unmoved
  BY DEF cursorVars, outVars
<1>2. Room'
  BY <1>1 DEF Room, Silent
<1>3. (Covered(cursor)' <=> Covered(cursor)) /\ (Clear(cursor)' <=> Clear(cursor))
  BY <1>1 DEF Covered, Clear, Contains
<1>4. Sighted([seen |-> seen, emitted |-> emitted])' <=> Sighted([seen |-> seen, emitted |-> emitted])
  BY <1>1 DEF Sighted
<1>5. Told' <=> Told
  BY <1>1 DEF Told
<1>6. Output'
  BY <1>1, <1>3, <1>4, <1>5 DEF Output
<1> QED
  BY <1>2, <1>6

LEMMA InDomain ==
  ASSUME Flight, NEW i \in DOMAIN inFlight
  PROVE  inFlight \in Seq(Fetch) /\ i \in 1..Len(inFlight)
BY DEF Flight

LEMMA Settled ==
  ASSUME PollInv, NEW i \in DOMAIN inFlight,
         RacerFails(i) \/ RacerTimesOut(i) \/ FetchFails(i) \/ FetchTimesOut(i) \/ LateSettles(i)
  PROVE  PollInv'
<1> USE PollAssumption DEF PollInv
<1>1. inFlight \in Seq(Fetch) /\ i \in 1..Len(inFlight)
  BY InDomain
<1>2. Thins(inFlight', inFlight)
  <2>1. inFlight' = RemoveAt(inFlight, i) \/ inFlight' = [inFlight EXCEPT ![i].late = TRUE]
    BY DEF RacerFails, RacerTimesOut, FetchFails, FetchTimesOut, LateSettles, Fault
  <2>2. CASE inFlight' = RemoveAt(inFlight, i)
    BY <1>1, <2>2, RemovedThins
  <2>3. CASE inFlight' = [inFlight EXCEPT ![i].late = TRUE]
    BY <1>1, <2>3, MarkedThins
  <2> QED
    BY <2>1, <2>2, <2>3
<1>3. /\ UNCHANGED <<opts, log, cursorVars, outVars, aborted>>
      /\ stage' = stage \/ (stage = "racing" /\ stage' = "settling")
  BY DEF RacerFails, RacerTimesOut, FetchFails, FetchTimesOut, LateSettles, loopVars
<1>4. hold' \in BOOLEAN
  BY DEF RacerFails, RacerTimesOut, FetchFails, FetchTimesOut, LateSettles, loopVars, Room
<1>5. faults' \in 0..MaxFaults
  BY DEF RacerFails, RacerTimesOut, FetchFails, FetchTimesOut, LateSettles, Fault, Room
<1>6. stage' \in Stages /\ aborted' \in BOOLEAN
  BY <1>3 DEF Stages, Room
<1>7. Room' /\ Output'
  BY <1>3, <1>4, <1>5, <1>6, RoomHolds
<1>8. /\ opts' = opts /\ log' = log /\ cursor' = cursor /\ drained' = drained
      /\ drainedAt' = drainedAt /\ emitted' = emitted /\ aborted' = aborted
  BY <1>3 DEF cursorVars, outVars
<1>9. Flight' /\ Asked'
  BY <1>2, <1>3, <1>8, ThinFlight
<1> QED
  BY <1>7, <1>9

LEMMA Stopped == PollInv /\ Stop => PollInv'
<1> SUFFICES ASSUME PollInv, Stop
             PROVE  PollInv'
  OBVIOUS
<1> USE PollAssumption DEF PollInv
<1>1. inFlight \in Seq(Fetch) /\ inFlight' = AllLate(inFlight)
  BY DEF Stop, Flight
<1>2. /\ Thins(inFlight', inFlight)
      /\ \A i \in 1..Len(inFlight') : inFlight'[i].late \/ inFlight'[i].got
  BY <1>1, LateThins
<1>3. UNCHANGED <<opts, log, cursorVars, outVars>> /\ aborted' \in BOOLEAN
  BY DEF Stop
<1>4. /\ stage' = stage \/ (stage = "racing" /\ stage' = "settling")
      /\ stage' # "racing"
  BY DEF Stop
<1>5. hold' \in BOOLEAN /\ faults' \in 0..MaxFaults /\ stage' \in Stages
  BY <1>4 DEF Stop, Room, Stages
<1>6. Room' /\ Output'
  BY <1>3, <1>5, RoomHolds
<1>7. /\ opts' = opts /\ log' = log /\ drained' = drained /\ cursor' = cursor
      /\ drainedAt' = drainedAt /\ emitted' = emitted
  BY <1>3 DEF cursorVars, outVars
<1>8. Flight' /\ Asked'
  BY <1>2, <1>4, <1>7, ThinFlight
<1> QED
  BY <1>6, <1>8

(* The steps of the loop between calls, and those that change nothing.      *)
LEMMA Paced ==
  ASSUME PollInv, Wake \/ RoundEnds \/ EnterStagger \/ LoopEnds \/ UNCHANGED vars
  PROVE  PollInv'
<1> USE PollAssumption DEF PollInv
<1>1. UNCHANGED <<opts, log, cursorVars, outVars, inFlight, aborted, faults>>
  BY DEF Wake, RoundEnds, EnterStagger, LoopEnds, vars, loopVars
<1>2. hold' \in BOOLEAN
  BY DEF Wake, RoundEnds, EnterStagger, LoopEnds, vars, loopVars, Room
<1>3. stage' \in Stages
  BY DEF Wake, RoundEnds, EnterStagger, LoopEnds, vars, loopVars, Room, Stages
<1>4. /\ opts' = opts /\ log' = log /\ cursor' = cursor /\ drained' = drained
      /\ drainedAt' = drainedAt /\ emitted' = emitted /\ inFlight' = inFlight
      /\ aborted' = aborted /\ faults' = faults /\ seen' = seen
  BY <1>1 DEF cursorVars, outVars
<1>5. Room' /\ Output'
  BY <1>1, <1>2, <1>3, <1>4, RoomHolds DEF Room
<1>6. CASE stage' = stage
  <2>1. CallsBounded'
    BY <1>4, <1>6 DEF Flight, CallsBounded
  <2>2. Flight'
    BY <1>4, <1>6, <2>1 DEF Flight
  <2>3. Asked'
    BY <1>4, <1>6 DEF Asked, Covered, Clear, PageKnown, Contains
  <2> QED
    BY <1>5, <2>2, <2>3
<1>7. CASE stage' # stage
  <2>1. RoundEnds \/ EnterStagger \/ LoopEnds
    BY <1>7 DEF Wake, vars, loopVars
  <2>2. inFlight = <<>> /\ Len(inFlight) = 0 /\ DOMAIN inFlight = {}
    BY <2>1 DEF RoundEnds, EnterStagger, LoopEnds, Flight, CallsBounded
  <2>3. stage' \notin {"racing", "won"} /\ (stage' = "staggered" => drained /\ opts.stagger > 1)
    BY <2>1 DEF RoundEnds, EnterStagger, LoopEnds
  <2>4. opts.stagger \in Nat /\ opts.width \in Nat
    BY DEF Room
  <2>5. CallsBounded'
    BY <1>4, <2>2, <2>3, <2>4 DEF CallsBounded
  <2>6. Flight'
    BY <1>4, <2>2, <2>3, <2>5 DEF Flight
  <2>7. Asked'
    BY <1>4, <2>2 DEF Asked
  <2> QED
    BY <1>5, <2>6, <2>7
<1> QED
  BY <1>6, <1>7

LEMMA RequestMade ==
  ASSUME Room
  PROVE  /\ Request \in Fetch /\ Request.from = cursor /\ Request.sent = Len(log) /\ ~Request.got
         /\ cursor <= Len(log) /\ Backlog <= Len(log)
<1>1. cursor \in 0..MaxLog /\ Len(log) \in 0..MaxLog /\ cursor <= Len(log)
  <2>1. Len(log) \in Nat /\ Len(log) <= MaxLog /\ cursor \in 0..Len(log) /\ MaxLog \in Nat
    BY PollAssumption DEF Room
  <2> QED
    BY <2>1
<1>2. Request \in Fetch
  BY <1>1 DEF Request, Fetch
<1> QED
  BY <1>1, <1>2 DEF Request, Room

LEMMA Raced == PollInv /\ BeginRound => PollInv'
<1> SUFFICES ASSUME PollInv, BeginRound
             PROVE  PollInv'
  OBVIOUS
<1> USE PollAssumption DEF PollInv
<1>1. /\ UNCHANGED <<opts, hold, log, cursorVars, outVars, aborted, faults>>
      /\ ~ aborted /\ ~ (drained /\ opts.stagger > 1) /\ stage' = "racing"
      /\ inFlight' = [i \in 1..opts.width |-> Request]
  BY DEF BeginRound
<1>2. /\ opts' = opts /\ log' = log /\ cursor' = cursor /\ drained' = drained
      /\ drainedAt' = drainedAt /\ aborted' = aborted /\ faults' = faults /\ hold' = hold
  BY <1>1 DEF cursorVars
<1>3. Room' /\ Output'
  BY <1>1, <1>2, RoomHolds DEF Room, Stages
<1>4. opts.stagger \in Nat \ {0} /\ opts.width \in Nat
  BY DEF Room
<1> DEFINE r == Request
<1>5. /\ r \in Fetch /\ r.from = cursor /\ r.sent = Len(log) /\ ~r.got
      /\ cursor <= Len(log) /\ Backlog <= Len(log)
  BY RequestMade
<1> HIDE DEF r
<1>6. /\ inFlight' \in Seq(Fetch) /\ Len(inFlight') = opts.width
      /\ \A i \in 1..opts.width : inFlight'[i] = r
  <2>1. inFlight' = [i \in 1..opts.width |-> r]
    BY <1>1 DEF r
  <2>2. inFlight' \in [1..opts.width -> Fetch]
    BY <1>5, <2>1
  <2> QED
    BY <1>4, <2>1, <2>2
<1>7. DOMAIN inFlight' = 1..opts.width
  BY <1>4, <1>6
<1>8. CallsBounded'
  BY <1>1, <1>2, <1>4, <1>5, <1>6, <1>7 DEF CallsBounded
<1>9. Flight'
  BY <1>1, <1>2, <1>4, <1>6, <1>8 DEF Flight
<1>10. Len(log) \in Nat /\ Backlog \in Nat
  BY DEF Room
<1>11. Asked'
  <2>1. /\ r.from <= r.sent /\ Backlog <= r.sent /\ r.sent <= Len(log')
        /\ ~ aborted' /\ stage' # "staggered" /\ ~ r.got
    BY <1>1, <1>2, <1>5, <1>10
  <2>2. \A i \in 1..Len(inFlight') : inFlight'[i] = r
    BY <1>6
  <2> QED
    BY <2>1, <2>2 DEF Asked
<1> QED
  BY <1>3, <1>9, <1>11

LEMMA Launched == PollInv /\ Launch => PollInv'
<1> SUFFICES ASSUME PollInv, Launch
             PROVE  PollInv'
  OBVIOUS
<1> USE PollAssumption DEF PollInv
<1>1. /\ UNCHANGED <<loopVars, log, cursorVars, outVars, aborted, faults>>
      /\ ~ aborted /\ stage = "staggered" /\ Len(inFlight) < opts.stagger
      /\ inFlight' = Append(inFlight, Request)
  BY DEF Launch
<1>2. /\ opts' = opts /\ log' = log /\ cursor' = cursor /\ drained' = drained /\ stage' = stage
      /\ drainedAt' = drainedAt /\ aborted' = aborted /\ faults' = faults /\ hold' = hold
      /\ emitted' = emitted
  BY <1>1 DEF cursorVars, loopVars, outVars
<1>3. Room' /\ Output'
  BY <1>1, <1>2, RoomHolds DEF Room, Stages
<1> DEFINE r == Request
           n == Len(inFlight)
<1>4. /\ r \in Fetch /\ r.from = cursor /\ r.sent = Len(log) /\ ~r.got
      /\ cursor <= Len(log) /\ Backlog <= Len(log)
  BY RequestMade
<1>5. opts.stagger \in Nat /\ n \in Nat /\ n < opts.stagger /\ inFlight \in Seq(Fetch)
      /\ inFlight' = Append(inFlight, r) /\ n = Len(inFlight)
  BY <1>1 DEF Room, Flight
<1> HIDE DEF r, n
<1>6. /\ inFlight' \in Seq(Fetch) /\ Len(inFlight') = n + 1
      /\ \A i \in 1..n : inFlight'[i] = inFlight[i]
      /\ inFlight'[n + 1] = r
  BY <1>4, <1>5, AppendProperties
<1>7. CallsBounded'
  BY <1>1, <1>2, <1>5, <1>6 DEF CallsBounded
<1>8. Flight'
  BY <1>1, <1>2, <1>6, <1>7 DEF Flight
<1>9. Asked'
  <2>1. \A i \in 1..(n + 1) : i \in 1..n \/ i = n + 1
    BY <1>5
  <2>2. ASSUME NEW i \in 1..n
        PROVE  /\ inFlight[i].from <= inFlight[i].sent
               /\ Backlog <= inFlight[i].sent /\ inFlight[i].sent <= Len(log)
               /\ inFlight[i].got => PageKnown(inFlight[i])
               /\ Covered(inFlight[i].from) /\ Clear(inFlight[i].from)
    BY <1>1, <1>5 DEF Asked
  <2>3. /\ r.from <= r.sent /\ Backlog <= r.sent /\ r.sent <= Len(log)
        /\ r.got => PageKnown(r)
        /\ Covered(r.from) /\ Clear(r.from)
    <3>1. drained /\ Covered(cursor) /\ Clear(cursor) /\ Len(log) \in Nat /\ Backlog \in Nat
      BY <1>1 DEF Flight, Output, Room
    <3> QED
      BY <1>4, <3>1
  <2>4. ASSUME NEW i \in 1..(n + 1), NEW f, f = inFlight'[i]
        PROVE  /\ f.from <= f.sent /\ Backlog <= f.sent /\ f.sent <= Len(log)
               /\ f.got => PageKnown(f)
               /\ Covered(f.from) /\ Clear(f.from)
    <3>1. CASE i \in 1..n
      BY <1>6, <2>2, <2>4, <3>1
    <3>2. CASE i = n + 1
      BY <1>6, <2>3, <2>4, <3>2
    <3> QED
      BY <2>1, <3>1, <3>2
  <2> QED
    BY <1>1, <1>2, <1>6, <2>4 DEF Asked, Covered, Clear, PageKnown, Contains
<1> QED
  BY <1>3, <1>8, <1>9

LEMMA Posted ==
  ASSUME PollInv, NEW kind \in Kinds, Post(kind)
  PROVE  PollInv'
<1> USE PollAssumption DEF PollInv
<1>1. /\ Len(log) < MaxLog /\ log' = Append(log, kind)
      /\ UNCHANGED <<loopVars, cursorVars, inFlight, outVars, aborted, faults>>
  BY DEF Post
<1>2. /\ opts' = opts /\ cursor' = cursor /\ drained' = drained /\ stage' = stage
      /\ drainedAt' = drainedAt /\ aborted' = aborted /\ faults' = faults /\ hold' = hold
      /\ emitted' = emitted /\ seen' = seen /\ unmoved' = unmoved /\ inFlight' = inFlight
  BY <1>1 DEF cursorVars, loopVars, outVars
<1> DEFINE n == Len(log)
<1>3. /\ n \in Nat /\ n < MaxLog /\ log \in Seq(Kinds) /\ Backlog <= n /\ Backlog \in Nat
      /\ cursor \in 0..n /\ drainedAt \in 0..n /\ Limit \in Nat \ {0}
      /\ MaxLog \in Nat /\ n = Len(log)
  BY <1>1 DEF Room
<1> HIDE DEF n
<1>4. log' \in Seq(Kinds) /\ Len(log') = n + 1 /\ \A p \in 1..n : log'[p] = log[p]
  BY <1>1, <1>3, AppendProperties
<1>5. Silent(drainedAt) => Silent(drainedAt)'
  <2> SUFFICES ASSUME Silent(drainedAt)
               PROVE  /\ drainedAt >= Limit
                      /\ \A p \in (drainedAt - Limit + 1)..drainedAt : log'[p] = "other"
    BY <1>2 DEF Silent
  <2>1. drainedAt >= Limit /\ \A p \in (drainedAt - Limit + 1)..drainedAt : p \in 1..n
    BY <1>3 DEF Silent
  <2> QED
    BY <1>4, <2>1 DEF Silent
<1>6. \A x \in 0..n : Covered(x) =>
        \A p \in (drainedAt + 1)..x : log'[p] = "message" => Contains(emitted, p)
  <2> SUFFICES ASSUME NEW x \in 0..n, Covered(x), NEW p \in (drainedAt + 1)..x
               PROVE  log'[p] = "message" => Contains(emitted, p)
    OBVIOUS
  <2>1. p \in 1..n
    BY <1>3
  <2> QED
    BY <1>4, <2>1 DEF Covered
<1>7. \A x \in 0..n : Clear(x) => \A p \in (x + 1)..drainedAt : log'[p] # "message"
  <2> SUFFICES ASSUME NEW x \in 0..n, Clear(x), NEW p \in (x + 1)..drainedAt
               PROVE  log'[p] # "message"
    OBVIOUS
  <2>1. p \in 1..n
    BY <1>3
  <2> QED
    BY <1>4, <2>1 DEF Clear
<1>8. Room'
  <2>1. /\ Len(log') <= MaxLog /\ Backlog <= Len(log')
        /\ cursor \in 0..Len(log') /\ drainedAt \in 0..Len(log')
    BY <1>3, <1>4
  <2> QED
    BY <1>2, <1>4, <1>5, <2>1 DEF Room
<1>9. CallsBounded' /\ Flight'
  <2>1. CallsBounded'
    BY <1>2 DEF CallsBounded, Flight
  <2> QED
    BY <1>2, <2>1 DEF Flight
<1>10. Asked'
  <2> SUFFICES ASSUME NEW i \in 1..Len(inFlight)
               PROVE  /\ inFlight[i].from <= inFlight[i].sent
                      /\ Backlog <= inFlight[i].sent /\ inFlight[i].sent <= n + 1
                      /\ aborted => inFlight[i].late \/ inFlight[i].got
                      /\ inFlight[i].got => PageKnown(inFlight[i])'
                      /\ stage = "staggered" =>
                           /\ \A p \in (inFlight[i].from + 1)..drainedAt : log'[p] # "message"
                           /\ \A p \in (drainedAt + 1)..inFlight[i].from :
                                log'[p] = "message" => Contains(emitted, p)
    BY <1>2, <1>4 DEF Asked, Covered, Clear, Contains
  <2> DEFINE f == inFlight[i]
  <2>1. /\ f.from <= f.sent /\ Backlog <= f.sent /\ f.sent <= n
        /\ aborted => f.late \/ f.got
        /\ f.got => PageKnown(f)
        /\ stage = "staggered" => Covered(f.from) /\ Clear(f.from)
    BY <1>3 DEF Asked
  <2>2. f.from \in Nat /\ f.sent \in Nat /\ f.to \in Nat
    <3>1. f \in Fetch
      BY DEF Flight
    <3> HIDE DEF f
    <3> QED
      BY <1>3, <3>1 DEF Fetch
  <2> HIDE DEF f
  <2>3. f.from \in 0..n /\ f.sent <= n + 1
    BY <1>3, <2>1, <2>2
  <2>4. f.got => /\ f.from <= f.to /\ f.to <= n + 1
                 /\ f.to >= Backlog \/ f.to = f.from + Limit
    BY <1>3, <2>1, <2>2 DEF PageKnown
  <2>5. inFlight'[i] = f
    BY <1>2 DEF f
  <2>6. f.got => PageKnown(inFlight[i])'
    BY <1>4, <2>4, <2>5 DEF PageKnown
  <2>7. stage = "staggered" =>
          /\ \A p \in (drainedAt + 1)..f.from : log'[p] = "message" => Contains(emitted, p)
          /\ \A p \in (f.from + 1)..drainedAt : log'[p] # "message"
    BY <1>6, <1>7, <2>1, <2>3
  <2> QED
    BY <2>1, <2>3, <2>6, <2>7 DEF f
<1>11. Output'
  <2>1. Sighted([seen |-> seen, emitted |-> emitted])'
          <=> Sighted([seen |-> seen, emitted |-> emitted])
    BY <1>2 DEF Sighted
  <2>2. Told' <=> Told
    BY <1>2 DEF Told
  <2>3. drained => Covered(cursor)' /\ Clear(cursor)'
    <3>1. cursor \in 0..n
      BY <1>3
    <3> QED
      BY <1>2, <1>6, <1>7, <3>1 DEF Output, Covered, Clear, Contains
  <2> QED
    BY <1>2, <2>1, <2>2, <2>3 DEF Output
<1> QED
  BY <1>8, <1>9, <1>10, <1>11

(* An answer in time brings a page that PageKnown describes.                *)
LEMMA PageComes ==
  ASSUME NEW f \in Fetch, NEW to \in PageEnds(f), NEW token \in BOOLEAN,
         NEW g, g = Paged(f, to, token), Room,
         f.from <= f.sent, Backlog <= f.sent, f.sent <= Len(log)
  PROVE  /\ g \in Fetch /\ g.from = f.from /\ g.sent = f.sent /\ g.late = f.late
         /\ g.got /\ PageKnown(g)
<1> USE PollAssumption
<1>1. f.from \in 0..MaxLog /\ f.sent \in 0..MaxLog
  BY DEF Fetch
<1>2. Len(log) \in Nat /\ Len(log) <= MaxLog
  BY DEF Room
<1>3. PICK sample \in f.sent..Len(log) : to = Smaller(f.from + Limit, sample)
  BY DEF PageEnds
<1>4. /\ to \in 0..MaxLog /\ f.from <= to /\ to <= Len(log)
      /\ to >= Backlog \/ to = f.from + Limit
  BY <1>1, <1>2, <1>3 DEF Smaller
<1>5. /\ g \in Fetch /\ g.from = f.from /\ g.sent = f.sent /\ g.late = f.late
      /\ g.got /\ g.to = to
  BY <1>4 DEF Paged, Fetch
<1> QED
  BY <1>4, <1>5 DEF PageKnown

LEMMA Answered ==
  ASSUME PollInv, NEW i \in DOMAIN inFlight, Answer(i)
  PROVE  PollInv'
<1> USE PollAssumption DEF PollInv
<1>1. inFlight \in Seq(Fetch) /\ i \in 1..Len(inFlight) /\ Len(inFlight) \in Nat
  BY InDomain
<1>2. PICK to \in PageEnds(inFlight[i]), token \in BOOLEAN :
        /\ IF token THEN UNCHANGED faults ELSE Fault
        /\ inFlight' = IF stage = "racing"
                       THEN AllLate([inFlight EXCEPT ![i] = Paged(@, to, token)])
                       ELSE [inFlight EXCEPT ![i] = Paged(@, to, token)]
  BY DEF Answer
<1>3. /\ UNCHANGED <<opts, hold, log, cursorVars, outVars, aborted>>
      /\ stage' = IF stage = "racing" THEN "won" ELSE stage
  BY DEF Answer
<1>4. faults' \in 0..MaxFaults
  BY <1>2 DEF Fault, Room
<1>5. stage' \in Stages /\ hold' \in BOOLEAN /\ aborted' \in BOOLEAN
  BY <1>3 DEF Room, Stages
<1>6. Room' /\ Output'
  BY <1>3, <1>4, <1>5, RoomHolds
<1>7. /\ opts' = opts /\ log' = log /\ cursor' = cursor /\ drained' = drained
      /\ drainedAt' = drainedAt /\ emitted' = emitted /\ aborted' = aborted
  BY <1>3 DEF cursorVars, outVars
<1> DEFINE n == Len(inFlight)
           g == Paged(inFlight[i], to, token)
           paged == [inFlight EXCEPT ![i] = g]
           new == inFlight'
<1>8. /\ g \in Fetch /\ g.from = inFlight[i].from /\ g.sent = inFlight[i].sent
      /\ g.got /\ PageKnown(g)
  <2> DEFINE f == inFlight[i]
  <2>1. f \in Fetch /\ f.from <= f.sent /\ Backlog <= f.sent /\ f.sent <= Len(log)
    BY <1>1 DEF Asked
  <2>2. to \in PageEnds(f) /\ g = Paged(f, to, token)
    BY <1>2
  <2> HIDE DEF f, g
  <2> QED
    BY <2>1, <2>2, PageComes DEF f
<1>9. new = IF stage = "racing" THEN AllLate(paged) ELSE paged
  BY <1>2
<1>10. n \in Nat /\ n = Len(inFlight) /\ inFlight \in [1..n -> Fetch] /\ i \in 1..n
  BY <1>1
<1> HIDE DEF g, n
<1>11. paged \in [1..n -> Fetch] /\ paged[i] = g /\ \A j \in 1..n : j # i => paged[j] = inFlight[j]
  BY <1>8, <1>10
<1> HIDE DEF paged, new
<1>12. paged \in Seq(Fetch) /\ Len(paged) = n
  BY <1>10, <1>11
<1>13. /\ Thins(new, paged) /\ Len(new) = n
       /\ stage = "racing" => \A j \in 1..n : new[j].late \/ new[j].got
  <2>1. CASE stage = "racing"
    <3>1. new = AllLate(paged)
      BY <1>9, <2>1
    <3>2. /\ Thins(new, paged) /\ Len(new) = Len(paged)
          /\ \A j \in 1..Len(new) : new[j].got = paged[j].got /\ (new[j].late \/ new[j].got)
      BY <1>12, <3>1, LateThins
    <3> QED
      BY <1>12, <3>2
  <2>2. CASE stage # "racing"
    <3>1. new = paged
      BY <1>9, <2>2
    <3>2. \A j \in 1..Len(paged) : Aged(paged[j], paged[j])
      BY DEF Aged
    <3>3. Thins(paged, paged)
      BY <1>10, <1>12, <3>2 DEF Thins
    <3> QED
      BY <1>12, <2>2, <3>1, <3>3
  <2> QED
    BY <2>1, <2>2
<1>14. new \in Seq(Fetch) /\ DOMAIN new = 1..n
  BY <1>13 DEF Thins
<1>15. \A j \in 1..n : /\ paged[j].from = inFlight[j].from /\ paged[j].sent = inFlight[j].sent
                       /\ (paged[j] = g \/ paged[j] = inFlight[j])
  BY <1>8, <1>11
<1>16. \A j \in 1..n :
         /\ inFlight[j].from <= inFlight[j].sent
         /\ Backlog <= inFlight[j].sent /\ inFlight[j].sent <= Len(log)
         /\ aborted => paged[j].late \/ paged[j].got
         /\ paged[j].got => PageKnown(paged[j])
         /\ stage = "staggered" => Covered(inFlight[j].from) /\ Clear(inFlight[j].from)
  BY <1>8, <1>10, <1>15 DEF Asked
<1>17. \A j \in 1..n : \E k \in 1..n : Aged(new[j], paged[k])
  BY <1>12, <1>13 DEF Thins
<1>18. Asked'
  <2> SUFFICES ASSUME NEW j \in 1..n
               PROVE  /\ new[j].from <= new[j].sent
                      /\ Backlog <= new[j].sent /\ new[j].sent <= Len(log)
                      /\ aborted => new[j].late \/ new[j].got
                      /\ new[j].got => PageKnown(new[j])
                      /\ stage' = "staggered" => Covered(new[j].from) /\ Clear(new[j].from)
    BY <1>7, <1>13 DEF Asked, Covered, Clear, PageKnown, Contains, new
  <2>1. PICK k \in 1..n : Aged(new[j], paged[k])
    BY <1>17
  <2>2. new[j].from = inFlight[k].from /\ new[j].sent = inFlight[k].sent
    BY <1>15, <2>1 DEF Aged
  <2>3. aborted => new[j].late \/ new[j].got
    BY <1>16, <2>1 DEF Aged
  <2>4. new[j].got => PageKnown(new[j])
    BY <1>16, <2>1 DEF Aged, PageKnown
  <2>5. stage' = "staggered" => stage = "staggered"
    BY <1>3
  <2> QED
    BY <1>16, <2>2, <2>3, <2>4, <2>5
<1>19. CallsBounded'
  <2>1. \A j \in 1..n : stage' \in {"racing", "won"} => new[j].from = cursor
    <3> SUFFICES ASSUME NEW j \in 1..n, stage' \in {"racing", "won"}
                 PROVE  new[j].from = cursor
      OBVIOUS
    <3>1. PICK k \in 1..n : Aged(new[j], paged[k])
      BY <1>17
    <3>2. stage \in {"racing", "won"}
      BY <1>3
    <3>3. inFlight[k].from = cursor
      BY <1>10, <3>2 DEF Flight, CallsBounded
    <3> QED
      BY <1>15, <3>1, <3>3 DEF Aged
  <2>2. n <= IF stage' = "staggered" THEN opts.stagger ELSE opts.width
    <3>1. n <= IF stage = "staggered" THEN opts.stagger ELSE opts.width
      BY <1>10 DEF Flight, CallsBounded
    <3>2. stage' = "staggered" <=> stage = "staggered"
      BY <1>3
    <3> QED
      BY <3>1, <3>2
  <2>3. stage' # "ready"
    <3>1. stage # "ready"
      BY <1>10 DEF Flight, CallsBounded
    <3> QED
      BY <1>3, <3>1
  <2> QED
    BY <1>7, <1>13, <1>14, <2>1, <2>2, <2>3 DEF CallsBounded, new
<1>20. Flight'
  <2>1. stage' # "ended" /\ stage' # "racing"
    BY <1>3, <1>10 DEF Flight
  <2>2. /\ stage' \in {"racing", "won"} => (drained => opts.stagger = 1)
        /\ stage' = "staggered" => drained /\ opts.stagger > 1
    BY <1>3 DEF Flight
  <2> QED
    BY <1>7, <1>14, <1>19, <2>1, <2>2 DEF Flight, new
<1> QED
  BY <1>6, <1>18, <1>20

(* What a page brings.                                                      *)
LEMMA PageBrings ==
  ASSUME Room, Flight, Asked, NEW i \in 1..Len(inFlight), NEW f, f = inFlight[i],
         f.got, NEW to, to = f.to, NEW page, page = Messages(f.from, to)
  PROVE  /\ f.from \in Nat /\ to \in Nat /\ f.from <= to /\ to <= Len(log)
         /\ to >= Backlog \/ to = f.from + Limit
         /\ page \in Seq(1..MaxLog) /\ Rising(page)
         /\ \A p : Contains(page, p) <=> p \in (f.from + 1)..to /\ log[p] = "message"
<1> USE PollAssumption
<1>1. f.from \in Nat /\ to \in Nat
  <2>1. f \in Fetch
    BY DEF Flight
  <2> QED
    BY <2>1 DEF Fetch
<1>2. Len(log) \in Nat /\ Len(log) <= MaxLog
  BY DEF Room
<1>3. /\ f.from <= to /\ to <= Len(log)
      /\ to >= Backlog \/ to = f.from + Limit
  BY DEF Asked, PageKnown
<1>4. /\ page \in Seq(Nat) /\ Rising(page)
      /\ \A p \in Nat : Contains(page, p) <=> p \in Kept(f.from, to)
  BY <1>1, PageInOrder
<1>5. \A k \in 1..Len(page) : page[k] \in Nat /\ Contains(page, page[k])
  BY <1>4 DEF Contains
<1>6. \A p : p \in (f.from + 1)..to => p \in Nat /\ p \in 1..MaxLog
  BY <1>1, <1>2, <1>3
<1>7. \A p : Contains(page, p) <=> p \in (f.from + 1)..to /\ log[p] = "message"
  <2>1. \A p : Contains(page, p) => p \in Nat
    BY <1>5 DEF Contains
  <2> QED
    BY <1>4, <1>6, <2>1 DEF Kept
<1>8. page \in Seq(1..MaxLog)
  <2>1. \A k \in 1..Len(page) : page[k] \in 1..MaxLog
    BY <1>5, <1>6, <1>7
  <2>2. Len(page) \in Nat /\ page \in [1..Len(page) -> Nat]
    BY <1>4
  <2>3. page \in [1..Len(page) -> 1..MaxLog]
    BY <2>1, <2>2
  <2> QED
    BY <2>2, <2>3
<1> QED
  BY <1>1, <1>3, <1>4, <1>7, <1>8

(* A racing poll emits a page behind what it has emitted.                   *)
Joined(S, e, page, new) ==
  /\ new \in Seq(S) /\ Len(new) = Len(e) + Len(page)
  /\ \A k \in 1..Len(e) : new[k] = e[k]
  /\ \A k \in 1..Len(page) : new[Len(e) + k] = page[k]
  /\ \A k \in 1..Len(new) : k \in 1..Len(e) \/ k - Len(e) \in 1..Len(page)
  /\ \A q : Contains(new, q) <=> Contains(e, q) \/ Contains(page, q)

LEMMA PageAppended ==
  ASSUME NEW S, NEW e \in Seq(S), NEW page \in Seq(S), NEW new, new = e \o page
  PROVE  Joined(S, e, page, new)
<1> DEFINE m == Len(e)
           n == Len(page)
<1>1. /\ m \in Nat /\ n \in Nat /\ new \in Seq(S) /\ Len(new) = m + n
      /\ m = Len(e) /\ n = Len(page)
  BY ConcatProperties
<1>2. \A k \in 1..(m + n) : new[k] = IF k <= m THEN e[k] ELSE page[k - m]
  BY <1>1, ConcatProperties
<1> HIDE DEF m, n
<1>3. \A k \in 1..m : new[k] = e[k]
  <2>1. \A k \in 1..m : k \in 1..(m + n) /\ k <= m
    BY <1>1
  <2> QED
    BY <1>2, <2>1
<1>4. \A k \in 1..n : new[m + k] = page[k]
  <2> SUFFICES ASSUME NEW k \in 1..n
               PROVE  new[m + k] = page[k]
    OBVIOUS
  <2> DEFINE l == m + k
  <2>1. l \in 1..(m + n) /\ ~ (l <= m) /\ l - m = k
    BY <1>1
  <2> HIDE DEF l
  <2>2. new[l] = page[l - m]
    BY <1>2, <2>1
  <2>3. new[l] = page[k]
    BY <2>1, <2>2
  <2> QED
    BY <2>3 DEF l
<1>5. \A k \in 1..(m + n) : k \in 1..m \/ (k - m \in 1..n /\ m + (k - m) = k)
  BY <1>1
<1>6. \A k \in 1..m : k \in 1..(m + n)
  BY <1>1
<1>7. \A k \in 1..n : m + k \in 1..(m + n)
  BY <1>1
<1>8. \A q : Contains(new, q) <=> Contains(e, q) \/ Contains(page, q)
  <2>1. ASSUME NEW q, Contains(new, q)
        PROVE  Contains(e, q) \/ Contains(page, q)
    <3>1. PICK k \in 1..(m + n) : new[k] = q
      BY <1>1, <2>1 DEF Contains
    <3>2. CASE k \in 1..m
      BY <1>1, <1>3, <3>1, <3>2 DEF Contains
    <3>3. CASE k - m \in 1..n /\ m + (k - m) = k
      BY <1>1, <1>4, <3>1, <3>3 DEF Contains
    <3> QED
      BY <1>5, <3>2, <3>3
  <2>2. ASSUME NEW q, Contains(e, q)
        PROVE  Contains(new, q)
    BY <1>1, <1>3, <1>6, <2>2 DEF Contains
  <2>3. ASSUME NEW q, Contains(page, q)
        PROVE  Contains(new, q)
    BY <1>1, <1>4, <1>7, <2>3 DEF Contains
  <2> QED
    BY <2>1, <2>2, <2>3
<1> QED
  BY <1>1, <1>3, <1>4, <1>5, <1>8 DEF Joined

LEMMA ShorterRange ==
  ASSUME NEW a \in Nat, NEW b \in Nat, NEW c \in Nat, a <= b
  PROVE  \A p \in (b + 1)..c : p \in (a + 1)..c
  OBVIOUS

LEMMA Won ==
  ASSUME PollInv, NEW i \in DOMAIN inFlight, Win(i)
  PROVE  PollInv'
<1> USE PollAssumption DEF PollInv
<1>1. inFlight \in Seq(Fetch) /\ i \in 1..Len(inFlight)
  BY InDomain
<1> DEFINE f == inFlight[i]
           to == f.to
           page == Messages(f.from, to)
<1>2. /\ cursor' = IF f.token THEN to ELSE cursor
      /\ drained' = (drained \/ page = <<>>)
      /\ drainedAt' = IF ~drained /\ page = <<>> THEN to ELSE drainedAt
      /\ emitted' = IF drained THEN emitted \o page ELSE emitted
      /\ unmoved' = IF f.token THEN unmoved
                    ELSE unmoved \union (DOMAIN emitted' \ DOMAIN emitted)
      /\ f.got
  BY <1>1 DEF Win, InHand
<1>3. /\ stage = "won" /\ stage' = "settling"
      /\ inFlight' = AllLate(RemoveAt(inFlight, i))
      /\ opts' = opts /\ hold' = hold /\ log' = log /\ seen' = seen
      /\ aborted' = aborted /\ faults' = faults
  BY DEF Win
<1>4. f.from = cursor
  BY <1>1, <1>3 DEF Flight, CallsBounded
<1> HIDE DEF f, to
<1>5. /\ f.from \in Nat /\ to \in Nat /\ f.from <= to /\ to <= Len(log)
      /\ to >= Backlog \/ to = f.from + Limit
      /\ page \in Seq(1..MaxLog) /\ Rising(page)
      /\ \A p : Contains(page, p) <=> p \in (f.from + 1)..to /\ log[p] = "message"
  BY <1>1, <1>2, PageBrings DEF f, to
<1> HIDE DEF page
<1>6. Flight' /\ Asked'
  <2> DEFINE left == RemoveAt(inFlight, i)
  <2>1. Thins(left, inFlight)
    BY <1>1, RemovedThins
  <2>2. left \in Seq(Fetch)
    BY <2>1 DEF Thins
  <2> HIDE DEF left
  <2>3. inFlight' = AllLate(left)
    BY <1>3 DEF left
  <2>4. Thins(inFlight', left)
    BY <2>2, <2>3, LateThins
  <2>5. Thins(inFlight', inFlight)
    BY <1>1, <2>1, <2>4, ThinsTwice
  <2> QED
    BY <1>3, <2>5, ThinFlight
<1>7. /\ Len(log) \in Nat /\ Limit \in Nat \ {0} /\ Backlog \in Nat /\ log \in Seq(Kinds)
      /\ cursor \in Nat /\ drainedAt \in Nat /\ cursor <= to /\ drainedAt <= Len(log)
      /\ stage' \in Stages
  <2>1. Len(log) \in Nat /\ cursor \in 0..Len(log) /\ drainedAt \in 0..Len(log)
    BY DEF Room
  <2> QED
    BY <1>3, <1>4, <1>5, <2>1 DEF Room, Stages
<1>8. cursor' \in Nat /\ cursor <= cursor' /\ cursor' <= to /\ cursor' \in 0..Len(log')
  BY <1>2, <1>3, <1>5, <1>7
<1>9. CASE ~ drained
  <2>1. /\ drainedAt' = (IF page = <<>> THEN to ELSE 0) /\ emitted' = emitted /\ emitted = <<>>
        /\ drained' = (page = <<>>) /\ Len(emitted) = 0 /\ unmoved' = unmoved /\ unmoved = {}
    <3>1. drainedAt = 0 /\ emitted = <<>> /\ emitted' = emitted
      BY <1>2, <1>9 DEF Room
    <3>2. Len(emitted) = 0 /\ DOMAIN emitted' = DOMAIN emitted
      BY <3>1
    <3>3. unmoved = {}
      <4>1. unmoved \subseteq 1..0 /\ 1..0 = {}
        BY <3>2 DEF Output
      <4> QED
        BY <4>1, Zenon
    <3>4. unmoved = {} /\ unmoved' = {}
      <4>1. unmoved' = unmoved \/ unmoved' = unmoved \union (DOMAIN emitted' \ DOMAIN emitted)
        BY <1>2, Zenon
      <4> QED
        BY <3>2, <3>3, <4>1, Zenon
    <3> QED
      BY <1>2, <1>9, <3>1, <3>2, <3>4
  <2>2. page = <<>> => \A p \in (cursor + 1)..to : p \in 1..Len(log) /\ log[p] = "other"
    <3> SUFFICES ASSUME page = <<>>, NEW p \in (cursor + 1)..to
                 PROVE  p \in 1..Len(log) /\ log[p] = "other"
      OBVIOUS
    <3>1. ~ Contains(page, p)
      BY DEF Contains
    <3>2. p \in 1..Len(log) /\ p \in (f.from + 1)..to
      BY <1>4, <1>5, <1>7
    <3>3. log[p] \in Kinds
      BY <1>7, <3>2
    <3> QED
      BY <1>5, <3>1, <3>2, <3>3 DEF Kinds
  <2>3. page = <<>> => to >= Backlog \/ Silent(to)
    <3> SUFFICES ASSUME page = <<>>, to = cursor + Limit
                 PROVE  Silent(to)
      BY <1>4, <1>5
    <3>1. to >= Limit /\ to - Limit + 1 = cursor + 1
      BY <1>7
    <3> QED
      BY <2>2, <3>1 DEF Silent
  <2>4. Room'
    <3>1. drainedAt' \in 0..Len(log') /\ drained' \in BOOLEAN
      BY <1>3, <1>5, <1>7, <2>1
    <3>2. ~drained' => drainedAt' = 0 /\ emitted' = <<>>
      BY <2>1
    <3>3. Silent(to) /\ page = <<>> => Silent(drainedAt)'
      BY <1>3, <2>1 DEF Silent
    <3>4. drained' => drainedAt' >= Backlog \/ Silent(drainedAt)'
      BY <2>1, <2>3, <3>3
    <3>5. /\ opts' \in Options /\ hold' \in BOOLEAN /\ aborted' \in BOOLEAN /\ faults' \in 0..MaxFaults
          /\ log' \in Seq(Kinds) /\ Len(log') <= MaxLog /\ Backlog <= Len(log')
      BY <1>3 DEF Room
    <3> QED
      BY <1>7, <1>8, <3>1, <3>2, <3>4, <3>5 DEF Room
  <2>5. Output'
    <3>1. Sighted([seen |-> seen, emitted |-> emitted])'
            <=> Sighted([seen |-> seen, emitted |-> emitted])
      BY <1>3, <2>1 DEF Sighted
    <3>2. Told'
      BY <2>1 DEF Told
    <3>3. drained' => Covered(cursor)' /\ Clear(cursor)'
      <4> SUFFICES ASSUME page = <<>>, drainedAt' = to
                   PROVE  Covered(cursor)' /\ Clear(cursor)'
        BY <2>1
      <4>1. Covered(cursor)'
        BY <1>5, <1>8 DEF Covered
      <4>2. \A p \in (cursor' + 1)..to : p \in (cursor + 1)..to
        BY <1>5, <1>7, <1>8, ShorterRange
      <4>3. \A p \in (cursor' + 1)..to : log[p] # "message"
        BY <2>2, <4>2
      <4>4. Clear(cursor)'
        BY <1>3, <4>3 DEF Clear
      <4> QED
        BY <4>1, <4>4
    <3>4. Len(emitted) = 0 /\ emitted' = emitted /\ seen' = seen /\ opts' = opts
      BY <1>3, <2>1
    <3> QED
      BY <2>1, <3>1, <3>2, <3>3, <3>4 DEF Output
  <2> QED
    BY <1>6, <2>4, <2>5
<1>10. CASE drained
  <2>1. /\ drainedAt' = drainedAt /\ emitted' = emitted \o page /\ drained' /\ opts.stagger = 1
        /\ emitted \in Seq(1..MaxLog) /\ seen = <<>> /\ Told /\ Covered(cursor) /\ Clear(cursor)
        /\ unmoved \subseteq 1..Len(emitted)
        /\ \A k \in 1..Len(emitted) : emitted[k] > drainedAt
    <3>1. drainedAt' = drainedAt /\ emitted' = emitted \o page /\ drained'
      BY <1>2, <1>10
    <3>2. opts.stagger = 1
      BY <1>3, <1>10 DEF Flight
    <3> QED
      BY <1>10, <3>1, <3>2 DEF Output
  <2>2. Room'
    <3>1. Silent(drainedAt) => Silent(drainedAt)'
      BY <1>3, <2>1 DEF Silent
    <3>2. /\ opts' \in Options /\ hold' \in BOOLEAN /\ aborted' \in BOOLEAN /\ faults' \in 0..MaxFaults
          /\ log' \in Seq(Kinds) /\ Len(log') <= MaxLog /\ Backlog <= Len(log')
      BY <1>3 DEF Room
    <3>3. drainedAt' \in 0..Len(log') /\ drained' \in BOOLEAN
      BY <1>3, <1>7, <1>10, <2>1
    <3>4. drained' => drainedAt' >= Backlog \/ Silent(drainedAt)'
      BY <1>10, <2>1, <3>1 DEF Room
    <3> QED
      BY <1>7, <1>8, <2>1, <3>2, <3>3, <3>4 DEF Room
  <2>3. \A k \in 1..Len(page) :
          /\ page[k] \in Nat /\ cursor < page[k] /\ page[k] <= to /\ page[k] > drainedAt
    <3> SUFFICES ASSUME NEW k \in 1..Len(page)
                 PROVE  /\ page[k] \in Nat /\ cursor < page[k] /\ page[k] <= to
                        /\ page[k] > drainedAt
      OBVIOUS
    <3>1. Contains(page, page[k])
      BY DEF Contains
    <3> DEFINE q == page[k]
    <3>2. q \in (cursor + 1)..to /\ log[q] = "message"
      BY <1>4, <1>5, <3>1
    <3> HIDE DEF q
    <3>3. q \in Nat /\ cursor < q /\ q <= to
      BY <1>7, <3>2
    <3>4. q <= drainedAt => q \in (cursor + 1)..drainedAt
      BY <1>7, <3>3
    <3>5. q > drainedAt
      BY <1>7, <2>1, <3>2, <3>3, <3>4 DEF Clear
    <3> QED
      BY <3>3, <3>5 DEF q
  <2> DEFINE new == emitted \o page
             m == Len(emitted)
             n == Len(page)
             S == 1..MaxLog
  <2>4. emitted \in Seq(S) /\ page \in Seq(S) /\ new = emitted \o page
    BY <1>5, <2>1
  <2> HIDE DEF new, S
  <2>5. /\ new \in Seq(S) /\ Len(new) = m + n /\ m \in Nat /\ n \in Nat
        /\ \A k \in 1..m : new[k] = emitted[k]
        /\ \A k \in 1..n : new[m + k] = page[k]
        /\ \A q : Contains(new, q) <=> Contains(emitted, q) \/ Contains(page, q)
    <3>1. Joined(S, emitted, page, new)
      BY <2>4, PageAppended
    <3>2. m \in Nat /\ n \in Nat
      BY <2>4
    <3> QED
      BY <3>1, <3>2 DEF Joined
  <2>6. emitted' = new /\ m = Len(emitted) /\ n = Len(page)
    BY <2>1, <2>4
  <2>7. DOMAIN new = 1..(m + n) /\ DOMAIN emitted = 1..m /\ DOMAIN page = 1..n
    BY <1>5, <2>1, <2>5
  <2> HIDE DEF m, n
  <2>8. \A k \in 1..(m + n) : \/ k \in 1..m /\ new[k] = emitted[k]
                              \/ k \notin 1..m /\ k - m \in 1..n /\ new[k] = page[k - m]
    <3> SUFFICES ASSUME NEW k \in 1..(m + n), k \notin 1..m
                 PROVE  k - m \in 1..n /\ new[k] = page[k - m]
      BY <2>5
    <3> DEFINE l == k - m
    <3>1. l \in 1..n /\ m + l = k
      BY <2>5
    <3> HIDE DEF l
    <3>2. new[k] = page[l]
      BY <2>5, <3>1
    <3> QED
      BY <3>1, <3>2 DEF l
  <2>9. unmoved' = IF f.token THEN unmoved ELSE unmoved \union ((1..(m + n)) \ (1..m))
    BY <1>2, <2>6, <2>7
  <2>10. unmoved \subseteq 1..m /\ unmoved' \subseteq 1..(m + n) /\ unmoved \subseteq unmoved'
    <3>1. unmoved \subseteq 1..m /\ 1..m \subseteq 1..(m + n)
      BY <2>1, <2>5, <2>6
    <3> QED
      BY <2>9, <3>1
  <2>11. \A k \in 1..m : k \in unmoved \/ (emitted[k] \in Nat /\ emitted[k] <= cursor)
    <3>1. \A k \in 1..m : emitted[k] \in Nat
      BY <2>1, <2>6
    <3> QED
      BY <2>1, <2>6, <3>1 DEF Told
  <2>12. \A k \in 1..(m + n) : k \in unmoved' \/ new[k] <= cursor'
    <3> SUFFICES ASSUME NEW k \in 1..(m + n)
                 PROVE  k \in unmoved' \/ new[k] <= cursor'
      OBVIOUS
    <3>1. CASE k \in 1..m
      <4>1. k \in unmoved \/ (new[k] \in Nat /\ new[k] <= cursor)
        BY <2>5, <2>11, <3>1
      <4> QED
        BY <1>7, <1>8, <2>10, <4>1
    <3>2. CASE k \notin 1..m /\ f.token
      <4>1. k - m \in 1..n /\ new[k] = page[k - m] /\ cursor' = to
        BY <1>2, <2>8, <3>2
      <4> QED
        BY <2>3, <2>6, <4>1
    <3>3. CASE k \notin 1..m /\ ~ f.token
      BY <2>9, <3>3
    <3> QED
      BY <3>1, <3>2, <3>3
  <2>13. ASSUME NEW a \in 1..(m + n), NEW b \in 1..(m + n), a < b, new[a] = new[b]
         PROVE  a \in unmoved'
    <3>1. CASE b \in 1..m
      <4>1. a \in 1..m
        BY <2>5, <2>13, <3>1
      <4>2. emitted[a] = emitted[b]
        BY <2>5, <2>13, <3>1, <4>1
      <4> QED
        BY <2>1, <2>6, <2>10, <2>13, <3>1, <4>1, <4>2 DEF Told
    <3>2. CASE a \in 1..m /\ b \notin 1..m
      <4> DEFINE l == b - m
      <4>1. l \in 1..n /\ new[b] = page[l] /\ new[a] = emitted[a]
        BY <2>5, <2>8, <3>2
      <4> HIDE DEF l
      <4>2. cursor < page[l] /\ page[l] \in Nat
        BY <2>3, <2>6, <4>1
      <4>3. ~ (emitted[a] \in Nat /\ emitted[a] <= cursor)
        BY <1>7, <2>13, <4>1, <4>2
      <4> QED
        BY <2>10, <2>11, <3>2, <4>3
    <3>3. CASE a \notin 1..m /\ b \notin 1..m
      <4> DEFINE k == a - m
                 l == b - m
      <4>1. k \in 1..n /\ l \in 1..n /\ new[a] = page[k] /\ new[b] = page[l] /\ k < l
        BY <2>5, <2>8, <2>13, <3>3
      <4> HIDE DEF k, l
      <4>2. page[k] < page[l] /\ page[k] \in Nat /\ page[l] \in Nat
        BY <1>5, <2>3, <2>6, <2>7, <4>1 DEF Rising
      <4>3. page[k] # page[l]
        BY <4>2
      <4> QED
        BY <2>13, <4>1, <4>3
    <3>4. a \in 1..m \/ b \notin 1..m
      BY <2>5, <2>13
    <3> QED
      BY <3>1, <3>2, <3>3, <3>4
  <2>14. Told'
    <3>1. Len(emitted') = m + n /\ emitted' = new
      BY <2>5, <2>6
    <3> QED
      BY <2>12, <2>13, <3>1 DEF Told
  <2>15. \A p \in (drainedAt + 1)..cursor' : log[p] = "message" => Contains(new, p)
    <3> SUFFICES ASSUME NEW p \in (drainedAt + 1)..cursor', log[p] = "message"
                 PROVE  Contains(new, p)
      OBVIOUS
    <3>1. CASE p \in (drainedAt + 1)..cursor
      BY <2>1, <2>5, <3>1 DEF Covered
    <3>2. CASE ~ (p \in (drainedAt + 1)..cursor)
      <4>1. p \in (f.from + 1)..to
        BY <1>4, <1>5, <1>7, <1>8, <3>2
      <4> QED
        BY <1>5, <2>5, <4>1
    <3> QED
      BY <3>1, <3>2
  <2>16. Covered(cursor)' /\ Clear(cursor)'
    <3>1. Covered(cursor)'
      BY <1>3, <2>1, <2>6, <2>15 DEF Covered, Contains
    <3>2. \A p \in (cursor' + 1)..drainedAt : p \in (cursor + 1)..drainedAt
      BY <1>7, <1>8, ShorterRange
    <3>3. \A p \in (cursor' + 1)..drainedAt : log[p] # "message"
      BY <2>1, <3>2 DEF Clear
    <3> QED
      BY <1>3, <2>1, <3>1, <3>3 DEF Clear
  <2>17. \A k \in 1..(m + n) : new[k] > drainedAt
    <3> SUFFICES ASSUME NEW k \in 1..(m + n)
                 PROVE  new[k] > drainedAt
      OBVIOUS
    <3>1. CASE k \in 1..m
      BY <2>1, <2>5, <2>6, <3>1
    <3>2. CASE k \notin 1..m
      <4>1. k - m \in 1..n /\ new[k] = page[k - m]
        BY <2>8, <3>2
      <4> QED
        BY <2>3, <2>6, <4>1
    <3> QED
      BY <3>1, <3>2
  <2>18. Output'
    <3>1. /\ emitted' \in Seq(1..MaxLog) /\ Len(emitted') = m + n /\ emitted' = new
          /\ seen' = <<>> /\ seen' \in Seq(1..MaxLog)
      BY <1>3, <2>1, <2>5, <2>6 DEF S
    <3>2. \A k \in 1..Len(emitted') : emitted'[k] > drainedAt'
      BY <2>1, <2>17, <3>1
    <3>3. unmoved' \subseteq 1..Len(emitted') /\ opts'.stagger = 1
      BY <1>3, <2>1, <2>10, <3>1
    <3> QED
      BY <2>14, <2>16, <3>1, <3>2, <3>3 DEF Output
  <2> QED
    BY <1>6, <2>2, <2>18
<1> QED
  BY <1>9, <1>10

LEMMA Delivered ==
  ASSUME PollInv, NEW i \in DOMAIN inFlight, Deliver(i)
  PROVE  PollInv'
<1> USE PollAssumption DEF PollInv
<1>1. inFlight \in Seq(Fetch) /\ i \in 1..Len(inFlight)
  BY InDomain
<1> DEFINE f == inFlight[i]
           to == f.to
           page == Messages(f.from, to)
           base == [seen |-> seen, emitted |-> emitted]
           new == FoldLeft(FirstSighting, base, page)
<1>2. /\ cursor' = IF f.fresh /\ f.token THEN to ELSE cursor
      /\ seen' = new.seen /\ emitted' = new.emitted
      /\ inFlight' = Adopted(i) /\ f.got
      /\ hold' = hold \/ hold' = TRUE
  <2>1. hold' \in IF new.emitted # emitted /\ ~aborted THEN {hold, TRUE} ELSE {hold}
    BY Zenon DEF Deliver
  <2>2. hold' = hold \/ hold' = TRUE
    BY <2>1
  <2> QED
    BY <2>2 DEF Deliver, InHand
<1>3. /\ stage = "staggered" /\ stage' = stage /\ opts' = opts /\ log' = log
      /\ drained' = drained /\ drainedAt' = drainedAt
      /\ aborted' = aborted /\ faults' = faults /\ unmoved' = unmoved
  BY DEF Deliver
<1>4. Thins(inFlight', inFlight)
  BY <1>1, <1>2, AdoptedThins
<1>5. new = FoldLeft(FirstSighting, base, page) /\ seen' = new.seen /\ emitted' = new.emitted
  BY <1>2
<1> HIDE DEF f, to, page, new
<1>6. /\ f.from \in Nat /\ to \in Nat /\ f.from <= to /\ to <= Len(log)
      /\ page \in Seq(1..MaxLog)
      /\ \A p : Contains(page, p) <=> p \in (f.from + 1)..to /\ log[p] = "message"
  BY <1>1, <1>2, PageBrings DEF f, to, page
<1>7. /\ drained /\ opts.stagger > 1 /\ opts.stagger # 1 /\ Len(log) \in Nat
      /\ cursor \in Nat /\ cursor <= Len(log) /\ drainedAt \in Nat /\ drainedAt <= Len(log)
  <2>1. drained /\ opts.stagger > 1 /\ opts.stagger \in Nat
    BY <1>3 DEF Flight, Room
  <2> QED
    BY <2>1 DEF Room
<1>8. Covered(f.from) /\ Clear(f.from) /\ Covered(cursor) /\ Clear(cursor)
  BY <1>1, <1>3, <1>7 DEF Asked, Output, f
<1>9. Sighted(base) /\ unmoved = {}
  BY <1>7 DEF Output
<1>10. base.emitted = emitted
  OBVIOUS
<1> HIDE DEF base
<1>11. /\ Sighted(new)
       /\ \A q : Contains(new.emitted, q) <=> Contains(base.emitted, q) \/ Contains(page, q)
  BY <1>5, <1>6, <1>9, FoldKeeps
<1>12. \A q : Contains(emitted', q) <=> Contains(emitted, q) \/ Contains(page, q)
  BY <1>5, <1>10, <1>11
<1>13. Flight' /\ Asked'
  <2>1. \A q : Contains(emitted, q) => Contains(emitted', q)
    BY <1>12
  <2> QED
    BY <1>3, <1>4, <2>1, ThinFlight
<1>14. cursor' = to \/ cursor' = cursor
  BY <1>2
<1>15. Room'
  <2>1. Silent(drainedAt) => Silent(drainedAt)'
    BY <1>3 DEF Silent
  <2>2. cursor' \in 0..Len(log) /\ hold' \in BOOLEAN
    <3>1. cursor' \in 0..Len(log)
      BY <1>6, <1>7, <1>14
    <3>2. hold \in BOOLEAN
      BY DEF Room
    <3>3. hold' \in BOOLEAN
      BY <1>2, <3>2
    <3> QED
      BY <3>1, <3>3
  <2>3. /\ opts' \in Options /\ stage' \in Stages /\ aborted' \in BOOLEAN /\ faults' \in 0..MaxFaults
        /\ log' \in Seq(Kinds) /\ Len(log') <= MaxLog /\ Backlog <= Len(log')
    BY <1>3 DEF Room
  <2>4. drained' = TRUE /\ drainedAt' \in 0..Len(log') /\ cursor' \in 0..Len(log')
    BY <1>3, <1>7, <2>2 DEF Room
  <2>5. drainedAt' >= Backlog \/ Silent(drainedAt)'
    BY <1>3, <1>7, <2>1 DEF Room
  <2> QED
    BY <2>2, <2>3, <2>4, <2>5 DEF Room
<1>16. \A p \in (f.from + 1)..to : log[p] = "message" => p > drainedAt
  <2> SUFFICES ASSUME NEW p \in (f.from + 1)..to, log[p] = "message"
               PROVE  p > drainedAt
    OBVIOUS
  <2>1. p \in Nat /\ (p <= drainedAt => p \in (f.from + 1)..drainedAt)
    BY <1>6, <1>7
  <2> QED
    BY <1>7, <1>8, <2>1 DEF Clear
<1>17. Covered(cursor)' /\ Clear(cursor)'
  <2>1. \A p \in (drainedAt + 1)..cursor : log[p] = "message" => Contains(emitted', p)
    BY <1>8, <1>12 DEF Covered
  <2>2. \A p \in (drainedAt + 1)..to : log[p] = "message" => Contains(emitted', p)
    <3> SUFFICES ASSUME NEW p \in (drainedAt + 1)..to, log[p] = "message"
                 PROVE  Contains(emitted', p)
      OBVIOUS
    <3>1. CASE p \in (drainedAt + 1)..f.from
      BY <1>8, <1>12, <3>1 DEF Covered
    <3>2. CASE ~ (p \in (drainedAt + 1)..f.from)
      <4>1. p \in (f.from + 1)..to
        BY <1>6, <1>7, <3>2
      <4> QED
        BY <1>6, <1>12, <4>1
    <3> QED
      BY <3>1, <3>2
  <2>3. \A p \in (drainedAt' + 1)..cursor' : log'[p] = "message" => Contains(emitted', p)
    BY <1>3, <1>14, <2>1, <2>2
  <2>4. \A p \in (to + 1)..drainedAt : p \in (f.from + 1)..drainedAt
    BY <1>6, <1>7, ShorterRange
  <2>5. \A p \in (to + 1)..drainedAt : log[p] # "message"
    BY <1>8, <2>4 DEF Clear
  <2>6. \A p \in (cursor' + 1)..drainedAt' : log'[p] # "message"
    BY <1>3, <1>8, <1>14, <2>5 DEF Clear
  <2> QED
    BY <2>3, <2>6 DEF Covered, Clear, Contains
<1>18. \A k \in 1..Len(emitted') : emitted'[k] > drainedAt'
  <2> SUFFICES ASSUME NEW k \in 1..Len(emitted')
               PROVE  emitted'[k] > drainedAt
    BY <1>3
  <2> DEFINE q == emitted'[k]
  <2>1. Contains(emitted', q)
    BY DEF Contains
  <2> HIDE DEF q
  <2>2. Contains(emitted, q) \/ Contains(page, q)
    BY <1>12, <2>1
  <2>3. CASE Contains(emitted, q)
    <3>1. PICK l \in 1..Len(emitted) : emitted[l] = q
      BY <2>3 DEF Contains
    <3>2. emitted[l] > drainedAt
      BY DEF Output
    <3> QED
      BY <3>1, <3>2 DEF q
  <2>4. CASE Contains(page, q)
    BY <1>6, <1>16, <2>4 DEF q
  <2> QED
    BY <2>2, <2>3, <2>4
<1>19. Output'
  <2>1. /\ new.seen \in Seq(1..MaxLog) /\ new.emitted \in Seq(1..MaxLog)
        /\ Len(new.seen) = Smaller(SeenMax, Len(new.emitted))
        /\ \A k \in 1..Len(new.seen) :
             new.seen[k] = new.emitted[Len(new.emitted) - Len(new.seen) + k]
        /\ \A k, l \in 1..Len(new.emitted) :
             k < l /\ new.emitted[k] = new.emitted[l] => l - k > SeenMax
    BY <1>11 DEF Sighted
  <2>2. Sighted([seen |-> seen, emitted |-> emitted])'
    BY <1>5, <2>1 DEF Sighted
  <2>3. emitted' \in Seq(1..MaxLog) /\ seen' \in Seq(1..MaxLog) /\ opts'.stagger # 1
    BY <1>3, <1>5, <1>7, <2>1
  <2>4. unmoved' \subseteq 1..Len(emitted') /\ unmoved' = {}
    BY <1>3, <1>9
  <2> QED
    BY <1>17, <1>18, <2>2, <2>3, <2>4 DEF Output
<1> QED
  BY <1>13, <1>15, <1>19

LEMMA Keeps == PollInv /\ [Next]_vars => PollInv'
<1> SUFFICES ASSUME PollInv, [Next]_vars
             PROVE  PollInv'
  OBVIOUS
<1>1. CASE \E kind \in Kinds : Post(kind)
  BY <1>1, Posted
<1>2. CASE Wake \/ RoundEnds \/ EnterStagger \/ LoopEnds \/ UNCHANGED vars
  BY <1>2, Paced
<1>3. CASE BeginRound
  BY <1>3, Raced
<1>4. CASE Launch
  BY <1>4, Launched
<1>5. CASE \E i \in DOMAIN inFlight : Win(i)
  BY <1>5, Won
<1>6. CASE \E i \in DOMAIN inFlight : Deliver(i)
  BY <1>6, Delivered
<1>7. CASE \E i \in DOMAIN inFlight :
             RacerFails(i) \/ RacerTimesOut(i) \/ FetchFails(i) \/ FetchTimesOut(i) \/ LateSettles(i)
  BY <1>7, Settled
<1>8. CASE \E i \in DOMAIN inFlight : Answer(i)
  BY <1>8, Answered
<1>9. CASE Stop
  BY <1>9, Stopped
<1> QED
  BY <1>1, <1>2, <1>3, <1>4, <1>5, <1>6, <1>7, <1>8, <1>9 DEF Next

(* The inductive invariant behind the theorems below: calls in flight are   *)
(* bounded, pages in hand are what LINE can have answered, and what came    *)
(* out is all that was live up to the cursor.                               *)
THEOREM InductiveInvariant == Spec => []PollInv
<1>1. Init => PollInv
  BY Starts
<1>2. PollInv /\ [Next]_vars => PollInv'
  BY Keeps
<1> QED
  BY <1>1, <1>2, PTL DEF Spec

------------------------------------------------------------------------------
(* What it shows.                                                           *)

(* Whatever fetches fail, time out or come in after stop(), the poll holds  *)
(* no more than SEEN_MESSAGE_IDS_MAX seen ids, and its cursor is a position *)
(* of the room.                                                             *)
THEOREM TypeCorrect == Spec => []TypeOK
<1>1. PollInv => TypeOK
  <2> SUFFICES ASSUME PollInv
               PROVE  TypeOK
    OBVIOUS
  <2> USE PollAssumption DEF PollInv
  <2>1. Len(seen) <= SeenMax
    <3>1. opts.stagger \in Nat \ {0}
      BY DEF Room
    <3>2. CASE opts.stagger = 1
      BY <3>2 DEF Output
    <3>3. CASE opts.stagger # 1
      <4>1. opts.stagger > 1
        BY <3>1, <3>3
      <4>2. Sighted([seen |-> seen, emitted |-> emitted])
        BY <4>1 DEF Output
      <4>3. Len(seen) = Smaller(SeenMax, Len(emitted))
        BY <4>2 DEF Sighted
      <4>4. Len(emitted) \in Nat
        BY DEF Output
      <4> QED
        BY <4>3, <4>4 DEF Smaller
    <3> QED
      BY <3>2, <3>3
  <2>2. DOMAIN emitted = 1..Len(emitted)
    BY DEF Output
  <2> QED
    BY <2>1, <2>2 DEF TypeOK, Room, Flight, Output
<1> QED
  BY <1>1, InductiveInvariant, PTL

(* The cursor never passes a live message that was not emitted, whichever   *)
(* fetch moves it.                                                          *)
THEOREM NothingSkipped == Spec => []NoLiveMessageSkipped
<1>1. PollInv => NoLiveMessageSkipped
  BY DEF PollInv, Output, Covered, NoLiveMessageSkipped, IsMessage
<1> QED
  BY <1>1, InductiveInvariant, PTL

(* A staggered poll emits a message again only after SEEN_MESSAGE_IDS_MAX   *)
(* others; a racing poll only if it came in a page without a token, which   *)
(* the next round asks for again.                                           *)
THEOREM EmittedOnceHolds == Spec => []EmittedOnce
<1>1. PollInv => EmittedOnce
  <2> SUFFICES ASSUME PollInv, NEW i \in DOMAIN emitted, NEW j \in DOMAIN emitted,
                      i < j, emitted[i] = emitted[j]
               PROVE  IF opts.stagger > 1 THEN j - i > SeenMax ELSE i \in unmoved
    BY DEF EmittedOnce
  <2> USE PollAssumption DEF PollInv
  <2>1. DOMAIN emitted = 1..Len(emitted) /\ opts.stagger \in Nat \ {0}
    BY DEF Output, Room
  <2>2. CASE opts.stagger > 1
    <3>1. Sighted([seen |-> seen, emitted |-> emitted])
      BY <2>2 DEF Output
    <3> QED
      BY <2>1, <2>2, <3>1 DEF Sighted
  <2>3. CASE ~ (opts.stagger > 1)
    <3>1. opts.stagger = 1
      BY <2>1, <2>3
    <3>2. Told
      BY <3>1 DEF Output
    <3> QED
      BY <2>1, <2>3, <3>2 DEF Told
  <2> QED
    BY <2>2, <2>3
<1> QED
  BY <1>1, InductiveInvariant, PTL

(* No more calls are out at LINE than the poll is configured for, timed-out *)
(* ones included, and the calls of one round ask for the same page.         *)
THEOREM CallsAreBounded == Spec => []CallsBounded
<1>1. PollInv => CallsBounded
  BY DEF PollInv, Flight
<1> QED
  BY <1>1, InductiveInvariant, PTL

(* History is answered only if the drain ended at a full page without a     *)
(* single message in it.                                                    *)
THEOREM HistoryIsRare == Spec => []HistoryOnlyPastSilentPage
<1>1. PollInv => HistoryOnlyPastSilentPage
  <2> SUFFICES ASSUME PollInv, ~ HistoryNeverAnswered
               PROVE  drainedAt >= Limit
                        /\ \A p \in (drainedAt - Limit + 1)..drainedAt : log[p] = "other"
    BY DEF HistoryOnlyPastSilentPage
  <2> USE PollAssumption DEF PollInv
  <2>1. emitted \in Seq(1..MaxLog) /\ DOMAIN emitted = 1..Len(emitted)
    BY DEF Output
  <2>2. PICK k \in 1..Len(emitted) : ~ (emitted[k] > Backlog)
    BY <2>1 DEF HistoryNeverAnswered
  <2>3. emitted[k] > drainedAt /\ emitted[k] \in Nat
    BY <2>1 DEF Output
  <2>4. drainedAt \in Nat /\ Backlog \in Nat
    BY DEF Room
  <2>5. drained
    <3>1. Len(emitted) # 0
      BY <2>1, <2>2
    <3> QED
      BY <3>1 DEF Room
  <2>6. Silent(drainedAt)
    <3>1. ~ (drainedAt >= Backlog)
      BY <2>2, <2>3, <2>4
    <3> QED
      BY <2>5, <3>1 DEF Room
  <2> QED
    BY <2>6 DEF Silent
<1> QED
  BY <1>1, InductiveInvariant, PTL

(* Taking a call out of those in flight leaves as many pages in hand as     *)
(* before, or one less if its own was among them.                           *)
GotIn(s) == {j \in DOMAIN s : s[j].got}

LEMMA OneLess ==
  ASSUME NEW s \in Seq(Fetch), NEW i \in 1..Len(s), NEW r \in Seq(Fetch),
         Len(r) = Len(s) - 1,
         \A j \in 1..Len(r) : r[j].got = IF j < i THEN s[j].got ELSE s[j + 1].got
  PROVE  /\ Cardinality(GotIn(s)) \in Nat
         /\ Cardinality(GotIn(r)) = IF s[i].got THEN Cardinality(GotIn(s)) - 1
                                     ELSE Cardinality(GotIn(s))
<1> DEFINE n == Len(s)
           left == GotIn(s) \ {i}
           kept == GotIn(r)
           move == [k \in left |-> IF k < i THEN k ELSE k - 1]
<1>1. /\ n \in Nat /\ i \in Nat /\ 1 <= i /\ i <= n /\ DOMAIN s = 1..n
      /\ DOMAIN r = 1..(n - 1) /\ Len(r) = n - 1
  OBVIOUS
<1>2. IsFiniteSet(1..n)
  BY <1>1, FS_Interval
<1>3. GotIn(s) \in SUBSET (1..n)
  BY <1>1 DEF GotIn
<1>4. IsFiniteSet(GotIn(s)) /\ Cardinality(GotIn(s)) \in Nat
  BY <1>2, <1>3, FS_Subset, FS_CardinalityType
<1>5. /\ IsFiniteSet(left)
      /\ Cardinality(left) = IF s[i].got THEN Cardinality(GotIn(s)) - 1 ELSE Cardinality(GotIn(s))
  <2>1. i \in GotIn(s) <=> s[i].got
    BY <1>1 DEF GotIn
  <2> QED
    BY <1>4, <2>1, FS_RemoveElement
<1>6. \A k \in left : k \in 1..n /\ k # i /\ s[k].got
  BY <1>1 DEF GotIn
<1>7. \A j : j \in kept <=> j \in 1..(n - 1) /\ r[j].got
  BY <1>1 DEF GotIn
<1>8. \A k : k \in 1..n /\ k # i /\ s[k].got => k \in left
  BY <1>1 DEF GotIn
<1>9. \A j \in 1..(n - 1) : r[j].got = IF j < i THEN s[j].got ELSE s[j + 1].got
  BY <1>1
<1> HIDE DEF left, kept, n
<1>10. \A k \in left : move[k] \in kept
  <2> SUFFICES ASSUME NEW k \in left
               PROVE  move[k] \in kept
    OBVIOUS
  <2>1. k \in 1..n /\ k # i /\ s[k].got
    BY <1>6
  <2>2. CASE k < i
    <3>1. k \in 1..(n - 1) /\ move[k] = k
      BY <1>1, <2>1, <2>2
    <3> QED
      BY <1>7, <1>9, <2>1, <2>2, <3>1
  <2>3. CASE ~ (k < i)
    <3> DEFINE j == k - 1
    <3>1. j \in 1..(n - 1) /\ move[k] = j /\ ~ (j < i) /\ j + 1 = k
      BY <1>1, <2>1, <2>3
    <3> HIDE DEF j
    <3>2. r[j].got = s[j + 1].got
      BY <1>9, <3>1
    <3>3. r[j].got
      BY <2>1, <3>1, <3>2
    <3> QED
      BY <1>7, <3>1, <3>3
  <2> QED
    BY <2>2, <2>3
<1>11. \A k, l \in left : move[k] = move[l] => k = l
  <2> SUFFICES ASSUME NEW k \in left, NEW l \in left, move[k] = move[l]
               PROVE  k = l
    OBVIOUS
  <2>1. k \in 1..n /\ k # i /\ l \in 1..n /\ l # i
    BY <1>6
  <2>2. (IF k < i THEN k ELSE k - 1) = (IF l < i THEN l ELSE l - 1)
    OBVIOUS
  <2> QED
    BY <1>1, <2>1, <2>2
<1>12. \A j \in kept : \E k \in left : move[k] = j
  <2> SUFFICES ASSUME NEW j \in kept
               PROVE  \E k \in left : move[k] = j
    OBVIOUS
  <2>1. j \in 1..(n - 1) /\ r[j].got
    BY <1>7
  <2>2. CASE j < i
    <3>1. j \in 1..n /\ j # i /\ s[j].got
      BY <1>1, <1>9, <2>1, <2>2
    <3>2. j \in left
      BY <1>8, <3>1
    <3> QED
      BY <2>2, <3>2
  <2>3. CASE ~ (j < i)
    <3> DEFINE k == j + 1
    <3>1. k \in 1..n /\ k # i /\ ~ (k < i) /\ k - 1 = j
      BY <1>1, <2>1, <2>3
    <3>2. s[k].got
      BY <1>9, <2>1, <2>3
    <3> HIDE DEF k
    <3>3. k \in left
      BY <1>8, <3>1, <3>2
    <3> QED
      BY <3>1, <3>3
  <2> QED
    BY <2>2, <2>3
<1>13. move \in [left -> kept]
  BY <1>10
<1> HIDE DEF move
<1>14. move \in Bijection(left, kept)
  BY <1>11, <1>12, <1>13 DEF Bijection, Injection, Surjection, IsInjective
<1>15. Cardinality(kept) = Cardinality(left)
  BY <1>5, <1>14, FS_Bijection DEF ExistsBijection
<1> QED
  BY <1>4, <1>5, <1>15 DEF kept

(* After stop() nothing is answered: each step of the poll that emits       *)
(* anything uses up one of the pages that had come by then.                 *)
THEOREM OnlyPagesInHand == Spec => OnlyPagesInHandAfterStop
<1>1. ASSUME PollInv, Next, aborted
      PROVE  IF emitted' = emitted THEN PagesInHand' <= PagesInHand
             ELSE PagesInHand' = PagesInHand - 1
  <2>1. inFlight \in Seq(Fetch) /\ DOMAIN inFlight = 1..Len(inFlight)
    BY <1>1 DEF PollInv, Flight
  <2>2. \A i \in DOMAIN inFlight : inFlight[i].late \/ inFlight[i].got
    BY <1>1, <2>1 DEF PollInv, Asked
  <2>3. PagesInHand = Cardinality(GotIn(inFlight)) /\ PagesInHand' = Cardinality(GotIn(inFlight'))
    BY DEF PagesInHand, InHand, GotIn
  <2>4. PagesInHand \in Nat
    <3>1. IsFiniteSet(1..Len(inFlight)) /\ GotIn(inFlight) \in SUBSET (1..Len(inFlight))
      BY <2>1, FS_Interval DEF GotIn
    <3> QED
      BY <2>3, <3>1, FS_Subset, FS_CardinalityType
  <2>5. ASSUME NEW kind \in Kinds, Post(kind)
        PROVE  inFlight' = inFlight /\ emitted' = emitted
    BY <2>5 DEF Post, outVars
  <2>6. CASE Wake \/ RoundEnds \/ LoopEnds
    <3>1. inFlight' = inFlight /\ emitted' = emitted
      BY <2>6 DEF Wake, RoundEnds, LoopEnds, outVars
    <3> QED
      BY <2>3, <2>4, <3>1
  <2>7. CASE BeginRound \/ EnterStagger \/ Launch \/ Stop
    BY <1>1, <2>7 DEF BeginRound, EnterStagger, Launch, Stop
  <2>8. CASE \E i \in DOMAIN inFlight : \/ Answer(i) \/ RacerFails(i) \/ RacerTimesOut(i)
                                        \/ FetchFails(i) \/ FetchTimesOut(i)
    BY <2>2, <2>8 DEF Answer, RacerFails, RacerTimesOut, FetchFails, FetchTimesOut, Awaited
  <2>9. ASSUME NEW i \in 1..Len(inFlight), Win(i)
        PROVE  PagesInHand' = PagesInHand - 1
    <3> DEFINE left == RemoveAt(inFlight, i)
               new == inFlight'
    <3>1. /\ left \in Seq(Fetch) /\ Len(left) = Len(inFlight) - 1
          /\ \A j \in 1..Len(left) :
               left[j] = IF j < i THEN inFlight[j] ELSE inFlight[j + 1]
      <4>1. left = RemoveAt(inFlight, i)
        OBVIOUS
      <4> HIDE DEF left
      <4> QED
        BY <2>1, <4>1, Removed
    <3>2. new = AllLate(left) /\ inFlight[i].got
      BY <2>9 DEF Win, InHand
    <3> HIDE DEF left, new
    <3>3. /\ Thins(new, left) /\ Len(new) = Len(left)
          /\ \A j \in 1..Len(new) : new[j].got = left[j].got
      BY <3>1, <3>2, LateThins
    <3>4. new \in Seq(Fetch)
      BY <3>3 DEF Thins
    <3>5. \A j \in 1..Len(new) :
            new[j].got = IF j < i THEN inFlight[j].got ELSE inFlight[j + 1].got
      BY <3>1, <3>3
    <3>6. Len(new) = Len(inFlight) - 1
      BY <3>1, <3>3
    <3>7. Cardinality(GotIn(new)) = Cardinality(GotIn(inFlight)) - 1
      BY <2>1, <3>2, <3>4, <3>5, <3>6, OneLess
    <3> QED
      BY <2>3, <3>7 DEF new
  <2>10. ASSUME NEW i \in 1..Len(inFlight), Deliver(i)
         PROVE  PagesInHand' = PagesInHand - 1
    <3>1. inFlight' = Adopted(i) /\ inFlight[i].got
      BY <2>10 DEF Deliver, InHand
    <3>2. /\ Thins(inFlight', inFlight) /\ Len(inFlight') = Len(inFlight) - 1
          /\ \A j \in 1..Len(inFlight') :
               inFlight'[j].got = IF j < i THEN inFlight[j].got ELSE inFlight[j + 1].got
      BY <2>1, <3>1, AdoptedThins
    <3>3. inFlight' \in Seq(Fetch)
      BY <3>2 DEF Thins
    <3>4. Cardinality(GotIn(inFlight')) = Cardinality(GotIn(inFlight)) - 1
      BY <2>1, <3>1, <3>2, <3>3, OneLess
    <3> QED
      BY <2>3, <3>4
  <2>11. ASSUME NEW i \in 1..Len(inFlight), LateSettles(i)
         PROVE  emitted' = emitted /\ PagesInHand' <= PagesInHand
    <3>1. inFlight' = RemoveAt(inFlight, i) /\ emitted' = emitted
      BY <2>11 DEF LateSettles, outVars
    <3>2. /\ inFlight' \in Seq(Fetch) /\ Len(inFlight') = Len(inFlight) - 1
          /\ \A j \in 1..Len(inFlight') :
               inFlight'[j] = IF j < i THEN inFlight[j] ELSE inFlight[j + 1]
      <4> DEFINE new == inFlight'
      <4>1. new = RemoveAt(inFlight, i)
        BY <3>1
      <4> HIDE DEF new
      <4>2. /\ new \in Seq(Fetch) /\ Len(new) = Len(inFlight) - 1
            /\ \A j \in 1..Len(new) :
                 new[j] = IF j < i THEN inFlight[j] ELSE inFlight[j + 1]
        BY <2>1, <4>1, Removed
      <4> QED
        BY <4>2 DEF new
    <3>3. \A j \in 1..Len(inFlight') :
            inFlight'[j].got = IF j < i THEN inFlight[j].got ELSE inFlight[j + 1].got
      BY <3>2
    <3>4. /\ Cardinality(GotIn(inFlight)) \in Nat
          /\ Cardinality(GotIn(inFlight'))
               = IF inFlight[i].got THEN Cardinality(GotIn(inFlight)) - 1
                 ELSE Cardinality(GotIn(inFlight))
      BY <2>1, <3>2, <3>3, OneLess
    <3> QED
      BY <2>3, <3>1, <3>4
  <2>12. CASE \E kind \in Kinds : Post(kind)
    BY <2>3, <2>4, <2>5, <2>12
  <2>13. CASE \E i \in DOMAIN inFlight : Win(i) \/ Deliver(i) \/ LateSettles(i)
    BY <2>1, <2>4, <2>9, <2>10, <2>11, <2>13
  <2> QED
    BY <1>1, <2>6, <2>7, <2>8, <2>12, <2>13 DEF Next
<1>2. PollInv /\ [Next]_vars =>
        [aborted => IF emitted' = emitted THEN PagesInHand' <= PagesInHand
                    ELSE PagesInHand' = PagesInHand - 1]_vars
  BY <1>1
<1> QED
  BY <1>2, InductiveInvariant, PTL DEF Spec, OnlyPagesInHandAfterStop
===============================================================================
