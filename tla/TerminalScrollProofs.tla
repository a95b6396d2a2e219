------------------------- MODULE TerminalScrollProofs -------------------------
(***************************************************************************)
(* Proofs about TerminalScroll, for windows of any heights, any number of  *)
(* rows and any number of events.                                          *)
(*                                                                         *)
(* First come the nodes of the document and their order, and what moving   *)
(* nodes leaves alone. Then drawing: the folds, one row, all rows, a whole *)
(* redraw, and the view drawn anew after rows have changed places. Then    *)
(* the terminal and its rows, the inductive invariant Inv, and one lemma   *)
(* for every action, which ends with the step keeping Inv. The theorems    *)
(* are at the end.                                                         *)
(***************************************************************************)
EXTENDS TerminalScroll, SequenceTheorems, FiniteSetTheorems, WellFoundedInduction, TLAPS

\* No element twice.
Injective(s) == \A i, j \in DOMAIN s : s[i] = s[j] => i = j

\* x comes before y.
Prec(s, x, y) == \E i, j \in DOMAIN s : i < j /\ s[i] = x /\ s[j] = y

\* Induction, over the numbers that a set has: every number has what 0 has and
\* each number hands to the next.
LEMMA SetInduction ==
  ASSUME NEW S, 0 \in S, \A n \in Nat : n \in S => n + 1 \in S
  PROVE  \A n \in Nat : n \in S
<1> SUFFICES ASSUME Nat \ S # {} PROVE FALSE
  OBVIOUS
<1>1. PICK least \in Nat \ S : \A n \in Nat \ S : ~(<<n, least>> \in OpToRel(<, Nat))
  BY WFMin, NatLessThanWellFounded, Zenon
<1>2. \A n \in Nat \ S : ~(n < least)
  BY <1>1 DEF OpToRel
<1>3. least # 0 /\ least - 1 \in Nat
  OBVIOUS
<1> QED BY <1>2, <1>3

\* The steps of Without: kept[i] is what stays of the first i nodes.
Keeps(kept, dom, gone) ==
  /\ kept[0] = <<>>
  /\ \A i \in 1 .. Len(dom) :
       kept[i] = IF dom[i] \in gone THEN kept[i - 1] ELSE Append(kept[i - 1], dom[i])

\* Without takes these steps.
LEMMA WithoutKeeps ==
  ASSUME NEW dom, Len(dom) \in Nat, NEW gone
  PROVE  \E kept : Keeps(kept, dom, gone) /\ Without(dom, gone) = kept[Len(dom)]
<1> DEFINE Step(f, i) == CASE i = 0 -> <<>>
                           [] i > 0 /\ dom[i] \in gone -> f[i - 1]
                           [] OTHER -> Append(f[i - 1], dom[i])
           Upto(n, f) == f = [i \in 0 .. n |-> Step(f, i)]
           S == {n \in Nat : \E f : Upto(n, f)}
<1>1. 0 \in S
  <2> DEFINE f == [i \in 0 .. 0 |-> <<>>]
  <2>1. Upto(0, f)
    OBVIOUS
  <2> QED BY <2>1
<1>2. ASSUME NEW n \in Nat, n \in S PROVE n + 1 \in S
  <2>1. PICK f : Upto(n, f)
    BY <1>2
  <2> DEFINE g == [i \in 0 .. n + 1 |-> IF i = n + 1 THEN Step(f, n + 1) ELSE f[i]]
  <2>2. ASSUME NEW i \in 0 .. n + 1 PROVE g[i] = Step(g, i)
    <3>1. i # 0 => i - 1 \in 0 .. n /\ g[i - 1] = f[i - 1]
      OBVIOUS
    <3>2. CASE i = n + 1
      <4>1. g[i] = Step(f, i)
        BY <3>2
      <4> QED BY <4>1, <3>1, <3>2
    <3>3. CASE i # n + 1
      <4>1. i \in 0 .. n /\ g[i] = f[i]
        BY <3>3
      <4>2. f[i] = Step(f, i)
        BY <2>1, <4>1
      <4> QED BY <4>1, <4>2, <3>1
    <3> QED BY <3>2, <3>3
  <2>3. Upto(n + 1, g)
    BY <2>2
  <2>4. n + 1 \in Nat
    OBVIOUS
  <2> HIDE DEF g, Upto
  <2> QED BY <2>3, <2>4
<1>3. Len(dom) \in S
  <2> HIDE DEF S
  <2> QED BY <1>1, <1>2, SetInduction
<1> DEFINE kept == CHOOSE f : Upto(Len(dom), f)
<1>4. Upto(Len(dom), kept)
  BY <1>3
<1>5. Without(dom, gone) = kept[Len(dom)]
  BY DEF Without
<1>6. Keeps(kept, dom, gone)
  <2> HIDE DEF kept
  <2>1. kept[0] = <<>>
    BY <1>4
  <2>2. ASSUME NEW i \in 1 .. Len(dom)
        PROVE  kept[i] = IF dom[i] \in gone THEN kept[i - 1] ELSE Append(kept[i - 1], dom[i])
    <3>1. i # 0 /\ i > 0 /\ i \in 0 .. Len(dom)
      OBVIOUS
    <3>2. kept[i] = Step(kept, i)
      BY <1>4, <3>1
    <3> QED BY <3>1, <3>2
  <2> QED BY <2>1, <2>2 DEF Keeps
<1> QED BY <1>5, <1>6

\* What a sequence has with one more element at its end.
LEMMA AppendFacts ==
  ASSUME NEW D, NEW s \in Seq(D), NEW e \in D
  PROVE  /\ Append(s, e) \in Seq(D)
         /\ ToSet(Append(s, e)) = ToSet(s) \cup {e}
         /\ \A x, y : Prec(Append(s, e), x, y) <=> Prec(s, x, y) \/ (x \in ToSet(s) /\ y = e)
         /\ Injective(s) /\ e \notin ToSet(s) => Injective(Append(s, e))
<1> DEFINE a == Append(s, e)
<1>1. a \in Seq(D) /\ DOMAIN a = 1 .. Len(s) + 1 /\ DOMAIN s = 1 .. Len(s) /\ Len(s) \in Nat
  OBVIOUS
<1>2. a[Len(s) + 1] = e /\ \A i \in 1 .. Len(s) : a[i] = s[i]
  OBVIOUS
<1> HIDE DEF a
<1>3. ToSet(a) = ToSet(s) \cup {e}
  BY <1>1, <1>2 DEF ToSet
<1>4. ASSUME NEW x, NEW y
      PROVE  Prec(a, x, y) <=> Prec(s, x, y) \/ (x \in ToSet(s) /\ y = e)
  <2>1. ASSUME Prec(a, x, y) PROVE Prec(s, x, y) \/ (x \in ToSet(s) /\ y = e)
    <3>1. PICK i, j \in DOMAIN a : i < j /\ a[i] = x /\ a[j] = y
      BY <2>1 DEF Prec
    <3>2. i \in DOMAIN s /\ s[i] = x
      BY <1>1, <1>2, <3>1
    <3>3. CASE j = Len(s) + 1
      BY <1>2, <3>1, <3>2, <3>3 DEF ToSet
    <3>4. CASE j # Len(s) + 1
      <4>1. j \in DOMAIN s /\ s[j] = y
        BY <1>1, <1>2, <3>1, <3>4
      <4> QED BY <3>1, <3>2, <4>1 DEF Prec
    <3> QED BY <3>3, <3>4
  <2>2. ASSUME Prec(s, x, y) PROVE Prec(a, x, y)
    <3>1. PICK i, j \in DOMAIN s : i < j /\ s[i] = x /\ s[j] = y
      BY <2>2 DEF Prec
    <3>2. i \in DOMAIN a /\ j \in DOMAIN a /\ a[i] = x /\ a[j] = y
      BY <1>1, <1>2, <3>1
    <3> QED BY <3>1, <3>2 DEF Prec
  <2>3. ASSUME x \in ToSet(s), y = e PROVE Prec(a, x, y)
    <3>1. PICK i \in DOMAIN s : s[i] = x
      BY <2>3 DEF ToSet
    <3>2. i < Len(s) + 1 /\ i \in DOMAIN a /\ Len(s) + 1 \in DOMAIN a /\ a[i] = x
      BY <1>1, <1>2, <3>1
    <3> QED BY <1>2, <2>3, <3>2 DEF Prec
  <2> QED BY <2>1, <2>2, <2>3
<1>5. Injective(s) /\ e \notin ToSet(s) => Injective(a)
  BY <1>1, <1>2 DEF Injective, ToSet
<1> QED BY <1>1, <1>3, <1>4, <1>5 DEF a

\* s is d but for the nodes that are gone, in the same order.
Remains(s, d, gone) ==
  /\ ToSet(s) = ToSet(d) \ gone
  /\ Injective(d) => Injective(s)
  /\ \A x, y : Prec(s, x, y) <=> Prec(d, x, y) /\ x \notin gone /\ y \notin gone

\* A step of Without keeps the order of the nodes so far.
LEMMA RemainsAppend ==
  ASSUME NEW D, NEW gone, NEW s \in Seq(D), NEW d \in Seq(D), NEW e \in D,
         Injective(Append(d, e)) => Injective(d) /\ e \notin ToSet(d),
         Remains(s, d, gone)
  PROVE  Remains(IF e \in gone THEN s ELSE Append(s, e), Append(d, e), gone)
<1>1. /\ ToSet(Append(d, e)) = ToSet(d) \cup {e}
      /\ \A x, y : Prec(Append(d, e), x, y) <=> Prec(d, x, y) \/ (x \in ToSet(d) /\ y = e)
  BY AppendFacts
<1>2. /\ ToSet(Append(s, e)) = ToSet(s) \cup {e}
      /\ \A x, y : Prec(Append(s, e), x, y) <=> Prec(s, x, y) \/ (x \in ToSet(s) /\ y = e)
      /\ Injective(s) /\ e \notin ToSet(s) => Injective(Append(s, e))
  BY AppendFacts
<1>3. CASE e \in gone
  <2>1. ToSet(s) = ToSet(Append(d, e)) \ gone
    BY <1>1, <1>3 DEF Remains
  <2>2. \A x, y : Prec(s, x, y) <=> Prec(Append(d, e), x, y) /\ x \notin gone /\ y \notin gone
    BY <1>1, <1>3 DEF Remains
  <2>3. Injective(Append(d, e)) => Injective(s)
    BY DEF Remains
  <2> QED BY <1>3, <2>1, <2>2, <2>3 DEF Remains
<1>4. CASE e \notin gone
  <2>1. ToSet(Append(s, e)) = ToSet(Append(d, e)) \ gone
    BY <1>1, <1>2, <1>4 DEF Remains
  <2>2. ASSUME NEW x, NEW y
        PROVE  Prec(Append(s, e), x, y)
                 <=> Prec(Append(d, e), x, y) /\ x \notin gone /\ y \notin gone
    BY <1>1, <1>2, <1>4 DEF Remains
  <2>3. Injective(Append(d, e)) => Injective(Append(s, e))
    BY <1>1, <1>2 DEF Remains
  <2> QED BY <1>4, <2>1, <2>2, <2>3 DEF Remains
<1> QED BY <1>3, <1>4

\* Nodes that leave the document leave the others in their order (removeChild).
LEMMA WithoutFacts ==
  ASSUME NEW D, NEW dom \in Seq(D), NEW gone
  PROVE  Without(dom, gone) \in Seq(D) /\ Remains(Without(dom, gone), dom, gone)
<1> DEFINE Part(n) == [i \in 1 .. n |-> dom[i]]
<1>1. PICK kept : Keeps(kept, dom, gone) /\ Without(dom, gone) = kept[Len(dom)]
  BY WithoutKeeps
<1> DEFINE Holds(n) == kept[n] \in Seq(D) /\ Remains(kept[n], Part(n), gone)
           S == {n \in Nat : n <= Len(dom) => Holds(n)}
<1>2. 0 \in S
  <2>1. kept[0] = <<>> /\ Part(0) = <<>> /\ ToSet(<<>>) = {}
    BY <1>1 DEF Keeps, ToSet
  <2>2. Remains(<<>>, <<>>, gone)
    BY <2>1 DEF Remains, Injective, Prec
  <2>3. Holds(0)
    BY <2>1, <2>2
  <2> HIDE DEF Holds
  <2> QED BY <2>3
<1>3. ASSUME NEW m \in Nat, m \in S PROVE m + 1 \in S
  <2> HIDE DEF Holds
  <2> SUFFICES ASSUME m + 1 <= Len(dom) PROVE Holds(m + 1)
    OBVIOUS
  <2>1. m + 1 \in 1 .. Len(dom) /\ (m + 1) - 1 = m /\ m <= Len(dom)
    OBVIOUS
  <2>2. Holds(m)
    BY <1>3, <2>1
  <2>3. dom[m + 1] \in D /\ Part(m + 1) = Append(Part(m), dom[m + 1]) /\ Part(m) \in Seq(D)
    BY <2>1
  <2>4. kept[m + 1] = IF dom[m + 1] \in gone THEN kept[m] ELSE Append(kept[m], dom[m + 1])
    BY <1>1, <2>1 DEF Keeps
  <2>5. Injective(Part(m + 1)) => Injective(Part(m)) /\ dom[m + 1] \notin ToSet(Part(m))
    BY <2>1 DEF Injective, ToSet
  <2> HIDE DEF Part
  <2>6. Remains(kept[m + 1], Part(m + 1), gone)
    <3>1. kept[m] \in Seq(D) /\ Remains(kept[m], Part(m), gone)
      BY <2>2 DEF Holds
    <3>2. Injective(Append(Part(m), dom[m + 1]))
            => Injective(Part(m)) /\ dom[m + 1] \notin ToSet(Part(m))
      BY <2>3, <2>5
    <3>3. Remains(IF dom[m + 1] \in gone THEN kept[m] ELSE Append(kept[m], dom[m + 1]),
                  Append(Part(m), dom[m + 1]), gone)
      BY <2>3, <3>1, <3>2, RemainsAppend
    <3> QED BY <2>3, <2>4, <3>3
  <2>7. kept[m + 1] \in Seq(D)
    BY <2>2, <2>3, <2>4 DEF Holds
  <2> QED BY <2>6, <2>7 DEF Holds
<1>4. Len(dom) \in S
  <2> HIDE DEF S
  <2> QED BY <1>2, <1>3, SetInduction
<1>5. Part(Len(dom)) = dom
  OBVIOUS
<1>6. Holds(Len(dom))
  <2> HIDE DEF Holds
  <2> QED BY <1>4
<1> QED BY <1>1, <1>5, <1>6

\* Before is an order, of all elements.
Order(s) ==
  /\ \A x, y : Prec(s, x, y) => x \in ToSet(s) /\ y \in ToSet(s) /\ x # y
  /\ \A x, y : ~(Prec(s, x, y) /\ Prec(s, y, x))
  /\ \A x, y, z : Prec(s, x, y) /\ Prec(s, y, z) => Prec(s, x, z)
  /\ \A x, y \in ToSet(s) : x = y \/ Prec(s, x, y) \/ Prec(s, y, x)

\* The places of the nodes order them, as none is in the document twice.
LEMMA PrecOrder ==
  ASSUME NEW D, NEW s \in Seq(D), Injective(s)
  PROVE  Order(s)
<1>1. DOMAIN s \subseteq Int
  OBVIOUS
<1>2. \A x, y : Prec(s, x, y) => x \in ToSet(s) /\ y \in ToSet(s) /\ x # y
  BY <1>1 DEF Prec, ToSet, Injective
<1>3. \A x, y : ~(Prec(s, x, y) /\ Prec(s, y, x))
  BY <1>1 DEF Prec, Injective
<1>4. \A x, y, z : Prec(s, x, y) /\ Prec(s, y, z) => Prec(s, x, z)
  BY <1>1 DEF Prec, Injective
<1>5. \A x, y \in ToSet(s) : x = y \/ Prec(s, x, y) \/ Prec(s, y, x)
  BY <1>1 DEF Prec, ToSet
<1> QED BY <1>2, <1>3, <1>4, <1>5 DEF Order

\* What a sequence has with one more element at a place.
LEMMA InsertAtFacts ==
  ASSUME NEW D, NEW s \in Seq(D), Injective(s), NEW e \in D, e \notin ToSet(s),
         NEW p \in 1 .. Len(s) + 1
  PROVE  /\ InsertAt(s, p, e) \in Seq(D)
         /\ ToSet(InsertAt(s, p, e)) = ToSet(s) \cup {e}
         /\ Injective(InsertAt(s, p, e))
         /\ \A x, y : x # e /\ y # e => (Prec(InsertAt(s, p, e), x, y) <=> Prec(s, x, y))
         /\ \A x : Prec(InsertAt(s, p, e), x, e) <=> \E i \in DOMAIN s : i < p /\ s[i] = x
         /\ \A y : Prec(InsertAt(s, p, e), e, y) <=> \E i \in DOMAIN s : i >= p /\ s[i] = y
<1> DEFINE r == InsertAt(s, p, e)
<1> DEFINE a == SubSeq(s, 1, p - 1)
           b == SubSeq(s, p, Len(s))
<1>a. /\ Len(s) \in Nat /\ DOMAIN s = 1 .. Len(s) /\ p \in Int
      /\ \A i \in 1 .. Len(s) : s[i] \in D
  OBVIOUS
<1>b. a \in Seq(D) /\ Len(a) = p - 1 /\ \A i \in 1 .. p - 1 : a[i] = s[i]
  BY <1>a, SubSeqProperties
<1>c. b \in Seq(D) /\ Len(b) = Len(s) - p + 1 /\ \A i \in 1 .. Len(s) - p + 1 : b[i] = s[p + i - 1]
  BY <1>a, SubSeqProperties
<1>d. r = a \o <<e>> \o b
  BY DEF InsertAt
<1> HIDE DEF r, a, b
<1> DEFINE c == a \o <<e>>
<1>e. c \in Seq(D) /\ Len(c) = p /\ c[p] = e /\ \A i \in 1 .. p - 1 : c[i] = s[i]
  BY <1>a, <1>b
<1>f. r = c \o b
  BY <1>d
<1> HIDE DEF c
<1>1. /\ Len(s) \in Nat /\ DOMAIN s = 1 .. Len(s) /\ p \in Int
      /\ r \in Seq(D) /\ DOMAIN r = 1 .. Len(s) + 1
  BY <1>a, <1>c, <1>e, <1>f
<1>2. /\ \A i \in 1 .. Len(s) : i < p => r[i] = s[i]
      /\ r[p] = e
      /\ \A i \in 1 .. Len(s) : i >= p => r[i + 1] = s[i]
  <2>1. \A i \in 1 .. p : r[i] = c[i]
    BY <1>a, <1>c, <1>e, <1>f
  <2>2. ASSUME NEW i \in 1 .. Len(s), i >= p PROVE r[i + 1] = s[i]
    <3>1. i + 1 \in p + 1 .. Len(c) + Len(b) /\ i + 1 - p \in 1 .. Len(b)
      BY <1>a, <1>c, <1>e, <2>2
    <3>2. r[i + 1] = b[i + 1 - p]
      BY <1>a, <1>c, <1>e, <1>f, <3>1
    <3> QED BY <1>a, <1>c, <3>1, <3>2, SMTT(30)
  <2> QED BY <1>a, <1>e, <2>1, <2>2
<1> DEFINE to(i) == IF i < p THEN i ELSE i + 1
<1>3. \A i \in DOMAIN s : to(i) \in DOMAIN r /\ to(i) # p /\ r[to(i)] = s[i]
  BY <1>1, <1>2
<1>4. \A i, j \in DOMAIN s : (i < j <=> to(i) < to(j)) /\ (to(i) < p <=> i < p)
  BY <1>1
<1>5. \A k \in DOMAIN r : k = p \/ \E i \in DOMAIN s : k = to(i)
  <2> TAKE k \in DOMAIN r
  <2>1. CASE k < p
    BY <1>1, <2>1
  <2>2. CASE k > p
    <3>1. k - 1 \in DOMAIN s /\ to(k - 1) = k
      BY <1>1, <2>2
    <3> QED BY <3>1
  <2> QED BY <1>1, <2>1, <2>2
<1>6. p \in DOMAIN r /\ DOMAIN r \subseteq Int
  BY <1>1
<1> HIDE DEF to
<1>7. ToSet(r) = ToSet(s) \cup {e}
  BY <1>2, <1>3, <1>5, <1>6 DEF ToSet
<1>8. Injective(r)
  <2> SUFFICES ASSUME NEW k \in DOMAIN r, NEW l \in DOMAIN r, r[k] = r[l] PROVE k = l
    BY DEF Injective
  <2>1. \A i \in DOMAIN s : s[i] # e
    BY DEF ToSet
  <2> QED BY <1>2, <1>3, <1>5, <2>1 DEF Injective
<1>9. ASSUME NEW x, NEW y, x # e, y # e PROVE Prec(r, x, y) <=> Prec(s, x, y)
  <2>1. ASSUME Prec(r, x, y) PROVE Prec(s, x, y)
    <3>1. PICK k, l \in DOMAIN r : k < l /\ r[k] = x /\ r[l] = y
      BY <2>1 DEF Prec
    <3>2. PICK i, j \in DOMAIN s : k = to(i) /\ l = to(j)
      BY <1>2, <1>5, <1>9, <3>1
    <3> QED BY <1>3, <1>4, <3>1, <3>2 DEF Prec
  <2>2. ASSUME Prec(s, x, y) PROVE Prec(r, x, y)
    BY <1>3, <1>4, <2>2 DEF Prec
  <2> QED BY <2>1, <2>2
<1>10. ASSUME NEW x PROVE Prec(r, x, e) <=> \E i \in DOMAIN s : i < p /\ s[i] = x
  <2>1. ASSUME Prec(r, x, e) PROVE \E i \in DOMAIN s : i < p /\ s[i] = x
    <3>1. PICK k, l \in DOMAIN r : k < l /\ r[k] = x /\ r[l] = e
      BY <2>1 DEF Prec
    <3>2. l = p
      BY <1>2, <1>6, <1>8, <3>1 DEF Injective
    <3>3. PICK i \in DOMAIN s : k = to(i)
      BY <1>5, <1>6, <3>1, <3>2
    <3> QED BY <1>3, <1>4, <3>1, <3>2, <3>3
  <2>2. ASSUME NEW i \in DOMAIN s, i < p, s[i] = x PROVE Prec(r, x, e)
    BY <1>2, <1>3, <1>4, <1>6, <2>2 DEF Prec
  <2> QED BY <2>1, <2>2
<1>11. ASSUME NEW y PROVE Prec(r, e, y) <=> \E i \in DOMAIN s : i >= p /\ s[i] = y
  <2>0. \A i \in DOMAIN s : i >= p <=> to(i) > p
    BY <1>1 DEF to
  <2>1. ASSUME Prec(r, e, y) PROVE \E i \in DOMAIN s : i >= p /\ s[i] = y
    <3>1. PICK k, l \in DOMAIN r : k < l /\ r[k] = e /\ r[l] = y
      BY <2>1 DEF Prec
    <3>2. k = p
      BY <1>2, <1>6, <1>8, <3>1 DEF Injective
    <3>3. PICK i \in DOMAIN s : l = to(i)
      BY <1>5, <1>6, <3>1, <3>2
    <3> QED BY <1>3, <2>0, <3>1, <3>2, <3>3
  <2>2. ASSUME NEW i \in DOMAIN s, i >= p, s[i] = y PROVE Prec(r, e, y)
    BY <1>2, <1>3, <1>6, <2>0, <2>2 DEF Prec
  <2> QED BY <2>1, <2>2
<1> QED BY <1>1, <1>7, <1>8, <1>9, <1>10, <1>11 DEF r

\* The next sibling of a node comes before all others behind the node.
LEMMA NextFacts ==
  ASSUME NEW D, NEW dom \in Seq(D), Injective(dom), Null \notin D, NEW x
  PROVE  /\ NextSibling(dom, x) = Null => \A y : ~Prec(dom, x, y)
         /\ NextSibling(dom, x) # Null =>
              /\ Prec(dom, x, NextSibling(dom, x))
              /\ \A y : Prec(dom, x, y) => y = NextSibling(dom, x) \/ Prec(dom, NextSibling(dom, x), y)
<1> DEFINE after == {i \in DOMAIN dom : i > 1 /\ dom[i - 1] = x}
<1>1. DOMAIN dom = 1 .. Len(dom) /\ Len(dom) \in Nat /\ \A i \in DOMAIN dom : dom[i] \in D
  OBVIOUS
<1>2. CASE after = {}
  <2>1. NextSibling(dom, x) = Null
    BY <1>2 DEF NextSibling
  <2>2. ASSUME NEW y, Prec(dom, x, y) PROVE FALSE
    <3>1. PICK i, j \in DOMAIN dom : i < j /\ dom[i] = x
      BY <2>2 DEF Prec
    <3>2. i + 1 \in after
      BY <1>1, <3>1
    <3> QED BY <1>2, <3>2
  <2> QED BY <2>1, <2>2
<1>3. CASE after # {}
  <2>1. PICK i \in after : TRUE
    BY <1>3
  <2>2. \A j \in after : j = i
    <3> SUFFICES ASSUME NEW j \in after PROVE j - 1 = i - 1
      BY <1>1
    <3> QED BY <1>1 DEF Injective
  <2>3. Min(after) = i
    BY <2>1, <2>2, <1>1 DEF Min
  <2> DEFINE n == dom[i]
  <2>4. NextSibling(dom, x) = n /\ n # Null
    BY <1>1, <1>3, <2>3 DEF NextSibling
  <2>5. Prec(dom, x, n)
    BY <1>1 DEF Prec
  <2>6. ASSUME NEW y, Prec(dom, x, y), y # n PROVE Prec(dom, n, y)
    <3>1. PICK k, l \in DOMAIN dom : k < l /\ dom[k] = x /\ dom[l] = y
      BY <2>6 DEF Prec
    <3>2. k = i - 1
      BY <1>1, <3>1 DEF Injective
    <3> QED BY <1>1, <2>6, <3>1, <3>2 DEF Prec
  <2> QED BY <2>4, <2>5, <2>6
<1> QED BY <1>2, <1>3

\* Before and After by the order of the nodes.
LEMMA BeforeFacts ==
  ASSUME NEW D, NEW dom \in Seq(D), Injective(dom), NEW x \in ToSet(dom)
  PROVE  /\ \A y : y \in Before(dom, x) <=> Prec(dom, y, x)
         /\ \A y : y \in After(dom, x) <=> Prec(dom, x, y)
<1>1. DOMAIN dom = 1 .. Len(dom) /\ Len(dom) \in Nat
  OBVIOUS
<1>2. PICK p \in DOMAIN dom : dom[p] = x
  BY DEF ToSet
<1>3. \A i \in DOMAIN dom : (\A k \in 1 .. i : dom[k] # x) <=> i < p
  BY <1>1, <1>2 DEF Injective
<1>4. \A i \in DOMAIN dom : (\A k \in i .. Len(dom) : dom[k] # x) <=> p < i
  BY <1>1, <1>2 DEF Injective
<1>5. ASSUME NEW y PROVE y \in Before(dom, x) <=> Prec(dom, y, x)
  <2>1. y \in Before(dom, x) <=> \E i \in DOMAIN dom : i < p /\ dom[i] = y
    BY <1>3 DEF Before
  <2> QED BY <1>2, <2>1 DEF Prec, Injective
<1>6. ASSUME NEW y PROVE y \in After(dom, x) <=> Prec(dom, x, y)
  <2>1. y \in After(dom, x) <=> \E i \in DOMAIN dom : p < i /\ dom[i] = y
    BY <1>4 DEF After
  <2> QED BY <1>2, <2>1 DEF Prec, Injective
<1> QED BY <1>5, <1>6

\* The first node and the last one.
LEMMA EndsFacts ==
  ASSUME NEW D, NEW dom \in Seq(D), Injective(dom), ToSet(dom) # {}
  PROVE  /\ Head(dom) \in ToSet(dom) /\ \A y \in ToSet(dom) : y = Head(dom) \/ Prec(dom, Head(dom), y)
         /\ Last(dom) \in ToSet(dom) /\ \A y \in ToSet(dom) : y = Last(dom) \/ Prec(dom, y, Last(dom))
<1>1. DOMAIN dom = 1 .. Len(dom) /\ Len(dom) \in Nat
  OBVIOUS
<1>2. Len(dom) >= 1
  BY <1>1 DEF ToSet
<1>3. Head(dom) = dom[1] /\ Last(dom) = dom[Len(dom)]
  BY <1>2 DEF Last
<1>4. 1 \in DOMAIN dom /\ Len(dom) \in DOMAIN dom
  BY <1>1, <1>2
<1> QED BY <1>1, <1>3, <1>4 DEF ToSet, Prec

\* The nodes of the document.
Node == Ids \cup {TopFold, BottomFold}

\* The ports there are.
Ports ==
  [dom : Seq(Node), anchor : Ids \cup {Null}, focus : Node \cup {Null}, collapsed : BOOLEAN,
   startRow : Ids \cup {Null}, endRow : Ids \cup {Null}, isMultiline : BOOLEAN,
   cache : UNION {[S -> Ids] : S \in SUBSET Nat}, scrollTop : Int, lastRowCount : Int,
   visibleRowCount : Int, window : Int, isScrolledEnd : BOOLEAN, scrolled : BOOLEAN,
   failed : BOOLEAN]

\* Rows, folds and Null are told apart.
LEMMA Nodes ==
  /\ Ids \subseteq Nat \ {0} /\ TopFold \notin Ids /\ BottomFold \notin Ids /\ Null \notin Node
  /\ TopFold # BottomFold
BY DEF Ids, Node, TopFold, BottomFold, Null

\* What drawing leaves alone in any case.
SameSettings(p, q) ==
  /\ q.startRow = p.startRow /\ q.endRow = p.endRow /\ q.isMultiline = p.isMultiline
  /\ q.cache = p.cache
  /\ q.scrollTop = p.scrollTop /\ q.lastRowCount = p.lastRowCount
  /\ q.visibleRowCount = p.visibleRowCount /\ q.window = p.window
  /\ q.isScrolledEnd = p.isScrolledEnd /\ q.scrolled = p.scrolled /\ q.failed = p.failed

\* The selection is in the document or nowhere.
InDocument(p) ==
  /\ p.anchor # Null => p.anchor \in ToSet(p.dom)
  /\ p.focus # Null => p.focus \in ToSet(p.dom)

\* p became q by moving nodes, and no node of keep was touched: the ends of the
\* selection that are in keep stay.
Moved(p, q, keep) ==
  /\ q \in Ports
  /\ SameSettings(p, q)
  /\ q.anchor \in {p.anchor, Null} /\ q.focus \in {p.focus, Null}
  /\ p.anchor = p.focus => q.anchor = q.focus
  /\ p.collapsed => q.collapsed
  /\ q.collapsed => p.collapsed \/ (q.anchor = Null /\ q.focus = Null)
  /\ p.anchor \in keep => q.anchor = p.anchor
  /\ p.focus \in keep => q.focus = p.focus
  /\ InDocument(p) => InDocument(q)

\* Moving nodes and then others.
LEMMA MovedTwice ==
  ASSUME NEW p, NEW q, NEW r, NEW keep, Moved(p, q, keep), Moved(q, r, keep)
  PROVE  Moved(p, r, keep)
BY DEF Moved, SameSettings

\* What removing nodes does to the document and to the selection (removeChild).
LEMMA RemoveMoved ==
  ASSUME NEW p \in Ports, NEW gone, NEW keep, gone \cap keep = {}
  PROVE  /\ Moved(p, RemoveNodes(p, gone), keep)
         /\ Remains(RemoveNodes(p, gone).dom, p.dom, gone)
<1> DEFINE q == RemoveNodes(p, gone)
<1>1. Without(p.dom, gone) \in Seq(Node) /\ Remains(Without(p.dom, gone), p.dom, gone)
  BY WithoutFacts DEF Ports
<1>2. /\ q.dom = Without(p.dom, gone)
      /\ q.anchor = Unless(gone, p.anchor)
      /\ q.focus = Unless(gone, p.focus)
      /\ q.collapsed = (p.collapsed \/ {Unless(gone, p.anchor), Unless(gone, p.focus)} = {Null})
  BY DEF RemoveNodes, Ports
<1>3. SameSettings(p, q)
  BY DEF RemoveNodes, SameSettings, Ports
<1>4. q \in Ports
  BY <1>1, ZenonT(40) DEF RemoveNodes, Ports, Unless
<1> HIDE DEF q
<1>5. InDocument(p) => InDocument(q)
  BY <1>1, <1>2 DEF InDocument, Remains, Unless
<1>6. Moved(p, q, keep)
  <2>1. p.collapsed => q.collapsed
    BY <1>2
  <2>2. q.collapsed => p.collapsed \/ (q.anchor = Null /\ q.focus = Null)
    BY <1>2
  <2>3. /\ q.anchor \in {p.anchor, Null} /\ q.focus \in {p.focus, Null}
        /\ p.anchor = p.focus => q.anchor = q.focus
        /\ p.anchor \in keep => q.anchor = p.anchor
        /\ p.focus \in keep => q.focus = p.focus
    BY <1>2 DEF Unless
  <2> QED BY <1>3, <1>4, <1>5, <2>1, <2>2, <2>3 DEF Moved
<1> QED BY <1>1, <1>2, <1>6 DEF q

\* Where a node is that was put before another one, or to the end.
Inserted(r, dom, node, ref) ==
  /\ ToSet(r) = ToSet(dom) \cup {node}
  /\ Injective(r)
  /\ \A x, y : x # node /\ y # node => (Prec(r, x, y) <=> Prec(dom, x, y))
  /\ \A x : Prec(r, x, node) <=> x \in ToSet(dom) \ {node} /\ (ref = Null \/ Prec(dom, x, ref))
  /\ \A y : Prec(r, node, y)
              <=> y \in ToSet(dom) \ {node} /\ ref # Null /\ ~Prec(dom, y, ref)

\* What inserting a node does, after it was taken out (insertBefore).
LEMMA InsertMoved ==
  ASSUME NEW p \in Ports, Injective(p.dom), NEW node \in Node, NEW keep, node \notin keep,
         NEW ref, ref = Null \/ ref \in ToSet(p.dom) \ {node}
  PROVE  /\ Moved(p, InsertBefore(p, node, ref), keep)
         /\ Inserted(InsertBefore(p, node, ref).dom, p.dom, node, ref)
<1> DEFINE w == RemoveNodes(p, {node})
           place == IF ref = Null THEN Len(w.dom) + 1
                    ELSE CHOOSE i \in DOMAIN w.dom : w.dom[i] = ref
           r == InsertAt(w.dom, place, node)
           q == [w EXCEPT !.dom = r]
<1>1. Moved(p, w, keep) /\ Remains(w.dom, p.dom, {node})
  BY RemoveMoved
<1>2. w \in Ports /\ w.dom \in Seq(Node) /\ Injective(w.dom) /\ node \notin ToSet(w.dom)
  BY <1>1 DEF Moved, Remains, Ports
<1>3. InsertBefore(p, node, ref) = q
  BY DEF InsertBefore
<1>4. w.anchor # node /\ w.focus # node
  BY <1>2, Nodes, ZenonT(40) DEF RemoveNodes, Unless, Ports, Node
<1> HIDE DEF w
<1>5. place \in 1 .. Len(w.dom) + 1 /\ (ref # Null => place \in DOMAIN w.dom /\ w.dom[place] = ref)
  <2>1. CASE ref = Null
    BY <1>2, <2>1
  <2>2. CASE ref # Null
    <3>1. \E i \in DOMAIN w.dom : w.dom[i] = ref
      BY <1>1, <2>2 DEF Remains, ToSet
    <3>2. place \in DOMAIN w.dom /\ w.dom[place] = ref
      BY <2>2, <3>1
    <3> QED BY <1>2, <2>2, <3>2
  <2> QED BY <2>1, <2>2
<1> HIDE DEF place
<1>6. /\ r \in Seq(Node)
      /\ ToSet(r) = ToSet(w.dom) \cup {node}
      /\ Injective(r)
      /\ \A x, y : x # node /\ y # node => (Prec(r, x, y) <=> Prec(w.dom, x, y))
      /\ \A x : Prec(r, x, node) <=> \E i \in DOMAIN w.dom : i < place /\ w.dom[i] = x
      /\ \A y : Prec(r, node, y) <=> \E i \in DOMAIN w.dom : i >= place /\ w.dom[i] = y
  BY <1>2, <1>5, InsertAtFacts
<1> HIDE DEF r
<1>7. DOMAIN w.dom = 1 .. Len(w.dom) /\ Len(w.dom) \in Nat
  BY <1>2
<1>8. /\ q \in Ports /\ q.dom = r /\ SameSettings(w, q)
      /\ q.anchor = w.anchor /\ q.focus = w.focus /\ q.collapsed = w.collapsed
  BY <1>2, <1>6 DEF Ports, SameSettings
<1>9. Moved(p, q, keep)
  <2>1. InDocument(w) => InDocument(q)
    BY <1>6, <1>8 DEF InDocument
  <2>2. Moved(w, q, keep)
    BY <1>8, <2>1 DEF Moved
  <2> QED BY <1>1, <2>2, MovedTwice
<1>10. ToSet(p.dom) \ {node} = ToSet(w.dom)
  BY <1>1 DEF Remains
<1>11. ASSUME NEW x
       PROVE  Prec(r, x, node) <=> x \in ToSet(w.dom) /\ (ref = Null \/ Prec(p.dom, x, ref))
  <2>1. CASE ref = Null
    <3>1. place = Len(w.dom) + 1
      BY <2>1 DEF place
    <3> QED BY <1>6, <1>7, <2>1, <3>1 DEF ToSet
  <2>2. CASE ref # Null
    <3>1. (\E i \in DOMAIN w.dom : i < place /\ w.dom[i] = x) <=> Prec(w.dom, x, ref)
      BY <1>2, <1>5, <2>2 DEF Prec, Injective
    <3>2. Prec(w.dom, x, ref) => x \in ToSet(w.dom)
      BY DEF Prec, ToSet
    <3>3. x \in ToSet(w.dom) => (Prec(w.dom, x, ref) <=> Prec(p.dom, x, ref))
      BY <1>1, <1>10, <2>2 DEF Remains
    <3> QED BY <1>6, <2>2, <3>1, <3>2, <3>3
  <2> QED BY <2>1, <2>2
<1>12. ASSUME NEW y
       PROVE  Prec(r, node, y) <=> y \in ToSet(w.dom) /\ ref # Null /\ ~Prec(p.dom, y, ref)
  <2>1. CASE ref = Null
    <3>1. place = Len(w.dom) + 1
      BY <2>1 DEF place
    <3> QED BY <1>6, <1>7, <2>1, <3>1
  <2>2. CASE ref # Null
    <3>1. (\E i \in DOMAIN w.dom : i >= place /\ w.dom[i] = y)
            <=> y \in ToSet(w.dom) /\ ~Prec(w.dom, y, ref)
      BY <1>2, <1>5, <1>7, <2>2 DEF Prec, Injective, ToSet
    <3>2. y \in ToSet(w.dom) => (Prec(w.dom, y, ref) <=> Prec(p.dom, y, ref))
      BY <1>1, <1>10, <2>2 DEF Remains
    <3> QED BY <1>6, <2>2, <3>1, <3>2
  <2> QED BY <2>1, <2>2
<1>13. \A x, y : x # node /\ y # node => (Prec(r, x, y) <=> Prec(p.dom, x, y))
  BY <1>1, <1>6 DEF Remains
<1>14. Inserted(r, p.dom, node, ref)
  <2> HIDE DEF r
  <2>1. ToSet(r) = ToSet(p.dom) \cup {node}
    BY <1>6, <1>10
  <2> QED BY <1>6, <1>10, <1>11, <1>12, <1>13, <2>1 DEF Inserted
<1> QED BY <1>3, <1>8, <1>9, <1>14

----------------------------------------------------------------------------
\* The rows in the document.
Rows(dom) == ToSet(dom) \ {TopFold, BottomFold}

\* The rows that the selection keeps in the document.
Kept(p) == {p.startRow, p.endRow} \ {Null}

\* The rows of the document are in ascending order.
Sorted(dom, index) == \A x, y \in Rows(dom) : Prec(dom, x, y) => index[x] < index[y]

\* What sync() found of the selection: rows of the document, in order.
Selected(p, index) ==
  /\ p.startRow = Null <=> p.endRow = Null
  /\ Kept(p) \subseteq Rows(p.dom)
  /\ p.startRow # Null => index[p.startRow] <= index[p.endRow]
  /\ p.isMultiline <=> p.startRow # p.endRow

\* A fold that is put behind a node changes no other place (drawTopFold_).
LEMMA PlacedAfter ==
  ASSUME NEW p \in Ports, Injective(p.dom), NEW fold \in {TopFold, BottomFold},
         NEW ref \in ToSet(p.dom) \ {fold}, NEW keep, fold \notin keep, fold \in ToSet(p.dom)
  PROVE  LET f == IF NextSibling(p.dom, ref) = fold THEN p
                  ELSE InsertBefore(p, fold, NextSibling(p.dom, ref))
         IN  /\ Moved(p, f, keep)
             /\ Injective(f.dom)
             /\ ToSet(f.dom) = ToSet(p.dom)
             /\ \A x, y : x # fold /\ y # fold => (Prec(f.dom, x, y) <=> Prec(p.dom, x, y))
             /\ \A x : Prec(f.dom, x, fold) <=> x = ref \/ (x # fold /\ Prec(p.dom, x, ref))
<1> DEFINE n == NextSibling(p.dom, ref)
           f == IF n = fold THEN p ELSE InsertBefore(p, fold, n)
<1>1. p.dom \in Seq(Node) /\ fold \in Node
  BY DEF Ports, Node
<1>2. Order(p.dom)
  BY <1>1, PrecOrder
<1>3. /\ n = Null => \A y : ~Prec(p.dom, ref, y)
      /\ n # Null => /\ Prec(p.dom, ref, n)
                     /\ \A y : Prec(p.dom, ref, y) => y = n \/ Prec(p.dom, n, y)
  BY <1>1, NextFacts, Nodes
<1> HIDE DEF n
<1>4. CASE n = fold
  <2>1. Moved(p, p, keep)
    BY DEF Moved, SameSettings
  <2>2. fold # Null
    BY Nodes, <1>1
  <2>3. \A x : Prec(p.dom, x, fold) <=> x = ref \/ (x # fold /\ Prec(p.dom, x, ref))
    BY <1>2, <1>3, <1>4, <2>2 DEF Order
  <2> QED BY <1>4, <2>1, <2>3 DEF n
<1>5. CASE n # fold
  <2>1. n = Null \/ n \in ToSet(p.dom) \ {fold}
    BY <1>2, <1>3, <1>5 DEF Order
  <2>2. /\ Moved(p, InsertBefore(p, fold, n), keep)
        /\ Inserted(InsertBefore(p, fold, n).dom, p.dom, fold, n)
    BY <1>1, <2>1, InsertMoved
  <2> DEFINE r == InsertBefore(p, fold, n)
  <2>3. f = r
    BY <1>5
  <2> HIDE DEF r, f
  <2>4. \A x : Prec(r.dom, x, fold) <=> x = ref \/ (x # fold /\ Prec(p.dom, x, ref))
    BY <1>2, <1>3, <2>1, <2>2 DEF Order, Inserted, r
  <2>5. Moved(p, f, keep) /\ Injective(f.dom) /\ ToSet(f.dom) = ToSet(p.dom)
    BY <2>2, <2>3 DEF r, Inserted
  <2>6. \A x, y : x # fold /\ y # fold => (Prec(f.dom, x, y) <=> Prec(p.dom, x, y))
    BY <2>2, <2>3 DEF r, Inserted
  <2> QED BY <2>3, <2>4, <2>5, <2>6 DEF f, n
<1> QED BY <1>4, <1>5

\* A fold that is put before a node changes no other place (drawBottomFold_).
LEMMA PlacedBefore ==
  ASSUME NEW p \in Ports, Injective(p.dom), NEW fold \in {TopFold, BottomFold},
         NEW ref \in ToSet(p.dom) \ {fold}, NEW keep, fold \notin keep
  PROVE  LET f == IF NextSibling(p.dom, fold) = ref THEN p ELSE InsertBefore(p, fold, ref)
         IN  /\ Moved(p, f, keep)
             /\ Injective(f.dom)
             /\ ToSet(f.dom) = ToSet(p.dom) \cup {fold}
             /\ \A x, y : x # fold /\ y # fold => (Prec(f.dom, x, y) <=> Prec(p.dom, x, y))
             /\ \A y : Prec(f.dom, fold, y) <=> y = ref \/ (y # fold /\ Prec(p.dom, ref, y))
<1> DEFINE n == NextSibling(p.dom, fold)
           f == IF n = ref THEN p ELSE InsertBefore(p, fold, ref)
<1>1. p.dom \in Seq(Node) /\ fold \in Node
  BY DEF Ports, Node
<1>2. Order(p.dom)
  BY <1>1, PrecOrder
<1>3. n # Null => /\ Prec(p.dom, fold, n)
                  /\ \A y : Prec(p.dom, fold, y) => y = n \/ Prec(p.dom, n, y)
  BY <1>1, NextFacts, Nodes
<1>r. ref \in Node /\ ref # Null
  BY <1>1, Nodes DEF ToSet
<1> HIDE DEF n
<1>4. CASE n = ref
  <2>1. Moved(p, p, keep)
    BY DEF Moved, SameSettings
  <2>2. \A y : Prec(p.dom, fold, y) <=> y = ref \/ (y # fold /\ Prec(p.dom, ref, y))
    BY <1>2, <1>3, <1>4, <1>r DEF Order
  <2>3. fold \in ToSet(p.dom)
    BY <1>2, <1>3, <1>4, <1>r DEF Order
  <2> QED BY <1>4, <2>1, <2>2, <2>3 DEF n
<1>5. CASE n # ref
  <2>2. /\ Moved(p, InsertBefore(p, fold, ref), keep)
        /\ Inserted(InsertBefore(p, fold, ref).dom, p.dom, fold, ref)
    BY <1>1, InsertMoved
  <2> DEFINE r == InsertBefore(p, fold, ref)
  <2>3. f = r
    BY <1>5
  <2> HIDE DEF r, f
  <2>4. \A y : Prec(r.dom, fold, y) <=> y = ref \/ (y # fold /\ Prec(p.dom, ref, y))
    BY <1>2, <1>r, <2>2 DEF Order, Inserted, r
  <2>5. Moved(p, f, keep) /\ Injective(f.dom) /\ ToSet(f.dom) = ToSet(p.dom) \cup {fold}
    BY <2>2, <2>3 DEF r, Inserted
  <2>6. \A x, y : x # fold /\ y # fold => (Prec(f.dom, x, y) <=> Prec(p.dom, x, y))
    BY <2>2, <2>3 DEF r, Inserted
  <2> QED BY <2>3, <2>4, <2>5, <2>6 DEF f, n
<1> QED BY <1>4, <1>5

\* The rows above the view and below it that the selection keeps there.
TopDrawn(p, dom, index, topRowIndex) ==
  \A x \in Rows(dom) : Prec(dom, x, TopFold) <=> x \in Kept(p) /\ index[x] < topRowIndex

\* Below the bottom fold are the rows of the selection that are below the view.
BottomDrawn(p, dom, index, bottomRowIndex) ==
  \A x \in Rows(dom) : Prec(dom, BottomFold, x) <=> x \in Kept(p) /\ index[x] > bottomRowIndex

\* drawTopFold_ leaves above the fold just the rows that the selection keeps there,
\* and neither throws nor moves one of them.
LEMMA TopFoldDrawn ==
  ASSUME NEW p \in Ports, NEW index \in [Ids -> Nat], NEW topRowIndex \in Int,
         Injective(p.dom), {TopFold, BottomFold} \subseteq ToSet(p.dom),
         Prec(p.dom, TopFold, BottomFold), Sorted(p.dom, index), Selected(p, index)
  PROVE  LET q == drawTopFold_(p, index, topRowIndex)
         IN  /\ Moved(p, q, Kept(p))
             /\ Injective(q.dom)
             /\ TopFold \in ToSet(q.dom)
             /\ Kept(p) \subseteq Rows(q.dom)
             /\ Rows(q.dom) \subseteq Rows(p.dom)
             /\ Sorted(q.dom, index)
             /\ BottomFold \in ToSet(q.dom) => Prec(q.dom, TopFold, BottomFold)
             /\ TopDrawn(p, q.dom, index, topRowIndex)
<1> DEFINE q == drawTopFold_(p, index, topRowIndex)
           start == p.startRow
           end == p.endRow
           above == p.isMultiline /\ index[end] < topRowIndex
           ref == IF above THEN end ELSE start
<1>1. p.dom \in Seq(Node) /\ ToSet(p.dom) \subseteq Node
  BY DEF Ports, ToSet
<1>2. Order(p.dom)
  BY <1>1, PrecOrder
<1>3. Rows(p.dom) \subseteq Ids /\ \A x \in Ids : index[x] \in Nat
  BY <1>1 DEF Rows, Node
<1>4. TopFold \notin Kept(p) /\ TopFold \in Node /\ TopFold # Null /\ TopFold # BottomFold
  BY Nodes DEF Kept, Selected, Rows, Node
<1>5. CASE start = Null \/ index[start] >= topRowIndex
  <2>0. \A x \in Kept(p) : ~(index[x] < topRowIndex)
    BY <1>3, <1>5 DEF Selected, Kept
  <2>1. /\ Head(p.dom) \in ToSet(p.dom)
        /\ \A y \in ToSet(p.dom) : y = Head(p.dom) \/ Prec(p.dom, Head(p.dom), y)
    BY <1>1, EndsFacts
  <2>2. CASE Head(p.dom) = TopFold
    <3>1. q = p
      BY <1>5, <2>2 DEF drawTopFold_
    <3>2. Moved(p, p, Kept(p))
      BY DEF Moved, SameSettings
    <3>3. TopDrawn(p, p.dom, index, topRowIndex)
      BY <1>2, <2>0, <2>1, <2>2 DEF TopDrawn, Order, Rows
    <3> QED BY <3>1, <3>2, <3>3 DEF Selected
  <2>3. CASE Head(p.dom) # TopFold
    <3> DEFINE head == Head(p.dom)
    <3>1. q = InsertBefore(p, TopFold, head)
      BY <1>5, <2>3 DEF drawTopFold_
    <3>2. Moved(p, q, Kept(p)) /\ Inserted(q.dom, p.dom, TopFold, head)
      BY <1>4, <2>1, <2>3, <3>1, InsertMoved
    <3> HIDE DEF q
    <3>3. ToSet(q.dom) = ToSet(p.dom) /\ Injective(q.dom) /\ Rows(q.dom) = Rows(p.dom)
      BY <3>2 DEF Inserted, Rows
    <3>4. \A x : ~Prec(q.dom, x, TopFold)
      BY <1>1, <1>2, <2>1, <3>2, Nodes DEF Inserted, Order
    <3>5. Prec(q.dom, TopFold, BottomFold)
      BY <1>1, <1>2, <1>4, <2>1, <3>2, Nodes DEF Inserted, Order
    <3>6. Sorted(q.dom, index)
      BY <1>4, <3>2, <3>3 DEF Sorted, Inserted, Rows
    <3>7. TopDrawn(p, q.dom, index, topRowIndex)
      BY <2>0, <3>4 DEF TopDrawn
    <3>8. Kept(p) \subseteq Rows(q.dom) /\ TopFold \in ToSet(q.dom)
      BY <3>3 DEF Selected
    <3> QED BY <3>2, <3>3, <3>5, <3>6, <3>7, <3>8 DEF q
  <2> QED BY <2>2, <2>3
<1>6. CASE ~(start = Null \/ index[start] >= topRowIndex)
  <2> DEFINE f == IF NextSibling(p.dom, ref) = TopFold THEN p
                  ELSE InsertBefore(p, TopFold, NextSibling(p.dom, ref))
             inside == Inside(f.dom, start, end)
             j == IF above THEN RemoveNodes(f, inside) ELSE f
             before == Before(j.dom, start)
  <2>1. /\ start \in Rows(p.dom) /\ end \in Rows(p.dom) /\ ref \in Rows(p.dom)
        /\ index[start] < topRowIndex /\ index[start] <= index[end]
        /\ Kept(p) = {start, end}
        /\ above => start # end
    BY <1>3, <1>6 DEF Selected, Kept
  <2>2. start # end => Prec(p.dom, start, end)
    BY <1>2, <1>3, <2>1 DEF Sorted, Order, Rows
  <2>3. ref \in ToSet(p.dom) \ {TopFold}
    BY <2>1 DEF Rows
  <2>4. /\ Moved(p, f, Kept(p)) /\ Injective(f.dom) /\ ToSet(f.dom) = ToSet(p.dom)
        /\ \A x, y : x # TopFold /\ y # TopFold => (Prec(f.dom, x, y) <=> Prec(p.dom, x, y))
        /\ \A x : Prec(f.dom, x, TopFold) <=> x = ref \/ (x # TopFold /\ Prec(p.dom, x, ref))
    BY <1>4, <2>3, PlacedAfter
  <2> HIDE DEF f
  <2>5. f \in Ports /\ f.dom \in Seq(Node) /\ Order(f.dom)
    BY <2>4, PrecOrder DEF Moved, Ports
  <2>6. \A z : z \in inside <=> Prec(f.dom, start, z) /\ Prec(f.dom, z, end)
    BY <2>1, <2>4, <2>5, BeforeFacts DEF Inside, Rows
  <2>7. /\ Moved(f, j, Kept(p)) /\ Injective(j.dom)
        /\ \A x : x \in ToSet(j.dom)
                    <=> x \in ToSet(f.dom) /\ ~(above /\ Prec(f.dom, start, x) /\ Prec(f.dom, x, end))
        /\ \A x, y \in ToSet(j.dom) : Prec(j.dom, x, y) <=> Prec(f.dom, x, y)
    <3>1. CASE above
      <4>1. inside \cap Kept(p) = {}
        BY <2>1, <2>5, <2>6 DEF Order
      <4>2. Moved(f, j, Kept(p)) /\ Remains(j.dom, f.dom, inside)
        BY <2>5, <3>1, <4>1, RemoveMoved
      <4> HIDE DEF j, inside
      <4> QED BY <2>4, <2>6, <3>1, <4>2 DEF Remains
    <3>2. CASE ~above
      <4>1. j = f
        BY <3>2
      <4>2. Moved(f, f, Kept(p))
        BY <2>5 DEF Moved, SameSettings
      <4> HIDE DEF j, above
      <4> QED BY <2>4, <3>2, <4>1, <4>2
    <3> QED BY <3>1, <3>2
  <2> HIDE DEF j
  <2>8. j \in Ports /\ j.dom \in Seq(Node) /\ Order(j.dom)
    BY <2>7, PrecOrder DEF Moved, Ports
  <2>9. start \in ToSet(j.dom) /\ end \in ToSet(j.dom)
    BY <2>1, <2>4, <2>5, <2>7 DEF Order, Rows
  <2>10. above => NextSibling(j.dom, start) = end
    <3> SUFFICES ASSUME above PROVE NextSibling(j.dom, start) = end
      OBVIOUS
    <3> DEFINE n == NextSibling(j.dom, start)
    <3>1. start # TopFold /\ end # TopFold /\ Prec(f.dom, start, end)
      BY <2>1, <2>2, <2>4 DEF Rows
    <3>2. Prec(j.dom, start, end)
      BY <2>7, <2>9, <3>1
    <3>3. /\ n = Null => \A y : ~Prec(j.dom, start, y)
          /\ n # Null => /\ Prec(j.dom, start, n)
                         /\ \A y : Prec(j.dom, start, y) => y = n \/ Prec(j.dom, n, y)
      BY <2>7, <2>8, NextFacts, Nodes
    <3> HIDE DEF n
    <3>4. n # Null /\ Prec(j.dom, start, n) /\ (end = n \/ Prec(j.dom, n, end))
      BY <3>2, <3>3
    <3>5. n \in ToSet(j.dom)
      BY <2>8, <3>4 DEF Order
    <3>6. ~Prec(j.dom, n, end)
      BY <2>7, <2>9, <3>4, <3>5
    <3> QED BY <3>4, <3>6 DEF n
  <2>11. q = RemoveNodes(j, before)
    <3>1. {start, ref} \subseteq ToSet(p.dom)
      BY <2>1 DEF Rows
    <3>2. ~(\/ ~({start, ref} \subseteq ToSet(p.dom))
            \/ above /\ NextSibling(j.dom, start) # end)
      BY <2>10, <3>1
    <3> QED BY <1>6, <3>2 DEF drawTopFold_, j, f
  <2>12. \A z : z \in before <=> Prec(j.dom, z, start)
    BY <2>7, <2>8, <2>9, BeforeFacts
  <2> HIDE DEF before, q, above
  <2>13. before \cap Kept(p) = {}
    <3>1. start # end => Prec(j.dom, start, end)
      BY <2>1, <2>2, <2>4, <2>7, <2>9 DEF Rows
    <3> QED BY <2>1, <2>8, <2>12, <3>1 DEF Order
  <2>14. Moved(j, q, Kept(p)) /\ Remains(q.dom, j.dom, before)
    BY <2>8, <2>11, <2>13, RemoveMoved
  <2>15. Moved(p, q, Kept(p)) /\ Injective(q.dom)
    <3>1. Moved(p, j, Kept(p))
      BY <2>4, <2>7, MovedTwice
    <3>2. Moved(p, q, Kept(p))
      BY <2>14, <3>1, MovedTwice
    <3> QED BY <2>7, <2>14, <3>2 DEF Remains
  <2>16. \A x : x \in ToSet(q.dom)
                  <=> /\ x \in ToSet(p.dom)
                      /\ ~(above /\ Prec(f.dom, start, x) /\ Prec(f.dom, x, end))
                      /\ ~Prec(j.dom, x, start)
    BY <2>4, <2>7, <2>12, <2>14 DEF Remains
  <2>17. /\ ToSet(q.dom) \subseteq ToSet(j.dom)
         /\ \A x, y \in ToSet(q.dom) : Prec(q.dom, x, y) <=> Prec(f.dom, x, y)
    BY <2>7, <2>12, <2>14 DEF Remains
  <2>18. TopFold \in ToSet(q.dom)
    <3>1. Prec(f.dom, start, TopFold) /\ (above => Prec(f.dom, end, TopFold))
      BY <2>1, <2>2, <2>4 DEF above, Rows
    <3>2. TopFold \in ToSet(j.dom)
      BY <1>4, <2>1, <2>4, <2>5, <2>7, <3>1 DEF Order
    <3>3. ~Prec(j.dom, TopFold, start)
      BY <2>5, <2>7, <2>9, <3>1, <3>2 DEF Order
    <3> QED BY <2>7, <2>16, <3>2, <3>3, <2>4
  <2>19. Kept(p) \subseteq Rows(q.dom)
    BY <2>1, <2>9, <2>12, <2>13, <2>14 DEF Remains, Rows
  <2>20. Rows(q.dom) \subseteq Rows(p.dom)
    BY <2>16 DEF Rows
  <2>21. Sorted(q.dom, index)
    BY <1>4, <2>4, <2>17, <2>20 DEF Sorted, Rows
  <2>22. ASSUME NEW x \in ToSet(q.dom), Prec(q.dom, x, TopFold)
         PROVE  x = start \/ (above /\ x = end)
    <3>1. x = ref \/ (x # TopFold /\ Prec(p.dom, x, ref))
      BY <2>4, <2>17, <2>18, <2>22
    <3>2. ~Prec(j.dom, x, start) /\ ~(above /\ Prec(f.dom, start, x) /\ Prec(f.dom, x, end))
      BY <2>16
    <3>3. x = start \/ Prec(f.dom, start, x)
      <4>1. x \in ToSet(j.dom) /\ start \in ToSet(j.dom)
        BY <2>9, <2>17
      <4>2. ~Prec(f.dom, x, start)
        BY <2>7, <3>2, <4>1
      <4>3. x \in ToSet(f.dom) /\ start \in ToSet(f.dom)
        BY <2>7, <4>1
      <4> QED BY <2>5, <4>2, <4>3 DEF Order
    <3>4. CASE above
      <4>1. ref = end /\ end # TopFold
        BY <2>1, <3>4 DEF Rows
      <4>2. x = end \/ Prec(f.dom, x, end)
        BY <2>4, <3>1, <4>1
      <4> QED BY <3>2, <3>3, <3>4, <4>2
    <3>5. CASE ~above
      <4>1. ref = start /\ start # TopFold
        BY <2>1, <3>5 DEF Rows
      <4>2. x = start \/ Prec(f.dom, x, start)
        BY <2>4, <3>1, <4>1
      <4> QED BY <2>5, <3>3, <4>2 DEF Order
    <3> QED BY <3>4, <3>5
  <2>23. Prec(q.dom, start, TopFold) /\ (above => Prec(q.dom, end, TopFold))
    <3>1. Prec(f.dom, start, TopFold) /\ (above => Prec(f.dom, end, TopFold))
      BY <2>1, <2>2, <2>4 DEF above, Rows
    <3> QED BY <2>1, <2>17, <2>18, <2>19, <3>1 DEF Rows
  <2>24. TopDrawn(p, q.dom, index, topRowIndex)
    <3>1. above <=> start # end /\ index[end] < topRowIndex
      BY DEF above, Selected
    <3>2. ASSUME NEW x \in Rows(q.dom), Prec(q.dom, x, TopFold)
          PROVE  x \in Kept(p) /\ index[x] < topRowIndex
      BY <2>1, <2>22, <3>1, <3>2 DEF Rows
    <3>3. ASSUME NEW x \in Rows(q.dom), x \in Kept(p), index[x] < topRowIndex
          PROVE  Prec(q.dom, x, TopFold)
      BY <2>1, <2>23, <3>1, <3>3
    <3> QED BY <3>2, <3>3 DEF TopDrawn
  <2>25. BottomFold \in ToSet(q.dom) => Prec(q.dom, TopFold, BottomFold)
    <3> SUFFICES ASSUME BottomFold \in ToSet(q.dom) PROVE Prec(q.dom, TopFold, BottomFold)
      OBVIOUS
    <3>1. ~Prec(q.dom, BottomFold, TopFold)
      BY <2>1, <2>22 DEF Rows
    <3>2. q.dom \in Seq(Node)
      BY <2>15 DEF Moved, Ports
    <3>3. Order(q.dom)
      BY <2>15, <3>2, PrecOrder
    <3> QED BY <1>4, <2>18, <3>1, <3>3 DEF Order
  <2> QED BY <2>15, <2>18, <2>19, <2>20, <2>21, <2>24, <2>25 DEF q
<1> QED BY <1>5, <1>6

\* Both folds are in the document, in their order.
Document(dom) ==
  /\ Injective(dom)
  /\ {TopFold, BottomFold} \subseteq ToSet(dom)
  /\ Prec(dom, TopFold, BottomFold)

\* drawBottomFold_ leaves below the fold just the rows that the selection keeps
\* there, and neither throws nor moves one of them.
LEMMA BottomFoldDrawn ==
  ASSUME NEW p \in Ports, NEW index \in [Ids -> Nat],
         NEW topRowIndex \in Int, NEW bottomRowIndex \in Int, topRowIndex <= bottomRowIndex,
         Injective(p.dom), TopFold \in ToSet(p.dom),
         BottomFold \in ToSet(p.dom) => Prec(p.dom, TopFold, BottomFold),
         Sorted(p.dom, index), Selected(p, index),
         TopDrawn(p, p.dom, index, topRowIndex)
  PROVE  LET q == drawBottomFold_(p, index, bottomRowIndex)
         IN  /\ Moved(p, q, Kept(p))
             /\ Document(q.dom)
             /\ Kept(p) \subseteq Rows(q.dom)
             /\ Rows(q.dom) \subseteq Rows(p.dom)
             /\ Sorted(q.dom, index)
             /\ TopDrawn(p, q.dom, index, topRowIndex)
             /\ BottomDrawn(p, q.dom, index, bottomRowIndex)
<1> DEFINE q == drawBottomFold_(p, index, bottomRowIndex)
           start == p.startRow
           end == p.endRow
           below == p.isMultiline /\ index[start] > bottomRowIndex
           ref == IF below THEN start ELSE end
<1>1. p.dom \in Seq(Node) /\ ToSet(p.dom) \subseteq Node
  BY DEF Ports, ToSet
<1>2. Order(p.dom)
  BY <1>1, PrecOrder
<1>3. Rows(p.dom) \subseteq Ids /\ \A x \in Ids : index[x] \in Nat
  BY <1>1 DEF Rows, Node
<1>4. /\ BottomFold \notin Kept(p) /\ BottomFold \in Node /\ BottomFold # Null
      /\ TopFold # BottomFold /\ TopFold \in Node /\ TopFold \notin Kept(p)
  BY Nodes DEF Kept, Selected, Rows, Node
<1>5. CASE end = Null \/ index[end] <= bottomRowIndex
  <2>0. \A x \in Kept(p) : ~(index[x] > bottomRowIndex)
    BY <1>3, <1>5 DEF Selected, Kept
  <2>1. /\ Last(p.dom) \in ToSet(p.dom)
        /\ \A y \in ToSet(p.dom) : y = Last(p.dom) \/ Prec(p.dom, y, Last(p.dom))
    BY <1>1, EndsFacts
  <2>2. CASE Last(p.dom) = BottomFold
    <3>1. q = p
      BY <1>5, <2>2 DEF drawBottomFold_
    <3>2. Moved(p, p, Kept(p))
      BY DEF Moved, SameSettings
    <3>3. BottomDrawn(p, p.dom, index, bottomRowIndex)
      BY <1>2, <2>0, <2>1, <2>2 DEF BottomDrawn, Order, Rows
    <3>4. Document(p.dom)
      BY <2>1, <2>2 DEF Document
    <3> QED BY <3>1, <3>2, <3>3, <3>4 DEF Selected
  <2>3. CASE Last(p.dom) # BottomFold
    <3>1. q = InsertBefore(p, BottomFold, Null)
      BY <1>5, <2>3 DEF drawBottomFold_
    <3>2. Moved(p, q, Kept(p)) /\ Inserted(q.dom, p.dom, BottomFold, Null)
      BY <1>4, <3>1, InsertMoved
    <3> HIDE DEF q
    <3>3. /\ ToSet(q.dom) = ToSet(p.dom) \cup {BottomFold} /\ Injective(q.dom)
          /\ Rows(q.dom) = Rows(p.dom)
      BY <3>2 DEF Inserted, Rows
    <3>4. \A x : ~Prec(q.dom, BottomFold, x)
      BY <3>2 DEF Inserted
    <3>5. Prec(q.dom, TopFold, BottomFold)
      BY <1>4, <3>2 DEF Inserted
    <3>6. Sorted(q.dom, index)
      BY <1>4, <3>2, <3>3 DEF Sorted, Inserted, Rows
    <3>7. BottomDrawn(p, q.dom, index, bottomRowIndex)
      BY <2>0, <3>4 DEF BottomDrawn
    <3>8. Kept(p) \subseteq Rows(q.dom) /\ TopFold \in ToSet(q.dom) /\ BottomFold \in ToSet(q.dom)
      BY <3>3 DEF Selected
    <3>9. TopDrawn(p, q.dom, index, topRowIndex)
      BY <1>4, <3>2, <3>3 DEF TopDrawn, Inserted, Rows
    <3>10. Document(q.dom)
      BY <3>3, <3>5, <3>8 DEF Document
    <3> QED BY <3>2, <3>3, <3>6, <3>7, <3>8, <3>9, <3>10 DEF q
  <2> QED BY <2>2, <2>3
<1>6. CASE ~(end = Null \/ index[end] <= bottomRowIndex)
  <2> DEFINE f == IF NextSibling(p.dom, BottomFold) = ref THEN p
                  ELSE InsertBefore(p, BottomFold, ref)
             inside == Inside(f.dom, start, end)
             j == IF below THEN RemoveNodes(f, inside) ELSE f
             after == After(j.dom, end)
  <2>1. /\ start \in Rows(p.dom) /\ end \in Rows(p.dom) /\ ref \in Rows(p.dom)
        /\ index[end] > bottomRowIndex /\ index[start] <= index[end]
        /\ Kept(p) = {start, end}
        /\ below => start # end
    BY <1>3, <1>6 DEF Selected, Kept
  <2>2. start # end => Prec(p.dom, start, end)
    BY <1>2, <1>3, <2>1 DEF Sorted, Order, Rows
  <2>3. ref \in ToSet(p.dom) \ {BottomFold}
    BY <2>1 DEF Rows
  <2>t. ~Prec(p.dom, end, TopFold) /\ ~Prec(p.dom, ref, TopFold) /\ (below => ~Prec(p.dom, start, TopFold))
    <3>1. index[end] \in Nat /\ index[start] \in Nat
      BY <1>3, <2>1
    <3> QED BY <2>1, <3>1 DEF TopDrawn
  <2>4. /\ Moved(p, f, Kept(p)) /\ Injective(f.dom) /\ ToSet(f.dom) = ToSet(p.dom) \cup {BottomFold}
        /\ \A x, y : x # BottomFold /\ y # BottomFold => (Prec(f.dom, x, y) <=> Prec(p.dom, x, y))
        /\ \A y : Prec(f.dom, BottomFold, y) <=> y = ref \/ (y # BottomFold /\ Prec(p.dom, ref, y))
    BY <1>4, <2>3, PlacedBefore
  <2> HIDE DEF f
  <2>5. f \in Ports /\ f.dom \in Seq(Node) /\ Order(f.dom)
    BY <2>4, PrecOrder DEF Moved, Ports
  <2>6. \A z : z \in inside <=> Prec(f.dom, start, z) /\ Prec(f.dom, z, end)
    BY <2>1, <2>4, <2>5, BeforeFacts DEF Inside, Rows
  <2>7. /\ Moved(f, j, Kept(p)) /\ Injective(j.dom)
        /\ \A x : x \in ToSet(j.dom)
                    <=> x \in ToSet(f.dom) /\ ~(below /\ Prec(f.dom, start, x) /\ Prec(f.dom, x, end))
        /\ \A x, y \in ToSet(j.dom) : Prec(j.dom, x, y) <=> Prec(f.dom, x, y)
    <3>1. CASE below
      <4>1. inside \cap Kept(p) = {}
        BY <2>1, <2>5, <2>6 DEF Order
      <4>2. Moved(f, j, Kept(p)) /\ Remains(j.dom, f.dom, inside)
        BY <2>5, <3>1, <4>1, RemoveMoved
      <4> HIDE DEF j, inside
      <4> QED BY <2>4, <2>6, <3>1, <4>2 DEF Remains
    <3>2. CASE ~below
      <4>1. j = f
        BY <3>2
      <4>2. Moved(f, f, Kept(p))
        BY <2>5 DEF Moved, SameSettings
      <4> HIDE DEF j, below
      <4> QED BY <2>4, <3>2, <4>1, <4>2
    <3> QED BY <3>1, <3>2
  <2> HIDE DEF j
  <2>8. j \in Ports /\ j.dom \in Seq(Node) /\ Order(j.dom)
    BY <2>7, PrecOrder DEF Moved, Ports
  <2>9. start \in ToSet(j.dom) /\ end \in ToSet(j.dom)
    BY <2>1, <2>4, <2>5, <2>7 DEF Order, Rows
  <2>10. below => NextSibling(j.dom, ref) = end
    <3> SUFFICES ASSUME below PROVE NextSibling(j.dom, start) = end
      OBVIOUS
    <3> DEFINE n == NextSibling(j.dom, start)
    <3>1. start # BottomFold /\ end # BottomFold /\ Prec(f.dom, start, end)
      BY <2>1, <2>2, <2>4 DEF Rows
    <3>2. Prec(j.dom, start, end)
      BY <2>7, <2>9, <3>1
    <3>3. /\ n = Null => \A y : ~Prec(j.dom, start, y)
          /\ n # Null => /\ Prec(j.dom, start, n)
                         /\ \A y : Prec(j.dom, start, y) => y = n \/ Prec(j.dom, n, y)
      BY <2>7, <2>8, NextFacts, Nodes
    <3> HIDE DEF n
    <3>4. n # Null /\ Prec(j.dom, start, n) /\ (end = n \/ Prec(j.dom, n, end))
      BY <3>2, <3>3
    <3>5. n \in ToSet(j.dom)
      BY <2>8, <3>4 DEF Order
    <3>6. ~Prec(j.dom, n, end)
      BY <2>7, <2>9, <3>4, <3>5
    <3> QED BY <3>4, <3>6 DEF n
  <2>11. q = RemoveNodes(j, after)
    <3>1. {end, ref} \subseteq ToSet(p.dom)
      BY <2>1 DEF Rows
    <3>2. ~(\/ ~({end, ref} \subseteq ToSet(p.dom))
            \/ below /\ NextSibling(j.dom, ref) # end)
      BY <2>10, <3>1
    <3> QED BY <1>6, <3>2 DEF drawBottomFold_, j, f
  <2>12. \A z : z \in after <=> Prec(j.dom, end, z)
    BY <2>7, <2>8, <2>9, BeforeFacts
  <2> HIDE DEF after, q, below
  <2>13. after \cap Kept(p) = {}
    <3>1. start # end => Prec(j.dom, start, end)
      BY <2>1, <2>2, <2>4, <2>7, <2>9 DEF Rows
    <3> QED BY <2>1, <2>8, <2>12, <3>1 DEF Order
  <2>14. Moved(j, q, Kept(p)) /\ Remains(q.dom, j.dom, after)
    BY <2>8, <2>11, <2>13, RemoveMoved
  <2>15. Moved(p, q, Kept(p)) /\ Injective(q.dom)
    <3>1. Moved(p, j, Kept(p))
      BY <2>4, <2>7, MovedTwice
    <3>2. Moved(p, q, Kept(p))
      BY <2>14, <3>1, MovedTwice
    <3> QED BY <2>7, <2>14, <3>2 DEF Remains
  <2>16. \A x : x \in ToSet(q.dom)
                  <=> /\ x \in ToSet(f.dom)
                      /\ ~(below /\ Prec(f.dom, start, x) /\ Prec(f.dom, x, end))
                      /\ ~Prec(j.dom, end, x)
    BY <2>7, <2>12, <2>14 DEF Remains
  <2>17. /\ ToSet(q.dom) \subseteq ToSet(j.dom)
         /\ \A x, y \in ToSet(q.dom) : Prec(q.dom, x, y) <=> Prec(f.dom, x, y)
    BY <2>7, <2>12, <2>14 DEF Remains
  <2>18. BottomFold \in ToSet(q.dom)
    <3>1. Prec(f.dom, BottomFold, end) /\ (below => Prec(f.dom, BottomFold, start))
      BY <2>1, <2>2, <2>4 DEF below, Rows
    <3>2. BottomFold \in ToSet(j.dom)
      BY <1>4, <2>1, <2>4, <2>5, <2>7, <3>1 DEF Order
    <3>3. ~Prec(j.dom, end, BottomFold)
      BY <2>5, <2>7, <2>9, <3>1, <3>2 DEF Order
    <3> QED BY <2>7, <2>16, <3>2, <3>3, <2>4
  <2>19. Kept(p) \subseteq Rows(q.dom)
    BY <2>1, <2>9, <2>12, <2>13, <2>14 DEF Remains, Rows
  <2>20. Rows(q.dom) \subseteq Rows(p.dom)
    BY <2>4, <2>16 DEF Rows
  <2>21. Sorted(q.dom, index)
    BY <1>4, <2>4, <2>17, <2>20 DEF Sorted, Rows
  <2>22. ASSUME NEW x \in ToSet(q.dom), Prec(q.dom, BottomFold, x)
         PROVE  x = end \/ (below /\ x = start)
    <3>1. x = ref \/ (x # BottomFold /\ Prec(p.dom, ref, x))
      BY <2>4, <2>17, <2>18, <2>22
    <3>2. ~Prec(j.dom, end, x) /\ ~(below /\ Prec(f.dom, start, x) /\ Prec(f.dom, x, end))
      BY <2>16
    <3>3. x = end \/ Prec(f.dom, x, end)
      <4>1. x \in ToSet(j.dom) /\ end \in ToSet(j.dom)
        BY <2>9, <2>17
      <4>2. ~Prec(f.dom, end, x)
        BY <2>7, <3>2, <4>1
      <4>3. x \in ToSet(f.dom) /\ end \in ToSet(f.dom)
        BY <2>7, <4>1
      <4> QED BY <2>5, <4>2, <4>3 DEF Order
    <3>4. CASE below
      <4>1. ref = start /\ start # BottomFold
        BY <2>1, <3>4 DEF Rows
      <4>2. x = start \/ Prec(f.dom, start, x)
        BY <2>4, <3>1, <4>1
      <4> QED BY <3>2, <3>3, <3>4, <4>2
    <3>5. CASE ~below
      <4>1. ref = end /\ end # BottomFold
        BY <2>1, <3>5 DEF Rows
      <4>2. x = end \/ Prec(f.dom, end, x)
        BY <2>4, <3>1, <4>1
      <4> QED BY <2>5, <3>3, <4>2 DEF Order
    <3> QED BY <3>4, <3>5
  <2>23. Prec(q.dom, BottomFold, end) /\ (below => Prec(q.dom, BottomFold, start))
    <3>1. Prec(f.dom, BottomFold, end) /\ (below => Prec(f.dom, BottomFold, start))
      BY <2>1, <2>2, <2>4 DEF below, Rows
    <3> QED BY <2>1, <2>17, <2>18, <2>19, <3>1 DEF Rows
  <2>24. BottomDrawn(p, q.dom, index, bottomRowIndex)
    <3>1. below <=> start # end /\ index[start] > bottomRowIndex
      BY DEF below, Selected
    <3>2. ASSUME NEW x \in Rows(q.dom), Prec(q.dom, BottomFold, x)
          PROVE  x \in Kept(p) /\ index[x] > bottomRowIndex
      BY <2>1, <2>22, <3>1, <3>2 DEF Rows
    <3>3. ASSUME NEW x \in Rows(q.dom), x \in Kept(p), index[x] > bottomRowIndex
          PROVE  Prec(q.dom, BottomFold, x)
      BY <2>1, <2>23, <3>1, <3>3
    <3> QED BY <3>2, <3>3 DEF BottomDrawn
  <2>25. TopFold \in ToSet(q.dom)
    <3>1. ~Prec(f.dom, end, TopFold) /\ (below => ~Prec(f.dom, start, TopFold))
      BY <1>4, <2>1, <2>4, <2>t DEF Rows
    <3>2. TopFold \in ToSet(j.dom)
      BY <2>4, <2>7, <3>1, <2>1, <2>5 DEF Order
    <3> QED BY <2>7, <2>9, <2>16, <3>1, <3>2
  <2>26. Prec(q.dom, TopFold, BottomFold)
    <3>1. ~Prec(f.dom, BottomFold, TopFold)
      BY <1>4, <2>1, <2>4, <2>t DEF Rows
    <3>2. ~Prec(q.dom, BottomFold, TopFold)
      BY <2>17, <2>18, <2>25, <3>1
    <3>3. q.dom \in Seq(Node)
      BY <2>15 DEF Moved, Ports
    <3>4. Order(q.dom)
      BY <2>15, <3>3, PrecOrder
    <3> QED BY <1>4, <2>18, <2>25, <3>2, <3>4 DEF Order
  <2>27. TopDrawn(p, q.dom, index, topRowIndex)
    BY <1>4, <2>4, <2>17, <2>20, <2>25 DEF TopDrawn, Rows
  <2>28. Document(q.dom)
    BY <2>15, <2>18, <2>25, <2>26 DEF Document
  <2> QED BY <2>15, <2>19, <2>20, <2>21, <2>24, <2>27, <2>28 DEF q
<1> QED BY <1>5, <1>6

----------------------------------------------------------------------------
\* Between the folds.
InView(dom, x) == Prec(dom, TopFold, x) /\ Prec(dom, x, BottomFold)

\* Every row of the terminal has the number of its place.
Numbering(rows, index) == \A i \in DOMAIN rows : index[rows[i]] = i - 1

\* A row of the document with a number that the terminal has is the row of that
\* number: no row is taken for another one.
Own(dom, rows, index) ==
  \A x \in Rows(dom) : index[x] < Len(rows) => rows[index[x] + 1] = x

\* The row is one of the n rows from the top on, which are drawn.
Done(index, top, n, x) == top <= index[x] /\ index[x] < top + n

\* The n rows from the top on are between the folds.
Drawings(dom, rows, top, n) == \A k \in top .. top + n - 1 : InView(dom, rows[k + 1])

\* Between the folds, rows that are drawn come before those that are not, and
\* both are in order.
Grouped(dom, index, top, n) ==
  \A x, y \in Rows(dom) : InView(dom, x) /\ InView(dom, y) /\ Prec(dom, x, y) =>
    /\ Done(index, top, n, y) => Done(index, top, n, x)
    /\ (Done(index, top, n, x) <=> Done(index, top, n, y)) => index[x] < index[y]

\* The rows of the selection outside of the view are in order.
OutsideSorted(dom, index) ==
  \A x, y \in Rows(dom) :
    Prec(dom, x, y) /\ (Prec(dom, y, TopFold) \/ Prec(dom, BottomFold, x)) => index[x] < index[y]

\* The document while rows are drawn, when n of them are.
Shape(p, dom, rows, index, top, bottom, n) ==
  /\ Document(dom)
  /\ Kept(p) \subseteq Rows(dom)
  /\ TopDrawn(p, dom, index, top)
  /\ BottomDrawn(p, dom, index, bottom)
  /\ Own(dom, rows, index)
  /\ Drawings(dom, rows, top, n)
  /\ Grouped(dom, index, top, n)
  /\ OutsideSorted(dom, index)

\* The node that drawing has come to: the first that is not drawn yet.
Position(dom, node, index, top, n) ==
  IF node = BottomFold
  THEN \A x \in Rows(dom) : InView(dom, x) => Done(index, top, n, x)
  ELSE /\ node \in Rows(dom) /\ InView(dom, node) /\ ~Done(index, top, n, node)
       /\ \A x \in Rows(dom) :
            InView(dom, x) /\ ~Done(index, top, n, x) => x = node \/ Prec(dom, node, x)

\* y is the next node behind x.
Follows(dom, x, y) == Prec(dom, x, y) /\ \A z : Prec(dom, x, z) => z = y \/ Prec(dom, y, z)

\* The next sibling is the next node.
LEMMA NextFollows ==
  ASSUME NEW dom \in Seq(Node), Injective(dom), NEW x, NEW z, Prec(dom, x, z)
  PROVE  Follows(dom, x, NextSibling(dom, x))
BY NextFacts, Nodes DEF Follows

\* The next row was there already.
LEMMA RowPassed ==
  ASSUME NEW p, NEW rows \in Seq(Ids), NEW index \in [Ids -> Nat], NEW top \in Nat, NEW bottom \in Int,
         NEW n \in Nat, top + n < Len(rows), NEW dom \in Seq(Node),
         Shape(p, dom, rows, index, top, bottom, n),
         NEW node \in Rows(dom), index[node] = top + n, Position(dom, node, index, top, n),
         NEW next, Follows(dom, node, next)
  PROVE  /\ Shape(p, dom, rows, index, top, bottom, n + 1)
         /\ Position(dom, next, index, top, n + 1)
<1>1. Order(dom)
  BY PrecOrder DEF Shape, Document
<1>2. Rows(dom) \subseteq Ids /\ (\A x \in Rows(dom) : index[x] \in Nat) /\ node # BottomFold
  BY DEF Rows, Node, ToSet
<1>3. \A x \in Rows(dom) : Done(index, top, n + 1, x) <=> Done(index, top, n, x) \/ x = node
  BY <1>2, SMTT(30) DEF Shape, Own, Done
<1>4. InView(dom, node) /\ ~Done(index, top, n, node)
  BY <1>2 DEF Position
<1>5. \A x \in Rows(dom) :
        InView(dom, x) /\ ~Done(index, top, n, x) => x = node \/ Prec(dom, node, x)
  BY <1>2 DEF Position
<1>6. Drawings(dom, rows, top, n + 1)
  <2> SUFFICES ASSUME NEW k \in top .. top + n PROVE InView(dom, rows[k + 1])
    BY DEF Drawings
  <2>1. CASE k = top + n
    BY <1>4, <2>1 DEF Shape, Own
  <2>2. CASE k # top + n
    BY <2>2 DEF Shape, Drawings
  <2> QED BY <2>1, <2>2
<1>7. Grouped(dom, index, top, n + 1)
  <2> SUFFICES ASSUME NEW x \in Rows(dom), NEW y \in Rows(dom),
                      InView(dom, x), InView(dom, y), Prec(dom, x, y)
               PROVE  /\ Done(index, top, n + 1, y) => Done(index, top, n + 1, x)
                      /\ (Done(index, top, n + 1, x) <=> Done(index, top, n + 1, y))
                           => index[x] < index[y]
    BY DEF Grouped
  <2>1. /\ Done(index, top, n, y) => Done(index, top, n, x)
        /\ (Done(index, top, n, x) <=> Done(index, top, n, y)) => index[x] < index[y]
    BY DEF Shape, Grouped
  <2>2. x # y
    BY <1>1 DEF Order
  <2>3. CASE y = node
    <3>1. Done(index, top, n, x)
      BY <1>1, <1>5, <2>2, <2>3 DEF Order
    <3>2. index[x] < index[y]
      BY <2>3, <3>1 DEF Done
    <3> QED BY <1>3, <3>1, <3>2
  <2>4. CASE x = node
    <3>1. ~Done(index, top, n, y)
      BY <1>4, <2>1, <2>4
    <3> QED BY <1>3, <2>2, <2>4, <3>1
  <2>5. CASE x # node /\ y # node
    BY <1>3, <2>1, <2>5
  <2> QED BY <2>3, <2>4, <2>5
<1>8. Position(dom, next, index, top, n + 1)
  <2>1. next \in ToSet(dom) /\ next # node /\ next # TopFold
    BY <1>1, <1>4 DEF Follows, Order, InView
  <2>2. CASE next = BottomFold
    <3> SUFFICES ASSUME NEW x \in Rows(dom), InView(dom, x) PROVE Done(index, top, n + 1, x)
      BY <2>2 DEF Position
    <3>1. ~Prec(dom, node, x)
      BY <1>1, <2>2 DEF Follows, Order, InView, Rows
    <3> QED BY <1>3, <1>5, <3>1
  <2>3. CASE next # BottomFold
    <3>1. next \in Rows(dom)
      BY <2>1, <2>3 DEF Rows
    <3>2. InView(dom, next)
      BY <1>1, <1>4, <2>3 DEF Follows, Order, InView
    <3>3. ~Done(index, top, n, next)
      BY <1>4, <3>1, <3>2 DEF Follows, Shape, Grouped
    <3>4. ASSUME NEW x \in Rows(dom), InView(dom, x), ~Done(index, top, n + 1, x)
          PROVE  x = next \/ Prec(dom, next, x)
      BY <1>3, <1>5, <3>4 DEF Follows
    <3> QED BY <1>3, <2>1, <2>3, <3>1, <3>2, <3>3, <3>4 DEF Position
  <2> QED BY <2>2, <2>3
<1> QED BY <1>6, <1>7, <1>8 DEF Shape

\* Rows not drawn yet may go, unless the selection keeps them.
LEMMA RowsRemoved ==
  ASSUME NEW p, NEW rows, NEW index, NEW top, NEW bottom, NEW n,
         NEW dom \in Seq(Node), NEW left \in Seq(Node), NEW gone,
         Shape(p, dom, rows, index, top, bottom, n), Remains(left, dom, gone),
         gone \cap Kept(p) = {}, gone \subseteq Rows(dom),
         \A k \in top .. top + n - 1 : rows[k + 1] \notin gone
  PROVE  Shape(p, left, rows, index, top, bottom, n)
<1>1. Rows(left) = Rows(dom) \ gone
  BY DEF Remains, Rows
<1>2. TopFold \notin gone /\ BottomFold \notin gone
  BY DEF Rows
<1>3. Document(left)
  BY <1>2 DEF Shape, Document, Remains
<1>4. Kept(p) \subseteq Rows(left)
  BY <1>1 DEF Shape
<1>5. TopDrawn(p, left, index, top)
  BY <1>1, <1>2 DEF Shape, TopDrawn, Remains
<1>6. BottomDrawn(p, left, index, bottom)
  BY <1>1, <1>2 DEF Shape, BottomDrawn, Remains
<1>7. Own(left, rows, index)
  BY <1>1 DEF Shape, Own
<1>8. Drawings(left, rows, top, n)
  BY <1>2 DEF Shape, Drawings, InView, Remains
<1>9. Grouped(left, index, top, n)
  <2>1. \A x : InView(left, x) => InView(dom, x)
    BY DEF InView, Remains
  <2> QED BY <1>1, <2>1 DEF Shape, Grouped, Remains
<1>10. OutsideSorted(left, index)
  BY <1>1 DEF Shape, OutsideSorted, Remains
<1> QED BY <1>3, <1>4, <1>5, <1>6, <1>7, <1>8, <1>9, <1>10 DEF Shape

\* The next row is put in its place.
LEMMA RowInserted ==
  ASSUME NEW p, NEW rows \in Seq(Ids), NEW index \in [Ids -> Nat], NEW top \in Nat, NEW bottom \in Int,
         NEW n \in Nat, top + n < Len(rows), top + n <= bottom,
         NEW dom \in Seq(Node), NEW left \in Seq(Node),
         Shape(p, dom, rows, index, top, bottom, n),
         NEW node, Position(dom, node, index, top, n),
         node = BottomFold \/ index[node] # top + n,
         NEW row, row = rows[top + n + 1], index[row] = top + n,
         Inserted(left, dom, row, node)
  PROVE  /\ Shape(p, left, rows, index, top, bottom, n + 1)
         /\ Position(left, node, index, top, n + 1)
<1>1. Order(dom) /\ Order(left)
  BY PrecOrder DEF Shape, Document, Inserted
<1>2. /\ row \in Ids /\ row \notin {TopFold, BottomFold, Null} /\ node # Null /\ row # node
      /\ TopFold # BottomFold
  <2>1. row \in Ids
    OBVIOUS
  <2>2. node # Null /\ row # node
    BY <2>1, Nodes DEF Position, Rows, Node, ToSet
  <2> QED BY <2>1, <2>2, Nodes DEF Node
<1>3. /\ Rows(dom) \subseteq Ids /\ Rows(left) = Rows(dom) \cup {row}
      /\ \A x \in Ids : index[x] \in Nat
  <2>1. ToSet(left) = ToSet(dom) \cup {row}
    BY DEF Inserted
  <2>2. ToSet(dom) \subseteq Node
    BY DEF ToSet
  <2> QED BY <1>2, <2>1, <2>2 DEF Rows, Node
<1>4. \A x \in Rows(dom) : x # row => (Done(index, top, n + 1, x) <=> Done(index, top, n, x))
  BY <1>3, SMTT(30) DEF Shape, Own, Done
<1>5. Done(index, top, n + 1, row)
  BY DEF Done
<1>6. {TopFold, BottomFold} \subseteq ToSet(dom) /\ Prec(dom, TopFold, BottomFold)
  BY DEF Shape, Document
<1>7. Prec(dom, TopFold, node) /\ ~Prec(dom, BottomFold, node)
  BY <1>1, <1>6 DEF Position, InView, Order
<1>8. \A x \in Rows(dom) : InView(dom, x) /\ Prec(dom, x, node) => Done(index, top, n, x)
  BY <1>1 DEF Position, Order
<1>9. \A y \in Rows(dom) : InView(dom, y) /\ ~Prec(dom, y, node) => ~Done(index, top, n, y)
  <2> SUFFICES ASSUME NEW y \in Rows(dom), InView(dom, y), ~Prec(dom, y, node), y # node
               PROVE  ~Done(index, top, n, y)
    BY DEF Position, Rows
  <2>1. node \in ToSet(dom)
    BY <1>6 DEF Position, Rows
  <2>2. Prec(dom, node, y)
    BY <1>1, <2>1 DEF Order, Rows
  <2>3. node # BottomFold
    BY <1>1, <2>2 DEF InView, Order
  <2> QED BY <2>2, <2>3 DEF Position, Shape, Grouped
<1>10. /\ \A x, y : x # row /\ y # row => (Prec(left, x, y) <=> Prec(dom, x, y))
       /\ \A x : Prec(left, x, row) <=> x \in ToSet(dom) \ {row} /\ Prec(dom, x, node)
       /\ \A y : Prec(left, row, y) <=> y \in ToSet(dom) \ {row} /\ ~Prec(dom, y, node)
       /\ ToSet(left) = ToSet(dom) \cup {row} /\ Injective(left)
  BY <1>2 DEF Inserted
<1>11. InView(left, row) /\ \A x : x # row => (InView(left, x) <=> InView(dom, x))
  BY <1>2, <1>6, <1>7, <1>10 DEF InView
<1>12. Document(left)
  BY <1>2, <1>6, <1>10 DEF Document
<1>13. Kept(p) \subseteq Rows(left)
  BY <1>3 DEF Shape
<1>14. TopDrawn(p, left, index, top)
  <2>1. ~Prec(left, row, TopFold)
    BY <1>1, <1>11 DEF InView, Order
  <2>2. ~(index[row] < top)
    BY <1>2
  <2> QED BY <1>2, <1>3, <1>10, <2>1, <2>2 DEF Shape, TopDrawn
<1>15. BottomDrawn(p, left, index, bottom)
  <2>1. ~Prec(left, BottomFold, row)
    BY <1>1, <1>11 DEF InView, Order
  <2>2. ~(index[row] > bottom)
    BY <1>2
  <2> QED BY <1>2, <1>3, <1>10, <2>1, <2>2 DEF Shape, BottomDrawn
<1>16. Own(left, rows, index)
  BY <1>3 DEF Shape, Own
<1>17. Drawings(left, rows, top, n + 1)
  <2> SUFFICES ASSUME NEW k \in top .. top + n PROVE InView(left, rows[k + 1])
    BY DEF Drawings
  <2>1. CASE k = top + n
    BY <1>11, <2>1
  <2>2. CASE k # top + n
    <3>1. k \in top .. top + n - 1
      BY <2>2
    <3>2. InView(dom, rows[k + 1])
      BY <3>1 DEF Shape, Drawings
    <3> QED BY <1>11, <3>2
  <2> QED BY <2>1, <2>2
<1>18. Grouped(left, index, top, n + 1)
  <2> SUFFICES ASSUME NEW x \in Rows(left), NEW y \in Rows(left),
                      InView(left, x), InView(left, y), Prec(left, x, y)
               PROVE  /\ Done(index, top, n + 1, y) => Done(index, top, n + 1, x)
                      /\ (Done(index, top, n + 1, x) <=> Done(index, top, n + 1, y))
                           => index[x] < index[y]
    BY DEF Grouped
  <2>2. x # y
    BY <1>1 DEF Order
  <2>3. CASE y = row
    <3>1. x \in Rows(dom) /\ InView(dom, x) /\ Prec(dom, x, node)
      BY <1>3, <1>10, <1>11, <2>2, <2>3
    <3>2. Done(index, top, n, x)
      BY <1>8, <3>1
    <3>3. index[x] < index[y]
      BY <2>3, <3>2 DEF Done
    <3> QED BY <1>4, <2>2, <2>3, <3>1, <3>2, <3>3
  <2>4. CASE x = row
    <3>1. y \in Rows(dom) /\ InView(dom, y) /\ ~Prec(dom, y, node)
      BY <1>3, <1>10, <1>11, <2>2, <2>4
    <3>2. ~Done(index, top, n, y)
      BY <1>9, <3>1
    <3> QED BY <1>4, <1>5, <2>2, <2>4, <3>1, <3>2
  <2>5. CASE x # row /\ y # row
    <3>1. x \in Rows(dom) /\ y \in Rows(dom) /\ InView(dom, x) /\ InView(dom, y) /\ Prec(dom, x, y)
      BY <1>3, <1>10, <1>11, <2>5
    <3> QED BY <1>4, <2>5, <3>1 DEF Shape, Grouped
  <2> QED BY <2>3, <2>4, <2>5
<1>19. OutsideSorted(left, index)
  <2> SUFFICES ASSUME NEW x \in Rows(left), NEW y \in Rows(left), Prec(left, x, y),
                      Prec(left, y, TopFold) \/ Prec(left, BottomFold, x)
               PROVE  index[x] < index[y]
    BY DEF OutsideSorted
  <2>1. x # row /\ y # row
    BY <1>1, <1>11 DEF InView, Order
  <2> QED BY <1>2, <1>3, <1>10, <2>1 DEF Shape, OutsideSorted
<1>20. Position(left, node, index, top, n + 1)
  <2>1. CASE node = BottomFold
    <3> SUFFICES ASSUME NEW x \in Rows(left), InView(left, x) PROVE Done(index, top, n + 1, x)
      BY <2>1 DEF Position
    <3> QED BY <1>3, <1>4, <1>5, <1>11, <2>1 DEF Position
  <2>2. CASE node # BottomFold
    <3>1. node \in Rows(left) /\ InView(left, node) /\ ~Done(index, top, n + 1, node)
      BY <1>2, <1>3, <1>4, <1>11, <2>2 DEF Position
    <3>2. ASSUME NEW x \in Rows(left), InView(left, x), ~Done(index, top, n + 1, x)
          PROVE  x = node \/ Prec(left, node, x)
      BY <1>2, <1>3, <1>4, <1>5, <1>10, <1>11, <2>2, <3>2 DEF Position
    <3> QED BY <2>2, <3>1, <3>2 DEF Position
  <2> QED BY <2>1, <2>2
<1> QED BY <1>12, <1>13, <1>14, <1>15, <1>16, <1>17, <1>18, <1>19, <1>20 DEF Shape

\* The node that was in the place of the next row goes.
LEMMA RowReplaced ==
  ASSUME NEW p, NEW rows \in Seq(Ids), NEW index \in [Ids -> Nat], NEW top \in Nat, NEW bottom \in Int,
         NEW n \in Nat, top + n < Len(rows), top + n <= bottom, Numbering(rows, index),
         NEW dom \in Seq(Node), NEW between \in Seq(Node), NEW left \in Seq(Node),
         Shape(p, dom, rows, index, top, bottom, n),
         NEW node \in Rows(dom), Position(dom, node, index, top, n),
         index[node] # top + n, node \notin Kept(p),
         NEW row, row = rows[top + n + 1],
         Inserted(between, dom, row, node), Remains(left, between, {node}),
         NEW next, Follows(left, row, next)
  PROVE  /\ Shape(p, left, rows, index, top, bottom, n + 1)
         /\ Position(left, next, index, top, n + 1)
<1>1. /\ top + n + 1 \in DOMAIN rows /\ index[row] = top + n
      /\ \A k \in top .. top + n : index[rows[k + 1]] = k
  BY SMTT(30) DEF Numbering
<1>2. /\ Shape(p, between, rows, index, top, bottom, n + 1)
      /\ Position(between, node, index, top, n + 1)
  BY <1>1, RowInserted
<1>3. node # BottomFold /\ node # TopFold /\ node # row
  BY <1>1 DEF Rows
<1>4. node \in Rows(between) /\ InView(between, node) /\ ~Done(index, top, n + 1, node)
  BY <1>2, <1>3 DEF Position
<1>5. \A k \in top .. top + n : rows[k + 1] # node
  <2> SUFFICES ASSUME NEW k \in top .. top + n, rows[k + 1] = node PROVE FALSE
    OBVIOUS
  <2>1. index[node] = k
    BY <1>1
  <2> QED BY <1>4, <2>1 DEF Done
<1>6. Shape(p, left, rows, index, top, bottom, n + 1)
  <2>1. {node} \cap Kept(p) = {} /\ {node} \subseteq Rows(between)
    BY <1>4
  <2>2. \A k \in top .. top + (n + 1) - 1 : rows[k + 1] \notin {node}
    BY <1>5
  <2> QED BY <1>2, <2>1, <2>2, RowsRemoved
<1>7. Order(left) /\ Order(between) /\ Order(dom)
  BY <1>2, <1>6, PrecOrder DEF Shape, Document
<1>8. InView(left, row)
  <2>1. top + n \in top .. top + (n + 1) - 1
    OBVIOUS
  <2> QED BY <1>6, <2>1 DEF Shape, Drawings
<1>9. Rows(left) = Rows(between) \ {node} /\ \A x : InView(left, x) => InView(between, x)
  BY <1>3 DEF Remains, Rows, InView
<1>10. /\ \A x : Prec(between, row, x) /\ x # node => Prec(between, node, x)
       /\ Prec(between, row, node)
  <2>1. \A x : Prec(between, row, x) => x \in ToSet(dom) \ {row} /\ ~Prec(dom, x, node)
    BY DEF Inserted
  <2>2. node \in ToSet(dom)
    BY DEF Rows
  <2>3. \A x : Prec(between, row, x) /\ x # node => Prec(dom, node, x) /\ x # row
    BY <1>7, <2>1, <2>2 DEF Order
  <2>4. node # Null /\ ~Prec(dom, node, node)
    BY <1>7, <2>2, Nodes DEF Order, ToSet
  <2> QED BY <1>3, <2>2, <2>3, <2>4 DEF Inserted
<1>11. Prec(left, row, next) /\ \A z : Prec(left, row, z) => z = next \/ Prec(left, next, z)
  BY DEF Follows
<1>12. ASSUME NEW x \in Rows(left), InView(left, x), ~Done(index, top, n + 1, x)
       PROVE  x = next \/ Prec(left, next, x)
  <2>1. x \in Rows(between) /\ InView(between, x) /\ x # node
    BY <1>9, <1>12
  <2>2. Prec(between, node, x)
    BY <1>2, <1>3, <1>12, <2>1 DEF Position
  <2>3. Prec(between, row, x)
    BY <1>7, <1>10, <2>2 DEF Order
  <2>4. Prec(left, row, x)
    BY <1>3, <2>1, <2>3 DEF Remains
  <2> QED BY <1>11, <2>4
<1>13. Position(left, next, index, top, n + 1)
  <2>1. CASE next = BottomFold
    <3> SUFFICES ASSUME NEW x \in Rows(left), InView(left, x) PROVE Done(index, top, n + 1, x)
      BY <2>1 DEF Position
    <3>1. x # next /\ ~Prec(left, next, x)
      BY <1>7, <2>1 DEF InView, Order
    <3> QED BY <1>12, <3>1
  <2>2. CASE next # BottomFold
    <3>1. next \in ToSet(left) /\ next # TopFold
      BY <1>7, <1>8, <1>11 DEF InView, Order
    <3>2. InView(left, next)
      BY <1>7, <1>8, <1>11, <2>2 DEF InView, Order
    <3>3. next \in Rows(left)
      BY <2>2, <3>1 DEF Rows
    <3>4. Prec(between, row, next) /\ next # node
      BY <1>11 DEF Remains
    <3>5. Prec(between, node, next) /\ next \in Rows(between) /\ InView(between, next)
      BY <1>9, <1>10, <3>2, <3>3, <3>4
    <3>6. ~Done(index, top, n + 1, next)
      BY <1>2, <1>4, <3>5 DEF Shape, Grouped
    <3> QED BY <1>12, <2>2, <3>2, <3>3, <3>6 DEF Position
  <2> QED BY <2>1, <2>2
<1> QED BY <1>6, <1>13

\* The nodes from one up to another.
Between(dom, gone, node, target) ==
  \A x : x \in gone <=> x \in ToSet(dom) /\ (x = node \/ Prec(dom, node, x)) /\ Prec(dom, x, target)

\* Nodes that drawing may remove: rows that the selection does not keep.
Removable(p, dom, gone) == gone \cap Kept(p) = {} /\ gone \subseteq Rows(dom)

\* The next row is one the selection is in: what is in the way goes.
LEMMA RowReached ==
  ASSUME NEW p, NEW rows \in Seq(Ids), NEW index \in [Ids -> Nat], NEW top \in Nat, NEW bottom \in Int,
         NEW n \in Nat, top + n < Len(rows), top + n <= bottom, Numbering(rows, index),
         NEW dom \in Seq(Node), NEW left \in Seq(Node),
         Shape(p, dom, rows, index, top, bottom, n),
         NEW node \in Rows(dom), Position(dom, node, index, top, n),
         index[node] # top + n,
         NEW target \in Kept(p), index[target] = top + n, NEW next, Follows(dom, target, next),
         NEW gone, Between(dom, gone, node, target)
  PROVE  /\ Removable(p, dom, gone) /\ Prec(dom, node, target)
         /\ Remains(left, dom, gone) => /\ Shape(p, left, rows, index, top, bottom, n + 1)
                                        /\ Position(left, next, index, top, n + 1)
<1>1. Order(dom) /\ Rows(dom) \subseteq Ids /\ \A x \in Ids : index[x] \in Nat
  BY PrecOrder DEF Shape, Document, Rows, Node, ToSet
<1>2. node # BottomFold /\ InView(dom, node) /\ ~Done(index, top, n, node)
  BY DEF Position, Rows
<1>3. target \in Rows(dom) /\ target # node
  BY DEF Shape
<1>4. \A x \in Rows(dom) : x \in Kept(p) /\ InView(dom, x) => top <= index[x]
  BY <1>1 DEF Shape, TopDrawn, InView, Order
<1>5. InView(dom, target)
  <2>1. ~Prec(dom, target, TopFold) /\ ~Prec(dom, BottomFold, target)
    BY <1>3 DEF Shape, TopDrawn, BottomDrawn
  <2>2. {TopFold, BottomFold} \subseteq ToSet(dom)
    BY DEF Shape, Document
  <2> QED BY <1>1, <1>3, <2>1, <2>2 DEF InView, Order, Rows
<1>6. ~Done(index, top, n, target)
  BY DEF Done
<1>7. Prec(dom, node, target)
  BY <1>2, <1>3, <1>5, <1>6 DEF Position
<1>8. \A x \in gone : InView(dom, x) /\ x \in ToSet(dom)
  BY <1>1, <1>2, <1>5 DEF InView, Order, Between
<1>9. gone \subseteq Rows(dom)
  BY <1>1, <1>8 DEF Rows, InView, Order
<1>10. \A x \in gone : ~Done(index, top, n, x)
  BY <1>2, <1>8, <1>9 DEF Shape, Grouped, Between
<1>11. gone \cap Kept(p) = {}
  <2> SUFFICES ASSUME NEW x \in gone, x \in Kept(p) PROVE FALSE
    OBVIOUS
  <2>1. index[x] < index[target]
    BY <1>3, <1>5, <1>6, <1>8, <1>9, <1>10 DEF Shape, Grouped, Between
  <2> QED BY <1>4, <1>8, <1>9, <1>10, <2>1 DEF Done
<1>12. ASSUME Remains(left, dom, gone)
       PROVE  /\ Shape(p, left, rows, index, top, bottom, n + 1)
              /\ Position(left, next, index, top, n + 1)
  <2>1. \A k \in top .. top + n - 1 : rows[k + 1] \notin gone
    <3> SUFFICES ASSUME NEW k \in top .. top + n - 1 PROVE Done(index, top, n, rows[k + 1])
      BY <1>10
    <3>1. k + 1 \in DOMAIN rows /\ (k + 1) - 1 = k
      OBVIOUS
    <3>2. index[rows[k + 1]] = k
      BY <3>1 DEF Numbering
    <3> QED BY <3>2 DEF Done
  <2>2. Shape(p, left, rows, index, top, bottom, n)
    BY <1>9, <1>11, <1>12, <2>1, RowsRemoved
  <2>3. target \notin gone /\ target \in Rows(left)
    BY <1>1, <1>3, <1>12 DEF Order, Remains, Rows, Between
  <2>4. TopFold \notin gone /\ BottomFold \notin gone
    BY <1>9 DEF Rows
  <2>5. Position(left, target, index, top, n)
    <3>1. InView(left, target)
      BY <1>5, <1>12, <2>3, <2>4 DEF InView, Remains
    <3>2. ASSUME NEW x \in Rows(left), InView(left, x), ~Done(index, top, n, x)
          PROVE  x = target \/ Prec(left, target, x)
      <4>1. x \in Rows(dom) /\ InView(dom, x) /\ x \notin gone
        BY <1>12, <3>2 DEF Remains, Rows, InView
      <4>2. x = node \/ Prec(dom, node, x)
        BY <1>2, <3>2, <4>1 DEF Position
      <4>3. ~Prec(dom, x, target)
        BY <4>1, <4>2 DEF Rows, Between
      <4>4. x = target \/ Prec(dom, target, x)
        BY <1>1, <1>3, <4>1, <4>3 DEF Order, Rows
      <4> QED BY <1>12, <2>3, <4>1, <4>4 DEF Remains
    <3>3. target # BottomFold
      BY <1>3 DEF Rows
    <3> QED BY <1>6, <2>3, <3>1, <3>2, <3>3 DEF Position
  <2>6. Follows(left, target, next)
    BY <1>1, <1>12, <2>3 DEF Follows, Remains, Order, Between
  <2> QED BY <2>2, <2>3, <2>5, <2>6, RowPassed
<1> QED BY <1>7, <1>9, <1>11, <1>12 DEF Removable

\* The caches there are, of rows by their numbers.
Caches == UNION {[S -> Ids] : S \in SUBSET Nat}

\* The cache has rows of the terminal, at their places.
Fetches(cache, rows) == \A i \in DOMAIN cache : i < Len(rows) => cache[i] = rows[i + 1]

\* The cache with one more row.
OneMore(larger, cache, i, row) ==
  /\ larger \in Caches
  /\ DOMAIN larger = DOMAIN cache \cup {i}
  /\ larger[i] = row
  /\ \A j \in DOMAIN cache : j # i => larger[j] = cache[j]

\* What caching a row makes of the cache (fetchRowNode_).
LEMMA RowCached ==
  ASSUME NEW cache \in Caches, NEW i \in Nat, NEW row \in Ids
  PROVE  OneMore(Cached(cache, i, row), cache, i, row)
<1>1. PICK S \in SUBSET Nat : cache \in [S -> Ids]
  BY DEF Caches
<1>2. DOMAIN cache = S /\ \A j \in S : cache[j] \in Ids
  BY <1>1
<1> DEFINE c == [j \in S \cup {i} |-> IF j = i THEN row ELSE cache[j]]
<1>3. c \in [S \cup {i} -> Ids]
  BY <1>2
<1>4. S \cup {i} \in SUBSET Nat
  OBVIOUS
<1>5. Cached(cache, i, row) = c
  BY <1>2 DEF Cached
<1>6. OneMore(c, cache, i, row)
  BY <1>2, <1>3, <1>4 DEF Caches, OneMore
<1> HIDE DEF c
<1> QED BY <1>5, <1>6

\* The states of drawing.
Drawing == [port : Ports, node : Node \cup {Null}, fetched : Caches, missing : BOOLEAN]

\* How far drawing has come: n rows are drawn, and it has come to d.node.
Progress(p, d, rows, index, top, bottom, n) ==
  /\ d \in Drawing /\ ~d.missing
  /\ Moved(p, d.port, Kept(p))
  /\ Shape(p, d.port.dom, rows, index, top, bottom, n)
  /\ Position(d.port.dom, d.node, index, top, n)
  /\ DOMAIN d.fetched \subseteq top .. top + n - 1
  /\ Fetches(d.fetched, rows)

\* One step of drawVisibleRows_, in each of its cases: the next row is passed, put
\* in, put in the place of a node, or reached by removing what is before it.
LEMMA RowDrawn ==
  ASSUME NEW p \in Ports, ~p.failed, NEW rows \in Seq(Ids), NEW index \in [Ids -> Nat],
         NEW top \in Nat, NEW bottom \in Int, NEW n \in Nat, top + n < Len(rows), top + n <= bottom,
         Numbering(rows, index), Fetches(p.cache, rows), NEW caching \in BOOLEAN,
         NEW d, Progress(p, d, rows, index, top, bottom, n)
  PROVE  Progress(p, DrawRow(d, rows, index, top + n, caching), rows, index, top, bottom, n + 1)
<1> DEFINE here == d.port
           node == d.node
           row == rows[top + n + 1]
           after == DrawRow(d, rows, index, top + n, caching)
           cached == IF caching THEN [d EXCEPT !.fetched = Cached(@, index[row], row)] ELSE d
           Insert == InsertBefore(here, row, node)
           Replace == RemoveNodes(Insert, {node})
           selected == {r \in {here.startRow, here.endRow} : r # Null /\ index[r] = top + n}
           target == IF here.startRow \in selected THEN here.startRow ELSE here.endRow
<1>1. /\ d \in Drawing /\ ~d.missing /\ Moved(p, here, Kept(p))
      /\ Shape(p, here.dom, rows, index, top, bottom, n)
      /\ Position(here.dom, node, index, top, n)
      /\ DOMAIN d.fetched \subseteq top .. top + n - 1 /\ Fetches(d.fetched, rows)
  BY DEF Progress
<1>2. /\ here \in Ports /\ here.dom \in Seq(Node) /\ Injective(here.dom) /\ Order(here.dom)
      /\ d.fetched \in Caches
      /\ here.cache = p.cache /\ ~here.failed /\ Kept(here) = Kept(p)
      /\ here.startRow = p.startRow /\ here.endRow = p.endRow
  BY <1>1, PrecOrder DEF Drawing, Moved, SameSettings, Ports, Shape, Document, Kept
<1>3. row \in Ids /\ index[row] = top + n /\ row # Null /\ row \in Node /\ top + n \in Nat
  <2>1. top + n + 1 \in DOMAIN rows /\ (top + n + 1) - 1 = top + n
    OBVIOUS
  <2>2. row \in Ids /\ index[row] = top + n
    BY <2>1 DEF Numbering
  <2> QED BY <2>2, Nodes DEF Node
<1>4. fetchRowNode_(here.cache, rows, top + n) = row
  <2>1. CASE top + n \in DOMAIN here.cache
    BY <1>2, <2>1 DEF fetchRowNode_, Fetches
  <2>2. CASE top + n \notin DOMAIN here.cache
    <3>1. top + n \in 0 .. Len(rows) - 1
      OBVIOUS
    <3> QED BY <2>2, <3>1 DEF fetchRowNode_
  <2> QED BY <2>1, <2>2
<1>5. /\ cached \in Drawing /\ cached.port = here /\ cached.node = node /\ ~cached.missing
      /\ DOMAIN cached.fetched \subseteq top .. top + (n + 1) - 1 /\ Fetches(cached.fetched, rows)
  <2>1. CASE caching
    <3> DEFINE c == Cached(d.fetched, top + n, row)
    <3>1. cached = [d EXCEPT !.fetched = c]
      BY <1>3, <2>1
    <3>2. OneMore(c, d.fetched, top + n, row)
      BY <1>2, <1>3, RowCached
    <3> HIDE DEF c, row
    <3>3. Fetches(c, rows)
      BY <1>1, <3>2 DEF Fetches, row, OneMore
    <3>4. DOMAIN c \subseteq top .. top + (n + 1) - 1
      BY <1>1, <3>2 DEF OneMore
    <3>5. /\ cached \in Drawing /\ cached.port = here /\ cached.node = node
          /\ cached.missing = d.missing /\ cached.fetched = c
      BY <1>1, <3>1, <3>2 DEF Drawing, OneMore
    <3> HIDE DEF cached
    <3> QED BY <1>1, <3>3, <3>4, <3>5
  <2>2. CASE ~caching
    <3>1. DOMAIN d.fetched \subseteq top .. top + (n + 1) - 1
      BY <1>1
    <3> QED BY <1>1, <2>2, <3>1
  <2> QED BY <2>1, <2>2
<1>6. node # Null /\ node # TopFold
  BY <1>1, <1>2, Nodes DEF Position, Rows, Node, ToSet
<1>7. node # BottomFold => node \in Rows(here.dom)
  BY <1>1 DEF Position
<1> HIDE DEF row, cached
<1>8. CASE node # BottomFold /\ index[node] = top + n
  <2> DEFINE next == NextSibling(here.dom, node)
  <2>1. after = [d EXCEPT !.node = next]
    BY <1>1, <1>2, <1>6, <1>8 DEF DrawRow
  <2>2. Prec(here.dom, node, BottomFold)
    BY <1>1, <1>8 DEF Position, InView
  <2>3. Follows(here.dom, node, next)
    BY <1>2, <2>2, NextFollows
  <2> HIDE DEF next
  <2>4. next \in Node
    BY <1>2, <2>3 DEF Follows, Order, ToSet
  <2>5. /\ Shape(p, here.dom, rows, index, top, bottom, n + 1)
        /\ Position(here.dom, next, index, top, n + 1)
    BY <1>1, <1>2, <1>7, <1>8, <2>3, RowPassed
  <2>6. /\ after \in Drawing /\ ~after.missing /\ after.port = here /\ after.node = next
        /\ after.fetched = d.fetched
    BY <1>1, <2>1, <2>4 DEF Drawing
  <2>7. DOMAIN d.fetched \subseteq top .. top + (n + 1) - 1
    BY <1>1
  <2> HIDE DEF after
  <2> QED BY <1>1, <2>5, <2>6, <2>7 DEF Progress, after
<1>9. CASE node # BottomFold /\ index[node] # top + n /\ selected # {}
  <2> DEFINE next == NextSibling(here.dom, target)
             gone == ({node} \cup After(here.dom, node)) \cap Before(here.dom, target)
             moved == removeUntilNode(here, node, target)
  <2>1. after = [d EXCEPT !.port = moved, !.node = next]
    BY <1>1, <1>2, <1>6, <1>9 DEF DrawRow
  <2>2. target \in Kept(p) /\ index[target] = top + n
    BY <1>2, <1>9 DEF Kept
  <2> HIDE DEF target
  <2>3. target \in ToSet(here.dom) /\ target \in Rows(here.dom)
    BY <1>1, <2>2 DEF Shape, Rows
  <2>4. Prec(here.dom, target, BottomFold)
    <3>1. ~Prec(here.dom, BottomFold, target)
      BY <1>1, <2>2, <2>3 DEF Shape, BottomDrawn
    <3> QED BY <1>1, <1>2, <2>3, <3>1 DEF Shape, Document, Order, Rows
  <2>5. Follows(here.dom, target, next)
    BY <1>2, <2>4, NextFollows
  <2> HIDE DEF next
  <2>6. next \in Node
    BY <1>2, <2>5 DEF Follows, Order, ToSet
  <2>7. /\ \A x : x \in After(here.dom, node) <=> Prec(here.dom, node, x)
        /\ \A x : x \in Before(here.dom, target) <=> Prec(here.dom, x, target)
    BY <1>2, <1>7, <1>9, <2>3, BeforeFacts DEF Rows
  <2>8. Between(here.dom, gone, node, target)
    BY <1>2, <2>7 DEF Order, Between
  <2>9. /\ Removable(p, here.dom, gone) /\ Prec(here.dom, node, target)
        /\ \A left \in Seq(Node) :
             Remains(left, here.dom, gone) => /\ Shape(p, left, rows, index, top, bottom, n + 1)
                                              /\ Position(left, next, index, top, n + 1)
    <3> HIDE DEF gone
    <3>1. node \in Rows(here.dom)
      BY <1>7, <1>9
    <3>2. Removable(p, here.dom, gone) /\ Prec(here.dom, node, target)
      BY <1>1, <1>2, <1>9, <2>2, <2>5, <2>8, <3>1, RowReached
    <3>3. ASSUME NEW left \in Seq(Node), Remains(left, here.dom, gone)
          PROVE  /\ Shape(p, left, rows, index, top, bottom, n + 1)
                 /\ Position(left, next, index, top, n + 1)
      BY <1>1, <1>2, <1>9, <2>2, <2>5, <2>8, <3>1, <3>3, RowReached
    <3> QED BY <3>2, <3>3
  <2>10. moved = RemoveNodes(here, gone)
    <3>1. node # target
      BY <1>2, <2>9 DEF Order
    <3>2. BottomFold \notin gone
      BY <2>9 DEF Rows, Removable
    <3>3. target \in After(here.dom, node)
      BY <2>7, <2>9
    <3> QED BY <1>6, <2>3, <3>1, <3>2, <3>3 DEF removeUntilNode
  <2> HIDE DEF moved, gone
  <2>11. Moved(here, moved, Kept(p)) /\ Remains(moved.dom, here.dom, gone)
    BY <1>2, <2>9, <2>10, RemoveMoved DEF Removable
  <2>12. Moved(p, moved, Kept(p)) /\ moved \in Ports /\ moved.dom \in Seq(Node)
    BY <1>1, <2>11, MovedTwice, ZenonT(40) DEF Moved, Ports
  <2>13. /\ after \in Drawing /\ ~after.missing /\ after.port = moved /\ after.node = next
         /\ after.fetched = d.fetched
    BY <1>1, <2>1, <2>6, <2>12 DEF Drawing
  <2>14. DOMAIN d.fetched \subseteq top .. top + (n + 1) - 1
    BY <1>1
  <2> HIDE DEF after
  <2> QED BY <1>1, <2>9, <2>11, <2>12, <2>13, <2>14 DEF Progress, after
<1>10. ASSUME node = BottomFold \/ (index[node] # top + n /\ selected = {})
       PROVE  row \notin Kept(p) /\ row # node
  <2>1. row # node
    BY <1>3, <1>10, Nodes
  <2>2. ASSUME row \in Kept(p) PROVE FALSE
    <3>1. selected # {}
      BY <1>2, <1>3, <2>2 DEF Kept
    <3>2. row \in Rows(here.dom) /\ ~Done(index, top, n, row)
      BY <1>1, <1>3, <2>2 DEF Shape, Done
    <3>3. ~Prec(here.dom, row, TopFold) /\ ~Prec(here.dom, BottomFold, row)
      BY <1>1, <1>3, <2>2, <3>2 DEF Shape, TopDrawn, BottomDrawn
    <3>4. InView(here.dom, row)
      BY <1>1, <1>2, <3>2, <3>3 DEF Shape, Document, InView, Order, Rows
    <3> QED BY <1>1, <1>10, <3>1, <3>2, <3>4 DEF Position
  <2> QED BY <2>1, <2>2
<1>11. ASSUME node = BottomFold \/ (index[node] # top + n /\ selected = {})
       PROVE  /\ Moved(p, Insert, Kept(p)) /\ Insert \in Ports /\ Insert.dom \in Seq(Node)
              /\ Inserted(Insert.dom, here.dom, row, node)
  <2>1. row \notin Kept(p) /\ row # node
    BY <1>10, <1>11
  <2>2. node \in ToSet(here.dom) \ {row}
    BY <1>1, <1>7, <2>1 DEF Rows, Shape, Document
  <2>3. Moved(here, Insert, Kept(p)) /\ Inserted(Insert.dom, here.dom, row, node)
    BY <1>2, <1>3, <2>1, <2>2, InsertMoved
  <2> HIDE DEF Insert
  <2> QED BY <1>1, <2>3, MovedTwice, ZenonT(40) DEF Moved, Ports
<1>12. CASE /\ node = BottomFold \/ (index[node] # top + n /\ selected = {})
            /\ node \in {BottomFold, here.startRow, here.endRow}
  <2>1. after = [cached EXCEPT !.port = Insert]
    <3>1. CASE node = BottomFold
      <4>1. /\ node \in {BottomFold, here.startRow, here.endRow} /\ ~(node \notin {BottomFold, Null})
            /\ ~d.missing /\ ~here.failed /\ node # Null /\ row # Null /\ row # node
        BY <1>1, <1>2, <1>3, <1>6, <1>10, <3>1
      <4> QED BY <1>4, <4>1 DEF DrawRow, cached
    <3>2. CASE node # BottomFold
      <4>1. index[node] # top + n /\ selected = {} /\ node \in {here.startRow, here.endRow}
        BY <1>12, <3>2
      <4> QED BY <1>1, <1>2, <1>3, <1>4, <1>6, <3>2, <4>1 DEF DrawRow, cached
    <3> QED BY <3>1, <3>2
  <2>2. node = BottomFold \/ index[node] # top + n
    BY <1>12
  <2>3. /\ Moved(p, Insert, Kept(p)) /\ Insert \in Ports /\ Insert.dom \in Seq(Node)
        /\ Inserted(Insert.dom, here.dom, row, node)
    BY <1>11, <1>12
  <2> HIDE DEF Insert
  <2>4. /\ Shape(p, Insert.dom, rows, index, top, bottom, n + 1)
        /\ Position(Insert.dom, node, index, top, n + 1)
    BY <1>1, <1>2, <1>3, <2>2, <2>3, RowInserted DEF row
  <2>5. /\ after \in Drawing /\ ~after.missing /\ after.port = Insert /\ after.node = node
        /\ after.fetched = cached.fetched
    BY <1>5, <2>1, <2>3 DEF Drawing
  <2> HIDE DEF after
  <2> QED BY <1>5, <2>3, <2>4, <2>5 DEF Progress, after
<1>13. CASE /\ index[node] # top + n /\ selected = {}
            /\ node \notin {BottomFold, here.startRow, here.endRow}
  <2> DEFINE next == NextSibling(Replace.dom, row)
  <2>1. after = [cached EXCEPT !.port = Replace, !.node = next]
    <3>1. node # row
      BY <1>10, <1>13
    <3> QED BY <1>1, <1>2, <1>3, <1>4, <1>6, <1>13, <3>1 DEF DrawRow, cached
  <2>2. /\ Moved(p, Insert, Kept(p)) /\ Insert \in Ports /\ Insert.dom \in Seq(Node)
        /\ Inserted(Insert.dom, here.dom, row, node)
    BY <1>11, <1>13
  <2>3. node \in Rows(here.dom) /\ node \notin Kept(p) /\ row # node
    BY <1>2, <1>7, <1>10, <1>13 DEF Kept
  <2> HIDE DEF Insert
  <2>4. Moved(Insert, Replace, Kept(p)) /\ Remains(Replace.dom, Insert.dom, {node})
    BY <2>2, <2>3, RemoveMoved
  <2>5. Moved(p, Replace, Kept(p)) /\ Replace \in Ports /\ Replace.dom \in Seq(Node)
    <3> HIDE DEF Replace
    <3>1. Moved(p, Replace, Kept(p))
      BY <2>2, <2>4, MovedTwice
    <3> QED BY <3>1 DEF Moved, Ports
  <2>6. Injective(Replace.dom)
    BY <2>2, <2>4 DEF Remains, Inserted
  <2>7. Prec(Replace.dom, row, BottomFold)
    <3>1. BottomFold \in ToSet(here.dom) /\ ~Prec(here.dom, BottomFold, node) /\ BottomFold # row
      BY <1>1, <1>2, <1>3, <1>13, Nodes DEF Shape, Document, Position, InView, Order
    <3>2. Prec(Insert.dom, row, BottomFold)
      BY <1>6, <2>2, <3>1 DEF Inserted
    <3> QED BY <1>13, <2>3, <2>4, <3>2 DEF Remains
  <2> HIDE DEF Replace
  <2>8. Follows(Replace.dom, row, next)
    BY <2>5, <2>6, <2>7, NextFollows
  <2> HIDE DEF next
  <2>9. next \in Node
    <3>1. Order(Replace.dom)
      BY <2>5, <2>6, PrecOrder
    <3> QED BY <2>5, <2>8, <3>1 DEF Follows, Order, ToSet
  <2>10. /\ Shape(p, Replace.dom, rows, index, top, bottom, n + 1)
         /\ Position(Replace.dom, next, index, top, n + 1)
    BY <1>1, <1>2, <1>3, <1>13, <2>2, <2>3, <2>4, <2>5, <2>8, RowReplaced DEF row
  <2>11. /\ after \in Drawing /\ ~after.missing /\ after.port = Replace /\ after.node = next
         /\ after.fetched = cached.fetched
    BY <1>5, <2>1, <2>5, <2>9 DEF Drawing
  <2> HIDE DEF after
  <2> QED BY <1>5, <2>5, <2>10, <2>11 DEF Progress, after
<1> QED BY <1>8, <1>9, <1>12, <1>13

\* The smaller one of two numbers.
Smaller(m, a, b) == m \in {a, b} /\ m <= a /\ m <= b

\* The larger one of two numbers.
Larger(m, a, b) == m \in {a, b} /\ m >= a /\ m >= b

\* Min and Max of two numbers.
LEMMA MinTwo ==
  ASSUME NEW a \in Int, NEW b \in Int
  PROVE  Smaller(Min({a, b}), a, b) /\ Larger(Max({a, b}), a, b)
<1>1. \E m \in {a, b} : \A y \in {a, b} : m <= y
  <2>1. CASE a <= b
    BY <2>1
  <2>2. CASE b <= a
    BY <2>2
  <2> QED BY <2>1, <2>2
<1>2. \E m \in {a, b} : \A y \in {a, b} : m >= y
  <2>1. CASE a <= b
    BY <2>1
  <2>2. CASE b <= a
    BY <2>2
  <2> QED BY <2>1, <2>2
<1> QED BY <1>1, <1>2 DEF Min, Max, Smaller, Larger

\* Drawing starts at the node behind the top fold.
LEMMA FirstNode ==
  ASSUME NEW dom \in Seq(Node), Document(dom), NEW index, NEW top \in Nat
  PROVE  /\ NextSibling(dom, TopFold) \in Node
         /\ index \in [Ids -> Nat] => Position(dom, NextSibling(dom, TopFold), index, top, 0)
<1> DEFINE next == NextSibling(dom, TopFold)
<1>1. Order(dom) /\ Prec(dom, TopFold, BottomFold)
  BY PrecOrder DEF Document
<1>2. Follows(dom, TopFold, next)
  BY <1>1, NextFollows DEF Document
<1> HIDE DEF next
<1>3. next \in ToSet(dom) /\ next \in Node /\ next # TopFold
  BY <1>1, <1>2 DEF Follows, Order, ToSet
<1>4. ASSUME index \in [Ids -> Nat] PROVE Position(dom, next, index, top, 0)
  <2>1. \A x \in Rows(dom) : ~Done(index, top, 0, x)
    <3> SUFFICES ASSUME NEW x \in Rows(dom) PROVE index[x] \in Nat
      BY DEF Done
    <3> QED BY <1>4 DEF Rows, Node, ToSet
  <2>2. CASE next = BottomFold
    <3>1. \A x : ~InView(dom, x)
      BY <1>1, <1>2, <2>2 DEF InView, Follows, Order
    <3> QED BY <2>2, <3>1 DEF Position
  <2>3. CASE next # BottomFold
    <3>1. next \in Rows(dom)
      BY <1>3, <2>3 DEF Rows
    <3>2. InView(dom, next)
      BY <1>1, <1>2, <2>3 DEF InView, Follows
    <3>3. \A x : InView(dom, x) => x = next \/ Prec(dom, next, x)
      BY <1>2 DEF InView, Follows
    <3> QED BY <2>1, <2>3, <3>1, <3>2, <3>3 DEF Position
  <2> QED BY <2>2, <2>3
<1> QED BY <1>3, <1>4 DEF next

\* Drawing begins behind the top fold.
Begun(p) ==
  [port |-> p, node |-> NextSibling(p.dom, TopFold), fetched |-> EmptyCache, missing |-> FALSE]

\* How many rows are drawn.
RowsOfView(p, rows) == Min({p.visibleRowCount, Len(rows)})

\* What is left is removed, unless drawing failed.
Finished(d, caching) ==
  IF d.port.failed \/ (d.missing /\ caching) THEN d
  ELSE [d EXCEPT !.port = removeUntilNode(@, d.node, BottomFold)]

\* The steps of drawing count rows, as drawVisibleRows_ takes them.
Steps(drawn, p, rows, index, top, caching, count) ==
  /\ drawn[0] = Begun(p)
  /\ \A n \in 1 .. count : drawn[n] = DrawRow(drawn[n - 1], rows, index, top + n - 1, caching)

\* drawVisibleRows_ takes these steps.
Taken(p, rows, index, top, caching, count) ==
  \E drawn :
    /\ Steps(drawn, p, rows, index, top, caching, count)
    /\ drawVisibleRows_(p, rows, index, top, caching) = Finished(drawn[count], caching)

\* drawVisibleRows_ takes the steps of DrawRow one after another.
LEMMA StepsTaken ==
  ASSUME NEW p, NEW rows, NEW index, NEW top, NEW caching \in BOOLEAN,
         NEW count \in Nat, count = RowsOfView(p, rows)
  PROVE  Taken(p, rows, index, top, caching, count)
<1> DEFINE Step(f, n) == IF n = 0 THEN Begun(p)
                         ELSE DrawRow(f[n - 1], rows, index, top + n - 1, caching)
           Upto(n, f) == f = [i \in 0 .. n |-> Step(f, i)]
           S == {n \in Nat : \E f : Upto(n, f)}
<1>1. 0 \in S
  <2> DEFINE f == [i \in 0 .. 0 |-> Begun(p)]
  <2>1. Upto(0, f)
    OBVIOUS
  <2> QED BY <2>1
<1>2. ASSUME NEW n \in Nat, n \in S PROVE n + 1 \in S
  <2>1. PICK f : Upto(n, f)
    BY <1>2
  <2> DEFINE g == [i \in 0 .. n + 1 |-> IF i = n + 1 THEN Step(f, n + 1) ELSE f[i]]
  <2>2. ASSUME NEW i \in 0 .. n + 1 PROVE g[i] = Step(g, i)
    <3>1. i # 0 => i - 1 \in 0 .. n /\ g[i - 1] = f[i - 1]
      OBVIOUS
    <3>2. CASE i = n + 1
      <4>1. g[i] = Step(f, i)
        BY <3>2
      <4> QED BY <4>1, <3>1, <3>2
    <3>3. CASE i # n + 1
      <4>1. i \in 0 .. n /\ g[i] = f[i]
        BY <3>3
      <4>2. f[i] = Step(f, i)
        BY <2>1, <4>1
      <4> QED BY <4>1, <4>2, <3>1
    <3> QED BY <3>2, <3>3
  <2>3. Upto(n + 1, g)
    BY <2>2
  <2>4. n + 1 \in Nat
    OBVIOUS
  <2> HIDE DEF g, Upto
  <2> QED BY <2>3, <2>4
<1>3. count \in S
  <2> HIDE DEF S
  <2> QED BY <1>1, <1>2, SetInduction
<1> DEFINE drawn == CHOOSE f : Upto(count, f)
<1>4. Upto(count, drawn)
  BY <1>3
<1>5. drawVisibleRows_(p, rows, index, top, caching) = Finished(drawn[count], caching)
  BY DEF drawVisibleRows_, Begun, Finished, RowsOfView
<1>6. Steps(drawn, p, rows, index, top, caching, count)
  <2> HIDE DEF drawn
  <2>1. drawn[0] = Begun(p)
    BY <1>4
  <2>2. ASSUME NEW n \in 1 .. count
        PROVE  drawn[n] = DrawRow(drawn[n - 1], rows, index, top + n - 1, caching)
    <3>1. n # 0 /\ n \in 0 .. count
      OBVIOUS
    <3>2. drawn[n] = Step(drawn, n)
      BY <1>4, <3>1
    <3> QED BY <3>1, <3>2
  <2> QED BY <2>1, <2>2 DEF Steps
<1> HIDE DEF drawn
<1> QED BY <1>5, <1>6 DEF Taken

\* The empty cache is a cache.
LEMMA NothingCached ==
  EmptyCache \in Caches /\ DOMAIN EmptyCache = {} /\ \A rows : Fetches(EmptyCache, rows)
<1>1. EmptyCache \in [{} -> Ids] /\ {} \in SUBSET Nat
  BY DEF EmptyCache
<1>2. DOMAIN EmptyCache = {}
  BY <1>1
<1>3. EmptyCache \in Caches
  BY <1>1 DEF Caches
<1>4. \A rows : Fetches(EmptyCache, rows)
  BY <1>2 DEF Fetches
<1> QED BY <1>2, <1>3, <1>4

\* What is drawn when all rows of the view are.
RowsDrawnIn(p, end, rows, index, top, bottom, count) ==
  /\ end \in Drawing /\ ~end.missing
  /\ Moved(p, end.port, Kept(p))
  /\ Shape(p, end.port.dom, rows, index, top, bottom, count)
  /\ \A x \in Rows(end.port.dom) : InView(end.port.dom, x) => Done(index, top, count, x)
  /\ Fetches(end.fetched, rows)
  /\ DOMAIN end.fetched \subseteq top .. top + count - 1

\* drawVisibleRows_ draws every row of the view and removes what is left of the
\* last drawing; it throws no exception.
LEMMA RowsDrawn ==
  ASSUME NEW p \in Ports, ~p.failed, NEW rows \in Seq(Ids), NEW index \in [Ids -> Nat],
         NEW top \in Nat, p.visibleRowCount \in Nat,
         NEW count \in Nat, count = RowsOfView(p, rows), top + count <= Len(rows),
         NEW bottom \in Int, bottom = top + p.visibleRowCount - 1,
         Numbering(rows, index), Fetches(p.cache, rows),
         Shape(p, p.dom, rows, index, top, bottom, 0),
         Len(rows) < p.visibleRowCount => \A x \in Kept(p) : index[x] < Len(rows),
         NEW caching \in BOOLEAN
  PROVE  RowsDrawnIn(p, drawVisibleRows_(p, rows, index, top, caching), rows, index, top, bottom, count)
<1> DEFINE end == drawVisibleRows_(p, rows, index, top, caching)
<1>1. PICK drawn :
        /\ Steps(drawn, p, rows, index, top, caching, count)
        /\ end = Finished(drawn[count], caching)
  <2>1. Taken(p, rows, index, top, caching, count)
    BY StepsTaken
  <2> QED BY <2>1 DEF Taken
<1> DEFINE vis == p.visibleRowCount
<1>2. /\ count <= vis /\ count <= Len(rows) /\ count \in {vis, Len(rows)}
      /\ vis \in Int /\ Len(rows) \in Int /\ bottom = top + vis - 1
      /\ Len(rows) < vis => \A x \in Kept(p) : index[x] < Len(rows)
  <2>1. p.visibleRowCount \in Int /\ Len(rows) \in Int
    OBVIOUS
  <2>2. Smaller(Min({p.visibleRowCount, Len(rows)}), p.visibleRowCount, Len(rows))
    BY <2>1, MinTwo, Zenon
  <2> QED BY <2>1, <2>2 DEF Smaller, RowsOfView
<1> HIDE DEF vis
<1> HIDE DEF end
<1> DEFINE S == {n \in Nat : n <= count => Progress(p, drawn[n], rows, index, top, bottom, n)}
<1>3. 0 \in S
  <2>1. drawn[0] = Begun(p)
    BY <1>1 DEF Steps
  <2>2. /\ NextSibling(p.dom, TopFold) \in Node
        /\ Position(p.dom, NextSibling(p.dom, TopFold), index, top, 0)
    BY FirstNode DEF Shape, Ports
  <2>3. EmptyCache \in Caches /\ DOMAIN EmptyCache = {}
    BY NothingCached
  <2>4. Begun(p) \in Drawing
    BY <2>2, <2>3 DEF Begun, Drawing
  <2>5. Moved(p, p, Kept(p))
    BY DEF Moved, SameSettings
  <2>6. Progress(p, Begun(p), rows, index, top, bottom, 0)
    BY <2>2, <2>3, <2>4, <2>5 DEF Progress, Begun, Fetches
  <2> QED BY <2>1, <2>6
<1>4. ASSUME NEW n \in Nat, n \in S PROVE n + 1 \in S
  <2> SUFFICES ASSUME n + 1 <= count PROVE Progress(p, drawn[n + 1], rows, index, top, bottom, n + 1)
    OBVIOUS
  <2>1. Progress(p, drawn[n], rows, index, top, bottom, n)
    BY <1>4
  <2>2. n + 1 \in 1 .. count /\ (n + 1) - 1 = n /\ top + (n + 1) - 1 = top + n
    OBVIOUS
  <2>3. drawn[n + 1] = DrawRow(drawn[n], rows, index, top + n, caching)
    BY <1>1, <2>2 DEF Steps
  <2>4. top + n < Len(rows) /\ top + n <= bottom
    <3>1. top + n < Len(rows)
      OBVIOUS
    <3>2. count <= vis /\ vis \in Int /\ bottom = top + vis - 1
      BY <1>2
    <3>3. n + 1 <= vis
      BY <3>2
    <3>4. top + n <= top + vis - 1
      BY <3>2, <3>3
    <3> QED BY <3>1, <3>2, <3>4
  <2>5. Progress(p, DrawRow(drawn[n], rows, index, top + n, caching), rows, index, top, bottom, n + 1)
    BY <2>1, <2>4, RowDrawn
  <2> QED BY <2>3, <2>5
<1>5. Progress(p, drawn[count], rows, index, top, bottom, count)
  <2>1. count \in S
    <3> HIDE DEF S
    <3> QED BY <1>3, <1>4, SetInduction
  <2> QED BY <2>1
<1> DEFINE d == drawn[count]
           node == d.node
           dom == d.port.dom
           gone == ({node} \cup After(dom, node)) \cap Before(dom, BottomFold)
           cleared == removeUntilNode(d.port, node, BottomFold)
<1> HIDE DEF d
<1>6. /\ d \in Drawing /\ ~d.missing /\ Moved(p, d.port, Kept(p))
      /\ Shape(p, dom, rows, index, top, bottom, count)
      /\ Position(dom, node, index, top, count)
      /\ DOMAIN d.fetched \subseteq top .. top + count - 1 /\ Fetches(d.fetched, rows)
  BY <1>5 DEF Progress, d
<1>7. d.port \in Ports /\ dom \in Seq(Node) /\ Injective(dom) /\ Order(dom) /\ ~d.port.failed
  BY <1>6, PrecOrder DEF Drawing, Moved, SameSettings, Ports, Shape, Document
<1>8. end = [d EXCEPT !.port = cleared]
  BY <1>1, <1>6, <1>7 DEF d, Finished
<1>9. /\ Moved(p, cleared, Kept(p))
      /\ Shape(p, cleared.dom, rows, index, top, bottom, count)
      /\ \A x \in Rows(cleared.dom) : InView(cleared.dom, x) => Done(index, top, count, x)
  <2>1. CASE node = BottomFold
    <3>1. cleared = d.port
      BY <2>1 DEF removeUntilNode
    <3> QED BY <1>6, <2>1, <3>1 DEF Position
  <2>2. CASE node # BottomFold
    <3>1. /\ node \in Rows(dom) /\ InView(dom, node) /\ ~Done(index, top, count, node)
          /\ \A x \in Rows(dom) :
               InView(dom, x) /\ ~Done(index, top, count, x) => x = node \/ Prec(dom, node, x)
      BY <1>6, <2>2 DEF Position
    <3>2. BottomFold \in ToSet(dom) /\ node \in ToSet(dom) /\ node # Null /\ node # TopFold
      BY <1>6, <1>7, <3>1, Nodes DEF Shape, Document, Rows, ToSet
    <3>3. \A x : x \in gone <=> (x = node \/ Prec(dom, node, x)) /\ Prec(dom, x, BottomFold)
      BY <1>7, <3>2, BeforeFacts
    <3>4. cleared = RemoveNodes(d.port, gone)
      <4>1. BottomFold \notin gone
        BY <1>7, <3>3 DEF Order
      <4>2. BottomFold \in After(dom, node)
        BY <1>7, <3>1, <3>2, BeforeFacts DEF InView
      <4> QED BY <2>2, <3>2, <4>1, <4>2 DEF removeUntilNode
    <3> HIDE DEF gone, cleared
    <3>5. gone \subseteq Rows(dom) /\ \A x \in gone : InView(dom, x) /\ ~Done(index, top, count, x)
      <4> SUFFICES ASSUME NEW x \in gone
                   PROVE  x \in Rows(dom) /\ InView(dom, x) /\ ~Done(index, top, count, x)
        OBVIOUS
      <4>1. InView(dom, x)
        BY <1>7, <3>1, <3>3 DEF InView, Order
      <4>2. x \in Rows(dom)
        BY <1>7, <4>1 DEF InView, Order, Rows
      <4> QED BY <1>6, <3>1, <3>3, <4>1, <4>2 DEF Shape, Grouped
    <3>6. gone \cap Kept(p) = {}
      <4> SUFFICES ASSUME NEW x \in gone, x \in Kept(p) PROVE FALSE
        OBVIOUS
      <4>1. x \in Rows(dom) /\ InView(dom, x) /\ ~Done(index, top, count, x)
        BY <3>5
      <4>2. index[x] \in Nat
        BY <1>7, <4>1 DEF Rows, Node, ToSet
      <4>3. ~Prec(dom, x, TopFold) /\ ~Prec(dom, BottomFold, x)
        BY <1>7, <4>1 DEF InView, Order
      <4>4. ~(index[x] < top) /\ ~(index[x] > bottom)
        BY <1>6, <4>1, <4>3 DEF Shape, TopDrawn, BottomDrawn
      <4>5. index[x] >= top + count
        BY <4>1, <4>2, <4>4 DEF Done
      <4>6. Len(rows) < vis
        <5>0. index[x] <= bottom
          BY <4>2, <4>4
        <5>1. count # vis
          <6> SUFFICES ASSUME count = vis PROVE FALSE
            OBVIOUS
          <6>1. bottom = top + count - 1
            BY <1>2
          <6> QED BY <4>2, <4>5, <5>0, <6>1
        <5> QED BY <1>2, <5>1
      <4> QED BY <1>2, <4>2, <4>5, <4>6
    <3>7. Moved(d.port, cleared, Kept(p)) /\ Remains(cleared.dom, dom, gone)
      BY <1>7, <3>4, <3>6, RemoveMoved
    <3>8. Moved(p, cleared, Kept(p))
      BY <1>6, <3>7, MovedTwice
    <3>9. cleared.dom \in Seq(Node)
      BY <3>8 DEF Moved, Ports
    <3>10. \A k \in top .. top + count - 1 : rows[k + 1] \notin gone
      <4> SUFFICES ASSUME NEW k \in top .. top + count - 1 PROVE Done(index, top, count, rows[k + 1])
        BY <3>5
      <4>1. k + 1 \in DOMAIN rows /\ (k + 1) - 1 = k
        BY <1>2
      <4>2. index[rows[k + 1]] = k
        BY <4>1 DEF Numbering
      <4> QED BY <4>2 DEF Done
    <3>11. Shape(p, cleared.dom, rows, index, top, bottom, count)
      BY <1>6, <1>7, <3>5, <3>6, <3>7, <3>9, <3>10, RowsRemoved
    <3>12. ASSUME NEW x \in Rows(cleared.dom), InView(cleared.dom, x)
           PROVE  Done(index, top, count, x)
      <4>1. x \in Rows(dom) /\ InView(dom, x) /\ x \notin gone
        BY <3>7, <3>12 DEF Remains, Rows, InView
      <4>2. ~(x = node \/ Prec(dom, node, x))
        BY <3>3, <4>1 DEF InView
      <4> QED BY <3>1, <4>1, <4>2
    <3> QED BY <3>8, <3>11, <3>12
  <2> QED BY <2>1, <2>2
<1> HIDE DEF cleared
<1>10. /\ end \in Drawing /\ ~end.missing /\ end.port = cleared /\ end.fetched = d.fetched
  BY <1>6, <1>8, <1>9 DEF Drawing, Moved
<1> QED BY <1>6, <1>9, <1>10 DEF RowsDrawnIn, end

\* With both folds drawn, the document is ready for its rows.
LEMMA ShapeBegins ==
  ASSUME NEW p, NEW dom \in Seq(Node), NEW rows, NEW index \in [Ids -> Nat], NEW top \in Nat, NEW bottom,
         Document(dom), Kept(p) \subseteq Rows(dom), TopDrawn(p, dom, index, top),
         BottomDrawn(p, dom, index, bottom), Own(dom, rows, index), Sorted(dom, index)
  PROVE  Shape(p, dom, rows, index, top, bottom, 0)
<1>1. Drawings(dom, rows, top, 0)
  BY DEF Drawings
<1>2. Grouped(dom, index, top, 0)
  <2> SUFFICES ASSUME NEW x \in Rows(dom), NEW y \in Rows(dom), Prec(dom, x, y)
               PROVE  index[x] < index[y] /\ ~Done(index, top, 0, y)
    BY DEF Grouped
  <2>1. y \in Ids
    BY DEF Rows, Node, ToSet
  <2>2. ~Done(index, top, 0, y)
    BY <2>1 DEF Done
  <2> QED BY <2>2 DEF Sorted
<1>3. OutsideSorted(dom, index)
  BY DEF Sorted, OutsideSorted
<1> QED BY <1>1, <1>2, <1>3 DEF Shape

\* A sequence in ascending order that has just these rows.
LEMMA Ascending ==
  ASSUME NEW rows \in Seq(Ids), NEW index \in [Ids -> Nat], Numbering(rows, index),
         NEW top \in Nat, NEW count \in Nat, top + count <= Len(rows),
         NEW s \in Seq(Ids), \A i, j \in 1 .. Len(s) : i < j => index[s[i]] < index[s[j]],
         \A i \in 1 .. Len(s) : Done(index, top, count, s[i]) /\ rows[index[s[i]] + 1] = s[i],
         \A k \in top .. top + count - 1 : \E i \in 1 .. Len(s) : s[i] = rows[k + 1]
  PROVE  s = SubSeq(rows, top + 1, top + count)
<1>1. /\ DOMAIN s = 1 .. Len(s) /\ Len(s) \in Nat
      /\ \A i \in 1 .. Len(s) : i \in Int /\ index[s[i]] \in Int
  OBVIOUS
<1>2. \A k \in top .. top + count - 1 : index[rows[k + 1]] = k
  <2> SUFFICES ASSUME NEW k \in top .. top + count - 1 PROVE index[rows[k + 1]] = k
    OBVIOUS
  <2>1. k + 1 \in DOMAIN rows /\ (k + 1) - 1 = k
    OBVIOUS
  <2> QED BY <2>1 DEF Numbering
<1> DEFINE S == {n \in Nat : n + 1 <= Len(s) => index[s[n + 1]] = top + n}
<1>3. ASSUME NEW n \in Nat, n + 1 <= Len(s),
             \A j \in 1 .. n : index[s[j]] < top + n, index[s[n + 1]] >= top + n
      PROVE  index[s[n + 1]] = top + n
  <2>1. n + 1 \in 1 .. Len(s) /\ index[s[n + 1]] \in Nat
    BY <1>1, <1>3
  <2>2. top + n \in top .. top + count - 1
    <3>1. index[s[n + 1]] < top + count
      BY <2>1 DEF Done
    <3>2. top + n < top + count
      BY <1>3, <2>1, <3>1
    <3> QED BY <3>2
  <2>3. PICK j \in 1 .. Len(s) : s[j] = rows[top + n + 1]
    BY <2>2
  <2>4. index[s[j]] = top + n
    BY <1>2, <2>2, <2>3
  <2>5. ~(j < n + 1)
    <3> SUFFICES ASSUME j < n + 1 PROVE FALSE
      OBVIOUS
    <3>1. j \in 1 .. n
      BY <1>1
    <3>2. index[s[j]] < top + n
      BY <1>3, <3>1
    <3> QED BY <2>4, <3>2
  <2>6. ~(n + 1 < j)
    <3> SUFFICES ASSUME n + 1 < j PROVE FALSE
      OBVIOUS
    <3>1. index[s[n + 1]] < index[s[j]]
      BY <2>1
    <3> DEFINE v == index[s[n + 1]]
    <3>2. v >= top + n /\ v \in Int
      BY <1>3, <2>1
    <3>3. v < top + n
      BY <2>4, <3>1
    <3> HIDE DEF v
    <3> QED BY <3>2, <3>3
  <2>7. j = n + 1
    <3>1. j \in Int /\ n + 1 \in Int
      BY <1>1
    <3> QED BY <2>5, <2>6, <3>1
  <2> QED BY <2>4, <2>7
<1>4. 0 \in S
  <2> SUFFICES ASSUME 0 + 1 <= Len(s) PROVE index[s[0 + 1]] = top + 0
    OBVIOUS
  <2>1. index[s[0 + 1]] >= top + 0
    <3>1. 1 \in 1 .. Len(s)
      BY <1>1
    <3>2. index[s[1]] \in Int /\ top <= index[s[1]]
      BY <1>1, <3>1 DEF Done
    <3> QED BY <3>2
  <2>2. \A j \in 1 .. 0 : index[s[j]] < top + 0
    OBVIOUS
  <2> QED BY <1>3, <2>1, <2>2
<1>5. ASSUME NEW n \in Nat, n \in S PROVE n + 1 \in S
  <2> SUFFICES ASSUME n + 1 + 1 <= Len(s) PROVE index[s[n + 1 + 1]] = top + (n + 1)
    OBVIOUS
  <2>1. n + 1 \in 1 .. Len(s) /\ n + 1 + 1 \in 1 .. Len(s) /\ n + 1 <= Len(s)
    BY <1>1
  <2>2. index[s[n + 1]] = top + n
    BY <1>5, <2>1
  <2>3. index[s[n + 1 + 1]] > top + n
    BY <2>1, <2>2, SMTT(30)
  <2>4. ASSUME NEW j \in 1 .. n + 1 PROVE index[s[j]] < top + (n + 1)
    <3>1. j \in 1 .. Len(s) /\ (j = n + 1 \/ j < n + 1)
      BY <1>1
    <3>2. index[s[j]] <= top + n
      <4>1. CASE j = n + 1
        BY <2>2, <4>1
      <4>2. CASE j < n + 1
        <5>1. index[s[j]] < index[s[n + 1]]
          BY <2>1, <3>1, <4>2
        <5>2. index[s[j]] \in Int
          BY <1>1, <3>1
        <5> QED BY <2>2, <5>1, <5>2, SMTT(30)
      <4> QED BY <3>1, <4>1, <4>2
    <3> QED BY <1>1, <3>1, <3>2
  <2>5. index[s[n + 1 + 1]] >= top + (n + 1)
    BY <1>1, <2>1, <2>3
  <2>6. n + 1 \in Nat
    OBVIOUS
  <2> QED BY <1>3, <2>4, <2>5, <2>6
<1>6. \A i \in 1 .. Len(s) : index[s[i]] = top + i - 1
  <2> SUFFICES ASSUME NEW i \in 1 .. Len(s) PROVE index[s[i]] = top + i - 1
    OBVIOUS
  <2>1. i - 1 \in Nat /\ (i - 1) + 1 = i /\ (i - 1) + 1 <= Len(s)
    BY <1>1
  <2>2. i - 1 \in S
    <3> HIDE DEF S
    <3> QED BY <1>4, <1>5, <2>1, SetInduction
  <2>3. index[s[(i - 1) + 1]] = top + (i - 1)
    BY <2>1, <2>2
  <2> QED BY <1>1, <2>1, <2>3
<1>7. Len(s) = count
  <2>1. Len(s) <= count
    <3> SUFFICES ASSUME Len(s) > 0 PROVE Len(s) <= count
      BY <1>1
    <3>1. Len(s) \in 1 .. Len(s)
      BY <1>1
    <3>2. index[s[Len(s)]] = top + Len(s) - 1 /\ index[s[Len(s)]] < top + count
      BY <1>6, <3>1 DEF Done
    <3> QED BY <1>1, <3>2
  <2>2. count <= Len(s)
    <3> SUFFICES ASSUME count > 0 PROVE count <= Len(s)
      BY <1>1
    <3>1. top + count - 1 \in top .. top + count - 1
      OBVIOUS
    <3>2. PICK j \in 1 .. Len(s) : s[j] = rows[(top + count - 1) + 1]
      BY <3>1
    <3>3. index[s[j]] = top + count - 1
      BY <1>2, <3>1, <3>2
    <3>4. index[s[j]] = top + j - 1
      BY <1>6
    <3>5. j = count
      BY <1>1, <3>3, <3>4
    <3> QED BY <1>1, <3>5
  <2> QED BY <1>1, <2>1, <2>2
<1> DEFINE t == SubSeq(rows, top + 1, top + count)
<1>8. t \in Seq(Ids) /\ Len(t) = count /\ \A i \in 1 .. count : t[i] = rows[top + i]
  <2>1. top + 1 \in Int /\ top + count \in Int
    OBVIOUS
  <2>2. \A i \in top + 1 .. top + count : rows[i] \in Ids
    OBVIOUS
  <2> QED BY <2>1, <2>2, SubSeqProperties
<1> HIDE DEF t
<1>9. ASSUME NEW i \in 1 .. count PROVE s[i] = t[i]
  <2>1. i \in 1 .. Len(s)
    BY <1>1, <1>7
  <2>2. rows[index[s[i]] + 1] = s[i] /\ index[s[i]] = top + i - 1
    BY <1>6, <2>1
  <2>3. (top + i - 1) + 1 = top + i
    OBVIOUS
  <2> QED BY <1>8, <2>2, <2>3
<1>10. s = t
  BY <1>1, <1>7, <1>8, <1>9
<1> QED BY <1>10 DEF t

\* The page shows the nodes between the folds, in their order.
LEMMA ShownInView ==
  ASSUME NEW q \in Ports, Document(q.dom)
  PROVE  /\ Shown(q) \in Seq(Ids)
         /\ \A x : x \in ToSet(Shown(q)) <=> InView(q.dom, x)
         /\ \A x, y : Prec(Shown(q), x, y)
                        <=> Prec(q.dom, x, y) /\ InView(q.dom, x) /\ InView(q.dom, y)
<1> DEFINE dom == q.dom
           inside == Inside(dom, TopFold, BottomFold)
           s == Shown(q)
<1>1. dom \in Seq(Node) /\ Order(dom) /\ Injective(dom)
  BY PrecOrder DEF Document, Ports
<1>2. Rows(dom) \subseteq Ids
  BY <1>1 DEF Rows, Node, ToSet
<1>3. \A x : x \in inside <=> InView(dom, x)
  BY <1>1, BeforeFacts DEF Document, Inside, InView
<1>4. s \in Seq(Node) /\ Remains(s, dom, ToSet(dom) \ inside)
  BY <1>1, WithoutFacts DEF Shown
<1> HIDE DEF inside
<1>5. \A x : x \in ToSet(s) <=> InView(dom, x)
  BY <1>1, <1>3, <1>4 DEF Remains, Order, InView
<1>6. \A x : InView(dom, x) => x \in Rows(dom)
  BY <1>1 DEF InView, Order, Rows
<1>7. \A x, y : Prec(s, x, y) <=> Prec(dom, x, y) /\ InView(dom, x) /\ InView(dom, y)
  BY <1>1, <1>3, <1>4 DEF Remains, Order
<1> HIDE DEF s
<1>8. \A i \in DOMAIN s : s[i] \in Ids
  BY <1>2, <1>5, <1>6 DEF ToSet
<1>9. s \in Seq(Ids)
  BY <1>4, <1>8
<1> QED BY <1>5, <1>7, <1>9 DEF s

\* What the page shows when the nodes between the folds are the rows of the
\* terminal from the top on, in ascending order.
LEMMA ViewShown ==
  ASSUME NEW q \in Ports, NEW rows \in Seq(Ids), NEW index \in [Ids -> Nat],
         NEW top \in Nat, NEW count \in Nat, top + count <= Len(rows), Numbering(rows, index),
         Document(q.dom), Drawings(q.dom, rows, top, count),
         \A x \in Rows(q.dom) : InView(q.dom, x) =>
           Done(index, top, count, x) /\ rows[index[x] + 1] = x,
         \A x, y \in Rows(q.dom) :
           InView(q.dom, x) /\ InView(q.dom, y) /\ Prec(q.dom, x, y) => index[x] < index[y]
  PROVE  Shown(q) = SubSeq(rows, top + 1, top + count)
<1> DEFINE dom == q.dom
           s == Shown(q)
<1>1. Order(dom)
  BY PrecOrder DEF Document, Ports
<1>2. /\ s \in Seq(Ids)
      /\ \A x : x \in ToSet(s) <=> InView(dom, x)
      /\ \A x, y : Prec(s, x, y) <=> Prec(dom, x, y) /\ InView(dom, x) /\ InView(dom, y)
  BY ShownInView
<1>3. \A x : InView(dom, x) => x \in Rows(dom)
  BY <1>1 DEF InView, Order, Rows
<1> HIDE DEF s
<1>4. DOMAIN s = 1 .. Len(s) /\ \A i \in DOMAIN s : s[i] \in Rows(dom) /\ InView(dom, s[i])
  BY <1>2, <1>3 DEF ToSet
<1>5. \A i \in 1 .. Len(s) : Done(index, top, count, s[i]) /\ rows[index[s[i]] + 1] = s[i]
  BY <1>4
<1>6. ASSUME NEW i \in 1 .. Len(s), NEW j \in 1 .. Len(s), i < j
      PROVE  index[s[i]] < index[s[j]]
  <2>1. Prec(s, s[i], s[j])
    BY <1>4, <1>6 DEF Prec
  <2>2. Prec(dom, s[i], s[j])
    BY <1>2, <2>1
  <2> QED BY <1>4, <2>2
<1>7. \A k \in top .. top + count - 1 : \E i \in 1 .. Len(s) : s[i] = rows[k + 1]
  BY <1>2, <1>4, SMTT(30) DEF Drawings, ToSet
<1>8. s = SubSeq(rows, top + 1, top + count)
  BY <1>2, <1>5, <1>6, <1>7, Ascending, ZenonT(40)
<1> QED BY <1>8 DEF s

\* What the page shows then: the rows of the terminal, from the top on.
LEMMA ShownDrawn ==
  ASSUME NEW p, NEW q \in Ports, NEW rows \in Seq(Ids), NEW index \in [Ids -> Nat],
         NEW top \in Nat, NEW bottom \in Int, NEW count \in Nat, top + count <= Len(rows),
         top + count - 1 <= bottom, Numbering(rows, index),
         Shape(p, q.dom, rows, index, top, bottom, count),
         \A x \in Rows(q.dom) : InView(q.dom, x) => Done(index, top, count, x)
  PROVE  /\ Shown(q) = SubSeq(rows, top + 1, top + count)
         /\ Sorted(q.dom, index)
<1> DEFINE dom == q.dom
<1>1. dom \in Seq(Node) /\ Order(dom) /\ Document(dom) /\ Injective(dom)
  BY PrecOrder DEF Shape, Document, Ports
<1>2. Rows(dom) \subseteq Ids /\ \A x \in Rows(dom) : index[x] \in Nat
  BY <1>1 DEF Rows, Node, ToSet
<1>3. \A x \in Rows(dom) : InView(dom, x) => rows[index[x] + 1] = x
  <2> SUFFICES ASSUME NEW x \in Rows(dom), InView(dom, x) PROVE index[x] < Len(rows)
    BY DEF Shape, Own
  <2> DEFINE v == index[x]
  <2>1. v \in Nat /\ v < top + count
    BY <1>2 DEF Done
  <2> HIDE DEF v
  <2> QED BY <2>1 DEF v
<1>4. \A x, y \in Rows(dom) : InView(dom, x) /\ InView(dom, y) /\ Prec(dom, x, y) => index[x] < index[y]
  BY DEF Shape, Grouped
<1>13. Shown(q) = SubSeq(rows, top + 1, top + count)
  BY <1>1, <1>3, <1>4, ViewShown DEF Shape
<1>14. Sorted(dom, index)
  <2> SUFFICES ASSUME NEW x \in Rows(dom), NEW y \in Rows(dom), Prec(dom, x, y)
               PROVE  index[x] < index[y]
    BY DEF Sorted
  <2>1. CASE Prec(dom, y, TopFold) \/ Prec(dom, BottomFold, x)
    BY <2>1 DEF Shape, OutsideSorted
  <2>2. CASE ~Prec(dom, y, TopFold) /\ ~Prec(dom, BottomFold, x)
    <3>1. Prec(dom, TopFold, y) /\ Prec(dom, x, BottomFold)
      BY <1>1, <2>2 DEF Order, Document, Rows
    <3>2. CASE InView(dom, x) /\ InView(dom, y)
      BY <3>2 DEF Shape, Grouped
    <3>3. ASSUME ~InView(dom, x) PROVE index[x] < top
      <4>1. Prec(dom, x, TopFold)
        BY <1>1, <3>1, <3>3 DEF InView, Order, Document, Rows
      <4> QED BY <4>1 DEF Shape, TopDrawn
    <3>4. ASSUME ~InView(dom, y) PROVE index[y] > bottom
      <4>1. Prec(dom, BottomFold, y)
        BY <1>1, <3>1, <3>4 DEF InView, Order, Document, Rows
      <4> QED BY <4>1 DEF Shape, BottomDrawn
    <3>5. CASE ~InView(dom, x) /\ InView(dom, y)
      BY <1>2, <3>3, <3>5 DEF Done
    <3>6. CASE InView(dom, x) /\ ~InView(dom, y)
      <4>1. index[x] < top + count
        BY <3>6 DEF Done
      <4> QED BY <1>2, <3>4, <3>6, <4>1
    <3>7. CASE ~InView(dom, x) /\ ~InView(dom, y)
      BY <1>2, <3>3, <3>4, <3>7
    <3> QED BY <3>2, <3>5, <3>6, <3>7
  <2> QED BY <2>1, <2>2
<1> QED BY <1>13, <1>14

----------------------------------------------------------------------------
\* The scroll position nearest to one that is asked for.
Within(top, asked, room) ==
  /\ top \in Nat
  /\ top = 0 \/ top <= room
  /\ asked >= 0 => top <= asked
  /\ asked <= 0 => top = 0
  /\ asked >= 0 /\ asked <= room => top = asked
  /\ room >= 0 /\ room <= asked => top = room

\* The browser keeps the scroll position within the rows.
LEMMA ClampedWithin ==
  ASSUME NEW p \in Ports, NEW top \in Int
  PROVE  Within(Clamped(p, top), top, p.lastRowCount - p.window)
<1> DEFINE room == p.lastRowCount - p.window
           low == Min({top, room})
           c == Max({0, low})
<1>1. room \in Int
  BY DEF Ports
<1> HIDE DEF room
<1>2. Smaller(low, top, room)
  BY <1>1, MinTwo
<1> HIDE DEF low
<1>3. low \in Int
  BY <1>1, <1>2 DEF Smaller
<1>4. Larger(c, 0, low)
  BY <1>3, MinTwo
<1> HIDE DEF c
<1>5. Within(c, top, room)
  BY <1>1, <1>2, <1>3, <1>4 DEF Within, Smaller, Larger
<1>6. Clamped(p, top) = c
  BY DEF Clamped, c, low, room
<1> QED BY <1>5, <1>6 DEF room

\* Ports with the same nodes, selection, cache and size.
SameDrawing(p, q) ==
  /\ q.dom = p.dom /\ q.anchor = p.anchor /\ q.focus = p.focus /\ (q.collapsed <=> p.collapsed)
  /\ q.startRow = p.startRow /\ q.endRow = p.endRow /\ (q.isMultiline <=> p.isMultiline)
  /\ q.cache = p.cache /\ q.visibleRowCount = p.visibleRowCount /\ q.window = p.window
  /\ (q.failed <=> p.failed)

\* Scrolling changes the position only.
Scrolls(p, q, asked) ==
  /\ q \in Ports
  /\ SameDrawing(p, q)
  /\ Within(q.scrollTop, asked, q.lastRowCount - q.window)
  /\ q.scrolled <=> p.scrolled \/ q.scrollTop # p.scrollTop

\* What scrolling to a place does.
LEMMA ScrollsTo ==
  ASSUME NEW p \in Ports, NEW top \in Int
  PROVE  /\ Scrolls(p, ScrollTo(p, top), top)
         /\ ScrollTo(p, top).lastRowCount = p.lastRowCount
         /\ ScrollTo(p, top).isScrolledEnd = p.isScrolledEnd
<1> DEFINE c == Clamped(p, top)
           q == ScrollTo(p, top)
<1>1. Within(c, top, p.lastRowCount - p.window) /\ c \in Int
  BY ClampedWithin DEF Within
<1> HIDE DEF c
<1>2. q = [p EXCEPT !.scrollTop = c, !.scrolled = @ \/ c # p.scrollTop]
  BY DEF ScrollTo, c
<1>3. q \in Ports /\ SameDrawing(p, q)
  BY <1>1, <1>2, ZenonT(40) DEF Ports, SameDrawing
<1>4. /\ q.lastRowCount = p.lastRowCount /\ q.window = p.window /\ q.scrollTop = c
      /\ q.isScrolledEnd = p.isScrolledEnd
  BY <1>2 DEF Ports
<1>5. q.scrolled = (p.scrolled \/ c # p.scrollTop)
  BY <1>2 DEF Ports
<1> HIDE DEF q
<1>6. q.scrolled <=> p.scrolled \/ q.scrollTop # p.scrollTop
  BY <1>4, <1>5
<1> QED BY <1>1, <1>3, <1>4, <1>6 DEF Scrolls, q

\* What a new height of the scroll area does to the place (syncScrollHeight).
LEMMA HeightSynced ==
  ASSUME NEW p \in Ports, NEW rows \in Seq(Ids)
  PROVE  /\ Scrolls(p, syncScrollHeight(p, rows), p.scrollTop)
         /\ syncScrollHeight(p, rows).lastRowCount = Len(rows)
         /\ syncScrollHeight(p, rows).isScrolledEnd = p.isScrolledEnd
<1> DEFINE sized == [p EXCEPT !.lastRowCount = Len(rows)]
           q == ScrollTo(sized, sized.scrollTop)
<1>n. Len(rows) \in Int
  OBVIOUS
<1>1. sized \in Ports /\ sized.scrollTop \in Int
  <2>1. \A n \in Int : [p EXCEPT !.lastRowCount = n] \in Ports
    BY DEF Ports
  <2>2. sized \in Ports
    BY <1>n, <2>1
  <2> HIDE DEF sized
  <2> QED BY <2>2 DEF Ports
<1>2. /\ sized.lastRowCount = Len(rows) /\ sized.scrollTop = p.scrollTop
      /\ sized.isScrolledEnd = p.isScrolledEnd /\ sized.scrolled = p.scrolled
      /\ SameDrawing(p, sized)
  BY DEF Ports, SameDrawing
<1>3. syncScrollHeight(p, rows) = q
  BY DEF syncScrollHeight
<1> HIDE DEF sized
<1>4. /\ Scrolls(sized, q, sized.scrollTop) /\ q.lastRowCount = sized.lastRowCount
      /\ q.isScrolledEnd = sized.isScrolledEnd
  BY <1>1, ScrollsTo
<1> HIDE DEF q
<1> QED BY <1>2, <1>3, <1>4 DEF Scrolls, SameDrawing

----------------------------------------------------------------------------
\* What sync() knows of a selection whose end has left the document.
Remembered(p, index) ==
  /\ p.startRow \in Rows(p.dom) /\ p.endRow \in Rows(p.dom)
  /\ p.anchor \in {p.startRow, p.endRow}
  /\ index[p.startRow] <= index[p.endRow]
  /\ p.isMultiline <=> p.startRow # p.endRow

\* The selection of the document is in its rows; one that is not empty begins in a
\* row, and one whose end has left the document is remembered by sync().
Selection(p, index) ==
  /\ p.anchor # Null => p.anchor \in Rows(p.dom)
  /\ p.focus # Null => p.focus \in ToSet(p.dom)
  /\ p.collapsed => p.anchor = p.focus
  /\ ~p.collapsed => p.anchor # Null /\ \E x \in Rows(p.dom) : InView(p.dom, x)
  /\ p.anchor # Null /\ p.focus = Null => Remembered(p, index)

\* The nodes next to the folds are rows, if there is one between them.
LEMMA NextToFolds ==
  ASSUME NEW dom \in Seq(Node), Document(dom), NEW x, InView(dom, x)
  PROVE  /\ NextSibling(dom, TopFold) \in Rows(dom)
         /\ \E i \in DOMAIN dom : NextSibling(dom, dom[i]) = BottomFold
         /\ \A i \in DOMAIN dom : NextSibling(dom, dom[i]) = BottomFold => dom[i] \in Rows(dom)
<1>1. Order(dom) /\ Injective(dom)
  BY PrecOrder DEF Document
<1>2. Follows(dom, TopFold, NextSibling(dom, TopFold))
  BY <1>1, NextFollows DEF InView
<1>3. NextSibling(dom, TopFold) \in Rows(dom)
  BY <1>1, <1>2 DEF Follows, InView, Order, Rows
<1>4. PICK p \in DOMAIN dom : dom[p] = BottomFold
  BY DEF Document, ToSet
<1>5. PICK k, l \in DOMAIN dom : k < l /\ dom[l] = BottomFold
  BY DEF InView, Prec
<1>6. DOMAIN dom = 1 .. Len(dom) /\ Len(dom) \in Nat
  OBVIOUS
<1>7. l - 1 \in DOMAIN dom
  BY <1>5, <1>6
<1>8. NextSibling(dom, dom[l - 1]) = BottomFold
  <2>1. Prec(dom, dom[l - 1], BottomFold)
    BY <1>5, <1>6, <1>7 DEF Prec
  <2> DEFINE n == NextSibling(dom, dom[l - 1])
  <2>2. Follows(dom, dom[l - 1], n)
    BY <1>1, <2>1, NextFollows
  <2> HIDE DEF n
  <2>3. CASE n # BottomFold
    <3>1. Prec(dom, dom[l - 1], n) /\ Prec(dom, n, BottomFold)
      BY <2>1, <2>2, <2>3 DEF Follows
    <3>2. PICK a, b \in DOMAIN dom : a < b /\ dom[a] = dom[l - 1] /\ dom[b] = n
      BY <3>1 DEF Prec
    <3>3. PICK c, d \in DOMAIN dom : c < d /\ dom[c] = n /\ dom[d] = BottomFold
      BY <3>1 DEF Prec
    <3>4. a = l - 1 /\ d = l /\ b = c
      BY <1>1, <1>5, <1>7, <3>2, <3>3 DEF Injective
    <3> QED BY <1>6, <3>2, <3>3, <3>4
  <2> QED BY <2>3 DEF n
<1>9. ASSUME NEW i \in DOMAIN dom, NextSibling(dom, dom[i]) = BottomFold
      PROVE  dom[i] \in Rows(dom)
  <2>1. /\ Prec(dom, dom[i], BottomFold)
        /\ \A y : Prec(dom, dom[i], y) => y = BottomFold \/ Prec(dom, BottomFold, y)
    <3>1. BottomFold # Null
      BY Nodes DEF Node
    <3> QED BY <1>1, <1>9, <3>1, NextFacts, Nodes
  <2>2. dom[i] # TopFold
    <3>1. ~(x = BottomFold \/ Prec(dom, BottomFold, x))
      BY <1>1 DEF InView, Order
    <3> QED BY <2>1, <3>1 DEF InView
  <2>3. dom[i] # BottomFold
    BY <1>1, <2>1 DEF Order
  <2> QED BY <2>2, <2>3 DEF Rows, ToSet
<1> QED BY <1>3, <1>7, <1>8, <1>9

\* Rows of the document have numbers of their own.
LEMMA IndexesDiffer ==
  ASSUME NEW dom \in Seq(Node), Injective(dom), NEW index \in [Ids -> Nat], Sorted(dom, index)
  PROVE  \A x, y \in Rows(dom) : x # y => index[x] # index[y]
<1>1. Order(dom)
  BY PrecOrder
<1>2. \A x \in Rows(dom) : index[x] \in Nat
  BY DEF Rows, Node, ToSet
<1> QED BY <1>1, <1>2 DEF Sorted, Order, Rows

\* What sync() does to a port.
Synced(p, q, index) ==
  /\ q \in Ports
  /\ q.dom = p.dom /\ q.anchor = p.anchor /\ q.focus = p.focus /\ (q.collapsed <=> p.collapsed)
  /\ q.cache = p.cache /\ q.visibleRowCount = p.visibleRowCount /\ q.window = p.window
  /\ q.scrollTop = p.scrollTop /\ q.lastRowCount = p.lastRowCount
  /\ (q.isScrolledEnd <=> p.isScrolledEnd) /\ (q.scrolled <=> p.scrolled) /\ (q.failed <=> p.failed)
  /\ Selected(q, index)
  /\ p.anchor # Null => p.anchor \in Kept(q)
  /\ p.anchor # Null /\ p.focus \in Ids => p.focus \in Kept(q)

\* Selection.sync finds the rows in which the selection begins and ends.
LEMMA SyncSelects ==
  ASSUME NEW p \in Ports, Document(p.dom), NEW index \in [Ids -> Nat],
         Sorted(p.dom, index), Selection(p, index)
  PROVE  Synced(p, sync(p, index), index)
<1> DEFINE q == sync(p, index)
           row == FocusRow(p)
<1>1. p.dom \in Seq(Node) /\ Injective(p.dom) /\ Rows(p.dom) \subseteq Ids
  BY DEF Ports, Document, Rows, Node, ToSet
<1>2. Null \notin Rows(p.dom) /\ Null # TopFold /\ Null # BottomFold /\ TopFold # BottomFold
  BY <1>1, Nodes DEF Node
<1>3. \A x \in Rows(p.dom) : index[x] \in Nat
  BY <1>1
<1>4. \A x, y \in Rows(p.dom) : x # y => index[x] # index[y]
  BY <1>1, IndexesDiffer
<1>5. CASE p.anchor = Null
  <2>1. q = [p EXCEPT !.startRow = Null, !.endRow = Null, !.isMultiline = FALSE]
    BY <1>5 DEF sync
  <2>2. q.startRow = Null /\ q.endRow = Null /\ ~q.isMultiline
    BY <2>1 DEF Ports
  <2>3. Selected(q, index)
    BY <2>2 DEF Selected, Kept
  <2>4. /\ q \in Ports /\ q.dom = p.dom /\ q.anchor = p.anchor /\ q.focus = p.focus
        /\ (q.collapsed <=> p.collapsed)
        /\ q.cache = p.cache /\ q.visibleRowCount = p.visibleRowCount /\ q.window = p.window
        /\ q.scrollTop = p.scrollTop /\ q.lastRowCount = p.lastRowCount
        /\ (q.isScrolledEnd <=> p.isScrolledEnd) /\ (q.scrolled <=> p.scrolled)
        /\ (q.failed <=> p.failed)
    BY <2>1, ZenonT(40) DEF Ports
  <2> HIDE DEF q
  <2>5. Synced(p, q, index)
    BY <1>5, <2>3, <2>4 DEF Synced
  <2> QED BY <2>5 DEF q
<1>6. ASSUME p.anchor # Null
      PROVE  /\ p.focus \in Ids => row = p.focus /\ row \in Rows(p.dom)
             /\ p.focus \in {TopFold, BottomFold} => row \in Rows(p.dom)
             /\ p.focus = Null => row = Null
  <2>1. p.focus \in Ids => p.focus \notin {TopFold, BottomFold, Null} /\ p.focus \in Rows(p.dom)
    BY <1>1, Nodes DEF Selection, Rows, Node
  <2>2. ASSUME p.focus \in Ids PROVE row = p.focus
    BY <2>1, <2>2 DEF FocusRow
  <2>3. ASSUME p.focus = Null PROVE row = Null
    BY <1>2, <2>3 DEF FocusRow
  <2>4. ASSUME p.focus \in {TopFold, BottomFold} PROVE row \in Rows(p.dom)
    <3>1. ~p.collapsed
      BY <1>6, <2>4 DEF Selection, Rows
    <3>2. PICK x \in Rows(p.dom) : InView(p.dom, x)
      BY <3>1 DEF Selection
    <3>3. /\ NextSibling(p.dom, TopFold) \in Rows(p.dom)
          /\ \E i \in DOMAIN p.dom : NextSibling(p.dom, p.dom[i]) = BottomFold
          /\ \A i \in DOMAIN p.dom : NextSibling(p.dom, p.dom[i]) = BottomFold => p.dom[i] \in Rows(p.dom)
      BY <1>1, <3>2, NextToFolds
    <3> DEFINE i == CHOOSE i \in DOMAIN p.dom : NextSibling(p.dom, p.dom[i]) = BottomFold
    <3>4. p.dom[i] \in Rows(p.dom)
      BY <3>3
    <3> HIDE DEF i
    <3>5. \A y \in Rows(p.dom) : y \notin {TopFold, BottomFold}
      BY DEF Rows
    <3>6. CASE p.focus = TopFold
      <4>1. row = NextSibling(p.dom, TopFold)
        BY <1>2, <3>3, <3>5, <3>6 DEF FocusRow
      <4> QED BY <3>3, <4>1
    <3>7. CASE p.focus = BottomFold
      <4>1. row = p.dom[i]
        BY <1>2, <3>4, <3>5, <3>7 DEF FocusRow, i
      <4> QED BY <3>4, <4>1
    <3> QED BY <2>4, <3>6, <3>7
  <2> QED BY <2>1, <2>2, <2>3, <2>4
<1>7. p.focus \in Ids \cup {TopFold, BottomFold, Null}
  BY DEF Ports, Node
<1>8. CASE p.anchor # Null /\ row = Null
  <2>1. q = p
    BY <1>8 DEF sync
  <2>2. p.focus = Null
    BY <1>2, <1>6, <1>7, <1>8
  <2>3. Remembered(p, index)
    BY <1>8, <2>2 DEF Selection
  <2>4. Selected(p, index) /\ p.anchor \in Kept(p)
    BY <1>2, <1>8, <2>3 DEF Remembered, Selected, Kept
  <2>5. Null \notin Ids
    BY Nodes DEF Node
  <2> QED BY <2>1, <2>2, <2>4, <2>5 DEF Synced
<1>9. CASE p.anchor # Null /\ row # Null
  <2>1. p.anchor \in Rows(p.dom) /\ row \in Rows(p.dom) /\ (p.focus \in Ids => row = p.focus)
    BY <1>6, <1>7, <1>9 DEF Selection
  <2> HIDE DEF row
  <2> DEFINE first == index[p.anchor] <= index[row]
             a == IF first THEN p.anchor ELSE row
             b == IF first THEN row ELSE p.anchor
             m == index[p.anchor] # index[row]
  <2>2. q = [p EXCEPT !.startRow = a, !.endRow = b, !.isMultiline = m]
    BY <1>9 DEF sync, row
  <2>3. /\ a \in Rows(p.dom) /\ b \in Rows(p.dom) /\ {a, b} = {p.anchor, row}
        /\ index[a] <= index[b] /\ (m <=> a # b) /\ a # Null /\ b # Null /\ m \in BOOLEAN
    <3>1. index[p.anchor] \in Nat /\ index[row] \in Nat
      BY <1>3, <2>1
    <3> QED BY <1>2, <1>4, <2>1, <3>1
  <2>4. q.startRow = a /\ q.endRow = b /\ q.isMultiline = m
    BY <2>2 DEF Ports
  <2> HIDE DEF a, b, m
  <2>5. /\ q \in Ports /\ q.dom = p.dom /\ q.anchor = p.anchor /\ q.focus = p.focus
        /\ (q.collapsed <=> p.collapsed)
        /\ q.cache = p.cache /\ q.visibleRowCount = p.visibleRowCount /\ q.window = p.window
        /\ q.scrollTop = p.scrollTop /\ q.lastRowCount = p.lastRowCount
        /\ (q.isScrolledEnd <=> p.isScrolledEnd) /\ (q.scrolled <=> p.scrolled)
        /\ (q.failed <=> p.failed)
    BY <1>1, <2>2, <2>3, ZenonT(40) DEF Ports
  <2> HIDE DEF q
  <2>6. Kept(q) = {p.anchor, row}
    BY <2>3, <2>4 DEF Kept
  <2>7. Selected(q, index)
    BY <2>1, <2>3, <2>4, <2>5, <2>6 DEF Selected
  <2>8. Synced(p, q, index)
    BY <2>1, <2>5, <2>6, <2>7 DEF Synced
  <2> QED BY <2>8 DEF q
<1> QED BY <1>5, <1>8, <1>9

----------------------------------------------------------------------------
\* Drawing the folds and the rows between them.
LEMMA AllDrawn ==
  ASSUME NEW p \in Ports, ~p.failed, NEW rows \in Seq(Ids), NEW index \in [Ids -> Nat],
         NEW top \in Nat, p.visibleRowCount \in Nat \ {0},
         NEW count \in Nat, count = RowsOfView(p, rows), top + count <= Len(rows),
         NEW bottom \in Int, bottom = top + p.visibleRowCount - 1,
         Numbering(rows, index), Fetches(p.cache, rows), Document(p.dom), Sorted(p.dom, index),
         Own(p.dom, rows, index), Selected(p, index),
         Len(rows) < p.visibleRowCount => \A x \in Rows(p.dom) : index[x] < Len(rows)
  PROVE  LET folded == drawTopFold_(p, index, top)
             both == drawBottomFold_(folded, index, bottom)
             end == drawVisibleRows_(both, rows, index, top, TRUE)
         IN  ~folded.failed /\ ~both.failed /\ RowsDrawnIn(p, end, rows, index, top, bottom, count)
<1> DEFINE folded == drawTopFold_(p, index, top)
           both == drawBottomFold_(folded, index, bottom)
           end == drawVisibleRows_(both, rows, index, top, TRUE)
<1> HIDE DEF folded, both, end
<1>1. /\ Moved(p, folded, Kept(p))
      /\ Injective(folded.dom)
      /\ TopFold \in ToSet(folded.dom)
      /\ Kept(p) \subseteq Rows(folded.dom)
      /\ Rows(folded.dom) \subseteq Rows(p.dom)
      /\ Sorted(folded.dom, index)
      /\ BottomFold \in ToSet(folded.dom) => Prec(folded.dom, TopFold, BottomFold)
      /\ TopDrawn(p, folded.dom, index, top)
  <2>1. /\ Injective(p.dom) /\ {TopFold, BottomFold} \subseteq ToSet(p.dom)
        /\ Prec(p.dom, TopFold, BottomFold)
    BY DEF Document
  <2>2. top \in Int
    OBVIOUS
  <2> QED BY <2>1, <2>2, TopFoldDrawn DEF folded
<1>2. /\ folded \in Ports /\ ~folded.failed /\ Kept(folded) = Kept(p)
      /\ folded.startRow = p.startRow /\ folded.endRow = p.endRow
      /\ folded.isMultiline = p.isMultiline
      /\ folded.cache = p.cache /\ folded.visibleRowCount = p.visibleRowCount
  BY <1>1 DEF Moved, SameSettings, Kept
<1>3. Selected(folded, index) /\ TopDrawn(folded, folded.dom, index, top)
  BY <1>1, <1>2 DEF Selected, TopDrawn
<1>4. top <= bottom
  OBVIOUS
<1>5. /\ Moved(folded, both, Kept(folded))
      /\ Document(both.dom)
      /\ Kept(folded) \subseteq Rows(both.dom)
      /\ Rows(both.dom) \subseteq Rows(folded.dom)
      /\ Sorted(both.dom, index)
      /\ TopDrawn(folded, both.dom, index, top)
      /\ BottomDrawn(folded, both.dom, index, bottom)
  <2>1. top \in Int /\ folded \in Ports /\ top <= bottom
    BY <1>2, <1>4
  <2>2. /\ Injective(folded.dom) /\ TopFold \in ToSet(folded.dom)
        /\ BottomFold \in ToSet(folded.dom) => Prec(folded.dom, TopFold, BottomFold)
        /\ Sorted(folded.dom, index) /\ Selected(folded, index)
        /\ TopDrawn(folded, folded.dom, index, top)
    BY <1>1, <1>3
  <2> QED BY <2>1, <2>2, BottomFoldDrawn, Zenon DEF both
<1>6. /\ both \in Ports /\ ~both.failed /\ Kept(both) = Kept(p)
      /\ both.cache = p.cache /\ both.visibleRowCount = p.visibleRowCount
      /\ both.dom \in Seq(Node)
  BY <1>2, <1>5 DEF Moved, SameSettings, Kept, Ports
<1>7. Moved(p, both, Kept(p))
  BY <1>1, <1>2, <1>5, MovedTwice
<1>8. Shape(both, both.dom, rows, index, top, bottom, 0)
  <2>1. Own(both.dom, rows, index)
    BY <1>1, <1>5 DEF Own
  <2>2. /\ Kept(both) \subseteq Rows(both.dom) /\ TopDrawn(both, both.dom, index, top)
        /\ BottomDrawn(both, both.dom, index, bottom)
    BY <1>2, <1>5, <1>6 DEF TopDrawn, BottomDrawn
  <2> QED BY <1>5, <1>6, <2>1, <2>2, ShapeBegins
<1>9. Len(rows) < both.visibleRowCount => \A x \in Kept(both) : index[x] < Len(rows)
  BY <1>1, <1>6
<1>10. /\ both.visibleRowCount \in Nat /\ count = RowsOfView(both, rows)
       /\ bottom = top + both.visibleRowCount - 1 /\ Fetches(both.cache, rows) /\ TRUE \in BOOLEAN
  BY <1>6 DEF RowsOfView
<1>11. RowsDrawnIn(both, end, rows, index, top, bottom, count)
  BY <1>6, <1>8, <1>9, <1>10, RowsDrawn DEF end
<1>12. RowsDrawnIn(p, end, rows, index, top, bottom, count)
  <2>1. Moved(both, end.port, Kept(p))
    BY <1>6, <1>11 DEF RowsDrawnIn
  <2>2. Moved(p, end.port, Kept(p))
    BY <1>7, <2>1, MovedTwice
  <2>3. Shape(p, end.port.dom, rows, index, top, bottom, count)
    BY <1>6, <1>11 DEF RowsDrawnIn, Shape, TopDrawn, BottomDrawn
  <2> QED BY <1>11, <2>2, <2>3 DEF RowsDrawnIn
<1> QED BY <1>2, <1>6, <1>12 DEF folded, both, end

\* The rows of the cache are in the document.
Caching(p, index) == \A i \in DOMAIN p.cache : p.cache[i] \in Rows(p.dom) /\ index[p.cache[i]] = i

\* What holds of a port whenever the rows of the document are in order.
Sound(p, rows, index) ==
  /\ p \in Ports /\ ~p.failed
  /\ p.scrollTop \in Nat /\ p.visibleRowCount \in Nat \ {0} /\ p.window \in Nat \ {0}
  /\ Document(p.dom) /\ Sorted(p.dom, index) /\ Own(p.dom, rows, index)
  /\ Caching(p, index)
  /\ Selection(p, index)

\* The port after a redraw.
Redrawn(p, r, rows, index) ==
  /\ Sound(r, rows, index)
  /\ Shown(r) = SubSeq(rows, r.scrollTop + 1, r.scrollTop + RowsOfView(p, rows))
  /\ r.visibleRowCount = p.window /\ r.window = p.window /\ r.lastRowCount = Len(rows)
  /\ Within(r.scrollTop, p.scrollTop, Len(rows) - p.window)
  /\ r.scrolled <=> p.scrolled \/ r.scrollTop # p.scrollTop
  /\ r.isScrolledEnd <=> r.scrollTop + r.window >= Len(rows)
  /\ \E x \in Rows(r.dom) : InView(r.dom, x)
  /\ Rows(r.dom) \subseteq Rows(p.dom) \cup ToSet(rows)
  /\ r.anchor = p.anchor /\ (r.collapsed <=> p.collapsed)
  /\ r.focus \in {p.focus, Null} /\ (p.anchor # Null /\ p.focus \in Ids => r.focus = p.focus)

\* A redraw shows the rows of the terminal at the scroll position, whatever was
\* shown before, throws no exception and leaves the selection (redraw_).
LEMMA RedrawDraws ==
  ASSUME NEW p, NEW rows \in Seq(Ids), NEW index \in [Ids -> Nat], Sound(p, rows, index),
         Len(rows) > 0, Numbering(rows, index),
         p.visibleRowCount # p.window
           => p.scrollTop = 0 \/ p.scrollTop + p.visibleRowCount <= Len(rows),
         Len(rows) < p.visibleRowCount => \A x \in Rows(p.dom) : index[x] < Len(rows)
  PROVE  Redrawn(p, redraw_(p, rows, index), rows, index)
<1> DEFINE s == sync(p, index)
           z == syncScrollHeight(s, rows)
           top == z.scrollTop
           bottom == getBottomRowIndex(p, top)
           folded == drawTopFold_(z, index, top)
           both == drawBottomFold_(folded, index, bottom)
           end == drawVisibleRows_(both, rows, index, top, TRUE)
           sized == syncRowNodesDimensions_(end.port)
           count == RowsOfView(z, rows)
           r == redraw_(p, rows, index)
<1>1. p \in Ports /\ ~p.failed /\ Synced(p, s, index)
  BY SyncSelects DEF Sound
<1> HIDE DEF s
<1>2. /\ s \in Ports /\ Scrolls(s, z, s.scrollTop) /\ z.lastRowCount = Len(rows)
      /\ z.isScrolledEnd = s.isScrolledEnd
  BY <1>1, HeightSynced DEF Synced
<1> HIDE DEF z
<1>3. /\ z \in Ports /\ ~z.failed /\ z.dom = p.dom /\ z.anchor = p.anchor /\ z.focus = p.focus
      /\ (z.collapsed <=> p.collapsed) /\ z.cache = p.cache
      /\ z.visibleRowCount = p.visibleRowCount /\ z.window = p.window
      /\ Within(top, p.scrollTop, Len(rows) - p.window)
      /\ (z.scrolled <=> p.scrolled \/ top # p.scrollTop)
      /\ Kept(z) = Kept(s) /\ Selected(z, index)
  <2>1. z.startRow = s.startRow /\ z.endRow = s.endRow /\ (z.isMultiline <=> s.isMultiline)
    BY <1>2 DEF Scrolls, SameDrawing
  <2>2. z.dom = s.dom /\ Selected(s, index)
    BY <1>1, <1>2 DEF Scrolls, SameDrawing, Synced
  <2>3. Kept(z) = Kept(s) /\ Selected(z, index)
    BY <2>1, <2>2 DEF Kept, Selected
  <2> QED BY <1>1, <1>2, <2>3 DEF Scrolls, SameDrawing, Synced
<1> DEFINE vis == p.visibleRowCount
<1>4. vis \in Nat \ {0} /\ p.window \in Nat \ {0} /\ p.scrollTop \in Nat /\ top \in Nat
  BY <1>3 DEF Sound, Within
<1>5. count \in Nat \ {0} /\ count <= vis /\ count <= Len(rows) /\ count \in {vis, Len(rows)}
  <2>1. Len(rows) \in Nat \ {0} /\ vis \in Int /\ Len(rows) \in Int
    BY <1>4
  <2>2. Smaller(Min({vis, Len(rows)}), vis, Len(rows))
    BY <2>1, MinTwo, Zenon
  <2>3. count = Min({vis, Len(rows)})
    BY <1>3 DEF RowsOfView
  <2> HIDE DEF count
  <2> QED BY <1>4, <2>1, <2>2, <2>3 DEF Smaller
<1>6. bottom \in Int /\ bottom = top + z.visibleRowCount - 1 /\ top + count - 1 <= bottom
  <2>1. bottom = top + vis - 1
    BY DEF getBottomRowIndex
  <2> HIDE DEF bottom, count, vis
  <2> QED BY <1>3, <1>4, <1>5, <2>1, SMTT(30) DEF vis
<1> HIDE DEF count, bottom
<1>7. top + count <= Len(rows)
  <2> DEFINE t == top
             w == p.window
             l == Len(rows)
  <2>1. t = 0 \/ t <= l - w
    BY <1>3 DEF Within
  <2>2. t <= p.scrollTop
    BY <1>3, <1>4 DEF Within
  <2>3. vis # w => p.scrollTop = 0 \/ p.scrollTop + vis <= l
    OBVIOUS
  <2>4. l \in Nat
    OBVIOUS
  <2> HIDE DEF vis, w, t, l
  <2>5. w \in Nat /\ vis \in Nat /\ t \in Nat /\ count <= vis /\ count <= l
    BY <1>4, <1>5 DEF w, vis, t, l
  <2> DEFINE st == p.scrollTop
  <2>8. st \in Nat /\ t <= st /\ (vis # w => st = 0 \/ st + vis <= l) /\ (t = 0 \/ t <= l - w)
    BY <1>4, <2>1, <2>2, <2>3 DEF t
  <2> HIDE DEF st
  <2>9. count \in Nat
    BY <1>5
  <2>10. t + count <= l
    BY ONLY <2>4, <2>5, <2>8, <2>9
  <2> QED BY <2>10 DEF t, l
<1>8. Fetches(z.cache, rows)
  BY <1>3, SMTT(30) DEF Sound, Caching, Fetches, Own
<1>9. ~folded.failed /\ ~both.failed /\ RowsDrawnIn(z, end, rows, index, top, bottom, count)
  <2>1. Document(z.dom) /\ Sorted(z.dom, index) /\ Own(z.dom, rows, index)
    BY <1>3 DEF Sound
  <2>2. Len(rows) < z.visibleRowCount => \A x \in Rows(z.dom) : index[x] < Len(rows)
    BY <1>3
  <2>3. z.visibleRowCount \in Nat \ {0} /\ count \in Nat /\ count = RowsOfView(z, rows)
    BY <1>3, <1>4, <1>5 DEF count
  <2> QED BY <1>3, <1>4, <1>6, <1>7, <1>8, <2>1, <2>2, <2>3, AllDrawn
<1> HIDE DEF folded, both, end
<1>10. /\ ~end.missing /\ end \in Drawing /\ Moved(z, end.port, Kept(z))
       /\ Shape(z, end.port.dom, rows, index, top, bottom, count)
       /\ \A x \in Rows(end.port.dom) : InView(end.port.dom, x) => Done(index, top, count, x)
       /\ Fetches(end.fetched, rows) /\ DOMAIN end.fetched \subseteq top .. top + count - 1
  BY <1>9 DEF RowsDrawnIn
<1> DEFINE q == end.port
<1>11. /\ q \in Ports /\ ~q.failed /\ q.visibleRowCount = vis /\ q.window = p.window
       /\ q.scrollTop = top /\ q.lastRowCount = Len(rows) /\ q.scrolled = z.scrolled
       /\ end.fetched \in Caches
  BY <1>2, <1>3, <1>10, SMTT(30) DEF Moved, SameSettings, Drawing
<1>12. r = [sized EXCEPT !.cache = end.fetched,
                         !.isScrolledEnd = top + sized.visibleRowCount >= sized.lastRowCount]
  <2>1. both = IF folded.failed THEN folded ELSE drawBottomFold_(folded, index, bottom)
    BY <1>9 DEF both
  <2>2. bottom = getBottomRowIndex(p, top)
    BY DEF bottom
  <2> HIDE DEF sized
  <2> QED BY <1>9, <1>10, <1>11, <2>1, <2>2 DEF redraw_, s, z, folded, both, end, sized, bottom
<1>13. sized = [q EXCEPT !.visibleRowCount = p.window]
  BY <1>11 DEF syncRowNodesDimensions_
<1> HIDE DEF sized, q
<1>14. /\ sized \in Ports /\ sized.visibleRowCount = p.window /\ sized.lastRowCount = Len(rows)
       /\ sized.dom = q.dom /\ sized.anchor = q.anchor /\ sized.focus = q.focus
       /\ sized.collapsed = q.collapsed /\ sized.startRow = q.startRow /\ sized.endRow = q.endRow
       /\ sized.isMultiline = q.isMultiline /\ sized.scrollTop = top /\ sized.window = p.window
       /\ sized.scrolled = z.scrolled /\ ~sized.failed
  BY <1>4, <1>11, <1>13 DEF Ports
<1>15. /\ r \in Ports /\ r.visibleRowCount = p.window /\ r.lastRowCount = Len(rows)
       /\ r.dom = q.dom /\ r.anchor = q.anchor /\ r.focus = q.focus
       /\ r.collapsed = q.collapsed /\ r.startRow = q.startRow /\ r.endRow = q.endRow
       /\ r.isMultiline = q.isMultiline /\ r.scrollTop = top /\ r.window = p.window
       /\ r.scrolled = z.scrolled /\ ~r.failed
       /\ r.cache = end.fetched
       /\ r.isScrolledEnd = (top + p.window >= Len(rows))
  <2>1. end.fetched \in UNION {[S -> Ids] : S \in SUBSET Nat}
    BY <1>11 DEF Caches
  <2> DEFINE e == top + sized.visibleRowCount >= sized.lastRowCount
  <2>2. e \in BOOLEAN /\ e = (top + p.window >= Len(rows))
    BY <1>14
  <2>3. r = [sized EXCEPT !.cache = end.fetched, !.isScrolledEnd = e]
    BY <1>12
  <2> HIDE DEF e, r
  <2>4. /\ r \in Ports
        /\ r.dom = sized.dom /\ r.anchor = sized.anchor /\ r.focus = sized.focus
        /\ r.collapsed = sized.collapsed /\ r.startRow = sized.startRow /\ r.endRow = sized.endRow
        /\ r.isMultiline = sized.isMultiline /\ r.scrollTop = sized.scrollTop
        /\ r.visibleRowCount = sized.visibleRowCount /\ r.window = sized.window
        /\ r.lastRowCount = sized.lastRowCount
        /\ r.scrolled = sized.scrolled /\ r.failed = sized.failed
        /\ r.cache = end.fetched /\ r.isScrolledEnd = e
    BY <1>14, <2>1, <2>2, <2>3 DEF Ports
  <2> QED BY <1>14, <2>2, <2>4
<1> HIDE DEF r
<1>16. Shown(r) = SubSeq(rows, top + 1, top + count) /\ Sorted(r.dom, index)
  <2>1. q.dom = r.dom
    BY <1>15
  <2>2. /\ Shape(z, r.dom, rows, index, top, bottom, count)
        /\ \A x \in Rows(r.dom) : InView(r.dom, x) => Done(index, top, count, x)
    BY <1>10, <2>1 DEF q
  <2> QED BY <1>4, <1>5, <1>6, <1>7, <1>15, <2>2, ShownDrawn
<1>17. /\ Shape(z, r.dom, rows, index, top, bottom, count)
       /\ \A x \in Rows(r.dom) : InView(r.dom, x) => Done(index, top, count, x)
       /\ r.dom \in Seq(Node)
  BY <1>10, <1>15 DEF q, Ports
<1>18. Caching(r, index)
  <2> SUFFICES ASSUME NEW i \in DOMAIN end.fetched
               PROVE  end.fetched[i] \in Rows(r.dom) /\ index[end.fetched[i]] = i
    BY <1>15 DEF Caching
  <2>1. i \in top .. top + count - 1
    BY <1>10
  <2>2. i \in Nat /\ i < Len(rows)
    BY <1>4, <1>5, <1>7, <2>1, SMTT(30)
  <2>3. end.fetched[i] = rows[i + 1]
    BY <1>10, <2>2 DEF Fetches
  <2>4. i + 1 \in DOMAIN rows /\ (i + 1) - 1 = i
    BY <2>2
  <2>5. InView(r.dom, rows[i + 1]) /\ rows[i + 1] \in Ids
    BY <1>17, <2>1, <2>4 DEF Shape, Drawings
  <2>6. rows[i + 1] \in Rows(r.dom)
    <3>1. Order(r.dom)
      BY <1>17, PrecOrder DEF Shape, Document
    <3> QED BY <2>5, <3>1 DEF InView, Order, Rows
  <2> QED BY <2>3, <2>4, <2>6 DEF Numbering
<1>19. /\ r.anchor \in {p.anchor, Null} /\ r.focus \in {p.focus, Null}
       /\ p.anchor = p.focus => r.anchor = r.focus
       /\ p.collapsed => r.collapsed
       /\ r.collapsed => p.collapsed \/ (r.anchor = Null /\ r.focus = Null)
       /\ p.anchor \in Kept(z) => r.anchor = p.anchor
       /\ p.focus \in Kept(z) => r.focus = p.focus
       /\ (r.anchor # Null => r.anchor \in ToSet(r.dom))
       /\ (r.focus # Null => r.focus \in ToSet(r.dom))
  <2>1. InDocument(z)
    BY <1>3 DEF InDocument, Sound, Selection, Rows
  <2> QED BY <1>3, <1>10, <1>15, <2>1 DEF Moved, InDocument, q
<1>20. r.anchor = p.anchor
  BY <1>1, <1>3, <1>19 DEF Synced
<1>21. p.anchor # Null /\ p.focus \in Ids => r.focus = p.focus
  BY <1>1, <1>3, <1>19 DEF Synced
<1>22. r.collapsed <=> p.collapsed
  BY <1>19, <1>20 DEF Sound, Selection
<1>23. \E x \in Rows(r.dom) : InView(r.dom, x)
  <2>1. top \in top .. top + count - 1
    BY <1>4, <1>5
  <2>2. InView(r.dom, rows[top + 1])
    BY <1>17, <2>1 DEF Shape, Drawings
  <2>3. Order(r.dom)
    BY <1>17, PrecOrder DEF Shape, Document
  <2> QED BY <2>2, <2>3 DEF InView, Order, Rows
<1>24. Selection(r, index)
  <2>1. r.anchor # Null => r.anchor \in Rows(r.dom)
    BY <1>19, <1>20 DEF Sound, Selection, Rows
  <2>2. r.anchor # Null => Remembered(r, index)
    <3> SUFFICES ASSUME p.anchor # Null PROVE Remembered(r, index)
      BY <1>20
    <3>1. p.anchor \in Kept(z) /\ Selected(z, index)
      BY <1>1, <1>3 DEF Synced
    <3>2. q.startRow = z.startRow /\ q.endRow = z.endRow /\ q.isMultiline = z.isMultiline
      BY <1>10 DEF Moved, SameSettings, q
    <3>3. Kept(z) \subseteq Rows(r.dom)
      BY <1>17 DEF Shape
    <3> QED BY <1>15, <1>20, <3>1, <3>2, <3>3 DEF Remembered, Selected, Kept
  <2>3. r.collapsed => r.anchor = r.focus
    BY <1>19, <1>22 DEF Sound, Selection
  <2>4. ~r.collapsed => r.anchor # Null
    BY <1>20, <1>22 DEF Sound, Selection
  <2> QED BY <1>19, <1>23, <2>1, <2>2, <2>3, <2>4 DEF Selection
<1>25. Rows(r.dom) \subseteq Rows(p.dom) \cup ToSet(rows)
  <2> SUFFICES ASSUME NEW x \in Rows(r.dom), x \notin ToSet(rows) PROVE x \in Rows(p.dom)
    OBVIOUS
  <2>1. Order(r.dom)
    BY <1>17, PrecOrder DEF Shape, Document
  <2>2. x \in Ids /\ index[x] \in Nat
    BY <1>17 DEF Rows, Node, ToSet
  <2>3. ~InView(r.dom, x)
    <3> SUFFICES ASSUME InView(r.dom, x) PROVE FALSE
      OBVIOUS
    <3>1. index[x] < Len(rows)
      <4> DEFINE v == index[x]
      <4>1. v < top + count /\ v \in Nat
        BY <1>17, <2>2 DEF Done
      <4> HIDE DEF v
      <4> QED BY <1>4, <1>5, <1>7, <4>1 DEF v
    <3>2. rows[index[x] + 1] = x
      BY <1>17, <3>1 DEF Shape, Own
    <3>3. index[x] + 1 \in DOMAIN rows
      BY <2>2, <3>1
    <3> QED BY <3>2, <3>3 DEF ToSet
  <2>4. Prec(r.dom, x, TopFold) \/ Prec(r.dom, BottomFold, x)
    BY <1>17, <2>1, <2>3 DEF InView, Order, Shape, Document, Rows
  <2>5. x \in Kept(z)
    BY <1>17, <2>4 DEF Shape, TopDrawn, BottomDrawn
  <2> QED BY <1>3, <2>5 DEF Selected
<1>26. Sound(r, rows, index)
  <2>1. r.scrollTop \in Nat /\ r.visibleRowCount \in Nat \ {0} /\ r.window \in Nat \ {0}
    BY <1>4, <1>15
  <2>2. Document(r.dom) /\ Own(r.dom, rows, index)
    BY <1>17 DEF Shape
  <2> QED BY <1>15, <1>16, <1>18, <1>24, <2>1, <2>2 DEF Sound
<1>27. count = RowsOfView(p, rows)
  BY <1>3 DEF count, RowsOfView
<1> QED BY <1>3, <1>15, <1>16, <1>19, <1>20, <1>21, <1>22, <1>23, <1>25, <1>26, <1>27 DEF Redrawn, r

----------------------------------------------------------------------------
\* The document while all rows of the view are drawn anew, when those from
\* top on are in it. None is below the view, those above it are in order.
Filled(dom, rows, index, top, n) ==
  /\ Document(dom)
  /\ Own(dom, rows, index)
  /\ \A x \in Rows(dom) : Prec(dom, x, BottomFold)
  /\ \A x \in Rows(dom) : InView(dom, x) <=> Done(index, top, n, x)
  /\ Drawings(dom, rows, top, n)
  /\ \A x, y \in Rows(dom) :
       Prec(dom, x, y) /\ (InView(dom, x) <=> InView(dom, y)) => index[x] < index[y]

\* The next row is put before the bottom fold.
LEMMA OneMoreFilled ==
  ASSUME NEW dom \in Seq(Node), NEW left \in Seq(Node), NEW rows \in Seq(Ids),
         NEW index \in [Ids -> Nat], NEW top \in Nat, NEW n \in Nat, top + n < Len(rows),
         Numbering(rows, index), Filled(dom, rows, index, top, n),
         NEW row, row = rows[top + n + 1], Inserted(left, dom, row, BottomFold)
  PROVE  Filled(left, rows, index, top, n + 1)
<1>1. Order(dom) /\ Order(left) /\ Document(dom)
  BY PrecOrder DEF Filled, Document, Inserted
<1>2. /\ row \in Ids /\ row \notin {TopFold, BottomFold, Null} /\ TopFold # BottomFold
      /\ BottomFold # Null
  <2>1. row \in Ids
    OBVIOUS
  <2> QED BY <2>1, Nodes DEF Node
<1>3. /\ Rows(dom) \subseteq Ids /\ Rows(left) = Rows(dom) \cup {row}
      /\ \A x \in Ids : index[x] \in Nat
  <2>1. Rows(dom) \subseteq Ids
    BY DEF Rows, Node, ToSet
  <2>2. ToSet(left) = ToSet(dom) \cup {row}
    BY DEF Inserted
  <2> QED BY <1>2, <2>1, <2>2 DEF Rows
<1>4. index[row] = top + n
  <2>1. top + n + 1 \in DOMAIN rows /\ (top + n + 1) - 1 = top + n
    OBVIOUS
  <2> QED BY <2>1 DEF Numbering
<1>5. /\ \A x, y : x # row /\ y # row => (Prec(left, x, y) <=> Prec(dom, x, y))
      /\ \A x : Prec(left, x, row) <=> x \in ToSet(dom) \ {row} /\ Prec(dom, x, BottomFold)
      /\ \A y : Prec(left, row, y) <=> y \in ToSet(dom) \ {row} /\ ~Prec(dom, y, BottomFold)
  BY <1>2 DEF Inserted
<1>6. \A y : Prec(left, row, y) <=> y = BottomFold
  <2>1. \A y \in ToSet(dom) : ~Prec(dom, y, BottomFold) <=> y = BottomFold
    BY <1>1 DEF Filled, Rows, Order, Document
  <2>2. BottomFold \in ToSet(dom) /\ BottomFold # row
    BY <1>1, <1>2 DEF Document
  <2> QED BY <1>5, <2>1, <2>2
<1>7. InView(left, row)
  BY <1>1, <1>2, <1>5, <1>6 DEF InView, Document
<1>8. \A x : x # row => (InView(left, x) <=> InView(dom, x))
  BY <1>2, <1>5 DEF InView
<1>9. Document(left)
  <2>1. Injective(left) /\ {TopFold, BottomFold} \subseteq ToSet(left)
    BY <1>1 DEF Document, Inserted
  <2>2. Prec(left, TopFold, BottomFold)
    BY <1>1, <1>2, <1>5 DEF Document
  <2> QED BY <2>1, <2>2 DEF Document
<1>10. Own(left, rows, index)
  <2>1. rows[index[row] + 1] = row
    BY <1>4
  <2> QED BY <1>3, <2>1 DEF Filled, Own
<1>11. \A x \in Rows(left) : Prec(left, x, BottomFold)
  BY <1>2, <1>3, <1>5, <1>6 DEF Filled
<1>12. ASSUME NEW x \in Rows(dom), x # row PROVE index[x] # top + n
  <2> SUFFICES ASSUME index[x] = top + n PROVE FALSE
    OBVIOUS
  <2>1. index[x] < Len(rows)
    OBVIOUS
  <2>2. rows[index[x] + 1] = x
    BY <2>1 DEF Filled, Own
  <2> QED BY <1>12, <2>2
<1>13. ASSUME NEW x \in Rows(left) PROVE InView(left, x) <=> Done(index, top, n + 1, x)
  <2>1. CASE x = row
    BY <1>4, <1>7, <2>1 DEF Done
  <2>2. CASE x # row
    <3>1. x \in Rows(dom) /\ index[x] \in Nat /\ index[x] # top + n
      BY <1>3, <1>12, <2>2
    <3>2. InView(left, x) <=> Done(index, top, n, x)
      BY <1>8, <2>2, <3>1 DEF Filled
    <3> DEFINE v == index[x]
    <3>3. v \in Nat /\ v # top + n
      BY <3>1
    <3> HIDE DEF v
    <3>4. v < top + n <=> v < top + (n + 1)
      BY <3>3
    <3> QED BY <3>2, <3>4 DEF Done, v
  <2> QED BY <2>1, <2>2
<1>14. Drawings(left, rows, top, n + 1)
  <2> SUFFICES ASSUME NEW k \in top .. top + (n + 1) - 1 PROVE InView(left, rows[k + 1])
    BY DEF Drawings
  <2>1. CASE k = top + n
    BY <1>7, <2>1
  <2>2. CASE k # top + n
    <3>1. k \in top .. top + n - 1
      BY <2>2
    <3>2. InView(dom, rows[k + 1])
      BY <3>1 DEF Filled, Drawings
    <3> QED BY <1>7, <1>8, <3>2
  <2> QED BY <2>1, <2>2
<1>15. ASSUME NEW x \in Rows(left), NEW y \in Rows(left), Prec(left, x, y),
              InView(left, x) <=> InView(left, y)
       PROVE  index[x] < index[y]
  <2>1. x # row
    BY <1>3, <1>6, <1>15 DEF Rows
  <2>2. CASE y = row
    <3>1. InView(dom, x) /\ x \in Rows(dom)
      BY <1>3, <1>7, <1>8, <1>15, <2>1, <2>2
    <3> DEFINE v == index[x]
    <3>2. v < top + n
      BY <3>1 DEF Filled, Done
    <3> QED BY <1>4, <2>2, <3>2
  <2>3. CASE y # row
    BY <1>3, <1>5, <1>8, <1>15, <2>1, <2>3 DEF Filled
  <2> QED BY <2>2, <2>3
<1> QED BY <1>9, <1>10, <1>11, <1>13, <1>14, <1>15 DEF Filled

\* A port whose view can be drawn anew: the rows that stay above the view are
\* in order, and belong there or into the view.
Refillable(p, rows, index) ==
  /\ p \in Ports /\ ~p.failed
  /\ p.scrollTop \in Nat /\ p.visibleRowCount \in Nat \ {0}
  /\ p.scrollTop + RowsOfView(p, rows) <= Len(rows)
  /\ Document(p.dom)
  /\ \A x \in Rows(p.dom) : ~Prec(p.dom, BottomFold, x)
  /\ \A x \in Rows(p.dom) : Prec(p.dom, x, TopFold) =>
       rows[index[x] + 1] = x /\ index[x] < p.scrollTop + RowsOfView(p, rows)
  /\ \A x, y \in Rows(p.dom) :
       Prec(p.dom, x, y) /\ Prec(p.dom, y, TopFold) => index[x] < index[y]
  /\ p.collapsed /\ p.anchor = p.focus
  /\ p.anchor # Null => p.anchor \in Rows(p.dom)

\* The port without the rows between the folds (invalidate).
Emptied(p) == [RemoveNodes(p, Inside(p.dom, TopFold, BottomFold)) EXCEPT !.cache = EmptyCache]

\* All rows between the folds are thrown out first.
LEMMA ViewEmptied ==
  ASSUME NEW p, NEW rows \in Seq(Ids), NEW index \in [Ids -> Nat], Refillable(p, rows, index)
  PROVE  /\ Emptied(p) \in Ports
         /\ Emptied(p).cache = EmptyCache
         /\ Moved([p EXCEPT !.cache = EmptyCache], Emptied(p), {})
         /\ Filled(Emptied(p).dom, rows, index, p.scrollTop, 0)
         /\ Rows(Emptied(p).dom) \subseteq Rows(p.dom)
         /\ \A x \in Rows(Emptied(p).dom) : index[x] < p.scrollTop + RowsOfView(p, rows)
<1> DEFINE gone == Inside(p.dom, TopFold, BottomFold)
           r == RemoveNodes(p, gone)
           e == Emptied(p)
           c == [p EXCEPT !.cache = EmptyCache]
<1>1. p \in Ports /\ Document(p.dom) /\ p.dom \in Seq(Node) /\ Injective(p.dom)
  BY DEF Refillable, Ports, Document
<1>2. Order(p.dom)
  BY <1>1, PrecOrder
<1>3. \A x : x \in gone <=> InView(p.dom, x)
  BY <1>1, BeforeFacts DEF Document, Inside, InView
<1>4. Moved(p, r, {}) /\ Remains(r.dom, p.dom, gone)
  <2>1. gone \cap {} = {}
    OBVIOUS
  <2> QED BY <1>1, <2>1, RemoveMoved
<1>5. r \in Ports
  BY <1>4 DEF Moved
<1> HIDE DEF r, gone
<1>6. e = [r EXCEPT !.cache = EmptyCache]
  BY DEF Emptied, r, gone
<1>7. EmptyCache \in Caches
  BY NothingCached
<1>8. /\ e \in Ports /\ e.cache = EmptyCache /\ e.dom = r.dom
      /\ c \in Ports /\ c.cache = EmptyCache
  BY <1>1, <1>5, <1>6, <1>7, ZenonT(40) DEF Ports, Caches
<1>9. Moved(c, e, {})
  <2>1. /\ e.startRow = r.startRow /\ e.endRow = r.endRow /\ e.isMultiline = r.isMultiline
        /\ e.scrollTop = r.scrollTop /\ e.lastRowCount = r.lastRowCount
        /\ e.visibleRowCount = r.visibleRowCount /\ e.window = r.window
        /\ e.isScrolledEnd = r.isScrolledEnd /\ e.scrolled = r.scrolled /\ e.failed = r.failed
        /\ e.anchor = r.anchor /\ e.focus = r.focus /\ e.collapsed = r.collapsed
    BY <1>5, <1>6 DEF Ports
  <2>2. /\ c.startRow = p.startRow /\ c.endRow = p.endRow /\ c.isMultiline = p.isMultiline
        /\ c.scrollTop = p.scrollTop /\ c.lastRowCount = p.lastRowCount
        /\ c.visibleRowCount = p.visibleRowCount /\ c.window = p.window
        /\ c.isScrolledEnd = p.isScrolledEnd /\ c.scrolled = p.scrolled /\ c.failed = p.failed
        /\ c.anchor = p.anchor /\ c.focus = p.focus /\ c.collapsed = p.collapsed
        /\ c.dom = p.dom
    BY <1>1 DEF Ports
  <2> HIDE DEF e, c
  <2>3. SameSettings(c, e)
    BY <1>4, <1>8, <2>1, <2>2 DEF Moved, SameSettings
  <2>4. InDocument(c) => InDocument(e)
    BY <1>4, <1>8, <2>1, <2>2 DEF Moved, InDocument
  <2> QED BY <1>4, <1>8, <2>1, <2>2, <2>3, <2>4 DEF Moved
<1> HIDE DEF e, c
<1>10. Rows(e.dom) = Rows(p.dom) \ gone
  BY <1>4, <1>8 DEF Remains, Rows
<1>11. \A x \in Rows(e.dom) : x \in Rows(p.dom) /\ Prec(p.dom, x, TopFold)
  BY <1>1, <1>2, <1>3, <1>10 DEF Refillable, InView, Order, Document, Rows
<1>12. /\ e.dom \in Seq(Node)
       /\ \A x, y : Prec(e.dom, x, y) => Prec(p.dom, x, y)
       /\ TopFold \notin gone /\ BottomFold \notin gone
  BY <1>2, <1>3, <1>4, <1>8 DEF Remains, Ports, InView, Order
<1>13. Document(e.dom)
  BY <1>1, <1>4, <1>8, <1>12 DEF Document, Remains
<1>14. Order(e.dom)
  BY <1>12, <1>13, PrecOrder DEF Document
<1>15. \A x \in Rows(e.dom) : Prec(e.dom, x, TopFold) /\ Prec(e.dom, x, BottomFold) /\ ~InView(e.dom, x)
  BY <1>4, <1>8, <1>10, <1>11, <1>12, <1>13, <1>14 DEF Remains, Document, InView, Order
<1>16. \A x \in Rows(e.dom) : ~Done(index, p.scrollTop, 0, x)
  <2> SUFFICES ASSUME NEW x \in Rows(e.dom) PROVE ~Done(index, p.scrollTop, 0, x)
    OBVIOUS
  <2>1. index[x] \in Nat
    BY <1>12 DEF Rows, Node, ToSet
  <2> QED BY <2>1 DEF Done, Refillable
<1>17. Own(e.dom, rows, index)
  BY <1>11 DEF Refillable, Own
<1>18. \A x, y \in Rows(e.dom) : Prec(e.dom, x, y) => index[x] < index[y]
  BY <1>11, <1>12 DEF Refillable
<1>19. Drawings(e.dom, rows, p.scrollTop, 0)
  BY DEF Drawings, Refillable
<1>20. Filled(e.dom, rows, index, p.scrollTop, 0)
  BY <1>13, <1>15, <1>16, <1>17, <1>18, <1>19 DEF Filled
<1> QED BY <1>8, <1>9, <1>10, <1>11, <1>20 DEF e, c, Refillable

\* The drawing of invalidate when n rows are drawn.
Refilled(d, c, e, rows, index, top, n, limit) ==
  /\ d \in Drawing /\ d.node = BottomFold /\ ~d.missing
  /\ Moved(c, d.port, {})
  /\ Filled(d.port.dom, rows, index, top, n)
  /\ Rows(d.port.dom) \subseteq Rows(e.dom) \cup ToSet(rows)
  /\ \A x \in Rows(d.port.dom) : index[x] < limit

\* One row is drawn into a view that was emptied.
LEMMA RowRefilled ==
  ASSUME NEW d, NEW c, NEW e, NEW rows \in Seq(Ids), NEW index \in [Ids -> Nat], NEW top \in Nat,
         NEW n \in Nat, NEW limit \in Nat, top + n < Len(rows), top + n < limit, Numbering(rows, index),
         ~c.failed, c.cache = EmptyCache, Refilled(d, c, e, rows, index, top, n, limit)
  PROVE  Refilled(DrawRow(d, rows, index, top + n, FALSE), c, e, rows, index, top, n + 1, limit)
<1> DEFINE row == rows[top + n + 1]
           q == InsertBefore(d.port, row, BottomFold)
           r == DrawRow(d, rows, index, top + n, FALSE)
<1>1. /\ d.port \in Ports /\ ~d.port.failed /\ d.port.cache = EmptyCache /\ d.node = BottomFold
      /\ ~d.missing /\ d.fetched \in Caches
      /\ Injective(d.port.dom) /\ d.port.dom \in Seq(Node) /\ BottomFold \in ToSet(d.port.dom)
  BY DEF Refilled, Moved, SameSettings, Drawing, Filled, Document, Ports
<1>2. top + n + 1 \in DOMAIN rows /\ row \in Ids /\ (top + n + 1) - 1 = top + n
  OBVIOUS
<1>3. index[row] = top + n /\ row \in ToSet(rows)
  BY <1>2 DEF Numbering, ToSet
<1>4. row # Null /\ row # BottomFold /\ row \in Node /\ BottomFold # Null
  BY <1>2, Nodes DEF Node
<1>5. fetchRowNode_(d.port.cache, rows, top + n) = row
  <2>1. top + n \notin DOMAIN d.port.cache
    BY <1>1, NothingCached
  <2>2. top + n \in 0 .. Len(rows) - 1
    OBVIOUS
  <2> QED BY <2>1, <2>2 DEF fetchRowNode_
<1> HIDE DEF row
<1>6. r = [d EXCEPT !.port = q]
  BY <1>1, <1>4, <1>5 DEF DrawRow
<1>7. Moved(d.port, q, {}) /\ Inserted(q.dom, d.port.dom, row, BottomFold)
  <2> DEFINE none == {}
             rest == ToSet(d.port.dom) \ {row}
             b == BottomFold
             p == d.port
  <2>1. row \notin none /\ b \in rest
    BY <1>1, <1>4
  <2>2. p \in Ports /\ Injective(p.dom) /\ row \in Node
    BY <1>1, <1>4
  <2>3. b = Null \/ b \in ToSet(p.dom) \ {row}
    BY <2>1
  <2> HIDE DEF none, b, p
  <2>4. Moved(p, InsertBefore(p, row, b), none) /\ Inserted(InsertBefore(p, row, b).dom, p.dom, row, b)
    BY <2>1, <2>2, <2>3, InsertMoved
  <2> QED BY <2>4 DEF none, b, p
<1> HIDE DEF q
<1>8. q \in Ports /\ q.dom \in Seq(Node)
  BY <1>7 DEF Moved, Ports
<1>9. r \in Drawing /\ r.node = BottomFold /\ ~r.missing /\ r.port = q
  BY <1>1, <1>6, <1>8 DEF Refilled, Drawing
<1> HIDE DEF r
<1>10. Moved(c, q, {})
  BY <1>7, MovedTwice DEF Refilled
<1>11. Filled(q.dom, rows, index, top, n + 1)
  <2>1. Filled(d.port.dom, rows, index, top, n)
    BY DEF Refilled
  <2> QED BY <1>1, <1>7, <1>8, <2>1, OneMoreFilled DEF row
<1>12. Rows(q.dom) \subseteq Rows(d.port.dom) \cup {row}
  BY <1>7 DEF Inserted, Rows
<1>13. \A x \in Rows(q.dom) : index[x] < limit
  BY <1>3, <1>12 DEF Refilled
<1>14. Rows(q.dom) \subseteq Rows(e.dom) \cup ToSet(rows)
  BY <1>3, <1>12 DEF Refilled
<1>15. Refilled(r, c, e, rows, index, top, n + 1, limit)
  BY <1>9, <1>10, <1>11, <1>13, <1>14 DEF Refilled
<1> QED BY <1>15 DEF r

\* The port after the view was drawn anew.
Invalidated(p, q, rows, index) ==
  /\ q \in Ports /\ ~q.failed /\ q.cache = EmptyCache
  /\ q.scrollTop = p.scrollTop /\ q.lastRowCount = p.lastRowCount
  /\ q.visibleRowCount = p.visibleRowCount /\ q.window = p.window
  /\ (q.isScrolledEnd <=> p.isScrolledEnd) /\ (q.scrolled <=> p.scrolled)
  /\ Document(q.dom) /\ Sorted(q.dom, index) /\ Own(q.dom, rows, index)
  /\ Shown(q) = SubSeq(rows, p.scrollTop + 1, p.scrollTop + RowsOfView(p, rows))
  /\ \E x \in Rows(q.dom) : InView(q.dom, x)
  /\ Rows(q.dom) \subseteq Rows(p.dom) \cup ToSet(rows)
  /\ q.collapsed /\ q.anchor = q.focus
  /\ q.anchor # Null => q.anchor \in Rows(q.dom)

\* All rows of the view are thrown out and drawn anew: the view shows the rows of
\* the terminal, even when their numbers have changed (invalidate).
LEMMA InvalidateDraws ==
  ASSUME NEW p, NEW rows \in Seq(Ids), NEW index \in [Ids -> Nat], Len(rows) > 0,
         Numbering(rows, index), Refillable(p, rows, index)
  PROVE  Invalidated(p, invalidate(p, rows, index), rows, index)
<1> DEFINE e == Emptied(p)
           c == [p EXCEPT !.cache = EmptyCache]
           top == p.scrollTop
           count == RowsOfView(p, rows)
           q == invalidate(p, rows, index)
           end == drawVisibleRows_(e, rows, index, top, FALSE)
<1>1. /\ e \in Ports /\ e.cache = EmptyCache /\ Moved(c, e, {}) /\ Filled(e.dom, rows, index, top, 0)
      /\ Rows(e.dom) \subseteq Rows(p.dom) /\ \A x \in Rows(e.dom) : index[x] < top + count
  BY ViewEmptied
<1>2. /\ p \in Ports /\ ~p.failed /\ top \in Nat /\ p.visibleRowCount \in Nat \ {0}
      /\ top + count <= Len(rows) /\ p.collapsed /\ p.anchor = p.focus
      /\ (p.anchor # Null => p.anchor \in Rows(p.dom))
  BY DEF Refillable
<1>3. count \in Nat \ {0}
  <2>1. Len(rows) \in Nat \ {0} /\ p.visibleRowCount \in Int /\ Len(rows) \in Int
    BY <1>2
  <2>2. Smaller(Min({p.visibleRowCount, Len(rows)}), p.visibleRowCount, Len(rows))
    BY <2>1, MinTwo, Zenon
  <2>3. count = Min({p.visibleRowCount, Len(rows)})
    BY DEF RowsOfView
  <2> HIDE DEF count
  <2> QED BY <1>2, <2>1, <2>2, <2>3 DEF Smaller
<1>4. /\ c.cache = EmptyCache /\ c.failed = p.failed /\ c.dom = p.dom /\ c.anchor = p.anchor
      /\ c.focus = p.focus /\ c.collapsed = p.collapsed /\ c.scrollTop = p.scrollTop
      /\ c.lastRowCount = p.lastRowCount /\ c.visibleRowCount = p.visibleRowCount
      /\ c.window = p.window /\ c.isScrolledEnd = p.isScrolledEnd /\ c.scrolled = p.scrolled
  BY <1>2 DEF Ports
<1>5. q = end.port
  BY DEF invalidate, Emptied
<1> HIDE DEF e, c, q, end
<1>6. count = RowsOfView(e, rows)
  BY <1>1, <1>4 DEF Moved, SameSettings, RowsOfView
<1> HIDE DEF count, top
<1>7. PICK drawn : /\ Steps(drawn, e, rows, index, top, FALSE, count)
                   /\ end = Finished(drawn[count], FALSE)
  <2>1. FALSE \in BOOLEAN
    OBVIOUS
  <2>2. Taken(e, rows, index, top, FALSE, count)
    BY <1>3, <1>6, <2>1, StepsTaken
  <2> QED BY <2>2 DEF Taken, end
<1> DEFINE Good(n) == Refilled(drawn[n], c, e, rows, index, top, n, top + count)
           S == {n \in Nat : n <= count => Good(n)}
<1>8. 0 \in S
  <2>1. drawn[0] = Begun(e)
    BY <1>7 DEF Steps
  <2>2. e.dom \in Seq(Node) /\ Injective(e.dom) /\ Order(e.dom) /\ Document(e.dom)
    BY <1>1, PrecOrder DEF Filled, Document, Ports
  <2>3. NextSibling(e.dom, TopFold) = BottomFold
    <3> DEFINE x == NextSibling(e.dom, TopFold)
    <3>1. Follows(e.dom, TopFold, x)
      BY <2>2, NextFollows DEF Document
    <3> HIDE DEF x
    <3>2. CASE x # BottomFold
      <4>1. Prec(e.dom, TopFold, x) /\ Prec(e.dom, x, BottomFold)
        BY <2>2, <3>1, <3>2 DEF Follows, Document
      <4>2. x \in Rows(e.dom) /\ InView(e.dom, x)
        BY <2>2, <3>2, <4>1 DEF Order, Rows, InView
      <4>3. x \in Ids /\ index[x] \in Nat
        BY <2>2, <4>2 DEF Rows, Node, ToSet
      <4> QED BY <1>1, <1>2, <4>2, <4>3 DEF Filled, Done, top
    <3> QED BY <3>2 DEF x
  <2>4. Begun(e) \in Drawing /\ Begun(e).node = BottomFold /\ ~Begun(e).missing /\ Begun(e).port = e
    BY <1>1, <2>3, NothingCached DEF Begun, Drawing, Node
  <2>5. Refilled(Begun(e), c, e, rows, index, top, 0, top + count)
    BY <1>1, <2>4 DEF Refilled, count, top
  <2> QED BY <2>1, <2>5
<1>9. ASSUME NEW n \in Nat, n \in S PROVE n + 1 \in S
  <2> SUFFICES ASSUME n + 1 <= count PROVE Good(n + 1)
    OBVIOUS
  <2>1. Refilled(drawn[n], c, e, rows, index, top, n, top + count)
    BY <1>3, <1>9
  <2>2. n + 1 \in 1 .. count /\ (n + 1) - 1 = n
    BY <1>3
  <2>3. top \in Nat /\ top + (n + 1) - 1 = top + n /\ top + n < top + count /\ top + n < Len(rows)
        /\ top + count \in Nat
    <3>1. top \in Nat /\ count \in Nat /\ Len(rows) \in Nat /\ top + count <= Len(rows)
      BY <1>2, <1>3 DEF top
    <3> QED BY <3>1
  <2>4. drawn[n + 1] = DrawRow(drawn[n], rows, index, top + n, FALSE)
    BY <1>7, <2>2, <2>3 DEF Steps
  <2>5. ~c.failed /\ c.cache = EmptyCache
    BY <1>2, <1>4
  <2>6. Refilled(DrawRow(drawn[n], rows, index, top + n, FALSE), c, e, rows, index, top, n + 1, top + count)
    BY <2>1, <2>3, <2>5, RowRefilled
  <2> QED BY <2>4, <2>6
<1>10. Good(count)
  <2> HIDE DEF Good
  <2>1. \A n \in Nat : n \in S
    <3> HIDE DEF S
    <3> QED BY <1>8, <1>9, SetInduction
  <2> QED BY <1>3, <2>1
<1> DEFINE d == drawn[count]
<1>11. /\ d \in Drawing /\ d.node = BottomFold /\ ~d.missing
       /\ Moved(c, d.port, {})
       /\ Filled(d.port.dom, rows, index, top, count)
       /\ Rows(d.port.dom) \subseteq Rows(e.dom) \cup ToSet(rows)
       /\ \A x \in Rows(d.port.dom) : index[x] < top + count
  BY <1>10 DEF Refilled
<1> HIDE DEF d
<1>12. q = d.port
  <2>1. ~d.port.failed /\ ~d.missing
    BY <1>2, <1>4, <1>11 DEF Moved, SameSettings
  <2>2. end = [d EXCEPT !.port = removeUntilNode(@, BottomFold, BottomFold)]
    BY <1>7, <1>11, <2>1 DEF Finished, d
  <2>3. end = [d EXCEPT !.port = d.port]
    BY <2>2 DEF removeUntilNode
  <2>4. d \in Drawing
    BY <1>11
  <2> QED BY <1>5, <2>3, <2>4 DEF Drawing
<1>13. /\ Moved(c, q, {}) /\ q \in Ports
       /\ Filled(q.dom, rows, index, top, count)
       /\ Rows(q.dom) \subseteq Rows(p.dom) \cup ToSet(rows)
       /\ \A x \in Rows(q.dom) : index[x] < top + count
  BY <1>1, <1>11, <1>12 DEF Moved
<1>14. /\ q.dom \in Seq(Node) /\ Document(q.dom) /\ Order(q.dom)
       /\ Rows(q.dom) \subseteq Ids /\ \A x \in Rows(q.dom) : index[x] \in Nat
  <2>1. q.dom \in Seq(Node) /\ Document(q.dom)
    BY <1>13 DEF Filled, Ports
  <2> QED BY <2>1, PrecOrder DEF Document, Rows, Node, ToSet
<1>15. Own(q.dom, rows, index) /\ Drawings(q.dom, rows, top, count)
  BY <1>13 DEF Filled
<1>16. top \in Nat /\ count \in Nat /\ top + count <= Len(rows)
  BY <1>2, <1>3 DEF top
<1>17. ASSUME NEW x \in Rows(q.dom) PROVE rows[index[x] + 1] = x
  <2> DEFINE v == index[x]
  <2>1. v \in Nat /\ v < top + count
    BY <1>13, <1>14
  <2> HIDE DEF v
  <2>2. v < Len(rows)
    BY <1>16, <2>1
  <2> QED BY <1>15, <2>2 DEF Own, v
<1>18. ASSUME NEW x \in Rows(q.dom), ~InView(q.dom, x) PROVE index[x] < top
  <2>1. ~Done(index, top, count, x)
    BY <1>13, <1>18 DEF Filled
  <2> DEFINE v == index[x]
  <2>2. v \in Nat /\ v < top + count
    BY <1>13, <1>14
  <2> HIDE DEF v
  <2> QED BY <1>16, <2>1, <2>2 DEF Done, v
<1>19. Sorted(q.dom, index)
  <2> SUFFICES ASSUME NEW x \in Rows(q.dom), NEW y \in Rows(q.dom), Prec(q.dom, x, y)
               PROVE  index[x] < index[y]
    BY DEF Sorted
  <2>1. CASE InView(q.dom, x) <=> InView(q.dom, y)
    BY <1>13, <2>1 DEF Filled
  <2>2. CASE InView(q.dom, x) /\ ~InView(q.dom, y)
    <3>1. Prec(q.dom, TopFold, y) /\ Prec(q.dom, y, BottomFold)
      BY <1>13, <1>14, <2>2 DEF InView, Order, Filled
    <3> QED BY <2>2, <3>1 DEF InView
  <2>3. CASE ~InView(q.dom, x) /\ InView(q.dom, y)
    <3>1. top <= index[y]
      BY <1>13, <2>3 DEF Filled, Done
    <3> DEFINE a == index[x]
               b == index[y]
    <3>2. a < top /\ top <= b /\ a \in Nat /\ b \in Nat
      BY <1>14, <1>18, <2>3, <3>1
    <3> HIDE DEF a, b
    <3>3. a < b
      BY <1>16, <3>2
    <3> QED BY <3>3 DEF a, b
  <2> QED BY <2>1, <2>2, <2>3
<1>20. Shown(q) = SubSeq(rows, top + 1, top + count)
  <2>1. \A x \in Rows(q.dom) : InView(q.dom, x) => Done(index, top, count, x) /\ rows[index[x] + 1] = x
    BY <1>13, <1>17 DEF Filled
  <2>2. \A x, y \in Rows(q.dom) :
          InView(q.dom, x) /\ InView(q.dom, y) /\ Prec(q.dom, x, y) => index[x] < index[y]
    BY <1>19 DEF Sorted
  <2> QED BY <1>13, <1>14, <1>15, <1>16, <2>1, <2>2, ViewShown
<1>21. \E x \in Rows(q.dom) : InView(q.dom, x)
  <2>1. top \in top .. top + count - 1
    BY <1>3, <1>16
  <2>2. InView(q.dom, rows[top + 1])
    BY <1>15, <2>1 DEF Drawings
  <2> QED BY <1>14, <2>2 DEF InView, Order, Rows
<1>22. /\ q.collapsed /\ q.anchor = q.focus /\ (q.anchor # Null => q.anchor \in Rows(q.dom))
  <2>1. InDocument(c)
    BY <1>2, <1>4 DEF InDocument, Rows
  <2>2. InDocument(q) /\ q.collapsed /\ q.anchor = q.focus /\ q.anchor \in {p.anchor, Null}
    BY <1>2, <1>4, <1>13, <2>1 DEF Moved
  <2> QED BY <1>2, <2>2 DEF InDocument, Rows
<1> QED BY <1>2, <1>4, <1>13, <1>14, <1>15, <1>19, <1>20, <1>21, <1>22
        DEF Invalidated, Moved, SameSettings, q, top, count

----------------------------------------------------------------------------
\* a is the beginning of s up to k, and b the rest.
Parts(D, s, k, a, b) ==
  /\ a \in Seq(D) /\ Len(a) = k /\ \A i \in 1 .. k : a[i] = s[i]
  /\ b \in Seq(D) /\ Len(b) = Len(s) - k /\ \A i \in 1 .. Len(s) - k : b[i] = s[k + i]
  /\ a \o b = s

\* A sequence and its two parts.
LEMMA SplitFacts ==
  ASSUME NEW D, NEW s \in Seq(D), NEW k \in 0 .. Len(s)
  PROVE  Parts(D, s, k, SubSeq(s, 1, k), SubSeq(s, k + 1, Len(s)))
<1> DEFINE a == SubSeq(s, 1, k)
           b == SubSeq(s, k + 1, Len(s))
<1>1. Len(s) \in Nat /\ k \in Nat /\ k <= Len(s) /\ \A i \in 1 .. Len(s) : s[i] \in D
  OBVIOUS
<1>2. a \in Seq(D) /\ Len(a) = k /\ \A i \in 1 .. k : a[i] = s[i]
  BY <1>1, SubSeqProperties
<1>3. b \in Seq(D) /\ Len(b) = Len(s) - k /\ \A i \in 1 .. Len(s) - k : b[i] = s[k + i]
  BY <1>1, SubSeqProperties
<1> HIDE DEF a, b
<1> DEFINE c == a \o b
           n == Len(s)
<1>4. /\ c \in Seq(D) /\ Len(c) = Len(a) + Len(b)
      /\ \A i \in 1 .. Len(a) : c[i] = a[i]
      /\ \A i \in Len(a) + 1 .. Len(a) + Len(b) : c[i] = b[i - Len(a)]
  BY <1>2, <1>3
<1> HIDE DEF c, n
<1>5. /\ n \in Nat /\ k \in Nat /\ k <= n /\ Len(a) = k /\ Len(b) = n - k
      /\ \A i \in 1 .. n - k : b[i] = s[k + i]
  BY <1>1, <1>2, <1>3 DEF n
<1>6. Len(c) = n
  BY <1>4, <1>5
<1>7. ASSUME NEW i \in 1 .. n PROVE c[i] = s[i]
  <2>1. CASE i <= k
    BY <1>2, <1>4, <1>5, <2>1
  <2>2. CASE i > k
    <3> DEFINE j == i - k
    <3>1. i \in k + 1 .. k + (n - k)
      BY <1>5, <2>2
    <3>2. c[i] = b[j]
      BY <1>4, <1>5, <3>1
    <3>3. j \in 1 .. n - k /\ k + j = i
      BY <1>5, <2>2
    <3> HIDE DEF j
    <3>4. b[j] = s[k + j]
      BY <1>5, <3>3
    <3> QED BY <3>2, <3>3, <3>4
  <2> QED BY <1>5, <2>1, <2>2
<1>8. c = s
  <2>1. \A i \in 1 .. Len(c) : c[i] = s[i]
    BY <1>6, <1>7
  <2>2. Len(c) = Len(s) /\ c \in Seq(D)
    BY <1>4, <1>6 DEF n
  <2> QED BY <2>1, <2>2, SeqEqual
<1>9. Parts(D, s, k, a, b)
  BY <1>2, <1>3, <1>8 DEF c, Parts
<1> QED BY <1>9 DEF a, b

\* c is a and then b.
Chained(D, a, b, c) ==
  /\ c \in Seq(D) /\ Len(c) = Len(a) + Len(b)
  /\ \A i \in 1 .. Len(a) : c[i] = a[i]
  /\ \A i \in 1 .. Len(b) : c[Len(a) + i] = b[i]
  /\ ToSet(c) = ToSet(a) \cup ToSet(b)
  /\ Injective(c) <=> Injective(a) /\ Injective(b) /\ \A x \in ToSet(a) : x \notin ToSet(b)

\* What one sequence behind another has.
LEMMA ConcatFacts ==
  ASSUME NEW D, NEW a \in Seq(D), NEW b \in Seq(D)
  PROVE  Chained(D, a, b, a \o b)
<1> DEFINE c == a \o b
           n == Len(a)
           m == Len(b)
<1>1. c \in Seq(D) /\ Len(c) = n + m /\ n \in Nat /\ m \in Nat
  OBVIOUS
<1>2. ASSUME NEW i \in 1 .. n PROVE c[i] = a[i]
  OBVIOUS
<1>3. ASSUME NEW i \in 1 .. m PROVE c[n + i] = b[i]
  OBVIOUS
<1>4. DOMAIN a = 1 .. n /\ DOMAIN b = 1 .. m /\ DOMAIN c = 1 .. n + m
  OBVIOUS
<1> HIDE DEF c, n, m
<1>5. /\ \A i \in 1 .. n : i \in DOMAIN c
      /\ \A i \in 1 .. m : n + i \in DOMAIN c
      /\ \A i \in DOMAIN c : i \in 1 .. n \/ \E j \in 1 .. m : i = n + j
  <2>1. ASSUME NEW i \in 1 .. n + m, i \notin 1 .. n PROVE \E j \in 1 .. m : i = n + j
    <3>1. i - n \in 1 .. m /\ i = n + (i - n)
      BY <1>1, <2>1
    <3> QED BY <3>1
  <2>2. \A i \in 1 .. n : i \in 1 .. n + m
    BY <1>1
  <2>3. \A i \in 1 .. m : n + i \in 1 .. n + m
    BY <1>1
  <2> QED BY <1>4, <2>1, <2>2, <2>3
<1>6. ToSet(c) = ToSet(a) \cup ToSet(b)
  <2>1. \A i \in DOMAIN c : c[i] \in ToSet(a) \cup ToSet(b)
    BY <1>2, <1>3, <1>4, <1>5 DEF ToSet
  <2>2. \A i \in 1 .. n : a[i] \in ToSet(c)
    BY <1>2, <1>5 DEF ToSet
  <2>3. \A i \in 1 .. m : b[i] \in ToSet(c)
    BY <1>3, <1>5 DEF ToSet
  <2> QED BY <1>4, <2>1, <2>2, <2>3 DEF ToSet
<1>7. ASSUME Injective(c) PROVE Injective(a) /\ Injective(b) /\ \A x \in ToSet(a) : x \notin ToSet(b)
  <2>1. Injective(a)
    BY <1>2, <1>4, <1>5, <1>7 DEF Injective
  <2>2. ASSUME NEW i \in 1 .. m, NEW j \in 1 .. m, b[i] = b[j] PROVE i = j
    <3>1. n + i = n + j
      BY <1>3, <1>5, <1>7, <2>2 DEF Injective
    <3> QED BY <1>1, <3>1
  <2>3. ASSUME NEW i \in 1 .. n, NEW j \in 1 .. m PROVE a[i] # b[j]
    <3>1. i # n + j
      BY <1>1
    <3> QED BY <1>2, <1>3, <1>5, <1>7, <3>1 DEF Injective
  <2> QED BY <1>4, <2>1, <2>2, <2>3 DEF Injective, ToSet
<1>8. ASSUME Injective(a), Injective(b), \A x \in ToSet(a) : x \notin ToSet(b) PROVE Injective(c)
  <2> SUFFICES ASSUME NEW i \in DOMAIN c, NEW j \in DOMAIN c, c[i] = c[j] PROVE i = j
    BY DEF Injective
  <2>1. \A k \in 1 .. n, l \in 1 .. m : a[k] # b[l]
    BY <1>4, <1>8 DEF ToSet
  <2>2. CASE i \in 1 .. n
    <3>1. j \in 1 .. n
      BY <1>2, <1>3, <1>5, <2>1, <2>2
    <3> QED BY <1>2, <1>4, <1>8, <2>2, <3>1 DEF Injective
  <2>3. CASE i \notin 1 .. n
    <3>1. PICK k \in 1 .. m : i = n + k
      BY <1>5, <2>3
    <3>2. j \notin 1 .. n
      BY <1>2, <1>3, <2>1, <3>1
    <3>3. PICK l \in 1 .. m : j = n + l
      BY <1>5, <3>2
    <3>4. b[k] = b[l]
      BY <1>3, <3>1, <3>3
    <3> QED BY <1>4, <1>8, <3>1, <3>3, <3>4 DEF Injective
  <2> QED BY <2>2, <2>3
<1>9. Chained(D, a, b, c)
  BY <1>1, <1>2, <1>3, <1>6, <1>7, <1>8 DEF Chained, n, m
<1> QED BY <1>9 DEF c

\* Three sequences, one behind another.
Joined(x, y, z) == (x \o y) \o z = x \o (y \o z)

\* It does not matter which two are joined first.
LEMMA ConcatThree ==
  ASSUME NEW x \in Seq(Ids), NEW y \in Seq(Ids), NEW z \in Seq(Ids)
  PROVE  Joined(x, y, z)
BY ConcatAssociative DEF Joined

\* The parts of a terminal.
Names == {"primary", "alternate"}

\* The screen that is not named.
Other(name) == IF name = "primary" THEN "alternate" ELSE "primary"

\* The terminals there are.
Terms == [scrollback : Seq(Ids), screens : [Names -> Seq(Ids)], current : Names,
          height : Int, cursor : Int]

\* The rows of the screen that is not shown.
Hidden(t) == t.screens[Other(t.current)]

\* No row is in two places.
Distinct(t) ==
  /\ Injective(AllRows(t)) /\ Injective(Hidden(t))
  /\ ToSet(AllRows(t)) \cap ToSet(Hidden(t)) = {}

\* A terminal whose screen has as many rows as the terminal has, with the cursor in it.
Terminal(t) ==
  /\ t \in Terms /\ Distinct(t)
  /\ t.height \in Nat \ {0} /\ Len(ScreenRows(t)) = t.height
  /\ t.cursor \in 0 .. t.height - 1

\* u is t with another scrollback and other rows on its screen.
Replaced(t, u, scrollback, rows) ==
  /\ u \in Terms /\ u.current = t.current
  /\ u.scrollback = scrollback /\ ScreenRows(u) = rows /\ Hidden(u) = Hidden(t)
  /\ AllRows(u) = scrollback \o rows

\* A terminal with a new height, scrollback, screen and cursor.
Renewed(t, height, scrollback, rows, cursor) ==
  [t EXCEPT !.height = height, !.scrollback = scrollback, !.screens[t.current] = rows, !.cursor = cursor]

\* The other screen stays when the one that is shown is replaced.
LEMMA ScreenReplaced ==
  ASSUME NEW t \in Terms, NEW scrollback \in Seq(Ids), NEW rows \in Seq(Ids),
         NEW height \in Int, NEW cursor \in Int
  PROVE  /\ Replaced(t, Renewed(t, height, scrollback, rows, cursor), scrollback, rows)
         /\ Renewed(t, height, scrollback, rows, cursor).height = height
         /\ Renewed(t, height, scrollback, rows, cursor).cursor = cursor
<1> DEFINE screens == [t.screens EXCEPT ![t.current] = rows]
           u == Renewed(t, height, scrollback, rows, cursor)
<1>1. t.current \in Names /\ t.screens \in [Names -> Seq(Ids)]
  BY DEF Terms
<1>2. screens \in [Names -> Seq(Ids)] /\ screens[t.current] = rows
  BY <1>1
<1>3. Other(t.current) # t.current /\ Other(t.current) \in Names
  BY <1>1 DEF Other, Names
<1>4. screens[Other(t.current)] = t.screens[Other(t.current)]
  BY <1>1, <1>3
<1>5. u = [t EXCEPT !.height = height, !.scrollback = scrollback, !.screens = screens,
                    !.cursor = cursor]
  BY DEF Terms, Renewed
<1> HIDE DEF screens, u
<1>6. /\ u \in Terms /\ u.current = t.current /\ u.scrollback = scrollback
      /\ u.screens = screens /\ u.height = height /\ u.cursor = cursor
  BY <1>2, <1>5 DEF Terms
<1>7. Replaced(t, u, scrollback, rows)
  BY <1>2, <1>4, <1>6 DEF Replaced, ScreenRows, Hidden, AllRows
<1> QED BY <1>6, <1>7 DEF u

\* The rows of a terminal are rows.
LEMMA RowsOfTerminal ==
  ASSUME NEW t \in Terms
  PROVE  /\ ScreenRows(t) \in Seq(Ids) /\ Hidden(t) \in Seq(Ids) /\ AllRows(t) \in Seq(Ids)
         /\ t.scrollback \in Seq(Ids)
         /\ RowCount(t) = Len(t.scrollback) + Len(ScreenRows(t))
         /\ RowCount(t) \in Nat
<1>1. t.current \in Names /\ Other(t.current) \in Names /\ t.screens \in [Names -> Seq(Ids)]
  BY DEF Terms, Other, Names
<1>2. ScreenRows(t) \in Seq(Ids) /\ Hidden(t) \in Seq(Ids) /\ t.scrollback \in Seq(Ids)
  BY <1>1 DEF ScreenRows, Hidden, Terms
<1> QED BY <1>2 DEF AllRows, RowCount

\* The rows of u are those of t and new ones.
Lengthened(t, u, new) == AllRows(u) = AllRows(t) \o new

\* u is t with rows added at the end.
Extended(t, u, new) ==
  /\ u \in Terms /\ u.current = t.current /\ u.height = t.height /\ Hidden(u) = Hidden(t)
  /\ AllRows(u) = AllRows(t) \o new

\* appendRows_ adds rows at the end of all rows, whatever scrolls off.
LEMMA AppendedFacts ==
  ASSUME NEW t \in Terms, t.height \in Nat \ {0}, NEW new \in Seq(Ids), NEW n, n = Len(ScreenRows(t)),
         NEW m, m = Len(new)
  PROVE  /\ Extended(t, Appended(t, new), new)
         /\ n + m <= t.height => Len(ScreenRows(Appended(t, new))) = n + m
         /\ n + m >= t.height => Len(ScreenRows(Appended(t, new))) = t.height
         /\ n = t.height /\ m = 1 => Appended(t, new).cursor = t.height - 1
<1> DEFINE rows == ScreenRows(t) \o new
           h == t.height
           extra == Max({Len(rows) - h, 0})
           a == SubSeq(rows, 1, extra)
           b == SubSeq(rows, extra + 1, Len(rows))
           u == Appended(t, new)
           cursor == Min({n, Len(rows) - extra - 1})
<1>1. /\ t.scrollback \in Seq(Ids) /\ rows \in Seq(Ids) /\ ScreenRows(t) \in Seq(Ids)
      /\ n \in Nat /\ m \in Nat /\ Len(rows) = n + m /\ h \in Nat \ {0}
  BY RowsOfTerminal
<1>2. u = [t EXCEPT !.scrollback = t.scrollback \o a, !.screens[t.current] = b, !.cursor = cursor]
  BY DEF Appended, Terms
<1>3. u = [t EXCEPT !.height = h, !.scrollback = t.scrollback \o a, !.screens[t.current] = b,
                    !.cursor = cursor]
  BY <1>2 DEF Terms
<1> HIDE DEF h, u
<1>4. Larger(extra, Len(rows) - h, 0)
  <2> DEFINE d == Len(rows) - h
  <2>1. d \in Int /\ 0 \in Int
    BY <1>1
  <2> HIDE DEF d
  <2>2. Larger(Max({d, 0}), d, 0)
    BY <2>1, MinTwo
  <2> QED BY <2>2 DEF d
<1>5. Smaller(cursor, n, Len(rows) - extra - 1) /\ cursor \in Int
  <2> DEFINE d == Len(rows) - extra - 1
  <2>1. d \in Int /\ n \in Int
    BY <1>1, <1>4 DEF Larger
  <2> HIDE DEF d
  <2>2. Smaller(Min({n, d}), n, d)
    BY <2>1, MinTwo
  <2> QED BY <2>1, <2>2 DEF d, Smaller
<1> DEFINE l == Len(rows)
<1> HIDE DEF extra, cursor, l
<1>6. l = n + m /\ l \in Nat /\ extra \in 0 .. l /\ h \in Nat \ {0}
  BY <1>1, <1>4 DEF Larger, l
<1>7. /\ a \in Seq(Ids) /\ b \in Seq(Ids) /\ Len(b) = l - extra /\ a \o b = rows
  <2> HIDE DEF rows
  <2>1. extra \in 0 .. Len(rows)
    BY <1>6 DEF l
  <2>2. Parts(Ids, rows, extra, a, b)
    BY <1>1, <2>1, SplitFacts
  <2> HIDE DEF a, b
  <2> QED BY <2>2 DEF l, Parts
<1> HIDE DEF rows, a, b
<1>8. t.scrollback \o a \in Seq(Ids)
  BY <1>1, <1>7
<1> DEFINE s == t.scrollback \o a
<1>9. s \in Seq(Ids) /\ u = Renewed(t, h, s, b, cursor)
  BY <1>3, <1>8 DEF Renewed
<1> HIDE DEF s
<1>10. Replaced(t, u, s, b) /\ u.height = h /\ u.cursor = cursor
  BY <1>5, <1>6, <1>7, <1>9, ScreenReplaced
<1>11. AllRows(u) = AllRows(t) \o new
  <2>1. AllRows(u) = (t.scrollback \o a) \o b
    BY <1>10 DEF Replaced, s
  <2>2. (t.scrollback \o a) \o b = t.scrollback \o (a \o b)
    <3> t.scrollback \in Seq(Ids) /\ a \in Seq(Ids) /\ b \in Seq(Ids)
      BY <1>1, <1>7
    <3> Joined(t.scrollback, a, b)
      BY ConcatThree
    <3> QED BY DEF Joined
  <2>3. (t.scrollback \o ScreenRows(t)) \o new = t.scrollback \o (ScreenRows(t) \o new)
    <3> t.scrollback \in Seq(Ids) /\ ScreenRows(t) \in Seq(Ids) /\ new \in Seq(Ids)
      BY <1>1
    <3> Joined(t.scrollback, ScreenRows(t), new)
      BY ConcatThree
    <3> QED BY DEF Joined
  <2> QED BY <1>7, <2>1, <2>2, <2>3 DEF AllRows, rows
<1>12. Extended(t, u, new)
  BY <1>10, <1>11 DEF Replaced, Extended, h
<1>13. Len(ScreenRows(u)) = l - extra
  BY <1>7, <1>10 DEF Replaced
<1>14. /\ l <= h => l - extra = l
       /\ l >= h => l - extra = h
       /\ n = h /\ m = 1 => cursor = h - 1
  <2>1. extra \in {l - h, 0} /\ extra >= l - h /\ extra >= 0
    BY <1>4 DEF Larger, l
  <2>2. cursor \in {n, l - extra - 1} /\ cursor <= n /\ cursor <= l - extra - 1
    BY <1>5 DEF Smaller, l
  <2>3. n \in Nat /\ m \in Nat /\ l \in Nat /\ h \in Nat \ {0} /\ l = n + m /\ extra \in 0 .. l
    BY <1>1, <1>6
  <2>4. l <= h => extra = 0
    BY <2>1, <2>3
  <2>5. l >= h => extra = l - h
    BY <2>1, <2>3
  <2>6. n = h /\ m = 1 => extra = 1 /\ cursor = h - 1
    BY <2>2, <2>3, <2>5
  <2> QED BY <2>3, <2>4, <2>5, <2>6
<1> QED BY <1>6, <1>10, <1>12, <1>13, <1>14 DEF u, h

\* What numbering some rows from a place on does to all of them.
LEMMA NumberedFacts ==
  ASSUME NEW index \in [Ids -> Nat], NEW rows \in Seq(Ids), Injective(rows), NEW offset \in Nat
  PROVE  /\ Numbered(index, rows, offset) \in [Ids -> Nat]
         /\ \A i \in 1 .. Len(rows) : Numbered(index, rows, offset)[rows[i]] = offset + i - 1
         /\ \A x \in Ids : x \notin ToSet(rows) => Numbered(index, rows, offset)[x] = index[x]
<1> DEFINE place(x) == CHOOSE i \in DOMAIN rows : rows[i] = x
           value(x) == IF x \in ToSet(rows) THEN offset + place(x) - 1 ELSE index[x]
<1>1. Numbered(index, rows, offset) = [x \in Ids |-> value(x)]
  BY DEF Numbered
<1>2. DOMAIN rows = 1 .. Len(rows) /\ Len(rows) \in Nat
  OBVIOUS
<1>3. ASSUME NEW x \in ToSet(rows) PROVE place(x) \in 1 .. Len(rows) /\ rows[place(x)] = x
  BY <1>2 DEF ToSet
<1>4. ASSUME NEW i \in 1 .. Len(rows)
      PROVE  place(rows[i]) = i /\ rows[i] \in ToSet(rows) /\ rows[i] \in Ids
  <2>1. rows[i] \in ToSet(rows)
    BY <1>2 DEF ToSet
  <2>2. place(rows[i]) \in DOMAIN rows /\ rows[place(rows[i])] = rows[i]
    BY <1>2, <1>3, <2>1
  <2> QED BY <1>2, <2>1, <2>2 DEF Injective
<1> HIDE DEF place
<1>5. \A x \in Ids : value(x) \in Nat
  <2> SUFFICES ASSUME NEW x \in Ids PROVE value(x) \in Nat
    OBVIOUS
  <2>1. CASE x \in ToSet(rows)
    <3>1. place(x) \in Nat /\ place(x) >= 1
      BY <1>2, <1>3, <2>1
    <3> QED BY <2>1, <3>1
  <2>2. CASE x \notin ToSet(rows)
    BY <2>2
  <2> QED BY <2>1, <2>2
<1> QED BY <1>1, <1>4, <1>5

\* Rows that are not used yet, all different.
LEMMA FreshFacts ==
  ASSUME NEW count \in Nat, count <= Cardinality(FreeRows)
  PROVE  /\ Fresh(count) \in Seq(Ids) /\ Len(Fresh(count)) = count
         /\ Injective(Fresh(count)) /\ ToSet(Fresh(count)) \subseteq FreeRows
<1> DEFINE s == SetToSeq(FreeRows)
           n == Cardinality(FreeRows)
<1>1. IsFiniteSet(FreeRows) /\ FreeRows \subseteq Ids
  <2>1. IsFiniteSet(Ids)
    BY HeightsAssumption, FS_Interval DEF Ids
  <2>2. FreeRows \in SUBSET Ids
    BY DEF FreeRows
  <2> QED BY <2>1, <2>2, FS_Subset
<1>2. n \in Nat /\ ExistsBijection(1 .. n, FreeRows)
  BY <1>1, FS_CardinalityType
<1> HIDE DEF n
<1>3. \E f \in [1 .. n -> FreeRows] : IsInjective(f)
  BY <1>2 DEF ExistsBijection, Bijection, Injection
<1>4. s \in [1 .. n -> FreeRows] /\ IsInjective(s)
  BY <1>3 DEF SetToSeq, n
<1> HIDE DEF s
<1>5. s \in Seq(FreeRows) /\ Len(s) = n
  BY <1>2, <1>4
<1>6. \A i, j \in 1 .. n : s[i] = s[j] => i = j
  BY <1>4 DEF IsInjective
<1> DEFINE f == Fresh(count)
<1>7. f \in Seq(FreeRows) /\ Len(f) = count /\ \A i \in 1 .. count : f[i] = s[i]
  <2>1. count \in 0 .. Len(s)
    BY <1>2, <1>5 DEF n
  <2>2. Parts(FreeRows, s, count, SubSeq(s, 1, count), SubSeq(s, count + 1, Len(s)))
    BY <1>5, <2>1, SplitFacts
  <2> QED BY <2>2 DEF Parts, Fresh, s
<1> HIDE DEF f
<1>8. DOMAIN f = 1 .. count /\ count <= n /\ \A i \in 1 .. count : f[i] \in FreeRows
  BY <1>7 DEF n
<1>9. Injective(f)
  BY <1>2, <1>6, <1>7, <1>8 DEF Injective
<1>10. f \in Seq(Ids) /\ ToSet(f) \subseteq FreeRows
  BY <1>1, <1>7, <1>8 DEF ToSet
<1> QED BY <1>7, <1>9, <1>10 DEF f

\* Rows that are new are numbered after those that were there.
LEMMA ExtendedNumbered ==
  ASSUME NEW t \in Terms, Distinct(t), NEW u, NEW new \in Seq(Ids), Injective(new),
         Lengthened(t, u, new), Hidden(u) = Hidden(t),
         NEW index \in [Ids -> Nat], Numbering(AllRows(t), index),
         \A x \in ToSet(new) : x \notin ToSet(AllRows(t)) /\ x \notin ToSet(Hidden(t))
  PROVE  /\ Distinct(u)
         /\ Numbered(index, new, RowCount(t)) \in [Ids -> Nat]
         /\ Numbering(AllRows(u), Numbered(index, new, RowCount(t)))
         /\ \A x \in Ids : x \notin ToSet(new) => Numbered(index, new, RowCount(t))[x] = index[x]
<1> DEFINE a == AllRows(t)
           b == AllRows(u)
           n == RowCount(t)
           m == Len(new)
           value == Numbered(index, new, n)
<1>1. a \in Seq(Ids) /\ Len(a) = n /\ n \in Nat /\ m \in Nat
  BY RowsOfTerminal DEF RowCount
<1>2. /\ value \in [Ids -> Nat]
      /\ \A i \in 1 .. m : value[new[i]] = n + i - 1
      /\ \A x \in Ids : x \notin ToSet(new) => value[x] = index[x]
  BY <1>1, NumberedFacts
<1>3. b = a \o new /\ Hidden(u) = Hidden(t)
  BY DEF Lengthened
<1>4. Distinct(t)
  OBVIOUS
<1> HIDE DEF a, b, n, m, value
<1>5. Chained(Ids, a, new, b)
  BY <1>1, <1>3, ConcatFacts
<1>6. /\ b \in Seq(Ids) /\ Len(b) = n + m
      /\ \A i \in 1 .. n : b[i] = a[i]
      /\ \A i \in 1 .. m : b[n + i] = new[i]
      /\ ToSet(b) = ToSet(a) \cup ToSet(new)
  BY <1>1, <1>5 DEF Chained, m
<1>7. /\ Injective(a) /\ Injective(Hidden(t)) /\ \A x \in ToSet(a) : x \notin ToSet(Hidden(t))
      /\ \A x \in ToSet(new) : x \notin ToSet(a) /\ x \notin ToSet(Hidden(t))
  BY <1>4 DEF Distinct, a
<1>8. Injective(b)
  BY <1>5, <1>7 DEF Chained
<1>9. \A x \in ToSet(b) : x \notin ToSet(Hidden(t))
  BY <1>6, <1>7
<1>10. Distinct(u)
  <2>1. ToSet(b) \cap ToSet(Hidden(t)) = {}
    BY <1>9
  <2> QED BY <1>3, <1>7, <1>8, <2>1 DEF Distinct, b
<1>11. Numbering(b, value)
  <2> SUFFICES ASSUME NEW i \in 1 .. n + m PROVE value[b[i]] = i - 1
    BY <1>6 DEF Numbering
  <2>1. CASE i <= n
    <3>1. i \in 1 .. n /\ i \in DOMAIN a
      BY <1>1, <2>1
    <3>2. b[i] = a[i] /\ a[i] \in ToSet(a) /\ a[i] \in Ids
      <4>1. b[i] = a[i]
        BY <1>6, <3>1
      <4>2. a[i] \in ToSet(a)
        BY <3>1 DEF ToSet
      <4>3. a[i] \in Ids
        BY <1>1, <3>1
      <4> QED BY <4>1, <4>2, <4>3
    <3>3. value[b[i]] = index[a[i]]
      BY <1>2, <1>7, <3>2
    <3> QED BY <3>1, <3>3 DEF Numbering, a
  <2>2. CASE i > n
    <3> DEFINE j == i - n
    <3>1. j \in 1 .. m /\ n + j = i
      BY <1>1, <2>2
    <3> HIDE DEF j
    <3>2. b[i] = new[j] /\ value[new[j]] = n + j - 1
      BY <1>2, <1>6, <3>1
    <3>3. n \in Int /\ j \in Int /\ i \in Int /\ n + j = i
      BY <1>1, <3>1
    <3>4. n + j - 1 = i - 1
      BY ONLY <3>3
    <3> QED BY <3>2, <3>4
  <2> QED BY <1>1, <2>1, <2>2
<1> QED BY <1>2, <1>10, <1>11 DEF value, b, n

----------------------------------------------------------------------------
\* The inductive invariant, of a terminal t with the rows' numbers, a port p,
\* a queue q of timers, the timer that scrolls down, whether the window has a
\* new size, and where the cursor is shown.

\* The timers.
TimerNames == {"syncCursor", "redraw", "invalidate", "onScroll", "onResize", "resized"}

\* Every row of the terminal has the number of its place.
Numbers(t, index) == Terminal(t) /\ index \in [Ids -> Nat] /\ Numbering(AllRows(t), index)

\* All rows in the document are still rows of the terminal.
Dropless(t, p) == \A x \in Rows(p.dom) : x \in ToSet(AllRows(t))

\* There is a row between the folds.
Viewed(dom) == \E x \in Rows(dom) : InView(dom, x)

\* The rows of the document after some of the screen have changed places.
Moving(t, p, index) ==
  /\ p \in Ports /\ ~p.failed
  /\ p.scrollTop \in Nat /\ p.visibleRowCount \in Nat \ {0} /\ p.window \in Nat \ {0}
  /\ Document(p.dom)
  /\ \A x \in Rows(p.dom) : ~Prec(p.dom, BottomFold, x)
  /\ \A x \in Rows(p.dom) : Prec(p.dom, x, TopFold) => index[x] < p.scrollTop
  /\ \A x, y \in Rows(p.dom) :
       Prec(p.dom, x, y) /\ Prec(p.dom, y, TopFold) => index[x] < index[y]
  /\ p.collapsed /\ p.anchor = p.focus
  /\ p.anchor # Null => p.anchor \in Rows(p.dom)
  /\ Dropless(t, p)

\* The document as it is while no row has changed its place.
Ordered(t, index, p, q) ==
  /\ Sound(p, AllRows(t), index)
  /\ Viewed(p.dom) \/ "redraw" \in ToSet(q)

\* The document as it is until the timer that draws all rows anew fires: nothing
\* else that draws can come before it.
Disordered(t, index, p, q, down, big) ==
  /\ Moving(t, p, index)
  /\ ~p.scrolled /\ ~big /\ p.visibleRowCount = p.window /\ t.height = p.window
  /\ q \in {<<"invalidate">>, <<"syncCursor", "invalidate">>, <<"invalidate", "syncCursor">>}
  /\ down # 1 /\ (down = 2 => q # <<"syncCursor", "invalidate">>)

\* The heights that the window, the scroll port and the terminal know of, and the
\* scroll position in the rows; a size that is not taken over everywhere is due.
Geometry(t, p, q, big) ==
  /\ p.lastRowCount \in Nat
  /\ p.scrollTop = 0 \/ p.scrollTop + p.window <= p.lastRowCount
  /\ big \/ p.visibleRowCount = p.window
  /\ big \/ "onResize" \in ToSet(q) \/ t.height = p.window
  /\ t.height # p.window \/ p.visibleRowCount # p.window => Dropless(t, p)
  /\ "onResize" \in ToSet(q) => p.visibleRowCount = p.window
  /\ p.visibleRowCount # p.window =>
       p.scrollTop = 0 \/ p.scrollTop + p.visibleRowCount <= RowCount(t)
  /\ p.lastRowCount <= RowCount(t) \/ "resized" \in ToSet(q) \/ "redraw" \in ToSet(q)

\* A new size of the window is still on its way.
SizeDue(q, big) == big \/ "onResize" \in ToSet(q) \/ "resized" \in ToSet(q)

\* The rows of the scroll position.
ViewOf(t, p) == SubSeq(AllRows(t), p.scrollTop + 1, p.scrollTop + p.visibleRowCount)

\* The page shows the rows of the scroll position, or something will make it.
ViewDue(t, p, q, down, big) ==
  \/ p.scrolled \/ SizeDue(q, big) \/ "redraw" \in ToSet(q) \/ "invalidate" \in ToSet(q)
  \/ down > 0 /\ p.scrollTop + p.visibleRowCount < RowCount(t)
  \/ Shown(p) = ViewOf(t, p)

\* The port knows whether the view is at the end, or will.
EndDue(p, q, big) ==
  \/ p.scrolled \/ SizeDue(q, big) \/ "redraw" \in ToSet(q)
  \/ p.isScrolledEnd <=> p.scrollTop + p.visibleRowCount >= p.lastRowCount

\* A view at the end has the height of all rows, or will follow them.
FollowDue(t, p, q, down, big) ==
  p.isScrolledEnd =>
    p.lastRowCount = RowCount(t) \/ down > 0 \/ SizeDue(q, big) \/ "redraw" \in ToSet(q)

\* The cursor is shown in its row, or will be.
CursorDue(t, p, q, big, at) ==
  \/ big \/ p.scrolled
  \/ "syncCursor" \in ToSet(q) \/ "onScroll" \in ToSet(q) \/ "onResize" \in ToSet(q)
  \/ at = CursorPlace(t, p)

\* The parts together.
Whole(t, index, p, q, down, big, at) ==
  /\ Numbers(t, index)
  /\ q \in Seq(TimerNames) /\ down \in Nat /\ big \in BOOLEAN
  /\ "invalidate" \notin ToSet(q) => Ordered(t, index, p, q)
  /\ "invalidate" \in ToSet(q) => Disordered(t, index, p, q, down, big)
  /\ Geometry(t, p, q, big)
  /\ ViewDue(t, p, q, down, big)
  /\ EndDue(p, q, big)
  /\ FollowDue(t, p, q, down, big)
  /\ CursorDue(t, p, q, big, at)

\* The inductive invariant.
Inv == Whole(term, rowIndex, port, timers, scrollDown, resizing, cursorAt)

----------------------------------------------------------------------------
\* The queue of timers.

\* r is the queue q with one more timer, or with one that waited already.
Adds(q, r, name) ==
  /\ r \in Seq(TimerNames)
  /\ \A x : x \in ToSet(r) <=> x \in ToSet(q) \/ x = name
  /\ Len(r) \in Nat \ {0}

\* r is the queue q without its first timer.
Drops(q, r, name) ==
  /\ r \in Seq(TimerNames)
  /\ name \in ToSet(q)
  /\ \A x : x \in ToSet(r) => x \in ToSet(q)
  /\ \A x : x \in ToSet(q) => x = name \/ x \in ToSet(r)

\* A timer that is set waits.
LEMMA TimerAdded ==
  ASSUME NEW q \in Seq(TimerNames), NEW name \in TimerNames
  PROVE  Adds(q, Append(q, name), name)
<1> DEFINE r == Append(q, name)
<1>1. r \in Seq(TimerNames) /\ ToSet(r) = ToSet(q) \cup {name}
  BY AppendFacts
<1>2. Len(r) \in Nat \ {0}
  OBVIOUS
<1> HIDE DEF r
<1>3. Adds(q, r, name)
  BY <1>1, <1>2 DEF Adds
<1> QED BY <1>3 DEF r

\* A timer that is set once waits once.
LEMMA TimerScheduled ==
  ASSUME NEW q \in Seq(TimerNames), NEW name \in TimerNames
  PROVE  Adds(q, Schedule(q, name), name)
<1>1. CASE name \in ToSet(q)
  <2>1. Schedule(q, name) = q
    BY <1>1 DEF Schedule
  <2>2. Len(q) \in Nat \ {0}
    BY <1>1 DEF ToSet
  <2> QED BY <1>1, <2>1, <2>2 DEF Adds
<1>2. CASE name \notin ToSet(q)
  <2>1. Schedule(q, name) = Append(q, name)
    BY <1>2 DEF Schedule
  <2> QED BY <2>1, TimerAdded
<1> QED BY <1>1, <1>2

\* The timer that fires waits no more, unless it was set twice.
LEMMA TimerFired ==
  ASSUME NEW q \in Seq(TimerNames), q # <<>>, NEW name, name = Head(q)
  PROVE  Drops(q, Tail(q), name)
<1>1. Tail(q) \in Seq(TimerNames) /\ Len(q) \in Nat /\ Len(q) > 0 /\ Len(Tail(q)) = Len(q) - 1
  OBVIOUS
<1>2. \A i \in 1 .. Len(q) - 1 : Tail(q)[i] = q[i + 1] /\ i + 1 \in 1 .. Len(q)
  OBVIOUS
<1>3. \A i \in 1 .. Len(q) : i = 1 \/ (i - 1 \in 1 .. Len(q) - 1 /\ (i - 1) + 1 = i)
  BY <1>1
<1>4. DOMAIN q = 1 .. Len(q) /\ DOMAIN Tail(q) = 1 .. Len(q) - 1 /\ q[1] = name /\ 1 \in 1 .. Len(q)
  BY <1>1
<1>5. \A x : x \in ToSet(Tail(q)) => x \in ToSet(q)
  BY <1>2, <1>4 DEF ToSet
<1>6. ASSUME NEW i \in 1 .. Len(q), i # 1 PROVE q[i] \in ToSet(Tail(q))
  <2>1. Tail(q)[i - 1] = q[i] /\ i - 1 \in DOMAIN Tail(q)
    BY <1>2, <1>3, <1>4, <1>6
  <2> QED BY <2>1 DEF ToSet
<1>7. \A x : x \in ToSet(q) => x = name \/ x \in ToSet(Tail(q))
  BY <1>4, <1>6 DEF ToSet
<1>8. name \in ToSet(q)
  BY <1>4 DEF ToSet
<1> QED BY <1>1, <1>5, <1>7, <1>8 DEF Drops

\* The names, one by one.
LEMMA NamesOfTimers ==
  {"syncCursor", "redraw", "invalidate", "onScroll", "onResize", "resized"} \subseteq TimerNames
  BY DEF TimerNames

----------------------------------------------------------------------------
\* Every step keeps the invariant.

\* Every timer that fires brings the scroll to the end nearer, but does not pass it.
LEMMA SoonerFacts ==
  ASSUME Inv
  PROVE  /\ Sooner \in Nat
         /\ Sooner > 0 <=> scrollDown > 0
         /\ Sooner = scrollDown \/ (scrollDown > 1 /\ Sooner = scrollDown - 1)
  BY DEF Inv, Whole, Sooner

\* The timer of the terminal that fires: timers before it and after it.
LEMMA Fired ==
  ASSUME Inv, NEW name, Fires(name)
  PROVE  /\ Drops(timers, Tail(timers), name)
         /\ ~port.failed
         /\ name \notin {"invalidate", "syncCursor"} => "invalidate" \notin ToSet(timers)
<1>1. timers \in Seq(TimerNames) /\ timers # <<>> /\ name = Head(timers) /\ ~port.failed
  BY DEF Inv, Whole, Fires
<1>2. Drops(timers, Tail(timers), name)
  BY <1>1, TimerFired
<1>3. ASSUME "invalidate" \in ToSet(timers) PROVE name \in {"invalidate", "syncCursor"}
  <2>1. timers \in {<<"invalidate">>, <<"syncCursor", "invalidate">>, <<"invalidate", "syncCursor">>}
    BY <1>3 DEF Inv, Whole, Disordered
  <2> QED BY <1>1, <2>1
<1> QED BY <1>1, <1>2, <1>3

\* The terminal hears of scrolling: the cursor will be placed.
LEMMA TerminalOnScrollKeeps ==
  ASSUME Inv, TerminalOnScroll
  PROVE  Inv'
<1>1. Fires("onScroll") /\ timers' = Schedule(Tail(timers), "syncCursor")
  BY DEF TerminalOnScroll
<1>2. Drops(timers, Tail(timers), "onScroll") /\ "invalidate" \notin ToSet(timers)
  BY <1>1, Fired
<1>3. Adds(Tail(timers), timers', "syncCursor")
  BY <1>1, <1>2, TimerScheduled, NamesOfTimers DEF Drops
<1>4. UNCHANGED <<term, rowIndex, port, resizing, cursorAt>> /\ scrollDown' = Sooner
  BY DEF TerminalOnScroll
<1>5. Sooner \in Nat /\ (Sooner > 0 <=> scrollDown > 0)
  BY SoonerFacts
<1>6. /\ timers' \in Seq(TimerNames) /\ "invalidate" \notin ToSet(timers') /\ "syncCursor" \in ToSet(timers')
      /\ "redraw" \in ToSet(timers') <=> "redraw" \in ToSet(timers)
      /\ "onResize" \in ToSet(timers') <=> "onResize" \in ToSet(timers)
      /\ "resized" \in ToSet(timers') <=> "resized" \in ToSet(timers)
  BY <1>2, <1>3 DEF Adds, Drops
<1>7. Numbers(term', rowIndex')
  BY <1>4 DEF Inv, Whole, Numbers
<1>8. timers' \in Seq(TimerNames) /\ scrollDown' \in Nat /\ resizing' \in BOOLEAN
  BY <1>4, <1>5, <1>6 DEF Inv, Whole
<1>9. Ordered(term', rowIndex', port', timers')
  BY <1>2, <1>4, <1>6 DEF Inv, Whole, Ordered
<1>10. Geometry(term', port', timers', resizing')
  BY <1>4, <1>6 DEF Inv, Whole, Geometry
<1>11. ViewDue(term', port', timers', scrollDown', resizing')
  BY <1>2, <1>4, <1>5, <1>6 DEF Inv, Whole, ViewDue, SizeDue
<1>12. EndDue(port', timers', resizing')
  BY <1>4, <1>6 DEF Inv, Whole, EndDue, SizeDue
<1>13. FollowDue(term', port', timers', scrollDown', resizing')
  BY <1>4, <1>5, <1>6 DEF Inv, Whole, FollowDue, SizeDue
<1>14. CursorDue(term', port', timers', resizing', cursorAt')
  BY <1>4, <1>6 DEF Inv, Whole, CursorDue
<1> QED
  BY <1>6, <1>7, <1>8, <1>9, <1>10, <1>11, <1>12, <1>13, <1>14 DEF Inv, Whole

\* The scroll port hears of a new size that the terminal has taken over.
LEMMA ResizedTimerKeeps ==
  ASSUME Inv, ResizedTimer
  PROVE  Inv'
<1>1. Fires("resized") /\ timers' = Schedule(Tail(timers), "redraw")
  BY DEF ResizedTimer
<1>2. Drops(timers, Tail(timers), "resized") /\ "invalidate" \notin ToSet(timers)
  BY <1>1, Fired
<1>3. Adds(Tail(timers), timers', "redraw")
  BY <1>1, <1>2, TimerScheduled, NamesOfTimers DEF Drops
<1>4. UNCHANGED <<term, rowIndex, port, resizing, cursorAt>> /\ scrollDown' = Sooner
  BY DEF ResizedTimer
<1>5. Sooner \in Nat /\ (Sooner > 0 <=> scrollDown > 0)
  BY SoonerFacts
<1>6. /\ timers' \in Seq(TimerNames) /\ "invalidate" \notin ToSet(timers') /\ "redraw" \in ToSet(timers')
      /\ "syncCursor" \in ToSet(timers') <=> "syncCursor" \in ToSet(timers)
      /\ "onResize" \in ToSet(timers') <=> "onResize" \in ToSet(timers)
      /\ "onScroll" \in ToSet(timers') <=> "onScroll" \in ToSet(timers)
  BY <1>2, <1>3 DEF Adds, Drops
<1>7. Numbers(term', rowIndex')
  BY <1>4 DEF Inv, Whole, Numbers
<1>8. timers' \in Seq(TimerNames) /\ scrollDown' \in Nat /\ resizing' \in BOOLEAN
  BY <1>4, <1>5, <1>6 DEF Inv, Whole
<1>9. Ordered(term', rowIndex', port', timers')
  BY <1>2, <1>4, <1>6 DEF Inv, Whole, Ordered
<1>10. Geometry(term', port', timers', resizing')
  BY <1>4, <1>6 DEF Inv, Whole, Geometry
<1>11. ViewDue(term', port', timers', scrollDown', resizing')
  BY <1>2, <1>4, <1>5, <1>6 DEF Inv, Whole, ViewDue, SizeDue
<1>12. EndDue(port', timers', resizing')
  BY <1>4, <1>6 DEF Inv, Whole, EndDue, SizeDue
<1>13. FollowDue(term', port', timers', scrollDown', resizing')
  BY <1>4, <1>5, <1>6 DEF Inv, Whole, FollowDue, SizeDue
<1>14. CursorDue(term', port', timers', resizing', cursorAt')
  BY <1>4, <1>6 DEF Inv, Whole, CursorDue
<1> QED
  BY <1>6, <1>7, <1>8, <1>9, <1>10, <1>11, <1>12, <1>13, <1>14 DEF Inv, Whole

\* A port with the same nodes and selection.
SameDocument(p, q) ==
  /\ q \in Ports
  /\ q.dom = p.dom /\ q.anchor = p.anchor /\ q.focus = p.focus /\ (q.collapsed <=> p.collapsed)
  /\ q.startRow = p.startRow /\ q.endRow = p.endRow /\ (q.isMultiline <=> p.isMultiline)
  /\ q.cache = p.cache
  /\ q.failed <=> p.failed

\* Scrolling and sizes leave the document alone.
LEMMA SoundCarried ==
  ASSUME NEW p, NEW q, NEW rows, NEW index, Sound(p, rows, index), SameDocument(p, q),
         q.scrollTop \in Nat, q.visibleRowCount \in Nat \ {0}, q.window \in Nat \ {0}
  PROVE  Sound(q, rows, index) /\ Shown(q) = Shown(p)
<1>1. Caching(q, index)
  BY DEF Sound, SameDocument, Caching
<1>2. Selection(q, index)
  BY DEF Sound, SameDocument, Selection, Remembered
<1>3. Shown(q) = Shown(p)
  BY DEF SameDocument, Shown
<1> QED BY <1>1, <1>2, <1>3 DEF Sound, SameDocument

\* What holds of the port in order or not.
LEMMA PortFacts ==
  ASSUME Inv
  PROVE  /\ port \in Ports /\ ~port.failed
         /\ port.scrollTop \in Nat /\ port.visibleRowCount \in Nat \ {0} /\ port.window \in Nat \ {0}
         /\ port.lastRowCount \in Nat
         /\ Document(port.dom)
         /\ AllRows(term) \in Seq(Ids) /\ Len(AllRows(term)) = RowCount(term)
         /\ RowCount(term) \in Nat \ {0} /\ RowCount(term) >= term.height /\ term.height \in Nat \ {0}
         /\ Numbering(AllRows(term), rowIndex) /\ rowIndex \in [Ids -> Nat]
<1>1. /\ port \in Ports /\ ~port.failed
      /\ port.scrollTop \in Nat /\ port.visibleRowCount \in Nat \ {0} /\ port.window \in Nat \ {0}
      /\ Document(port.dom)
  BY DEF Inv, Whole, Ordered, Disordered, Sound, Moving
<1>2. term \in Terms /\ Len(ScreenRows(term)) = term.height /\ term.height \in Nat \ {0}
  BY DEF Inv, Whole, Numbers, Terminal
<1>3. /\ AllRows(term) \in Seq(Ids) /\ RowCount(term) = Len(term.scrollback) + Len(ScreenRows(term))
      /\ RowCount(term) \in Nat /\ term.scrollback \in Seq(Ids)
  BY <1>2, RowsOfTerminal
<1>4. Len(term.scrollback) \in Nat
  BY <1>3
<1>5. RowCount(term) \in Nat \ {0} /\ RowCount(term) >= term.height
  BY <1>2, <1>3, <1>4
<1>6. Numbering(AllRows(term), rowIndex) /\ rowIndex \in [Ids -> Nat] /\ port.lastRowCount \in Nat
  BY DEF Inv, Whole, Numbers, Geometry
<1> QED BY <1>1, <1>2, <1>3, <1>5, <1>6 DEF RowCount

\* A port of which the view is asked to begin at a row.
ToTop(p, q, count, asked) ==
  /\ SameDrawing(p, q) /\ q \in Ports
  /\ q.lastRowCount = count
  /\ Within(q.scrollTop, asked, count - p.window)
  /\ p.scrolled => q.scrolled
  /\ q.scrolled \/ q.scrollTop = p.scrollTop
  /\ p.visibleRowCount = p.window => (q.isScrolledEnd <=> q.scrollTop + q.visibleRowCount >= count)

\* What scrollRowToTop makes of a port.
LEMMA RowToTop ==
  ASSUME NEW p \in Ports, NEW rows \in Seq(Ids), NEW asked \in Int
  PROVE  ToTop(p, scrollRowToTop(p, rows, asked), Len(rows), asked)
<1> DEFINE sized == syncScrollHeight(p, rows)
           max == Max({asked, 0})
           end == max + p.visibleRowCount >= Len(rows)
           marked == [sized EXCEPT !.isScrolledEnd = end]
           q == ScrollTo(marked, asked)
           n == Len(rows)
<1>n. n \in Nat
  OBVIOUS
<1>1. Scrolls(p, sized, p.scrollTop) /\ sized.lastRowCount = n
  BY HeightSynced
<1>2. scrollRowToTop(p, rows, asked) = q
  BY DEF scrollRowToTop
<1> HIDE DEF sized, n
<1>3. Larger(max, asked, 0)
  BY MinTwo
<1> HIDE DEF max
<1>4. end \in BOOLEAN
  OBVIOUS
<1>e. end <=> max + p.visibleRowCount >= n
  BY DEF n
<1> HIDE DEF end
<1>5. marked \in Ports
  BY <1>1, <1>4 DEF Scrolls, Ports
<1>6. /\ SameDrawing(sized, marked) /\ marked.lastRowCount = n /\ marked.scrollTop = sized.scrollTop
      /\ marked.scrolled = sized.scrolled /\ marked.isScrolledEnd = end /\ marked.window = sized.window
  BY <1>1, <1>4 DEF Scrolls, Ports, SameDrawing
<1> HIDE DEF marked
<1>7. Scrolls(marked, q, asked) /\ q.lastRowCount = n /\ q.isScrolledEnd = end
  BY <1>5, <1>6, ScrollsTo
<1> HIDE DEF q
<1>8. /\ SameDrawing(p, q) /\ q \in Ports /\ q.window = p.window /\ q.visibleRowCount = p.visibleRowCount
      /\ p.scrolled => q.scrolled
      /\ q.scrolled \/ q.scrollTop = p.scrollTop
  BY <1>1, <1>6, <1>7 DEF Scrolls, SameDrawing
<1>9. Within(q.scrollTop, asked, n - p.window)
  BY <1>7, <1>8 DEF Scrolls
<1>10. ASSUME p.visibleRowCount = p.window
       PROVE  q.isScrolledEnd <=> q.scrollTop + q.visibleRowCount >= n
  <2> DEFINE top == q.scrollTop
             vis == p.visibleRowCount
  <2>1. Within(top, asked, n - vis)
    BY <1>9, <1>10
  <2>2. vis \in Int
    BY DEF Ports
  <2>3. max + vis >= n <=> top + vis >= n
    <3> HIDE DEF top, vis
    <3> QED BY <1>3, <1>n, <2>1, <2>2 DEF Within, Larger
  <2> QED BY <1>7, <1>8, <1>e, <2>3
<1>11. ToTop(p, q, n, asked)
  BY <1>7, <1>8, <1>9, <1>10 DEF ToTop
<1> QED BY <1>2, <1>11 DEF n

----------------------------------------------------------------------------
\* What the user does.

\* While the user may act, no new size is on its way.
LEMMA ActsFacts ==
  ASSUME Inv, ~Resizing
  PROVE  /\ ~resizing
         /\ "onResize" \notin ToSet(timers) /\ "resized" \notin ToSet(timers)
         /\ "redraw" \notin ToSet(timers) /\ "invalidate" \notin ToSet(timers)
         /\ Sound(port, AllRows(term), rowIndex) /\ Viewed(port.dom)
         /\ port.visibleRowCount = port.window /\ term.height = port.window
         /\ port.lastRowCount <= RowCount(term)
<1>1. /\ ~resizing
      /\ "onResize" \notin ToSet(timers) /\ "resized" \notin ToSet(timers)
      /\ "redraw" \notin ToSet(timers) /\ "invalidate" \notin ToSet(timers)
  BY DEF Resizing
<1>2. Sound(port, AllRows(term), rowIndex) /\ Viewed(port.dom)
  BY <1>1 DEF Inv, Whole, Ordered
<1>3. /\ port.visibleRowCount = port.window /\ term.height = port.window
      /\ port.lastRowCount <= RowCount(term)
  BY <1>1 DEF Inv, Whole, Geometry
<1> QED BY <1>1, <1>2, <1>3

\* The user scrolls; the browser will report it (onScroll_).
LEMMA UserScrollKeeps ==
  ASSUME Inv, ~Resizing, NEW top, UserScroll(top)
  PROVE  Inv'
<1>1. /\ top \in 0 .. port.lastRowCount - port.window /\ top # port.scrollTop
      /\ port' = ScrollTo(port, top)
      /\ UNCHANGED <<term, rowIndex, timers, scrollDown, resizing, cursorAt>>
  BY DEF UserScroll
<1> DEFINE last == port.lastRowCount
           room == port.lastRowCount - port.window
<1>2. /\ port \in Ports /\ last \in Nat /\ port.window \in Nat \ {0} /\ port.visibleRowCount \in Nat \ {0}
  BY PortFacts
<1>3. top \in Int /\ top >= 0 /\ top <= room /\ room \in Int
  BY <1>1, <1>2
<1>4. Scrolls(port, port', top) /\ port'.lastRowCount = last /\ port'.isScrolledEnd = port.isScrolledEnd
  BY <1>1, <1>2, <1>3, ScrollsTo
<1>5. port'.window = port.window /\ port'.visibleRowCount = port.visibleRowCount
  BY <1>4 DEF Scrolls, SameDrawing
<1>6. port'.scrollTop = top
  <2>1. Within(port'.scrollTop, top, room)
    BY <1>4, <1>5 DEF Scrolls
  <2> HIDE DEF room
  <2> QED BY <1>3, <2>1 DEF Within
<1>7. port'.scrolled
  BY <1>1, <1>4, <1>6 DEF Scrolls
<1>8. top + port.window <= last
  <2> DEFINE w == port.window
  <2>1. top <= last - w /\ w \in Int /\ last \in Int /\ top \in Int
    BY <1>2, <1>3
  <2> QED BY ONLY <2>1
<1>9. SameDocument(port, port') /\ top \in Nat
  BY <1>3, <1>4 DEF Scrolls, SameDrawing, SameDocument
<1>10. Ordered(term', rowIndex', port', timers')
  <2>1. Sound(port', AllRows(term), rowIndex)
    BY <1>1, <1>2, <1>5, <1>6, <1>9, ActsFacts, SoundCarried
  <2>2. Viewed(port'.dom)
    BY <1>1, <1>4, ActsFacts DEF Scrolls, SameDrawing
  <2> QED BY <1>1, <2>1, <2>2 DEF Ordered
<1>11. Geometry(term', port', timers', resizing')
  BY <1>1, <1>2, <1>4, <1>5, <1>6, <1>8, ActsFacts DEF Geometry
<1>12. ViewDue(term', port', timers', scrollDown', resizing') /\ EndDue(port', timers', resizing')
       /\ CursorDue(term', port', timers', resizing', cursorAt')
  BY <1>7 DEF ViewDue, EndDue, CursorDue
<1>13. FollowDue(term', port', timers', scrollDown', resizing')
  BY <1>1, <1>4 DEF Inv, Whole, FollowDue, SizeDue
<1> QED BY <1>1, <1>10, <1>11, <1>12, <1>13, ActsFacts DEF Inv, Whole

\* The view is scrolled to a row: the selection moves it, or it follows the
\* end of the rows.
LEMMA ScrolledKeeps ==
  ASSUME Inv, "invalidate" \notin ToSet(timers), NEW asked \in Int,
         ToTop(port, port', RowCount(term), asked),
         port.visibleRowCount = port.window \/ asked = RowCount(term) - port.visibleRowCount,
         timers' = timers \/ Adds(timers, timers', "redraw"),
         UNCHANGED <<term, rowIndex, resizing, cursorAt>>,
         scrollDown' \in Nat,
         scrollDown' = scrollDown \/ asked = RowCount(term) - port.visibleRowCount
  PROVE  Inv'
<1> DEFINE count == RowCount(term)
           top == port.scrollTop
           new == port'.scrollTop
           vis == port.visibleRowCount
           win == port.window
<1>1. /\ port \in Ports /\ ~port.failed /\ top \in Nat /\ vis \in Nat \ {0} /\ win \in Nat \ {0}
      /\ count \in Nat \ {0}
  BY PortFacts
<1>2. /\ SameDrawing(port, port') /\ port' \in Ports
      /\ port'.lastRowCount = count
      /\ Within(new, asked, count - win)
      /\ port.scrolled => port'.scrolled
      /\ port'.scrolled \/ new = top
      /\ vis = win => (port'.isScrolledEnd <=> new + port'.visibleRowCount >= count)
  BY DEF ToTop
<1>3. /\ port'.visibleRowCount = vis /\ port'.window = win /\ port'.dom = port.dom
      /\ SameDocument(port, port')
  BY <1>2 DEF SameDrawing, SameDocument
<1>4. /\ timers' \in Seq(TimerNames)
      /\ "invalidate" \notin ToSet(timers')
      /\ "redraw" \in ToSet(timers) => "redraw" \in ToSet(timers')
      /\ "onResize" \in ToSet(timers') <=> "onResize" \in ToSet(timers)
      /\ "resized" \in ToSet(timers') <=> "resized" \in ToSet(timers)
      /\ "syncCursor" \in ToSet(timers') <=> "syncCursor" \in ToSet(timers)
      /\ "onScroll" \in ToSet(timers') <=> "onScroll" \in ToSet(timers)
  <2>1. timers \in Seq(TimerNames)
    BY DEF Inv, Whole
  <2> QED BY <2>1 DEF Adds
<1>5. Sound(port, AllRows(term), rowIndex) /\ (Viewed(port.dom) \/ "redraw" \in ToSet(timers))
  BY DEF Inv, Whole, Ordered
<1>6. new \in Nat /\ (new = 0 \/ new <= count - win)
  BY <1>2 DEF Within
<1>7. /\ Sound(port', AllRows(term), rowIndex)
      /\ Shown(port') = Shown(port)
  BY <1>1, <1>3, <1>5, <1>6, SoundCarried
<1>8. Ordered(term', rowIndex', port', timers')
  BY <1>3, <1>4, <1>5, <1>7 DEF Ordered
<1>9. new = 0 \/ new + win <= count
  <2> HIDE DEF new, win, count
  <2> QED BY <1>1, <1>6
<1>10. vis # win => new = 0 \/ new + vis <= count
  <2> HIDE DEF new, win, count, vis
  <2>1. Within(new, asked, count - win) /\ (vis = win \/ asked = count - vis)
    BY <1>2 DEF count, vis, win
  <2> QED BY <1>1, <2>1 DEF Within
<1>11. Geometry(term', port', timers', resizing')
  <2> HIDE DEF new
  <2>1. Geometry(term, port, timers, resizing)
    BY DEF Inv, Whole
  <2>2. Dropless(term, port') <=> Dropless(term, port)
    BY <1>3 DEF Dropless
  <2>3. port'.scrollTop = 0 \/ port'.scrollTop + port'.window <= port'.lastRowCount
    BY <1>2, <1>3, <1>9 DEF new
  <2>4. port'.visibleRowCount # port'.window =>
          port'.scrollTop = 0 \/ port'.scrollTop + port'.visibleRowCount <= RowCount(term)
    BY <1>3, <1>10 DEF new
  <2>5. count <= count
    BY <1>1
  <2> QED BY <1>1, <1>2, <1>3, <1>4, <2>1, <2>2, <2>3, <2>4, <2>5 DEF Geometry
<1>12. ViewDue(term', port', timers', scrollDown', resizing')
  <2> SUFFICES ASSUME ~port'.scrolled, ~SizeDue(timers', resizing), "redraw" \notin ToSet(timers')
               PROVE  \/ scrollDown' > 0 /\ new + vis < count
                      \/ Shown(port') = ViewOf(term, port')
    BY <1>3 DEF ViewDue
  <2>1. new = top /\ ~port.scrolled /\ ~SizeDue(timers, resizing) /\ "redraw" \notin ToSet(timers)
    BY <1>2, <1>4 DEF SizeDue
  <2>2. \/ scrollDown > 0 /\ top + vis < count
        \/ Shown(port) = ViewOf(term, port)
    BY <2>1 DEF Inv, Whole, ViewDue
  <2>3. vis = win
    BY <2>1 DEF Inv, Whole, Geometry, SizeDue
  <2>4. ASSUME top + vis < count, asked = count - vis PROVE FALSE
    <3> HIDE DEF new, win, count, vis, top
    <3> QED BY <1>1, <1>2, <2>1, <2>3, <2>4 DEF Within
  <2>5. ViewOf(term, port') = ViewOf(term, port)
    BY <1>3, <2>1 DEF ViewOf
  <2> QED BY <1>7, <2>1, <2>2, <2>4, <2>5
<1>13. EndDue(port', timers', resizing')
  <2> SUFFICES ASSUME ~port'.scrolled, ~SizeDue(timers', resizing), "redraw" \notin ToSet(timers')
               PROVE  port'.isScrolledEnd <=> port'.scrollTop + port'.visibleRowCount >= port'.lastRowCount
    BY DEF EndDue
  <2>1. vis = win
    BY <1>4 DEF Inv, Whole, Geometry, SizeDue
  <2> QED BY <1>2, <2>1
<1>14. FollowDue(term', port', timers', scrollDown', resizing')
  BY <1>2 DEF FollowDue
<1>15. CursorDue(term', port', timers', resizing', cursorAt')
  <2>1. port'.scrolled \/ CursorPlace(term, port') = CursorPlace(term, port)
    BY <1>2, <1>3 DEF CursorPlace, CursorInView
  <2> QED BY <1>2, <1>4, <2>1 DEF Inv, Whole, CursorDue
<1> QED BY <1>4, <1>8, <1>11, <1>12, <1>13, <1>14, <1>15 DEF Inv, Whole

\* A selection dragged out of the view scrolls it (onAutoScroll).
LEMMA AutoScrollKeeps ==
  ASSUME Inv, ~Resizing, NEW delta \in {-2, -1, 1, 2}, AutoScroll(delta)
  PROVE  Inv'
<1> DEFINE top == port.scrollTop + delta
<1>1. /\ port' = scrollRowToTop(port, AllRows(term), top)
      /\ timers' = timers \/ timers' = Schedule(timers, "redraw")
      /\ UNCHANGED <<term, rowIndex, scrollDown, resizing, cursorAt>>
  BY DEF AutoScroll
<1>2. top \in Int
  BY PortFacts
<1> HIDE DEF top
<1>3. ToTop(port, port', RowCount(term), top)
  BY <1>1, <1>2, PortFacts, RowToTop
<1>4. timers \in Seq(TimerNames) /\ scrollDown \in Nat
  BY DEF Inv, Whole
<1>5. timers' = timers \/ Adds(timers, timers', "redraw")
  BY <1>1, <1>4, TimerScheduled, NamesOfTimers
<1>6. "invalidate" \notin ToSet(timers) /\ port.visibleRowCount = port.window
  BY <1>1, ActsFacts
<1> QED BY <1>1, <1>2, <1>3, <1>4, <1>5, <1>6, ScrolledKeeps

\* The view goes to the end after new rows (scheduleScrollDown_).
LEMMA ScrollDownTimerKeeps ==
  ASSUME Inv, ScrollDownTimer
  PROVE  Inv'
<1> DEFINE top == RowCount(term) - port.visibleRowCount
<1>1. /\ scrollDown = 1 /\ scrollDown' = 0
      /\ port' = scrollRowToTop(port, AllRows(term), top)
      /\ timers' = timers \/ timers' = Schedule(timers, "redraw")
      /\ UNCHANGED <<term, rowIndex, resizing, cursorAt>>
  BY DEF ScrollDownTimer, scrollRowToBottom
<1>2. top \in Int
  BY PortFacts
<1>3. ToTop(port, port', RowCount(term), top)
  BY <1>1, <1>2, PortFacts, RowToTop
<1>4. timers \in Seq(TimerNames)
  BY DEF Inv, Whole
<1>5. timers' = timers \/ Adds(timers, timers', "redraw")
  BY <1>1, <1>4, TimerScheduled, NamesOfTimers
<1>6. "invalidate" \notin ToSet(timers)
  BY <1>1 DEF Inv, Whole, Disordered
<1>7. scrollDown' \in Nat
  BY <1>1
<1> QED BY <1>1, <1>2, <1>3, <1>5, <1>6, <1>7, ScrolledKeeps

\* The window gets another size; the scroll port will hear of it.
LEMMA WindowResizedKeeps ==
  ASSUME Inv, ~Resizing, NEW height \in Heights, NoneDropped, WindowResized(height)
  PROVE  Inv'
<1> DEFINE sized == [port EXCEPT !.window = height]
           top == port.scrollTop
           new == port'.scrollTop
           last == port.lastRowCount
           vis == port.visibleRowCount
           count == RowCount(term)
<1>1. /\ resizing' = TRUE
      /\ port' = ScrollTo(sized, sized.scrollTop)
      /\ UNCHANGED <<term, rowIndex, timers, scrollDown, cursorAt>>
  BY DEF WindowResized
<1>2. height \in Nat \ {0}
  BY HeightsAssumption
<1>3. port \in Ports /\ top \in Nat /\ vis \in Nat \ {0} /\ last \in Nat /\ count \in Nat
  BY PortFacts
<1>4. /\ sized \in Ports
      /\ SameDocument(port, sized) /\ sized.window = height /\ sized.scrollTop = top
      /\ sized.lastRowCount = last /\ sized.visibleRowCount = vis /\ sized.scrolled = port.scrolled
      /\ sized.isScrolledEnd = port.isScrolledEnd
  BY <1>2, <1>3, SMTT(30) DEF Ports, SameDocument
<1>5. top \in Int
  BY <1>3
<1> HIDE DEF sized, top
<1>6. /\ Scrolls(sized, port', top) /\ port'.lastRowCount = last
      /\ port'.isScrolledEnd = port.isScrolledEnd
  BY <1>1, <1>4, <1>5, ScrollsTo
<1>7. /\ SameDocument(port, port') /\ port'.dom = port.dom /\ port'.window = height
      /\ port'.visibleRowCount = vis
  BY <1>4, <1>6 DEF Scrolls, SameDrawing, SameDocument
<1>8. Within(new, top, last - height)
  BY <1>6, <1>7 DEF Scrolls
<1>9. /\ vis = port.window /\ last <= count
      /\ "onResize" \notin ToSet(timers) /\ "invalidate" \notin ToSet(timers)
      /\ Sound(port, AllRows(term), rowIndex) /\ Viewed(port.dom)
  BY <1>1, ActsFacts
<1>10. top = 0 \/ top + vis <= last
  BY <1>9 DEF Inv, Whole, Geometry, top
<1> HIDE DEF new, last, vis, count
<1>11. new \in Nat /\ (new = 0 \/ new + height <= last) /\ (new = 0 \/ new + vis <= count)
  BY <1>2, <1>3, <1>8, <1>9, <1>10 DEF Within
<1>12. Ordered(term', rowIndex', port', timers')
  <2>1. Sound(port', AllRows(term), rowIndex)
    BY <1>2, <1>3, <1>7, <1>9, <1>11, SoundCarried DEF new
  <2> QED BY <1>1, <1>7, <1>9, <2>1 DEF Ordered
<1>13. Dropless(term, port')
  BY <1>7 DEF NoneDropped, Dropless, Rows
<1>14. Geometry(term', port', timers', resizing')
  BY <1>1, <1>3, <1>6, <1>7, <1>9, <1>11, <1>13 DEF Geometry, new, count
<1>15. /\ ViewDue(term', port', timers', scrollDown', resizing') /\ EndDue(port', timers', resizing')
       /\ FollowDue(term', port', timers', scrollDown', resizing')
       /\ CursorDue(term', port', timers', resizing', cursorAt')
  BY <1>1 DEF ViewDue, EndDue, FollowDue, CursorDue, SizeDue
<1> QED BY <1>1, <1>9, <1>12, <1>14, <1>15 DEF Inv, Whole

\* The mouse selects rows that are shown, so they are in the document.
LEMMA SelectKeeps ==
  ASSUME Inv, ~Resizing, NEW anchor \in Ids, NEW focus \in Ids \cup {TopFold, BottomFold},
         NEW collapsed \in BOOLEAN, Select(anchor, focus, collapsed)
  PROVE  Inv'
<1>1. /\ anchor \in ToSet(Shown(port)) \cup ({port.anchor} \ {Null})
      /\ focus \in ToSet(Shown(port)) \cup {TopFold, BottomFold}
      /\ collapsed => anchor = focus
      /\ port' = [port EXCEPT !.anchor = anchor, !.focus = focus, !.collapsed = collapsed]
      /\ UNCHANGED <<term, rowIndex, timers, scrollDown, resizing, cursorAt>>
  BY DEF Select
<1>2. /\ "invalidate" \notin ToSet(timers)
      /\ Sound(port, AllRows(term), rowIndex) /\ Viewed(port.dom)
  BY <1>1, ActsFacts
<1>3. port \in Ports /\ Document(port.dom) /\ port.dom \in Seq(Node)
  BY PortFacts DEF Ports
<1>4. Order(port.dom)
  BY <1>3, PrecOrder DEF Document
<1>5. \A x \in ToSet(Shown(port)) : x \in Rows(port.dom)
  <2>1. \A x : x \in ToSet(Shown(port)) <=> InView(port.dom, x)
    BY <1>3, ShownInView
  <2> QED BY <1>4, <2>1 DEF InView, Order, Rows
<1>6. anchor \in Rows(port.dom)
  BY <1>1, <1>2, <1>5 DEF Sound, Selection
<1>7. focus \in ToSet(port.dom)
  BY <1>1, <1>3, <1>5 DEF Document, Rows
<1>8. /\ port' \in Ports
      /\ port'.dom = port.dom /\ port'.cache = port.cache /\ port'.scrollTop = port.scrollTop
      /\ port'.visibleRowCount = port.visibleRowCount /\ port'.window = port.window
      /\ port'.lastRowCount = port.lastRowCount /\ port'.isScrolledEnd = port.isScrolledEnd
      /\ port'.scrolled = port.scrolled /\ port'.failed = port.failed
      /\ port'.anchor = anchor /\ port'.focus = focus /\ port'.collapsed = collapsed
  BY <1>1, <1>3 DEF Ports, Node
<1>9. anchor # Null /\ focus # Null
  BY Nodes DEF Node
<1>10. Ordered(term', rowIndex', port', timers')
  <2>1. Selection(port', rowIndex)
    BY <1>1, <1>2, <1>6, <1>7, <1>8, <1>9 DEF Selection, Viewed
  <2>2. Caching(port', rowIndex)
    BY <1>2, <1>8 DEF Sound, Caching
  <2>3. Sound(port', AllRows(term), rowIndex)
    BY <1>2, <1>8, <2>1, <2>2 DEF Sound
  <2> QED BY <1>1, <1>2, <1>8, <2>3 DEF Ordered
<1>11. Geometry(term', port', timers', resizing')
  <2>1. Dropless(term, port') <=> Dropless(term, port)
    BY <1>8 DEF Dropless
  <2> QED BY <1>1, <1>8, <2>1 DEF Inv, Whole, Geometry
<1>12. /\ Shown(port') = Shown(port) /\ ViewOf(term, port') = ViewOf(term, port)
       /\ CursorPlace(term, port') = CursorPlace(term, port)
  BY <1>8 DEF Shown, ViewOf, CursorPlace, CursorInView
<1>13. ViewDue(term', port', timers', scrollDown', resizing')
  BY <1>1, <1>8, <1>12 DEF Inv, Whole, ViewDue
<1>14. EndDue(port', timers', resizing')
  BY <1>1, <1>8 DEF Inv, Whole, EndDue
<1>15. FollowDue(term', port', timers', scrollDown', resizing')
  BY <1>1, <1>8 DEF Inv, Whole, FollowDue
<1>16. CursorDue(term', port', timers', resizing', cursorAt')
  BY <1>1, <1>8, <1>12 DEF Inv, Whole, CursorDue
<1> QED BY <1>1, <1>2, <1>10, <1>11, <1>13, <1>14, <1>15, <1>16 DEF Inv, Whole

----------------------------------------------------------------------------
\* The selection is looked up, the caret is placed.

\* A port with the same nodes, scrolled to the same place.
SameView(p, q) ==
  /\ q \in Ports
  /\ q.dom = p.dom /\ q.cache = p.cache /\ q.scrollTop = p.scrollTop
  /\ q.lastRowCount = p.lastRowCount /\ q.visibleRowCount = p.visibleRowCount /\ q.window = p.window
  /\ (q.isScrolledEnd <=> p.isScrolledEnd) /\ (q.scrolled <=> p.scrolled) /\ (q.failed <=> p.failed)

\* A step that changes the selection or the cursor only.
LEMMA SameViewKeeps ==
  ASSUME Inv, SameView(port, port'), UNCHANGED <<term, rowIndex, resizing>>,
         timers' \in Seq(TimerNames), scrollDown' \in Nat, scrollDown' > 0 <=> scrollDown > 0,
         \A x : x # "syncCursor" => (x \in ToSet(timers') <=> x \in ToSet(timers)),
         \/ cursorAt' = CursorPlace(term, port)
         \/ cursorAt' = cursorAt /\ ("syncCursor" \in ToSet(timers) => "syncCursor" \in ToSet(timers')),
         "invalidate" \notin ToSet(timers) => Ordered(term', rowIndex', port', timers'),
         "invalidate" \in ToSet(timers) =>
           Disordered(term', rowIndex', port', timers', scrollDown', resizing')
  PROVE  Inv'
<1>1. /\ port'.dom = port.dom /\ port'.scrollTop = port.scrollTop
      /\ port'.lastRowCount = port.lastRowCount /\ port'.visibleRowCount = port.visibleRowCount
      /\ port'.window = port.window /\ (port'.isScrolledEnd <=> port.isScrolledEnd)
      /\ port'.scrolled <=> port.scrolled
  BY DEF SameView
<1>2. /\ "invalidate" \in ToSet(timers') <=> "invalidate" \in ToSet(timers)
      /\ "redraw" \in ToSet(timers') <=> "redraw" \in ToSet(timers)
      /\ "onResize" \in ToSet(timers') <=> "onResize" \in ToSet(timers)
      /\ "onScroll" \in ToSet(timers') <=> "onScroll" \in ToSet(timers)
      /\ "resized" \in ToSet(timers') <=> "resized" \in ToSet(timers)
  OBVIOUS
<1>3. Geometry(term', port', timers', resizing')
  <2>1. Dropless(term, port') <=> Dropless(term, port)
    BY <1>1 DEF Dropless
  <2> QED BY <1>1, <1>2, <2>1 DEF Inv, Whole, Geometry
<1>4. /\ Shown(port') = Shown(port) /\ ViewOf(term, port') = ViewOf(term, port)
      /\ CursorPlace(term, port') = CursorPlace(term, port)
  BY <1>1 DEF Shown, ViewOf, CursorPlace, CursorInView
<1>5. ViewDue(term', port', timers', scrollDown', resizing')
  BY <1>1, <1>2, <1>4 DEF Inv, Whole, ViewDue, SizeDue
<1>6. EndDue(port', timers', resizing')
  BY <1>1, <1>2 DEF Inv, Whole, EndDue, SizeDue
<1>7. FollowDue(term', port', timers', scrollDown', resizing')
  BY <1>1, <1>2 DEF Inv, Whole, FollowDue, SizeDue
<1>8. CursorDue(term', port', timers', resizing', cursorAt')
  BY <1>1, <1>2, <1>4 DEF Inv, Whole, CursorDue
<1> QED BY <1>2, <1>3, <1>5, <1>6, <1>7, <1>8 DEF Inv, Whole

\* The caret goes to a row of the document or stays.
Caret(p, q) ==
  /\ SameView(p, q)
  /\ q.startRow = p.startRow /\ q.endRow = p.endRow /\ (q.isMultiline <=> p.isMultiline)
  /\ q.collapsed <=> p.collapsed
  /\ \/ q.anchor = p.anchor /\ q.focus = p.focus
     \/ p.collapsed /\ q.anchor = q.focus /\ q.anchor \in Rows(p.dom)

\* The caret goes to the row of the cursor, or stays (syncCursorPosition_).
LEMMA CaretPlaced ==
  ASSUME NEW p \in Ports, NEW t, Terminal(t)
  PROVE  Caret(p, CaretAtCursor(t, p))
<1> DEFINE row == ScreenRows(t)[t.cursor + 1]
           moved == [p EXCEPT !.anchor = row, !.focus = row]
<1>1. ScreenRows(t) \in Seq(Ids) /\ t.cursor + 1 \in 1 .. Len(ScreenRows(t))
  BY RowsOfTerminal DEF Terminal
<1>2. row \in Ids
  BY <1>1
<1> HIDE DEF row
<1>3. Caret(p, p)
  BY DEF Caret, SameView
<1>4. ASSUME p.collapsed, row \in ToSet(p.dom) PROVE Caret(p, moved)
  <2>1. row \in Rows(p.dom) /\ row \in Node
    BY <1>2, <1>4, Nodes DEF Rows, Node
  <2> QED BY <1>2, <1>4, <2>1 DEF Caret, SameView, Ports
<1>5. \/ CaretAtCursor(t, p) = moved /\ p.collapsed /\ row \in ToSet(p.dom)
      \/ CaretAtCursor(t, p) = p
  BY DEF CaretAtCursor, row
<1> HIDE DEF moved
<1> QED BY <1>3, <1>4, <1>5

\* Placing the caret leaves the document in order.
LEMMA CaretKeepsSound ==
  ASSUME NEW p, NEW q, NEW rows, NEW index, Sound(p, rows, index), Caret(p, q)
  PROVE  Sound(q, rows, index)
<1>1. Caching(q, index)
  BY DEF Sound, Caching, Caret, SameView
<1>2. q.anchor # Null /\ q.focus = Null => q.anchor = p.anchor /\ p.focus = Null
  BY DEF Caret
<1>3. /\ q.anchor # Null => q.anchor \in Rows(q.dom)
      /\ q.focus # Null => q.focus \in ToSet(q.dom)
      /\ q.collapsed => q.anchor = q.focus
      /\ ~q.collapsed => q.anchor # Null /\ \E x \in Rows(q.dom) : InView(q.dom, x)
  BY DEF Sound, Selection, Caret, SameView, Rows
<1>4. q.anchor # Null /\ q.focus = Null => Remembered(q, index)
  BY <1>2 DEF Sound, Selection, Remembered, Caret, SameView
<1>5. Selection(q, index)
  BY <1>3, <1>4 DEF Selection
<1> QED BY <1>1, <1>5 DEF Sound, Caret, SameView

\* So it does while rows change their places.
LEMMA CaretKeepsMoving ==
  ASSUME NEW t, NEW p, NEW q, NEW index, Moving(t, p, index), Caret(p, q)
  PROVE  Moving(t, q, index)
  BY DEF Moving, Dropless, Caret, SameView

\* The cursor is placed and takes the caret along.
LEMMA SyncCursorKeeps ==
  ASSUME Inv, syncCursorPosition_
  PROVE  Inv'
<1>1. /\ Fires("syncCursor") /\ timers' = Tail(timers)
      /\ cursorAt' = CursorPlace(term, port) /\ port' = CaretAtCursor(term, port)
      /\ UNCHANGED <<term, rowIndex, resizing>> /\ scrollDown' = Sooner
  BY DEF syncCursorPosition_
<1>2. Drops(timers, timers', "syncCursor")
  BY <1>1, Fired
<1>3. Caret(port, port')
  BY <1>1, PortFacts, CaretPlaced DEF Inv, Whole, Numbers
<1>4. /\ timers' \in Seq(TimerNames)
      /\ \A x : x # "syncCursor" => (x \in ToSet(timers') <=> x \in ToSet(timers))
  BY <1>2 DEF Drops
<1>5. scrollDown' \in Nat /\ (scrollDown' > 0 <=> scrollDown > 0)
  BY <1>1, SoonerFacts
<1>6. ASSUME "invalidate" \notin ToSet(timers)
      PROVE  Ordered(term', rowIndex', port', timers')
  <2>1. Sound(port', AllRows(term), rowIndex)
    BY <1>3, <1>6, CaretKeepsSound DEF Inv, Whole, Ordered
  <2> QED BY <1>1, <1>3, <1>4, <1>6, <2>1 DEF Inv, Whole, Ordered, Caret, SameView
<1>7. ASSUME "invalidate" \in ToSet(timers)
      PROVE  Disordered(term', rowIndex', port', timers', scrollDown', resizing')
  <2>1. Disordered(term, rowIndex, port, timers, scrollDown, resizing)
    BY <1>7 DEF Inv, Whole
  <2>2. Moving(term, port', rowIndex)
    BY <1>3, <2>1, CaretKeepsMoving DEF Disordered
  <2>3. timers = <<"syncCursor", "invalidate">>
    <3>1. Head(timers) = "syncCursor"
      BY <1>1 DEF Fires
    <3> QED BY <2>1, <3>1 DEF Disordered
  <2>4. timers' = <<"invalidate">>
    BY <1>1, <2>3
  <2>5. scrollDown' # 1
    BY <1>1, <2>1, <2>3, SoonerFacts DEF Disordered, Sooner
  <2>6. timers' # <<"syncCursor", "invalidate">>
    <3>1. Len(timers') = 1
      BY <2>4
    <3>2. Len(<<"syncCursor", "invalidate">>) = 2
      OBVIOUS
    <3> QED BY <3>1, <3>2
  <2>7. timers' \in {<<"invalidate">>, <<"syncCursor", "invalidate">>, <<"invalidate", "syncCursor">>}
    BY <2>4
  <2> QED BY <1>1, <1>3, <2>1, <2>2, <2>5, <2>6, <2>7 DEF Disordered, Caret, SameView
<1>8. SameView(port, port')
  BY <1>3 DEF Caret
<1> QED BY <1>1, <1>4, <1>5, <1>6, <1>7, <1>8, SameViewKeeps

\* A selection without an extent is looked up while rows are out of order.
LEMMA CaretSynced ==
  ASSUME NEW p \in Ports, p.collapsed, p.anchor = p.focus, p.anchor # Null => p.anchor \in Rows(p.dom),
         NEW index
  PROVE  /\ SameView(p, sync(p, index))
         /\ sync(p, index).anchor = p.anchor /\ sync(p, index).focus = p.focus
         /\ sync(p, index).collapsed
<1>1. CASE p.anchor = Null
  <2>1. sync(p, index) = [p EXCEPT !.startRow = Null, !.endRow = Null, !.isMultiline = FALSE]
    BY <1>1 DEF sync
  <2> QED BY <2>1, ZenonT(40) DEF SameView, Ports
<1>2. CASE p.anchor # Null
  <2> DEFINE a == p.anchor
  <2>1. a \in Ids /\ a = p.focus /\ a \notin {TopFold, BottomFold}
    BY <1>2, Nodes DEF Ports, Rows
  <2>2. FocusRow(p) = a
    BY <2>1 DEF FocusRow
  <2> DEFINE f == FocusRow(p)
             start == IF index[a] <= index[f] THEN a ELSE f
             end == IF index[a] <= index[f] THEN f ELSE a
             b == index[a] # index[f]
             q == [p EXCEPT !.startRow = start, !.endRow = end, !.isMultiline = b]
  <2>3. sync(p, index) = q
    BY <1>2, <2>2, Nodes DEF sync, Node
  <2>4. start = a /\ end = a /\ b \in BOOLEAN
    BY <2>2
  <2> HIDE DEF start, end, b
  <2>5. q \in Ports
    BY <2>1, <2>4 DEF Ports
  <2>6. SameView(p, q) /\ q.anchor = p.anchor /\ q.focus = p.focus /\ q.collapsed = p.collapsed
    BY <2>5 DEF SameView, Ports
  <2> HIDE DEF q
  <2> QED BY <2>3, <2>6
<1> QED BY <1>1, <1>2

\* The browser tells of a selection: it is looked up (Selection.sync).
LEMMA onSelectionChangeKeeps ==
  ASSUME Inv, onSelectionChange
  PROVE  Inv'
<1>1. port' = sync(port, rowIndex) /\ UNCHANGED <<term, rowIndex, timers, scrollDown, resizing, cursorAt>>
  BY DEF onSelectionChange
<1>2. timers \in Seq(TimerNames) /\ scrollDown \in Nat
  BY DEF Inv, Whole
<1>3. CASE "invalidate" \notin ToSet(timers)
  <2>1. Sound(port, AllRows(term), rowIndex) /\ (Viewed(port.dom) \/ "redraw" \in ToSet(timers))
    BY <1>3 DEF Inv, Whole, Ordered
  <2>2. Synced(port, port', rowIndex)
    BY <1>1, <2>1, PortFacts, SyncSelects DEF Sound
  <2>3. SameView(port, port')
    BY <2>2 DEF Synced, SameView
  <2>4. Caching(port', rowIndex)
    BY <2>1, <2>2 DEF Sound, Caching, Synced
  <2>5. Selection(port', rowIndex)
    <3>1. port'.anchor # Null => Remembered(port', rowIndex)
      BY <2>2 DEF Synced, Selected, Remembered, Kept
    <3> QED BY <2>1, <2>2, <3>1 DEF Sound, Selection, Synced
  <2>6. Sound(port', AllRows(term), rowIndex)
    BY <2>1, <2>2, <2>4, <2>5 DEF Sound, Synced
  <2>7. Ordered(term', rowIndex', port', timers')
    BY <1>1, <2>1, <2>3, <2>6 DEF Ordered, SameView
  <2> QED BY <1>1, <1>2, <1>3, <2>3, <2>7, SameViewKeeps
<1>4. CASE "invalidate" \in ToSet(timers)
  <2>1. Disordered(term, rowIndex, port, timers, scrollDown, resizing)
    BY <1>4 DEF Inv, Whole
  <2>2. /\ SameView(port, port')
        /\ port'.anchor = port.anchor /\ port'.focus = port.focus /\ port'.collapsed
    BY <1>1, <2>1, CaretSynced DEF Disordered, Moving
  <2>3. Moving(term, port', rowIndex)
    BY <2>1, <2>2 DEF Disordered, Moving, Dropless, SameView
  <2>4. Disordered(term', rowIndex', port', timers', scrollDown', resizing')
    BY <1>1, <2>1, <2>2, <2>3 DEF Disordered, SameView
  <2> QED BY <1>1, <1>2, <1>4, <2>2, <2>4, SameViewKeeps
<1> QED BY <1>3, <1>4

----------------------------------------------------------------------------
\* The scroll port takes over the size of the window.

\* The port after it took over the size of the window.
Sized(p, q, count) ==
  /\ SameDocument(p, q)
  /\ q.window = p.window /\ q.visibleRowCount = p.window
  /\ q.lastRowCount = count
  /\ Within(q.scrollTop, p.scrollTop, count - p.window)
  /\ q.isScrolledEnd <=> p.isScrolledEnd

\* resize() measures the window and the rows.
LEMMA SizeTaken ==
  ASSUME NEW p \in Ports, NEW rows \in Seq(Ids)
  PROVE  Sized(p, Resized(p, rows), Len(rows))
<1> DEFINE s == syncScrollHeight(p, rows)
           q == [s EXCEPT !.visibleRowCount = s.window]
           n == Len(rows)
<1>1. Scrolls(p, s, p.scrollTop) /\ s.lastRowCount = n /\ s.isScrolledEnd = p.isScrolledEnd
  BY HeightSynced
<1>2. Resized(p, rows) = q
  BY DEF Resized, syncRowNodesDimensions_
<1> HIDE DEF s, n
<1>3. s \in Ports /\ s.window = p.window /\ SameDocument(p, s)
  BY <1>1 DEF Scrolls, SameDrawing, SameDocument
<1>4. q \in Ports
  BY <1>3 DEF Ports
<1>5. /\ SameDocument(s, q) /\ q.window = s.window /\ q.visibleRowCount = s.window
      /\ q.lastRowCount = s.lastRowCount /\ q.scrollTop = s.scrollTop
      /\ q.isScrolledEnd = s.isScrolledEnd
  BY <1>3, <1>4 DEF Ports, SameDocument
<1> HIDE DEF q
<1>6. Within(q.scrollTop, p.scrollTop, n - p.window)
  BY <1>1, <1>3, <1>5 DEF Scrolls
<1>7. Sized(p, q, n)
  BY <1>1, <1>3, <1>5, <1>6 DEF Sized, SameDocument
<1> QED BY <1>2, <1>7 DEF n

\* Taking over a size leaves a timer behind that tells the terminal.
LEMMA SizedKeeps ==
  ASSUME Inv, "invalidate" \notin ToSet(timers),
         NEW p, SameDocument(port, p), p.scrollTop = port.scrollTop, p.window = port.window,
         port' = Resized(p, AllRows(term)), timers' = Append(timers, "onResize"),
         resizing' \in {resizing, FALSE},
         UNCHANGED <<term, rowIndex, scrollDown, cursorAt>>
  PROVE  Inv'
<1> DEFINE count == RowCount(term)
           new == port'.scrollTop
           win == port.window
<1>1. win \in Nat \ {0} /\ count \in Nat \ {0} /\ Len(AllRows(term)) = count /\ AllRows(term) \in Seq(Ids)
  BY PortFacts
<1>2. p \in Ports
  BY DEF SameDocument
<1>3. Sized(p, port', count)
  BY <1>1, <1>2, SizeTaken
<1>4. Adds(timers, timers', "onResize")
  BY TimerAdded, NamesOfTimers DEF Inv, Whole
<1>5. /\ timers' \in Seq(TimerNames) /\ "invalidate" \notin ToSet(timers')
      /\ "onResize" \in ToSet(timers')
      /\ "redraw" \in ToSet(timers') <=> "redraw" \in ToSet(timers)
      /\ "resized" \in ToSet(timers') <=> "resized" \in ToSet(timers)
  BY <1>4 DEF Adds
<1>6. SameDocument(port, port') /\ port'.window = win /\ port'.visibleRowCount = win
      /\ port'.lastRowCount = count /\ port'.dom = port.dom
  BY <1>3 DEF Sized, SameDocument
<1>7. Within(new, port.scrollTop, count - win)
  BY <1>3 DEF Sized
<1> HIDE DEF win, count
<1>8. new \in Nat /\ (new = 0 \/ new + win <= count)
  <2> HIDE DEF new
  <2> QED BY <1>1, <1>7 DEF Within
<1>9. Ordered(term', rowIndex', port', timers')
  <2>1. Sound(port, AllRows(term), rowIndex) /\ (Viewed(port.dom) \/ "redraw" \in ToSet(timers))
    BY DEF Inv, Whole, Ordered
  <2>2. Sound(port', AllRows(term), rowIndex)
    BY <1>1, <1>6, <1>8, <2>1, SoundCarried
  <2> QED BY <1>5, <1>6, <2>1, <2>2 DEF Ordered
<1>10. Geometry(term', port', timers', resizing')
  <2>1. Dropless(term, port') <=> Dropless(term, port)
    BY <1>6 DEF Dropless
  <2>2. port'.lastRowCount = RowCount(term) /\ RowCount(term) <= RowCount(term)
    BY <1>1, <1>6 DEF count
  <2> QED BY <1>1, <1>5, <1>6, <1>8, <2>1, <2>2 DEF Inv, Whole, Geometry, win, count
<1>11. /\ ViewDue(term', port', timers', scrollDown', resizing') /\ EndDue(port', timers', resizing')
       /\ FollowDue(term', port', timers', scrollDown', resizing')
       /\ CursorDue(term', port', timers', resizing', cursorAt')
  BY <1>5 DEF ViewDue, EndDue, FollowDue, CursorDue, SizeDue
<1> QED BY <1>5, <1>9, <1>10, <1>11 DEF Inv, Whole

\* The browser tells of the new size (onResize_).
LEMMA onResizeKeeps ==
  ASSUME Inv, onResize_
  PROVE  Inv'
<1>1. /\ resizing /\ port' = Resized(port, AllRows(term)) /\ timers' = Append(timers, "onResize")
      /\ resizing' = FALSE /\ UNCHANGED <<term, rowIndex, scrollDown, cursorAt>>
  BY DEF onResize_
<1>2. "invalidate" \notin ToSet(timers)
  BY <1>1 DEF Inv, Whole, Disordered
<1>3. SameDocument(port, port)
  BY PortFacts DEF SameDocument
<1>4. resizing' \in {resizing, FALSE}
  BY <1>1
<1> QED BY <1>1, <1>2, <1>3, <1>4, SizedKeeps

----------------------------------------------------------------------------
\* Drawing.

\* The window has room for more rows than there are only while it changes, and
\* then no row that was dropped is in the document.
LEMMA RedrawAllowed ==
  ASSUME Inv
  PROVE  /\ port.visibleRowCount # port.window =>
              port.scrollTop = 0 \/ port.scrollTop + port.visibleRowCount <= RowCount(term)
         /\ RowCount(term) < port.visibleRowCount =>
              \A x \in Rows(port.dom) : rowIndex[x] < RowCount(term)
         /\ ~SizeDue(timers, resizing) =>
              port.visibleRowCount = port.window /\ port.window <= RowCount(term)
<1> DEFINE count == RowCount(term)
           rows == AllRows(term)
           height == term.height
           vis == port.visibleRowCount
           win == port.window
<1>1. /\ rows \in Seq(Ids) /\ Len(rows) = count /\ count \in Nat /\ height \in Nat /\ count >= height
      /\ vis \in Nat /\ win \in Nat /\ Numbering(rows, rowIndex)
  BY PortFacts
<1>2. Geometry(term, port, timers, resizing)
  BY DEF Inv, Whole
<1>3. ASSUME count < vis, NEW x \in Rows(port.dom) PROVE rowIndex[x] < count
  <2>1. height # win \/ vis # win
    <3> HIDE DEF count, height, vis, win
    <3> QED BY <1>1, <1>3
  <2>2. x \in ToSet(rows)
    BY <1>2, <2>1 DEF Geometry, Dropless
  <2>3. PICK i \in 1 .. count : rows[i] = x
    BY <1>1, <2>2 DEF ToSet
  <2>4. rowIndex[x] = i - 1
    BY <1>1, <2>3 DEF Numbering
  <2> QED BY <1>1, <2>3, <2>4
<1>4. vis # win => port.scrollTop = 0 \/ port.scrollTop + vis <= count
  BY <1>2 DEF Geometry
<1>5. ASSUME ~SizeDue(timers, resizing) PROVE vis = win /\ win <= count
  BY <1>1, <1>2, <1>5 DEF Geometry, SizeDue
<1> QED BY <1>3, <1>4, <1>5

\* A redraw, whether a timer or a scroll event asked for it.
LEMMA RedrawnKeeps ==
  ASSUME Inv, "invalidate" \notin ToSet(timers),
         NEW p, SameDocument(port, p), p.scrollTop = port.scrollTop, p.window = port.window,
         p.visibleRowCount = port.visibleRowCount,
         port' = redraw_(p, AllRows(term), rowIndex),
         UNCHANGED <<term, rowIndex, resizing, cursorAt>>,
         timers' \in Seq(TimerNames), scrollDown' \in Nat, scrollDown' > 0 <=> scrollDown > 0,
         \A x : x \notin {"redraw", "onScroll"} => (x \in ToSet(timers') <=> x \in ToSet(timers)),
         "onScroll" \in ToSet(timers) => "onScroll" \in ToSet(timers'),
         (p.scrolled <=> port.scrolled) \/ "onScroll" \in ToSet(timers')
  PROVE  Redrawn(p, port', AllRows(term), rowIndex) /\ Inv'
<1> DEFINE count == RowCount(term)
           rows == AllRows(term)
           top == port.scrollTop
           new == port'.scrollTop
           vis == port.visibleRowCount
           win == port.window
<1>1. /\ rows \in Seq(Ids) /\ Len(rows) = count /\ count \in Nat \ {0}
      /\ rowIndex \in [Ids -> Nat] /\ Numbering(rows, rowIndex)
      /\ top \in Nat /\ vis \in Nat \ {0} /\ win \in Nat \ {0}
  BY PortFacts
<1>2. Sound(port, rows, rowIndex)
  BY DEF Inv, Whole, Ordered
<1>3. Sound(p, rows, rowIndex) /\ p.dom = port.dom
  BY <1>1, <1>2, SoundCarried DEF SameDocument
<1>4. Len(rows) > 0
  BY <1>1
<1>5. p.visibleRowCount # p.window => p.scrollTop = 0 \/ p.scrollTop + p.visibleRowCount <= Len(rows)
  BY <1>1, RedrawAllowed
<1>6. Len(rows) < p.visibleRowCount => \A x \in Rows(p.dom) : rowIndex[x] < Len(rows)
  BY <1>1, <1>3, RedrawAllowed
<1> HIDE DEF rows
<1>7. Redrawn(p, port', rows, rowIndex)
  BY <1>1, <1>3, <1>4, <1>5, <1>6, RedrawDraws DEF rows
<1>8. /\ Sound(port', rows, rowIndex)
      /\ Shown(port') = SubSeq(rows, new + 1, new + RowsOfView(p, rows))
      /\ port'.visibleRowCount = win /\ port'.window = win /\ port'.lastRowCount = count
      /\ Within(new, top, count - win)
      /\ port'.scrolled <=> p.scrolled \/ new # top
      /\ port'.isScrolledEnd <=> new + win >= count
      /\ Viewed(port'.dom)
      /\ Rows(port'.dom) \subseteq Rows(port.dom) \cup ToSet(rows)
  BY <1>1, <1>3, <1>7 DEF Redrawn, Viewed
<1>9. /\ "invalidate" \notin ToSet(timers')
      /\ "onResize" \in ToSet(timers') <=> "onResize" \in ToSet(timers)
      /\ "syncCursor" \in ToSet(timers') <=> "syncCursor" \in ToSet(timers)
      /\ "resized" \in ToSet(timers') <=> "resized" \in ToSet(timers)
  OBVIOUS
<1>10. new = 0 \/ new + win <= count
  <2> HIDE DEF new, win, count, top
  <2> QED BY <1>1, <1>8 DEF Within
<1>11. Geometry(term', port', timers', resizing')
  <2>1. Geometry(term, port, timers, resizing)
    BY DEF Inv, Whole
  <2>2. Dropless(term, port) => Dropless(term, port')
    BY <1>8 DEF Dropless, rows
  <2>3. count <= count
    BY <1>1
  <2> QED BY <1>1, <1>8, <1>9, <1>10, <2>1, <2>2, <2>3 DEF Geometry
<1>12. ViewDue(term', port', timers', scrollDown', resizing')
  <2> SUFFICES ASSUME ~SizeDue(timers', resizing) PROVE Shown(port') = ViewOf(term, port')
    BY DEF ViewDue
  <2>1. vis = win /\ win <= count
    BY <1>9, RedrawAllowed DEF SizeDue
  <2>2. RowsOfView(p, rows) = win
    <3> DEFINE m == RowsOfView(p, rows)
    <3>1. m = Min({vis, count})
      BY <1>1 DEF RowsOfView
    <3>2. vis \in Int /\ count \in Int
      BY <1>1
    <3> HIDE DEF m, vis, count
    <3>3. Smaller(m, vis, count)
      BY <3>1, <3>2, MinTwo
    <3> HIDE DEF win
    <3> QED BY <2>1, <3>2, <3>3 DEF Smaller, m
  <2> QED BY <1>8, <2>2 DEF ViewOf, rows
<1>13. EndDue(port', timers', resizing')
  BY <1>8 DEF EndDue
<1>14. FollowDue(term', port', timers', scrollDown', resizing')
  BY <1>8 DEF FollowDue
<1>15. CursorDue(term', port', timers', resizing', cursorAt')
  <2> SUFFICES ASSUME ~resizing, ~port'.scrolled, "syncCursor" \notin ToSet(timers),
                      "onScroll" \notin ToSet(timers'), "onResize" \notin ToSet(timers)
               PROVE  cursorAt = CursorPlace(term, port')
    BY <1>9 DEF CursorDue
  <2>1. cursorAt = CursorPlace(term, port)
    BY <1>8 DEF Inv, Whole, CursorDue
  <2>2. vis = win
    BY DEF Inv, Whole, Geometry
  <2> QED BY <1>8, <2>1, <2>2 DEF CursorPlace, CursorInView
<1>16. Ordered(term', rowIndex', port', timers')
  BY <1>8 DEF Ordered, rows
<1>17. Inv'
  BY <1>9, <1>11, <1>12, <1>13, <1>14, <1>15, <1>16 DEF Inv, Whole
<1> QED BY <1>7, <1>17 DEF rows

\* What drawing leaves of the selection.
Undisturbed(p, q) ==
  /\ q.anchor = p.anchor
  /\ p.anchor # Null /\ p.focus \in Ids => q.focus = p.focus

\* A redraw that was scheduled (scheduleRedraw).
LEMMA RedrawTimerKeeps ==
  ASSUME Inv, RedrawTimer
  PROVE  Inv' /\ Undisturbed(port, port')
<1>1. /\ Fires("redraw") /\ timers' = Tail(timers)
      /\ port' = redraw_(port, AllRows(term), rowIndex)
      /\ UNCHANGED <<term, rowIndex, resizing, cursorAt>> /\ scrollDown' = Sooner
  BY DEF RedrawTimer
<1>2. Drops(timers, timers', "redraw") /\ "invalidate" \notin ToSet(timers)
  BY <1>1, Fired
<1>3. scrollDown' \in Nat /\ (scrollDown' > 0 <=> scrollDown > 0)
  BY <1>1, SoonerFacts
<1>4. /\ timers' \in Seq(TimerNames)
      /\ \A x : x \notin {"redraw", "onScroll"} => (x \in ToSet(timers') <=> x \in ToSet(timers))
      /\ "onScroll" \in ToSet(timers) => "onScroll" \in ToSet(timers')
  BY <1>2 DEF Drops
<1>5. SameDocument(port, port)
  BY PortFacts DEF SameDocument
<1>6. Redrawn(port, port', AllRows(term), rowIndex) /\ Inv'
  BY <1>1, <1>2, <1>3, <1>4, <1>5, RedrawnKeeps
<1> QED BY <1>6 DEF Redrawn, Undisturbed

\* A redraw after scrolling; it may find the window with a new size (onScroll_).
LEMMA onScrollKeeps ==
  ASSUME Inv, onScroll_
  PROVE  Inv' /\ Undisturbed(port, port')
<1> DEFINE arrived == [port EXCEPT !.scrolled = FALSE]
<1>1. /\ port.scrolled
      /\ UNCHANGED <<term, rowIndex, scrollDown, resizing, cursorAt>>
      /\ port.window # port.visibleRowCount =>
           port' = Resized(arrived, AllRows(term)) /\ timers' = Append(timers, "onResize")
      /\ port.window = port.visibleRowCount =>
           port' = redraw_(arrived, AllRows(term), rowIndex) /\ timers' = Append(timers, "onScroll")
  BY DEF onScroll_
<1>2. "invalidate" \notin ToSet(timers)
  BY <1>1 DEF Inv, Whole, Disordered
<1>3. port \in Ports
  BY PortFacts
<1>4. /\ SameDocument(port, arrived) /\ arrived.scrollTop = port.scrollTop
      /\ arrived.window = port.window /\ arrived.visibleRowCount = port.visibleRowCount
      /\ arrived \in Ports
  BY <1>3, ZenonT(40) DEF Ports, SameDocument
<1> HIDE DEF arrived
<1>5. CASE port.window # port.visibleRowCount
  <2>1. port' = Resized(arrived, AllRows(term)) /\ timers' = Append(timers, "onResize")
    BY <1>1, <1>5
  <2>2. resizing' \in {resizing, FALSE}
    BY <1>1
  <2>3. Inv'
    BY <1>1, <1>2, <1>4, <2>1, <2>2, SizedKeeps
  <2>4. Sized(arrived, port', Len(AllRows(term)))
    BY <1>4, <2>1, PortFacts, SizeTaken
  <2> QED BY <1>4, <2>3, <2>4 DEF Sized, SameDocument, Undisturbed
<1>6. CASE port.window = port.visibleRowCount
  <2>1. port' = redraw_(arrived, AllRows(term), rowIndex) /\ timers' = Append(timers, "onScroll")
    BY <1>1, <1>6
  <2>2. timers \in Seq(TimerNames) /\ scrollDown \in Nat
    BY DEF Inv, Whole
  <2>3. Adds(timers, timers', "onScroll")
    BY <2>1, <2>2, TimerAdded, NamesOfTimers
  <2>4. /\ timers' \in Seq(TimerNames) /\ "onScroll" \in ToSet(timers')
        /\ \A x : x \notin {"redraw", "onScroll"} => (x \in ToSet(timers') <=> x \in ToSet(timers))
    BY <2>3 DEF Adds
  <2>5. Redrawn(arrived, port', AllRows(term), rowIndex) /\ Inv'
    BY <1>1, <1>2, <1>4, <2>1, <2>2, <2>4, RedrawnKeeps
  <2> QED BY <1>4, <2>5 DEF Redrawn, SameDocument, Undisturbed
<1> QED BY <1>5, <1>6

\* Rows that changed places are thrown out and drawn anew.
LEMMA InvalidateTimerKeeps ==
  ASSUME Inv, InvalidateTimer
  PROVE  Inv'
<1> DEFINE count == RowCount(term)
           rows == AllRows(term)
           top == port.scrollTop
           vis == port.visibleRowCount
           win == port.window
           shown == RowsOfView(port, rows)
<1>1. /\ Fires("invalidate") /\ timers' = Tail(timers)
      /\ port' = invalidate(port, AllRows(term), rowIndex)
      /\ UNCHANGED <<term, rowIndex, resizing, cursorAt>> /\ scrollDown' = Sooner
  BY DEF InvalidateTimer
<1>2. Drops(timers, timers', "invalidate")
  BY <1>1, Fired
<1>3. /\ rows \in Seq(Ids) /\ Len(rows) = count /\ count \in Nat \ {0}
      /\ rowIndex \in [Ids -> Nat] /\ Numbering(rows, rowIndex)
      /\ top \in Nat /\ vis \in Nat \ {0} /\ win \in Nat \ {0} /\ count >= term.height
      /\ port.lastRowCount \in Nat
  BY PortFacts
<1>4. Disordered(term, rowIndex, port, timers, scrollDown, resizing)
  BY <1>2 DEF Inv, Whole, Drops
<1>5. Moving(term, port, rowIndex)
  BY <1>4 DEF Disordered
<1>6. /\ timers' \in Seq(TimerNames) /\ "invalidate" \notin ToSet(timers')
      /\ "redraw" \notin ToSet(timers) /\ "onResize" \notin ToSet(timers)
      /\ "resized" \notin ToSet(timers) /\ "onScroll" \notin ToSet(timers)
      /\ \A x : x # "invalidate" => (x \in ToSet(timers') <=> x \in ToSet(timers))
  <2>1. timers \in {<<"invalidate">>, <<"syncCursor", "invalidate">>, <<"invalidate", "syncCursor">>}
    BY <1>4 DEF Disordered
  <2>2. timers' \in {<< >>, <<"syncCursor">>}
    <3>1. Head(timers) = "invalidate"
      BY <1>1 DEF Fires
    <3>2. Head(<<"syncCursor", "invalidate">>) = "syncCursor"
      OBVIOUS
    <3>3. timers = <<"invalidate">> \/ timers = <<"invalidate", "syncCursor">>
      BY <2>1, <3>1, <3>2
    <3>4. Tail(<<"invalidate">>) = << >> /\ Tail(<<"invalidate", "syncCursor">>) = <<"syncCursor">>
      OBVIOUS
    <3> QED BY <1>1, <3>3, <3>4
  <2>3. \A x \in ToSet(timers) : x = "invalidate" \/ x = "syncCursor"
    BY <2>1 DEF ToSet
  <2>4. \A x \in ToSet(timers') : x = "syncCursor"
    BY <2>2 DEF ToSet
  <2> QED BY <1>2, <2>3, <2>4 DEF Drops
<1>7. vis = win /\ win <= count /\ ~resizing /\ ~port.scrolled
  <2>1. vis = win /\ term.height = win /\ ~resizing /\ ~port.scrolled
    BY <1>4 DEF Disordered
  <2> QED BY <1>3, <2>1
<1>8. top = 0 \/ top + win <= count
  <2>1. (top = 0 \/ top + win <= port.lastRowCount) /\ port.lastRowCount <= count
    BY <1>6 DEF Inv, Whole, Geometry
  <2> HIDE DEF top, win, count
  <2>2. \A n \in Nat : n <= count /\ top + win <= n => top + win <= count
    BY <1>3
  <2> QED BY <1>3, <2>1, <2>2
<1>9. shown = win
  <2>1. shown = Min({vis, count}) /\ vis \in Int /\ count \in Int
    BY <1>3 DEF RowsOfView
  <2> HIDE DEF shown, vis, count, win
  <2>2. Smaller(shown, vis, count)
    BY <2>1, MinTwo
  <2> QED BY <1>7, <2>1, <2>2 DEF Smaller
<1>10. ASSUME NEW x \in Rows(port.dom) PROVE rows[rowIndex[x] + 1] = x /\ rowIndex[x] \in Nat
  <2>1. x \in ToSet(rows)
    BY <1>5 DEF Moving, Dropless
  <2>2. PICK i \in DOMAIN rows : rows[i] = x
    BY <1>3, <2>1 DEF ToSet
  <2>3. rowIndex[x] = i - 1
    BY <1>3, <2>2 DEF Numbering
  <2>4. i \in 1 .. count
    BY <1>3
  <2>5. i \in Int /\ (i - 1) + 1 = i /\ i - 1 \in Nat
    BY <1>3, <2>4
  <2> QED BY <2>2, <2>3, <2>5
<1> HIDE DEF shown
<1>11. top + shown <= Len(rows)
  <2> HIDE DEF top, win, count
  <2> QED BY <1>3, <1>7, <1>8, <1>9
<1>12. ASSUME NEW n \in Nat, n < top PROVE n < top + shown
  <2> HIDE DEF top, win
  <2> QED BY <1>3, <1>9, <1>12
<1>13. Refillable(port, rows, rowIndex)
  BY <1>5, <1>10, <1>11, <1>12 DEF Moving, Refillable, shown
<1>14. Len(rows) > 0
  BY <1>3
<1> HIDE DEF rows
<1>15. Invalidated(port, port', rows, rowIndex)
  BY <1>1, <1>3, <1>13, <1>14, InvalidateDraws DEF rows
<1>16. /\ port'.scrollTop = top /\ port'.lastRowCount = port.lastRowCount
       /\ port'.visibleRowCount = vis /\ port'.window = win
       /\ (port'.isScrolledEnd <=> port.isScrolledEnd) /\ ~port'.scrolled
       /\ Shown(port') = SubSeq(rows, top + 1, top + vis)
  BY <1>7, <1>9, <1>15 DEF Invalidated, shown
<1>17. Ordered(term', rowIndex', port', timers')
  <2>1. Caching(port', rowIndex)
    <3>1. DOMAIN port'.cache = {}
      BY <1>15 DEF Invalidated, EmptyCache
    <3> QED BY <3>1 DEF Caching
  <2>2. Selection(port', rowIndex)
    BY <1>15, Nodes DEF Invalidated, Selection, Rows
  <2> QED BY <1>1, <1>3, <1>15, <1>16, <2>1, <2>2 DEF Ordered, Sound, Invalidated, Viewed, rows
<1>18. Geometry(term', port', timers', resizing')
  BY <1>1, <1>3, <1>6, <1>7, <1>16, <1>4 DEF Inv, Whole, Geometry, Disordered
<1>19. ViewDue(term', port', timers', scrollDown', resizing')
  BY <1>1, <1>16 DEF ViewDue, ViewOf, rows
<1>20. EndDue(port', timers', resizing')
  BY <1>1, <1>6, <1>7, <1>16 DEF Inv, Whole, EndDue, SizeDue
<1>21. FollowDue(term', port', timers', scrollDown', resizing')
  BY <1>1, <1>6, <1>16, SoonerFacts DEF Inv, Whole, FollowDue, SizeDue
<1>22. CursorDue(term', port', timers', resizing', cursorAt')
  BY <1>1, <1>6, <1>7, <1>16 DEF Inv, Whole, CursorDue, CursorPlace, CursorInView
<1> QED BY <1>1, <1>6, <1>17, <1>18, <1>19, <1>20, <1>21, <1>22, SoonerFacts DEF Inv, Whole

----------------------------------------------------------------------------
\* Logs.

\* Rows that are added at the end are not seen by a view that is full.
LEMMA SamePrefix ==
  ASSUME NEW s \in Seq(Ids), NEW r \in Seq(Ids), NEW m \in Nat, NEW n \in Nat,
         n <= Len(s), n <= Len(r), \A i \in 1 .. n : s[i] = r[i]
  PROVE  SubSeq(s, m + 1, n) = SubSeq(r, m + 1, n)
<1> DEFINE a == SubSeq(s, m + 1, n)
           b == SubSeq(r, m + 1, n)
           k == m + 1
<1>1. k \in Int /\ k >= 1 /\ n \in Int /\ Len(s) \in Nat /\ Len(r) \in Nat
  OBVIOUS
<1>2. \A i \in 1 .. n : s[i] \in Ids /\ r[i] \in Ids
  BY <1>1
<1> HIDE DEF k
<1>3. \A i \in k .. n : i \in 1 .. n
  BY <1>1
<1>4. /\ a \in Seq(Ids) /\ Len(a) = (IF k <= n THEN n - k + 1 ELSE 0)
      /\ \A i \in 1 .. n - k + 1 : a[i] = s[k + i - 1]
  BY <1>1, <1>2, <1>3, SubSeqProperties DEF k
<1>5. /\ b \in Seq(Ids) /\ Len(b) = (IF k <= n THEN n - k + 1 ELSE 0)
      /\ \A i \in 1 .. n - k + 1 : b[i] = r[k + i - 1]
  BY <1>1, <1>2, <1>3, SubSeqProperties DEF k
<1> HIDE DEF a, b
<1>6. \A i \in 1 .. n - k + 1 : k + i - 1 \in 1 .. n
  BY <1>1
<1>7. \A i \in 1 .. n - k + 1 : a[i] = b[i]
  BY <1>4, <1>5, <1>6
<1>8. Len(a) = Len(b) /\ \A i \in 1 .. Len(a) : i \in 1 .. n - k + 1
  BY <1>1, <1>4, <1>5
<1>9. a = b
  BY <1>4, <1>5, <1>7, <1>8, SeqEqual
<1> QED BY <1>9 DEF a, b

\* A queue with a second timer.
LEMMA OneAppended ==
  Append(<<"invalidate">>, "syncCursor") = <<"invalidate", "syncCursor">>
<1> DEFINE q == Append(<<"invalidate">>, "syncCursor")
           r == <<"invalidate", "syncCursor">>
<1>1. <<"invalidate">> \in Seq({"invalidate", "syncCursor"})
      /\ Len(<<"invalidate">>) = 1 /\ <<"invalidate">>[1] = "invalidate"
  OBVIOUS
<1>2. q \in Seq({"invalidate", "syncCursor"}) /\ Len(q) = 2 /\ q[1] = "invalidate" /\ q[2] = "syncCursor"
  BY <1>1
<1>3. r \in Seq({"invalidate", "syncCursor"}) /\ Len(r) = 2 /\ r[1] = "invalidate" /\ r[2] = "syncCursor"
  OBVIOUS
<1> HIDE DEF q, r
<1>4. \A i \in 1 .. Len(q) : q[i] = r[i]
  <2>1. \A i \in 1 .. 2 : i = 1 \/ i = 2
    OBVIOUS
  <2> QED BY <1>2, <1>3, <2>1
<1>5. q = r
  BY <1>2, <1>3, <1>4, SeqEqual
<1> QED BY <1>5 DEF q, r

\* What a step does to the terminal when it adds rows at most.
Grown(t, u, index, value) ==
  /\ Numbers(u, value) /\ u.height = t.height
  /\ \A x \in ToSet(AllRows(t)) : x \in ToSet(AllRows(u))
  /\ \A i \in 1 .. RowCount(t) : AllRows(u)[i] = AllRows(t)[i]
  /\ RowCount(u) >= RowCount(t) /\ RowCount(u) \in Nat

\* A step of a log that leaves the rows of the view in their places.
LEMMA GrownKeeps ==
  ASSUME Inv, Grown(term, term', rowIndex, rowIndex'), UNCHANGED <<port, resizing, cursorAt>>,
         \A x \in Rows(port.dom) : rowIndex'[x] = rowIndex[x],
         timers' = WithCursor, scrollDown' \in Nat,
         scrollDown' = scrollDown \/ (scrollDown = 0 /\ scrollDown' = Len(timers') + 1),
         \/ AllRows(term') = AllRows(term)
         \/ Dropless(term, port) /\ (port.isScrolledEnd => scrollDown' > 0)
  PROVE  Inv'
<1> DEFINE count == RowCount(term)
           more == RowCount(term')
           rows == AllRows(term)
           left == AllRows(term')
           top == port.scrollTop
           vis == port.visibleRowCount
           win == port.window
<1>1. /\ rows \in Seq(Ids) /\ Len(rows) = count /\ count \in Nat \ {0}
      /\ rowIndex \in [Ids -> Nat] /\ Numbering(rows, rowIndex)
      /\ top \in Nat /\ vis \in Nat \ {0} /\ win \in Nat \ {0} /\ port.lastRowCount \in Nat
      /\ port \in Ports
  BY PortFacts
<1>2. /\ Numbers(term', rowIndex') /\ term'.height = term.height
      /\ \A x \in ToSet(rows) : x \in ToSet(left)
      /\ \A i \in 1 .. count : left[i] = rows[i]
      /\ more >= count /\ more \in Nat
  BY DEF Grown
<1>3. left \in Seq(Ids) /\ Len(left) = more /\ rowIndex' \in [Ids -> Nat]
  BY <1>2, RowsOfTerminal DEF Numbers, Terminal, RowCount
<1>4. Adds(timers, timers', "syncCursor")
  BY TimerScheduled, NamesOfTimers DEF Inv, Whole, WithCursor
<1>5. /\ timers' \in Seq(TimerNames) /\ "syncCursor" \in ToSet(timers') /\ Len(timers') \in Nat \ {0}
      /\ \A x : x # "syncCursor" => (x \in ToSet(timers') <=> x \in ToSet(timers))
  BY <1>4 DEF Adds
<1>6. scrollDown > 0 => scrollDown' > 0
  OBVIOUS
<1>7. Dropless(term, port) => Dropless(term', port)
  BY <1>2 DEF Dropless
<1>8. ASSUME Dropless(term, port), NEW x \in Rows(port.dom)
      PROVE  rowIndex[x] < count
  <2>1. PICK i \in DOMAIN rows : rows[i] = x
    BY <1>8 DEF Dropless, ToSet
  <2>2. rowIndex[x] = i - 1
    BY <1>1, <2>1 DEF Numbering
  <2>3. i \in 1 .. count
    BY <1>1
  <2> QED BY <1>1, <2>2, <2>3
<1>9. ASSUME "invalidate" \notin ToSet(timers)
      PROVE  Ordered(term', rowIndex', port', timers')
  <2>1. Sound(port, rows, rowIndex) /\ (Viewed(port.dom) \/ "redraw" \in ToSet(timers))
    BY <1>9 DEF Inv, Whole, Ordered
  <2>2. Sorted(port.dom, rowIndex')
    BY <2>1 DEF Sound, Sorted
  <2>3. Own(port.dom, left, rowIndex')
    <3> SUFFICES ASSUME NEW x \in Rows(port.dom), rowIndex[x] < more PROVE left[rowIndex[x] + 1] = x
      BY <1>3 DEF Own
    <3>1. x \in Ids
      BY <1>1 DEF Ports, Rows, Node, ToSet
    <3>2. rowIndex[x] < count
      BY <1>1, <1>3, <1>8
    <3>3. rows[rowIndex[x] + 1] = x
      BY <1>1, <2>1, <3>2 DEF Sound, Own
    <3>4. rowIndex[x] \in Nat
      BY <1>1, <3>1
    <3>5. rowIndex[x] + 1 \in 1 .. count
      BY <1>1, <3>2, <3>4
    <3> QED BY <1>2, <3>3, <3>5
  <2>4. Caching(port, rowIndex')
    BY <2>1 DEF Sound, Caching
  <2>5. Selection(port, rowIndex')
    BY <2>1 DEF Sound, Selection, Remembered
  <2>6. Sound(port, left, rowIndex')
    BY <2>1, <2>2, <2>3, <2>4, <2>5 DEF Sound
  <2> QED BY <1>5, <2>1, <2>6 DEF Ordered
<1>10. ASSUME "invalidate" \in ToSet(timers)
       PROVE  Disordered(term', rowIndex', port', timers', scrollDown', resizing')
  <2>1. Disordered(term, rowIndex, port, timers, scrollDown, resizing)
    BY <1>10 DEF Inv, Whole
  <2>2. Moving(term', port, rowIndex')
    BY <1>7, <2>1 DEF Disordered, Moving, Rows
  <2>3. \/ timers = <<"invalidate">> /\ timers' = <<"invalidate", "syncCursor">>
        \/ timers \in {<<"syncCursor", "invalidate">>, <<"invalidate", "syncCursor">>} /\ timers' = timers
    <3>1. timers \in {<<"invalidate">>, <<"syncCursor", "invalidate">>, <<"invalidate", "syncCursor">>}
      BY <2>1 DEF Disordered
    <3>2. CASE timers = <<"invalidate">>
      <4>1. "syncCursor" \notin ToSet(timers)
        BY <3>2 DEF ToSet
      <4>2. timers' = Append(timers, "syncCursor")
        BY <4>1 DEF WithCursor, Schedule
      <4>3. Append(<<"invalidate">>, "syncCursor") = <<"invalidate", "syncCursor">>
        BY OneAppended
      <4> QED BY <3>2, <4>2, <4>3
    <3>3. CASE timers = <<"syncCursor", "invalidate">>
      <4>1. "syncCursor" \in ToSet(timers)
        <5>1. timers[1] = "syncCursor" /\ 1 \in DOMAIN timers
          BY <3>3
        <5> QED BY <5>1 DEF ToSet
      <4> QED BY <3>3, <4>1 DEF WithCursor, Schedule
    <3>4. CASE timers = <<"invalidate", "syncCursor">>
      <4>1. "syncCursor" \in ToSet(timers)
        <5>1. timers[2] = "syncCursor" /\ 2 \in DOMAIN timers
          BY <3>4
        <5> QED BY <5>1 DEF ToSet
      <4> QED BY <3>4, <4>1 DEF WithCursor, Schedule
    <3> QED BY <3>1, <3>2, <3>3, <3>4
  <2>4. Len(timers') = 2
    BY <2>3
  <2>5. scrollDown' # 1 /\ (scrollDown' = 2 => scrollDown = 2)
    BY <2>1, <2>4 DEF Disordered
  <2>6. timers' = <<"syncCursor", "invalidate">> => timers = <<"syncCursor", "invalidate">>
    <3>1. <<"invalidate", "syncCursor">>[1] # <<"syncCursor", "invalidate">>[1]
      OBVIOUS
    <3> QED BY <2>3, <3>1
  <2>7. timers' \in {<<"invalidate">>, <<"syncCursor", "invalidate">>, <<"invalidate", "syncCursor">>}
    BY <2>3
  <2>8. scrollDown' = 2 => timers' # <<"syncCursor", "invalidate">>
    BY <2>1, <2>5, <2>6 DEF Disordered
  <2> QED BY <1>2, <2>1, <2>2, <2>5, <2>7, <2>8 DEF Disordered
<1>11. Geometry(term', port', timers', resizing')
  <2>1. Geometry(term, port, timers, resizing)
    BY DEF Inv, Whole
  <2>2. port.lastRowCount <= count => port.lastRowCount <= more
    BY <1>1, <1>2
  <2>3. top + vis <= count => top + vis <= more
    BY <1>1, <1>2
  <2> QED BY <1>2, <1>5, <1>7, <2>1, <2>2, <2>3 DEF Geometry
<1>12. ViewDue(term', port', timers', scrollDown', resizing')
  <2> SUFFICES ASSUME ~port.scrolled, ~SizeDue(timers, resizing), "redraw" \notin ToSet(timers),
                      "invalidate" \notin ToSet(timers)
               PROVE  \/ scrollDown' > 0 /\ top + vis < more
                      \/ Shown(port) = ViewOf(term', port)
    BY <1>5 DEF ViewDue, SizeDue
  <2>1. \/ scrollDown > 0 /\ top + vis < count
        \/ Shown(port) = ViewOf(term, port)
    BY DEF Inv, Whole, ViewDue
  <2>2. vis = win /\ win <= count
    BY RedrawAllowed
  <2>3. (top = 0 \/ top + win <= port.lastRowCount) /\ port.lastRowCount <= count
    BY DEF Inv, Whole, Geometry, SizeDue
  <2>4. top + vis \in Nat /\ top + vis <= count /\ top + vis <= more
    <3> DEFINE last == port.lastRowCount
    <3>1. last \in Nat
      BY <1>1
    <3> HIDE DEF top, vis, win, count, more, last
    <3> QED BY <1>1, <1>2, <2>2, <2>3, <3>1 DEF last
  <2>5. \A i \in 1 .. top + vis : rows[i] = left[i]
    <3> HIDE DEF top, vis, count, rows, left
    <3> QED BY <1>1, <1>2, <2>4
  <2>6. ViewOf(term, port) = ViewOf(term', port)
    <3> DEFINE n == top + vis
               k == top
    <3>1. /\ n \in Nat /\ n <= count /\ n <= more /\ \A i \in 1 .. n : rows[i] = left[i]
          /\ k \in Nat
      BY <1>1, <2>4, <2>5
    <3>2. ViewOf(term, port) = SubSeq(rows, k + 1, n) /\ ViewOf(term', port) = SubSeq(left, k + 1, n)
      BY DEF ViewOf
    <3> HIDE DEF n, k
    <3>3. SubSeq(rows, k + 1, n) = SubSeq(left, k + 1, n)
      <4> HIDE DEF rows, left
      <4> QED BY <1>1, <1>3, <3>1, SamePrefix, SMTT(30)
    <3> QED BY <3>2, <3>3
  <2>7. top + vis < count => top + vis < more
    BY <1>1, <1>2
  <2> QED BY <1>6, <2>1, <2>6, <2>7
<1>13. EndDue(port', timers', resizing')
  BY <1>5 DEF Inv, Whole, EndDue, SizeDue
<1>14. FollowDue(term', port', timers', scrollDown', resizing')
  BY <1>5, <1>6 DEF Inv, Whole, FollowDue, SizeDue, RowCount
<1>15. CursorDue(term', port', timers', resizing', cursorAt')
  BY <1>5 DEF CursorDue
<1> QED BY <1>2, <1>5, <1>9, <1>10, <1>11, <1>12, <1>13, <1>14, <1>15 DEF Inv, Whole

\* A terminal of which only the cursor has moved.
SameRows(t, u) ==
  /\ u \in Terms /\ u.height = t.height /\ u.current = t.current /\ u.scrollback = t.scrollback
  /\ ScreenRows(u) = ScreenRows(t) /\ Hidden(u) = Hidden(t) /\ AllRows(u) = AllRows(t)

\* Moving the cursor changes nothing else.
LEMMA CursorSet ==
  ASSUME NEW t \in Terms, NEW cursor \in Int
  PROVE  SameRows(t, [t EXCEPT !.cursor = cursor]) /\ [t EXCEPT !.cursor = cursor].cursor = cursor
<1> DEFINE u == [t EXCEPT !.cursor = cursor]
<1>1. /\ u \in Terms /\ u.height = t.height /\ u.current = t.current
      /\ u.scrollback = t.scrollback /\ u.screens = t.screens /\ u.cursor = cursor
  BY DEF Terms
<1> HIDE DEF u
<1>2. SameRows(t, u)
  BY <1>1 DEF SameRows, ScreenRows, Hidden, AllRows
<1> QED BY <1>1, <1>2 DEF u

\* A log moves the cursor.
LEMMA MoveCursorKeeps ==
  ASSUME Inv, NEW row \in 0 .. term.height - 1, MoveCursor(row)
  PROVE  Inv'
<1>1. /\ term' = [term EXCEPT !.cursor = row] /\ timers' = WithCursor
      /\ UNCHANGED <<rowIndex, port, scrollDown, resizing, cursorAt>>
  BY DEF MoveCursor
<1>2. Numbers(term, rowIndex) /\ scrollDown \in Nat
  BY DEF Inv, Whole
<1>3. term \in Terms /\ row \in Int
  BY <1>2 DEF Numbers, Terminal
<1>4. SameRows(term, term') /\ term'.cursor = row
  BY <1>1, <1>3, CursorSet
<1>5. Numbers(term', rowIndex')
  BY <1>1, <1>2, <1>4 DEF Numbers, Terminal, Distinct, SameRows
<1>6. /\ AllRows(term') = AllRows(term) /\ RowCount(term') = RowCount(term)
      /\ term'.height = term.height /\ RowCount(term) \in Nat
  BY <1>4, PortFacts DEF SameRows, RowCount
<1>7. Grown(term, term', rowIndex, rowIndex')
  BY <1>5, <1>6 DEF Grown
<1> QED BY <1>1, <1>2, <1>6, <1>7, GrownKeeps

\* A row that is taken for something new is nowhere yet.
LEMMA FreeUnused ==
  ASSUME term \in Terms, NEW x \in FreeRows
  PROVE  x \notin ToSet(AllRows(term)) /\ x \notin ToSet(Hidden(term)) /\ x \notin ToSet(port.dom)
<1>1. /\ x \notin ToSet(term.scrollback) /\ x \notin ToSet(term.screens.primary)
      /\ x \notin ToSet(term.screens.alternate) /\ x \notin ToSet(port.dom)
  BY DEF FreeRows, Used
<1>2. term.current = "primary" \/ term.current = "alternate"
  BY DEF Terms, Names
<1>3. x \notin ToSet(ScreenRows(term)) /\ x \notin ToSet(Hidden(term))
  BY <1>1, <1>2 DEF ScreenRows, Hidden, Other
<1>4. ScreenRows(term) \in Seq(Ids) /\ term.scrollback \in Seq(Ids)
  BY RowsOfTerminal
<1>5. Chained(Ids, term.scrollback, ScreenRows(term), AllRows(term))
  BY <1>4, ConcatFacts DEF AllRows
<1> QED BY <1>1, <1>3, <1>5 DEF Chained

\* There is a row to take.
LEMMA RowFree ==
  ASSUME FreeRows # {}
  PROVE  1 \in Nat /\ 1 <= Cardinality(FreeRows)
<1>1. IsFiniteSet(FreeRows)
  <2>1. IsFiniteSet(Ids)
    BY HeightsAssumption, FS_Interval DEF Ids
  <2>2. FreeRows \in SUBSET Ids
    BY DEF FreeRows
  <2> QED BY <2>1, <2>2, FS_Subset
<1>2. Cardinality(FreeRows) \in Nat /\ Cardinality(FreeRows) # 0
  BY <1>1, FS_EmptySet, FS_CardinalityType
<1> QED BY <1>2

\* A log adds a row at the end.
LEMMA AppendRowKeeps ==
  ASSUME Inv, NoneDropped, AppendRow
  PROVE  Inv'
<1> DEFINE new == Fresh(1)
<1>1. /\ FreeRows # {} /\ term' = Appended(term, new)
      /\ rowIndex' = Numbered(rowIndex, new, RowCount(term))
      /\ scrollDown' = IF port.isScrolledEnd THEN ScrollDownAfter(WithCursor) ELSE scrollDown
      /\ timers' = WithCursor
      /\ UNCHANGED <<port, resizing, cursorAt>>
  BY DEF AppendRow
<1>2. Numbers(term, rowIndex) /\ scrollDown \in Nat
  BY DEF Inv, Whole
<1>3. /\ term \in Terms /\ Distinct(term) /\ term.height \in Nat \ {0}
      /\ Len(ScreenRows(term)) = term.height /\ rowIndex \in [Ids -> Nat]
      /\ Numbering(AllRows(term), rowIndex)
  BY <1>2 DEF Numbers, Terminal
<1>4. new \in Seq(Ids) /\ Len(new) = 1 /\ Injective(new) /\ ToSet(new) \subseteq FreeRows
  BY <1>1, RowFree, FreshFacts
<1>5. \A x \in ToSet(new) :
        x \notin ToSet(AllRows(term)) /\ x \notin ToSet(Hidden(term)) /\ x \notin ToSet(port.dom)
  BY <1>3, <1>4, FreeUnused
<1> HIDE DEF new
<1>6. /\ Extended(term, term', new) /\ Len(ScreenRows(term')) = term.height
      /\ term'.cursor = term.height - 1
  <2> DEFINE n == Len(ScreenRows(term))
             m == Len(new)
  <2>1. /\ Extended(term, Appended(term, new), new)
        /\ n + m >= term.height => Len(ScreenRows(Appended(term, new))) = term.height
        /\ n = term.height /\ m = 1 => Appended(term, new).cursor = term.height - 1
    BY <1>3, <1>4, AppendedFacts
  <2>2. n = term.height /\ m = 1 /\ term.height + 1 >= term.height
    BY <1>3, <1>4
  <2> HIDE DEF n, m
  <2> QED BY <1>1, <2>1, <2>2
<1>7. /\ Distinct(term') /\ rowIndex' \in [Ids -> Nat] /\ Numbering(AllRows(term'), rowIndex')
      /\ \A x \in Ids : x \notin ToSet(new) => rowIndex'[x] = rowIndex[x]
  <2>1. Lengthened(term, term', new) /\ Hidden(term') = Hidden(term)
    BY <1>6 DEF Extended, Lengthened
  <2> QED BY <1>1, <1>3, <1>4, <1>5, <2>1, ExtendedNumbered
<1>8. Numbers(term', rowIndex') /\ term'.height = term.height
  <2>1. term'.height = term.height /\ term' \in Terms
    BY <1>6 DEF Extended
  <2>2. term'.cursor \in 0 .. term.height - 1
    BY <1>3, <1>6
  <2> QED BY <1>3, <1>6, <1>7, <2>1, <2>2 DEF Numbers, Terminal
<1>9. \A x \in Rows(port.dom) : rowIndex'[x] = rowIndex[x]
  <2>1. \A x \in Rows(port.dom) : x \in Ids /\ x \in ToSet(port.dom)
    BY PortFacts DEF Ports, Rows, Node, ToSet
  <2> QED BY <1>5, <1>7, <2>1
<1>10. Grown(term, term', rowIndex, rowIndex')
  <2>1. AllRows(term) \in Seq(Ids) /\ Len(AllRows(term)) = RowCount(term) /\ RowCount(term) \in Nat
    BY PortFacts
  <2>2. Chained(Ids, AllRows(term), new, AllRows(term'))
    BY <1>4, <1>6, <2>1, ConcatFacts DEF Extended
  <2>3. RowCount(term') = RowCount(term) + 1
    BY <1>4, <2>1, <2>2 DEF Chained, RowCount
  <2>4. RowCount(term') >= RowCount(term) /\ RowCount(term') \in Nat
    BY <2>1, <2>3
  <2> QED BY <1>8, <2>1, <2>2, <2>4 DEF Grown, Chained
<1>11. Dropless(term, port)
  BY DEF NoneDropped, Dropless, Rows
<1>12. /\ scrollDown' \in Nat
       /\ scrollDown' = scrollDown \/ (scrollDown = 0 /\ scrollDown' = Len(timers') + 1)
       /\ port.isScrolledEnd => scrollDown' > 0
  <2>1. Adds(timers, timers', "syncCursor")
    BY <1>1, TimerScheduled, NamesOfTimers DEF Inv, Whole, WithCursor
  <2>2. Len(timers') \in Nat
    BY <2>1 DEF Adds
  <2>3. timers' = WithCursor
    BY <1>1
  <2>4. ScrollDownAfter(WithCursor) = IF scrollDown = 0 THEN Len(timers') + 1 ELSE scrollDown
    BY <2>3 DEF ScrollDownAfter
  <2>5. scrollDown' = IF port.isScrolledEnd THEN IF scrollDown = 0 THEN Len(timers') + 1 ELSE scrollDown
                                            ELSE scrollDown
    BY <1>1, <2>4
  <2> QED BY <1>2, <2>2, <2>5
<1> QED BY <1>1, <1>9, <1>10, <1>11, <1>12, GrownKeeps

----------------------------------------------------------------------------
\* The screen gets another height.

\* r has the places from m + 1 to n of s.
Slice(D, s, m, n, r) ==
  /\ r \in Seq(D) /\ Len(r) = n - m
  /\ \A i \in 1 .. n - m : r[i] = s[m + i] /\ m + i \in 1 .. Len(s)

\* What a part of a sequence has.
LEMMA SliceFacts ==
  ASSUME NEW D, NEW s \in Seq(D), NEW m \in Nat, NEW n \in Nat, m <= n, n <= Len(s)
  PROVE  Slice(D, s, m, n, SubSeq(s, m + 1, n))
<1> DEFINE r == SubSeq(s, m + 1, n)
           k == m + 1
           l == Len(s)
<1>1. k \in Int /\ n \in Int /\ m \in Int /\ l \in Nat /\ k = m + 1 /\ m >= 0 /\ m <= n /\ n <= l
  OBVIOUS
<1>2. \A i \in 1 .. l : s[i] \in D
  OBVIOUS
<1> HIDE DEF k, l
<1>3. \A i \in k .. n : s[i] \in D
  BY <1>1, <1>2
<1>4. /\ r \in Seq(D) /\ Len(r) = (IF k <= n THEN n - k + 1 ELSE 0)
      /\ \A i \in 1 .. n - k + 1 : r[i] = s[k + i - 1]
  BY <1>1, <1>3, SubSeqProperties DEF k
<1> HIDE DEF r
<1>5. Len(r) = n - m
  BY <1>1, <1>4
<1>6. ASSUME NEW i \in 1 .. n - m PROVE r[i] = s[m + i] /\ m + i \in 1 .. l
  <2>1. i \in 1 .. n - k + 1 /\ k + i - 1 = m + i /\ m + i \in 1 .. l
    BY <1>1
  <2> QED BY <1>4, <2>1
<1>7. Slice(D, s, m, n, r)
  BY <1>4, <1>5, <1>6 DEF Slice, l
<1> QED BY <1>7 DEF r

\* u is t with a screen of another height.
Realization(t, u, height) ==
  /\ u \in Terms /\ u.height = height /\ u.current = t.current /\ Hidden(u) = Hidden(t)
  /\ Len(ScreenRows(u)) = height
  /\ t.cursor \in 0 .. Len(ScreenRows(t)) - 1 => u.cursor \in 0 .. height - 1
  /\ Len(t.scrollback) <= RowCount(u)

\* The rows of u are the first rows of t.
Leading(t, u) ==
  /\ RowCount(u) <= RowCount(t)
  /\ \A i \in 1 .. RowCount(u) : AllRows(u)[i] = AllRows(t)[i]

\* Rows at the bottom are dropped and rows at the top scroll off.
LEMMA RowsDropped ==
  ASSUME NEW t \in Terms, NEW height \in Nat \ {0}, height < Len(ScreenRows(t)),
         NEW off \in Nat, off + height <= Len(ScreenRows(t)), NEW cursor \in Int,
         t.cursor \in 0 .. Len(ScreenRows(t)) - 1 => cursor \in 0 .. height - 1,
         NEW u,
         u = Renewed(t, height, t.scrollback \o SubSeq(ScreenRows(t), 1, off),
                     SubSeq(ScreenRows(t), off + 1, off + height), cursor)
  PROVE  Realization(t, u, height) /\ Leading(t, u)
<1> DEFINE rows == ScreenRows(t)
           sb == t.scrollback
           n == Len(rows)
           l == Len(sb)
           a == SubSeq(rows, 1, off)
           b == SubSeq(rows, off + 1, off + height)
           e == off + height
<1>1. /\ rows \in Seq(Ids) /\ sb \in Seq(Ids) /\ n \in Nat /\ l \in Nat
      /\ RowCount(t) = l + n /\ e \in Nat /\ off <= e /\ e <= n
      /\ height \in Nat \ {0} /\ e = off + height
  <2>1. rows \in Seq(Ids) /\ sb \in Seq(Ids) /\ RowCount(t) = l + n
    BY RowsOfTerminal
  <2>2. n \in Nat /\ l \in Nat
    BY <2>1
  <2>3. e \in Nat /\ off <= e /\ e <= n
    OBVIOUS
  <2> QED BY <2>1, <2>2, <2>3
<1>2. Slice(Ids, rows, 0, off, a)
  <2>1. 0 \in Nat /\ 0 <= off /\ off <= n /\ 0 + 1 = 1
    BY <1>1
  <2> HIDE DEF n, rows
  <2>2. Slice(Ids, rows, 0, off, SubSeq(rows, 0 + 1, off))
    BY <1>1, <2>1, SliceFacts DEF n
  <2> QED BY <2>1, <2>2
<1>3. Slice(Ids, rows, off, e, b)
  <2> HIDE DEF e, rows
  <2> QED BY <1>1, SliceFacts DEF n, e
<1> HIDE DEF a, b, e
<1>4. /\ a \in Seq(Ids) /\ Len(a) = off /\ b \in Seq(Ids) /\ Len(b) = height
      /\ \A i \in 1 .. off : a[i] = rows[i]
      /\ \A i \in 1 .. height : b[i] = rows[off + i]
  <2>1. e - off = height /\ off - 0 = off /\ \A i \in 1 .. off : 0 + i = i
    BY DEF e
  <2> HIDE DEF rows
  <2> QED BY <1>2, <1>3, <2>1 DEF Slice
<1> DEFINE s == sb \o a
<1>5. Chained(Ids, sb, a, s)
  BY <1>1, <1>4, ConcatFacts
<1> HIDE DEF s
<1>6. s \in Seq(Ids)
  BY <1>5 DEF Chained
<1>7. Replaced(t, u, s, b) /\ u.height = height /\ u.cursor = cursor
  <2>1. u = Renewed(t, height, s, b, cursor)
    BY DEF s, a, b
  <2> QED BY <1>4, <1>6, <2>1, ScreenReplaced
<1> DEFINE all == AllRows(u)
           old == AllRows(t)
<1>8. Chained(Ids, s, b, all)
  <2>1. all = s \o b
    BY <1>7 DEF Replaced
  <2>2. Chained(Ids, s, b, s \o b)
    BY <1>4, <1>6, ConcatFacts
  <2> QED BY <2>1, <2>2
<1>9. Chained(Ids, sb, rows, old)
  BY <1>1, ConcatFacts DEF AllRows
<1> HIDE DEF all, old, rows, n, sb, l
<1>10. Len(s) = l + off
  BY <1>4, <1>5 DEF Chained, l
<1>11. Len(all) = l + off + height
  BY <1>4, <1>8, <1>10 DEF Chained
<1>12. ASSUME NEW i \in 1 .. l + off + height PROVE all[i] = old[i]
  <2>1. CASE i <= l
    <3>1. i \in 1 .. l /\ i \in 1 .. l + off
      BY <1>1, <2>1
    <3> QED BY <1>5, <1>8, <1>9, <1>10, <3>1 DEF Chained, l
  <2>2. CASE i > l /\ i <= l + off
    <3> DEFINE j == i - l
    <3>1. j \in 1 .. off /\ l + j = i /\ i \in 1 .. l + off /\ j \in 1 .. n
      BY <1>1, <2>2
    <3> HIDE DEF j
    <3>2. s[l + j] = a[j] /\ old[l + j] = rows[j]
      BY <1>4, <1>5, <1>9, <3>1 DEF Chained, l, n
    <3>3. all[i] = s[i]
      BY <1>8, <1>10, <3>1 DEF Chained
    <3> QED BY <1>4, <3>1, <3>2, <3>3
  <2>3. CASE i > l + off
    <3> DEFINE j == i - (l + off)
    <3>i. /\ i \in Int /\ l \in Nat /\ off \in Nat /\ height \in Nat /\ n \in Nat
          /\ i > l + off /\ i <= l + off + height /\ off + height <= n
      BY <1>1, <2>3
    <3>1. j \in 1 .. height /\ (l + off) + j = i /\ l + (off + j) = i /\ off + j \in 1 .. n
      BY ONLY <3>i
    <3> HIDE DEF j
    <3>2. all[(l + off) + j] = b[j] /\ old[l + (off + j)] = rows[off + j]
      BY <1>4, <1>8, <1>9, <1>10, <3>1 DEF Chained, l, n
    <3> QED BY <1>4, <3>1, <3>2
  <2>4. i \in Int /\ l \in Int /\ l + off \in Int
    BY <1>1
  <2>5. i <= l \/ (i > l /\ i <= l + off) \/ i > l + off
    BY <2>4
  <2> QED BY <2>1, <2>2, <2>3, <2>5
<1>13. RowCount(u) = l + off + height
  BY <1>11 DEF RowCount, all
<1>14. Leading(t, u)
  <2>1. l + off + height <= l + n
    BY <1>1 DEF e
  <2> QED BY <1>1, <1>12, <1>13, <2>1 DEF Leading, all, old
<1>15. Realization(t, u, height)
  <2>1. l <= l + off + height
    BY <1>1
  <2> QED BY <1>4, <1>7, <1>13, <2>1 DEF Realization, Replaced, l, sb
<1> QED BY <1>14, <1>15

\* Rows come back from the scrollback.
LEMMA RowsTakenBack ==
  ASSUME NEW t \in Terms, NEW height \in Nat \ {0}, NEW missing \in Nat \ {0},
         height = Len(ScreenRows(t)) + missing, NEW kept \in Nat, Len(t.scrollback) = kept + missing,
         NEW cursor \in Int, cursor = t.cursor + missing,
         NEW u,
         u = Renewed(t, height, SubSeq(t.scrollback, 1, kept),
                     SubSeq(t.scrollback, kept + 1, kept + missing) \o ScreenRows(t), cursor)
  PROVE  Realization(t, u, height) /\ Leading(t, u)
<1> DEFINE rows == ScreenRows(t)
           sb == t.scrollback
           n == Len(rows)
           l == Len(sb)
           a == SubSeq(sb, 1, kept)
           b == SubSeq(sb, kept + 1, kept + missing)
<1>1. /\ rows \in Seq(Ids) /\ sb \in Seq(Ids) /\ RowCount(t) = l + n /\ RowCount(t) \in Nat
      /\ l = kept + missing /\ height = n + missing
  BY RowsOfTerminal
<1>2. n \in Nat /\ l \in Nat /\ kept \in 0 .. l
  BY <1>1
<1>3. Parts(Ids, sb, kept, a, b)
  <2> HIDE DEF sb
  <2>1. Parts(Ids, sb, kept, SubSeq(sb, 1, kept), SubSeq(sb, kept + 1, Len(sb)))
    BY <1>1, <1>2, SplitFacts DEF l
  <2>2. Len(sb) = kept + missing
    BY <1>1 DEF l
  <2> QED BY <2>1, <2>2
<1> HIDE DEF a, b
<1>4. /\ a \in Seq(Ids) /\ Len(a) = kept /\ b \in Seq(Ids) /\ Len(b) = missing /\ a \o b = sb
  <2>1. Len(sb) - kept = missing
    BY <1>1 DEF l
  <2> QED BY <1>3, <2>1 DEF Parts
<1> DEFINE s == b \o rows
<1> HIDE DEF rows
<1>5. Chained(Ids, b, rows, s)
  BY <1>1, <1>4, ConcatFacts
<1> HIDE DEF s
<1>6. s \in Seq(Ids)
  BY <1>5 DEF Chained
<1>7. Replaced(t, u, a, s) /\ u.height = height /\ u.cursor = cursor
  <2>1. u = Renewed(t, height, a, s, cursor)
    BY DEF s, a, b, rows
  <2> QED BY <1>4, <1>6, <2>1, ScreenReplaced
<1>8. AllRows(u) = AllRows(t)
  <2>1. Joined(a, b, rows)
    BY <1>1, <1>4, ConcatThree
  <2>2. (a \o b) \o rows = a \o s
    BY <2>1 DEF Joined, s
  <2>3. AllRows(t) = sb \o rows /\ AllRows(u) = a \o s
    BY <1>7 DEF AllRows, rows, Replaced
  <2> QED BY <1>4, <2>2, <2>3
<1>9. RowCount(u) = RowCount(t)
  BY <1>8 DEF RowCount
<1>10. Leading(t, u)
  <2>1. \A i \in 1 .. RowCount(u) : AllRows(u)[i] = AllRows(t)[i]
    BY <1>8
  <2> DEFINE k == RowCount(t)
  <2>2. k \in Nat
    BY <1>1
  <2> HIDE DEF k
  <2>3. k <= k
    BY <2>2
  <2>4. RowCount(u) <= RowCount(t)
    BY <1>9, <2>3 DEF k
  <2> QED BY <2>1, <2>4 DEF Leading
<1>11. Len(s) = height
  BY <1>1, <1>2, <1>4, <1>5 DEF Chained, n
<1>12. ASSUME t.cursor \in 0 .. n - 1 PROVE u.cursor \in 0 .. height - 1
  <2> DEFINE c == t.cursor
  <2>1. c \in 0 .. n - 1 /\ n \in Nat /\ missing \in Nat /\ height = n + missing /\ cursor = c + missing
    BY <1>1, <1>2, <1>12
  <2> HIDE DEF c, n
  <2>2. cursor \in 0 .. height - 1
    BY ONLY <2>1
  <2> QED BY <1>7, <2>2
<1>13. l <= RowCount(u)
  BY <1>1, <1>2, <1>9
<1>14. Realization(t, u, height)
  BY <1>7, <1>11, <1>12, <1>13 DEF Realization, Replaced, n, rows, l, sb
<1> QED BY <1>10, <1>14

\* Rows are added at the end, the cursor stays where it was.
LEMMA RowsMade ==
  ASSUME NEW t \in Terms, NEW height \in Nat \ {0}, NEW new \in Seq(Ids),
         height = Len(ScreenRows(t)) + Len(new), Len(new) > 0,
         NEW u, u = [Appended([t EXCEPT !.height = height], new) EXCEPT !.cursor = t.cursor]
  PROVE  Realization(t, u, height) /\ Lengthened(t, u, new)
<1> DEFINE v == [t EXCEPT !.height = height]
           w == Appended(v, new)
           n == Len(ScreenRows(t))
           m == Len(new)
           c == t.cursor
<1>i. height \in Int
  OBVIOUS
<1>1. /\ v \in Terms /\ v.height = height /\ v.current = t.current
      /\ v.scrollback = t.scrollback /\ v.screens = t.screens
  BY <1>i DEF Terms
<1>2. ScreenRows(t) \in Seq(Ids) /\ RowCount(t) = Len(t.scrollback) + Len(ScreenRows(t)) /\ t.scrollback \in Seq(Ids)
  BY RowsOfTerminal
<1>3. n \in Nat /\ m \in Nat /\ m > 0 /\ height = n + m /\ c \in Int /\ Len(t.scrollback) \in Nat
  BY <1>2 DEF Terms
<1>4. u = [w EXCEPT !.cursor = c]
  OBVIOUS
<1> HIDE DEF v
<1>5. ScreenRows(v) = ScreenRows(t) /\ Hidden(v) = Hidden(t) /\ AllRows(v) = AllRows(t)
  BY <1>1 DEF ScreenRows, Hidden, AllRows
<1>6. Extended(v, w, new) /\ (n + m >= v.height => Len(ScreenRows(w)) = v.height)
  <2>1. n = Len(ScreenRows(v)) /\ v.height \in Nat \ {0}
    BY <1>1, <1>5
  <2> HIDE DEF n, m
  <2>2. m = Len(new)
    BY DEF m
  <2> QED BY <1>1, <2>1, <2>2, AppendedFacts
<1> HIDE DEF w
<1>7. Len(ScreenRows(w)) = height /\ w \in Terms
  <2>1. n + m >= v.height
    BY <1>1, <1>3
  <2> QED BY <1>1, <1>6, <2>1 DEF Extended
<1>8. SameRows(w, u) /\ u.cursor = c
  BY <1>3, <1>4, <1>7, CursorSet
<1>9. Lengthened(t, u, new)
  BY <1>5, <1>6, <1>8 DEF Extended, SameRows, Lengthened
<1>10. AllRows(t) \in Seq(Ids) /\ Len(AllRows(t)) = Len(t.scrollback) + n
  BY <1>2, RowsOfTerminal DEF RowCount
<1>11. Len(t.scrollback) <= RowCount(u)
  <2>1. Chained(Ids, AllRows(t), new, AllRows(u))
    BY <1>9, <1>10, ConcatFacts DEF Lengthened
  <2>2. RowCount(u) = (Len(t.scrollback) + n) + m
    BY <1>10, <2>1 DEF RowCount, Chained
  <2> DEFINE l == Len(t.scrollback)
  <2>3. l \in Nat
    BY <1>3
  <2> HIDE DEF l, n, m
  <2>4. l <= (l + n) + m
    BY <1>3, <2>3
  <2> QED BY <2>2, <2>4 DEF l
<1>12. c \in 0 .. n - 1 => c \in 0 .. height - 1
  <2> HIDE DEF c, n, m
  <2> QED BY <1>3
<1>13. u.height = height /\ u.current = t.current /\ Hidden(u) = Hidden(t) /\ ScreenRows(u) = ScreenRows(w)
  BY <1>1, <1>5, <1>6, <1>8 DEF SameRows, Extended
<1> HIDE DEF c, n
<1>14. Realization(t, u, height)
  BY <1>7, <1>8, <1>11, <1>12, <1>13 DEF Realization, SameRows, c, n
<1> QED BY <1>9, <1>14

\* What realizeHeight_ makes of a terminal: the first of its rows, or all of
\* them and new ones when it has too few.
LEMMA HeightRealized ==
  ASSUME NEW t \in Terms, NEW height \in Nat \ {0}, NEW empty \in EmptyRows(t, height),
         Len(ScreenRows(t)) = height => t.height = height,
         NewRows(t, height) <= Cardinality(FreeRows),
         NEW u, u = Realized(t, height, empty)
  PROVE  /\ Realization(t, u, height)
         /\ NewRows(t, height) \in Nat
         /\ NewRows(t, height) = 0 => Leading(t, u)
         /\ NewRows(t, height) > 0 => Lengthened(t, u, Fresh(NewRows(t, height)))
         /\ NewRows(t, height) > 0 => height > Len(ScreenRows(t))
<1> DEFINE rows == ScreenRows(t)
           n == Len(rows)
           l == Len(t.scrollback)
           missing == height - n
           kept == l - missing
           sized == [t EXCEPT !.height = height]
           off == n - height - empty
           c == t.cursor
<1>1. /\ rows \in Seq(Ids) /\ t.scrollback \in Seq(Ids) /\ n \in Nat /\ l \in Nat /\ c \in Int
      /\ missing \in Int /\ kept \in Int /\ t.current \in Names
  <2>1. rows \in Seq(Ids) /\ t.scrollback \in Seq(Ids) /\ c \in Int /\ t.current \in Names
    BY RowsOfTerminal DEF Terms
  <2> QED BY <2>1
<1>2. NewRows(t, height) = IF missing > l THEN missing ELSE 0
  BY DEF NewRows
<1>3. u = CASE missing = 0 -> t
            [] missing < 0 ->
                 [sized EXCEPT !.scrollback = @ \o SubSeq(rows, 1, off),
                               !.screens[t.current] = SubSeq(rows, off + 1, off + height),
                               !.cursor = Min({Max({@ - off, 0}), height - 1})]
            [] missing > 0 /\ kept >= 0 ->
                 [sized EXCEPT !.scrollback = SubSeq(@, 1, kept),
                               !.screens[t.current] = SubSeq(t.scrollback, kept + 1, kept + missing) \o @,
                               !.cursor = @ + missing]
            [] OTHER -> [Appended(sized, Fresh(missing)) EXCEPT !.cursor = t.cursor]
  BY DEF Realized
<1> HIDE DEF missing, kept, off, sized
<1>4. CASE missing = 0
  <2>1. u = t /\ n = height /\ t.height = height
    BY <1>1, <1>3, <1>4 DEF missing
  <2>2. RowCount(t) = l + n /\ RowCount(t) \in Nat
    BY RowsOfTerminal
  <2>3. NewRows(t, height) = 0
    BY <1>1, <1>2, <1>4
  <2>4. Leading(t, u)
    <3> DEFINE k == RowCount(t)
    <3>1. k \in Nat
      BY <2>2
    <3> HIDE DEF k
    <3>2. k <= k
      BY <3>1
    <3> QED BY <2>1, <3>2 DEF Leading, k
  <2>5. l <= RowCount(u)
    BY <1>1, <2>1, <2>2
  <2>6. Realization(t, u, height)
    BY <2>1, <2>5 DEF Realization
  <2> QED BY <2>3, <2>4, <2>6
<1>5. CASE missing < 0
  <2> DEFINE cursor == Min({Max({c - off, 0}), height - 1})
  <2>1. u = Renewed(t, height, t.scrollback \o SubSeq(rows, 1, off), SubSeq(rows, off + 1, off + height), cursor)
    <3>1. u = [sized EXCEPT !.scrollback = @ \o SubSeq(rows, 1, off),
                            !.screens[t.current] = SubSeq(rows, off + 1, off + height),
                            !.cursor = Min({Max({@ - off, 0}), height - 1})]
      BY <1>1, <1>3, <1>5
    <3> HIDE DEF rows
    <3> QED BY <3>1 DEF Renewed, sized, Terms
  <2>2. NewRows(t, height) = 0
    BY <1>1, <1>2, <1>5
  <2>3. height < n /\ off \in Nat /\ off + height <= n
    <3> DEFINE least == Min({n - height, n - 1 - c})
               most == Max({0, least})
    <3>1. n - height \in Int /\ n - 1 - c \in Int
      BY <1>1
    <3>2. Smaller(least, n - height, n - 1 - c)
      BY <3>1, MinTwo
    <3> HIDE DEF least
    <3>3. least \in Int /\ 0 \in Int
      BY <3>1, <3>2 DEF Smaller
    <3>4. Larger(most, 0, least)
      BY <3>3, MinTwo
    <3>5. empty \in 0 .. most
      BY DEF EmptyRows, least
    <3> HIDE DEF most, n
    <3>6. most \in Int /\ (most = 0 \/ most <= n - height)
      BY <3>1, <3>2, <3>3, <3>4 DEF Smaller, Larger
    <3>7. height < n /\ n \in Nat /\ height \in Nat
      BY <1>1, <1>5 DEF missing
    <3>8. off = n - height - empty
      BY DEF off
    <3> QED BY ONLY <3>5, <3>6, <3>7, <3>8
  <2>4. cursor \in Int /\ (c \in 0 .. n - 1 => cursor \in 0 .. height - 1)
    <3> DEFINE most == Max({c - off, 0})
    <3>1. c - off \in Int /\ 0 \in Int /\ height - 1 \in Nat
      BY <1>1, <2>3
    <3>2. Larger(most, c - off, 0)
      BY <3>1, MinTwo
    <3> HIDE DEF most
    <3>3. most \in Nat /\ height - 1 \in Int /\ most \in Int
      BY <3>1, <3>2 DEF Larger
    <3>4. Smaller(cursor, most, height - 1)
      BY <3>3, MinTwo DEF most
    <3> HIDE DEF cursor
    <3> QED BY <3>1, <3>3, <3>4 DEF Smaller
  <2> HIDE DEF cursor
  <2>5. Realization(t, u, height) /\ Leading(t, u)
    BY <2>1, <2>3, <2>4, RowsDropped
  <2> QED BY <2>2, <2>5
<1>6. CASE missing > 0 /\ kept >= 0
  <2> DEFINE cursor == c + missing
  <2>1. u = Renewed(t, height, SubSeq(t.scrollback, 1, kept),
                    SubSeq(t.scrollback, kept + 1, kept + missing) \o rows, cursor)
    <3>1. u = [sized EXCEPT !.scrollback = SubSeq(@, 1, kept),
                            !.screens[t.current] = SubSeq(t.scrollback, kept + 1, kept + missing) \o @,
                            !.cursor = @ + missing]
      BY <1>1, <1>3, <1>6
    <3> QED BY <3>1 DEF Renewed, sized, Terms, ScreenRows
  <2>2. NewRows(t, height) = 0
    BY <1>1, <1>2, <1>6 DEF kept
  <2>3. /\ missing \in Nat \ {0} /\ kept \in Nat /\ height = n + missing /\ l = kept + missing
        /\ cursor \in Int
    BY <1>1, <1>6 DEF missing, kept
  <2>4. cursor = t.cursor + missing
    OBVIOUS
  <2> HIDE DEF cursor
  <2>5. Realization(t, u, height) /\ Leading(t, u)
    BY <2>1, <2>3, <2>4, RowsTakenBack
  <2> QED BY <2>2, <2>5
<1>7. CASE missing > 0 /\ kept < 0
  <2>1. u = [Appended(sized, Fresh(missing)) EXCEPT !.cursor = t.cursor]
    BY <1>1, <1>3, <1>7
  <2>2. NewRows(t, height) = missing /\ missing \in Nat /\ missing > 0 /\ height = n + missing /\ height > n
    BY <1>1, <1>2, <1>7 DEF kept, missing
  <2> DEFINE new == Fresh(missing)
  <2>3. new \in Seq(Ids) /\ Len(new) = missing
    BY <2>2, FreshFacts
  <2>4. u = [Appended([t EXCEPT !.height = height], new) EXCEPT !.cursor = t.cursor]
    BY <2>1 DEF sized
  <2> HIDE DEF new
  <2>5. Realization(t, u, height) /\ Lengthened(t, u, new)
    BY <2>2, <2>3, <2>4, RowsMade
  <2> QED BY <2>2, <2>5 DEF new
<1>8. missing = 0 \/ missing < 0 \/ (missing > 0 /\ kept >= 0) \/ (missing > 0 /\ kept < 0)
  BY <1>1
<1> QED BY <1>4, <1>5, <1>6, <1>7, <1>8

\* The numbers of the rows of a terminal of another height. Only new rows are
\* numbered anew.
Renumbered(u, index, value) ==
  /\ Distinct(u) /\ value \in [Ids -> Nat] /\ Numbering(AllRows(u), value)
  /\ \A x \in Ids : x \notin FreeRows => value[x] = index[x]

\* Rows that are dropped or taken back keep their numbers, new ones get the next.
LEMMA RealizedNumbers ==
  ASSUME NEW t \in Terms, Distinct(t), NEW u \in Terms, Hidden(u) = Hidden(t),
         NEW index \in [Ids -> Nat], Numbering(AllRows(t), index),
         \A x \in FreeRows : x \notin ToSet(AllRows(t)) /\ x \notin ToSet(Hidden(t)),
         NEW height, NewRows(t, height) \in Nat, NewRows(t, height) <= Cardinality(FreeRows),
         NewRows(t, height) = 0 => Leading(t, u),
         NewRows(t, height) > 0 => Lengthened(t, u, Fresh(NewRows(t, height)))
  PROVE  Renumbered(u, index, RealizedIndex(t, height, index))
<1> DEFINE n == NewRows(t, height)
           new == Fresh(n)
           value == Numbered(index, new, RowCount(t))
<1>1. n \in Nat /\ n <= Cardinality(FreeRows)
  OBVIOUS
<1>2. RealizedIndex(t, height, index) = value
  BY DEF RealizedIndex
<1> HIDE DEF n
<1>3. new \in Seq(Ids) /\ Len(new) = n /\ Injective(new) /\ \A x \in ToSet(new) : x \in FreeRows
  BY <1>1, FreshFacts
<1> HIDE DEF new
<1>4. /\ value \in [Ids -> Nat]
      /\ \A x \in Ids : x \notin ToSet(new) => value[x] = index[x]
  BY <1>3, RowsOfTerminal, NumberedFacts
<1>5. \A x \in Ids : x \notin FreeRows => value[x] = index[x]
  BY <1>3, <1>4
<1>6. CASE n = 0
  <2> DEFINE a == AllRows(t)
             b == AllRows(u)
             k == RowCount(u)
             m == RowCount(t)
  <2>1. Leading(t, u)
    BY <1>6 DEF n
  <2>2. /\ a \in Seq(Ids) /\ Len(a) = m /\ b \in Seq(Ids) /\ Len(b) = k /\ k \in Nat /\ m \in Nat
    BY RowsOfTerminal DEF RowCount
  <2>3. k <= m /\ \A i \in 1 .. k : b[i] = a[i]
    BY <2>1 DEF Leading
  <2>4. /\ Injective(a) /\ Injective(Hidden(t)) /\ \A x \in ToSet(a) : x \notin ToSet(Hidden(t))
        /\ \A i \in DOMAIN a : index[a[i]] = i - 1
    BY DEF Distinct, Numbering
  <2> HIDE DEF a, b, k, m
  <2>5. \A i \in 1 .. k : i \in 1 .. m
    BY <2>2, <2>3
  <2>6. DOMAIN a = 1 .. m /\ DOMAIN b = 1 .. k
    BY <2>2
  <2>7. Injective(b)
    BY <2>3, <2>4, <2>5, <2>6 DEF Injective
  <2>8. \A x \in ToSet(b) : x \in ToSet(a)
    BY <2>3, <2>5, <2>6 DEF ToSet
  <2>9. Distinct(u)
    <3>1. ToSet(b) \cap ToSet(Hidden(t)) = {}
      BY <2>4, <2>8
    <3> QED BY <2>4, <2>7, <3>1 DEF Distinct, b
  <2>10. ToSet(new) = {}
    BY <1>3, <1>6 DEF ToSet
  <2>11. ASSUME NEW i \in 1 .. k PROVE value[b[i]] = i - 1
    <3>1. i \in 1 .. m /\ b[i] = a[i] /\ a[i] \in Ids
      BY <2>2, <2>3, <2>5
    <3> QED BY <1>4, <2>4, <2>6, <2>10, <3>1
  <2>12. Numbering(b, value)
    BY <2>6, <2>11 DEF Numbering
  <2> HIDE DEF value
  <2> QED BY <1>2, <1>4, <1>5, <2>9, <2>12 DEF Renumbered, b
<1>7. CASE n > 0
  <2>1. Lengthened(t, u, new)
    BY <1>7 DEF n, new
  <2>2. \A x \in ToSet(new) : x \notin ToSet(AllRows(t)) /\ x \notin ToSet(Hidden(t))
    BY <1>3
  <2>3. Distinct(u) /\ Numbering(AllRows(u), value)
    BY <1>3, <2>1, <2>2, ExtendedNumbered
  <2> HIDE DEF value
  <2> QED BY <1>2, <1>4, <1>5, <2>3 DEF Renumbered
<1> QED BY <1>1, <1>6, <1>7

\* Rows of the document that keep their numbers stay in order.
LEMMA SoundRenumbered ==
  ASSUME NEW p, NEW rows, NEW index, NEW left, NEW value, Sound(p, rows, index),
         \A x \in Rows(p.dom) : value[x] = index[x], Own(p.dom, left, value)
  PROVE  Sound(p, left, value)
<1>1. Sorted(p.dom, value)
  BY DEF Sound, Sorted
<1>2. Caching(p, value)
  BY DEF Sound, Caching
<1>3. Selection(p, value)
  BY DEF Sound, Selection, Remembered
<1> QED BY <1>1, <1>2, <1>3 DEF Sound

\* A row of the document that the terminal of another height has a number for
\* is the row with that number.
LEMMA RealizedOwn ==
  ASSUME NEW t \in Terms, NEW u \in Terms, NEW dom \in Seq(Node),
         NEW index \in [Ids -> Nat], NEW value \in [Ids -> Nat],
         Numbering(AllRows(t), index), \A x \in Rows(dom) : value[x] = index[x],
         \/ Leading(t, u) /\ Own(dom, AllRows(t), index)
         \/ (\E new \in Seq(Ids) : Lengthened(t, u, new)) /\ \A x \in Rows(dom) : x \in ToSet(AllRows(t))
  PROVE  Own(dom, AllRows(u), value)
<1> DEFINE a == AllRows(t)
           b == AllRows(u)
           k == RowCount(u)
           m == RowCount(t)
<1>1. /\ a \in Seq(Ids) /\ Len(a) = m /\ b \in Seq(Ids) /\ Len(b) = k /\ k \in Nat /\ m \in Nat
  BY RowsOfTerminal DEF RowCount
<1>2. Numbering(a, index)
  OBVIOUS
<1>3. \A x \in Rows(dom) : x \in Ids
  BY DEF Rows, ToSet, Node
<1>4. CASE Leading(t, u) /\ Own(dom, AllRows(t), index)
  <2>1. k <= m /\ \A i \in 1 .. k : b[i] = a[i]
    BY <1>4 DEF Leading
  <2>2. \A x \in Rows(dom) : index[x] < Len(a) => a[index[x] + 1] = x
    BY <1>4 DEF Own
  <2> HIDE DEF a, b, k, m
  <2>3. ASSUME NEW x \in Rows(dom), value[x] < Len(b) PROVE b[value[x] + 1] = x
    <3> DEFINE n == index[x]
    <3>1. value[x] = n /\ n \in Nat
      BY <1>3
    <3>2. n < k
      BY <1>1, <2>3, <3>1
    <3>3. a[n + 1] = x \/ ~(n < Len(a))
      BY <2>2
    <3> HIDE DEF n
    <3>4. n < m /\ n + 1 \in 1 .. k
      BY <1>1, <2>1, <3>1, <3>2
    <3>5. n < Len(a)
      BY <1>1, <3>4
    <3> QED BY <2>1, <3>1, <3>3, <3>4, <3>5
  <2> QED BY <2>3 DEF Own, b
<1>5. CASE (\E new \in Seq(Ids) : Lengthened(t, u, new)) /\ \A x \in Rows(dom) : x \in ToSet(AllRows(t))
  <2>1. PICK new \in Seq(Ids) : Lengthened(t, u, new)
    BY <1>5
  <2>2. Chained(Ids, a, new, b)
    BY <1>1, <2>1, ConcatFacts DEF Lengthened
  <2>3. \A x \in Rows(dom) : x \in ToSet(a)
    BY <1>5
  <2> HIDE DEF a, b, k, m
  <2>4. ASSUME NEW x \in Rows(dom) PROVE b[value[x] + 1] = x
    <3>1. PICK i \in DOMAIN a : a[i] = x
      BY <2>3 DEF ToSet
    <3>2. index[x] = i - 1
      BY <1>2, <3>1 DEF Numbering
    <3>3. i \in 1 .. Len(a) /\ i \in Int
      BY <1>1
    <3>4. (i - 1) + 1 = i
      BY ONLY <3>3
    <3>5. b[i] = a[i]
      BY <2>2, <3>3 DEF Chained
    <3> QED BY <3>1, <3>2, <3>4, <3>5
  <2> QED BY <2>4 DEF Own, b
<1> QED BY <1>4, <1>5

\* There are rows for a screen of the new height.
LEMMA RowsEnough ==
  ASSUME NEW t \in Terms, NEW height \in Int, Cardinality(FreeRows) >= NewRows(t, height)
  PROVE  NewRows(t, height) <= Cardinality(FreeRows)
<1>1. IsFiniteSet(FreeRows)
  <2>1. IsFiniteSet(Ids)
    BY HeightsAssumption, FS_Interval DEF Ids
  <2> QED BY <2>1, FS_Subset DEF FreeRows
<1> DEFINE c == Cardinality(FreeRows)
           n == NewRows(t, height)
<1>2. c \in Nat
  BY <1>1, FS_CardinalityType
<1>3. n \in Int
  <2>1. ScreenRows(t) \in Seq(Ids)
    BY RowsOfTerminal
  <2>2. Len(ScreenRows(t)) \in Nat
    BY <2>1
  <2> QED BY <2>2 DEF NewRows
<1>4. c >= n
  OBVIOUS
<1> HIDE DEF c, n
<1>5. n <= c
  BY <1>2, <1>3, <1>4
<1> QED BY <1>5 DEF c, n

\* The terminal takes over the height of the window.
LEMMA TerminalOnResizeKeeps ==
  ASSUME Inv, NEW empty, TerminalOnResize(empty)
  PROVE  Inv'
<1> DEFINE win == port.window
           vis == port.visibleRowCount
           u == Realized(term, win, empty)
           n == NewRows(term, win)
           count == RowCount(u)
           asked == RowCount(u) - port.visibleRowCount
<1>1. /\ Fires("onResize")
      /\ empty \in EmptyRows(term, win) /\ Cardinality(FreeRows) >= n
      /\ term' = u /\ rowIndex' = RealizedIndex(term, win, rowIndex)
      /\ port' = IF port.isScrolledEnd THEN scrollRowToTop(port, AllRows(u), asked) ELSE port
      /\ UNCHANGED <<resizing, cursorAt>>
  BY DEF TerminalOnResize, scrollRowToBottom
<1>2. \E placed : /\ placed = Schedule(Append(Tail(timers), "resized"), "syncCursor")
                  /\ timers' = placed \/ timers' = Schedule(placed, "redraw")
  BY DEF TerminalOnResize
<1>3. scrollDown' = Sooner \/ scrollDown' = Max({Sooner, Len(timers)})
  BY DEF TerminalOnResize
<1>4. /\ Drops(timers, Tail(timers), "onResize") /\ "invalidate" \notin ToSet(timers)
      /\ "onResize" \in ToSet(timers)
  <2>1. Drops(timers, Tail(timers), "onResize") /\ "invalidate" \notin ToSet(timers)
    BY <1>1, Fired
  <2> QED BY <2>1 DEF Drops
<1>5. /\ timers' \in Seq(TimerNames) /\ "invalidate" \notin ToSet(timers')
      /\ "resized" \in ToSet(timers') /\ "syncCursor" \in ToSet(timers')
      /\ "redraw" \in ToSet(timers) => "redraw" \in ToSet(timers')
  <2> DEFINE a == Append(Tail(timers), "resized")
             b == Schedule(a, "syncCursor")
  <2>1. Adds(Tail(timers), a, "resized")
    BY <1>4, TimerAdded, NamesOfTimers DEF Drops
  <2> HIDE DEF a
  <2>2. Adds(a, b, "syncCursor")
    BY <2>1, TimerScheduled, NamesOfTimers DEF Adds
  <2> HIDE DEF b
  <2>3. Adds(b, Schedule(b, "redraw"), "redraw")
    BY <2>2, TimerScheduled, NamesOfTimers DEF Adds
  <2>4. timers' = b \/ timers' = Schedule(b, "redraw")
    BY <1>2 DEF a, b
  <2>5. timers' = b \/ Adds(b, timers', "redraw")
    BY <2>3, <2>4
  <2>6. /\ b \in Seq(TimerNames)
        /\ \A x : x \in ToSet(b) <=> x \in ToSet(Tail(timers)) \/ x = "resized" \/ x = "syncCursor"
    BY <2>1, <2>2 DEF Adds
  <2>7. /\ timers' \in Seq(TimerNames)
        /\ \A x : x \in ToSet(b) => x \in ToSet(timers')
        /\ \A x : x \in ToSet(timers') => x \in ToSet(b) \/ x = "redraw"
    BY <2>5, <2>6 DEF Adds
  <2>8. "invalidate" \notin ToSet(Tail(timers)) /\ ("redraw" \in ToSet(timers) => "redraw" \in ToSet(Tail(timers)))
    BY <1>4 DEF Drops
  <2> QED BY <2>6, <2>7, <2>8
<1>6. scrollDown' \in Nat
  <2> DEFINE m == Len(timers)
             most == Max({Sooner, m})
  <2>1. Sooner \in Nat
    BY SoonerFacts
  <2>2. m \in Nat
    BY DEF Inv, Whole
  <2>3. scrollDown' = Sooner \/ scrollDown' = most
    BY <1>3
  <2> HIDE DEF m
  <2>4. Sooner \in Int /\ m \in Int
    BY <2>1, <2>2
  <2>5. Larger(most, Sooner, m)
    BY <2>4, MinTwo
  <2> HIDE DEF most
  <2> QED BY <2>1, <2>2, <2>3, <2>5 DEF Larger
<1>7. /\ Numbers(term, rowIndex) /\ Geometry(term, port, timers, resizing)
      /\ Sound(port, AllRows(term), rowIndex) /\ (Viewed(port.dom) \/ "redraw" \in ToSet(timers))
  BY <1>4 DEF Inv, Whole, Ordered
<1>8. /\ term \in Terms /\ Distinct(term) /\ Len(ScreenRows(term)) = term.height
      /\ term.cursor \in 0 .. Len(ScreenRows(term)) - 1
      /\ rowIndex \in [Ids -> Nat] /\ Numbering(AllRows(term), rowIndex)
  BY <1>7 DEF Numbers, Terminal
<1>9. /\ win \in Nat \ {0} /\ port \in Ports /\ vis = win
      /\ port.lastRowCount \in Nat /\ port.scrollTop \in Nat
  BY <1>4, <1>7, PortFacts DEF Geometry
<1>10. \A x \in FreeRows : /\ x \notin ToSet(AllRows(term)) /\ x \notin ToSet(Hidden(term))
                           /\ x \notin ToSet(port.dom)
  BY <1>8, FreeUnused
<1>11. /\ Realization(term, u, win) /\ n \in Nat
       /\ n = 0 => Leading(term, u)
       /\ n > 0 => Lengthened(term, u, Fresh(n))
       /\ n > 0 => win > Len(ScreenRows(term))
       /\ n <= Cardinality(FreeRows)
  <2>1. n <= Cardinality(FreeRows)
    <3> HIDE DEF win
    <3> QED BY <1>1, <1>8, <1>9, RowsEnough
  <2>2. Len(ScreenRows(term)) = win => term.height = win
    BY <1>8
  <2> HIDE DEF win
  <2>3. empty \in EmptyRows(term, win)
    BY <1>1
  <2> QED BY <1>8, <1>9, <2>1, <2>2, <2>3, HeightRealized
<1>12. u \in Terms /\ Hidden(u) = Hidden(term)
  BY <1>11 DEF Realization
<1> HIDE DEF u
<1>13. Renumbered(u, rowIndex, rowIndex')
  <2>1. Renumbered(u, rowIndex, RealizedIndex(term, win, rowIndex))
    <3> HIDE DEF win
    <3> QED BY <1>8, <1>10, <1>11, <1>12, RealizedNumbers
  <2> QED BY <1>1, <2>1
<1>14. Numbers(term', rowIndex') /\ term'.height = win
  <2>1. Terminal(u) /\ u.height = win
    BY <1>8, <1>9, <1>11, <1>13 DEF Terminal, Realization, Renumbered
  <2> QED BY <1>1, <1>13, <2>1 DEF Numbers, Renumbered
<1>15. \A x \in Rows(port.dom) : rowIndex'[x] = rowIndex[x]
  <2>1. ASSUME NEW x \in Rows(port.dom) PROVE x \in Ids /\ x \notin FreeRows
    <3>1. x \in ToSet(port.dom) /\ x \in Ids
      BY <1>9 DEF Rows, Ports, Node, ToSet
    <3> QED BY <1>10, <3>1
  <2> QED BY <1>13, <2>1 DEF Renumbered
<1>16. Own(port.dom, AllRows(u), rowIndex')
  <2>1. port.dom \in Seq(Node)
    BY <1>9 DEF Ports
  <2>2. \/ Leading(term, u) /\ Own(port.dom, AllRows(term), rowIndex)
        \/ (\E new \in Seq(Ids) : Lengthened(term, u, new)) /\ \A x \in Rows(port.dom) : x \in ToSet(AllRows(term))
    <3>1. CASE n = 0
      BY <1>7, <1>11, <3>1 DEF Sound
    <3>2. CASE n > 0
      <4>1. Fresh(n) \in Seq(Ids)
        BY <1>11, FreshFacts
      <4>2. term.height # win
        BY <1>8, <1>9, <1>11, <3>2
      <4>3. Dropless(term, port)
        BY <1>7, <4>2 DEF Geometry
      <4> QED BY <1>11, <3>2, <4>1, <4>3 DEF Dropless
    <3> QED BY <1>11, <3>1, <3>2
  <2>3. rowIndex' \in [Ids -> Nat]
    BY <1>13 DEF Renumbered
  <2> QED BY <1>8, <1>12, <1>15, <2>1, <2>2, <2>3, RealizedOwn
<1>17. Sound(port, AllRows(u), rowIndex')
  BY <1>7, <1>15, <1>16, SoundRenumbered
<1>18. count \in Nat /\ AllRows(u) \in Seq(Ids) /\ Len(AllRows(u)) = count /\ asked \in Int
  <2>1. count \in Nat /\ AllRows(u) \in Seq(Ids) /\ Len(AllRows(u)) = count
    BY <1>12, RowsOfTerminal DEF RowCount
  <2> QED BY <1>9, <2>1
<1>19. port' = port \/ ToTop(port, port', count, asked)
  <2> HIDE DEF asked
  <2>1. ToTop(port, scrollRowToTop(port, AllRows(u), asked), Len(AllRows(u)), asked)
    BY <1>9, <1>18, RowToTop
  <2> QED BY <1>1, <1>18, <2>1
<1>20. /\ SameDocument(port, port')
       /\ port'.scrollTop \in Nat /\ port'.visibleRowCount = win /\ port'.window = win
       /\ port'.lastRowCount \in Nat
       /\ port'.scrollTop = 0 \/ port'.scrollTop + win <= port'.lastRowCount
  <2>1. CASE port' = port
    <3>1. SameDocument(port, port')
      BY <1>9, <2>1 DEF SameDocument
    <3>2. port.scrollTop = 0 \/ port.scrollTop + win <= port.lastRowCount
      BY <1>7 DEF Geometry
    <3> QED BY <1>9, <2>1, <3>1, <3>2
  <2>2. CASE ToTop(port, port', count, asked)
    <3>1. /\ SameDocument(port, port') /\ port'.visibleRowCount = win /\ port'.window = win
          /\ port'.lastRowCount = count
      BY <1>9, <2>2 DEF ToTop, SameDrawing, SameDocument
    <3> DEFINE top == port'.scrollTop
    <3>2. Within(top, asked, count - win)
      BY <2>2 DEF ToTop
    <3> HIDE DEF top, count, asked
    <3>3. top \in Nat /\ (top = 0 \/ top <= count - win)
      BY <3>2 DEF Within
    <3> HIDE DEF win
    <3>4. top = 0 \/ top + win <= count
      BY <1>9, <1>18, <3>3
    <3> QED BY <1>18, <3>1, <3>3, <3>4 DEF top
  <2> QED BY <1>19, <2>1, <2>2
<1>21. Ordered(term', rowIndex', port', timers')
  <2>1. Sound(port', AllRows(u), rowIndex')
    BY <1>9, <1>17, <1>20, SoundCarried
  <2>2. port'.dom = port.dom
    BY <1>20 DEF SameDocument
  <2> QED BY <1>1, <1>5, <1>7, <2>1, <2>2 DEF Ordered
<1>22. Geometry(term', port', timers', resizing')
  BY <1>5, <1>14, <1>20 DEF Geometry
<1>23. /\ ViewDue(term', port', timers', scrollDown', resizing') /\ EndDue(port', timers', resizing')
       /\ FollowDue(term', port', timers', scrollDown', resizing')
       /\ CursorDue(term', port', timers', resizing', cursorAt')
  BY <1>5 DEF ViewDue, EndDue, FollowDue, CursorDue, SizeDue
<1>24. resizing' \in BOOLEAN
  BY <1>1 DEF Inv, Whole
<1> QED BY <1>5, <1>6, <1>14, <1>21, <1>22, <1>23, <1>24 DEF Inv, Whole

----------------------------------------------------------------------------
\* Control functions, which come while the page is at rest.

\* A page at rest shows the last rows of the terminal, and every row of the
\* document above them is one of its rows.
Rested ==
  /\ timers = <<>> /\ scrollDown = 0 /\ ~resizing
  /\ ~port.scrolled /\ port.isScrolledEnd
  /\ Sound(port, AllRows(term), rowIndex) /\ Dropless(term, port)
  /\ port.collapsed => Moving(term, port, rowIndex)
  /\ port.visibleRowCount = port.window /\ term.height = port.window
  /\ port.lastRowCount = RowCount(term)
  /\ port.scrollTop + port.visibleRowCount = RowCount(term)
  /\ port.scrollTop = Len(term.scrollback)

\* What the invariant says of a page at rest.
LEMMA RestFacts ==
  ASSUME Inv, AtRest
  PROVE  Rested
<1> DEFINE rows == AllRows(term)
           count == RowCount(term)
           top == port.scrollTop
           vis == port.visibleRowCount
           win == port.window
           dom == port.dom
           l == Len(term.scrollback)
<1>1. /\ timers = <<>> /\ scrollDown = 0 /\ ~resizing /\ ~port.scrolled
      /\ port.isScrolledEnd
      /\ ToSet(dom) \subseteq ToSet(rows) \cup {TopFold, BottomFold}
  BY DEF AtRest, Settled, NoneDropped
<1>2. \A x : x \notin ToSet(timers)
  BY <1>1 DEF ToSet
<1>3. Sound(port, rows, rowIndex)
  BY <1>2 DEF Inv, Whole, Ordered
<1>4. vis = win /\ term.height = win /\ (top = 0 \/ top + win <= port.lastRowCount)
  BY <1>1, <1>2 DEF Inv, Whole, Geometry
<1>5. port.lastRowCount = count
  BY <1>1, <1>2 DEF Inv, Whole, FollowDue, SizeDue
<1>6. top + vis >= port.lastRowCount
  BY <1>1, <1>2 DEF Inv, Whole, EndDue, SizeDue
<1>7. Shown(port) = SubSeq(rows, top + 1, top + vis)
  BY <1>1, <1>2 DEF Inv, Whole, ViewDue, SizeDue, ViewOf
<1>8. /\ top \in Nat /\ vis \in Nat \ {0} /\ win \in Nat \ {0} /\ port \in Ports /\ ~port.failed
      /\ count \in Nat \ {0} /\ count >= win /\ Document(dom)
      /\ rows \in Seq(Ids) /\ Len(rows) = count /\ rowIndex \in [Ids -> Nat] /\ Numbering(rows, rowIndex)
  BY <1>4, PortFacts
<1>9. top + vis = count
  <2> HIDE DEF top, vis, win, count
  <2> QED BY <1>4, <1>5, <1>6, <1>8
<1>10. top = l
  <2>1. count = l + win /\ l \in Nat
    <3>1. term \in Terms /\ Len(ScreenRows(term)) = win
      BY <1>4 DEF Inv, Whole, Numbers, Terminal
    <3>2. term.scrollback \in Seq(Ids) /\ count = l + Len(ScreenRows(term))
      BY <3>1, RowsOfTerminal
    <3>3. l \in Nat
      BY <3>2
    <3> QED BY ONLY <3>1, <3>2, <3>3
  <2> HIDE DEF top, vis, win, count, l
  <2> QED BY <1>4, <1>8, <1>9, <2>1
<1>11. Dropless(term, port)
  BY <1>1 DEF Dropless, Rows
<1>12. \A k \in top .. count - 1 : InView(dom, rows[k + 1]) /\ rowIndex[rows[k + 1]] = k /\ rows[k + 1] \in Rows(dom)
  <2> SUFFICES ASSUME NEW k \in top .. count - 1
               PROVE  InView(dom, rows[k + 1]) /\ rowIndex[rows[k + 1]] = k /\ rows[k + 1] \in Rows(dom)
    OBVIOUS
  <2> DEFINE s == SubSeq(rows, top + 1, count)
             i == k - top + 1
  <2>1. Slice(Ids, rows, top, count, s)
    <3> HIDE DEF top, rows, count
    <3>1. top <= count /\ top \in Nat /\ count \in Nat
      BY <1>8, <1>9
    <3> QED BY <1>8, <3>1, SliceFacts
  <2> HIDE DEF s
  <2>i. top \in Nat /\ count \in Nat /\ k \in top .. count - 1 /\ i = k - top + 1
    BY <1>8
  <2>2. i \in 1 .. count - top /\ top + i = k + 1 /\ k + 1 \in 1 .. count /\ (k + 1) - 1 = k
    BY ONLY <2>i
  <2> HIDE DEF i
  <2>3. s[i] = rows[k + 1] /\ i \in DOMAIN s
    <3>1. /\ s \in Seq(Ids) /\ Len(s) = count - top
          /\ s[i] = rows[top + i]
      BY <2>1, <2>2 DEF Slice
    <3>2. i \in DOMAIN s
      BY ONLY <3>1, <2>2
    <3> QED BY ONLY <3>1, <3>2, <2>2
  <2>4. rows[k + 1] \in ToSet(s)
    BY <2>3 DEF ToSet
  <2>5. Shown(port) = s
    BY <1>7, <1>9 DEF s
  <2>6. InView(dom, rows[k + 1])
    BY <1>8, <2>4, <2>5, ShownInView
  <2>7. rowIndex[rows[k + 1]] = k
    <3> DEFINE j == k + 1
    <3>1. j \in DOMAIN rows /\ j - 1 = k
      BY <1>8, <2>2
    <3> HIDE DEF j
    <3>2. rowIndex[rows[j]] = j - 1
      BY <1>8, <3>1 DEF Numbering
    <3> QED BY <3>1, <3>2 DEF j
  <2>8. rows[k + 1] \in Ids
    BY <1>8, <2>2
  <2>9. rows[k + 1] \in ToSet(dom)
    <3> DEFINE x == rows[k + 1]
    <3>1. Prec(dom, TopFold, x)
      BY <2>6 DEF InView
    <3> HIDE DEF x
    <3>2. PICK j1, j2 \in DOMAIN dom : dom[j2] = x
      BY <3>1 DEF Prec
    <3>3. x \in ToSet(dom)
      BY <3>2 DEF ToSet
    <3> QED BY <3>3 DEF x
  <2> QED BY <2>6, <2>7, <2>8, <2>9, Nodes DEF Rows
<1>13. dom \in Seq(Node) /\ Order(dom)
  BY <1>8, PrecOrder DEF Ports, Document
<1>14. Sorted(dom, rowIndex)
  BY <1>3 DEF Sound
<1>15. \A x \in Rows(dom) : ~Prec(dom, BottomFold, x)
  <2> SUFFICES ASSUME NEW x \in Rows(dom), Prec(dom, BottomFold, x) PROVE FALSE
    OBVIOUS
  <2> DEFINE y == rows[count]
  <2>0. top \in Nat /\ vis \in Nat \ {0} /\ count \in Nat /\ top + vis = count
    BY <1>8, <1>9
  <2>1. count - 1 \in top .. count - 1 /\ (count - 1) + 1 = count
    BY ONLY <2>0
  <2>2. InView(dom, y) /\ rowIndex[y] = count - 1 /\ y \in Rows(dom)
    BY <1>12, <2>1
  <2> HIDE DEF y
  <2>3. Prec(dom, y, x)
    BY <1>13, <2>2 DEF InView, Order
  <2>4. rowIndex[y] < rowIndex[x]
    BY <1>14, <2>2, <2>3 DEF Sorted
  <2>5. PICK i \in DOMAIN rows : rows[i] = x
    BY <1>11 DEF Dropless, ToSet
  <2>6. rowIndex[x] = i - 1 /\ i \in 1 .. count
    BY <1>8, <2>5 DEF Numbering
  <2> QED BY <1>8, <2>2, <2>4, <2>6
<1>16. \A x \in Rows(dom) : Prec(dom, x, TopFold) => rowIndex[x] < top
  <2> SUFFICES ASSUME NEW x \in Rows(dom), Prec(dom, x, TopFold) PROVE rowIndex[x] < top
    OBVIOUS
  <2> DEFINE y == rows[top + 1]
  <2>1. top \in top .. count - 1
    BY <1>8, <1>9
  <2>2. InView(dom, y) /\ rowIndex[y] = top /\ y \in Rows(dom)
    BY <1>12, <2>1
  <2> HIDE DEF y
  <2>3. Prec(dom, x, y)
    BY <1>13, <2>2 DEF InView, Order
  <2> QED BY <1>14, <2>2, <2>3 DEF Sorted
<1>17. \A x, y \in Rows(dom) : Prec(dom, x, y) /\ Prec(dom, y, TopFold) => rowIndex[x] < rowIndex[y]
  BY <1>14 DEF Sorted
<1>18. /\ port.collapsed => port.anchor = port.focus
       /\ port.anchor # Null => port.anchor \in Rows(dom)
  BY <1>3 DEF Sound, Selection
<1>19. ASSUME port.collapsed PROVE Moving(term, port, rowIndex)
  BY <1>8, <1>11, <1>15, <1>16, <1>17, <1>18, <1>19 DEF Moving
<1> QED BY <1>1, <1>3, <1>4, <1>5, <1>9, <1>10, <1>11, <1>19 DEF Rested

\* A page at rest with the view drawn anew.
LEMMA InvalidatedSound ==
  ASSUME NEW p, NEW q, NEW rows, NEW index, Invalidated(p, q, rows, index),
         p.scrollTop \in Nat, p.visibleRowCount \in Nat \ {0}, p.window \in Nat \ {0}
  PROVE  Sound(q, rows, index) /\ Viewed(q.dom)
<1>1. Caching(q, index)
  <2>1. DOMAIN q.cache = {}
    BY DEF Invalidated, EmptyCache
  <2> QED BY <2>1 DEF Caching
<1>2. Selection(q, index)
  BY Nodes DEF Invalidated, Selection, Rows
<1> QED BY <1>1, <1>2 DEF Sound, Invalidated, Viewed

\* A port with the same nodes at the same place.
LEMMA MovingCarried ==
  ASSUME NEW t, NEW p, NEW q \in Ports, NEW index, Moving(t, p, index),
         q.dom = p.dom, q.anchor = p.anchor, q.focus = p.focus, q.collapsed <=> p.collapsed,
         q.failed <=> p.failed, q.scrollTop = p.scrollTop, q.visibleRowCount = p.visibleRowCount,
         q.window = p.window
  PROVE  Moving(t, q, index)
<1>1. Dropless(t, q)
  BY DEF Moving, Dropless
<1> QED BY <1>1 DEF Moving

\* The rows above the view keep their places.
AboveStays(p, q, index, rows, value) ==
  \A x \in Rows(p.dom) : Prec(p.dom, x, TopFold) =>
    /\ value[x] = index[x] /\ rows[index[x] + 1] = x
    /\ index[x] < q.scrollTop + q.visibleRowCount

\* The view can be drawn anew from other rows when those above it keep their
\* places.
LEMMA MovingRefills ==
  ASSUME NEW t, NEW p, NEW q, NEW index, NEW rows \in Seq(Ids), NEW value,
         Moving(t, p, index), SameDocument(p, q),
         q.scrollTop \in Nat, q.visibleRowCount \in Nat \ {0},
         q.scrollTop + q.visibleRowCount <= Len(rows), AboveStays(p, q, index, rows, value)
  PROVE  Refillable(q, rows, value) /\ RowsOfView(q, rows) = q.visibleRowCount
<1> DEFINE vis == q.visibleRowCount
           shown == RowsOfView(q, rows)
           top == q.scrollTop
           n == Len(rows)
           dom == p.dom
<1>1. shown = vis
  <2>1. shown = Min({vis, n}) /\ vis \in Int /\ n \in Int /\ vis <= n
    BY DEF RowsOfView
  <2> HIDE DEF shown, vis, n
  <2>2. Smaller(shown, vis, n)
    BY <2>1, MinTwo
  <2> QED BY <2>1, <2>2 DEF Smaller
<1>2. q.dom = dom
  BY DEF SameDocument
<1>3. \A x, y \in Rows(dom) : Prec(dom, x, y) /\ Prec(dom, y, TopFold) => value[x] < value[y]
  <2> SUFFICES ASSUME NEW x \in Rows(dom), NEW y \in Rows(dom), Prec(dom, x, y), Prec(dom, y, TopFold)
               PROVE  value[x] < value[y]
    OBVIOUS
  <2>1. Order(dom)
    BY PrecOrder DEF Moving, Ports, Document
  <2>2. Prec(dom, x, TopFold)
    BY <2>1 DEF Order
  <2>3. index[x] < index[y]
    BY DEF Moving
  <2> QED BY <2>2, <2>3 DEF AboveStays
<1>4. \A x \in Rows(dom) : Prec(dom, x, TopFold) => rows[value[x] + 1] = x /\ value[x] < top + shown
  BY <1>1 DEF AboveStays
<1>5. top + shown <= n
  BY <1>1
<1> HIDE DEF shown
<1>6. Refillable(q, rows, value)
  BY <1>1, <1>2, <1>3, <1>4, <1>5 DEF Refillable, Moving, SameDocument, shown
<1> QED BY <1>1, <1>6 DEF shown

\* A screen that is numbered from 0 on, whatever the other one is.
LEMMA ScreensNumbered ==
  ASSUME NEW t \in Terms, Distinct(t), t.scrollback = << >>, NEW index \in [Ids -> Nat]
  PROVE  LET value == Numbered(Numbered(index, t.screens.primary, 0), t.screens.alternate, 0)
         IN  value \in [Ids -> Nat] /\ Numbering(AllRows(t), value)
<1> DEFINE a == t.screens.primary
           b == t.screens.alternate
           v == Numbered(index, a, 0)
           w == Numbered(v, b, 0)
           s == ScreenRows(t)
           r == AllRows(t)
           h == Hidden(t)
<1>1. /\ s \in Seq(Ids) /\ h \in Seq(Ids) /\ r \in Seq(Ids) /\ t.scrollback \in Seq(Ids)
  BY RowsOfTerminal
<1>2. (s = a /\ h = b) \/ (s = b /\ h = a)
  BY DEF Terms, Names, ScreenRows, Hidden, Other
<1>3. Chained(Ids, t.scrollback, s, r)
  BY <1>1, ConcatFacts DEF AllRows
<1>4. Len(t.scrollback) = 0
  OBVIOUS
<1>5. /\ Len(r) = Len(s) /\ \A i \in 1 .. Len(s) : r[i] = s[i]
      /\ Injective(s) /\ Injective(h) /\ \A x \in ToSet(s) : x \notin ToSet(h)
  <2>1. Injective(r) /\ Injective(h) /\ ToSet(r) \cap ToSet(h) = {}
    BY DEF Distinct
  <2>2. Len(r) = 0 + Len(s) /\ \A i \in 1 .. Len(s) : r[0 + i] = s[i]
    BY <1>3, <1>4 DEF Chained
  <2>3. Injective(s) /\ \A x \in ToSet(s) : x \in ToSet(r)
    BY <1>3, <2>1 DEF Chained
  <2>4. Len(s) \in Nat
    BY <1>1
  <2> HIDE DEF r, s, h
  <2> QED BY <2>1, <2>2, <2>3, <2>4
<1> HIDE DEF a, b, s, h, r
<1>6. a \in Seq(Ids) /\ b \in Seq(Ids) /\ Injective(a) /\ Injective(b)
  BY <1>1, <1>2, <1>5
<1>7. /\ v \in [Ids -> Nat]
      /\ \A i \in 1 .. Len(a) : v[a[i]] = 0 + i - 1
  BY <1>6, NumberedFacts
<1> HIDE DEF v
<1>8. /\ w \in [Ids -> Nat]
      /\ \A i \in 1 .. Len(b) : w[b[i]] = 0 + i - 1
      /\ \A x \in Ids : x \notin ToSet(b) => w[x] = v[x]
  <2>1. v \in [Ids -> Nat] /\ b \in Seq(Ids) /\ Injective(b) /\ 0 \in Nat
    BY <1>6, <1>7
  <2> QED BY ONLY <2>1, NumberedFacts
<1> HIDE DEF w
<1>9. ASSUME NEW i \in 1 .. Len(s) PROVE w[s[i]] = i - 1
  <2>1. 0 + i - 1 = i - 1
    BY <1>1
  <2>2. s[i] \in Ids /\ s[i] \in ToSet(s)
    BY <1>1 DEF ToSet
  <2>3. CASE s = b
    BY <1>8, <2>1, <2>3
  <2>4. CASE s = a /\ h = b
    BY <1>5, <1>7, <1>8, <2>1, <2>2, <2>4
  <2> QED BY <1>2, <2>3, <2>4
<1>10. Numbering(r, w)
  <2> SUFFICES ASSUME NEW i \in DOMAIN r PROVE w[r[i]] = i - 1
    BY DEF Numbering
  <2>1. i \in 1 .. Len(s)
    BY <1>1, <1>5
  <2> QED BY <1>5, <1>9, <2>1
<1> QED BY <1>8, <1>10 DEF r, w, v, a, b

\* The scrollback is erased: the view goes to the end and is drawn anew.
LEMMA ClearScrollbackKeeps ==
  ASSUME Inv, AtRest, port.collapsed, term.scrollback = << >>, ClearScrollback
  PROVE  Inv'
<1> DEFINE count == RowCount(term)
           rows == AllRows(term)
           vis == port.visibleRowCount
           win == port.window
           asked == RowCount(term) - port.visibleRowCount
           ended == scrollRowToTop(port, AllRows(term), asked)
           reset == resetCache(ended)
           cleared == [term EXCEPT !.scrollback = << >>]
           index == Numbered(Numbered(rowIndex, term.screens.primary, 0), term.screens.alternate, 0)
           caret == CaretAtCursor(cleared, reset)
<1>1. /\ term' = cleared /\ rowIndex' = index
      /\ port' = invalidate(caret, AllRows(cleared), index)
      /\ timers' = WithCursor \/ timers' = Schedule(WithCursor, "redraw")
      /\ UNCHANGED <<scrollDown, resizing>>
  BY DEF ClearScrollback, scrollRowToBottom
<1>2. Rested /\ Numbers(term, rowIndex) /\ scrollDown \in Nat
  BY RestFacts DEF Inv, Whole
<1>3. /\ rows \in Seq(Ids) /\ Len(rows) = count /\ count \in Nat \ {0} /\ vis \in Nat \ {0} /\ win \in Nat \ {0}
      /\ port \in Ports /\ rowIndex \in [Ids -> Nat] /\ asked \in Int
  BY PortFacts
<1>4. term \in Terms /\ Distinct(term) /\ Terminal(term)
  BY <1>2 DEF Numbers, Terminal
<1>5. cleared = term
  BY <1>4 DEF Terms
<1>6. index \in [Ids -> Nat] /\ Numbering(rows, index)
  BY <1>3, <1>4, ScreensNumbered
<1> HIDE DEF index
<1>7. vis = win /\ count = vis /\ asked = 0 /\ port.scrollTop = 0 /\ term.height = win
  <2>1. vis = win /\ 0 + vis = count /\ port.scrollTop = 0 /\ term.height = win
    BY <1>2 DEF Rested
  <2> QED BY <1>3, <2>1
<1>8. ToTop(port, ended, count, asked)
  <2> HIDE DEF asked
  <2> QED BY <1>3, RowToTop
<1> HIDE DEF ended, asked
<1>9. /\ ended \in Ports /\ SameDrawing(port, ended) /\ ended.lastRowCount = count
      /\ ended.scrollTop = 0 /\ ended.isScrolledEnd
  <2>1. Within(ended.scrollTop, 0, count - win)
    BY <1>7, <1>8 DEF ToTop
  <2>2. ended.scrollTop = 0
    BY <2>1 DEF Within
  <2>3. ended.isScrolledEnd <=> ended.scrollTop + ended.visibleRowCount >= count
    BY <1>7, <1>8 DEF ToTop
  <2>4. ended.visibleRowCount = count
    BY <1>7, <1>8 DEF ToTop, SameDrawing
  <2>5. 0 + count >= count
    BY <1>3
  <2> QED BY <1>8, <2>2, <2>3, <2>4, <2>5 DEF ToTop
<1>10. /\ reset \in Ports /\ reset.dom = port.dom /\ reset.anchor = port.anchor /\ reset.focus = port.focus
       /\ (reset.collapsed <=> port.collapsed) /\ (reset.failed <=> port.failed)
       /\ reset.scrollTop = 0 /\ reset.visibleRowCount = vis /\ reset.window = win
       /\ reset.lastRowCount = count /\ reset.isScrolledEnd
  <2>1. EmptyCache \in UNION {[S -> Ids] : S \in SUBSET Nat}
    BY NothingCached DEF Caches
  <2> HIDE DEF count
  <2> QED BY <1>9, <2>1 DEF resetCache, Ports, SameDrawing
<1> HIDE DEF reset
<1>11. Moving(term, reset, rowIndex)
  <2>1. Moving(term, port, rowIndex)
    BY <1>2 DEF Rested
  <2> QED BY <1>7, <1>10, <2>1, MovingCarried
<1>12. Caret(reset, caret)
  BY <1>4, <1>5, <1>10, CaretPlaced
<1> HIDE DEF caret, cleared
<1>13. Moving(term, caret, rowIndex)
  BY <1>11, <1>12, CaretKeepsMoving
<1>14. /\ caret.scrollTop = 0 /\ caret.visibleRowCount = vis /\ caret.window = win
       /\ caret.lastRowCount = count /\ caret.isScrolledEnd /\ caret \in Ports
  BY <1>10, <1>12 DEF Caret, SameView
<1>15. Refillable(caret, rows, index) /\ RowsOfView(caret, rows) = vis
  <2>1. SameDocument(caret, caret)
    BY <1>14 DEF SameDocument
  <2>2. ASSUME NEW x \in Rows(caret.dom), Prec(caret.dom, x, TopFold) PROVE FALSE
    <3>1. rowIndex[x] < 0
      BY <1>13, <1>14, <2>2 DEF Moving
    <3>2. x \in Ids
      BY <1>14 DEF Ports, Rows, Node, ToSet
    <3>3. rowIndex[x] \in Nat
      BY <1>3, <3>2
    <3> QED BY <3>1, <3>3
  <2>5. AboveStays(caret, caret, rowIndex, rows, index)
    BY <2>2 DEF AboveStays
  <2>3. caret.scrollTop + caret.visibleRowCount <= Len(rows)
    BY <1>3, <1>7, <1>14
  <2>4. caret.scrollTop \in Nat /\ caret.visibleRowCount \in Nat \ {0}
    BY <1>3, <1>14
  <2> HIDE DEF rows
  <2> QED BY <1>3, <1>13, <1>14, <2>1, <2>3, <2>4, <2>5, MovingRefills
<1>16. Invalidated(caret, port', rows, index)
  <2>1. port' = invalidate(caret, rows, index) /\ Len(rows) > 0
    BY <1>1, <1>3, <1>5
  <2> HIDE DEF rows
  <2> QED BY <1>3, <1>6, <1>15, <2>1, InvalidateDraws
<1>17. Sound(port', rows, index) /\ Viewed(port'.dom)
  <2> HIDE DEF rows
  <2> QED BY <1>3, <1>14, <1>16, InvalidatedSound
<1>18. /\ port'.scrollTop = 0 /\ port'.lastRowCount = count /\ port'.visibleRowCount = vis
       /\ port'.window = win /\ port'.isScrolledEnd
       /\ Shown(port') = SubSeq(rows, 0 + 1, 0 + vis)
  BY <1>14, <1>15, <1>16 DEF Invalidated
<1>19. /\ timers' \in Seq(TimerNames) /\ "syncCursor" \in ToSet(timers')
       /\ "invalidate" \notin ToSet(timers') /\ "onResize" \notin ToSet(timers')
  <2>1. timers \in Seq(TimerNames) /\ \A x : x \notin ToSet(timers)
    BY <1>2 DEF Inv, Whole, Rested, ToSet
  <2>2. Adds(timers, WithCursor, "syncCursor")
    BY <2>1, TimerScheduled, NamesOfTimers DEF WithCursor
  <2>3. Adds(WithCursor, Schedule(WithCursor, "redraw"), "redraw")
    BY <2>2, TimerScheduled, NamesOfTimers DEF Adds
  <2> QED BY <1>1, <2>1, <2>2, <2>3 DEF Adds
<1>20. term' = term
  BY <1>1, <1>5
<1>21. Numbers(term', rowIndex')
  BY <1>1, <1>2, <1>6, <1>20 DEF Numbers
<1>22. Ordered(term', rowIndex', port', timers')
  BY <1>1, <1>17, <1>20 DEF Ordered
<1>23. Geometry(term', port', timers', resizing')
  <2>1. count <= count
    BY <1>3
  <2> QED BY <1>3, <1>7, <1>18, <1>19, <1>20, <2>1 DEF Geometry
<1>24. ViewDue(term', port', timers', scrollDown', resizing')
  BY <1>18, <1>20 DEF ViewDue, ViewOf
<1>25. EndDue(port', timers', resizing')
  <2>1. 0 + vis >= count
    BY <1>3, <1>7
  <2> QED BY <1>18, <2>1 DEF EndDue
<1>26. FollowDue(term', port', timers', scrollDown', resizing')
  BY <1>18, <1>20 DEF FollowDue
<1>27. CursorDue(term', port', timers', resizing', cursorAt')
  BY <1>19 DEF CursorDue
<1>28. scrollDown' \in Nat /\ resizing' \in BOOLEAN
  BY <1>1, <1>2 DEF Inv, Whole
<1> QED BY <1>19, <1>21, <1>22, <1>23, <1>24, <1>25, <1>26, <1>27, <1>28 DEF Inv, Whole

\* The elements of the places from m + 1 to n.
Part(s, m, n, r) ==
  /\ Injective(r)
  /\ \A x : x \in ToSet(r) <=> \E i \in 1 .. Len(s) : m < i /\ i <= n /\ s[i] = x

\* The elements of a part of a sequence without repetitions.
LEMMA SlicePart ==
  ASSUME NEW D, NEW s \in Seq(D), Injective(s), NEW m \in Nat, NEW n \in Nat, m <= n, n <= Len(s),
         NEW r, Slice(D, s, m, n, r)
  PROVE  Part(s, m, n, r)
<1> DEFINE l == Len(s)
           k == n - m
<1>1. l \in Nat /\ DOMAIN s = 1 .. l /\ m \in Nat /\ n \in Nat /\ m <= n /\ n <= l /\ k \in Nat /\ k = n - m
  OBVIOUS
<1>2. /\ Len(r) = k /\ DOMAIN r = 1 .. k
      /\ \A i \in 1 .. k : r[i] = s[m + i] /\ m + i \in 1 .. l
  BY DEF Slice
<1> HIDE DEF l, k
<1>3. Injective(r)
  <2> SUFFICES ASSUME NEW i \in 1 .. k, NEW j \in 1 .. k, r[i] = r[j] PROVE i = j
    BY <1>2 DEF Injective
  <2> DEFINE i1 == m + i
             j1 == m + j
  <2>1. i1 \in DOMAIN s /\ j1 \in DOMAIN s /\ s[i1] = s[j1]
    BY <1>1, <1>2
  <2>2. i1 = j1
    <3> HIDE DEF i1, j1
    <3> QED BY <2>1 DEF Injective
  <2> QED BY <1>1, <2>2
<1>4. ASSUME NEW x \in ToSet(r) PROVE \E i \in 1 .. l : m < i /\ i <= n /\ s[i] = x
  <2>1. PICK i \in DOMAIN r : r[i] = x
    BY DEF ToSet
  <2>2. s[m + i] = x /\ m + i \in 1 .. l /\ i \in 1 .. k
    BY <1>2, <2>1
  <2> DEFINE j == m + i
  <2>3. m < j /\ j <= n
    BY <1>1, <2>2
  <2>4. s[j] = x /\ j \in 1 .. l
    BY <2>2
  <2> HIDE DEF j
  <2> QED BY <2>3, <2>4
<1>5. ASSUME NEW i \in 1 .. l, m < i, i <= n PROVE s[i] \in ToSet(r)
  <2> DEFINE j == i - m
  <2>1. j \in 1 .. k /\ m + j = i
    BY <1>1, <1>5
  <2> HIDE DEF j
  <2>2. j \in DOMAIN r /\ r[j] = s[i]
    BY <1>2, <2>1
  <2> QED BY <2>2 DEF ToSet
<1> QED BY <1>3, <1>4, <1>5 DEF Part, l

\* The same elements in another order.
Rearranged(s, r) ==
  /\ r \in Seq(Ids) /\ Len(r) = Len(s) /\ Injective(r)
  /\ \A x : x \in ToSet(r) <=> x \in ToSet(s)

\* Some rows are taken out together and put in together at another place.
LEMMA RowsMoved ==
  ASSUME NEW s \in Seq(Ids), Injective(s), NEW from \in Nat, NEW count \in Nat, NEW to \in Nat,
         from + count <= Len(s), to + count <= Len(s)
  PROVE  LET moved  == SubSeq(s, from + 1, from + count)
             others == SubSeq(s, 1, from) \o SubSeq(s, from + count + 1, Len(s))
         IN  Rearranged(s, SubSeq(others, 1, to) \o moved \o SubSeq(others, to + 1, Len(others)))
<1> DEFINE n == Len(s)
           e == from + count
           a == SubSeq(s, 1, from)
           m == SubSeq(s, from + 1, e)
           b == SubSeq(s, e + 1, n)
           o == a \o b
           c == SubSeq(o, 1, to)
           d == SubSeq(o, to + 1, Len(o))
           cm == c \o m
           r == cm \o d
<1>1. /\ n \in Nat /\ e \in Nat /\ from \in Nat /\ count \in Nat /\ to \in Nat
      /\ from <= e /\ e <= n /\ e = from + count /\ to + count <= n
  OBVIOUS
<1>2. Slice(Ids, s, 0, from, a) /\ Slice(Ids, s, from, e, m) /\ Slice(Ids, s, e, n, b)
  <2>1. from <= n /\ 0 <= from /\ 0 \in Nat /\ 0 + 1 = 1
    BY <1>1
  <2>2. Slice(Ids, s, 0, from, SubSeq(s, 0 + 1, from))
    BY <1>1, <2>1, SliceFacts
  <2>3. Slice(Ids, s, 0, from, a)
    BY <2>1, <2>2
  <2> HIDE DEF e
  <2>4. Slice(Ids, s, from, e, m)
    BY <1>1, SliceFacts
  <2>5. n <= n
    BY <1>1
  <2>6. Slice(Ids, s, e, n, b)
    BY <1>1, <2>5, SliceFacts
  <2> QED BY <2>3, <2>4, <2>6
<1> HIDE DEF a, m, b
<1>3. Part(s, 0, from, a) /\ Part(s, from, e, m) /\ Part(s, e, n, b)
  <2> HIDE DEF e
  <2>1. from <= n /\ 0 <= from /\ 0 \in Nat /\ n <= n
    BY <1>1
  <2>2. Part(s, 0, from, a)
    BY <1>1, <1>2, <2>1, SlicePart
  <2>3. Part(s, from, e, m)
    BY <1>1, <1>2, SlicePart
  <2>4. Part(s, e, n, b)
    BY <1>1, <1>2, <2>1, SlicePart
  <2> QED BY <2>2, <2>3, <2>4
<1> HIDE DEF e
<1>4. /\ a \in Seq(Ids) /\ m \in Seq(Ids) /\ b \in Seq(Ids)
      /\ Len(a) = from /\ Len(m) = count /\ Len(b) = n - e
  <2>1. from - 0 = from /\ e - from = count
    BY <1>1
  <2> QED BY <1>2, <2>1 DEF Slice
<1> HIDE DEF n
<1>5. Chained(Ids, a, b, o)
  BY <1>4, ConcatFacts
<1> HIDE DEF o
<1>6. o \in Seq(Ids) /\ Len(o) = from + (n - e) /\ to \in 0 .. Len(o)
  BY <1>1, <1>4, <1>5 DEF Chained
<1>7. Parts(Ids, o, to, c, d)
  BY <1>6, SplitFacts
<1> HIDE DEF c, d
<1>8. c \in Seq(Ids) /\ Len(c) = to /\ d \in Seq(Ids) /\ Len(d) = (from + (n - e)) - to /\ c \o d = o
  <2>1. c \in Seq(Ids) /\ Len(c) = to /\ d \in Seq(Ids) /\ Len(d) = Len(o) - to /\ c \o d = o
    BY <1>7 DEF Parts
  <2>2. Len(d) = (from + (n - e)) - to
    BY <1>6, <2>1
  <2> QED BY <2>1, <2>2
<1>9. Chained(Ids, c, d, o)
  BY <1>8, ConcatFacts
<1>10. Chained(Ids, c, m, cm)
  BY <1>4, <1>8, ConcatFacts
<1> HIDE DEF cm
<1>11. cm \in Seq(Ids) /\ Len(cm) = to + count
  BY <1>4, <1>8, <1>10 DEF Chained
<1>12. Chained(Ids, cm, d, r)
  BY <1>8, <1>11, ConcatFacts
<1> HIDE DEF r
<1>13. r \in Seq(Ids) /\ Len(r) = n
  <2>1. Len(r) = (to + count) + ((from + (n - e)) - to)
    BY <1>8, <1>11, <1>12 DEF Chained
  <2>2. (to + count) + ((from + (n - e)) - to) = n
    BY <1>1
  <2> QED BY <1>12, <2>1, <2>2 DEF Chained
<1>14. \A i, j \in 1 .. Len(s) : s[i] = s[j] => i = j
  BY DEF Injective
<1>15. Injective(o)
  <2>1. Injective(a) /\ Injective(b)
    BY <1>3 DEF Part
  <2>2. ASSUME NEW x \in ToSet(a) PROVE x \notin ToSet(b)
    <3>1. PICK i \in 1 .. Len(s) : i <= from /\ s[i] = x
      BY <1>3 DEF Part
    <3>2. ASSUME NEW j \in 1 .. Len(s), e < j, s[j] = x PROVE FALSE
      BY <1>1, <1>14, <3>1, <3>2
    <3> QED BY <1>3, <3>2 DEF Part
  <2> QED BY <1>5, <2>1, <2>2 DEF Chained
<1>16. ASSUME NEW x \in ToSet(m) PROVE x \notin ToSet(o)
  <2>1. PICK i \in 1 .. Len(s) : from < i /\ i <= e /\ s[i] = x
    BY <1>3 DEF Part
  <2>2. x \notin ToSet(a)
    <3>1. ASSUME NEW j \in 1 .. Len(s), j <= from, s[j] = x PROVE FALSE
      BY <1>1, <1>14, <2>1, <3>1
    <3> QED BY <1>3, <3>1 DEF Part
  <2>3. x \notin ToSet(b)
    <3>1. ASSUME NEW j \in 1 .. Len(s), e < j, s[j] = x PROVE FALSE
      BY <1>1, <1>14, <2>1, <3>1
    <3> QED BY <1>3, <3>1 DEF Part
  <2> QED BY <1>5, <2>2, <2>3 DEF Chained
<1>17. Injective(r)
  <2>1. /\ Injective(c) /\ Injective(d) /\ \A x \in ToSet(c) : x \notin ToSet(d)
        /\ \A x : x \in ToSet(o) <=> x \in ToSet(c) \/ x \in ToSet(d)
    BY <1>9, <1>15 DEF Chained
  <2>2. Injective(m)
    BY <1>3 DEF Part
  <2>3. \A x \in ToSet(c) : x \notin ToSet(m)
    BY <1>16, <2>1
  <2>4. Injective(cm)
    BY <1>10, <2>1, <2>2, <2>3 DEF Chained
  <2>5. \A x \in ToSet(cm) : x \notin ToSet(d)
    BY <1>10, <1>16, <2>1 DEF Chained
  <2> QED BY <1>12, <2>1, <2>4, <2>5 DEF Chained
<1>18. ASSUME NEW x PROVE x \in ToSet(r) <=> x \in ToSet(s)
  <2>1. x \in ToSet(r) <=> x \in ToSet(a) \/ x \in ToSet(m) \/ x \in ToSet(b)
    BY <1>5, <1>9, <1>10, <1>12 DEF Chained
  <2>2. x \in ToSet(s) <=> \E i \in 1 .. n : s[i] = x
    BY DEF ToSet, n
  <2>3. ASSUME NEW i \in 1 .. n
        PROVE  (0 < i /\ i <= from) \/ (from < i /\ i <= e) \/ (e < i /\ i <= n)
    BY <1>1
  <2>4. n = Len(s)
    BY DEF n
  <2> QED BY <1>3, <2>1, <2>2, <2>3, <2>4 DEF Part
<1>19. Rearranged(s, r)
  BY <1>13, <1>17, <1>18 DEF Rearranged, n
<1> QED BY <1>19 DEF r, cm, c, d, o, a, b, m, e, n

\* No row is in both.
Apart(a, r) == \A x \in ToSet(a) : x \notin ToSet(r)

\* The rows of r are numbered behind those of a.
NumberedBehind(a, r, index, value) ==
  /\ value \in [Ids -> Nat] /\ Numbering(a \o r, value)
  /\ \A x \in Ids : x \notin ToSet(r) => value[x] = index[x]

\* Rows after others are numbered, and those before them keep their numbers.
LEMMA JoinedNumbered ==
  ASSUME NEW a \in Seq(Ids), NEW r \in Seq(Ids), Injective(r),
         Apart(a, r), NEW n, n = Len(a),
         NEW index \in [Ids -> Nat], Numbering(a, index),
         NEW value, value = Numbered(index, r, n)
  PROVE  NumberedBehind(a, r, index, value)
<1> DEFINE b == a \o r
           m == Len(r)
<1>1. n \in Nat /\ m \in Nat /\ \A x \in ToSet(a) : x \notin ToSet(r)
  BY DEF Apart
<1>2. /\ value \in [Ids -> Nat]
      /\ \A i \in 1 .. m : value[r[i]] = n + i - 1
      /\ \A x \in Ids : x \notin ToSet(r) => value[x] = index[x]
  <2> DEFINE numbered == Numbered(index, r, n)
  <2>1. /\ numbered \in [Ids -> Nat]
        /\ \A i \in 1 .. m : numbered[r[i]] = n + i - 1
        /\ \A x \in Ids : x \notin ToSet(r) => numbered[x] = index[x]
    BY <1>1, NumberedFacts
  <2>2. value = numbered
    OBVIOUS
  <2> HIDE DEF numbered
  <2> QED BY <2>1, <2>2
<1>3. Chained(Ids, a, r, b)
  BY ConcatFacts
<1> HIDE DEF b, m
<1>4. /\ b \in Seq(Ids) /\ Len(b) = n + m
      /\ \A i \in 1 .. n : b[i] = a[i]
      /\ \A i \in 1 .. m : b[n + i] = r[i]
  BY <1>3 DEF Chained, m
<1>5. Numbering(b, value)
  <2> SUFFICES ASSUME NEW i \in 1 .. n + m PROVE value[b[i]] = i - 1
    BY <1>4 DEF Numbering
  <2>1. CASE i <= n
    <3>1. i \in 1 .. n /\ i \in DOMAIN a
      BY <1>1, <2>1
    <3>2. b[i] = a[i] /\ index[a[i]] = i - 1
      BY <1>4, <3>1 DEF Numbering
    <3>3. a[i] \in ToSet(a)
      BY <3>1 DEF ToSet
    <3>4. a[i] \in Ids
      BY <3>1
    <3> QED BY <1>1, <1>2, <3>2, <3>3, <3>4
  <2>2. CASE i > n
    <3> DEFINE j == i - n
    <3>1. j \in 1 .. m /\ n + j = i
      BY <1>1, <2>2
    <3> HIDE DEF j
    <3>2. b[i] = r[j] /\ value[r[j]] = n + j - 1
      BY <1>2, <1>4, <3>1
    <3>3. n \in Int /\ j \in Int /\ i \in Int /\ n + j = i
      BY <1>1, <3>1
    <3>4. n + j - 1 = i - 1
      BY ONLY <3>3
    <3> QED BY <3>2, <3>4
  <2> QED BY <1>1, <2>1, <2>2
<1> QED BY <1>2, <1>5 DEF b, NumberedBehind

\* The rows of a terminal by their place: those of the scrollback come first.
Placed(t, index) ==
  /\ t.scrollback \in Seq(Ids) /\ ScreenRows(t) \in Seq(Ids) /\ Hidden(t) \in Seq(Ids)
  /\ Chained(Ids, t.scrollback, ScreenRows(t), AllRows(t))
  /\ Injective(t.scrollback) /\ Injective(ScreenRows(t)) /\ Injective(Hidden(t))
  /\ \A x \in ToSet(t.scrollback) : x \notin ToSet(ScreenRows(t)) /\ x \notin ToSet(Hidden(t))
  /\ \A x \in ToSet(ScreenRows(t)) : x \notin ToSet(Hidden(t))
  /\ \A i \in 1 .. Len(t.scrollback) : index[t.scrollback[i]] = i - 1
  /\ \A x \in ToSet(AllRows(t)) : index[x] < Len(t.scrollback) =>
       \E i \in 1 .. Len(t.scrollback) : t.scrollback[i] = x /\ index[x] = i - 1

\* The rows of the scrollback have the first numbers, those of the screen the next.
LEMMA PlacesOfRows ==
  ASSUME NEW t, NEW index, Numbers(t, index)
  PROVE  Placed(t, index)
<1> DEFINE a == t.scrollback
           s == ScreenRows(t)
           h == Hidden(t)
           r == AllRows(t)
           l == Len(a)
           n == Len(s)
<1>1. t \in Terms /\ Distinct(t) /\ Numbering(r, index)
  BY DEF Numbers, Terminal
<1>2. a \in Seq(Ids) /\ s \in Seq(Ids) /\ h \in Seq(Ids) /\ r \in Seq(Ids)
  BY <1>1, RowsOfTerminal
<1>3. Chained(Ids, a, s, r)
  BY <1>2, ConcatFacts DEF AllRows
<1>4. Injective(r) /\ Injective(h) /\ ToSet(r) \cap ToSet(h) = {}
  BY <1>1 DEF Distinct
<1>5. l \in Nat /\ n \in Nat
  BY <1>2
<1> HIDE DEF a, s, h, r
<1>6. Len(r) = l + n /\ \A i \in 1 .. l : r[i] = a[i]
  BY <1>3 DEF Chained
<1> HIDE DEF l, n
<1>7. Injective(a) /\ Injective(s) /\ \A x \in ToSet(a) : x \notin ToSet(s)
  BY <1>3, <1>4 DEF Chained
<1>8. \A x : x \in ToSet(r) <=> x \in ToSet(a) \/ x \in ToSet(s)
  BY <1>3 DEF Chained
<1>9. \A x \in ToSet(r) : x \notin ToSet(h)
  BY <1>4
<1>10. DOMAIN r = 1 .. l + n
  BY <1>2, <1>6
<1>11. ASSUME NEW i \in 1 .. l PROVE index[a[i]] = i - 1
  <2>1. i \in DOMAIN r /\ r[i] = a[i]
    BY <1>5, <1>6, <1>10
  <2> QED BY <1>1, <2>1 DEF Numbering
<1>12. ASSUME NEW x \in ToSet(r), index[x] < l
       PROVE  \E i \in 1 .. l : a[i] = x /\ index[x] = i - 1
  <2>1. PICK i \in DOMAIN r : r[i] = x
    BY DEF ToSet
  <2>2. index[x] = i - 1 /\ i \in Int /\ i >= 1
    BY <1>1, <1>5, <1>10, <2>1 DEF Numbering
  <2>3. i - 1 < l
    BY <1>12, <2>2
  <2>4. i \in 1 .. l
    BY <1>5, <2>2, <2>3
  <2> QED BY <1>6, <2>1, <2>2, <2>4
<1>13. l = Len(a)
  BY DEF l
<1> QED BY <1>2, <1>3, <1>4, <1>7, <1>8, <1>9, <1>11, <1>12, <1>13 DEF Placed, a, s, h, r

\* A queue with two timers that were set once.
LEMMA TwoTimers ==
  Schedule(Schedule(<< >>, "syncCursor"), "invalidate") = <<"syncCursor", "invalidate">>
<1> DEFINE a == Schedule(<< >>, "syncCursor")
           q == Append(<<"syncCursor">>, "invalidate")
           r == <<"syncCursor", "invalidate">>
<1>1. a = <<"syncCursor">>
  <2>1. ToSet(<< >>) = {}
    BY DEF ToSet
  <2>2. Append(<< >>, "syncCursor") = <<"syncCursor">>
    OBVIOUS
  <2> QED BY <2>1, <2>2 DEF Schedule
<1>2. Schedule(<<"syncCursor">>, "invalidate") = q
  <2>1. \A x \in ToSet(<<"syncCursor">>) : x = "syncCursor"
    BY DEF ToSet
  <2> QED BY <2>1 DEF Schedule
<1>3. <<"syncCursor">> \in Seq({"invalidate", "syncCursor"})
      /\ Len(<<"syncCursor">>) = 1 /\ <<"syncCursor">>[1] = "syncCursor"
  OBVIOUS
<1>4. q \in Seq({"invalidate", "syncCursor"}) /\ Len(q) = 2 /\ q[1] = "syncCursor" /\ q[2] = "invalidate"
  BY <1>3
<1>5. r \in Seq({"invalidate", "syncCursor"}) /\ Len(r) = 2 /\ r[1] = "syncCursor" /\ r[2] = "invalidate"
  OBVIOUS
<1> HIDE DEF q, r
<1>6. \A i \in 1 .. Len(q) : q[i] = r[i]
  <2>1. \A i \in 1 .. 2 : i = 1 \/ i = 2
    OBVIOUS
  <2> QED BY <1>4, <1>5, <2>1
<1>7. q = r
  BY <1>4, <1>5, <1>6, SeqEqual
<1> HIDE DEF a
<1> QED BY <1>1, <1>2, <1>7 DEF a, r

\* Rows of the screen change places: all of the view will be drawn anew.
LEMMA MoveRowsKeeps ==
  ASSUME Inv, AtRest, port.collapsed, NEW from \in 0 .. term.height - 1, NEW to \in 0 .. term.height - 1,
         NEW count \in 1 .. term.height, MoveRows(from, count, to)
  PROVE  Inv'
<1> DEFINE s == ScreenRows(term)
           a == term.scrollback
           others == SubSeq(s, 1, from) \o SubSeq(s, from + count + 1, Len(s))
           placed == SubSeq(others, 1, to) \o SubSeq(s, from + 1, from + count)
                       \o SubSeq(others, to + 1, Len(others))
           n == Len(a)
           rows == AllRows(term)
           left == AllRows(term')
           top == port.scrollTop
           win == port.window
<1>1. /\ from + count <= term.height /\ to + count <= term.height
      /\ term' = [term EXCEPT !.screens[term.current] = placed]
      /\ rowIndex' = Numbered(rowIndex, placed, n)
      /\ timers' = Schedule(WithCursor, "invalidate")
      /\ UNCHANGED <<port, scrollDown, resizing, cursorAt>>
  BY DEF MoveRows
<1>2. Rested /\ Numbers(term, rowIndex) /\ Placed(term, rowIndex)
  BY RestFacts, PlacesOfRows DEF Inv, Whole
<1>3. /\ term \in Terms /\ Terminal(term) /\ term.height \in Nat \ {0} /\ Len(s) = term.height
      /\ term.cursor \in 0 .. term.height - 1 /\ term.cursor \in Int /\ term.height \in Int
      /\ rowIndex \in [Ids -> Nat]
  BY <1>2 DEF Numbers, Terminal, Terms
<1>4. s \in Seq(Ids) /\ a \in Seq(Ids) /\ Injective(s) /\ n \in Nat
  BY <1>2 DEF Placed
<1>5. Rearranged(s, placed)
  <2>1. from \in Nat /\ count \in Nat /\ to \in Nat /\ from + count <= Len(s) /\ to + count <= Len(s)
    BY <1>1, <1>3
  <2> HIDE DEF s
  <2> QED BY <1>4, <2>1, RowsMoved
<1> HIDE DEF placed, others
<1>6. placed \in Seq(Ids) /\ Len(placed) = Len(s) /\ Injective(placed)
      /\ \A x : x \in ToSet(placed) <=> x \in ToSet(s)
  BY <1>5 DEF Rearranged
<1>7. Replaced(term, term', a, placed) /\ term'.height = term.height /\ term'.cursor = term.cursor
  <2>1. term' = Renewed(term, term.height, a, placed, term.cursor)
    BY <1>1, <1>3 DEF Renewed, Terms
  <2> HIDE DEF a
  <2> QED BY <1>3, <1>4, <1>6, <2>1, ScreenReplaced
<1>8. /\ left = a \o placed /\ ScreenRows(term') = placed /\ Hidden(term') = Hidden(term)
      /\ term' \in Terms
  BY <1>7 DEF Replaced
<1>9. /\ \A x \in ToSet(a) : x \notin ToSet(placed) /\ x \notin ToSet(Hidden(term))
      /\ \A x \in ToSet(placed) : x \notin ToSet(Hidden(term))
      /\ Injective(a) /\ Injective(Hidden(term))
      /\ \A i \in 1 .. n : rowIndex[a[i]] = i - 1
      /\ Chained(Ids, a, s, rows)
  BY <1>2, <1>6 DEF Placed
<1>10. Chained(Ids, a, placed, left)
  BY <1>4, <1>6, <1>8, ConcatFacts
<1> HIDE DEF left, rows, s, a
<1>11. \A x : x \in ToSet(left) <=> x \in ToSet(rows)
  <2>1. \A x : x \in ToSet(rows) <=> x \in ToSet(a) \/ x \in ToSet(s)
    BY <1>9 DEF Chained
  <2>2. \A x : x \in ToSet(left) <=> x \in ToSet(a) \/ x \in ToSet(placed)
    BY <1>10 DEF Chained
  <2> QED BY <1>6, <2>1, <2>2
<1>12. Terminal(term')
  <2>1. Injective(left)
    BY <1>6, <1>9, <1>10 DEF Chained
  <2>2. \A x \in ToSet(left) : x \notin ToSet(Hidden(term))
    BY <1>9, <1>10 DEF Chained
  <2>3. Distinct(term')
    <3>1. ToSet(left) \cap ToSet(Hidden(term)) = {}
      BY <2>2
    <3> QED BY <1>8, <1>9, <2>1, <3>1 DEF Distinct, left
  <2> QED BY <1>3, <1>6, <1>7, <1>8, <2>3 DEF Terminal
<1>13. /\ rowIndex' \in [Ids -> Nat] /\ Numbering(left, rowIndex')
       /\ \A x \in Ids : x \notin ToSet(placed) => rowIndex'[x] = rowIndex[x]
  <2>1. n = Len(a)
    OBVIOUS
  <2> HIDE DEF n
  <2>2. a \in Seq(Ids) /\ placed \in Seq(Ids) /\ Injective(placed) /\ Apart(a, placed)
    BY <1>4, <1>6, <1>9 DEF Apart
  <2>3. rowIndex \in [Ids -> Nat] /\ Numbering(a, rowIndex)
    <3>1. DOMAIN a = 1 .. n
      BY <1>4, <2>1
    <3> QED BY <1>3, <1>9, <3>1 DEF Numbering
  <2>4. rowIndex' = Numbered(rowIndex, placed, n)
    BY <1>1
  <2>5. NumberedBehind(a, placed, rowIndex, rowIndex')
    BY ONLY <2>1, <2>2, <2>3, <2>4, JoinedNumbered
  <2> QED BY <1>8, <2>5 DEF NumberedBehind
<1>14. Numbers(term', rowIndex')
  BY <1>12, <1>13 DEF Numbers, left
<1>15. Moving(term, port, rowIndex) /\ top = n
  BY <1>2 DEF Rested, a
<1>16. ASSUME NEW x \in Rows(port.dom), Prec(port.dom, x, TopFold) PROVE rowIndex'[x] = rowIndex[x]
  <2>1. x \in ToSet(rows) /\ rowIndex[x] < n
    BY <1>15, <1>16 DEF Moving, Dropless, rows
  <2>2. PICK i \in 1 .. n : a[i] = x
    BY <1>2, <2>1 DEF Placed, a, rows
  <2>3. x \in ToSet(a) /\ x \in Ids
    BY <1>4, <2>2 DEF ToSet
  <2> QED BY <1>9, <1>13, <2>3
<1>17. Moving(term', port, rowIndex')
  <2>1. \A x \in Rows(port.dom) : Prec(port.dom, x, TopFold) => rowIndex'[x] < top
    BY <1>15, <1>16 DEF Moving
  <2>2. \A x, y \in Rows(port.dom) :
          Prec(port.dom, x, y) /\ Prec(port.dom, y, TopFold) => rowIndex'[x] < rowIndex'[y]
    <3> SUFFICES ASSUME NEW x \in Rows(port.dom), NEW y \in Rows(port.dom),
                        Prec(port.dom, x, y), Prec(port.dom, y, TopFold)
                 PROVE  rowIndex'[x] < rowIndex'[y]
      OBVIOUS
    <3>1. Order(port.dom)
      BY <1>15, PrecOrder DEF Moving, Ports, Document
    <3>2. Prec(port.dom, x, TopFold)
      BY <3>1 DEF Order
    <3>3. rowIndex[x] < rowIndex[y]
      BY <1>15 DEF Moving
    <3> QED BY <1>16, <3>2, <3>3
  <2>3. Dropless(term', port)
    BY <1>11, <1>15 DEF Moving, Dropless, left, rows
  <2> QED BY <1>15, <2>1, <2>2, <2>3 DEF Moving
<1>18. /\ ~port.scrolled /\ ~resizing /\ port.visibleRowCount = win /\ term.height = win
       /\ scrollDown = 0 /\ port.isScrolledEnd /\ port.lastRowCount = RowCount(term)
       /\ top + port.visibleRowCount = RowCount(term) /\ timers = << >>
  BY <1>2 DEF Rested
<1>19. timers' = <<"syncCursor", "invalidate">>
  <2>1. WithCursor = Schedule(<< >>, "syncCursor")
    BY <1>18 DEF WithCursor
  <2> QED BY <1>1, <2>1, TwoTimers
<1>20. /\ timers' \in Seq(TimerNames) /\ "invalidate" \in ToSet(timers') /\ "syncCursor" \in ToSet(timers')
       /\ "onResize" \notin ToSet(timers')
  <2>1. timers' \in Seq(TimerNames)
    <3>1. <<"syncCursor", "invalidate">> \in
             Seq({"syncCursor", "redraw", "invalidate", "onScroll", "onResize", "resized"})
      OBVIOUS
    <3> QED BY <1>19, <3>1 DEF TimerNames
  <2>2. timers'[1] = "syncCursor" /\ timers'[2] = "invalidate" /\ DOMAIN timers' = 1 .. 2
    BY <1>19
  <2>3. 1 \in 1 .. 2 /\ 2 \in 1 .. 2
    OBVIOUS
  <2>4. \A x \in ToSet(timers') : x = "syncCursor" \/ x = "invalidate"
    <3>1. \A i \in 1 .. 2 : i = 1 \/ i = 2
      OBVIOUS
    <3> QED BY <2>2, <3>1 DEF ToSet
  <2> QED BY <2>1, <2>2, <2>3, <2>4 DEF ToSet
<1>21. Disordered(term', rowIndex', port', timers', scrollDown', resizing')
  BY <1>1, <1>7, <1>17, <1>18, <1>19 DEF Disordered
<1>22. RowCount(term') = RowCount(term) /\ RowCount(term) \in Nat
  <2>1. Len(left) = n + Len(placed) /\ Len(rows) = n + Len(s)
    BY <1>9, <1>10 DEF Chained
  <2> QED BY <1>6, <2>1, PortFacts DEF RowCount, left, rows
<1>23. Geometry(term', port', timers', resizing')
  <2>1. Geometry(term, port, timers, resizing)
    BY DEF Inv, Whole
  <2>2. RowCount(term) <= RowCount(term)
    BY <1>22
  <2>3. port' = port /\ term'.height = win
    BY <1>1, <1>7, <1>18
  <2> QED BY <1>18, <1>20, <1>22, <2>1, <2>2, <2>3 DEF Geometry
<1>24. ViewDue(term', port', timers', scrollDown', resizing')
  BY <1>20 DEF ViewDue
<1>25. EndDue(port', timers', resizing')
  <2>1. RowCount(term) >= RowCount(term)
    BY <1>22
  <2> QED BY <1>1, <1>18, <2>1 DEF EndDue
<1>26. FollowDue(term', port', timers', scrollDown', resizing')
  BY <1>1, <1>18, <1>22 DEF FollowDue
<1>27. CursorDue(term', port', timers', resizing', cursorAt')
  BY <1>20 DEF CursorDue
<1>28. scrollDown' \in Nat /\ resizing' \in BOOLEAN
  BY <1>1 DEF Inv, Whole
<1> QED BY <1>14, <1>20, <1>21, <1>23, <1>24, <1>25, <1>26, <1>27, <1>28 DEF Inv, Whole

\* t is s without its first element.
Behind(s, t) ==
  /\ t \in Seq(Ids) /\ Len(t) = Len(s) - 1 /\ Injective(t)
  /\ \A i \in 1 .. Len(s) - 1 : t[i] = s[i + 1]
  /\ Head(s) = s[1] /\ s[1] \in Ids /\ s[1] \notin ToSet(t)
  /\ \A x : x \in ToSet(s) <=> x = s[1] \/ x \in ToSet(t)

\* What is behind the first element.
LEMMA TailFacts ==
  ASSUME NEW s \in Seq(Ids), Injective(s), Len(s) > 0
  PROVE  Behind(s, Tail(s))
<1> DEFINE n == Len(s)
           t == Tail(s)
<1>1. n \in Nat /\ n > 0 /\ s # << >> /\ DOMAIN s = 1 .. n
  OBVIOUS
<1>2. t \in Seq(Ids) /\ Len(t) = n - 1 /\ \A i \in 1 .. n - 1 : t[i] = s[i + 1]
  BY <1>1
<1>3. Head(s) = s[1] /\ s[1] \in Ids
  BY <1>1
<1> HIDE DEF n, t
<1>4. DOMAIN t = 1 .. n - 1
  BY <1>1, <1>2
<1>5. \A i \in 1 .. n - 1 : i + 1 \in 1 .. n /\ i + 1 # 1
  BY <1>1
<1>6. Injective(t)
  <2> SUFFICES ASSUME NEW i \in 1 .. n - 1, NEW j \in 1 .. n - 1, t[i] = t[j] PROVE i = j
    BY <1>4 DEF Injective
  <2> DEFINE i1 == i + 1
             j1 == j + 1
  <2>1. s[i1] = s[j1] /\ i1 \in DOMAIN s /\ j1 \in DOMAIN s
    BY <1>1, <1>2, <1>5
  <2>2. i1 = j1
    <3> HIDE DEF i1, j1
    <3> QED BY <2>1 DEF Injective
  <2> QED BY <1>1, <2>2
<1>7. s[1] \notin ToSet(t)
  <2> SUFFICES ASSUME NEW i \in 1 .. n - 1, t[i] = s[1] PROVE FALSE
    BY <1>4 DEF ToSet
  <2> DEFINE i1 == i + 1
  <2>1. s[i1] = s[1] /\ i1 \in DOMAIN s /\ 1 \in DOMAIN s /\ i1 # 1
    BY <1>1, <1>2, <1>5
  <2> HIDE DEF i1
  <2> QED BY <2>1 DEF Injective
<1>8. ASSUME NEW x PROVE x \in ToSet(s) <=> x = s[1] \/ x \in ToSet(t)
  <2>1. s[1] \in ToSet(s)
    BY <1>1 DEF ToSet
  <2>2. ASSUME x \in ToSet(t) PROVE x \in ToSet(s)
    <3>1. PICK i \in 1 .. n - 1 : t[i] = x
      BY <1>4, <2>2 DEF ToSet
    <3> DEFINE j == i + 1
    <3>2. s[j] = x /\ j \in DOMAIN s
      BY <1>1, <1>2, <1>5, <3>1
    <3> HIDE DEF j
    <3> QED BY <3>2 DEF ToSet
  <2>3. ASSUME x \in ToSet(s), x # s[1] PROVE x \in ToSet(t)
    <3>1. PICK i \in DOMAIN s : s[i] = x
      BY <2>3 DEF ToSet
    <3> DEFINE j == i - 1
    <3>2. j \in 1 .. n - 1 /\ j + 1 = i
      BY <1>1, <2>3, <3>1
    <3> HIDE DEF j
    <3>3. t[j] = x /\ j \in DOMAIN t
      BY <1>2, <1>4, <3>1, <3>2
    <3> QED BY <3>3 DEF ToSet
  <2> QED BY <2>1, <2>2, <2>3
<1> QED BY <1>2, <1>3, <1>6, <1>7, <1>8 DEF Behind, n, t

\* r is s with one more element, behind the first c.
PutIn(s, r, c, e) ==
  /\ r \in Seq(Ids) /\ Len(r) = Len(s) + 1
  /\ \A i \in 1 .. c : r[i] = s[i]
  /\ r[c + 1] = e
  /\ \A i \in c + 1 .. Len(s) : r[i + 1] = s[i]

\* The places of a sequence with one more element.
LEMMA InsertedPlaces ==
  ASSUME NEW t \in Seq(Ids), NEW c \in 0 .. Len(t), NEW e \in Ids
  PROVE  PutIn(t, InsertAt(t, c + 1, e), c, e)
<1> DEFINE n == Len(t)
           x == SubSeq(t, 1, c)
           y == SubSeq(t, c + 1, n)
           xe == Append(x, e)
           r == xe \o y
<1>1. Parts(Ids, t, c, x, y)
  BY SplitFacts
<1>2. n \in Nat /\ c \in Nat /\ c <= n
  OBVIOUS
<1>3. InsertAt(t, c + 1, e) = r
  <2>1. (c + 1) - 1 = c
    BY <1>2
  <2>2. InsertAt(t, c + 1, e) = SubSeq(t, 1, (c + 1) - 1) \o <<e>> \o y
    BY DEF InsertAt
  <2>3. x \in Seq(Ids)
    BY <1>1 DEF Parts
  <2>4. InsertAt(t, c + 1, e) = (x \o <<e>>) \o y
    BY <2>1, <2>2
  <2> HIDE DEF x, y
  <2>5. x \o <<e>> = xe
    BY <2>3, AppendIsConcat
  <2> QED BY <2>4, <2>5
<1> HIDE DEF x, y, n
<1>4. /\ x \in Seq(Ids) /\ Len(x) = c /\ \A i \in 1 .. c : x[i] = t[i]
      /\ y \in Seq(Ids) /\ Len(y) = n - c /\ \A i \in 1 .. n - c : y[i] = t[c + i]
  BY <1>1 DEF Parts, n
<1>5. xe \in Seq(Ids) /\ Len(xe) = c + 1 /\ xe[c + 1] = e /\ \A i \in 1 .. c : xe[i] = x[i]
  BY <1>4
<1> HIDE DEF xe
<1>6. Chained(Ids, xe, y, r)
  BY <1>4, <1>5, ConcatFacts
<1> HIDE DEF r
<1>7. /\ r \in Seq(Ids) /\ Len(r) = (c + 1) + (n - c)
      /\ \A i \in 1 .. c + 1 : r[i] = xe[i]
      /\ \A i \in 1 .. n - c : r[(c + 1) + i] = y[i]
  BY <1>4, <1>5, <1>6 DEF Chained
<1>8. Len(r) = n + 1
  BY <1>2, <1>7
<1>9. ASSUME NEW i \in 1 .. c PROVE r[i] = t[i]
  <2>1. i \in 1 .. c + 1
    BY <1>2
  <2> QED BY <1>4, <1>5, <1>7, <2>1
<1>10. r[c + 1] = e
  <2>1. c + 1 \in 1 .. c + 1
    BY <1>2
  <2> QED BY <1>5, <1>7, <2>1
<1>11. ASSUME NEW i \in c + 1 .. n PROVE r[i + 1] = t[i]
  <2> DEFINE j == i - c
  <2>1. j \in 1 .. n - c /\ (c + 1) + j = i + 1 /\ c + j = i
    BY <1>2
  <2> HIDE DEF j
  <2>2. r[(c + 1) + j] = y[j] /\ y[j] = t[c + j]
    BY <1>4, <1>7, <2>1
  <2> QED BY <2>1, <2>2
<1>12. PutIn(t, r, c, e)
  BY <1>7, <1>8, <1>9, <1>10, <1>11 DEF PutIn, n
<1> QED BY <1>3, <1>12

\* b is a with the first element of s, and r is the rest of s with e behind
\* the first c.
Opened(a, s, c, e, b, r) ==
  /\ b \in Seq(Ids) /\ Len(b) = Len(a) + 1 /\ Injective(b)
  /\ r \in Seq(Ids) /\ Len(r) = Len(s) /\ Injective(r)
  /\ \A x : x \in ToSet(b) <=> x \in ToSet(a) \/ x = s[1]
  /\ \A x : x \in ToSet(r) <=> x = e \/ (x \in ToSet(s) /\ x # s[1])
  /\ \A x \in ToSet(b) : x \notin ToSet(r)
  /\ \A i \in 1 .. Len(a) : b[i] = a[i]
  /\ b[Len(a) + 1] = s[1]
  /\ \A i \in 1 .. c : r[i] = s[i + 1]
  /\ \A i \in c + 2 .. Len(s) : r[i] = s[i]

\* The first row of the screen scrolls off and a new one is put in (insertRow).
LEMMA RowOpened ==
  ASSUME NEW a \in Seq(Ids), NEW s \in Seq(Ids), Injective(a), Injective(s), Len(s) > 0,
         \A x \in ToSet(a) : x \notin ToSet(s), NEW c \in Nat, c < Len(s),
         NEW e \in Ids, e \notin ToSet(a), e \notin ToSet(s)
  PROVE  Opened(a, s, c, e, Append(a, Head(s)), InsertAt(Tail(s), c + 1, e))
<1> DEFINE t == Tail(s)
           r == InsertAt(t, c + 1, e)
           b == Append(a, s[1])
           h == Len(s)
           l == Len(a)
<1>1. Behind(s, t)
  BY TailFacts
<1>2. h \in Nat /\ h > 0 /\ l \in Nat /\ c < h
  OBVIOUS
<1> HIDE DEF t, h
<1>3. /\ t \in Seq(Ids) /\ Len(t) = h - 1 /\ Injective(t)
      /\ \A i \in 1 .. h - 1 : t[i] = s[i + 1]
      /\ Head(s) = s[1] /\ s[1] \in Ids /\ s[1] \notin ToSet(t)
      /\ \A x : x \in ToSet(s) <=> x = s[1] \/ x \in ToSet(t)
  BY <1>1 DEF Behind, h
<1>4. c \in 0 .. Len(t) /\ c + 1 \in 1 .. Len(t) + 1
  BY <1>2, <1>3
<1>5. PutIn(t, r, c, e)
  BY <1>3, <1>4, InsertedPlaces
<1>6. r \in Seq(Ids) /\ ToSet(r) = ToSet(t) \cup {e} /\ Injective(r)
  BY <1>3, <1>4, InsertAtFacts
<1>7. s[1] \notin ToSet(a) /\ s[1] # e
  BY <1>3
<1>8. /\ b \in Seq(Ids) /\ ToSet(b) = ToSet(a) \cup {s[1]} /\ Injective(b)
  BY <1>3, <1>7, AppendFacts
<1>9. Len(b) = l + 1 /\ b[l + 1] = s[1] /\ \A i \in 1 .. l : b[i] = a[i]
  BY <1>3
<1> HIDE DEF r, b
<1>10. Len(r) = h
  BY <1>2, <1>3, <1>5 DEF PutIn
<1>11. ASSUME NEW i \in 1 .. c PROVE r[i] = s[i + 1]
  <2>1. i \in 1 .. h - 1
    BY <1>2
  <2> QED BY <1>3, <1>5, <2>1 DEF PutIn
<1>12. ASSUME NEW i \in c + 2 .. h PROVE r[i] = s[i]
  <2> DEFINE j == i - 1
  <2>1. j \in c + 1 .. h - 1 /\ j \in 1 .. h - 1 /\ j + 1 = i
    BY <1>2
  <2> HIDE DEF j
  <2>2. r[j + 1] = t[j] /\ t[j] = s[j + 1]
    BY <1>3, <1>5, <2>1 DEF PutIn
  <2> QED BY <2>1, <2>2
<1>13. \A x : x \in ToSet(r) <=> x = e \/ (x \in ToSet(s) /\ x # s[1])
  BY <1>3, <1>6, <1>7
<1>14. \A x : x \in ToSet(b) <=> x \in ToSet(a) \/ x = s[1]
  BY <1>8
<1>15. \A x \in ToSet(b) : x \notin ToSet(r)
  BY <1>7, <1>13, <1>14
<1>16. Opened(a, s, c, e, b, r)
  BY <1>6, <1>8, <1>9, <1>10, <1>11, <1>12, <1>13, <1>14, <1>15 DEF Opened, h
<1> QED BY <1>3, <1>16 DEF b, r, t

\* The rows from place m on have moved by one.
Shifted(rows, left, m, index, value) ==
  /\ Len(left) = Len(rows) + 1
  /\ \A x \in ToSet(rows) : x \in ToSet(left)
  /\ \A x \in ToSet(rows) : index[x] < m => value[x] = index[x]
  /\ \A x \in ToSet(rows) : index[x] >= m => value[x] = index[x] + 1

\* A new row within the screen moves those behind it only.
LEMMA RowsShifted ==
  ASSUME NEW a \in Seq(Ids), NEW s \in Seq(Ids), NEW c \in Nat, c < Len(s), NEW e, NEW b, NEW r,
         Opened(a, s, c, e, b, r), NEW rows, NEW left,
         Chained(Ids, a, s, rows), Chained(Ids, b, r, left),
         NEW index, NEW value, Numbering(rows, index), Numbering(left, value),
         NEW m \in Nat, m = Len(a) + c + 1
  PROVE  Shifted(rows, left, m, index, value)
<1> DEFINE l == Len(a)
           h == Len(s)
           n == Len(rows)
<1>1. l \in Nat /\ h \in Nat /\ c < h /\ m = l + c + 1
  OBVIOUS
<1>2. rows \in Seq(Ids) /\ n = l + h /\ (\A i \in 1 .. l : rows[i] = a[i]) /\ (\A i \in 1 .. h : rows[l + i] = s[i])
  BY DEF Chained
<1>3. /\ Len(b) = l + 1 /\ Len(r) = h /\ b[l + 1] = s[1]
      /\ \A i \in 1 .. l : b[i] = a[i]
      /\ \A i \in 1 .. c : r[i] = s[i + 1]
      /\ \A i \in c + 2 .. h : r[i] = s[i]
  BY DEF Opened
<1>4. /\ left \in Seq(Ids) /\ Len(left) = (l + 1) + h
      /\ \A i \in 1 .. l + 1 : left[i] = b[i]
      /\ \A i \in 1 .. h : left[(l + 1) + i] = r[i]
  BY <1>3 DEF Chained
<1> HIDE DEF l, h, n
<1>5. Len(left) = n + 1 /\ n \in Nat
  BY <1>1, <1>2, <1>4
<1>6. DOMAIN rows = 1 .. n /\ DOMAIN left = 1 .. n + 1
  BY <1>2, <1>4, <1>5 DEF n
<1>7. ASSUME NEW k \in 1 .. n, k <= m PROVE left[k] = rows[k]
  <2>1. CASE k <= l
    <3>1. k \in 1 .. l /\ k \in 1 .. l + 1
      BY <1>1, <2>1
    <3> QED BY <1>2, <1>3, <1>4, <3>1
  <2>2. CASE k = l + 1
    <3>1. k \in 1 .. l + 1 /\ 1 \in 1 .. h
      BY <1>1, <2>2
    <3>2. rows[l + 1] = s[1]
      BY <1>2, <3>1
    <3> QED BY <1>3, <1>4, <2>2, <3>1, <3>2
  <2>3. CASE k > l + 1
    <3> DEFINE i == (k - l) - 1
               j == i + 1
    <3>1. i \in 1 .. c /\ i \in 1 .. h /\ j \in 1 .. h /\ (l + 1) + i = k /\ l + j = k /\ j = i + 1
      BY <1>1, <1>7, <2>3
    <3> HIDE DEF i, j
    <3>2. left[(l + 1) + i] = r[i] /\ r[i] = s[j] /\ rows[l + j] = s[j]
      BY <1>2, <1>3, <1>4, <3>1
    <3> QED BY <3>1, <3>2
  <2> QED BY <1>1, <2>1, <2>2, <2>3
<1>8. ASSUME NEW k \in 1 .. n, k > m PROVE left[k + 1] = rows[k]
  <2> DEFINE i == k - l
  <2>1. i \in c + 2 .. h /\ i \in 1 .. h /\ (l + 1) + i = k + 1 /\ l + i = k
    BY <1>1, <1>2, <1>8
  <2> HIDE DEF i
  <2>2. left[(l + 1) + i] = r[i] /\ r[i] = s[i] /\ rows[l + i] = s[i]
    BY <1>2, <1>3, <1>4, <2>1
  <2> QED BY <2>1, <2>2
<1>9. ASSUME NEW x \in ToSet(rows)
      PROVE  /\ x \in ToSet(left)
             /\ index[x] < m => value[x] = index[x]
             /\ index[x] >= m => value[x] = index[x] + 1
  <2>1. PICK k \in DOMAIN rows : rows[k] = x
    BY <1>9 DEF ToSet
  <2>2. index[x] = k - 1 /\ k \in 1 .. n
    BY <1>6, <2>1 DEF Numbering
  <2>3. k \in 1 .. n + 1 /\ k + 1 \in 1 .. n + 1
    BY <1>5, <2>2
  <2>4. CASE k <= m
    <3>1. left[k] = x /\ k \in DOMAIN left
      BY <1>6, <1>7, <2>1, <2>2, <2>3, <2>4
    <3>2. value[x] = k - 1 /\ x \in ToSet(left)
      BY <3>1 DEF Numbering, ToSet
    <3>3. index[x] < m
      BY <2>2, <2>4
    <3> QED BY <2>2, <3>2, <3>3
  <2>5. CASE k > m
    <3> DEFINE j == k + 1
    <3>1. left[j] = x /\ j \in DOMAIN left /\ j - 1 = k
      BY <1>6, <1>8, <2>1, <2>2, <2>3, <2>5
    <3> HIDE DEF j
    <3>2. value[x] = k /\ x \in ToSet(left)
      BY <3>1 DEF Numbering, ToSet
    <3>3. index[x] >= m /\ index[x] + 1 = k
      BY <2>2, <2>5
    <3> QED BY <2>2, <3>2, <3>3
  <2> QED BY <2>2, <2>4, <2>5
<1> QED BY <1>5, <1>9 DEF Shifted, n

\* The document does not change when the rows behind a new one get new numbers.
LEMMA SoundShifted ==
  ASSUME NEW p, NEW rows \in Seq(Ids), NEW left \in Seq(Ids), NEW m \in Nat,
         NEW index \in [Ids -> Nat], NEW value \in [Ids -> Nat],
         Sound(p, rows, index), \A x \in Rows(p.dom) : x \in ToSet(rows),
         Shifted(rows, left, m, index, value), Numbering(left, value),
         \A i \in DOMAIN p.cache : value[p.cache[i]] = i
  PROVE  Sound(p, left, value)
<1>1. /\ \A x \in ToSet(rows) : x \in ToSet(left)
      /\ \A x \in ToSet(rows) : index[x] < m => value[x] = index[x]
      /\ \A x \in ToSet(rows) : index[x] >= m => value[x] = index[x] + 1
  BY DEF Shifted
<1>2. \A x \in Rows(p.dom) : x \in Ids
  BY DEF Sound, Ports, Rows, Node, ToSet
<1>0. ASSUME NEW x \in Rows(p.dom), NEW y \in Rows(p.dom), index[x] < index[y]
      PROVE  value[x] < value[y]
  <2>1. index[x] < index[y]
    BY <1>0
  <2>2. index[x] \in Nat /\ index[y] \in Nat
    BY <1>2
  <2>3. x \in ToSet(rows) /\ y \in ToSet(rows)
    OBVIOUS
  <2> DEFINE i == index[x]
             j == index[y]
             u == value[x]
             v == value[y]
  <2>4. /\ i < j /\ i \in Nat /\ j \in Nat /\ m \in Nat
        /\ (i < m => u = i) /\ (i >= m => u = i + 1)
        /\ (j < m => v = j) /\ (j >= m => v = j + 1)
    BY <1>1, <2>1, <2>2, <2>3
  <2> HIDE DEF i, j, u, v
  <2>5. u < v
    BY ONLY <2>4
  <2> QED BY <2>5 DEF u, v
<1>3. Sorted(p.dom, value)
  BY <1>0 DEF Sound, Sorted
<1>4. Own(p.dom, left, value)
  <2> SUFFICES ASSUME NEW x \in Rows(p.dom) PROVE left[value[x] + 1] = x
    BY DEF Own
  <2>1. x \in ToSet(left)
    BY <1>1
  <2>2. PICK k \in DOMAIN left : left[k] = x
    BY <2>1 DEF ToSet
  <2>3. value[x] = k - 1 /\ k \in Nat
    BY <2>2 DEF Numbering
  <2>4. value[x] + 1 = k
    BY <2>3
  <2> QED BY <2>2, <2>4
<1>5. Caching(p, value)
  BY DEF Sound, Caching
<1>6. Selection(p, value)
  <2>1. ASSUME Remembered(p, index) PROVE Remembered(p, value)
    <3> DEFINE x == p.startRow
               y == p.endRow
    <3>1. /\ x \in Rows(p.dom) /\ y \in Rows(p.dom) /\ index[x] <= index[y]
          /\ index[x] \in Nat /\ index[y] \in Nat /\ value[x] \in Nat /\ value[y] \in Nat
      BY <1>2, <2>1 DEF Remembered
    <3>2. x \in ToSet(rows) /\ y \in ToSet(rows)
      BY <3>1
    <3>3. CASE index[x] = index[y]
      <4> DEFINE i == index[x]
                 j == index[y]
                 u == value[x]
                 v == value[y]
      <4>2. /\ i = j /\ i \in Nat /\ m \in Nat
            /\ (i < m => u = i) /\ (i >= m => u = i + 1)
            /\ (j < m => v = j) /\ (j >= m => v = j + 1)
        BY <1>1, <3>1, <3>2, <3>3
      <4> HIDE DEF i, j, u, v
      <4>3. u = v
        BY ONLY <4>2
      <4>1. value[x] = value[y]
        BY <4>3 DEF u, v
      <4> QED BY <2>1, <3>1, <4>1 DEF Remembered
    <3>4. CASE index[x] < index[y]
      <4>1. value[x] < value[y]
        BY <1>0, <3>1, <3>4
      <4> QED BY <2>1, <3>1, <4>1 DEF Remembered
    <3> QED BY <3>1, <3>3, <3>4
  <2> QED BY <2>1 DEF Sound, Selection
<1> QED BY <1>3, <1>4, <1>5, <1>6 DEF Sound

\* A log inserts a row within the screen and the first one scrolls off.
LEMMA InsertRowKeeps ==
  ASSUME Inv, AtRest, InsertRow, CacheTrue(rowIndex')
  PROVE  Inv'
<1> DEFINE s == ScreenRows(term)
           a == term.scrollback
           c == term.cursor
           e == Fresh(1)[1]
           b == Append(a, Head(s))
           r == InsertAt(Tail(s), c + 1, e)
           n == Len(a) + 1
           rows == AllRows(term)
           left == AllRows(term')
           win == port.window
<1>1. /\ c < term.height - 1 /\ FreeRows # {}
      /\ term' = [term EXCEPT !.scrollback = b, !.screens[term.current] = r]
      /\ rowIndex' = Numbered(rowIndex, r, n)
      /\ scrollDown' = IF port.isScrolledEnd THEN ScrollDownAfter(WithCursor) ELSE scrollDown
      /\ timers' = WithCursor
      /\ UNCHANGED <<port, resizing, cursorAt>>
  BY DEF InsertRow
<1>2. Rested /\ Numbers(term, rowIndex) /\ Placed(term, rowIndex)
  BY RestFacts, PlacesOfRows DEF Inv, Whole
<1>3. /\ term \in Terms /\ Terminal(term) /\ term.height \in Nat \ {0} /\ Len(s) = term.height
      /\ c \in 0 .. term.height - 1 /\ c \in Int /\ term.height \in Int
      /\ rowIndex \in [Ids -> Nat]
  BY <1>2 DEF Numbers, Terminal, Terms
<1>4. /\ s \in Seq(Ids) /\ a \in Seq(Ids) /\ Injective(s) /\ Injective(a) /\ Injective(Hidden(term))
      /\ \A x \in ToSet(a) : x \notin ToSet(s) /\ x \notin ToSet(Hidden(term))
      /\ \A x \in ToSet(s) : x \notin ToSet(Hidden(term))
      /\ \A i \in 1 .. Len(a) : rowIndex[a[i]] = i - 1
      /\ Chained(Ids, a, s, rows)
  BY <1>2 DEF Placed
<1>5. e \in FreeRows /\ e \in Ids
  <2> DEFINE new == Fresh(1)
  <2>1. new \in Seq(Ids) /\ Len(new) = 1 /\ ToSet(new) \subseteq FreeRows
    BY <1>1, RowFree, FreshFacts
  <2> HIDE DEF new
  <2>2. 1 \in DOMAIN new
    BY <2>1
  <2>3. new[1] \in ToSet(new) /\ new[1] \in Ids
    BY <2>1, <2>2 DEF ToSet
  <2> QED BY <2>1, <2>3 DEF new
<1>6. e \notin ToSet(rows) /\ e \notin ToSet(Hidden(term)) /\ e \notin ToSet(port.dom)
  BY <1>3, <1>5, FreeUnused
<1> HIDE DEF e
<1>7. e \notin ToSet(a) /\ e \notin ToSet(s)
  BY <1>4, <1>6 DEF Chained
<1>8. c \in Nat /\ c < Len(s) /\ Len(s) > 0 /\ Len(a) \in Nat
  BY <1>1, <1>3, <1>4
<1> HIDE DEF c, s, a
<1>9. Opened(a, s, c, e, b, r)
  BY <1>4, <1>5, <1>7, <1>8, RowOpened
<1> HIDE DEF b, r
<1>10. /\ b \in Seq(Ids) /\ Len(b) = n /\ Injective(b)
       /\ r \in Seq(Ids) /\ Len(r) = Len(s) /\ Injective(r)
       /\ \A x : x \in ToSet(b) <=> x \in ToSet(a) \/ x = s[1]
       /\ \A x : x \in ToSet(r) <=> x = e \/ (x \in ToSet(s) /\ x # s[1])
       /\ \A x \in ToSet(b) : x \notin ToSet(r)
       /\ \A i \in 1 .. Len(a) : b[i] = a[i]
       /\ b[Len(a) + 1] = s[1]
  BY <1>9 DEF Opened
<1>11. Replaced(term, term', b, r) /\ term'.height = term.height /\ term'.cursor = c
  <2>1. term' = Renewed(term, term.height, b, r, term.cursor)
    BY <1>1, <1>3 DEF Renewed, Terms
  <2> QED BY <1>3, <1>10, <2>1, ScreenReplaced DEF c
<1>12. left = b \o r /\ ScreenRows(term') = r /\ Hidden(term') = Hidden(term) /\ term' \in Terms
  BY <1>11 DEF Replaced
<1>13. Chained(Ids, b, r, left)
  BY <1>10, <1>12, ConcatFacts
<1> HIDE DEF left, rows
<1>14. Terminal(term')
  <2>1. Injective(left)
    BY <1>10, <1>13 DEF Chained
  <2>2. \A x \in ToSet(left) : x \notin ToSet(Hidden(term))
    <3>1. s[1] \in ToSet(s)
      <4>1. 1 \in DOMAIN s
        BY <1>4, <1>8
      <4> QED BY <4>1 DEF ToSet
    <3>2. \A x : x \in ToSet(left) => x \in ToSet(b) \/ x \in ToSet(r)
      BY <1>13 DEF Chained
    <3> QED BY <1>4, <1>6, <1>10, <3>1, <3>2
  <2>3. ToSet(left) \cap ToSet(Hidden(term)) = {}
    BY <2>2
  <2>4. Distinct(term')
    BY <1>4, <1>12, <2>1, <2>3 DEF Distinct, left
  <2> QED BY <1>3, <1>10, <1>11, <1>12, <2>4 DEF Terminal
<1>15. rowIndex' \in [Ids -> Nat] /\ Numbering(left, rowIndex')
  <2>1. n = Len(b)
    BY <1>10
  <2>2. \A i \in 1 .. n : rowIndex[b[i]] = i - 1
    <3> DEFINE l == Len(a)
    <3>1. l \in Nat /\ n = l + 1
      BY <1>8
    <3>2. rowIndex[s[1]] = l
      <4>1. Len(rows) = l + Len(s) /\ rows \in Seq(Ids)
        BY <1>4 DEF Chained
      <4>2. 1 \in 1 .. Len(s)
        BY <1>4, <1>8
      <4>3. rows[l + 1] = s[1]
        BY <1>4, <4>2 DEF Chained
      <4>4. l + 1 \in DOMAIN rows /\ (l + 1) - 1 = l
        BY <1>4, <1>8, <4>1
      <4>5. Numbering(rows, rowIndex)
        BY <1>2 DEF Numbers, rows
      <4> QED BY <4>3, <4>4, <4>5 DEF Numbering
    <3>3. (\A i \in 1 .. l : b[i] = a[i]) /\ b[l + 1] = s[1] /\ \A i \in 1 .. l : rowIndex[a[i]] = i - 1
      BY <1>4, <1>10
    <3> HIDE DEF l, n
    <3> QED BY <3>1, <3>2, <3>3
  <2> HIDE DEF n
  <2>3. b \in Seq(Ids) /\ r \in Seq(Ids) /\ Injective(r) /\ Apart(b, r) /\ rowIndex \in [Ids -> Nat]
    BY <1>3, <1>10 DEF Apart
  <2>4. Numbering(b, rowIndex)
    <3>1. DOMAIN b = 1 .. n
      BY <2>1, <2>3
    <3> QED BY <2>2, <3>1 DEF Numbering
  <2>5. rowIndex' = Numbered(rowIndex, r, n)
    BY <1>1
  <2>6. NumberedBehind(b, r, rowIndex, rowIndex')
    BY ONLY <2>1, <2>3, <2>4, <2>5, JoinedNumbered
  <2> QED BY <1>12, <2>6 DEF NumberedBehind
<1>16. Numbers(term', rowIndex')
  BY <1>14, <1>15 DEF Numbers, left
<1>17. /\ rows \in Seq(Ids) /\ left \in Seq(Ids) /\ Numbering(rows, rowIndex)
       /\ Len(rows) = RowCount(term) /\ Len(left) = RowCount(term') /\ RowCount(term) \in Nat
  <2>1. Len(rows) = RowCount(term) /\ Len(left) = RowCount(term')
    BY DEF RowCount, rows, left
  <2> QED BY <1>2, <1>4, <1>13, <2>1, PortFacts DEF Chained, Numbers, rows
<1> DEFINE m == Len(a) + c + 1
<1>18. m \in Nat
  BY <1>8
<1>19. Shifted(rows, left, m, rowIndex, rowIndex')
  BY <1>4, <1>8, <1>9, <1>13, <1>15, <1>17, <1>18, RowsShifted
<1> HIDE DEF m, n
<1>20. /\ ~port.scrolled /\ ~resizing /\ port.visibleRowCount = win /\ term.height = win
       /\ scrollDown = 0 /\ port.isScrolledEnd /\ port.lastRowCount = RowCount(term)
       /\ port.scrollTop + port.visibleRowCount = RowCount(term) /\ timers = << >>
       /\ Sound(port, rows, rowIndex) /\ Dropless(term, port)
  BY <1>2 DEF Rested, rows
<1>21. RowCount(term') = RowCount(term) + 1
  BY <1>17, <1>19 DEF Shifted
<1>22. Sound(port, left, rowIndex')
  <2>2. \A i \in DOMAIN port.cache : rowIndex'[port.cache[i]] = i
    BY DEF CacheTrue
  <2>3. \A x \in Rows(port.dom) : x \in ToSet(rows)
    BY <1>20 DEF Dropless, rows
  <2> QED BY <1>3, <1>15, <1>17, <1>18, <1>19, <1>20, <2>2, <2>3, SoundShifted
<1>23. /\ timers' \in Seq(TimerNames) /\ "syncCursor" \in ToSet(timers') /\ Len(timers') \in Nat
       /\ \A x \in ToSet(timers') : x = "syncCursor"
  <2>1. timers \in Seq(TimerNames) /\ \A x : x \notin ToSet(timers)
    BY <1>20 DEF Inv, Whole, ToSet
  <2>2. Adds(timers, WithCursor, "syncCursor")
    BY <2>1, TimerScheduled, NamesOfTimers DEF WithCursor
  <2> QED BY <1>1, <2>1, <2>2 DEF Adds
<1>24. scrollDown' \in Nat /\ scrollDown' > 0
  <2>1. ScrollDownAfter(WithCursor) = Len(timers') + 1
    BY <1>1, <1>20 DEF ScrollDownAfter
  <2>2. scrollDown' = Len(timers') + 1
    BY <1>1, <1>20, <2>1
  <2> QED BY <1>23, <2>2
<1>25. Ordered(term', rowIndex', port', timers')
  <2>1. Viewed(port.dom)
    BY <1>20 DEF Inv, Whole, Ordered, ToSet
  <2> QED BY <1>1, <1>22, <2>1 DEF Ordered, left
<1>26. Geometry(term', port', timers', resizing')
  <2>1. Geometry(term, port, timers, resizing)
    BY DEF Inv, Whole
  <2>2. RowCount(term) <= RowCount(term')
    BY <1>17, <1>21
  <2>3. port' = port /\ term'.height = win
    BY <1>1, <1>11, <1>20
  <2> QED BY <1>20, <1>23, <2>1, <2>2, <2>3 DEF Geometry
<1>27. ViewDue(term', port', timers', scrollDown', resizing')
  <2>1. port.scrollTop + port.visibleRowCount < RowCount(term')
    BY <1>17, <1>20, <1>21
  <2> QED BY <1>1, <1>24, <2>1 DEF ViewDue
<1>28. EndDue(port', timers', resizing')
  <2>1. RowCount(term) >= RowCount(term)
    BY <1>17
  <2> QED BY <1>1, <1>20, <2>1 DEF EndDue
<1>29. FollowDue(term', port', timers', scrollDown', resizing')
  BY <1>24 DEF FollowDue
<1>30. CursorDue(term', port', timers', resizing', cursorAt')
  BY <1>23 DEF CursorDue
<1>31. resizing' \in BOOLEAN /\ "invalidate" \notin ToSet(timers')
  BY <1>1, <1>23 DEF Inv, Whole
<1> QED BY <1>16, <1>23, <1>24, <1>25, <1>26, <1>27, <1>28, <1>29, <1>30, <1>31 DEF Inv, Whole

\* u is t with its other screen shown.
Swapped(t, u) ==
  /\ u \in Terms /\ u.scrollback = t.scrollback /\ u.height = t.height
  /\ ScreenRows(u) = Hidden(t) /\ Hidden(u) = ScreenRows(t)
  /\ AllRows(u) = t.scrollback \o Hidden(t)

\* Only the screen that is shown changes (setAlternateMode).
LEMMA ScreensSwapped ==
  ASSUME NEW t \in Terms
  PROVE  Swapped(t, [t EXCEPT !.current = Other(t.current)])
<1> DEFINE u == [t EXCEPT !.current = Other(t.current)]
<1>1. Other(t.current) \in Names /\ Other(Other(t.current)) = t.current
  BY DEF Terms, Names, Other
<1>2. u \in Terms
  BY <1>1 DEF Terms
<1>3. u.scrollback = t.scrollback /\ u.height = t.height /\ u.screens = t.screens /\ u.current = Other(t.current)
  BY DEF Terms
<1> HIDE DEF u
<1>4. ScreenRows(u) = Hidden(t) /\ Hidden(u) = ScreenRows(t)
  BY <1>1, <1>3 DEF ScreenRows, Hidden
<1>5. AllRows(u) = t.scrollback \o Hidden(t)
  BY <1>3, <1>4 DEF AllRows
<1> QED BY <1>2, <1>3, <1>4, <1>5 DEF Swapped, u

\* The scroll position nearest to the end of the scrollback shows all rows
\* behind it.
LEMMA EndWithin ==
  ASSUME NEW top, NEW asked \in Nat, NEW count \in Nat, NEW win \in Nat,
         win <= count, asked <= count, Within(top, asked, count - win)
  PROVE  top \in Nat /\ top + win <= count /\ asked <= top + win
<1> DEFINE room == count - win
<1>1. room \in Nat /\ room + win = count
  OBVIOUS
<1>2. /\ top \in Nat
      /\ top = 0 \/ top <= room
      /\ asked >= 0 /\ asked <= room => top = asked
      /\ room >= 0 /\ room <= asked => top = room
  BY DEF Within
<1> HIDE DEF room
<1>3. CASE asked <= room
  BY <1>1, <1>2, <1>3
<1>4. CASE room <= asked
  BY <1>1, <1>2, <1>4
<1> QED BY <1>1, <1>3, <1>4

\* The other screen is shown, with rows taken back or added when it has too
\* few: the view is drawn anew and the page takes its size over again.
LEMMA SetAlternateModeKeeps ==
  ASSUME Inv, AtRest, port.collapsed, NEW empty, SetAlternateMode(empty)
  PROVE  Inv'
<1> DEFINE swapped == [term EXCEPT !.current = Other(term.current)]
           a == term.scrollback
           offset == Len(a)
           height == term.height
           shown == Numbered(rowIndex, ScreenRows(swapped), offset)
           u == Realized(swapped, height, empty)
           t == [u EXCEPT !.cursor = term.cursor]
           index == RealizedIndex(swapped, height, shown)
           synced == syncScrollHeight(port, AllRows(t))
           drawn == invalidate(synced, AllRows(t), index)
           left == AllRows(t)
           win == port.window
<1>1. /\ empty \in EmptyRows(swapped, height)
      /\ Cardinality(FreeRows) >= NewRows(swapped, height)
      /\ term' = t
      /\ rowIndex' = index
      /\ port' = Resized(drawn, AllRows(t))
      /\ timers' = Append(WithCursor, "onResize")
      /\ UNCHANGED <<scrollDown, resizing, cursorAt>>
  BY DEF SetAlternateMode, Other
<1>2. Rested /\ Numbers(term, rowIndex) /\ Placed(term, rowIndex)
  BY RestFacts, PlacesOfRows DEF Inv, Whole
<1>3. /\ term \in Terms /\ height \in Nat \ {0} /\ term.cursor \in 0 .. height - 1
      /\ term.cursor \in Int /\ rowIndex \in [Ids -> Nat]
  BY <1>2 DEF Numbers, Terminal, Terms
<1>4. Swapped(term, swapped)
  BY <1>3, ScreensSwapped
<1> HIDE DEF swapped
<1>5. /\ swapped \in Terms /\ swapped.height = height /\ swapped.scrollback = a
      /\ ScreenRows(swapped) = Hidden(term) /\ Hidden(swapped) = ScreenRows(term)
      /\ AllRows(swapped) = a \o Hidden(term)
  BY <1>4 DEF Swapped
<1>6. /\ a \in Seq(Ids) /\ ScreenRows(term) \in Seq(Ids) /\ Hidden(term) \in Seq(Ids)
      /\ Injective(a) /\ Injective(ScreenRows(term)) /\ Injective(Hidden(term))
      /\ \A x \in ToSet(a) : x \notin ToSet(ScreenRows(term)) /\ x \notin ToSet(Hidden(term))
      /\ \A x \in ToSet(ScreenRows(term)) : x \notin ToSet(Hidden(term))
      /\ \A i \in 1 .. offset : rowIndex[a[i]] = i - 1
      /\ \A x \in ToSet(AllRows(term)) : rowIndex[x] < offset =>
           \E i \in 1 .. offset : a[i] = x /\ rowIndex[x] = i - 1
  BY <1>2 DEF Placed
<1>7. offset \in Nat /\ offset = Len(a)
  BY <1>6
<1> HIDE DEF offset
<1>8. Chained(Ids, a, Hidden(term), AllRows(swapped))
  BY <1>5, <1>6, ConcatFacts
<1>9. Distinct(swapped)
  <2>1. Injective(AllRows(swapped))
    BY <1>6, <1>8 DEF Chained
  <2>2. \A x \in ToSet(AllRows(swapped)) : x \notin ToSet(ScreenRows(term))
    BY <1>6, <1>8 DEF Chained
  <2>3. ToSet(AllRows(swapped)) \cap ToSet(ScreenRows(term)) = {}
    BY <2>2
  <2> QED BY <1>5, <1>6, <2>1, <2>3 DEF Distinct
<1>10. /\ shown \in [Ids -> Nat] /\ Numbering(AllRows(swapped), shown)
       /\ \A x \in Ids : x \notin ToSet(Hidden(term)) => shown[x] = rowIndex[x]
  <2> DEFINE r == Hidden(term)
  <2>1. r \in Seq(Ids) /\ Injective(r) /\ Apart(a, r)
    BY <1>6 DEF Apart
  <2>2. a \in Seq(Ids) /\ rowIndex \in [Ids -> Nat] /\ Numbering(a, rowIndex)
    <3>1. DOMAIN a = 1 .. offset
      BY <1>6, <1>7
    <3> QED BY <1>3, <1>6, <3>1 DEF Numbering
  <2>3. shown = Numbered(rowIndex, r, offset) /\ AllRows(swapped) = a \o r
    BY <1>5
  <2> HIDE DEF a, shown, r
  <2>4. NumberedBehind(a, r, rowIndex, shown)
    BY ONLY <1>7, <2>1, <2>2, <2>3, JoinedNumbered
  <2> QED BY <2>3, <2>4 DEF r, NumberedBehind
<1> HIDE DEF shown, a
<1>11. NewRows(swapped, height) <= Cardinality(FreeRows)
  BY <1>1, <1>3, <1>5, RowsEnough
<1>12. /\ Realization(swapped, u, height)
       /\ NewRows(swapped, height) \in Nat
       /\ NewRows(swapped, height) = 0 => Leading(swapped, u)
       /\ NewRows(swapped, height) > 0 => Lengthened(swapped, u, Fresh(NewRows(swapped, height)))
  <2>1. Len(ScreenRows(swapped)) = height => swapped.height = height
    BY <1>5
  <2> HIDE DEF height
  <2> QED BY <1>1, <1>3, <1>5, <1>11, <2>1, HeightRealized
<1> HIDE DEF u
<1>13. u \in Terms /\ u.height = height /\ Hidden(u) = ScreenRows(term)
       /\ Len(ScreenRows(u)) = height /\ Len(swapped.scrollback) <= RowCount(u)
  BY <1>5, <1>12 DEF Realization
<1>14. \A x \in FreeRows : x \notin ToSet(AllRows(term)) /\ x \notin ToSet(Hidden(term))
  BY <1>3, FreeUnused
<1>15. Chained(Ids, a, ScreenRows(term), AllRows(term))
  BY <1>2 DEF Placed, a
<1>16. Renumbered(u, shown, index)
  <2>1. \A x \in FreeRows : x \notin ToSet(AllRows(swapped)) /\ x \notin ToSet(Hidden(swapped))
    BY <1>5, <1>8, <1>14, <1>15 DEF Chained
  <2>2. Hidden(u) = Hidden(swapped)
    BY <1>5, <1>13
  <2> HIDE DEF height
  <2> QED BY <1>5, <1>9, <1>10, <1>11, <1>12, <1>13, <2>1, <2>2, RealizedNumbers
<1> HIDE DEF index
<1>17. /\ Distinct(u) /\ index \in [Ids -> Nat] /\ Numbering(AllRows(u), index)
       /\ \A x \in Ids : x \notin FreeRows => index[x] = shown[x]
  BY <1>16 DEF Renumbered
<1>18. SameRows(u, t) /\ t.cursor = term.cursor
  BY <1>3, <1>13, CursorSet
<1> HIDE DEF t
<1>19. /\ t \in Terms /\ t.height = height /\ ScreenRows(t) = ScreenRows(u) /\ Hidden(t) = Hidden(u)
       /\ left = AllRows(u)
  BY <1>13, <1>18 DEF SameRows
<1>20. Numbers(t, index)
  <2>1. Terminal(t)
    BY <1>3, <1>13, <1>17, <1>18, <1>19 DEF Terminal, Distinct
  <2> QED BY <1>17, <1>19, <2>1 DEF Numbers
<1>22. left \in Seq(Ids) /\ Len(left) = RowCount(t) /\ RowCount(t) = RowCount(u)
       /\ Len(left) \in Nat /\ offset <= Len(left) /\ height <= Len(left)
  <2>1. RowCount(u) = Len(u.scrollback) + Len(ScreenRows(u)) /\ u.scrollback \in Seq(Ids)
        /\ AllRows(u) \in Seq(Ids)
    BY <1>13, RowsOfTerminal
  <2>2. Len(u.scrollback) \in Nat /\ RowCount(u) = Len(u.scrollback) + height
    BY <1>13, <2>1
  <2>3. height <= RowCount(u)
    <3> DEFINE k == Len(u.scrollback)
    <3>1. k \in Nat /\ RowCount(u) = k + height /\ height \in Nat
      BY <1>3, <2>2
    <3> HIDE DEF k, height
    <3> QED BY <3>1
  <2>4. offset <= RowCount(u)
    BY <1>5, <1>7, <1>13
  <2> QED BY <1>19, <2>1, <2>3, <2>4 DEF RowCount
<1>23. ASSUME NEW i \in 1 .. offset PROVE left[i] = a[i]
  <2>1. AllRows(swapped)[i] = a[i] /\ i \in 1 .. Len(AllRows(swapped))
    <3>1. i \in 1 .. Len(a) /\ Len(AllRows(swapped)) = Len(a) + Len(Hidden(term)) /\ Len(Hidden(term)) \in Nat
      BY <1>6, <1>7, <1>8 DEF Chained
    <3> QED BY <1>7, <1>8, <3>1 DEF Chained
  <2>2. CASE NewRows(swapped, height) = 0
    <3>1. i \in 1 .. RowCount(u)
      BY <1>7, <1>19, <1>22
    <3> QED BY <1>12, <1>19, <2>1, <2>2, <3>1 DEF Leading
  <2>3. CASE NewRows(swapped, height) > 0
    <3> DEFINE new == Fresh(NewRows(swapped, height))
    <3>1. new \in Seq(Ids)
      <4> HIDE DEF height
      <4> QED BY <1>11, <1>12, FreshFacts
    <3>2. AllRows(swapped) \in Seq(Ids)
      BY <1>8 DEF Chained
    <3>3. left = AllRows(swapped) \o new
      BY <1>12, <1>19, <2>3 DEF Lengthened
    <3> HIDE DEF new, left
    <3>4. Chained(Ids, AllRows(swapped), new, left)
      BY <3>1, <3>2, <3>3, ConcatFacts
    <3> QED BY <2>1, <3>4 DEF Chained
  <2> QED BY <1>12, <2>2, <2>3
<1> HIDE DEF left
<1>24. /\ ~port.scrolled /\ ~resizing /\ port.visibleRowCount = win /\ height = win
       /\ scrollDown = 0 /\ port.isScrolledEnd /\ timers = << >>
       /\ Moving(term, port, rowIndex) /\ port.scrollTop = offset
  BY <1>2 DEF Rested, offset, a
<1>25. port \in Ports /\ win \in Nat \ {0} /\ port.visibleRowCount \in Nat \ {0}
  BY PortFacts
<1>26. Scrolls(port, synced, port.scrollTop) /\ synced.lastRowCount = Len(left)
  BY <1>22, <1>25, HeightSynced DEF left
<1>27. /\ synced \in Ports /\ SameDrawing(port, synced)
       /\ Within(synced.scrollTop, offset, Len(left) - win)
  BY <1>24, <1>26 DEF Scrolls, SameDrawing
<1>28. synced.scrollTop \in Nat /\ synced.scrollTop + win <= Len(left) /\ offset <= synced.scrollTop + win
  BY <1>7, <1>22, <1>24, <1>25, <1>27, EndWithin
<1> DEFINE p == synced
<1>29. p = synced /\ SameDocument(port, p) /\ p.visibleRowCount = win /\ p.window = win
  BY <1>24, <1>27 DEF SameDrawing, SameDocument
<1> HIDE DEF synced, p
<1>30. ASSUME NEW x \in Rows(port.dom), Prec(port.dom, x, TopFold)
       PROVE  /\ index[x] = rowIndex[x] /\ left[rowIndex[x] + 1] = x
              /\ rowIndex[x] < p.scrollTop + p.visibleRowCount
  <2>1. x \in ToSet(AllRows(term)) /\ rowIndex[x] < offset
    BY <1>24, <1>30 DEF Moving, Dropless
  <2>2. PICK i \in 1 .. offset : a[i] = x /\ rowIndex[x] = i - 1
    BY <1>6, <2>1
  <2>3. x \in ToSet(a) /\ x \in Ids
    BY <1>6, <1>7, <2>2 DEF ToSet
  <2>4. x \notin FreeRows /\ x \notin ToSet(Hidden(term))
    BY <1>6, <1>14, <2>1, <2>3
  <2>5. index[x] = rowIndex[x]
    BY <1>10, <1>17, <2>3, <2>4
  <2>6. rowIndex[x] + 1 = i
    BY <1>7, <2>2
  <2>7. rowIndex[x] < p.scrollTop + p.visibleRowCount
    <3> DEFINE k == rowIndex[x]
               end == p.scrollTop + p.visibleRowCount
    <3>1. end = p.scrollTop + win /\ p.scrollTop \in Nat /\ win \in Nat /\ offset <= p.scrollTop + win
      BY <1>25, <1>28, <1>29
    <3>2. k \in Nat /\ k < offset
      BY <1>3, <2>1, <2>3
    <3>3. end \in Nat /\ offset <= end
      BY <3>1
    <3> HIDE DEF k, end
    <3>4. k < end
      BY ONLY <3>2, <3>3, <1>7
    <3> QED BY <3>4 DEF k, end
  <2> QED BY <1>23, <2>2, <2>5, <2>6, <2>7
<1>31. Refillable(p, left, index) /\ RowsOfView(p, left) = p.visibleRowCount
  <2>1. /\ p.scrollTop \in Nat /\ p.visibleRowCount \in Nat \ {0}
        /\ p.scrollTop + p.visibleRowCount <= Len(left)
    BY <1>25, <1>28, <1>29
  <2>2. AboveStays(port, p, rowIndex, left, index)
    BY <1>30 DEF AboveStays
  <2>3. left \in Seq(Ids) /\ Moving(term, port, rowIndex) /\ SameDocument(port, p)
    BY <1>22, <1>24, <1>29
  <2> QED BY ONLY <2>1, <2>2, <2>3, MovingRefills
<1>32. Invalidated(p, drawn, left, index)
  <2>1. drawn = invalidate(p, left, index)
    BY <1>29 DEF left
  <2>2. Numbering(left, index) /\ index \in [Ids -> Nat]
    BY <1>17, <1>19
  <2>3. Len(left) > 0
    BY <1>3, <1>22
  <2> QED BY <1>22, <1>31, <2>1, <2>2, <2>3, InvalidateDraws
<1>33. Sound(drawn, left, index) /\ Viewed(drawn.dom)
  <2>1. p.scrollTop \in Nat /\ p.visibleRowCount \in Nat \ {0} /\ p.window \in Nat \ {0}
    BY <1>25, <1>28, <1>29
  <2> QED BY <1>32, <2>1, InvalidatedSound
<1> HIDE DEF drawn
<1>34. Sized(drawn, port', Len(left)) /\ drawn.window = win /\ drawn \in Ports
  <2>1. drawn \in Ports /\ drawn.window = win
    BY <1>29, <1>32 DEF Invalidated
  <2>2. port' = Resized(drawn, left)
    BY <1>1 DEF left
  <2> QED BY <1>22, <2>1, <2>2, SizeTaken
<1>35. /\ SameDocument(drawn, port') /\ port'.window = win /\ port'.visibleRowCount = win
       /\ port'.lastRowCount = Len(left)
       /\ Within(port'.scrollTop, drawn.scrollTop, Len(left) - win)
  BY <1>34 DEF Sized
<1>36. port'.scrollTop \in Nat /\ (port'.scrollTop = 0 \/ port'.scrollTop + win <= Len(left))
  <2> DEFINE top == port'.scrollTop
  <2>1. top \in Nat /\ (top = 0 \/ top <= Len(left) - win)
    BY <1>35 DEF Within
  <2> HIDE DEF top
  <2>2. top \in Nat /\ (top = 0 \/ top + win <= Len(left))
    BY <1>22, <1>25, <2>1
  <2> QED BY <2>2 DEF top
<1>37. Sound(port', left, index)
  BY <1>25, <1>33, <1>35, <1>36, SoundCarried
<1>38. Viewed(port'.dom)
  BY <1>33, <1>35 DEF SameDocument
<1>39. term' = t /\ rowIndex' = index /\ AllRows(term') = left
  BY <1>1 DEF left
<1>40. /\ timers' \in Seq(TimerNames) /\ "syncCursor" \in ToSet(timers') /\ "onResize" \in ToSet(timers')
       /\ "invalidate" \notin ToSet(timers')
  <2>1. timers \in Seq(TimerNames) /\ \A x : x \notin ToSet(timers)
    BY <1>24 DEF Inv, Whole, ToSet
  <2>2. Adds(timers, WithCursor, "syncCursor")
    BY <2>1, TimerScheduled, NamesOfTimers DEF WithCursor
  <2>3. Adds(WithCursor, Append(WithCursor, "onResize"), "onResize")
    BY <2>2, TimerAdded, NamesOfTimers DEF Adds
  <2> QED BY <1>1, <2>1, <2>2, <2>3 DEF Adds
<1>41. Numbers(term', rowIndex')
  BY <1>20, <1>39
<1>42. Ordered(term', rowIndex', port', timers')
  BY <1>37, <1>38, <1>39 DEF Ordered
<1>43. RowCount(term') = Len(left)
  BY <1>39 DEF RowCount
<1>44. Geometry(term', port', timers', resizing')
  <2>1. Len(left) <= Len(left)
    BY <1>22
  <2>2. term'.height = win
    BY <1>19, <1>24, <1>39
  <2>3. port'.lastRowCount <= RowCount(term') /\ port'.lastRowCount \in Nat
    BY <1>22, <1>35, <1>43, <2>1
  <2>4. port'.scrollTop = 0 \/ port'.scrollTop + port'.window <= port'.lastRowCount
    BY <1>35, <1>36
  <2> QED BY <1>35, <2>2, <2>3, <2>4 DEF Geometry
<1>45. ViewDue(term', port', timers', scrollDown', resizing')
  BY <1>40 DEF ViewDue, SizeDue
<1>46. EndDue(port', timers', resizing')
  BY <1>40 DEF EndDue, SizeDue
<1>47. FollowDue(term', port', timers', scrollDown', resizing')
  BY <1>40 DEF FollowDue, SizeDue
<1>48. CursorDue(term', port', timers', resizing', cursorAt')
  BY <1>40 DEF CursorDue
<1>49. scrollDown' \in Nat /\ resizing' \in BOOLEAN
  BY <1>1 DEF Inv, Whole
<1> QED BY <1>40, <1>41, <1>42, <1>44, <1>45, <1>46, <1>47, <1>48, <1>49 DEF Inv, Whole

----------------------------------------------------------------------------
\* The page when it is loaded.

\* A document without rows.
LEMMA FoldsOnly ==
  LET dom == <<TopFold, BottomFold>>
  IN  dom \in Seq(Node) /\ Document(dom) /\ Rows(dom) = {}
<1> DEFINE dom == <<TopFold, BottomFold>>
<1>1. /\ dom \in Seq({TopFold, BottomFold}) /\ DOMAIN dom = 1 .. 2
      /\ dom[1] = TopFold /\ dom[2] = BottomFold
  OBVIOUS
<1>2. dom \in Seq(Node)
  BY DEF Node
<1>3. TopFold # BottomFold
  BY Nodes
<1> HIDE DEF dom
<1>4. \A i \in 1 .. 2 : i = 1 \/ i = 2
  OBVIOUS
<1>5. Injective(dom)
  BY <1>1, <1>3, <1>4 DEF Injective
<1>6. ToSet(dom) = {TopFold, BottomFold}
  <2>1. 1 \in 1 .. 2 /\ 2 \in 1 .. 2
    OBVIOUS
  <2> QED BY <1>1, <1>4, <2>1 DEF ToSet
<1>7. Prec(dom, TopFold, BottomFold)
  <2>1. 1 \in DOMAIN dom /\ 2 \in DOMAIN dom /\ 1 < 2
    BY <1>1
  <2> QED BY <1>1, <2>1 DEF Prec
<1> QED BY <1>2, <1>5, <1>6, <1>7 DEF Document, Rows, dom

\* The screens by their names.
LEMMA ScreensRecord ==
  ASSUME NEW S, NEW a \in S, NEW b \in S
  PROVE  [primary |-> a, alternate |-> b] \in [Names -> S]
  BY DEF Names

\* The invariant holds when the page is loaded.
LEMMA InitKeeps ==
  ASSUME Init
  PROVE  Inv
<1>1. PICK height \in Heights :
        /\ term = [scrollback |-> << >>,
                   screens |-> [primary |-> [i \in 1 .. height |-> i], alternate |-> << >>],
                   current |-> "primary", height |-> height, cursor |-> 0]
        /\ rowIndex = [row \in Ids |-> IF row <= height THEN row - 1 ELSE 0]
        /\ port = NewPort([i \in 1 .. height |-> i], height)
  BY DEF Init
<1>2. /\ timers = <<"syncCursor", "redraw">> /\ scrollDown = 0 /\ resizing = FALSE
  BY DEF Init
<1> DEFINE rows == [i \in 1 .. height |-> i]
<1>3. height \in Nat \ {0} /\ height <= MaxRows /\ MaxRows \in Nat
  BY HeightsAssumption
<1>4. rows \in Seq(Ids) /\ Len(rows) = height /\ (\A i \in 1 .. height : rows[i] = i) /\ DOMAIN rows = 1 .. height
  BY <1>3 DEF Ids
<1> HIDE DEF rows
<1>5. /\ term.scrollback = << >> /\ term.screens.primary = rows /\ term.screens.alternate = << >>
      /\ term.current = "primary" /\ term.height = height /\ term.cursor = 0
  BY <1>1 DEF rows
<1>6. << >> \in Seq(Ids)
  OBVIOUS
<1>7. term \in Terms
  <2> DEFINE screens == [primary |-> rows, alternate |-> << >>]
  <2>1. screens \in [Names -> Seq(Ids)]
    BY <1>4, <1>6, ScreensRecord
  <2>2. term = [scrollback |-> << >>, screens |-> screens, current |-> "primary", height |-> height,
                cursor |-> 0]
    BY <1>1 DEF rows
  <2> HIDE DEF screens
  <2> QED BY <1>3, <1>6, <2>1, <2>2 DEF Terms, Names
<1>8. ScreenRows(term) = rows /\ Hidden(term) = << >>
  BY <1>5 DEF ScreenRows, Hidden, Other
<1>9. AllRows(term) = rows
  <2>1. << >> \o rows = rows
    BY <1>4
  <2> QED BY <1>5, <1>8, <2>1 DEF AllRows
<1>10. rowIndex \in [Ids -> Nat] /\ Numbering(rows, rowIndex)
  <2>1. \A row \in Ids : (IF row <= height THEN row - 1 ELSE 0) \in Nat
    BY DEF Ids
  <2>2. rowIndex \in [Ids -> Nat]
    BY <1>1, <2>1
  <2>3. ASSUME NEW i \in 1 .. height PROVE rowIndex[rows[i]] = i - 1
    <3>1. i \in Ids /\ rows[i] = i /\ i <= height
      BY <1>3, <1>4 DEF Ids
    <3> QED BY <1>1, <3>1
  <2> QED BY <1>4, <2>2, <2>3 DEF Numbering
<1>11. Terminal(term)
  <2>1. Injective(rows)
    BY <1>4 DEF Injective
  <2>2. Injective(<< >>) /\ ToSet(<< >>) = {}
    BY DEF Injective, ToSet
  <2>3. Distinct(term)
    BY <1>8, <1>9, <2>1, <2>2 DEF Distinct
  <2>4. 0 \in 0 .. height - 1
    BY <1>3
  <2> QED BY <1>3, <1>4, <1>5, <1>7, <1>8, <2>3, <2>4 DEF Terminal
<1>12. Numbers(term, rowIndex)
  BY <1>9, <1>10, <1>11 DEF Numbers
<1>13. /\ port.dom = <<TopFold, BottomFold>> /\ port.anchor = Null /\ port.focus = Null /\ port.collapsed
       /\ port.cache = EmptyCache /\ port.scrollTop = 0 /\ port.lastRowCount = 0
       /\ port.visibleRowCount = height /\ port.window = height /\ ~port.failed
  BY <1>1 DEF NewPort
<1>14. port \in Ports
  <2>1. EmptyCache \in UNION {[S -> Ids] : S \in SUBSET Nat}
    BY NothingCached DEF Caches
  <2>2. <<TopFold, BottomFold>> \in Seq(Node)
    BY FoldsOnly
  <2> DEFINE dom == <<TopFold, BottomFold>>
  <2>3. port = [dom |-> dom, anchor |-> Null, focus |-> Null, collapsed |-> TRUE,
                startRow |-> Null, endRow |-> Null, isMultiline |-> FALSE, cache |-> EmptyCache,
                scrollTop |-> 0, lastRowCount |-> 0, visibleRowCount |-> height, window |-> height,
                isScrolledEnd |-> TRUE, scrolled |-> FALSE, failed |-> FALSE]
    BY <1>1 DEF NewPort
  <2>4. dom \in Seq(Node) /\ height \in Int
    BY <1>3, <2>2
  <2> HIDE DEF dom
  <2> QED BY <2>1, <2>3, <2>4 DEF Ports
<1>15. Document(port.dom) /\ Rows(port.dom) = {}
  BY <1>13, FoldsOnly
<1>16. Sound(port, rows, rowIndex)
  <2>1. DOMAIN port.cache = {}
    BY <1>13, NothingCached
  <2>2. Sorted(port.dom, rowIndex) /\ Own(port.dom, rows, rowIndex)
    BY <1>15 DEF Sorted, Own
  <2>3. Caching(port, rowIndex)
    BY <2>1 DEF Caching
  <2>4. Selection(port, rowIndex)
    BY <1>13 DEF Selection
  <2> QED BY <1>3, <1>13, <1>14, <1>15, <2>2, <2>3, <2>4 DEF Sound
<1>17. /\ timers \in Seq(TimerNames) /\ "syncCursor" \in ToSet(timers) /\ "redraw" \in ToSet(timers)
       /\ "invalidate" \notin ToSet(timers) /\ "onResize" \notin ToSet(timers)
  <2>1. timers \in Seq({"syncCursor", "redraw", "invalidate", "onScroll", "onResize", "resized"})
    BY <1>2
  <2>2. timers[1] = "syncCursor" /\ timers[2] = "redraw" /\ DOMAIN timers = 1 .. 2
    BY <1>2
  <2>3. 1 \in 1 .. 2 /\ 2 \in 1 .. 2 /\ \A i \in 1 .. 2 : i = 1 \/ i = 2
    OBVIOUS
  <2> QED BY <2>1, <2>2, <2>3 DEF TimerNames, ToSet
<1>18. Ordered(term, rowIndex, port, timers)
  BY <1>9, <1>16, <1>17 DEF Ordered
<1>19. Geometry(term, port, timers, resizing)
  <2>1. RowCount(term) = height /\ 0 <= height
    BY <1>3, <1>4, <1>9 DEF RowCount
  <2> QED BY <1>5, <1>13, <1>17, <2>1 DEF Geometry
<1>20. /\ ViewDue(term, port, timers, scrollDown, resizing) /\ EndDue(port, timers, resizing)
       /\ FollowDue(term, port, timers, scrollDown, resizing)
       /\ CursorDue(term, port, timers, resizing, cursorAt)
  BY <1>17 DEF ViewDue, EndDue, FollowDue, CursorDue
<1> QED BY <1>2, <1>12, <1>17, <1>18, <1>19, <1>20 DEF Inv, Whole

----------------------------------------------------------------------------
\* Every step.

\* Whatever a log does keeps the invariant.
LEMMA LogKeeps ==
  ASSUME Inv, Limited, Log
  PROVE  Inv'
<1>1. CASE \E row \in 0 .. term.height - 1 : MoveCursor(row)
  BY <1>1, MoveCursorKeeps
<1>2. CASE NoneDropped /\ AppendRow
  BY <1>2, AppendRowKeeps
<1>3. CASE AtRest /\ InsertRow /\ CacheTrue(rowIndex')
  BY <1>3, InsertRowKeeps
<1>4. CASE AtRest /\ port.collapsed /\ DrawAnew
  <2>1. CASE \E from, to \in 0 .. term.height - 1, count \in 1 .. term.height : MoveRows(from, count, to)
    BY <1>4, <2>1, MoveRowsKeeps
  <2>2. CASE term.scrollback = << >> /\ ClearScrollback
    BY <1>4, <2>2, ClearScrollbackKeeps
  <2>3. CASE \E empty \in 0 .. MaxRows : SetAlternateMode(empty)
    BY <1>4, <2>3, SetAlternateModeKeeps
  <2> QED BY <1>4, <2>1, <2>2, <2>3 DEF DrawAnew
<1> QED BY <1>1, <1>2, <1>3, <1>4 DEF Log

\* Whatever the user does keeps it.
LEMMA UserKeeps ==
  ASSUME Inv, Limited, User
  PROVE  Inv'
<1>0. ~Resizing
  BY DEF User
<1>1. CASE \E top \in 0 .. MaxRows : UserScroll(top)
  BY <1>0, <1>1, UserScrollKeeps
<1>2. CASE \E anchor \in Ids, focus \in Ids \cup {TopFold, BottomFold}, collapsed \in BOOLEAN :
             Select(anchor, focus, collapsed)
  BY <1>0, <1>2, SelectKeeps
<1>3. CASE \E delta \in {-2, -1, 1, 2} : AutoScroll(delta)
  BY <1>0, <1>3, AutoScrollKeeps
<1>4. CASE NoneDropped /\ \E height \in Heights : WindowResized(height)
  BY <1>0, <1>4, WindowResizedKeeps
<1> QED BY <1>1, <1>2, <1>3, <1>4 DEF User

\* Every timer and event keeps it.
LEMMA BrowserKeeps ==
  ASSUME Inv, Browser
  PROVE  Inv'
<1>1. CASE \E empty \in 0 .. MaxRows : TerminalOnResize(empty)
  BY <1>1, TerminalOnResizeKeeps
<1>2. CASE onResize_ \/ onSelectionChange \/ onScroll_
  BY <1>2, onResizeKeeps, onSelectionChangeKeeps, onScrollKeeps
<1>3. CASE RedrawTimer \/ InvalidateTimer \/ syncCursorPosition_
  BY <1>3, RedrawTimerKeeps, InvalidateTimerKeeps, SyncCursorKeeps
<1>4. CASE TerminalOnScroll \/ ResizedTimer \/ ScrollDownTimer
  BY <1>4, TerminalOnScrollKeeps, ResizedTimerKeeps, ScrollDownTimerKeeps
<1> QED BY <1>1, <1>2, <1>3, <1>4 DEF Browser

\* The invariant is inductive.
LEMMA StepKeeps ==
  ASSUME Inv, Limited, [Next]_vars
  PROVE  Inv'
<1>1. CASE UNCHANGED vars
  <2>1. UNCHANGED <<term, rowIndex, port, timers, scrollDown, resizing, cursorAt>>
    BY <1>1 DEF vars
  <2> QED BY <2>1 DEF Inv
<1>2. CASE Next
  BY <1>2, LogKeeps, UserKeeps, BrowserKeeps DEF Next
<1> QED BY <1>1, <1>2

----------------------------------------------------------------------------

\* The invariant that the properties below rest on: the rows of the terminal
\* are numbered by their places, the document has the rows of the view in
\* order between the folds, or it will be drawn, and whatever is not yet right
\* about the view, its end and the cursor has a timer or an event due. Like
\* all theorems of this module it is about logs, a user and a window that keep
\* to the limits stated above Log in TerminalScroll; within them, they and the
\* timers and events come in any order.
THEOREM DueWorkKept ==
  ASSUME Limited
  PROVE  Spec => []Inv
<1>1. Init => Inv
  BY InitKeeps
<1>2. Inv /\ [Next]_vars => Inv'
  BY StepKeeps
<1> QED BY <1>1, <1>2, PTL DEF Spec

\* Nothing due: no timer and no event.
LEMMA NothingDue ==
  ASSUME Settled
  PROVE  /\ \A x : x \notin ToSet(timers)
         /\ ~SizeDue(timers, resizing) /\ ~port.scrolled /\ ~resizing /\ scrollDown = 0
<1>1. timers = << >> /\ scrollDown = 0 /\ ~resizing /\ ~port.scrolled
  BY DEF Settled
<1>2. \A x : x \notin ToSet(timers)
  BY <1>1 DEF ToSet
<1> QED BY <1>1, <1>2 DEF SizeDue

\* Within the limits: once every timer and event has come, the page shows the
\* rows of the scroll position, each in its place and none twice, and the cursor in its row; no
\* drawing has thrown (drawVisibleRows_, syncCursorPosition_).
THEOREM PageShowsTerminal ==
  ASSUME Limited
  PROVE  Spec => []TerminalShown
<1>1. ASSUME Inv PROVE TerminalShown
  <2>1. ~port.failed
    BY <1>1, PortFacts
  <2>2. ASSUME Settled PROVE Shown(port) = RowsInView /\ cursorAt = CursorPlace(term, port)
    <3>1. Shown(port) = ViewOf(term, port)
      <4>1. scrollDown = 0 => ~(scrollDown > 0)
        OBVIOUS
      <4> QED BY <1>1, <2>2, <4>1, NothingDue DEF Inv, Whole, ViewDue
    <3>2. cursorAt = CursorPlace(term, port)
      BY <1>1, <2>2, NothingDue DEF Inv, Whole, CursorDue
    <3> QED BY <3>1, <3>2 DEF ViewOf, RowsInView
  <2> QED BY <2>1, <2>2 DEF TerminalShown
<1> QED BY <1>1, DueWorkKept, PTL

\* Within the limits: a view that was at the end of the rows is at the end when
\* the page is at rest, whatever number of rows was appended meanwhile; one that
\* was scrolled back is not taken for one at the end (isScrolledEnd,
\* scheduleScrollDown_). Control functions that renumber rows are limited to a
\* page at rest.
THEOREM ViewFollows ==
  ASSUME Limited
  PROVE  Spec => []FollowsLogs
<1>1. ASSUME Inv PROVE FollowsLogs
  <2>1. ASSUME Settled
        PROVE  /\ port.isScrolledEnd <=> port.scrollTop + port.visibleRowCount >= port.lastRowCount
               /\ port.isScrolledEnd => port.lastRowCount = RowCount(term)
    <3>1. port.isScrolledEnd <=> port.scrollTop + port.visibleRowCount >= port.lastRowCount
      BY <1>1, <2>1, NothingDue DEF Inv, Whole, EndDue
    <3>2. port.isScrolledEnd => port.lastRowCount = RowCount(term)
      <4>1. scrollDown = 0 => ~(scrollDown > 0)
        OBVIOUS
      <4> QED BY <1>1, <2>1, <4>1, NothingDue DEF Inv, Whole, FollowDue
    <3> QED BY <3>1, <3>2
  <2> QED BY <2>1 DEF FollowsLogs
<1> QED BY <1>1, DueWorkKept, PTL

\* Within the limits: drawing leaves the rows alone in which the selection
\* begins or ends, whether they are in the view, above or below it (redraw_,
\* drawTopFold_, drawBottomFold_, drawVisibleRows_). While something is
\* selected, rows are appended, and inserted with new numbers for those behind
\* them; rows that change places, and the other screen, are left out.
THEOREM SelectionSurvives ==
  ASSUME Limited
  PROVE  Spec => SelectionUndisturbed
<1>1. ASSUME Inv, [Next]_vars
      PROVE  [Drawn /\ ~port.collapsed =>
                /\ port.anchor \in ToSet(AllRows(term)) => port'.anchor = port.anchor
                /\ port.focus \in ToSet(AllRows(term)) => port'.focus = port.focus]_vars
  <2> SUFFICES ASSUME Drawn, ~port.collapsed
               PROVE  /\ port'.anchor = port.anchor
                      /\ port.focus \in ToSet(AllRows(term)) => port'.focus = port.focus
    OBVIOUS
  <2>1. Undisturbed(port, port')
    BY <1>1, RedrawTimerKeeps, onScrollKeeps DEF Drawn
  <2>2. port.anchor # Null
    <3>1. CASE "invalidate" \in ToSet(timers)
      BY <1>1, <3>1 DEF Inv, Whole, Disordered, Moving
    <3>2. CASE "invalidate" \notin ToSet(timers)
      BY <1>1, <3>2 DEF Inv, Whole, Ordered, Sound, Selection
    <3> QED BY <3>1, <3>2
  <2>3. port.focus \in ToSet(AllRows(term)) => port.focus \in Ids
    <3>1. AllRows(term) \in Seq(Ids)
      BY <1>1, PortFacts
    <3> QED BY <3>1 DEF ToSet
  <2> QED BY <2>1, <2>2, <2>3 DEF Undisturbed
<1> QED BY <1>1, DueWorkKept, PTL DEF Spec, SelectionUndisturbed
=============================================================================
