---------------------------- MODULE GuardProofs ----------------------------
EXTENDS GuardMemory, OneLoopProofs, SequenceTheorems, NaturalsInduction

-----------------------------------------------------------------------------
(* Induction and sequences *)

\* A set of numbers that has 0 and every successor of its elements has all.
LEMMA SetInduction ==
    ASSUME NEW Good \in SUBSET Nat, 0 \in Good,
           \A k \in Nat : k \in Good => k + 1 \in Good
    PROVE  Good = Nat
<1> SUFFICES ASSUME NEW x \in Nat, x \notin Good PROVE FALSE
  OBVIOUS
<1> DEFINE bad == Nat \ Good
<1>1. bad \subseteq Nat /\ bad # {}
  OBVIOUS
<1>2. PICK k \in bad : \A j \in bad : ~(<<j, k>> \in OpToRel(<, Nat))
  <2> HIDE DEF bad
  <2> QED
    BY <1>1, NatLessThanWellFounded, WFMin
<1>3. k \in Nat /\ k # 0
  OBVIOUS
<1>4. k - 1 \in Nat /\ k - 1 < k /\ (k - 1) + 1 = k
  BY <1>3
<1>5. k - 1 \notin bad
  BY <1>2, <1>3, <1>4 DEF OpToRel
<1> QED
  BY <1>3, <1>4, <1>5

\* The walk does what its definition says, one order after the other.
LEMMA WalkSteps ==
    ASSUME NEW g, NEW present, Len(g.tracked) \in Nat
    PROVE  /\ G!Walk(g, present)[0] = g
           /\ \A i \in 1..Len(g.tracked) :
                G!Walk(g, present)[i] =
                  IF g.tracked[i].order \in present
                  THEN G!Walk(g, present)[i - 1]
                  ELSE G!Departed(G!Walk(g, present)[i - 1], g.tracked[i])
<1> DEFINE n == Len(g.tracked)
           From(c, i) == IF i = 0 THEN g
                         ELSE IF g.tracked[i].order \in present THEN c[i - 1]
                         ELSE G!Departed(c[i - 1], g.tracked[i])
           Follows(c, k) == c = [i \in 0..k |-> From(c, i)]
           reached == {k \in Nat : \E c : Follows(c, k)}
<1>1. G!Walk(g, present) = CHOOSE c : Follows(c, n)
  BY DEF G!Walk
<1>2. 0 \in reached
  <2> DEFINE c == [i \in 0..0 |-> g]
  <2>1. Follows(c, 0)
    OBVIOUS
  <2> QED
    BY <2>1
<1>3. ASSUME NEW k \in Nat, k \in reached
      PROVE  k + 1 \in reached
  <2>1. PICK c : Follows(c, k)
    BY <1>3
  <2> DEFINE d == [i \in 0..(k + 1) |-> IF i = k + 1 THEN From(c, k + 1) ELSE c[i]]
  <2>2. \A i \in 0..k : d[i] = c[i] /\ c[i] = From(c, i)
    BY <2>1
  <2>3. d[k + 1] = From(c, k + 1)
    OBVIOUS
  <2>4. ASSUME NEW i \in 0..(k + 1)
        PROVE  d[i] = From(d, i)
    <3>1. i # 0 => i - 1 \in 0..k
      OBVIOUS
    <3>2. i # 0 => d[i - 1] = c[i - 1]
      BY <2>2, <3>1
    <3>3. From(d, i) = From(c, i)
      BY <3>2
    <3>4. d[i] = From(c, i)
      <4>1. i \in 0..k \/ i = k + 1
        OBVIOUS
      <4> HIDE DEF d, From
      <4> QED
        BY <2>2, <2>3, <4>1
    <3> QED
      BY <3>3, <3>4
  <2> DEFINE e == [i \in 0..(k + 1) |-> From(d, i)]
  <2>5. DOMAIN d = 0..(k + 1) /\ d = [i \in DOMAIN d |-> d[i]]
    OBVIOUS
  <2>6. d = e
    <3>1. \A i \in 0..(k + 1) : e[i] = From(d, i)
      OBVIOUS
    <3>2. DOMAIN e = 0..(k + 1) /\ e = [i \in DOMAIN e |-> e[i]]
      OBVIOUS
    <3>3. \A i \in 0..(k + 1) : e[i] = d[i]
      <4> HIDE DEF d, e, From
      <4> QED
        BY <2>4, <3>1
    <3> HIDE DEF d, e, From
    <3> QED
      BY <2>5, <3>2, <3>3
  <2> HIDE DEF d, From
  <2>7. Follows(d, k + 1)
    BY <2>6
  <2>8. k + 1 \in Nat
    OBVIOUS
  <2> HIDE DEF Follows
  <2> QED
    BY <2>7, <2>8
<1>4. n \in reached
  <2> HIDE DEF reached
  <2>1. reached \in SUBSET Nat
    BY DEF reached
  <2> QED
    BY <1>2, <1>3, <2>1, SetInduction
<1>5. \E c : Follows(c, n)
  BY <1>4
<1>6. Follows(G!Walk(g, present), n)
  <2> HIDE DEF Follows
  <2> QED
    BY <1>1, <1>5
<1> DEFINE w == G!Walk(g, present)
<1>7. w = [i \in 0..n |-> From(w, i)]
  BY <1>6
<1>8. \A i \in 0..n : w[i] = From(w, i)
  <2> HIDE DEF w, From
  <2> QED
    BY <1>7
<1> QED
  <2>1. 0 \in 0..n /\ \A i \in 1..n : i \in 0..n /\ i # 0
    OBVIOUS
  <2> HIDE DEF w, n
  <2>2. w[0] = From(w, 0)
    BY <1>8, <2>1
  <2>3. w[0] = g
    BY <2>2
  <2>4. \A i \in 1..n : w[i] = IF g.tracked[i].order \in present THEN w[i - 1]
                               ELSE G!Departed(w[i - 1], g.tracked[i])
    BY <1>8, <2>1
  <2> QED
    BY <2>3, <2>4 DEF w, n

\* SetToSeq lists every element once.
LEMMA ListedOnce ==
    ASSUME NEW S, IsFiniteSet(S)
    PROVE  /\ G!SetToSeq(S) \in Seq(S)
           /\ \A i, j \in 1..Len(G!SetToSeq(S)) :
                 G!SetToSeq(S)[i] = G!SetToSeq(S)[j] => i = j
           /\ \A x \in S : \E i \in 1..Len(G!SetToSeq(S)) : G!SetToSeq(S)[i] = x
<1> DEFINE n == Cardinality(S)
           Once(f) == f \in [1..n -> S] /\ G!IsInjective(f)
<1>1. n \in Nat
  BY FS_CardinalityType
<1>2. PICK b : b \in Bijection(1..n, S)
  BY FS_CardinalityType DEF ExistsBijection
<1>3. Once(b)
  BY <1>2 DEF Bijection, Injection, IsInjective, G!IsInjective
<1>4. Once(G!SetToSeq(S))
  <2>1. G!Cardinality(S) = n
    BY DEF Cardinality, G!Cardinality
  <2>2. G!SetToSeq(S) = CHOOSE f \in [1..n -> S] : G!IsInjective(f)
    BY <2>1 DEF G!SetToSeq
  <2> HIDE DEF n
  <2> QED
    BY <1>3, <2>2
<1>5. G!SetToSeq(S) \in Injection(1..n, S)
  BY <1>4 DEF Injection, IsInjective, G!IsInjective
<1>6. G!SetToSeq(S) \in Surjection(1..n, S)
  <2>1. Cardinality(1..n) = n
    BY <1>1, FS_Interval
  <2> QED
    BY <1>5, <2>1, FS_Injection
<1> HIDE DEF n
<1>7. G!SetToSeq(S) \in [1..n -> S] /\ Len(G!SetToSeq(S)) = n
  BY <1>1, <1>4, LenProperties
<1> QED
  BY <1>1, <1>5, <1>6, <1>7 DEF Injection, Surjection, IsInjective

-----------------------------------------------------------------------------
(* What the guard tracks *)

HasOrder(bids, o) == \E i \in 1..Len(bids) : bids[i].order = o

\* Removing an order removes that order.
LEMMA UntrackedOne ==
    ASSUME NEW bids \in Seq(TrackedType), Distinct(bids),
           NEW o, HasOrder(bids, o)
    PROVE  /\ G!Untracked(bids, o) \in Seq(TrackedType)
           /\ Distinct(G!Untracked(bids, o))
           /\ \A x : HasOrder(G!Untracked(bids, o), x)
                        <=> HasOrder(bids, x) /\ x # o
<1> DEFINE n == Len(bids)
           k == CHOOSE i \in 1..n : bids[i].order = o
           front == SubSeq(bids, 1, k - 1)
           back == SubSeq(bids, k + 1, n)
           rest == front \o back
<1>1. n \in Nat /\ \A i \in 1..n : bids[i] \in TrackedType
  BY LenProperties, ElementOfSeq
<1>2. k \in 1..n /\ bids[k].order = o
  BY DEF HasOrder
<1>3. G!Untracked(bids, o) = rest
  BY DEF G!Untracked, G!RemoveAt
<1> HIDE DEF n, k
<1>4. /\ front \in Seq(TrackedType) /\ Len(front) = k - 1
      /\ \A i \in 1..(k - 1) : front[i] = bids[i]
  <2>1. 1 \in Int /\ k - 1 \in Int /\ \A i \in 1..(k - 1) : bids[i] \in TrackedType
    BY <1>1, <1>2
  <2> QED
    BY <1>1, <1>2, <2>1, SubSeqProperties
<1>5. /\ back \in Seq(TrackedType) /\ Len(back) = n - k
      /\ \A i \in 1..(n - k) : back[i] = bids[k + i]
  <2>1. k + 1 \in Int /\ n \in Int /\ \A i \in (k + 1)..n : bids[i] \in TrackedType
    BY <1>1, <1>2
  <2>2. /\ back \in Seq(TrackedType)
        /\ Len(back) = IF k + 1 <= n THEN n - (k + 1) + 1 ELSE 0
        /\ \A i \in 1..(n - (k + 1) + 1) : back[i] = bids[(k + 1) + i - 1]
    BY <2>1, SubSeqProperties
  <2> HIDE DEF back
  <2> QED
    BY <1>1, <1>2, <2>2
<1> HIDE DEF front, back
<1>6. /\ rest \in Seq(TrackedType) /\ Len(rest) = n - 1
      /\ \A i \in 1..(n - 1) :
            rest[i] = IF i < k THEN bids[i] ELSE bids[i + 1]
  <2>1. /\ rest \in Seq(TrackedType)
        /\ Len(rest) = Len(front) + Len(back)
        /\ \A i \in 1..(Len(front) + Len(back)) :
              rest[i] = IF i <= Len(front) THEN front[i] ELSE back[i - Len(front)]
    BY <1>4, <1>5, ConcatProperties
  <2> HIDE DEF rest
  <2>2. Len(front) + Len(back) = n - 1
    BY <1>1, <1>2, <1>4, <1>5
  <2>3. ASSUME NEW i \in 1..(n - 1)
        PROVE  rest[i] = IF i < k THEN bids[i] ELSE bids[i + 1]
    <3>1. CASE i < k
      <4>1. i \in 1..(k - 1)
        BY <1>1, <1>2, <3>1
      <4>2. rest[i] = front[i]
        BY <1>1, <1>2, <1>4, <2>1, <2>2, <3>1
      <4> QED
        BY <1>4, <3>1, <4>1, <4>2
    <3>2. CASE ~(i < k)
      <4>1. i - (k - 1) \in 1..(n - k) /\ k + (i - (k - 1)) = i + 1
        BY <1>1, <1>2, <3>2
      <4>2. Len(front) = k - 1 /\ ~(i <= k - 1) /\ i \in 1..(Len(front) + Len(back))
        BY <1>1, <1>2, <1>4, <2>2, <3>2
      <4>3. rest[i] = back[i - (k - 1)]
        BY <2>1, <4>2
      <4> QED
        BY <1>5, <3>2, <4>1, <4>3
    <3> QED
      BY <3>1, <3>2
  <2> QED
    BY <2>1, <2>2, <2>3
<1> HIDE DEF rest
<1> DEFINE place(i) == IF i < k THEN i ELSE i + 1
<1>7. \A i \in 1..(n - 1) : place(i) \in 1..n /\ place(i) # k /\ rest[i] = bids[place(i)]
  BY <1>1, <1>2, <1>6
<1>8. \A i, j \in 1..(n - 1) : place(i) = place(j) => i = j
  BY <1>1, <1>2
<1>9. \A i \in 1..n : i # k => \E j \in 1..(n - 1) : place(j) = i
  <2> SUFFICES ASSUME NEW i \in 1..n, i # k
               PROVE  \E j \in 1..(n - 1) : place(j) = i
    OBVIOUS
  <2>1. CASE i < k
    <3>1. i \in 1..(n - 1) /\ place(i) = i
      BY <1>1, <1>2, <2>1
    <3> QED
      BY <3>1
  <2>2. CASE i > k
    <3>1. i - 1 \in 1..(n - 1) /\ place(i - 1) = i
      BY <1>1, <1>2, <2>2
    <3> QED
      BY <3>1
  <2> QED
    BY <1>1, <1>2, <2>1, <2>2
<1> HIDE DEF place
<1>10. Distinct(rest)
  BY <1>6, <1>7, <1>8 DEF Distinct, n
<1>11. ASSUME NEW x
       PROVE  HasOrder(rest, x) <=> HasOrder(bids, x) /\ x # o
  <2>1. ASSUME HasOrder(rest, x)
        PROVE  HasOrder(bids, x) /\ x # o
    <3>1. PICK i \in 1..(n - 1) : rest[i].order = x
      BY <1>6, <2>1 DEF HasOrder
    <3>2. place(i) \in 1..n /\ place(i) # k /\ bids[place(i)].order = x
      BY <1>7, <3>1
    <3> QED
      BY <1>2, <3>2 DEF HasOrder, Distinct, n
  <2>2. ASSUME HasOrder(bids, x), x # o
        PROVE  HasOrder(rest, x)
    <3>1. PICK i \in 1..n : bids[i].order = x
      BY <2>2 DEF HasOrder, n
    <3>2. i # k
      BY <1>2, <2>2, <3>1
    <3>3. PICK j \in 1..(n - 1) : place(j) = i
      BY <1>9, <3>2
    <3> QED
      BY <1>6, <1>7, <3>1, <3>3 DEF HasOrder
  <2> QED
    BY <2>1, <2>2
<1> QED
  BY <1>3, <1>6, <1>10, <1>11

\* The orders of a list join those that are tracked, once each.
LEMMA TrackingAll ==
    ASSUME NEW g \in GuardRecord, Distinct(g.tracked),
           NEW present \in SUBSET Orders, NEW delivering
    PROVE  LET now == G!Tracking(g, present, delivering) IN
           /\ now \in GuardRecord
           /\ now.hold = g.hold /\ now.streak = g.streak
           /\ now.cancels = g.cancels
           /\ Distinct(now.tracked)
           /\ \A x : HasOrder(now.tracked, x)
                        <=> HasOrder(g.tracked, x) \/ x \in present
<1> DEFINE fresh == {o \in present : ~G!IsTracked(g, o)}
           new == G!SetToSeq(fresh)
           m == Len(g.tracked)
           known(i) == [order |-> g.tracked[i].order,
                        delivered |-> \/ g.tracked[i].delivered
                                      \/ g.tracked[i].order
                                            \in present \cap delivering]
           added(i) == [order |-> new[i], delivered |-> new[i] \in delivering]
           olds == [i \in 1..m |-> known(i)]
           news == [i \in 1..Len(new) |-> added(i)]
           all == olds \o news
           now == G!Tracking(g, present, delivering)
<1>0. /\ g.tracked \in Seq(TrackedType) /\ m \in Nat
      /\ \A i \in 1..m : g.tracked[i] \in TrackedType
  BY LenProperties, ElementOfSeq DEF GuardRecord
<1>1. now = [g EXCEPT !.tracked = all]
  BY DEF G!Tracking
<1>2. fresh \in SUBSET Orders /\ IsFiniteSet(fresh)
  BY ListingAssumption, FS_Subset
<1>3. \A x : x \in fresh <=> x \in present /\ ~HasOrder(g.tracked, x)
  <2>1. DOMAIN g.tracked = 1..Len(g.tracked)
    BY <1>0, LenProperties
  <2> QED
    BY <2>1 DEF HasOrder, G!IsTracked
<1> HIDE DEF fresh
<1>4. /\ new \in Seq(fresh) /\ Len(new) \in Nat
      /\ \A i \in 1..Len(new) : new[i] \in fresh
      /\ \A i, j \in 1..Len(new) : new[i] = new[j] => i = j
      /\ \A x \in fresh : \E i \in 1..Len(new) : new[i] = x
  BY <1>2, ListedOnce, LenProperties, ElementOfSeq
<1> HIDE DEF new
<1>5. /\ olds \in Seq(TrackedType) /\ Len(olds) = m
      /\ \A i \in 1..m : olds[i] = known(i)
  <2>1. \A i \in 1..m : known(i) \in TrackedType
    BY <1>0 DEF TrackedType
  <2> HIDE DEF known, m
  <2> QED
    BY <1>0, <2>1
<1>6. /\ news \in Seq(TrackedType) /\ Len(news) = Len(new)
      /\ \A i \in 1..Len(new) : news[i] = added(i)
  <2>1. \A i \in 1..Len(new) : added(i) \in TrackedType
    BY <1>2, <1>4 DEF TrackedType
  <2> HIDE DEF added
  <2> QED
    BY <1>4, <2>1
<1>7. /\ \A i \in 1..m : olds[i].order = g.tracked[i].order
      /\ \A i \in 1..Len(new) : news[i].order = new[i]
  BY <1>5, <1>6
<1> HIDE DEF olds, news
<1>8. /\ all \in Seq(TrackedType) /\ Len(all) = m + Len(new)
      /\ \A i \in 1..(m + Len(new)) :
            all[i] = IF i <= m THEN olds[i] ELSE news[i - m]
  <2>1. /\ all \in Seq(TrackedType)
        /\ Len(all) = Len(olds) + Len(news)
        /\ \A i \in 1..(Len(olds) + Len(news)) :
              all[i] = IF i <= Len(olds) THEN olds[i] ELSE news[i - Len(olds)]
    <3>1. olds \in Seq(TrackedType) /\ news \in Seq(TrackedType)
      BY <1>5, <1>6
    <3> QED
      BY <3>1, ConcatProperties
  <2> HIDE DEF all, m
  <2> QED
    BY <1>5, <1>6, <2>1
<1> HIDE DEF all, m
<1>9. /\ \A i \in 1..m : all[i].order = g.tracked[i].order
      /\ \A i \in 1..Len(new) : i + m \in 1..(m + Len(new)) /\ all[i + m].order = new[i]
  <2>1. ASSUME NEW i \in 1..m
        PROVE  all[i].order = g.tracked[i].order
    <3>1. i \in 1..(m + Len(new)) /\ i <= m
      BY <1>0, <1>4
    <3>2. all[i] = olds[i]
      BY <1>8, <3>1
    <3> QED
      BY <1>7, <3>2
  <2>2. ASSUME NEW i \in 1..Len(new)
        PROVE  i + m \in 1..(m + Len(new)) /\ all[i + m].order = new[i]
    <3>1. i + m \in 1..(m + Len(new)) /\ ~(i + m <= m) /\ (i + m) - m = i
      BY <1>0, <1>4
    <3>2. all[i + m] = news[i]
      BY <1>8, <3>1
    <3> QED
      BY <1>7, <3>1, <3>2
  <2> QED
    BY <2>1, <2>2
<1>10. \A i \in 1..(m + Len(new)) : i \in 1..m \/ (i - m \in 1..Len(new) /\ i = (i - m) + m)
  BY <1>0, <1>4
<1>11. Distinct(all)
  <2> SUFFICES ASSUME NEW i \in 1..(m + Len(new)), NEW j \in 1..(m + Len(new)),
                      all[i].order = all[j].order
               PROVE  i = j
    BY <1>8 DEF Distinct
  <2>1. CASE i \in 1..m /\ j \in 1..m
    BY <1>9, <2>1 DEF Distinct, m
  <2>2. CASE i - m \in 1..Len(new) /\ j - m \in 1..Len(new) /\ i = (i - m) + m /\ j = (j - m) + m
    <3>1. new[i - m] = new[j - m]
      BY <1>9, <2>2
    <3> QED
      BY <1>4, <2>2, <3>1
  <2>3. ASSUME NEW a \in 1..m, NEW b \in 1..Len(new), g.tracked[a].order = new[b]
        PROVE  FALSE
    <3>1. HasOrder(g.tracked, new[b])
      BY <2>3 DEF HasOrder, m
    <3> QED
      BY <1>3, <1>4, <3>1
  <2>4. CASE i \in 1..m /\ j - m \in 1..Len(new) /\ j = (j - m) + m
    <3>1. all[i].order = g.tracked[i].order /\ all[j].order = new[j - m]
      BY <1>9, <2>4
    <3> QED
      BY <2>3, <2>4, <3>1
  <2>5. CASE j \in 1..m /\ i - m \in 1..Len(new) /\ i = (i - m) + m
    <3>1. all[j].order = g.tracked[j].order /\ all[i].order = new[i - m]
      BY <1>9, <2>5
    <3> QED
      BY <2>3, <2>5, <3>1
  <2> QED
    BY <1>10, <2>1, <2>2, <2>4, <2>5
<1>12. ASSUME NEW x
       PROVE  HasOrder(all, x) <=> HasOrder(g.tracked, x) \/ x \in present
  <2>1. ASSUME HasOrder(all, x)
        PROVE  HasOrder(g.tracked, x) \/ x \in present
    <3>1. PICK i \in 1..(m + Len(new)) : all[i].order = x
      BY <1>8, <2>1 DEF HasOrder
    <3>2. CASE i \in 1..m
      BY <1>9, <3>1, <3>2 DEF HasOrder, m
    <3>3. CASE i - m \in 1..Len(new) /\ i = (i - m) + m
      <4>1. new[i - m] = x
        BY <1>9, <3>1, <3>3
      <4> QED
        BY <1>3, <1>4, <3>3, <4>1
    <3> QED
      BY <1>10, <3>2, <3>3
  <2>2. ASSUME HasOrder(g.tracked, x)
        PROVE  HasOrder(all, x)
    <3>1. PICK i \in 1..m : g.tracked[i].order = x
      BY <2>2 DEF HasOrder, m
    <3>2. i \in 1..(m + Len(new))
      BY <1>0, <1>4
    <3> QED
      BY <1>8, <1>9, <3>1, <3>2 DEF HasOrder
  <2>3. ASSUME x \in fresh
        PROVE  HasOrder(all, x)
    <3>1. PICK i \in 1..Len(new) : new[i] = x
      BY <1>4, <2>3
    <3> QED
      BY <1>8, <1>9, <3>1 DEF HasOrder
  <2> QED
    BY <1>3, <2>1, <2>2, <2>3
<1> HIDE DEF now
<1>13. /\ now.tracked = all /\ now.hold = g.hold /\ now.streak = g.streak
       /\ now.cancels = g.cancels /\ now \in GuardRecord
  BY <1>1, <1>8 DEF GuardRecord
<1> QED
  BY <1>11, <1>12, <1>13 DEF now

\* One departure: an excused one is neutral, one that delivered resets the
\* streak, any other is a cycle.
LEMMA DepartedOne ==
    ASSUME NEW g \in GuardRecord, Distinct(g.tracked),
           NEW bid \in TrackedType, HasOrder(g.tracked, bid.order)
    PROVE  LET h == G!Departed(g, bid)
               o == bid.order IN
           /\ h \in GuardRecord
           /\ Distinct(h.tracked)
           /\ \A x : HasOrder(h.tracked, x) <=> HasOrder(g.tracked, x) /\ x # o
           /\ h.cancels = [g.cancels EXCEPT ![o] = G!NoCancel]
           /\ G!Excused(g, o) => h.streak = g.streak /\ h.hold = g.hold
           /\ ~G!Excused(g, o) =>
                 \/ h.streak = 0 /\ h.hold = g.hold
                 \/ /\ h.streak = g.streak + 1
                    /\ h.hold = IF h.streak >= ChurnStreakThreshold
                                      /\ g.hold = G!NoHold
                                THEN G!ChurnHold ELSE g.hold
<1> DEFINE o == bid.order
           rest == G!Untracked(g.tracked, o)
           cancels == [g.cancels EXCEPT ![o] = G!NoCancel]
           f == [g EXCEPT !.tracked = rest, !.cancels[o] = G!NoCancel]
           h == G!Departed(g, bid)
<1>1. o \in Orders /\ g.tracked \in Seq(TrackedType)
  BY DEF TrackedType, GuardRecord
<1>2. /\ rest \in Seq(TrackedType) /\ Distinct(rest)
      /\ \A x : HasOrder(rest, x) <=> HasOrder(g.tracked, x) /\ x # o
  BY <1>1, UntrackedOne
<1>3. cancels \in [Orders -> {G!NoCancel} \cup 0..(OwnCancelMemory + 1)]
  BY <1>1 DEF GuardRecord
<1>4. f = [g EXCEPT !.tracked = rest, !.cancels = cancels]
  BY DEF GuardRecord
<1>5. h = IF G!Excused(g, o) THEN f
          ELSE IF bid.delivered THEN [f EXCEPT !.streak = 0]
          ELSE IF /\ [f EXCEPT !.streak = f.streak + 1].streak
                        >= ChurnStreakThreshold
                  /\ g.hold = G!NoHold
          THEN [[f EXCEPT !.streak = f.streak + 1] EXCEPT !.hold = G!ChurnHold]
          ELSE [f EXCEPT !.streak = f.streak + 1]
  BY DEF G!Departed
<1> HIDE DEF rest, cancels, f, h, o
<1>6. /\ f \in GuardRecord /\ f.tracked = rest /\ f.cancels = cancels
      /\ f.streak = g.streak /\ f.hold = g.hold
  BY <1>2, <1>3, <1>4 DEF GuardRecord
<1>7. /\ [f EXCEPT !.streak = f.streak + 1] \in GuardRecord
      /\ [f EXCEPT !.streak = f.streak + 1].streak = g.streak + 1
      /\ [f EXCEPT !.streak = f.streak + 1].tracked = rest
      /\ [f EXCEPT !.streak = f.streak + 1].cancels = cancels
      /\ [f EXCEPT !.streak = f.streak + 1].hold = g.hold
  BY <1>6 DEF GuardRecord
<1>8. CASE G!Excused(g, o)
  BY <1>2, <1>5, <1>6, <1>8 DEF h, o, cancels
<1>9. CASE ~G!Excused(g, o) /\ bid.delivered
  <2>1. h = [f EXCEPT !.streak = 0]
    BY <1>5, <1>9
  <2>2. /\ h \in GuardRecord /\ h.streak = 0 /\ h.hold = g.hold
        /\ h.tracked = rest /\ h.cancels = cancels
    BY <1>6, <2>1 DEF GuardRecord
  <2> QED
    BY <1>2, <1>9, <2>2 DEF h, o, cancels
<1>10. CASE ~G!Excused(g, o) /\ ~bid.delivered
  <2> DEFINE c == [f EXCEPT !.streak = f.streak + 1]
  <2>1. h = IF c.streak >= ChurnStreakThreshold /\ g.hold = G!NoHold
            THEN [c EXCEPT !.hold = G!ChurnHold] ELSE c
    BY <1>5, <1>10
  <2>2. /\ c \in GuardRecord /\ c.streak = g.streak + 1
        /\ c.tracked = rest /\ c.cancels = cancels /\ c.hold = g.hold
    BY <1>7
  <2> HIDE DEF c
  <2>3. /\ [c EXCEPT !.hold = G!ChurnHold] \in GuardRecord
        /\ [c EXCEPT !.hold = G!ChurnHold].streak = g.streak + 1
        /\ [c EXCEPT !.hold = G!ChurnHold].hold = G!ChurnHold
        /\ [c EXCEPT !.hold = G!ChurnHold].tracked = rest
        /\ [c EXCEPT !.hold = G!ChurnHold].cancels = cancels
    BY <2>2 DEF GuardRecord, HoldType
  <2>4. /\ h \in GuardRecord /\ h.streak = g.streak + 1
        /\ h.tracked = rest /\ h.cancels = cancels
        /\ h.hold = IF h.streak >= ChurnStreakThreshold /\ g.hold = G!NoHold
                    THEN G!ChurnHold ELSE g.hold
    BY <2>1, <2>2, <2>3
  <2> QED
    BY <1>2, <1>10, <2>4 DEF h, o, cancels
<1> QED
  BY <1>8, <1>9, <1>10

-----------------------------------------------------------------------------
(* The walk *)

\* The orders that the first i departures are about, and those that count.
Left(g, present, i) ==
    {o \in Orders :
        \E j \in 1..i : g.tracked[j].order = o /\ o \notin present}

Counted(g, present, i) == {o \in Left(g, present, i) : ~G!Excused(g, o)}

\* w is what the guard has become of g after them.
WalkedTo(g, present, i, w) ==
    /\ w \in GuardRecord
    /\ Distinct(w.tracked)
    /\ \A x : HasOrder(w.tracked, x)
                 <=> HasOrder(g.tracked, x) /\ x \notin Left(g, present, i)
    /\ \A o \in Orders :
          w.cancels[o] = IF o \in Left(g, present, i) THEN G!NoCancel
                         ELSE g.cancels[o]
    /\ \/ w.hold = g.hold
       \/ g.hold = G!NoHold /\ w.hold = G!ChurnHold
    /\ Counted(g, present, i) = {} => w.streak = g.streak /\ w.hold = g.hold
    /\ w.streak <= g.streak + Cardinality(Counted(g, present, i))
    /\ \A S \in SUBSET Orders :
          /\ g.streak <= Cardinality(S)
          /\ S \cap Counted(g, present, i) = {}
          => /\ w.streak <= Cardinality(S \cup Counted(g, present, i))
             /\ w.hold # g.hold => ChurnStreakThreshold
                                     <= Cardinality(S \cup Counted(g, present, i))
    /\ g.streak < ChurnStreakThreshold /\ g.hold.kind # "blacklist" =>
          (w.streak >= ChurnStreakThreshold => w.hold = G!ChurnHold)

LEMMA WalkStep ==
    ASSUME NEW g \in GuardRecord, Distinct(g.tracked), NEW present,
           NEW i \in 1..Len(g.tracked), NEW v, WalkedTo(g, present, i - 1, v),
           NEW w,
           w = IF g.tracked[i].order \in present THEN v
               ELSE G!Departed(v, g.tracked[i])
    PROVE  WalkedTo(g, present, i, w)
<1> DEFINE bid == g.tracked[i]
           o == bid.order
           L0 == Left(g, present, i - 1)
           L1 == Left(g, present, i)
           C0 == Counted(g, present, i - 1)
           C1 == Counted(g, present, i)
<1>1. /\ Len(g.tracked) \in Nat /\ bid \in TrackedType /\ o \in Orders
  <2>1. g.tracked \in Seq(TrackedType)
    BY DEF GuardRecord
  <2>2. Len(g.tracked) \in Nat /\ bid \in TrackedType
    BY <2>1, LenProperties, ElementOfSeq
  <2> QED
    BY <2>2 DEF TrackedType
<1>2. 1..i = 1..(i - 1) \cup {i}
  BY <1>1
<1>3. L1 = IF o \in present THEN L0 ELSE L0 \cup {o}
  BY <1>1, <1>2 DEF Left
<1>4. o \notin L0
  <2> SUFFICES ASSUME o \in L0 PROVE FALSE
    OBVIOUS
  <2>1. PICK j \in 1..(i - 1) : g.tracked[j].order = o
    BY DEF Left
  <2>2. j \in 1..Len(g.tracked) /\ j # i
    BY <1>1
  <2> QED
    BY <2>1, <2>2 DEF Distinct
<1>5. C1 = IF o \notin present /\ ~G!Excused(g, o) THEN C0 \cup {o} ELSE C0
  BY <1>3 DEF Counted
<1>6. CASE o \in present
  <2>1. w = v /\ L1 = L0 /\ C1 = C0
    BY <1>3, <1>5, <1>6
  <2> HIDE DEF L0, L1, C0, C1
  <2> QED
    BY <2>1 DEF WalkedTo, L0, L1, C0, C1
<1>7. CASE o \notin present
  <2>1. w = G!Departed(v, bid)
    BY <1>7
  <2>2. /\ v \in GuardRecord /\ Distinct(v.tracked)
        /\ \A x : HasOrder(v.tracked, x) <=> HasOrder(g.tracked, x) /\ x \notin L0
        /\ \A x \in Orders : v.cancels[x] = IF x \in L0 THEN G!NoCancel
                                            ELSE g.cancels[x]
    BY DEF WalkedTo
  <2>3. HasOrder(g.tracked, o)
    BY DEF HasOrder
  <2> HIDE DEF bid, o, L0, L1, C0, C1
  <2>4. HasOrder(v.tracked, o)
    BY <1>4, <2>2, <2>3
  <2>5. v.cancels[o] = g.cancels[o]
    BY <1>1, <1>4, <2>2
  <2>6. G!Excused(v, o) <=> G!Excused(g, o)
    BY <2>5 DEF G!Excused
  <2>7. /\ w \in GuardRecord
        /\ Distinct(w.tracked)
        /\ \A x : HasOrder(w.tracked, x) <=> HasOrder(v.tracked, x) /\ x # o
        /\ w.cancels = [v.cancels EXCEPT ![o] = G!NoCancel]
        /\ G!Excused(v, o) => w.streak = v.streak /\ w.hold = v.hold
        /\ ~G!Excused(v, o) =>
              \/ w.streak = 0 /\ w.hold = v.hold
              \/ /\ w.streak = v.streak + 1
                 /\ w.hold = IF w.streak >= ChurnStreakThreshold
                                   /\ v.hold = G!NoHold
                             THEN G!ChurnHold ELSE v.hold
    <3>1. HasOrder(v.tracked, bid.order)
      BY <2>4 DEF o
    <3> DEFINE h == G!Departed(v, bid)
    <3>2. v \in GuardRecord /\ Distinct(v.tracked) /\ bid \in TrackedType
      BY <1>1, <2>2
    <3>3. /\ h \in GuardRecord
          /\ Distinct(h.tracked)
          /\ \A x : HasOrder(h.tracked, x)
                       <=> HasOrder(v.tracked, x) /\ x # bid.order
          /\ h.cancels = [v.cancels EXCEPT ![bid.order] = G!NoCancel]
          /\ G!Excused(v, bid.order) => h.streak = v.streak /\ h.hold = v.hold
          /\ ~G!Excused(v, bid.order) =>
                \/ h.streak = 0 /\ h.hold = v.hold
                \/ /\ h.streak = v.streak + 1
                   /\ h.hold = IF h.streak >= ChurnStreakThreshold
                                     /\ v.hold = G!NoHold
                               THEN G!ChurnHold ELSE v.hold
      BY <3>1, <3>2, DepartedOne
    <3>4. w = h
      BY <2>1
    <3> HIDE DEF h
    <3> QED
      BY <3>3, <3>4 DEF o
  <2>8. L1 = L0 \cup {o}
    BY <1>3, <1>7
  <2>9. \A x : HasOrder(w.tracked, x) <=> HasOrder(g.tracked, x) /\ x \notin L1
    BY <2>2, <2>7, <2>8
  <2>10. \A x \in Orders : w.cancels[x] = IF x \in L1 THEN G!NoCancel
                                          ELSE g.cancels[x]
    BY <1>1, <2>2, <2>7, <2>8 DEF GuardRecord
  <2>11. \/ v.hold = g.hold
         \/ g.hold = G!NoHold /\ v.hold = G!ChurnHold
    BY DEF WalkedTo
  <2>12. \/ w.hold = g.hold
         \/ g.hold = G!NoHold /\ w.hold = G!ChurnHold
    BY <2>6, <2>7, <2>11
  <2>13. C1 = {} => w.streak = g.streak /\ w.hold = g.hold
    <3>1. C0 = {} => v.streak = g.streak /\ v.hold = g.hold
      BY DEF WalkedTo, C0
    <3> QED
      BY <1>5, <1>7, <2>6, <2>7, <3>1
  <2>16. w.streak <= g.streak + Cardinality(C1)
    <3>1. v.streak <= g.streak + Cardinality(C0)
      BY DEF WalkedTo, C0
    <3>2. C0 \subseteq Orders
      BY DEF C0, Counted, Left
    <3>3. IsFiniteSet(C0) /\ Cardinality(C0) \in Nat
      BY <3>2, ListingAssumption, FS_Subset, FS_CardinalityType
    <3>4. v.streak \in Nat /\ w.streak \in Nat /\ g.streak \in Nat
      BY <2>2, <2>7 DEF GuardRecord
    <3>5. CASE G!Excused(g, o)
      BY <1>5, <2>6, <2>7, <3>1, <3>5
    <3>6. CASE ~G!Excused(g, o)
      <4>1. C1 = C0 \cup {o} /\ o \notin C0
        BY <1>4, <1>5, <1>7, <3>6 DEF C0, Counted, L0
      <4>2. Cardinality(C1) = Cardinality(C0) + 1
        BY <3>3, <4>1, FS_AddElement
      <4> QED
        BY <2>6, <2>7, <3>1, <3>3, <3>4, <3>6, <4>2
    <3> QED
      BY <3>5, <3>6
  <2>14. ASSUME NEW S \in SUBSET Orders, g.streak <= Cardinality(S), S \cap C1 = {}
         PROVE  /\ w.streak <= Cardinality(S \cup C1)
                /\ w.hold # g.hold => ChurnStreakThreshold <= Cardinality(S \cup C1)
    <3>1. S \cap C0 = {}
      BY <1>5, <2>14
    <3>2. /\ v.streak <= Cardinality(S \cup C0)
          /\ v.hold # g.hold => ChurnStreakThreshold <= Cardinality(S \cup C0)
      BY <2>14, <3>1 DEF WalkedTo, C0
    <3>3. C0 \subseteq Orders
      BY DEF C0, Counted, Left
    <3>4. IsFiniteSet(S \cup C0) /\ Cardinality(S \cup C0) \in Nat
      BY <3>3, ListingAssumption, FS_Subset, FS_CardinalityType
    <3>5. v.streak \in Nat /\ w.streak \in Nat
      BY <2>2, <2>7 DEF GuardRecord
    <3>6. CASE G!Excused(g, o)
      BY <1>5, <2>6, <2>7, <3>2, <3>6
    <3>7. CASE ~G!Excused(g, o)
      <4>1. C1 = C0 \cup {o} /\ o \notin S /\ o \notin C0
        BY <1>4, <1>5, <1>7, <2>14, <3>7 DEF C0, Counted, L0
      <4>2. S \cup C1 = (S \cup C0) \cup {o}
        BY <4>1
      <4>3. Cardinality(S \cup C1) = Cardinality(S \cup C0) + 1
        BY <3>4, <4>1, <4>2, FS_AddElement
      <4>4. w.streak <= Cardinality(S \cup C1)
        BY <2>6, <2>7, <3>2, <3>4, <3>5, <3>7, <4>3
      <4>5. ASSUME w.hold # g.hold
            PROVE  ChurnStreakThreshold <= Cardinality(S \cup C1)
        <5>1. CASE v.hold # g.hold
          BY <3>2, <3>4, <4>3, <5>1, GuardAssumption
        <5>2. CASE v.hold = g.hold
          <6>1. w.streak >= ChurnStreakThreshold
            BY <2>6, <2>7, <3>7, <4>5, <5>2
          <6> QED
            BY <3>4, <3>5, <4>3, <4>4, <6>1, GuardAssumption
        <5> QED
          BY <5>1, <5>2
      <4> QED
        BY <4>4, <4>5
    <3> QED
      BY <3>6, <3>7
  <2>15. ASSUME g.streak < ChurnStreakThreshold, g.hold.kind # "blacklist",
                w.streak >= ChurnStreakThreshold
         PROVE  w.hold = G!ChurnHold
    <3>1. v.streak >= ChurnStreakThreshold => v.hold = G!ChurnHold
      BY <2>15 DEF WalkedTo
    <3>2. v.streak \in Nat /\ w.streak \in Nat /\ g.hold \in HoldType
      BY <2>2, <2>7 DEF GuardRecord
    <3>3. g.hold = G!NoHold \/ g.hold = G!ChurnHold
      BY <2>15, <3>2 DEF HoldType, G!BlacklistHold
    <3>4. v.hold = G!NoHold \/ v.hold = G!ChurnHold
      BY <2>11, <3>3
    <3>5. G!NoHold # G!ChurnHold
      BY DEF G!NoHold, G!ChurnHold
    <3>6. CASE G!Excused(g, o)
      BY <2>6, <2>7, <2>15, <3>1, <3>6
    <3>7. CASE ~G!Excused(g, o) /\ w.streak = 0
      BY <2>15, <3>7, GuardAssumption
    <3>8. CASE ~G!Excused(g, o) /\ w.streak # 0
      BY <2>6, <2>7, <2>15, <3>4, <3>8
    <3> QED
      BY <3>6, <3>7, <3>8
  <2> QED
    BY <2>7, <2>9, <2>10, <2>12, <2>13, <2>14, <2>15, <2>16 DEF WalkedTo, L1, C1
<1> QED
  BY <1>6, <1>7

LEMMA WalkInvariant ==
    ASSUME NEW g \in GuardRecord, Distinct(g.tracked), NEW present
    PROVE  WalkedTo(g, present, Len(g.tracked),
                    G!Walk(g, present)[Len(g.tracked)])
<1> DEFINE n == Len(g.tracked)
           w == G!Walk(g, present)
           Good == {k \in Nat : k <= n => WalkedTo(g, present, k, w[k])}
<1>1. n \in Nat
  BY LenProperties DEF GuardRecord
<1>2. /\ w[0] = g
      /\ \A i \in 1..n : w[i] = IF g.tracked[i].order \in present THEN w[i - 1]
                                ELSE G!Departed(w[i - 1], g.tracked[i])
  BY <1>1, WalkSteps
<1> HIDE DEF w, n
<1>3. WalkedTo(g, present, 0, w[0])
  <2>1. Left(g, present, 0) = {} /\ Counted(g, present, 0) = {}
    BY DEF Left, Counted
  <2>2. \A S \in SUBSET Orders : S \cup Counted(g, present, 0) = S
    BY <2>1
  <2>3. g.streak \in Nat
    BY DEF GuardRecord
  <2>4. Cardinality(Counted(g, present, 0)) = 0
    BY <2>1, FS_EmptySet
  <2> QED
    BY <1>2, <2>1, <2>2, <2>3, <2>4, GuardAssumption DEF WalkedTo
<1>4. ASSUME NEW k \in Nat, k \in Good
      PROVE  k + 1 \in Good
  <2> SUFFICES ASSUME k + 1 <= n PROVE WalkedTo(g, present, k + 1, w[k + 1])
    OBVIOUS
  <2>1. k + 1 \in 1..n /\ (k + 1) - 1 = k
    BY <1>1
  <2>2. WalkedTo(g, present, k, w[k])
    BY <1>1, <1>4
  <2>3. w[k + 1] = IF g.tracked[k + 1].order \in present THEN w[k]
                   ELSE G!Departed(w[k], g.tracked[k + 1])
    BY <1>2, <2>1
  <2> QED
    BY <2>1, <2>2, <2>3, WalkStep DEF n
<1>5. Good = Nat
  <2>1. 0 \in Good /\ Good \in SUBSET Nat
    BY <1>3
  <2> HIDE DEF Good
  <2> QED
    BY <1>4, <2>1, SetInduction
<1> QED
  BY <1>1, <1>5 DEF n, w

-----------------------------------------------------------------------------
(* observeBids() and observeExecuted() *)

Departures(g, present) == {o \in Orders : HasOrder(g.tracked, o) /\ o \notin present}

Cycles(g, present) == {o \in Departures(g, present) : ~G!Excused(g, o)}

\* What becomes of the guard, told of the orders that are present.
ObservedAs(g, present, h) ==
    /\ h \in GuardRecord
    /\ Distinct(h.tracked)
    /\ \A x : HasOrder(h.tracked, x) <=> x \in present
    /\ \A o \in Orders :
          h.cancels[o] =
             IF o \in Departures(g, present) \/ g.cancels[o] > OwnCancelMemory
             THEN G!NoCancel ELSE g.cancels[o]
    /\ \/ h.hold = g.hold
       \/ g.hold = G!NoHold /\ h.hold = G!ChurnHold
    /\ Cycles(g, present) = {} => h.streak = g.streak /\ h.hold = g.hold
    /\ h.streak <= g.streak + Cardinality(Cycles(g, present))
    /\ \A S \in SUBSET Orders :
          /\ g.streak <= Cardinality(S)
          /\ S \cap Cycles(g, present) = {}
          => /\ h.streak <= Cardinality(S \cup Cycles(g, present))
             /\ h.hold # g.hold =>
                   ChurnStreakThreshold <= Cardinality(S \cup Cycles(g, present))
    /\ g.streak < ChurnStreakThreshold /\ g.hold.kind # "blacklist" =>
          (h.streak >= ChurnStreakThreshold => h.hold = G!ChurnHold)

LEMMA ObservedAll ==
    ASSUME NEW g \in GuardRecord, Distinct(g.tracked),
           NEW present \in SUBSET Orders, NEW delivering,
           NEW h, h = G!Observed(g, present, delivering, TRUE)
    PROVE  ObservedAs(g, present, h)
<1> DEFINE now == G!Tracking(g, present, delivering)
           n == Len(now.tracked)
           w == G!Walk(now, present)[n]
<1>1. /\ now \in GuardRecord
      /\ now.hold = g.hold /\ now.streak = g.streak /\ now.cancels = g.cancels
      /\ Distinct(now.tracked)
      /\ \A x : HasOrder(now.tracked, x) <=> HasOrder(g.tracked, x) \/ x \in present
  BY TrackingAll
<1>2. h = G!Forgetting(w)
  BY DEF G!Observed
<1> HIDE DEF now
<1>3. WalkedTo(now, present, n, w)
  BY <1>1, WalkInvariant
<1> HIDE DEF w
<1>4. Left(now, present, n) = Departures(g, present)
  BY <1>1 DEF Left, Departures, HasOrder
<1>5. \A o : G!Excused(now, o) <=> G!Excused(g, o)
  BY <1>1 DEF G!Excused
<1>6. Counted(now, present, n) = Cycles(g, present)
  BY <1>4, <1>5 DEF Counted, Cycles
<1>7. w \in GuardRecord
  BY <1>3 DEF WalkedTo
<1> DEFINE kept == [o \in Orders |-> IF w.cancels[o] > OwnCancelMemory
                                     THEN G!NoCancel ELSE w.cancels[o]]
<1>8. h = [w EXCEPT !.cancels = kept]
  BY <1>2, <1>7 DEF G!Forgetting, GuardRecord
<1>9. kept \in [Orders -> {G!NoCancel} \cup 0..(OwnCancelMemory + 1)]
  BY <1>7 DEF GuardRecord
<1>10. \A o \in Orders : kept[o] = IF w.cancels[o] > OwnCancelMemory
                                   THEN G!NoCancel ELSE w.cancels[o]
  OBVIOUS
<1> HIDE DEF kept
<1>11. /\ h \in GuardRecord /\ h.cancels = kept
       /\ h.tracked = w.tracked /\ h.hold = w.hold /\ h.streak = w.streak
  BY <1>7, <1>8, <1>9 DEF GuardRecord
<1>12. \A x : HasOrder(w.tracked, x) <=> x \in present
  <2>1. \A x : HasOrder(w.tracked, x)
                  <=> HasOrder(now.tracked, x) /\ x \notin Departures(g, present)
    BY <1>3, <1>4 DEF WalkedTo
  <2>2. \A x : HasOrder(g.tracked, x) => x \in Orders
    <3>1. g.tracked \in Seq(TrackedType)
      BY DEF GuardRecord
    <3>2. \A i \in 1..Len(g.tracked) : g.tracked[i] \in TrackedType
      BY <3>1, ElementOfSeq
    <3> QED
      BY <3>2 DEF HasOrder, TrackedType
  <2> QED
    BY <1>1, <2>1, <2>2 DEF Departures
<1>13. \A o \in Orders :
          h.cancels[o] = IF o \in Departures(g, present)
                              \/ g.cancels[o] > OwnCancelMemory
                         THEN G!NoCancel ELSE g.cancels[o]
  <2> SUFFICES ASSUME NEW o \in Orders
               PROVE  h.cancels[o] = IF o \in Departures(g, present)
                                          \/ g.cancels[o] > OwnCancelMemory
                                     THEN G!NoCancel ELSE g.cancels[o]
    OBVIOUS
  <2>1. w.cancels[o] = IF o \in Departures(g, present) THEN G!NoCancel
                       ELSE g.cancels[o]
    BY <1>1, <1>3, <1>4 DEF WalkedTo
  <2>2. ~(G!NoCancel > OwnCancelMemory)
    BY GuardAssumption DEF G!NoCancel
  <2> QED
    BY <1>10, <1>11, <2>1, <2>2
<1>14. /\ Distinct(w.tracked)
       /\ \/ w.hold = g.hold
          \/ g.hold = G!NoHold /\ w.hold = G!ChurnHold
       /\ Cycles(g, present) = {} => w.streak = g.streak /\ w.hold = g.hold
       /\ w.streak <= g.streak + Cardinality(Cycles(g, present))
       /\ \A S \in SUBSET Orders :
             /\ g.streak <= Cardinality(S)
             /\ S \cap Cycles(g, present) = {}
             => /\ w.streak <= Cardinality(S \cup Cycles(g, present))
                /\ w.hold # g.hold =>
                      ChurnStreakThreshold <= Cardinality(S \cup Cycles(g, present))
       /\ g.streak < ChurnStreakThreshold /\ g.hold.kind # "blacklist" =>
             (w.streak >= ChurnStreakThreshold => w.hold = G!ChurnHold)
  BY <1>1, <1>3, <1>6 DEF WalkedTo
<1> QED
  BY <1>11, <1>12, <1>13, <1>14 DEF ObservedAs

LEMMA ExecutedAll ==
    ASSUME NEW g \in GuardRecord, NEW cancels, NEW expiries \in SUBSET Nat,
           NEW h, h = G!Executed(g, cancels, expiries)
    PROVE  /\ h \in GuardRecord
           /\ h.tracked = g.tracked /\ h.streak = g.streak
           /\ \A o \in Orders :
                 h.cancels[o] = IF o \in cancels THEN 0 ELSE g.cancels[o]
           /\ expiries = {} => h.hold = g.hold
           /\ expiries # {} => h.hold.kind = "blacklist"
<1> DEFINE all == [o \in Orders |-> IF o \in cancels THEN 0 ELSE g.cancels[o]]
           w == [g EXCEPT !.cancels = all]
           e == CHOOSE x \in expiries : TRUE
<1>1. all \in [Orders -> {G!NoCancel} \cup 0..(OwnCancelMemory + 1)]
  BY GuardAssumption DEF GuardRecord
<1>2. \A o \in Orders : all[o] = IF o \in cancels THEN 0 ELSE g.cancels[o]
  OBVIOUS
<1>3. h = IF expiries = {} THEN w
          ELSE [w EXCEPT !.hold = G!BlacklistHold(G!HoldUntil(e))]
  BY DEF G!Executed, G!WithCancels, G!Blacklisted, GuardRecord
<1>4. expiries # {} => G!HoldUntil(e) \in Nat
  <2>1. expiries # {} => e \in Nat
    OBVIOUS
  <2> HIDE DEF e
  <2> QED
    BY <2>1, GuardAssumption DEF G!HoldUntil
<1> HIDE DEF all, e
<1>5. /\ w \in GuardRecord /\ w.tracked = g.tracked /\ w.streak = g.streak
      /\ w.cancels = all /\ w.hold = g.hold
  BY <1>1 DEF GuardRecord
<1> HIDE DEF w
<1>6. CASE expiries = {}
  BY <1>2, <1>3, <1>5, <1>6
<1>7. CASE expiries # {}
  <2> DEFINE until == G!BlacklistHold(G!HoldUntil(e))
  <2>1. until \in HoldType /\ until.kind = "blacklist"
    BY <1>4, <1>7 DEF HoldType, G!BlacklistHold
  <2>2. h = [w EXCEPT !.hold = until]
    BY <1>3, <1>7
  <2> HIDE DEF until
  <2>3. /\ h \in GuardRecord /\ h.tracked = w.tracked /\ h.streak = w.streak
        /\ h.cancels = w.cancels /\ h.hold = until
    BY <1>5, <2>1, <2>2 DEF GuardRecord
  <2> QED
    BY <1>2, <1>5, <1>7, <2>1, <2>3
<1> QED
  BY <1>6, <1>7

-----------------------------------------------------------------------------
(* The steps *)

\* A CREATE that Braiins refuses because of its blacklist.
Refused(t, p) ==
    /\ MaySend(t, p)
    /\ p.kind = "CREATE_BID"
    /\ Failed(t, p)
    /\ UNCHANGED <<orders, ledger, runMode, poolFails, cancelled, faults>>

\* What a step of the guarded controller does to the controller.
ControllerMoves ==
    \/ \E t \in Ticks : Begin(t) \/ ReadList(t) \/ SyncLedger(t)
    \/ \E t \in Ticks : DecideGuarded(t)
    \/ \E t \in Ticks : \E p \in tick[t].todo : Refused(t, p)
    \/ \E t \in Ticks : Execute(t)
    \/ \E t \in Ticks : Record(t)
    \/ \E t \in Ticks : Finish(t)
    \/ Surroundings
    \/ UNCHANGED vars

LEMMA EveryStepMoves ==
    ASSUME [GuardedNext]_allVars
    PROVE  ControllerMoves
<1>1. CASE UNCHANGED allVars
  BY <1>1 DEF allVars, ControllerMoves
<1>2. ASSUME NEW t \in Ticks, GuardedStep(t)
      PROVE  ControllerMoves
  <2>1. CASE (Begin(t) \/ SyncLedger(t) \/ Record(t)) /\ UNCHANGED guardVars
    BY <2>1 DEF ControllerMoves
  <2>2. CASE HearList(t)
    BY <2>2 DEF HearList, ControllerMoves
  <2>3. CASE DecideGuarded(t)
    BY <2>3 DEF ControllerMoves
  <2>4. CASE Send(t)
    <3>1. PICK p \in tick[t].todo :
            \/ SendRefused(t, p)
            \/ \/ SendCreate(t, p) \/ SendEditPrice(t, p) \/ SendEditSpeed(t, p)
               \/ SendCancel(t, p) \/ ExecutePause(t, p)
      BY <2>4 DEF Send
    <3>2. CASE SendRefused(t, p)
      BY <3>2 DEF SendRefused, Refused, ControllerMoves
    <3>3. CASE ~SendRefused(t, p)
      BY <3>1, <3>3 DEF Execute, ControllerMoves
    <3> QED
      BY <3>2, <3>3
  <2>5. CASE FinishTick(t)
    BY <2>5 DEF FinishTick, ControllerMoves
  <2> QED
    BY <1>2, <2>1, <2>2, <2>3, <2>4, <2>5 DEF GuardedStep
<1>3. CASE StoreHold \/ ClearHold \/ (\E o \in Orders : Deliver(o))
             \/ (\E minutes \in Bans : Blacklist(minutes))
  BY <1>3 DEF StoreHold, ClearHold, Deliver, Blacklist, ControllerMoves
<1>4. CASE GuardedCrash \/ GuardedMinute
  BY <1>4 DEF GuardedCrash, GuardedMinute, ControllerMoves, Surroundings
<1>5. CASE \/ \E mode \in RunModes : SetRunMode(mode)
           \/ \E o \in Orders :
                 \/ CancelStaleUrl(o) \/ RecordStaleUrl(o)
                 \/ Surface(o) \/ Leave(o) \/ PauseOrResume(o) \/ PlaceByHand(o)
  BY <1>5 DEF ControllerMoves, Surroundings
<1> QED
  BY <1>1, <1>2, <1>3, <1>4, <1>5 DEF GuardedNext

LEMMA MovesType ==
    ASSUME TypeOK, ControllerMoves
    PROVE  TypeOK'
<1>1. CASE \E t \in Ticks : Begin(t) \/ ReadList(t) \/ SyncLedger(t)
  BY <1>1, ObserveType DEF Observe
<1>2. CASE \E t \in Ticks : DecideGuarded(t)
  BY <1>2, DecideType DEF DecideGuarded
<1>3. ASSUME NEW t \in Ticks, NEW p \in tick[t].todo, Refused(t, p)
      PROVE  TypeOK'
  <2>1. tick' \in [Ticks -> TickType]
    BY <1>3, FailedType DEF Refused
  <2> QED
    BY <1>3, <2>1 DEF Refused, TypeOK
<1>4. CASE UNCHANGED vars
  BY <1>4 DEF vars, TypeOK
<1> QED
  BY <1>1, <1>2, <1>3, <1>4, ExecuteType, RecordType, SurroundingsType
     DEF ControllerMoves

\* What a step does to the guard.
GuardMoves ==
    \/ UNCHANGED guard
    \/ \E t \in Ticks : DecideGuarded(t)
    \/ "loop" \in Ticks /\ FinishTick("loop")
    \/ ClearHold
    \/ GuardedCrash
    \/ GuardedMinute

LEMMA EveryGuardMove ==
    ASSUME [GuardedNext]_allVars
    PROVE  GuardMoves
<1>1. CASE UNCHANGED allVars
  BY <1>1 DEF allVars, guardVars, GuardMoves
<1>2. ASSUME NEW t \in Ticks, GuardedStep(t)
      PROVE  GuardMoves
  <2>1. CASE Send(t)
    BY <2>1 DEF Send, SendRefused, guardVars, GuardMoves
  <2>2. CASE FinishTick(t)
    BY <2>2 DEF FinishTick, GuardMoves
  <2> QED
    BY <1>2, <2>1, <2>2 DEF GuardedStep, HearList, guardVars, GuardMoves
<1> QED
  BY <1>1, <1>2 DEF GuardedNext, StoreHold, Deliver, Blacklist, guardVars, GuardMoves

-----------------------------------------------------------------------------
(* Type correctness of the guard *)

LEMMA HoldTypes ==
    /\ G!NoHold \in HoldType /\ G!NoHold.kind = "none" /\ G!NoHold.left = 0
    /\ G!ChurnHold \in HoldType /\ G!ChurnHold.kind = "churn"
    /\ \A h \in HoldType :
          /\ h.kind = "none" <=> h = G!NoHold
          /\ h.kind = "churn" <=> h = G!ChurnHold
          /\ G!NextMinute(h) \in HoldType
          /\ G!NextMinute(h).kind = h.kind
<1>1. /\ G!NoHold \in HoldType /\ G!NoHold.kind = "none" /\ G!NoHold.left = 0
      /\ G!ChurnHold \in HoldType /\ G!ChurnHold.kind = "churn"
  BY DEF HoldType, G!NoHold, G!ChurnHold
<1>2. ASSUME NEW h \in HoldType
      PROVE  /\ h.kind = "none" <=> h = G!NoHold
             /\ h.kind = "churn" <=> h = G!ChurnHold
             /\ G!NextMinute(h) \in HoldType
             /\ G!NextMinute(h).kind = h.kind
  <2>1. CASE h = G!NoHold
    BY <2>1, <1>1 DEF HoldType, G!NoHold, G!ChurnHold, G!NextMinute
  <2>2. CASE h = G!ChurnHold
    BY <2>2, <1>1 DEF HoldType, G!NoHold, G!ChurnHold, G!NextMinute
  <2>3. CASE h \in [kind : {"blacklist"}, left : Nat]
    <3>1. PICK m \in Nat : h = G!BlacklistHold(m)
      BY <2>3 DEF G!BlacklistHold
    <3> DEFINE left == IF m = 0 THEN 0 ELSE m - 1
    <3>2. left \in Nat
      OBVIOUS
    <3>3. G!NextMinute(h) = [h EXCEPT !.left = left]
      BY <3>1 DEF G!NextMinute, G!BlacklistHold
    <3> HIDE DEF left
    <3>4. G!NextMinute(h) = G!BlacklistHold(left)
      BY <3>1, <3>3 DEF G!BlacklistHold
    <3> QED
      BY <3>1, <3>2, <3>4
         DEF HoldType, G!NoHold, G!ChurnHold, G!BlacklistHold
  <2> QED
    BY <2>1, <2>2, <2>3 DEF HoldType
<1> QED
  BY <1>1, <1>2

LEMMA MinuteOnType ==
    ASSUME NEW g \in GuardRecord
    PROVE  /\ G!MinuteOn(g) \in GuardRecord
           /\ G!MinuteOn(g).hold = G!NextMinute(g.hold)
           /\ G!MinuteOn(g).streak = g.streak
           /\ G!MinuteOn(g).tracked = g.tracked
           /\ \A o \in Orders :
                 G!MinuteOn(g).cancels[o] =
                    IF g.cancels[o] = G!NoCancel \/ g.cancels[o] > OwnCancelMemory
                    THEN g.cancels[o] ELSE g.cancels[o] + 1
<1> DEFINE all == [o \in Orders |->
                     IF g.cancels[o] = G!NoCancel \/ g.cancels[o] > OwnCancelMemory
                     THEN g.cancels[o] ELSE g.cancels[o] + 1]
           next == G!NextMinute(g.hold)
<1>1. g.hold \in HoldType
  BY DEF GuardRecord
<1>2. next \in HoldType
  BY <1>1, HoldTypes
<1>3. all \in [Orders -> {G!NoCancel} \cup 0..(OwnCancelMemory + 1)]
  <2>1. \A o \in Orders :
          g.cancels[o] \in {G!NoCancel} \cup 0..(OwnCancelMemory + 1)
    BY DEF GuardRecord
  <2> QED
    BY <2>1, GuardAssumption
<1>4. \A o \in Orders : all[o] =
        IF g.cancels[o] = G!NoCancel \/ g.cancels[o] > OwnCancelMemory
        THEN g.cancels[o] ELSE g.cancels[o] + 1
  OBVIOUS
<1>5. G!MinuteOn(g) = [g EXCEPT !.hold = next, !.cancels = all]
  BY DEF G!MinuteOn, GuardRecord
<1> HIDE DEF all, next
<1>6. /\ G!MinuteOn(g) \in GuardRecord
      /\ G!MinuteOn(g).hold = next /\ G!MinuteOn(g).streak = g.streak
      /\ G!MinuteOn(g).tracked = g.tracked /\ G!MinuteOn(g).cancels = all
  BY <1>2, <1>3, <1>5 DEF GuardRecord
<1> QED
  BY <1>4, <1>6 DEF next

LEMMA NewGuardType ==
    /\ G!NewGuard \in GuardRecord /\ Distinct(G!NewGuard.tracked)
    /\ G!NewGuard.hold = G!NoHold /\ G!NewGuard.streak = 0
    /\ \A o : ~HasOrder(G!NewGuard.tracked, o)
    /\ \A o \in Orders : G!NewGuard.cancels[o] = G!NoCancel
    /\ \A h \in HoldType :
          /\ G!Hydrated(h) \in GuardRecord
          /\ G!Hydrated(h).hold = h /\ G!Hydrated(h).streak = 0
          /\ G!Hydrated(h).tracked = G!NewGuard.tracked
          /\ G!Hydrated(h).cancels = G!NewGuard.cancels
<1>1. /\ G!NewGuard.hold = G!NoHold /\ G!NewGuard.streak = 0
      /\ G!NewGuard.tracked = << >>
      /\ G!NewGuard.cancels = [o \in Orders |-> G!NoCancel]
      /\ G!NewGuard = [hold |-> G!NoHold, streak |-> 0, tracked |-> << >>,
                       cancels |-> [o \in Orders |-> G!NoCancel]]
  BY DEF G!NewGuard
<1>2. << >> \in Seq(TrackedType) /\ Len(<< >>) = 0
  BY EmptySeq
<1>3. G!NewGuard \in GuardRecord
  BY <1>1, <1>2, HoldTypes DEF GuardRecord
<1>4. \A h \in HoldType :
        /\ G!Hydrated(h) \in GuardRecord
        /\ G!Hydrated(h).hold = h /\ G!Hydrated(h).streak = 0
        /\ G!Hydrated(h).tracked = G!NewGuard.tracked
        /\ G!Hydrated(h).cancels = G!NewGuard.cancels
  BY <1>1, <1>3 DEF G!Hydrated, GuardRecord
<1> QED
  BY <1>1, <1>2, <1>3, <1>4 DEF Distinct, HasOrder

LEMMA RefreshedType ==
    ASSUME NEW g \in GuardRecord
    PROVE  /\ G!Refreshed(g) \in GuardRecord
           /\ G!Refreshed(g).streak = g.streak
           /\ G!Refreshed(g).tracked = g.tracked
           /\ G!Refreshed(g).cancels = g.cancels
           /\ \/ G!Refreshed(g).hold = g.hold
              \/ g.hold.kind = "blacklist" /\ G!Refreshed(g).hold = G!NoHold
  BY HoldTypes DEF G!Refreshed, GuardRecord

LEMMA ClearedType ==
    ASSUME NEW g \in GuardRecord
    PROVE  /\ G!Cleared(g) \in GuardRecord
           /\ G!Cleared(g).tracked = g.tracked
           /\ G!Cleared(g).cancels = g.cancels
           /\ \/ G!Cleared(g) = g
              \/ G!Cleared(g).hold = G!NoHold /\ G!Cleared(g).streak = 0
  BY HoldTypes DEF G!Cleared, GuardRecord

\* The list and the executions of a tick, as the guard is told of them.
LEMMA FedGuard ==
    ASSUME TypeOK, GuardWellFormed, NEW t \in Ticks
    PROVE  \E h \in GuardRecord :
             /\ h = G!Observed(guard, PatchedOwned(t), heard, tick[t].bidsOk)
             /\ Distinct(h.tracked)
             /\ FeedGuard(t) \in GuardRecord
             /\ FeedGuard(t).tracked = h.tracked
             /\ FeedGuard(t).streak = h.streak
             /\ \A o \in Orders : FeedGuard(t).cancels[o] =
                                     IF o \in tick[t].cancels THEN 0
                                     ELSE h.cancels[o]
             /\ refusals = {} => FeedGuard(t).hold = h.hold
             /\ refusals # {} => FeedGuard(t).hold.kind = "blacklist"
<1> DEFINE h == G!Observed(guard, PatchedOwned(t), heard, tick[t].bidsOk)
<1>1. guard \in GuardRecord /\ Distinct(guard.tracked) /\ refusals \in SUBSET Nat
  BY DEF GuardWellFormed, GuardType
<1>2. tick[t].bidsOk \in BOOLEAN /\ PatchedOwned(t) \in SUBSET Orders
  BY DEF TypeOK, TickType, PatchedOwned, OwnedIn, Seen
<1>3. h \in GuardRecord /\ Distinct(h.tracked)
  <2>1. CASE tick[t].bidsOk = TRUE
    <3>1. h = G!Observed(guard, PatchedOwned(t), heard, TRUE)
      BY <2>1
    <3>2. PICK g \in GuardRecord : g = guard
      BY <1>1
    <3>3. PICK p \in SUBSET Orders : p = PatchedOwned(t)
      BY <1>2
    <3>4. Distinct(g.tracked) /\ h = G!Observed(g, p, heard, TRUE)
      BY <1>1, <3>1, <3>2, <3>3
    <3> HIDE DEF h
    <3> QED
      BY <3>4, ObservedAll DEF ObservedAs
  <2>2. CASE tick[t].bidsOk = FALSE
    BY <1>1, <2>2 DEF G!Observed
  <2> QED
    BY <1>2, <2>1, <2>2
<1>4. FeedGuard(t) = G!Executed(h, tick[t].cancels, refusals)
  BY DEF FeedGuard
<1> HIDE DEF h
<1>5. /\ FeedGuard(t) \in GuardRecord
      /\ FeedGuard(t).tracked = h.tracked
      /\ FeedGuard(t).streak = h.streak
      /\ \A o \in Orders : FeedGuard(t).cancels[o] =
                              IF o \in tick[t].cancels THEN 0 ELSE h.cancels[o]
      /\ refusals = {} => FeedGuard(t).hold = h.hold
      /\ refusals # {} => FeedGuard(t).hold.kind = "blacklist"
  BY <1>1, <1>3, <1>4, ExecutedAll
<1> QED
  BY <1>3, <1>5 DEF h

LEMMA FedByList ==
    ASSUME TypeOK, GuardWellFormed, NEW t \in Ticks, tick[t].bidsOk,
           NEW h, h = G!Observed(guard, PatchedOwned(t), heard, tick[t].bidsOk)
    PROVE  ObservedAs(guard, PatchedOwned(t), h)
<1>1. PICK g \in GuardRecord : g = guard
  BY DEF GuardWellFormed, GuardType
<1>2. PICK p \in SUBSET Orders : p = PatchedOwned(t)
  BY DEF PatchedOwned, OwnedIn, Seen
<1>3. tick[t].bidsOk = TRUE
  BY DEF TypeOK, TickType
<1>4. Distinct(g.tracked) /\ h = G!Observed(g, p, heard, TRUE)
  BY <1>1, <1>2, <1>3 DEF GuardWellFormed
<1>5. ObservedAs(g, p, h)
  BY <1>4, ObservedAll
<1> QED
  BY <1>1, <1>2, <1>5

LEMMA GuardWellFormedKept ==
    ASSUME TypeOK, GuardWellFormed, [GuardedNext]_allVars
    PROVE  GuardWellFormed'
<1>0. /\ guard \in GuardRecord /\ Distinct(guard.tracked) /\ stored \in HoldType
      /\ delivered \subseteq Orders /\ heard \subseteq Orders
      /\ ban \in Nat /\ refusals \subseteq Nat /\ guard.hold \in HoldType
  BY DEF GuardWellFormed, GuardType, GuardRecord
<1>1. guard' \in GuardRecord /\ Distinct(guard'.tracked)
  <2>1. CASE UNCHANGED guard
    BY <1>0, <2>1
  <2>2. CASE \E t \in Ticks : DecideGuarded(t)
    BY <1>0, <2>2, RefreshedType DEF DecideGuarded
  <2>3. CASE "loop" \in Ticks /\ FinishTick("loop")
    BY <2>3, FedGuard DEF FinishTick
  <2>4. CASE ClearHold
    BY <1>0, <2>4, ClearedType DEF ClearHold
  <2>5. CASE GuardedCrash
    BY <1>0, <2>5, NewGuardType DEF GuardedCrash, Restarted
  <2>6. CASE GuardedMinute
    BY <1>0, <2>6, MinuteOnType DEF GuardedMinute
  <2> QED
    BY <2>1, <2>2, <2>3, <2>4, <2>5, <2>6, EveryGuardMove DEF GuardMoves
<1>2. stored' \in HoldType
  <2>1. CASE GuardedMinute
    BY <1>0, <2>1, HoldTypes DEF GuardedMinute
  <2>2. CASE ~GuardedMinute
    BY <1>0, <2>2
       DEF GuardedNext, GuardedStep, HearList, DecideGuarded, Send, SendRefused,
           FinishTick, StoreHold, ClearHold, Deliver, Blacklist, GuardedCrash,
           guardVars, allVars
  <2> QED
    BY <2>1, <2>2
<1>3. delivered' \subseteq Orders /\ heard' \subseteq Orders /\ ban' \in Nat
  <2>1. Bans \subseteq Nat
    BY GuardAssumption
  <2>2. CASE GuardedMinute
    BY <1>0, <2>2 DEF GuardedMinute
  <2>3. CASE ~GuardedMinute
    BY <1>0, <2>1, <2>3
       DEF GuardedNext, GuardedStep, HearList, DecideGuarded, Send, SendRefused,
           FinishTick, StoreHold, ClearHold, Deliver, Blacklist, GuardedCrash,
           guardVars, allVars
  <2> QED
    BY <2>2, <2>3
<1>4. refusals' \subseteq Nat
  BY <1>0
     DEF GuardedNext, GuardedStep, HearList, DecideGuarded, Send, SendRefused,
         FinishTick, StoreHold, ClearHold, Deliver, Blacklist, GuardedCrash,
         GuardedMinute, guardVars, allVars
<1> QED
  BY <1>1, <1>2, <1>3, <1>4 DEF GuardWellFormed, GuardType

LEMMA GuardStarts ==
    ASSUME GuardedInit
    PROVE  TypeOK /\ GuardWellFormed
<1>1. TypeOK
  BY ListingAssumption, IdleTickType
     DEF GuardedInit, Init, TypeOK, OrderType, RowType, NoOrder, NoRow, RunModes,
         StratumDownCancelThreshold
<1>2. GuardWellFormed
  BY NewGuardType, HoldTypes DEF GuardedInit, GuardWellFormed, GuardType
<1> QED
  BY <1>1, <1>2

\* The guard and what is stored of it keep their types: a hold is of one of
\* three kinds, and no time left or remembered leaves its range
\* (bid-guard.ts:65-79).
THEOREM GuardTypeHolds == GuardedSpec => []GuardType
<1>1. GuardedInit => TypeOK /\ GuardWellFormed
  BY GuardStarts
<1>2. TypeOK /\ GuardWellFormed /\ [GuardedNext]_allVars
        => (TypeOK /\ GuardWellFormed)'
  BY EveryStepMoves, MovesType, GuardWellFormedKept
<1>3. GuardWellFormed => GuardType
  BY DEF GuardWellFormed
<1> QED
  BY <1>1, <1>2, <1>3, PTL DEF GuardedSpec
-----------------------------------------------------------------------------
(* What a step does to a tick, whoever else runs one *)

Called(t, p) ==
    \/ Refused(t, p)
    \/ SendCreate(t, p) \/ SendEditPrice(t, p) \/ SendEditSpeed(t, p)
    \/ SendCancel(t, p) \/ ExecutePause(t, p)

LEMMA TickCases ==
    ASSUME TypeOK, ControllerMoves, NEW t \in Ticks
    PROVE  \/ tick'[t] = tick[t]
           \/ tick'[t] = IdleTick
           \/ Begin(t) \/ ReadList(t) \/ SyncLedger(t) \/ DecideGuarded(t)
           \/ Record(t)
           \/ \E p \in tick[t].todo : Called(t, p)
<1>0. tick \in [Ticks -> TickType]
  BY DEF TypeOK
<1>1. \A u \in Ticks : \A state : u # t /\ Becomes(u, state) => tick'[t] = tick[t]
  BY <1>0 DEF Becomes
<1>2. ASSUME NEW u \in Ticks, NEW p \in tick[u].todo, Called(u, p), u # t
      PROVE  tick'[t] = tick[t]
  <2>1. (\E o : Accepted(u, p, o)) \/ Failed(u, p) \/ ExecutePause(u, p)
    BY <1>2 DEF Called, Refused, SendCreate, SendEditPrice, SendEditSpeed,
                SendCancel, AnsweredOrLost
  <2> QED
    BY <1>1, <1>2, <2>1 DEF Accepted, Failed, ExecutePause
<1>3. ASSUME NEW u \in Ticks,
             Begin(u) \/ ReadList(u) \/ SyncLedger(u) \/ Record(u), u # t
      PROVE  tick'[t] = tick[t]
  <2>1. \E state : Becomes(u, state)
    BY <1>3 DEF Begin, ReadList, Receive, SyncLedger, Record
  <2> QED
    BY <1>1, <1>3, <2>1
<1>4. CASE \E u \in Ticks : DecideGuarded(u)
  BY <1>1, <1>4 DEF DecideGuarded, DecideNow
<1>5. CASE \E u \in Ticks : \E p \in tick[u].todo : Called(u, p)
  BY <1>2, <1>5
<1>6. CASE \E u \in Ticks : Finish(u)
  BY <1>0, <1>6 DEF Finish, Becomes
<1>7. CASE Surroundings \/ UNCHANGED vars
  BY <1>7 DEF Surroundings, SetRunMode, CancelStaleUrl, RecordStaleUrl, Surface,
     Leave, PauseOrResume, PlaceByHand, Market, Crash, Minute, vars
<1> QED
  BY <1>3, <1>4, <1>5, <1>6, <1>7 DEF ControllerMoves, Execute, Called

LEMMA IdleFields ==
    ASSUME TypeOK, NEW t \in Ticks, tick'[t] = IdleTick
    PROVE  /\ tick'[t].pc = "idle" /\ tick'[t].bidsOk = FALSE
           /\ tick'[t].ids = {} /\ tick'[t].old = {} /\ tick'[t].active = 0
           /\ tick'[t].todo = {} /\ tick'[t].sent = {} /\ tick'[t].cancels = {}
           /\ Seen(t)' = {} /\ OwnedIn(t)' = {}
  BY DEF IdleTick, Seen, OwnedIn, NotListed

LEMMA BeginFields ==
    ASSUME TypeOK, NEW t \in Ticks, Begin(t)
    PROVE  /\ tick[t].pc = "idle"
           /\ tick'[t].pc = "begun" /\ tick'[t].bidsOk = FALSE
           /\ tick'[t].ids = KnownIds /\ tick'[t].old = OldRows
           /\ tick'[t].active = Cardinality({o \in Orders : RowActive(o)})
           /\ tick'[t].todo = {} /\ tick'[t].sent = {} /\ tick'[t].cancels = {}
           /\ Seen(t)' = {} /\ OwnedIn(t)' = {}
           /\ UNCHANGED <<orders, ledger, cancelled, faults>>
<1>1. /\ tick[t].pc = "idle"
      /\ tick'[t].pc = "begun" /\ tick'[t].bidsOk = FALSE
      /\ tick'[t].ids = KnownIds /\ tick'[t].old = OldRows
      /\ tick'[t].active = Cardinality({o \in Orders : RowActive(o)})
      /\ tick'[t].todo = {} /\ tick'[t].sent = {} /\ tick'[t].cancels = {}
      /\ tick'[t].list = [o \in Orders |-> NotListed]
      /\ UNCHANGED <<orders, ledger, cancelled, faults>>
  BY DEF Begin, Becomes, IdleTick, TypeOK
<1>2. Seen(t)' = {}
  BY <1>1 DEF Seen, NotListed
<1> QED
  BY <1>1, <1>2 DEF OwnedIn

LEMMA ReadFields ==
    ASSUME TypeOK, NEW t \in Ticks, ReadList(t)
    PROVE  /\ tick[t].pc = "begun" /\ tick'[t].pc = "read"
           /\ tick'[t].ids = tick[t].ids /\ tick'[t].old = tick[t].old
           /\ tick'[t].active = tick[t].active
           /\ tick'[t].todo = tick[t].todo /\ tick'[t].sent = tick[t].sent
           /\ tick'[t].cancels = tick[t].cancels
           /\ tick'[t].bidsOk \in BOOLEAN
           /\ Seen(t)' \subseteq Listing
           /\ ~tick'[t].bidsOk => Seen(t)' = {}
           /\ tick'[t].bidsOk /\ "blip" \notin Faults => Seen(t)' = Listing
           /\ UNCHANGED <<orders, ledger, cancelled>>
<1>1. PICK ok \in BOOLEAN, ids \in SUBSET Listing :
        /\ Receive(t, ok, ids)
        /\ ~ok => ids = {}
        /\ ok /\ "blip" \notin Faults => ids = Listing
  BY DEF ReadList, Fault
<1>2. /\ tick[t].pc = "begun" /\ tick'[t].pc = "read"
      /\ tick'[t].ids = tick[t].ids /\ tick'[t].old = tick[t].old
      /\ tick'[t].active = tick[t].active
      /\ tick'[t].todo = tick[t].todo /\ tick'[t].sent = tick[t].sent
      /\ tick'[t].cancels = tick[t].cancels
      /\ tick'[t].bidsOk = ok
      /\ tick'[t].list =
           [o \in Orders |-> IF o \in ids THEN Entry(o) ELSE NotListed]
      /\ UNCHANGED <<orders, ledger, cancelled>>
  <2> DEFINE list == [o \in Orders |-> IF o \in ids THEN Entry(o) ELSE NotListed]
             next == [tick[t] EXCEPT !.pc = "read", !.bidsOk = ok, !.list = list]
  <2>1. tick[t].pc = "begun" /\ UNCHANGED <<orders, ledger, cancelled>>
    BY DEF ReadList
  <2>2. tick' = [tick EXCEPT ![t] = next]
    BY <1>1 DEF Receive, Becomes
  <2> HIDE DEF list
  <2>3. /\ next.pc = "read" /\ next.bidsOk = ok /\ next.list = list
        /\ next.ids = tick[t].ids /\ next.old = tick[t].old
        /\ next.active = tick[t].active
        /\ next.todo = tick[t].todo /\ next.sent = tick[t].sent
        /\ next.cancels = tick[t].cancels
    BY DEF TypeOK, TickType
  <2> HIDE DEF next
  <2>4. tick'[t] = next
    BY <2>2 DEF TypeOK
  <2> QED
    BY <2>1, <2>3, <2>4 DEF list
<1>3. \A o \in ids : orders[o].status # "NONE"
  BY DEF Listing, IsLive, Live, Firm
<1>4. ids \subseteq Orders
  BY DEF Listing
<1>5. Seen(t)' = ids
  BY <1>2, <1>3, <1>4 DEF Seen, Entry, NotListed
<1> QED
  BY <1>1, <1>2, <1>5

LEMMA SyncFields ==
    ASSUME TypeOK, NEW t \in Ticks, SyncLedger(t)
    PROVE  /\ tick[t].pc = "read" /\ tick'[t].pc = "synced"
           /\ tick'[t].ids = tick[t].ids /\ tick'[t].old = tick[t].old
           /\ tick'[t].active = tick[t].active
           /\ tick'[t].todo = tick[t].todo /\ tick'[t].sent = tick[t].sent
           /\ tick'[t].cancels = tick[t].cancels
           /\ tick'[t].bidsOk = tick[t].bidsOk
           /\ Seen(t)' = Seen(t) /\ OwnedIn(t)' = OwnedIn(t)
           /\ UNCHANGED <<orders, cancelled>>
           /\ \A o \in Orders :
                 /\ ledger'[o].age = ledger[o].age
                 /\ o \in OwnedIn(t) => ledger'[o].status \in Live
                 /\ o \notin OwnedIn(t) =>
                       ledger'[o].status = IF o \in Vanished(t) THEN "CANCELED"
                                           ELSE ledger[o].status
<1>1. /\ tick[t].pc = "read" /\ tick'[t].pc = "synced"
      /\ tick'[t].ids = tick[t].ids /\ tick'[t].old = tick[t].old
      /\ tick'[t].active = tick[t].active
      /\ tick'[t].todo = tick[t].todo /\ tick'[t].sent = tick[t].sent
      /\ tick'[t].cancels = tick[t].cancels
      /\ tick'[t].bidsOk = tick[t].bidsOk /\ tick'[t].list = tick[t].list
      /\ UNCHANGED <<orders, cancelled>>
  BY DEF SyncLedger, Becomes, TypeOK, TickType
<1>2. Seen(t)' = Seen(t) /\ OwnedIn(t)' = OwnedIn(t)
  BY <1>1 DEF Seen, OwnedIn
<1>3. ASSUME NEW o \in Orders
      PROVE  /\ ledger'[o].age = ledger[o].age
             /\ ledger'[o].status =
                  IF o \in OwnedIn(t) THEN tick[t].list[o].status
                  ELSE IF o \in Vanished(t) THEN "CANCELED"
                  ELSE ledger[o].status
  <2>1. ledger[o] \in RowType
    BY DEF TypeOK
  <2> QED
    BY <2>1 DEF SyncLedger, RowType
<1>4. \A o \in OwnedIn(t) : tick[t].list[o].status \in Live
  BY DEF OwnedIn, Seen, TypeOK, TickType, ListEntry
<1> QED
  BY <1>1, <1>2, <1>3, <1>4

LEMMA DecideFields ==
    ASSUME TypeOK, NEW t \in Ticks, DecideGuarded(t)
    PROVE  /\ tick[t].pc = "synced" /\ tick'[t].pc = "acting"
           /\ tick'[t].ids = tick[t].ids /\ tick'[t].old = tick[t].old
           /\ tick'[t].active = tick[t].active
           /\ tick'[t].sent = tick[t].sent
           /\ tick'[t].cancels = tick[t].cancels
           /\ tick'[t].bidsOk = tick[t].bidsOk
           /\ Seen(t)' = Seen(t) /\ OwnedIn(t)' = OwnedIn(t)
           /\ \A p \in tick'[t].todo :
                /\ p.kind = "CREATE_BID" =>
                     /\ tick'[t].todo = {p}
                     /\ tick[t].active = 0 /\ tick[t].bidsOk
                     /\ OwnedIn(t) = {}
                     /\ guard'.hold = G!NoHold
                /\ p.kind \in {"EDIT_PRICE", "EDIT_SPEED", "CANCEL_BID"} =>
                     p.order \in OwnedIn(t)
           /\ UNCHANGED <<orders, ledger, cancelled, faults>>
<1>1. PICK quote \in Quotes, reachable \in Probes, stale \in NodeStale :
        DecideNow(t, quote, reachable, stale, guard'.hold # G!NoHold)
  BY DEF DecideGuarded
<1> DEFINE held == guard'.hold # G!NoHold
           v == View(t, quote, poolFails', stale, held)
<1>2. /\ tick[t].pc = "synced" /\ tick'[t].pc = "acting"
      /\ tick'[t].ids = tick[t].ids /\ tick'[t].old = tick[t].old
      /\ tick'[t].active = tick[t].active
      /\ tick'[t].sent = tick[t].sent
      /\ tick'[t].cancels = tick[t].cancels
      /\ tick'[t].bidsOk = tick[t].bidsOk /\ tick'[t].list = tick[t].list
      /\ tick'[t].todo = Dispatched(Config, v)
      /\ UNCHANGED <<orders, ledger, cancelled, faults>>
  BY <1>1 DEF DecideNow, Becomes, TypeOK, TickType
<1>3. Seen(t)' = Seen(t) /\ OwnedIn(t)' = OwnedIn(t)
  BY <1>2 DEF Seen, OwnedIn
<1>4. /\ Listed(v) = OwnedIn(t)
      /\ v.bidsOk = tick[t].bidsOk
      /\ v.activeRows = tick[t].active
      /\ v.held = held
  BY DEF View, Listed
<1> HIDE DEF v, held
<1>5. \A p \in Dispatched(Config, v) :
        /\ p.kind = "CREATE_BID" =>
             MayCreate(Config, v) /\ Dispatched(Config, v) = {p}
        /\ p.kind \in {"EDIT_PRICE", "EDIT_SPEED", "CANCEL_BID"} =>
             p.order \in OwnedIn(t)
  BY <1>4, DispatchShape
<1>6. MayCreate(Config, v) =>
        /\ tick[t].active = 0 /\ tick[t].bidsOk
        /\ OwnedIn(t) = {}
        /\ guard'.hold = G!NoHold
  BY <1>4 DEF MayCreate, held
<1> QED
  BY <1>2, <1>3, <1>5, <1>6

\* A call has no effect, or takes effect and is recorded unless its answer is
\* lost.
LEMMA CallFields ==
    ASSUME TypeOK, NEW t \in Ticks, NEW p \in tick[t].todo, Called(t, p)
    PROVE  /\ tick[t].pc = "acting" /\ tick'[t].pc = "acting"
           /\ tick[t].sent = {}
           /\ tick'[t].ids = tick[t].ids /\ tick'[t].old = tick[t].old
           /\ tick'[t].active = tick[t].active
           /\ tick'[t].todo = tick[t].todo \ {p}
           /\ tick'[t].cancels = tick[t].cancels
           /\ tick'[t].bidsOk = tick[t].bidsOk
           /\ Seen(t)' = Seen(t) /\ OwnedIn(t)' = OwnedIn(t)
           /\ UNCHANGED <<ledger, cancelled>>
           /\ \/ tick'[t].sent = {} /\ UNCHANGED orders
              \/ \E o \in Orders :
                    /\ tick'[t].sent \in {{}, {[proposal |-> p, order |-> o]}}
                    /\ p.kind \in {"CREATE_BID", "EDIT_PRICE", "EDIT_SPEED",
                                   "CANCEL_BID"}
                    /\ p.kind # "CREATE_BID" => o = p.order /\ IsLive(o)
                    /\ p.kind = "CREATE_BID" => orders[o].status = "NONE"
                    /\ \A x \in Orders : x # o => orders'[x] = orders[x]
                    /\ p.kind = "CREATE_BID" =>
                         /\ orders'[o].status = "ACTIVE" /\ orders'[o].mine
                         /\ ~orders'[o].listed /\ orders'[o].lag = 0
                    /\ p.kind # "CREATE_BID" =>
                         /\ orders'[o].mine = orders[o].mine
                         /\ orders'[o].listed = orders[o].listed
                         /\ orders'[o].lag = orders[o].lag
                         /\ orders'[o].status =
                              IF p.kind = "CANCEL_BID" THEN "PENDING_CANCEL"
                              ELSE orders[o].status
<1>0. /\ tick[t].pc = "acting" /\ tick[t].sent = {}
      /\ p \in ProposalType /\ tick[t] \in TickType
      /\ \A o \in Orders : orders[o] \in OrderType
      /\ UNCHANGED <<ledger, cancelled>>
  BY DEF Called, Refused, SendCreate, SendEditPrice, SendEditSpeed, SendCancel,
         ExecutePause, MaySend, TypeOK, TickType
<1>1. ASSUME Failed(t, p)
      PROVE  /\ tick'[t].pc = "acting"
             /\ tick'[t].ids = tick[t].ids /\ tick'[t].old = tick[t].old
             /\ tick'[t].active = tick[t].active
             /\ tick'[t].todo = tick[t].todo \ {p}
             /\ tick'[t].cancels = tick[t].cancels
             /\ tick'[t].bidsOk = tick[t].bidsOk
             /\ tick'[t].list = tick[t].list
             /\ tick'[t].sent = {}
  <2> DEFINE failed == tick[t].createFailed \/ p.kind = "CREATE_BID"
             state == [tick[t] EXCEPT !.todo = @ \ {p}, !.createFailed = failed]
  <2>1. tick'[t] = state
    BY <1>1 DEF Failed, Becomes, TypeOK
  <2> HIDE DEF failed
  <2>2. /\ state.pc = "acting"
        /\ state.ids = tick[t].ids /\ state.old = tick[t].old
        /\ state.active = tick[t].active
        /\ state.todo = tick[t].todo \ {p}
        /\ state.cancels = tick[t].cancels
        /\ state.bidsOk = tick[t].bidsOk
        /\ state.list = tick[t].list
        /\ state.sent = {}
    BY <1>0 DEF TickType
  <2> HIDE DEF state
  <2> QED
    BY <2>1, <2>2
<1>2. ASSUME NEW o, Accepted(t, p, o)
      PROVE  /\ tick'[t].pc = "acting"
             /\ tick'[t].ids = tick[t].ids /\ tick'[t].old = tick[t].old
             /\ tick'[t].active = tick[t].active
             /\ tick'[t].todo = tick[t].todo \ {p}
             /\ tick'[t].cancels = tick[t].cancels
             /\ tick'[t].bidsOk = tick[t].bidsOk
             /\ tick'[t].list = tick[t].list
             /\ tick'[t].sent = {[proposal |-> p, order |-> o]}
  BY <1>0, <1>2 DEF Accepted, Becomes, TypeOK, TickType
<1>3. ASSUME ExecutePause(t, p)
      PROVE  /\ tick'[t].pc = "acting"
             /\ tick'[t].ids = tick[t].ids /\ tick'[t].old = tick[t].old
             /\ tick'[t].active = tick[t].active
             /\ tick'[t].todo = tick[t].todo \ {p}
             /\ tick'[t].cancels = tick[t].cancels
             /\ tick'[t].bidsOk = tick[t].bidsOk
             /\ tick'[t].list = tick[t].list
             /\ tick'[t].sent = {}
  BY <1>0, <1>3 DEF ExecutePause, Becomes, TypeOK, TickType
<1>4. (\E o : Accepted(t, p, o)) \/ Failed(t, p) \/ ExecutePause(t, p)
  BY DEF Called, Refused, SendCreate, SendEditPrice, SendEditSpeed,
              SendCancel, AnsweredOrLost
<1>5. /\ tick'[t].pc = "acting"
      /\ tick'[t].ids = tick[t].ids /\ tick'[t].old = tick[t].old
      /\ tick'[t].active = tick[t].active
      /\ tick'[t].todo = tick[t].todo \ {p}
      /\ tick'[t].cancels = tick[t].cancels
      /\ tick'[t].bidsOk = tick[t].bidsOk
      /\ tick'[t].list = tick[t].list
  BY <1>1, <1>2, <1>3, <1>4
<1>6. Seen(t)' = Seen(t) /\ OwnedIn(t)' = OwnedIn(t)
  BY <1>5 DEF Seen, OwnedIn
<1>7. \A o : AnsweredOrLost(t, p, o) =>
        tick'[t].sent \in {{}, {[proposal |-> p, order |-> o]}}
  BY <1>1, <1>2 DEF AnsweredOrLost
<1> DEFINE Effect(o) ==
             /\ tick'[t].sent \in {{}, {[proposal |-> p, order |-> o]}}
             /\ p.kind \in {"CREATE_BID", "EDIT_PRICE", "EDIT_SPEED",
                            "CANCEL_BID"}
             /\ p.kind # "CREATE_BID" => o = p.order /\ IsLive(o)
             /\ p.kind = "CREATE_BID" => orders[o].status = "NONE"
             /\ \A x \in Orders : x # o => orders'[x] = orders[x]
             /\ p.kind = "CREATE_BID" =>
                  /\ orders'[o].status = "ACTIVE" /\ orders'[o].mine
                  /\ ~orders'[o].listed /\ orders'[o].lag = 0
             /\ p.kind # "CREATE_BID" =>
                  /\ orders'[o].mine = orders[o].mine
                  /\ orders'[o].listed = orders[o].listed
                  /\ orders'[o].lag = orders[o].lag
                  /\ orders'[o].status =
                       IF p.kind = "CANCEL_BID" THEN "PENDING_CANCEL"
                       ELSE orders[o].status
<1>8. (tick'[t].sent = {} /\ UNCHANGED orders) \/ \E o \in Orders : Effect(o)
  <2>1. CASE Refused(t, p) \/ ExecutePause(t, p)
    BY <1>1, <1>3, <2>1 DEF Refused, ExecutePause
  <2>2. CASE SendCreate(t, p)
    <3>1. CASE Failed(t, p) /\ UNCHANGED orders
      BY <1>1, <3>1
    <3>2. CASE \E o \in Orders :
                 /\ orders[o].status = "NONE"
                 /\ orders' = [orders EXCEPT ![o] =
                      [status |-> "ACTIVE", mine |-> TRUE, listed |-> FALSE,
                       price |-> p.price, speed |-> p.speed,
                       lag |-> 0, drop |-> Cooldown]]
                 /\ AnsweredOrLost(t, p, o)
      <4>1. PICK o \in Orders :
              /\ orders[o].status = "NONE"
              /\ orders' = [orders EXCEPT ![o] =
                   [status |-> "ACTIVE", mine |-> TRUE, listed |-> FALSE,
                    price |-> p.price, speed |-> p.speed,
                    lag |-> 0, drop |-> Cooldown]]
              /\ AnsweredOrLost(t, p, o)
        BY <3>2
      <4>2. p.kind = "CREATE_BID"
        BY <2>2 DEF SendCreate
      <4> QED
        BY <1>7, <4>1, <4>2 DEF TypeOK
    <3> QED
      BY <2>2, <3>1, <3>2 DEF SendCreate
  <2>3. CASE SendEditPrice(t, p)
    <3>1. p.kind = "EDIT_PRICE" /\ p.order \in Orders
      BY <1>0, <2>3 DEF SendEditPrice, ProposalType, Pause
    <3>2. CASE Failed(t, p) /\ UNCHANGED orders
      BY <1>1, <3>2
    <3>3. CASE /\ PriceAcceptable(p.order, p.price)
               /\ orders' = [orders EXCEPT
                    ![p.order].price = p.price,
                    ![p.order].drop =
                       IF p.price < orders[p.order].price THEN 0 ELSE @]
               /\ AnsweredOrLost(t, p, p.order)
      <4>1. IsLive(p.order)
        BY <3>3 DEF PriceAcceptable, IsLive, Live
      <4>2. /\ \A x \in Orders : x # p.order => orders'[x] = orders[x]
            /\ orders'[p.order].mine = orders[p.order].mine
            /\ orders'[p.order].listed = orders[p.order].listed
            /\ orders'[p.order].lag = orders[p.order].lag
            /\ orders'[p.order].status = orders[p.order].status
        BY <1>0, <3>1, <3>3 DEF TypeOK, OrderType
      <4> QED
        BY <1>7, <3>1, <3>3, <4>1, <4>2
    <3> QED
      BY <2>3, <3>2, <3>3 DEF SendEditPrice
  <2>4. CASE SendEditSpeed(t, p)
    <3>1. p.kind = "EDIT_SPEED" /\ p.order \in Orders
      BY <1>0, <2>4 DEF SendEditSpeed, ProposalType, Pause
    <3>2. CASE Failed(t, p) /\ UNCHANGED orders
      BY <1>1, <3>2
    <3>3. CASE /\ orders[p.order].status \in Firm
               /\ orders' = [orders EXCEPT ![p.order].speed = p.speed]
               /\ AnsweredOrLost(t, p, p.order)
      <4>1. IsLive(p.order)
        BY <3>3 DEF IsLive, Live
      <4>2. /\ \A x \in Orders : x # p.order => orders'[x] = orders[x]
            /\ orders'[p.order].mine = orders[p.order].mine
            /\ orders'[p.order].listed = orders[p.order].listed
            /\ orders'[p.order].lag = orders[p.order].lag
            /\ orders'[p.order].status = orders[p.order].status
        BY <1>0, <3>1, <3>3 DEF TypeOK, OrderType
      <4> QED
        BY <1>7, <3>1, <3>3, <4>1, <4>2
    <3> QED
      BY <2>4, <3>2, <3>3 DEF SendEditSpeed
  <2>5. CASE SendCancel(t, p)
    <3>1. p.kind = "CANCEL_BID" /\ p.order \in Orders
      BY <1>0, <2>5 DEF SendCancel, ProposalType, Pause
    <3>2. CASE Failed(t, p) /\ UNCHANGED orders
      BY <1>1, <3>2
    <3>3. CASE IsLive(p.order) /\ Unwind(p.order) /\ AnsweredOrLost(t, p, p.order)
      <4>1. /\ \A x \in Orders : x # p.order => orders'[x] = orders[x]
            /\ orders'[p.order].mine = orders[p.order].mine
            /\ orders'[p.order].listed = orders[p.order].listed
            /\ orders'[p.order].lag = orders[p.order].lag
            /\ orders'[p.order].status = "PENDING_CANCEL"
        BY <1>0, <3>1, <3>3 DEF Unwind, TypeOK, OrderType
      <4> QED
        BY <1>7, <3>1, <3>3, <4>1
    <3> QED
      BY <2>5, <3>2, <3>3 DEF SendCancel
  <2> QED
    BY <2>1, <2>2, <2>3, <2>4, <2>5 DEF Called
<1> QED
  BY <1>0, <1>5, <1>6, <1>8

LEMMA RecordFields ==
    ASSUME TypeOK, NEW t \in Ticks, Record(t)
    PROVE  \E c \in tick[t].sent :
             /\ c.order \in Orders /\ c.proposal \in ProposalType
             /\ tick'[t].pc = tick[t].pc
             /\ tick'[t].ids = tick[t].ids /\ tick'[t].old = tick[t].old
             /\ tick'[t].active = tick[t].active
             /\ tick'[t].todo = tick[t].todo /\ tick'[t].sent = {}
             /\ tick'[t].cancels =
                  IF c.proposal.kind = "CANCEL_BID"
                  THEN tick[t].cancels \cup {c.order} ELSE tick[t].cancels
             /\ tick'[t].bidsOk = tick[t].bidsOk
             /\ Seen(t)' = Seen(t) /\ OwnedIn(t)' = OwnedIn(t)
             /\ UNCHANGED <<orders, cancelled>>
             /\ \A o \in Orders : o # c.order => ledger'[o] = ledger[o]
             /\ ledger'[c.order] = Recorded(ledger[c.order], c.proposal)
<1>1. PICK c \in tick[t].sent :
        /\ ledger' = [ledger EXCEPT ![c.order] = Recorded(@, c.proposal)]
        /\ Becomes(t, [tick[t] EXCEPT
             !.sent = {},
             !.cancels = IF c.proposal.kind = "CANCEL_BID"
                         THEN @ \cup {c.order} ELSE @])
        /\ UNCHANGED <<orders, cancelled>>
  BY DEF Record
<1>2. c.order \in Orders /\ c.proposal \in ProposalType
  BY DEF TypeOK, TickType
<1>3. /\ tick'[t].pc = tick[t].pc
      /\ tick'[t].ids = tick[t].ids /\ tick'[t].old = tick[t].old
      /\ tick'[t].active = tick[t].active
      /\ tick'[t].todo = tick[t].todo /\ tick'[t].sent = {}
      /\ tick'[t].cancels =
           IF c.proposal.kind = "CANCEL_BID"
           THEN tick[t].cancels \cup {c.order} ELSE tick[t].cancels
      /\ tick'[t].bidsOk = tick[t].bidsOk /\ tick'[t].list = tick[t].list
  BY <1>1 DEF Becomes, TypeOK, TickType
<1>4. /\ \A o \in Orders : o # c.order => ledger'[o] = ledger[o]
      /\ ledger'[c.order] = Recorded(ledger[c.order], c.proposal)
  BY <1>1, <1>2 DEF TypeOK
<1>5. Seen(t)' = Seen(t) /\ OwnedIn(t)' = OwnedIn(t)
  BY <1>3 DEF Seen, OwnedIn
<1> QED
  BY <1>1, <1>2, <1>3, <1>4, <1>5

-----------------------------------------------------------------------------
(* The hold stops CREATEs *)

\* A step but for a decision adds nothing to what a tick is about to do.
LEMMA PlansShrink ==
    ASSUME TypeOK, ControllerMoves, NEW t \in Ticks,
           NEW p, p \in tick'[t].todo
    PROVE  p \in tick[t].todo \/ DecideGuarded(t)
<1>1. CASE tick'[t] = IdleTick
  BY <1>1, IdleFields
<1>2. CASE Begin(t)
  BY <1>2, BeginFields
<1>3. CASE ReadList(t)
  BY <1>3, ReadFields
<1>4. CASE SyncLedger(t)
  BY <1>4, SyncFields
<1>5. CASE Record(t)
  BY <1>5, RecordFields
<1>6. CASE \E q \in tick[t].todo : Called(t, q)
  BY <1>6, CallFields
<1> QED
  BY <1>1, <1>2, <1>3, <1>4, <1>5, <1>6, TickCases

LEMMA RefusalsGrow ==
    ASSUME [GuardedNext]_allVars, TypeOK, refusals' # {}
    PROVE  \/ refusals # {}
           \/ \E p \in tick["loop"].todo :
                 "loop" \in Ticks /\ p.kind = "CREATE_BID" /\ Refused("loop", p)
<1>1. CASE \E t \in Ticks : Send(t)
  <2>1. PICK t \in Ticks : Send(t)
    BY <1>1
  <2>2. PICK p \in tick[t].todo :
          SendRefused(t, p) \/ UNCHANGED guardVars
    BY <2>1 DEF Send
  <2>3. CASE SendRefused(t, p)
    <3>1. p.kind = "CREATE_BID" /\ Refused(t, p)
      BY <2>3 DEF SendRefused, Refused
    <3> QED
      BY <2>3, <3>1 DEF SendRefused
  <2> QED
    BY <2>2, <2>3 DEF guardVars
<1>2. CASE ~ \E t \in Ticks : Send(t)
  BY <1>2 DEF GuardedNext, GuardedStep, HearList, DecideGuarded,
     FinishTick, StoreHold, ClearHold, Deliver, Blacklist, GuardedCrash,
     GuardedMinute, guardVars, allVars
<1> QED
  BY <1>1, <1>2

\* Without a hold there is none after the step, but for the end of a tick of
\* the loop and a crash, which end the plans and the refusals too.
LEMMA HoldComes ==
    ASSUME GuardWellFormed, [GuardedNext]_allVars
    PROVE  \/ guard.hold = G!NoHold => guard'.hold = G!NoHold
           \/ "loop" \in Ticks /\ FinishTick("loop")
           \/ GuardedCrash
<1>0. guard \in GuardRecord /\ guard.hold \in HoldType
  BY DEF GuardWellFormed, GuardType, GuardRecord
<1>1. CASE \E t \in Ticks : DecideGuarded(t)
  BY <1>0, <1>1, RefreshedType, HoldTypes DEF DecideGuarded
<1>2. CASE ClearHold
  BY <1>0, <1>2, ClearedType DEF ClearHold
<1>3. CASE GuardedMinute
  <2>1. guard'.hold = G!NextMinute(guard.hold)
    BY <1>0, <1>3, MinuteOnType DEF GuardedMinute
  <2> QED
    BY <1>0, <2>1, HoldTypes
<1> QED
  BY <1>1, <1>2, <1>3, EveryGuardMove DEF GuardMoves

LEMMA CreatesUnheldKept ==
    ASSUME TypeOK, GuardWellFormed, CreatesUnheld, [GuardedNext]_allVars
    PROVE  CreatesUnheld'
<1>1. ControllerMoves
  BY EveryStepMoves
<1>2. ASSUME NEW t \in Ticks, t = "loop" \/ OneTickAtATime, CreatePlanned(t)'
      PROVE  guard'.hold = G!NoHold
  <2>1. PICK p \in tick'[t].todo : p.kind = "CREATE_BID"
    BY <1>2 DEF CreatePlanned
  <2>2. CASE GuardedCrash
    BY <2>1, <2>2 DEF GuardedCrash, Crash, IdleTick
  <2>3. CASE "loop" \in Ticks /\ FinishTick("loop")
    <3>1. t = "loop"
      BY <1>2, <2>3 DEF OneTickAtATime
    <3> QED
      BY <2>1, <2>3, <3>1 DEF FinishTick, Finish, Becomes, IdleTick, TypeOK
  <2>4. CASE p \in tick[t].todo /\ (guard.hold = G!NoHold => guard'.hold = G!NoHold)
    BY <1>2, <2>1, <2>4 DEF CreatesUnheld, CreatePlanned
  <2>5. CASE DecideGuarded(t)
    BY <2>1, <2>5, DecideFields
  <2> QED
    BY <1>1, <2>1, <2>2, <2>3, <2>4, <2>5, PlansShrink, HoldComes
<1>3. ASSUME refusals' # {}
      PROVE  guard'.hold = G!NoHold
  <2>1. guard.hold = G!NoHold
    BY <1>3, RefusalsGrow DEF CreatesUnheld, CreatePlanned
  <2>2. ~GuardedCrash /\ ~FinishTick("loop")
    BY <1>3 DEF GuardedCrash, FinishTick
  <2> QED
    BY <2>1, <2>2, HoldComes
<1> QED
  BY <1>2, <1>3 DEF CreatesUnheld

LEMMA CreatesUnheldStarts ==
    ASSUME GuardedInit
    PROVE  CreatesUnheld
  BY DEF GuardedInit, Init, IdleTick, CreatesUnheld, CreatePlanned

GuardedInvariant == TypeOK /\ GuardWellFormed /\ CreatesUnheld

LEMMA GuardedInvariantKept ==
    ASSUME GuardedInvariant, [GuardedNext]_allVars
    PROVE  GuardedInvariant'
  BY EveryStepMoves, MovesType, GuardWellFormedKept, CreatesUnheldKept
     DEF GuardedInvariant

\* An order of the daemon comes to life by a CREATE that was planned.
LEMMA LiveGrows ==
    ASSUME TypeOK, ControllerMoves
    PROVE  \/ OwnLive' \subseteq OwnLive
           \/ \E t \in Ticks : CreatePlanned(t)
<1>1. CASE UNCHANGED orders
  BY <1>1 DEF OwnLive, IsLive
<1>2. CASE \E t \in Ticks : \E p \in tick[t].todo : Called(t, p)
  <2>1. PICK t \in Ticks : \E p \in tick[t].todo : Called(t, p)
    BY <1>2
  <2>2. PICK p \in tick[t].todo : Called(t, p)
    BY <2>1
  <2>3. CASE p.kind = "CREATE_BID"
    BY <2>3 DEF CreatePlanned
  <2>4. CASE p.kind # "CREATE_BID"
    <3>1. \A o \in Orders : orders'[o] = orders[o] \/
            (IsLive(o) /\ orders'[o].mine = orders[o].mine)
      BY <2>2, <2>4, CallFields
    <3> QED
      BY <3>1 DEF OwnLive, IsLive
  <2> QED
    BY <2>3, <2>4
<1>3. CASE Minute
  BY <1>3, AfterMinute DEF OwnLive, IsLive
<1>4. CASE \E o \in Orders : CancelStaleUrl(o) \/ RecordStaleUrl(o)
  <2>1. PICK x \in Orders : CancelStaleUrl(x) \/ RecordStaleUrl(x)
    BY <1>4
  <2>2. \A o \in Orders :
          orders'[o] = orders[o] \/
            (IsLive(o) /\ orders'[o] = [orders[o] EXCEPT !.status = "PENDING_CANCEL"])
    BY <2>1, AfterStaleUrl
  <2>3. \A o \in Orders : orders[o] \in OrderType
    BY DEF TypeOK
  <2> QED
    BY <2>2, <2>3 DEF OwnLive, IsLive, OrderType
<1>5. CASE \E o \in Orders :
              Surface(o) \/ Leave(o) \/ PauseOrResume(o) \/ PlaceByHand(o)
  <2>1. PICK x \in Orders :
          Surface(x) \/ Leave(x) \/ PauseOrResume(x) \/ PlaceByHand(x)
    BY <1>5
  <2>2. \A o \in Orders :
          \/ orders'[o] = orders[o]
          \/ IsLive(o) /\ orders'[o].mine = orders[o].mine
          \/ ~orders'[o].mine
    BY <2>1, AfterMarket DEF IsLive, Live
  <2> QED
    BY <2>2 DEF OwnLive, IsLive
<1>6. CASE \E t \in Ticks : \/ Begin(t) \/ ReadList(t) \/ SyncLedger(t)
                            \/ DecideGuarded(t) \/ Record(t) \/ Finish(t)
  BY <1>1, <1>6 DEF Begin, ReadList, SyncLedger, DecideGuarded, DecideNow,
                    Record, Finish
<1> QED
  BY <1>1, <1>2, <1>3, <1>4, <1>5, <1>6
     DEF ControllerMoves, Execute, Called, Surroundings, SetRunMode, Crash, vars

\* No order is placed while a hold is in force (bid-guard.ts:11-30,
\* decide.ts:221-242), whenever it was set, if ticks do not run side by side:
\* a hold is set at the end of a tick, and the ticks that were decided before
\* are over by then.
THEOREM HoldStopsCreateHolds ==
    OneTickAtATime => (GuardedSpec => HoldStopsCreate)
<1> SUFFICES ASSUME OneTickAtATime PROVE GuardedSpec => HoldStopsCreate
  OBVIOUS
<1>1. GuardedInit => GuardedInvariant
  BY GuardStarts, CreatesUnheldStarts DEF GuardedInvariant
<1>2. GuardedInvariant /\ [GuardedNext]_allVars => GuardedInvariant'
  BY GuardedInvariantKept
<1>3. GuardedInvariant /\ [GuardedNext]_allVars
        => [OwnLive' \subseteq OwnLive \/ guard.hold = G!NoHold]_allVars
  BY EveryStepMoves, LiveGrows DEF GuardedInvariant, CreatesUnheld
<1> QED
  BY <1>1, <1>2, <1>3, PTL DEF GuardedSpec, HoldStopsCreate

\* A churn hold ends by the operator's hand, or with a process that dies before
\* it is stored (bid-guard.ts:18): blacklist holds do not replace it, since no
\* CREATE is sent under it.
THEOREM ChurnHoldManualHolds == GuardedSpec => ChurnHoldManual
<1>1. GuardedInit => GuardedInvariant
  BY GuardStarts, CreatesUnheldStarts DEF GuardedInvariant
<1>2. GuardedInvariant /\ [GuardedNext]_allVars => GuardedInvariant'
  BY GuardedInvariantKept
<1>3. ASSUME GuardedInvariant, [GuardedNext]_allVars,
             guard.hold.kind = "churn", guard'.hold.kind # "churn"
      PROVE  ClearHold \/ (GuardedCrash /\ stored.kind # "churn")
  <2>0. /\ guard \in GuardRecord /\ guard.hold \in HoldType /\ stored \in HoldType
        /\ TypeOK /\ GuardWellFormed
    BY <1>3 DEF GuardedInvariant, GuardWellFormed, GuardType, GuardRecord
  <2>1. CASE \E t \in Ticks : DecideGuarded(t)
    BY <1>3, <2>0, <2>1, RefreshedType DEF DecideGuarded
  <2>2. CASE "loop" \in Ticks /\ FinishTick("loop")
    <3>1. refusals = {}
      BY <1>3, <2>0, HoldTypes DEF GuardedInvariant, CreatesUnheld
    <3>2. guard' = FeedGuard("loop")
      BY <2>2 DEF FinishTick
    <3>3. PICK h \in GuardRecord :
            /\ h = G!Observed(guard, PatchedOwned("loop"), heard,
                              tick["loop"].bidsOk)
            /\ FeedGuard("loop").hold = h.hold
      BY <2>0, <2>2, <3>1, FedGuard
    <3>4. h.hold = guard.hold
      <4>1. CASE tick["loop"].bidsOk
        BY <1>3, <2>0, <2>2, <3>3, <4>1, FedByList, HoldTypes DEF ObservedAs
      <4>2. CASE ~tick["loop"].bidsOk
        BY <3>3, <4>2 DEF G!Observed
      <4> QED
        BY <4>1, <4>2
    <3> QED
      BY <1>3, <3>2, <3>3, <3>4
  <2>3. CASE GuardedCrash
    <3>1. guard'.hold = stored
      BY <2>0, <2>3, NewGuardType DEF GuardedCrash, Restarted
    <3> QED
      BY <1>3, <2>3, <3>1
  <2>4. CASE GuardedMinute
    <3>1. guard'.hold = G!NextMinute(guard.hold)
      BY <2>0, <2>4, MinuteOnType DEF GuardedMinute
    <3> QED
      BY <1>3, <2>0, <3>1, HoldTypes
  <2> QED
    BY <1>3, <2>1, <2>2, <2>3, <2>4, EveryGuardMove DEF GuardMoves
<1>4. GuardedInvariant /\ [GuardedNext]_allVars
        => [guard.hold.kind = "churn" /\ guard'.hold.kind # "churn" =>
              ClearHold \/ (GuardedCrash /\ stored.kind # "churn")]_allVars
  BY <1>3
<1> QED
  BY <1>1, <1>2, <1>4, PTL DEF GuardedSpec, ChurnHoldManual

-----------------------------------------------------------------------------
(* What is known of an order *)

\* No step takes back what an order has been through.
Forward ==
    \A o \in Orders :
        /\ orders[o].mine => orders'[o].mine
        /\ orders[o].status # "NONE" => orders'[o].status # "NONE"
        /\ orders[o].status # "NONE" /\ ~IsLive(o) => ~IsLive(o)'
        /\ orders[o].status \notin Firm /\ orders[o].status # "NONE"
              => orders'[o].status \notin Firm
        /\ orders[o].status # "NONE" /\ (IsLive(o) => orders[o].listed)
              => (IsLive(o)' => orders'[o].listed)

LEMMA OrdersForward ==
    ASSUME TypeOK, OrdersKnown, ControllerMoves
    PROVE  Forward
<1>0. /\ \A o \in Orders : orders[o] \in OrderType
      /\ \A o \in Orders : orders[o].mine => orders[o].status # "NONE"
  BY DEF TypeOK, OrdersKnown
<1>1. CASE UNCHANGED orders
  BY <1>1 DEF Forward, IsLive
<1>2. ASSUME NEW t \in Ticks, NEW p \in tick[t].todo, Called(t, p), orders' # orders
      PROVE  Forward
  <2>1. PICK o \in Orders :
          /\ p.kind # "CREATE_BID" => IsLive(o)
          /\ p.kind = "CREATE_BID" => orders[o].status = "NONE"
          /\ \A x \in Orders : x # o => orders'[x] = orders[x]
          /\ p.kind # "CREATE_BID" =>
               /\ orders'[o].mine = orders[o].mine
               /\ orders'[o].listed = orders[o].listed
               /\ orders'[o].status =
                    IF p.kind = "CANCEL_BID" THEN "PENDING_CANCEL"
                    ELSE orders[o].status
          /\ p.kind = "CREATE_BID" =>
               orders'[o].status = "ACTIVE" /\ orders'[o].mine
    BY <1>2, CallFields
  <2>2. \A x \in Orders : x # o => (IsLive(x)' <=> IsLive(x))
    BY <2>1 DEF IsLive
  <2> QED
    BY <1>0, <2>1, <2>2 DEF Forward, IsLive, Live, Firm
<1>3. CASE Minute
  BY <1>3, AfterMinute DEF Forward, IsLive
<1>4. ASSUME NEW x \in Orders, CancelStaleUrl(x) \/ RecordStaleUrl(x), orders' # orders
      PROVE  Forward
  <2>1. /\ IsLive(x)
        /\ orders'[x] = [orders[x] EXCEPT !.status = "PENDING_CANCEL"]
        /\ \A o \in Orders : o # x => orders'[o] = orders[o]
    BY <1>4, AfterStaleUrl
  <2>2. /\ orders'[x].status = "PENDING_CANCEL"
        /\ orders'[x].mine = orders[x].mine
        /\ orders'[x].listed = orders[x].listed
    BY <1>0, <2>1 DEF OrderType
  <2> QED
    BY <2>1, <2>2 DEF Forward, IsLive, Live, Firm
<1>5. ASSUME NEW x \in Orders,
             Surface(x) \/ Leave(x) \/ PauseOrResume(x) \/ PlaceByHand(x)
      PROVE  Forward
  <2>1. \A o \in Orders : o # x => orders'[o] = orders[o]
    BY <1>5, AfterMarket
  <2>2. /\ orders[x].mine => orders'[x].mine
        /\ orders[x].status # "NONE" => orders'[x].status # "NONE"
        /\ orders[x].status # "NONE" /\ ~IsLive(x) => ~IsLive(x)'
        /\ orders[x].status \notin Firm /\ orders[x].status # "NONE"
              => orders'[x].status \notin Firm
        /\ orders[x].status # "NONE" /\ (IsLive(x) => orders[x].listed)
              => (IsLive(x)' => orders'[x].listed)
    BY <1>0, <1>5, AfterMarket DEF IsLive, Live, Firm
  <2> QED
    BY <2>1, <2>2 DEF Forward, IsLive
<1>6. CASE \E t \in Ticks : \/ Begin(t) \/ ReadList(t) \/ SyncLedger(t)
                            \/ DecideGuarded(t) \/ Record(t) \/ Finish(t)
  BY <1>1, <1>6 DEF Begin, ReadList, SyncLedger, DecideGuarded, DecideNow,
                    Record, Finish
<1> QED
  BY <1>1, <1>2, <1>3, <1>4, <1>5, <1>6
     DEF ControllerMoves, Execute, Called, Surroundings, SetRunMode, Crash, vars

\* Rows are only added, and only for orders of the daemon.
LEMMA RowsForward ==
    ASSUME TypeOK, OrdersKnown, ControllerMoves, NEW o \in Orders
    PROVE  /\ HasRow(o) => HasRow(o)'
           /\ HasRow(o)' => orders[o].mine
<1>0. (HasRow(o) => orders[o].mine) /\ ledger[o] \in RowType
  BY DEF TypeOK, OrdersKnown
<1>1. CASE UNCHANGED ledger
  BY <1>0, <1>1 DEF HasRow
<1>2. CASE \E t \in Ticks : SyncLedger(t)
  <2>1. PICK t \in Ticks : SyncLedger(t)
    BY <1>2
  <2>2. CASE o \in OwnedIn(t)
    <3>1. HasRow(o)
      BY <2>2 DEF OwnedIn, OrdersKnown, KnownIds
    <3>2. ledger'[o].status \in Live
      BY <2>1, <2>2, SyncFields
    <3> QED
      BY <1>0, <3>1, <3>2 DEF HasRow, Live, Firm
  <2>3. CASE o \notin OwnedIn(t)
    <3>1. ledger'[o].status = IF o \in Vanished(t) THEN "CANCELED"
                              ELSE ledger[o].status
      BY <2>1, <2>3, SyncFields
    <3>2. o \in Vanished(t) => HasRow(o)
      BY DEF Vanished, RowActive
    <3> QED
      BY <1>0, <3>1, <3>2 DEF HasRow
  <2> QED
    BY <2>2, <2>3
<1>3. CASE \E t \in Ticks : Record(t)
  <2>1. PICK t \in Ticks : Record(t)
    BY <1>3
  <2>2. PICK c \in tick[t].sent :
          /\ \A x \in Orders : x # c.order => ledger'[x] = ledger[x]
          /\ ledger'[c.order] = Recorded(ledger[c.order], c.proposal)
    BY <2>1, RecordFields
  <2>3. CASE o = c.order
    <3>1. orders[o].mine
      BY <2>3 DEF OrdersKnown
    <3>2. HasRow(o) => ledger'[o].status # "NOROW"
      BY <1>0, <2>2, <2>3, RowAfterRecord DEF HasRow
    <3> QED
      BY <3>1, <3>2 DEF HasRow
  <2>4. CASE o # c.order
    BY <1>0, <2>2, <2>4 DEF HasRow
  <2> QED
    BY <2>3, <2>4
<1>4. CASE Minute
  BY <1>0, <1>4, AfterMinute DEF HasRow
<1>5. ASSUME NEW x \in Orders, CancelStaleUrl(x) \/ RecordStaleUrl(x), ledger' # ledger
      PROVE  /\ HasRow(o) => HasRow(o)'
             /\ HasRow(o)' => orders[o].mine
  <2>1. /\ x \in cancelled /\ ledger'[x] = [ledger[x] EXCEPT !.status = "CANCELED"]
        /\ o # x => ledger'[o] = ledger[o]
    BY <1>5, AfterStaleUrl
  <2>2. HasRow(x)
    BY <2>1 DEF OrdersKnown, KnownIds
  <2>3. o = x => ledger'[o].status = "CANCELED"
    BY <1>0, <2>1 DEF RowType
  <2> QED
    BY <1>0, <2>1, <2>2, <2>3 DEF HasRow
<1>6. CASE \E t \in Ticks : Begin(t) \/ ReadList(t) \/ DecideGuarded(t) \/ Finish(t)
  BY <1>1, <1>6 DEF Begin, ReadList, DecideGuarded, DecideNow, Finish
<1>7. CASE \E t \in Ticks : \E p \in tick[t].todo : Called(t, p)
  BY <1>1, <1>7, CallFields
<1>8. CASE \E x \in Orders :
              Surface(x) \/ Leave(x) \/ PauseOrResume(x) \/ PlaceByHand(x)
  BY <1>1, <1>8, AfterMarket
<1> QED
  BY <1>1, <1>2, <1>3, <1>4, <1>5, <1>6, <1>7, <1>8
     DEF ControllerMoves, Execute, Called, Surroundings, SetRunMode, Crash, vars

LEMMA EndedGrows ==
    ASSUME OrdersKnown, Forward
    PROVE  Ended \subseteq Ended'
  BY DEF OrdersKnown, Forward, Ended

LEMMA OrdersKnownKept ==
    ASSUME TypeOK, OrdersKnown, ControllerMoves
    PROVE  OrdersKnown'
<1>1. Forward
  BY OrdersForward
<1>2. Ended \subseteq Ended' /\ KnownIds \subseteq KnownIds'
  BY <1>1, EndedGrows, RowsForward DEF KnownIds
<1>3. ASSUME NEW o \in Orders
      PROVE  /\ orders'[o].mine => orders'[o].status # "NONE"
             /\ HasRow(o)' => orders'[o].mine
  <2>1. HasRow(o)' => orders'[o].mine
    BY <1>1, RowsForward DEF Forward
  <2>2. orders[o].status # "NONE" => orders'[o].status # "NONE"
    BY <1>1 DEF Forward
  <2>3. ASSUME orders[o].status = "NONE", orders'[o].status = "NONE"
        PROVE  ~orders'[o].mine
    <3>1. ~orders[o].mine
      BY <2>3 DEF OrdersKnown
    <3>2. CASE \E t \in Ticks : \E p \in tick[t].todo : Called(t, p)
      <4>1. PICK t \in Ticks : \E p \in tick[t].todo : Called(t, p)
        BY <3>2
      <4>2. PICK p \in tick[t].todo : Called(t, p)
        BY <4>1
      <4>3. \/ UNCHANGED orders
            \/ orders'[o] = orders[o]
            \/ IsLive(o)
            \/ orders'[o].status = "ACTIVE"
        BY <4>2, CallFields
      <4> QED
        BY <2>3, <3>1, <4>3 DEF IsLive, Live, Firm
    <3>3. CASE Minute
      BY <3>1, <3>3, AfterMinute
    <3>4. CASE \E x \in Orders : CancelStaleUrl(x) \/ RecordStaleUrl(x)
      <4>1. orders'[o] = orders[o] \/ IsLive(o)
        BY <3>4, AfterStaleUrl
      <4> QED
        BY <2>3, <3>1, <4>1 DEF IsLive, Live, Firm
    <3>5. CASE \E x \in Orders :
                  Surface(x) \/ Leave(x) \/ PauseOrResume(x) \/ PlaceByHand(x)
      <4>1. orders'[o] = orders[o] \/ IsLive(o) \/ ~orders'[o].mine
        BY <3>5, AfterMarket DEF IsLive, Live
      <4> QED
        BY <2>3, <3>1, <4>1 DEF IsLive, Live, Firm
    <3>6. CASE UNCHANGED orders
      BY <3>1, <3>6
    <3> QED
      BY <3>2, <3>3, <3>4, <3>5, <3>6
         DEF ControllerMoves, Execute, Called, Surroundings, SetRunMode, Crash,
             vars, Begin, ReadList, SyncLedger, DecideGuarded, DecideNow,
             Record, Finish
  <2> QED
    BY <2>1, <2>2, <2>3 DEF OrdersKnown
<1>4. cancelled' \subseteq KnownIds'
  <2>1. CASE cancelled' \subseteq cancelled
    BY <1>2, <2>1 DEF OrdersKnown
  <2>2. ASSUME NEW x \in Orders, CancelStaleUrl(x)
        PROVE  cancelled' \subseteq KnownIds'
    <3>1. HasRow(x) /\ cancelled' = cancelled \cup {x}
      BY <2>2 DEF CancelStaleUrl, HasRow
    <3> QED
      BY <1>2, <3>1 DEF OrdersKnown, KnownIds
  <2>3. CASE \E t \in Ticks : \E p \in tick[t].todo : Called(t, p)
    BY <2>1, <2>3, CallFields
  <2> QED
    BY <2>1, <2>2, <2>3
       DEF ControllerMoves, Execute, Called, Surroundings, SetRunMode, Crash,
           vars, Begin, ReadList, SyncLedger, DecideGuarded, DecideNow,
           Record, Finish, RecordStaleUrl, Surface, Leave, PauseOrResume,
           PlaceByHand, Market, Minute
<1>5. ASSUME NEW t \in Ticks
      PROVE  /\ tick'[t].pc # "acting" => tick'[t].todo = {} /\ tick'[t].sent = {}
             /\ tick'[t].ids \subseteq KnownIds'
             /\ tick'[t].cancels \subseteq Ended'
             /\ \A o \in Seen(t)' :
                   /\ orders'[o].status # "NONE"
                   /\ IsLive(o)' => orders'[o].listed
             /\ \A p \in tick'[t].todo :
                   p.kind \in {"EDIT_PRICE", "EDIT_SPEED", "CANCEL_BID"}
                      => p.order \in OwnedIn(t)'
             /\ \A c \in tick'[t].sent :
                   /\ orders'[c.order].mine
                   /\ c.proposal.kind = "CANCEL_BID" => c.order \in Ended'
  <2>0. /\ tick[t].pc # "acting" => tick[t].todo = {} /\ tick[t].sent = {}
        /\ tick[t].ids \subseteq KnownIds
        /\ tick[t].cancels \subseteq Ended
        /\ \A o \in Seen(t) :
              /\ orders[o].status # "NONE"
              /\ IsLive(o) => orders[o].listed
        /\ \A p \in tick[t].todo :
              p.kind \in {"EDIT_PRICE", "EDIT_SPEED", "CANCEL_BID"}
                 => p.order \in OwnedIn(t)
        /\ \A c \in tick[t].sent :
              /\ c.order \in Orders
              /\ orders[c.order].mine
              /\ c.proposal.kind = "CANCEL_BID" => c.order \in Ended
    BY DEF OrdersKnown, TypeOK, TickType
  <2>1. Seen(t) \subseteq Orders
    BY DEF Seen
  <2>2. /\ \A o \in Seen(t) :
              /\ orders'[o].status # "NONE"
              /\ IsLive(o)' => orders'[o].listed
        /\ \A c \in tick[t].sent :
              /\ orders'[c.order].mine
              /\ c.proposal.kind = "CANCEL_BID" => c.order \in Ended'
        /\ tick[t].ids \subseteq KnownIds' /\ tick[t].cancels \subseteq Ended'
    BY <1>1, <1>2, <2>0, <2>1 DEF Forward
  <2>3. CASE tick'[t] = tick[t]
    <3>1. Seen(t)' = Seen(t) /\ OwnedIn(t)' = OwnedIn(t)
      BY <2>3 DEF Seen, OwnedIn
    <3> QED
      BY <2>0, <2>2, <2>3, <3>1
  <2>4. CASE tick'[t] = IdleTick
    BY <2>4, IdleFields
  <2>5. CASE Begin(t)
    BY <1>2, <2>5, BeginFields
  <2>6. CASE ReadList(t)
    <3>1. \A o \in Listing : orders'[o].status # "NONE" /\ orders'[o].listed
      BY <2>6, ReadFields DEF Listing, IsLive, Live, Firm
    <3>2. tick'[t].todo = {}
      BY <2>0, <2>6, ReadFields
    <3> QED
      BY <2>0, <2>2, <2>6, <3>1, <3>2, ReadFields
  <2>7. CASE SyncLedger(t)
    BY <2>0, <2>2, <2>7, SyncFields
  <2>8. CASE DecideGuarded(t)
    BY <2>0, <2>2, <2>8, DecideFields
  <2>9. CASE Record(t)
    <3>1. PICK c \in tick[t].sent :
            /\ tick'[t].pc = tick[t].pc
            /\ tick'[t].ids = tick[t].ids
            /\ tick'[t].todo = tick[t].todo /\ tick'[t].sent = {}
            /\ tick'[t].cancels =
                 IF c.proposal.kind = "CANCEL_BID"
                 THEN tick[t].cancels \cup {c.order} ELSE tick[t].cancels
            /\ Seen(t)' = Seen(t) /\ OwnedIn(t)' = OwnedIn(t)
      BY <2>9, RecordFields
    <3> QED
      BY <2>0, <2>2, <3>1
  <2>10. ASSUME NEW p \in tick[t].todo, Called(t, p)
         PROVE  \A c \in tick'[t].sent :
                   /\ orders'[c.order].mine
                   /\ c.proposal.kind = "CANCEL_BID" => c.order \in Ended'
    <3>1. CASE tick'[t].sent = {}
      BY <3>1
    <3>2. CASE tick'[t].sent # {}
      <4>1. PICK o \in Orders :
              /\ tick'[t].sent = {[proposal |-> p, order |-> o]}
              /\ p.kind \in {"CREATE_BID", "EDIT_PRICE", "EDIT_SPEED", "CANCEL_BID"}
              /\ p.kind # "CREATE_BID" => o = p.order
              /\ p.kind = "CREATE_BID" => orders'[o].mine
              /\ p.kind = "CANCEL_BID" => orders'[o].status = "PENDING_CANCEL"
        BY <2>10, <3>2, CallFields
      <4>2. p.kind # "CREATE_BID" => orders[o].mine
        <5>1. p.kind # "CREATE_BID" => o \in KnownIds
          BY <2>0, <4>1 DEF OwnedIn
        <5> QED
          BY <5>1 DEF KnownIds, OrdersKnown
      <4>3. orders'[o].mine
        BY <1>1, <4>1, <4>2 DEF Forward
      <4>4. p.kind = "CANCEL_BID" => o \in Ended'
        BY <4>1, <4>3 DEF Ended, Firm
      <4> QED
        BY <4>1, <4>3, <4>4
    <3> QED
      BY <3>1, <3>2
  <2>11. CASE \E p \in tick[t].todo : Called(t, p)
    BY <2>0, <2>2, <2>10, <2>11, CallFields
  <2> QED
    BY <2>3, <2>4, <2>5, <2>6, <2>7, <2>8, <2>9, <2>11, TickCases
<1> QED
  BY <1>3, <1>4, <1>5 DEF OrdersKnown

-----------------------------------------------------------------------------
(* Cycles are counted once *)

LEMMA TrackedOrders ==
    ASSUME NEW g \in GuardRecord, NEW o
    PROVE  G!IsTracked(g, o) <=> HasOrder(g.tracked, o)
<1>1. g.tracked \in Seq(TrackedType)
  BY DEF GuardRecord
<1>2. DOMAIN g.tracked = 1..Len(g.tracked)
  BY <1>1, LenProperties
<1> QED
  BY <1>2 DEF G!IsTracked, HasOrder

\* Between two feedings the guard only forgets a hold and a streak, and time
\* passes.
LEMMA GuardBetween ==
    ASSUME GuardWellFormed, [GuardedNext]_allVars, ~GuardedCrash,
           ~("loop" \in Ticks /\ FinishTick("loop"))
    PROVE  /\ \A o : G!IsTracked(guard', o) <=> G!IsTracked(guard, o)
           /\ \/ guard'.streak = guard.streak
              \/ guard'.streak = 0 /\ guard'.hold = G!NoHold
           /\ \/ guard'.hold.kind = guard.hold.kind
              \/ /\ guard'.hold = G!NoHold
                 /\ guard'.streak = 0 \/ guard.hold.kind = "blacklist"
           /\ \A o \in Orders :
                 \/ Memory(o)' = Memory(o)
                 \/ /\ GuardedMinute
                    /\ Memory(o) # G!NoCancel /\ Memory(o) <= OwnCancelMemory
                    /\ Memory(o)' = Memory(o) + 1
<1>0. guard \in GuardRecord /\ guard.hold \in HoldType
  BY DEF GuardWellFormed, GuardType, GuardRecord
<1>1. CASE UNCHANGED guard
  BY <1>1 DEF Memory
<1>2. CASE \E t \in Ticks : DecideGuarded(t)
  BY <1>0, <1>2, RefreshedType DEF DecideGuarded, Memory, G!IsTracked
<1>3. CASE ClearHold
  BY <1>0, <1>3, ClearedType DEF ClearHold, Memory, G!IsTracked
<1>4. CASE GuardedMinute
  <2>1. guard' = G!MinuteOn(guard)
    BY <1>4 DEF GuardedMinute
  <2>2. /\ guard'.hold.kind = guard.hold.kind
        /\ guard'.streak = guard.streak /\ guard'.tracked = guard.tracked
    BY <1>0, <2>1, MinuteOnType, HoldTypes
  <2>3. \A o \in Orders :
          guard'.cancels[o] =
             IF guard.cancels[o] = G!NoCancel \/ guard.cancels[o] > OwnCancelMemory
             THEN guard.cancels[o] ELSE guard.cancels[o] + 1
    BY <1>0, <2>1, MinuteOnType
  <2>4. \A o \in Orders : guard.cancels[o] \in Int
    BY <1>0, GuardAssumption DEF GuardRecord, G!NoCancel
  <2>5. OwnCancelMemory \in Nat
    BY GuardAssumption
  <2> QED
    BY <1>4, <2>2, <2>3, <2>4, <2>5 DEF Memory, G!IsTracked
<1> QED
  BY <1>1, <1>2, <1>3, <1>4, EveryGuardMove DEF GuardMoves

LEMMA StoredFollows ==
    ASSUME GuardWellFormed, [GuardedNext]_allVars
    PROVE  stored'.kind \in {stored.kind, guard.hold.kind}
<1>1. CASE GuardedMinute
  BY <1>1, HoldTypes DEF GuardedMinute, GuardWellFormed, GuardType
<1>2. CASE StoreHold
  BY <1>2 DEF StoreHold
<1> QED
  BY <1>1, <1>2 DEF GuardedNext, GuardedStep, HearList, DecideGuarded, Send,
     SendRefused, FinishTick, ClearHold, Deliver, Blacklist, GuardedCrash,
     guardVars, allVars

\* The end of a tick of the loop.
LEMMA FedFields ==
    ASSUME TypeOK, GuardWellFormed, "loop" \in Ticks, FinishTick("loop")
    PROVE  /\ tick["loop"].pc = "acting" /\ tick'["loop"] = IdleTick
           /\ UNCHANGED <<orders, ledger, cancelled, stored>>
           /\ \E h \in GuardRecord :
                /\ tick["loop"].bidsOk => ObservedAs(guard, PatchedOwned("loop"), h)
                /\ ~tick["loop"].bidsOk => h = guard
                /\ \A o : G!IsTracked(guard', o) <=> G!IsTracked(h, o)
                /\ guard'.streak = h.streak
                /\ \A o \in Orders :
                      Memory(o)' = IF o \in tick["loop"].cancels THEN 0
                                   ELSE h.cancels[o]
                /\ refusals = {} => guard'.hold = h.hold
                /\ refusals # {} => guard'.hold.kind = "blacklist"
<1>1. /\ tick["loop"].pc = "acting" /\ tick'["loop"] = IdleTick
      /\ UNCHANGED <<orders, ledger, cancelled, stored>>
      /\ guard' = FeedGuard("loop")
  BY DEF FinishTick, Finish, Becomes, TypeOK
<1>2. PICK h \in GuardRecord :
        /\ h = G!Observed(guard, PatchedOwned("loop"), heard, tick["loop"].bidsOk)
        /\ FeedGuard("loop") \in GuardRecord
        /\ FeedGuard("loop").tracked = h.tracked
        /\ FeedGuard("loop").streak = h.streak
        /\ \A o \in Orders : FeedGuard("loop").cancels[o] =
                                IF o \in tick["loop"].cancels THEN 0
                                ELSE h.cancels[o]
        /\ refusals = {} => FeedGuard("loop").hold = h.hold
        /\ refusals # {} => FeedGuard("loop").hold.kind = "blacklist"
  BY FedGuard
<1>3. tick["loop"].bidsOk => ObservedAs(guard, PatchedOwned("loop"), h)
  BY <1>2, FedByList
<1>4. ~tick["loop"].bidsOk => h = guard
  BY <1>2 DEF G!Observed
<1>5. \A o : G!IsTracked(guard', o) <=> G!IsTracked(h, o)
  BY <1>1, <1>2 DEF G!IsTracked
<1>6. \A o \in Orders : Memory(o)' = IF o \in tick["loop"].cancels THEN 0
                                     ELSE h.cancels[o]
  BY <1>1, <1>2 DEF Memory
<1> QED
  BY <1>1, <1>2, <1>3, <1>4, <1>5, <1>6

LEMMA CrashedGuard ==
    ASSUME GuardWellFormed, GuardedCrash
    PROVE  /\ \A o : ~G!IsTracked(guard', o)
           /\ guard'.streak = 0 /\ guard'.hold = stored
           /\ \A o \in Orders : Memory(o)' = G!NoCancel
           /\ \A t \in Ticks : tick'[t] = IdleTick
           /\ UNCHANGED <<orders, ledger, stored>> /\ cancelled' = {}
           /\ refusals' = {}
<1>1. stored \in HoldType /\ guard' = G!Hydrated(stored)
  BY DEF GuardWellFormed, GuardType, GuardedCrash, Restarted
<1>2. /\ guard' \in GuardRecord /\ guard'.hold = stored /\ guard'.streak = 0
      /\ guard'.tracked = G!NewGuard.tracked
      /\ guard'.cancels = G!NewGuard.cancels
  BY <1>1, NewGuardType
<1>3. \A o : ~G!IsTracked(guard', o)
  BY <1>2, NewGuardType, TrackedOrders
<1>4. \A o \in Orders : Memory(o)' = G!NoCancel
  BY <1>2, NewGuardType DEF Memory
<1> QED
  BY <1>2, <1>3, <1>4 DEF GuardedCrash, Crash

\* A list that a step brings shows what is live.
LEMMA SeenGrows ==
    ASSUME TypeOK, ControllerMoves, NEW t \in Ticks, NEW o \in Seen(t)'
    PROVE  o \in Seen(t) \/ IsLive(o)
<1>1. CASE tick'[t] = tick[t]
  BY <1>1 DEF Seen
<1>2. CASE tick'[t] = IdleTick
  BY <1>2, IdleFields
<1>3. CASE Begin(t)
  BY <1>3, BeginFields
<1>4. CASE ReadList(t)
  BY <1>4, ReadFields DEF Listing
<1>5. CASE SyncLedger(t)
  BY <1>5, SyncFields
<1>6. CASE DecideGuarded(t)
  BY <1>6, DecideFields
<1>7. CASE Record(t)
  BY <1>7, RecordFields
<1>8. CASE \E p \in tick[t].todo : Called(t, p)
  BY <1>8, CallFields
<1> QED
  BY <1>1, <1>2, <1>3, <1>4, <1>5, <1>6, <1>7, <1>8, TickCases

LEMMA TrackedListedKept ==
    ASSUME "blip" \notin Faults, TypeOK, GuardWellFormed, OrdersKnown,
           TrackedListed, [GuardedNext]_allVars
    PROVE  TrackedListed'
<1>0. ControllerMoves /\ Forward
  BY EveryStepMoves, OrdersForward
<1>1. ASSUME NEW o \in Orders, HasRow(o), IsLive(o) => orders[o].listed
      PROVE  HasRow(o)' /\ (IsLive(o)' => orders'[o].listed)
  <2>1. orders[o].status # "NONE"
    BY <1>1 DEF OrdersKnown
  <2> QED
    BY <1>0, <1>1, <2>1, RowsForward DEF Forward
<1>2. ASSUME NEW o \in Orders, G!IsTracked(guard', o)
      PROVE  /\ HasRow(o)'
             /\ IsLive(o)' => orders'[o].listed
             /\ \A t \in Ticks \cap {"loop"} :
                   /\ tick'[t].pc # "idle" => o \in tick'[t].ids
                   /\ tick'[t].pc \in {"read", "synced", "acting"} /\ tick'[t].bidsOk
                        => o \in Seen(t)' \/ ~IsLive(o)'
  <2>1. CASE GuardedCrash
    BY <1>2, <2>1, CrashedGuard
  <2>2. CASE "loop" \in Ticks /\ FinishTick("loop")
    <3>1. HasRow(o) /\ (IsLive(o) => orders[o].listed)
      <4>1. PICK h \in GuardRecord :
              /\ tick["loop"].bidsOk => ObservedAs(guard, PatchedOwned("loop"), h)
              /\ ~tick["loop"].bidsOk => h = guard
              /\ \A x : G!IsTracked(guard', x) <=> G!IsTracked(h, x)
        BY <2>2, FedFields
      <4>2. G!IsTracked(h, o)
        BY <1>2, <4>1
      <4>3. CASE tick["loop"].bidsOk
        <5>1. o \in PatchedOwned("loop")
          BY <4>1, <4>2, <4>3, TrackedOrders DEF ObservedAs
        <5>2. o \in Seen("loop") /\ o \in tick["loop"].ids
          BY <5>1 DEF PatchedOwned, OwnedIn
        <5> QED
          BY <2>2, <5>2 DEF OrdersKnown, KnownIds
      <4>4. CASE ~tick["loop"].bidsOk
        BY <4>1, <4>2, <4>4 DEF TrackedListed
      <4> QED
        BY <4>3, <4>4
    <3>2. tick'["loop"].pc = "idle"
      BY <2>2, FedFields DEF IdleTick
    <3> QED
      BY <1>1, <3>1, <3>2
  <2>3. CASE ~GuardedCrash /\ ~("loop" \in Ticks /\ FinishTick("loop"))
    <3>1. G!IsTracked(guard, o)
      BY <1>2, <2>3, GuardBetween
    <3>2. /\ HasRow(o) /\ (IsLive(o) => orders[o].listed)
          /\ orders[o].status # "NONE"
      BY <3>1 DEF TrackedListed, OrdersKnown
    <3>3. ~IsLive(o) => ~IsLive(o)'
      BY <1>0, <3>2 DEF Forward
    <3>4. ASSUME NEW t \in Ticks \cap {"loop"}
          PROVE  /\ tick'[t].pc # "idle" => o \in tick'[t].ids
                 /\ tick'[t].pc \in {"read", "synced", "acting"} /\ tick'[t].bidsOk
                      => o \in Seen(t)' \/ ~IsLive(o)'
      <4>0. /\ tick[t].pc # "idle" => o \in tick[t].ids
            /\ tick[t].pc \in {"read", "synced", "acting"} /\ tick[t].bidsOk
                 => o \in Seen(t) \/ ~IsLive(o)
        BY <3>1 DEF TrackedListed
      <4>1. CASE tick'[t] = tick[t]
        BY <3>3, <4>0, <4>1 DEF Seen
      <4>2. CASE tick'[t] = IdleTick
        BY <4>2, IdleFields
      <4>3. CASE Begin(t)
        BY <3>2, <4>3, BeginFields DEF KnownIds
      <4>4. CASE ReadList(t)
        BY <3>2, <3>3, <4>0, <4>4, ReadFields DEF Listing
      <4>5. CASE SyncLedger(t)
        BY <3>3, <4>0, <4>5, SyncFields
      <4>6. CASE DecideGuarded(t)
        BY <3>3, <4>0, <4>6, DecideFields
      <4>7. CASE Record(t)
        BY <3>3, <4>0, <4>7, RecordFields
      <4>8. CASE \E p \in tick[t].todo : Called(t, p)
        BY <3>3, <4>0, <4>8, CallFields
      <4> QED
        BY <1>0, <4>1, <4>2, <4>3, <4>4, <4>5, <4>6, <4>7, <4>8, TickCases
    <3> QED
      BY <1>1, <3>2, <3>4
  <2> QED
    BY <2>1, <2>2, <2>3
<1> QED
  BY <1>2 DEF TrackedListed

LEMMA CancelsKeptKept ==
    ASSUME TypeOK, GuardWellFormed, OrdersKnown, CancelsKept,
           [GuardedNext]_allVars
    PROVE  CancelsKept'
<1>0. /\ ControllerMoves /\ Forward /\ Ended \subseteq Ended'
      /\ OwnCancelMemory \in Nat /\ ~(G!NoCancel > OwnCancelMemory)
  BY EveryStepMoves, OrdersForward, EndedGrows, GuardAssumption DEF G!NoCancel
<1>1. ASSUME NEW o \in Orders
      PROVE  /\ Memory(o)' # G!NoCancel => o \in Ended'
             /\ Memory(o)' > OwnCancelMemory =>
                   /\ ~IsLive(o)' /\ ~G!IsTracked(guard', o)
                   /\ \A t \in Ticks : o \notin Seen(t)'
  <2>0. /\ Memory(o) # G!NoCancel => o \in Ended
        /\ Memory(o) > OwnCancelMemory =>
              /\ ~IsLive(o) /\ ~G!IsTracked(guard, o)
              /\ \A t \in Ticks : o \notin Seen(t)
    BY DEF CancelsKept
  <2>1. o \in Ended => orders[o].status # "NONE"
    BY DEF OrdersKnown, Ended
  <2>2. CASE GuardedCrash
    BY <1>0, <2>2, CrashedGuard
  <2>3. CASE "loop" \in Ticks /\ FinishTick("loop")
    <3>1. PICK h \in GuardRecord :
            /\ tick["loop"].bidsOk => ObservedAs(guard, PatchedOwned("loop"), h)
            /\ ~tick["loop"].bidsOk => h = guard
            /\ \A x : G!IsTracked(guard', x) <=> G!IsTracked(h, x)
            /\ \A x \in Orders :
                  Memory(x)' = IF x \in tick["loop"].cancels THEN 0
                               ELSE h.cancels[x]
      BY <2>3, FedFields
    <3>2. CASE o \in tick["loop"].cancels
      <4>1. Memory(o)' = 0 /\ o \in Ended
        BY <2>3, <3>1, <3>2 DEF OrdersKnown
      <4> QED
        BY <1>0, <4>1
    <3>3. CASE o \notin tick["loop"].cancels /\ tick["loop"].bidsOk
      <4>1. Memory(o)' = IF \/ o \in Departures(guard, PatchedOwned("loop"))
                            \/ Memory(o) > OwnCancelMemory
                         THEN G!NoCancel ELSE Memory(o)
        BY <3>1, <3>3 DEF ObservedAs, Memory
      <4> QED
        BY <1>0, <2>0, <4>1
    <3>4. CASE o \notin tick["loop"].cancels /\ ~tick["loop"].bidsOk
      <4>1. Memory(o)' = Memory(o) /\ (G!IsTracked(guard', o) <=> G!IsTracked(guard, o))
        BY <3>1, <3>4 DEF Memory
      <4>2. IsLive(o)' <=> IsLive(o)
        BY <2>3, FedFields DEF IsLive
      <4> QED
        BY <1>0, <2>0, <4>1, <4>2, SeenGrows
    <3> QED
      BY <3>2, <3>3, <3>4
  <2>4. CASE ~GuardedCrash /\ ~("loop" \in Ticks /\ FinishTick("loop"))
    <3>1. G!IsTracked(guard', o) <=> G!IsTracked(guard, o)
      BY <2>4, GuardBetween
    <3>2. CASE Memory(o)' = Memory(o)
      <4>1. Memory(o) > OwnCancelMemory => Memory(o) # G!NoCancel
        BY <1>0
      <4>2. Memory(o) > OwnCancelMemory => ~IsLive(o)'
        BY <1>0, <2>0, <2>1, <4>1 DEF Forward
      <4> QED
        BY <1>0, <2>0, <3>1, <3>2, <4>2, SeenGrows
    <3>3. CASE /\ GuardedMinute
               /\ Memory(o) # G!NoCancel /\ Memory(o) <= OwnCancelMemory
               /\ Memory(o)' = Memory(o) + 1
      <4>1. Memory(o) \in Int
        BY <1>0 DEF GuardWellFormed, GuardType, GuardRecord, Memory, G!NoCancel
      <4>2. Memory(o)' > OwnCancelMemory => o \notin Unwinding
        BY <1>0, <3>3, <4>1 DEF GuardedMinute, Memory
      <4>3. Memory(o)' > OwnCancelMemory =>
              /\ ~IsLive(o) /\ ~G!IsTracked(guard, o)
              /\ \A t \in Ticks : o \notin Seen(t)
        BY <3>3, <4>2 DEF Unwinding, Memory
      <4>4. IsLive(o)' <=> IsLive(o)
        BY <3>3, AfterMinute DEF GuardedMinute, IsLive
      <4> QED
        BY <1>0, <2>0, <3>1, <3>3, <4>3, <4>4, SeenGrows
    <3> QED
      BY <2>4, <3>2, <3>3, GuardBetween
  <2> QED
    BY <2>2, <2>3, <2>4
<1> QED
  BY <1>1 DEF CancelsKept

LEMMA CountOrders ==
    ASSUME NEW S \in SUBSET Orders, NEW T \in SUBSET Orders, S \subseteq T
    PROVE  /\ Cardinality(S) \in Nat /\ Cardinality(T) \in Nat
           /\ Cardinality(S) <= Cardinality(T)
<1>1. IsFiniteSet(S) /\ IsFiniteSet(T)
  BY ListingAssumption, FS_Subset
<1> QED
  BY <1>1, FS_CardinalityType, FS_Subset

LEMMA SpentKept ==
    ASSUME TypeOK, GuardWellFormed, OrdersKnown, CancelsKept,
           [GuardedNext]_allVars, ~GuardedCrash,
           ~("loop" \in Ticks /\ FinishTick("loop"))
    PROVE  Spent \subseteq Spent'
<1>0. /\ ControllerMoves /\ Forward /\ Ended \subseteq Ended'
  BY EveryStepMoves, OrdersForward, EndedGrows
<1>1. ASSUME NEW o \in Spent
      PROVE  o \in Spent'
  <2>1. o \in Orders /\ o \in Ended' /\ orders[o].status # "NONE"
    BY <1>0 DEF Spent, Ended, OrdersKnown
  <2>2. CASE Memory(o) # G!NoCancel
    <3>1. Memory(o) \in Int /\ (Memory(o) # -1 => Memory(o) >= 0)
      BY <2>1, GuardAssumption
         DEF GuardWellFormed, GuardType, GuardRecord, Memory, G!NoCancel
    <3>2. Memory(o)' # G!NoCancel
      BY <2>1, <2>2, <3>1, GuardBetween DEF G!NoCancel
    <3> QED
      BY <2>1, <3>2 DEF Spent
  <2>3. CASE /\ ~IsLive(o) /\ ~G!IsTracked(guard, o)
             /\ \A t \in Ticks \cap {"loop"} : o \notin Seen(t)
    <3>1. ~IsLive(o)' /\ ~G!IsTracked(guard', o)
      BY <1>0, <2>1, <2>3, GuardBetween DEF Forward
    <3>2. \A t \in Ticks \cap {"loop"} : o \notin Seen(t)'
      BY <1>0, <2>3, SeenGrows
    <3> QED
      BY <2>1, <3>1, <3>2 DEF Spent
  <2> QED
    BY <2>2, <2>3 DEF Spent
<1> QED
  BY <1>1

LEMMA CyclesCountedKept ==
    ASSUME "blip" \notin Faults, TypeOK, GuardWellFormed, EvidenceInvariant,
           [GuardedNext]_allVars
    PROVE  CyclesCounted'
<1>0. /\ OrdersKnown /\ TrackedListed /\ CancelsKept /\ CyclesCounted
      /\ ControllerMoves /\ Forward /\ Ended \subseteq Ended'
      /\ stored'.kind \in {stored.kind, guard.hold.kind}
  BY EveryStepMoves, OrdersForward, EndedGrows, StoredFollows
     DEF EvidenceInvariant
<1>1. /\ Ended \in SUBSET Orders /\ Ended' \in SUBSET Orders
      /\ Spent \in SUBSET Orders /\ Spent' \in SUBSET Orders
  BY DEF Ended, Spent
<1>2. ChurnStreakThreshold \in Nat /\ guard.streak \in Nat /\ OwnCancelMemory \in Nat
  BY GuardAssumption DEF GuardWellFormed, GuardType, GuardRecord
<1>3. /\ Cardinality(Ended) \in Nat /\ Cardinality(Ended') \in Nat
      /\ Cardinality(Ended) <= Cardinality(Ended')
      /\ Cardinality(Spent) \in Nat /\ Cardinality(Spent') \in Nat
  BY <1>0, <1>1, CountOrders
<1>4. guard.hold.kind = "churn" \/ stored.kind = "churn"
        => Cardinality(Ended') >= ChurnStreakThreshold
  BY <1>0, <1>2, <1>3 DEF CyclesCounted
<1>5. guard.streak <= Cardinality(Spent)
  BY <1>0 DEF CyclesCounted
<1>6. CASE GuardedCrash
  <2>1. guard'.streak = 0 /\ guard'.hold = stored
    BY <1>6, CrashedGuard
  <2>2. Cardinality(Ended)' = Cardinality(Ended')
    OBVIOUS
  <2>3. 0 <= Cardinality(Spent')
    BY <1>3
  <2> QED
    BY <1>0, <1>4, <2>1, <2>3 DEF CyclesCounted
<1>7. CASE "loop" \in Ticks /\ FinishTick("loop")
  <2> DEFINE p == PatchedOwned("loop")
             C == Cycles(guard, p)
  <2>0. /\ tick["loop"].pc = "acting" /\ UNCHANGED orders
        /\ tick'["loop"] = IdleTick
    BY <1>7, FedFields
  <2>1. PICK h \in GuardRecord :
          /\ tick["loop"].bidsOk => ObservedAs(guard, p, h)
          /\ ~tick["loop"].bidsOk => h = guard
          /\ \A o : G!IsTracked(guard', o) <=> G!IsTracked(h, o)
          /\ guard'.streak = h.streak
          /\ \A o \in Orders :
                Memory(o)' = IF o \in tick["loop"].cancels THEN 0
                             ELSE h.cancels[o]
          /\ refusals = {} => guard'.hold = h.hold
          /\ refusals # {} => guard'.hold.kind = "blacklist"
    BY <1>7, FedFields
  <2>2. \A o \in Orders : (IsLive(o)' <=> IsLive(o)) /\ o \notin Seen("loop")'
    BY <1>7, <2>0, IdleFields DEF IsLive
  <2>3. CASE ~tick["loop"].bidsOk
    <3>1. Spent \subseteq Spent'
      <4>1. ASSUME NEW o \in Spent
            PROVE  o \in Spent'
        <5>1. o \in Orders /\ o \in Ended'
          BY <1>0 DEF Spent, Ended
        <5>2. /\ G!IsTracked(guard', o) <=> G!IsTracked(guard, o)
              /\ Memory(o)' = IF o \in tick["loop"].cancels THEN 0 ELSE Memory(o)
          BY <2>1, <2>3, <5>1 DEF Memory
        <5>3. 0 # G!NoCancel
          BY DEF G!NoCancel
        <5> QED
          BY <2>2, <5>1, <5>2, <5>3 DEF Spent
      <4> QED
        BY <4>1
    <3>2. Cardinality(Spent) <= Cardinality(Spent')
      BY <1>1, <3>1, CountOrders
    <3>3. guard'.streak <= Cardinality(Spent')
      BY <1>2, <1>3, <1>5, <2>1, <2>3, <3>2
    <3>4. guard'.hold.kind = "churn" => guard.hold.kind = "churn"
      BY <2>1, <2>3
    <3> QED
      BY <1>0, <1>4, <3>3, <3>4 DEF CyclesCounted
  <2>4. CASE tick["loop"].bidsOk
    <3>0. ObservedAs(guard, p, h)
      BY <2>1, <2>4
    <3>1. C \subseteq Orders
      BY DEF Cycles, Departures
    \* A tracked order that is not among the present ones has gone, or is one
    \* that the tick has cancelled.
    <3>2. \A o \in Orders :
            G!IsTracked(guard, o) /\ o \notin p =>
               o \in tick["loop"].cancels \/ ~IsLive(o)
      <4>1. ASSUME NEW o \in Orders, G!IsTracked(guard, o), o \notin p
            PROVE  o \in tick["loop"].cancels \/ ~IsLive(o)
        <5>1. o \in tick["loop"].ids
          BY <1>0, <1>7, <2>0, <4>1 DEF TrackedListed
        <5>2. o \in Seen("loop") \/ ~IsLive(o)
          BY <1>0, <1>7, <2>0, <2>4, <4>1 DEF TrackedListed
        <5> QED
          BY <4>1, <5>1, <5>2 DEF PatchedOwned, OwnedIn
      <4> QED
        BY <4>1
    <3>3. \A o \in Orders : G!IsTracked(guard', o) <=> o \in p
      BY <2>1, <3>0, TrackedOrders DEF ObservedAs
    <3>4. \A o \in Orders : HasOrder(guard.tracked, o) <=> G!IsTracked(guard, o)
      BY TrackedOrders DEF GuardWellFormed, GuardType
    <3>5. \A o \in C : G!IsTracked(guard, o) /\ o \notin p /\ ~G!Excused(guard, o)
      BY <3>1, <3>4 DEF Cycles, Departures
    <3>6. Spent \cap C = {}
      <4>1. ASSUME NEW o \in Spent, o \in C
            PROVE  FALSE
        <5>1. G!IsTracked(guard, o) /\ ~G!Excused(guard, o) /\ o \in Orders
          BY <3>1, <3>5, <4>1
        <5>2. Memory(o) # G!NoCancel
          BY <4>1, <5>1 DEF Spent
        <5>3. ~(Memory(o) > OwnCancelMemory)
          BY <1>0, <5>1 DEF CancelsKept
        <5>4. Memory(o) \in Int
          BY <1>2, <5>1 DEF GuardWellFormed, GuardType, GuardRecord, Memory, G!NoCancel
        <5> QED
          BY <1>2, <5>1, <5>2, <5>3, <5>4 DEF G!Excused, Memory
      <4> QED
        BY <4>1
    <3>7. ASSUME NEW o \in Spent \cup C
          PROVE  o \in Spent'
      <4>1. o \in Orders
        BY <3>1, <3>7 DEF Spent, Ended
      <4>2. o \in C => HasRow(o)
        BY <1>0, <3>5, <4>1 DEF TrackedListed
      <4>3. o \in C => o \in tick["loop"].cancels \/ ~IsLive(o)
        BY <3>2, <3>5, <4>1
      <4>4. tick["loop"].cancels \subseteq Ended
        BY <1>0, <1>7 DEF OrdersKnown
      <4>5. HasRow(o) => orders[o].mine
        BY <1>0, <4>1 DEF OrdersKnown
      <4>6. o \in Ended
        BY <4>1, <4>2, <4>3, <4>4, <4>5, <3>7 DEF Spent, Ended, IsLive, Live
      <4>7. o \in Ended'
        BY <1>0, <4>6
      <4>8. CASE o \in tick["loop"].cancels
        <5>1. Memory(o)' # G!NoCancel
          BY <2>1, <4>1, <4>8 DEF G!NoCancel
        <5> QED
          BY <4>7, <5>1 DEF Spent
      <4>9. CASE o \notin tick["loop"].cancels /\ ~IsLive(o) /\ o \notin p
        BY <2>2, <3>3, <4>1, <4>7, <4>9 DEF Spent
      <4>10. CASE o \notin tick["loop"].cancels /\ (IsLive(o) \/ o \in p)
        <5>1. o \in Spent
          BY <3>5, <3>7, <4>3, <4>10
        <5>2. o \in p => o \in Seen("loop")
          BY DEF PatchedOwned, OwnedIn
        <5>3. Memory(o) # G!NoCancel
          BY <1>7, <4>10, <5>1, <5>2 DEF Spent
        <5>4. ~(Memory(o) > OwnCancelMemory)
          BY <1>0, <1>7, <4>1, <4>10, <5>2 DEF CancelsKept
        <5>5. o \notin Departures(guard, p)
          BY <3>2, <3>4, <4>1, <4>10 DEF Departures
        <5>6. Memory(o)' = Memory(o)
          BY <2>1, <3>0, <4>1, <4>10, <5>4, <5>5 DEF ObservedAs, Memory
        <5> QED
          BY <4>7, <5>3, <5>6 DEF Spent
      <4> QED
        BY <4>8, <4>9, <4>10
    <3>8. Spent \cup C \in SUBSET Orders /\ Spent \cup C \subseteq Spent'
      BY <1>1, <3>1, <3>7
    <3>9. /\ Cardinality(Spent \cup C) \in Nat
          /\ Cardinality(Spent \cup C) <= Cardinality(Spent')
      BY <1>1, <3>8, CountOrders
    <3>10. Cardinality(Spent') <= Cardinality(Ended')
      <4>1. Spent' \subseteq Ended'
        BY DEF Spent
      <4> QED
        BY <1>1, <4>1, CountOrders
    <3>11. /\ h.streak <= Cardinality(Spent \cup C)
           /\ h.hold # guard.hold =>
                 ChurnStreakThreshold <= Cardinality(Spent \cup C)
      BY <1>1, <1>5, <3>0, <3>6 DEF ObservedAs
    <3>12. h.streak \in Nat
      BY DEF GuardRecord
    <3>13. guard'.streak <= Cardinality(Spent')
      BY <1>3, <2>1, <3>9, <3>11, <3>12
    <3>14. h.hold # guard.hold => ChurnStreakThreshold <= Cardinality(Ended')
      BY <1>2, <1>3, <3>9, <3>10, <3>11
    <3>15. guard'.hold.kind = "churn" \/ stored'.kind = "churn"
             => Cardinality(Ended') >= ChurnStreakThreshold
      BY <1>0, <1>2, <1>3, <1>4, <2>1, <3>14
    <3> QED
      BY <3>13, <3>15 DEF CyclesCounted
  <2> QED
    BY <2>3, <2>4
<1>8. CASE ~GuardedCrash /\ ~("loop" \in Ticks /\ FinishTick("loop"))
  <2>1. Cardinality(Spent) <= Cardinality(Spent')
    BY <1>0, <1>1, <1>8, SpentKept, CountOrders
  <2>2. guard'.streak <= Cardinality(Spent')
    BY <1>2, <1>3, <1>5, <1>8, <2>1, GuardBetween
  <2>3. guard'.hold.kind = "churn" => guard.hold.kind = "churn"
    BY <1>8, GuardBetween, HoldTypes
  <2> QED
    BY <1>0, <1>4, <2>2, <2>3 DEF CyclesCounted
<1> QED
  BY <1>6, <1>7, <1>8

LEMMA EvidenceStarts ==
    ASSUME GuardedInit
    PROVE  EvidenceInvariant
<1>1. /\ \A o \in Orders : orders[o] = NoOrder /\ ledger[o] = NoRow
      /\ \A t \in Ticks : tick[t] = IdleTick
      /\ cancelled = {} /\ guard = G!NewGuard /\ stored = G!NoHold
  BY DEF GuardedInit, Init
<1>2. /\ \A o \in Orders : ~orders[o].mine /\ ~HasRow(o) /\ ~IsLive(o)
      /\ \A o : ~G!IsTracked(guard, o)
      /\ \A o \in Orders : Memory(o) = G!NoCancel
      /\ guard.streak = 0 /\ guard.hold = G!NoHold
  BY <1>1, NewGuardType, TrackedOrders
     DEF NoOrder, NoRow, HasRow, IsLive, Live, Firm, Memory
<1>3. \A t \in Ticks : /\ tick[t].pc = "idle" /\ Seen(t) = {}
                       /\ tick[t].todo = {} /\ tick[t].sent = {}
                       /\ tick[t].ids = {} /\ tick[t].cancels = {}
  BY <1>1 DEF IdleTick, Seen, NotListed
<1>4. OrdersKnown
  BY <1>1, <1>2, <1>3 DEF OrdersKnown
<1>5. TrackedListed
  BY <1>2 DEF TrackedListed
<1>6. CancelsKept
  BY <1>2, GuardAssumption DEF CancelsKept, G!NoCancel
<1>7. CyclesCounted
  <2>1. Spent \in SUBSET Orders
    BY DEF Spent, Ended
  <2>2. Cardinality(Spent) \in Nat
    BY <2>1, CountOrders
  <2> QED
    BY <1>1, <1>2, <2>2, HoldTypes DEF CyclesCounted
<1> QED
  BY <1>4, <1>5, <1>6, <1>7 DEF EvidenceInvariant

\* The breaker trips on as many different orders that ended as it says
\* (bid-guard.ts:137-146, 165-191), whoever runs ticks, whatever is refused,
\* lost or not fetched, if no list that arrives misses an order: the cycles
\* that were counted are of orders that no departure to come can count again.
THEOREM EvidenceBehindHoldHolds ==
    "blip" \notin Faults => (GuardedSpec => []EvidenceBehindHold)
<1> SUFFICES ASSUME "blip" \notin Faults
             PROVE  GuardedSpec => []EvidenceBehindHold
  OBVIOUS
<1>1. GuardedInit => GuardedInvariant /\ EvidenceInvariant
  BY GuardStarts, CreatesUnheldStarts, EvidenceStarts DEF GuardedInvariant
<1>2. GuardedInvariant /\ EvidenceInvariant /\ [GuardedNext]_allVars
        => GuardedInvariant' /\ EvidenceInvariant'
  BY GuardedInvariantKept, EveryStepMoves, OrdersKnownKept, TrackedListedKept,
     CancelsKeptKept, CyclesCountedKept DEF GuardedInvariant, EvidenceInvariant
<1>3. EvidenceInvariant => EvidenceBehindHold
  BY DEF EvidenceInvariant, CyclesCounted, EvidenceBehindHold
<1> QED
  BY <1>1, <1>2, <1>3, PTL DEF GuardedSpec

-----------------------------------------------------------------------------
(* One order at a time to count *)

BreakerAssumed ==
    /\ Alone /\ TypeOK /\ GuardWellFormed /\ CreatesUnheld
    /\ OrdersKnown /\ TrackedListed /\ CancelsKept
    /\ BreakerInvariant

\* A step leaves the ledger of such a loop alone but to read a list, to record
\* a call and to count a minute.
LEMMA LedgerAlone ==
    ASSUME BreakerAssumed, ControllerMoves
    PROVE  /\ cancelled' = {}
           /\ \/ \A o \in Orders : ledger'[o].status = ledger[o].status
              \/ SyncLedger("loop")
              \/ Record("loop")
<1>0. /\ Ticks = {"loop"} /\ "staleUrl" \notin Events /\ cancelled = {}
      /\ TypeOK
  BY DEF BreakerAssumed, Alone, BreakerInvariant
<1>1. \A x \in Orders : ~CancelStaleUrl(x) /\ ~RecordStaleUrl(x)
  BY <1>0 DEF CancelStaleUrl, RecordStaleUrl
<1>2. CASE Minute
  BY <1>0, <1>2, AfterMinute
<1>3. CASE \E t \in Ticks : \E p \in tick[t].todo : Called(t, p)
  BY <1>0, <1>3, CallFields
<1>4. CASE \E x \in Orders :
              Surface(x) \/ Leave(x) \/ PauseOrResume(x) \/ PlaceByHand(x)
  BY <1>0, <1>4, AfterMarket
<1>5. CASE \E t \in Ticks : SyncLedger(t)
  BY <1>0, <1>5, SyncFields
<1>6. CASE \E t \in Ticks : Record(t)
  BY <1>0, <1>6, RecordFields
<1> QED
  BY <1>0, <1>1, <1>2, <1>3, <1>4, <1>5, <1>6
     DEF ControllerMoves, Execute, Called, Surroundings, SetRunMode, Crash, vars,
         Begin, ReadList, DecideGuarded, DecideNow, Finish

\* What a step does to the rows.
LEMMA RowsAlone ==
    ASSUME BreakerAssumed, ControllerMoves, NEW o \in Orders
    PROVE  /\ HasRow(o)' =>
                \/ HasRow(o)
                \/ \E c \in tick["loop"].sent :
                      /\ c.proposal.kind = "CREATE_BID" /\ c.order = o
                      /\ Record("loop")
           /\ RowActive(o)' => RowActive(o) \/ SyncLedger("loop") \/ Record("loop")
           /\ RowActive(o) => RowActive(o)' \/ SyncLedger("loop") \/ Record("loop")
<1>0. /\ Ticks = {"loop"} /\ TypeOK /\ RowsRead /\ OrdersKnown
      /\ ledger[o] \in RowType
  BY DEF BreakerAssumed, Alone, BreakerInvariant, TypeOK
<1>1. CASE \A x \in Orders : ledger'[x].status = ledger[x].status
  BY <1>1 DEF HasRow, RowActive
<1>2. CASE SyncLedger("loop")
  <2>1. o \in OwnedIn("loop") => HasRow(o)
    BY <1>0 DEF OwnedIn, OrdersKnown, KnownIds
  <2>2. o \in Vanished("loop") => HasRow(o)
    BY DEF Vanished, RowActive
  <2> QED
    BY <1>0, <1>2, <2>1, <2>2, SyncFields DEF HasRow
<1>3. CASE Record("loop")
  <2>1. PICK c \in tick["loop"].sent :
          /\ \A x \in Orders : x # c.order => ledger'[x] = ledger[x]
          /\ ledger'[c.order] = Recorded(ledger[c.order], c.proposal)
    BY <1>0, <1>3, RecordFields
  <2>2. c.proposal.kind # "CREATE_BID" => HasRow(c.order)
    BY <1>0 DEF RowsRead, OwnedIn, OrdersKnown, KnownIds
  <2> QED
    BY <1>3, <2>1, <2>2 DEF HasRow
<1> QED
  BY <1>1, <1>2, <1>3, LedgerAlone

LEMMA RowsMemoryKept ==
    ASSUME BreakerAssumed, ControllerMoves
    PROVE  RowsRead'
<1>0. /\ Ticks = {"loop"} /\ "loop" \in Ticks /\ TypeOK /\ RowsRead /\ OrdersKnown
      /\ Forward /\ RowsActive
  BY OrdersForward DEF BreakerAssumed, Alone, BreakerInvariant
<1>1. ASSUME NEW o \in Orders, HasRow(o), IsLive(o) => orders[o].listed
      PROVE  HasRow(o)' /\ (IsLive(o)' => orders'[o].listed)
  <2>1. orders[o].status # "NONE"
    BY <1>0, <1>1 DEF OrdersKnown
  <2> QED
    BY <1>0, <1>1, <2>1, RowsForward DEF Forward
<1>2. /\ tick["loop"].old \subseteq Orders
      /\ \A o \in tick["loop"].old : HasRow(o)' /\ (IsLive(o)' => orders'[o].listed)
  <2>1. tick["loop"].old \subseteq Orders
    BY <1>0 DEF TypeOK, TickType
  <2> QED
    BY <1>0, <1>1, <2>1 DEF RowsRead
<1>3. tick["loop"].pc # "acting" => KnownIds' \subseteq KnownIds
  <2>1. tick["loop"].pc # "acting" => tick["loop"].sent = {}
    BY <1>0 DEF OrdersKnown
  <2> QED
    BY <2>1, RowsAlone DEF KnownIds
<1>4. CASE tick'["loop"] = tick["loop"]
  <2>1. Seen("loop")' = Seen("loop") /\ OwnedIn("loop")' = OwnedIn("loop")
    BY <1>4 DEF Seen, OwnedIn
  <2> QED
    BY <1>0, <1>2, <1>3, <1>4, <2>1 DEF RowsRead
<1>5. CASE tick'["loop"] = IdleTick
  BY <1>0, <1>5, IdleFields DEF RowsRead
<1>6. CASE Begin("loop")
  <2>1. ASSUME NEW o \in OldRows
        PROVE  o \in Orders /\ HasRow(o) /\ (IsLive(o) => orders[o].listed)
    <3>1. o \in KnownIds /\ ledger[o].age > Grace
      BY <2>1 DEF OldRows, KnownIds
    <3>2. orders[o] \in OrderType /\ ledger[o] \in RowType
      BY <1>0, <3>1 DEF TypeOK, KnownIds
    <3>3. o \notin Hidden
      BY <1>0, <3>1, <3>2, ListingAssumption DEF RowsActive, OrderType, RowType
    <3> QED
      BY <3>1, <3>3 DEF Hidden, KnownIds
  <2>2. KnownIds' = KnownIds /\ UNCHANGED <<orders, ledger>>
    BY <1>0, <1>6, BeginFields DEF KnownIds, HasRow
  <2>3. \A o \in OldRows : HasRow(o)' /\ (IsLive(o)' => orders'[o].listed)
    BY <1>1, <2>1
  <2> QED
    BY <1>0, <1>6, <2>2, <2>3, BeginFields DEF RowsRead
<1>7. CASE ReadList("loop")
  BY <1>0, <1>2, <1>3, <1>7, ReadFields DEF RowsRead, OrdersKnown
<1>8. CASE SyncLedger("loop")
  BY <1>0, <1>2, <1>3, <1>8, SyncFields DEF RowsRead
<1>9. CASE DecideGuarded("loop")
  BY <1>0, <1>2, <1>9, DecideFields DEF RowsRead
<1>10. CASE Record("loop")
  <2>1. tick["loop"].pc = "acting"
    BY <1>0, <1>10, RecordFields DEF OrdersKnown
  <2> QED
    BY <1>0, <1>2, <1>10, <2>1, RecordFields DEF RowsRead
<1>11. ASSUME NEW p \in tick["loop"].todo, Called("loop", p)
       PROVE  RowsRead'
  <2>1. \A c \in tick'["loop"].sent :
          c.proposal.kind # "CREATE_BID" => c.order \in OwnedIn("loop")'
    <3>1. CASE tick'["loop"].sent = {}
      BY <3>1
    <3>2. CASE tick'["loop"].sent # {}
      <4>1. PICK o \in Orders :
              /\ tick'["loop"].sent = {[proposal |-> p, order |-> o]}
              /\ p.kind \in {"CREATE_BID", "EDIT_PRICE", "EDIT_SPEED", "CANCEL_BID"}
              /\ p.kind # "CREATE_BID" => o = p.order
        BY <1>0, <1>11, <3>2, CallFields
      <4>2. OwnedIn("loop")' = OwnedIn("loop")
        BY <1>0, <1>11, CallFields
      <4> QED
        BY <1>0, <1>11, <4>1, <4>2 DEF OrdersKnown
    <3> QED
      BY <3>1, <3>2
  <2>2. /\ tick'["loop"].pc = "acting" /\ tick'["loop"].old = tick["loop"].old
        /\ tick'["loop"].bidsOk = tick["loop"].bidsOk
        /\ Seen("loop")' = Seen("loop")
    BY <1>0, <1>11, CallFields
  <2> QED
    BY <1>0, <1>2, <2>1, <2>2 DEF RowsRead
<1> QED
  BY <1>0, <1>4, <1>5, <1>6, <1>7, <1>8, <1>9, <1>10, <1>11, TickCases
\* Rows age only with the clock.
LEMMA AgesAlone ==
    ASSUME BreakerAssumed, ControllerMoves,
           ~SyncLedger("loop"), ~Record("loop"), ~Minute
    PROVE  ledger' = ledger
<1>0. Ticks = {"loop"} /\ "staleUrl" \notin Events /\ cancelled = {} /\ TypeOK
  BY DEF BreakerAssumed, Alone, BreakerInvariant
<1>1. \A x \in Orders : ~CancelStaleUrl(x) /\ ~RecordStaleUrl(x)
  BY <1>0 DEF CancelStaleUrl, RecordStaleUrl
<1>2. CASE \E t \in Ticks : \E p \in tick[t].todo : Called(t, p)
  BY <1>0, <1>2, CallFields
<1>3. CASE \E x \in Orders :
              Surface(x) \/ Leave(x) \/ PauseOrResume(x) \/ PlaceByHand(x)
  BY <1>0, <1>3, AfterMarket
<1> QED
  BY <1>0, <1>1, <1>2, <1>3
     DEF ControllerMoves, Execute, Called, Surroundings, SetRunMode, Crash, vars,
         Begin, ReadList, DecideGuarded, DecideNow, Finish

\* An order with a row that is hidden was hidden before, and no more lags.
LEMMA HiddenBefore ==
    ASSUME TypeOK, OrdersKnown, ControllerMoves, NEW o \in Orders,
           orders[o].status # "NONE", o \in Hidden'
    PROVE  /\ o \in Hidden
           /\ Minute \/ orders'[o].lag = orders[o].lag
<1>0. Forward
  BY OrdersForward
<1>1. o \in Hidden
  BY <1>0 DEF Forward, Hidden
<1>2. CASE UNCHANGED orders
  BY <1>1, <1>2
<1>3. ASSUME NEW t \in Ticks, NEW p \in tick[t].todo, Called(t, p)
      PROVE  orders'[o].lag = orders[o].lag
  <2>1. \A x \in Orders : orders'[x] = orders[x] \/ orders[x].status = "NONE"
                          \/ orders'[x].lag = orders[x].lag
    BY <1>3, CallFields
  <2> QED
    BY <2>1
<1>4. ASSUME NEW x \in Orders, CancelStaleUrl(x) \/ RecordStaleUrl(x)
      PROVE  orders'[o].lag = orders[o].lag
  <2>1. \/ orders'[o] = orders[o]
        \/ orders'[o] = [orders[o] EXCEPT !.status = "PENDING_CANCEL"]
    BY <1>4, AfterStaleUrl
  <2>2. orders[o] \in OrderType
    BY DEF TypeOK
  <2> QED
    BY <2>1, <2>2 DEF OrderType
<1>5. ASSUME NEW x \in Orders,
             Surface(x) \/ Leave(x) \/ PauseOrResume(x) \/ PlaceByHand(x)
      PROVE  orders'[o].lag = orders[o].lag
  <2>1. ~orders'[o].listed /\ orders'[o].status # "GONE"
    BY DEF Hidden, IsLive, Live, Firm
  <2> QED
    BY <1>5, <2>1, AfterMarket
<1>6. CASE \E t \in Ticks : \/ Begin(t) \/ ReadList(t) \/ SyncLedger(t)
                            \/ DecideGuarded(t) \/ Record(t) \/ Finish(t)
  BY <1>2, <1>6 DEF Begin, ReadList, SyncLedger, DecideGuarded, DecideNow,
                    Record, Finish
<1> QED
  BY <1>1, <1>2, <1>3, <1>4, <1>5, <1>6
     DEF ControllerMoves, Execute, Called, Surroundings, SetRunMode, Crash, vars

\* An order that Braiins has yet to list has an active row, not older than it.
LEMMA HiddenRowKept ==
    ASSUME BreakerAssumed, ControllerMoves, NEW o \in KnownIds', o \in Hidden'
    PROVE  RowActive(o)' /\ ledger'[o].age <= orders'[o].lag
<1>0. /\ Ticks = {"loop"} /\ "loop" \in Ticks /\ TypeOK /\ RowsRead
      /\ OrdersKnown /\ RowsActive /\ cancelled = {}
      /\ o \in Orders /\ HasRow(o)' /\ ledger[o] \in RowType
      /\ orders[o] \in OrderType /\ TypeOK'
  BY MovesType DEF BreakerAssumed, Alone, BreakerInvariant, KnownIds, TypeOK
<1>1. CASE ~HasRow(o)
  <2>1. PICK c \in tick["loop"].sent :
          /\ c.proposal.kind = "CREATE_BID" /\ c.order = o
          /\ Record("loop")
    BY <1>0, <1>1, RowsAlone
  <2>2. PICK d \in tick["loop"].sent :
          /\ \A x \in Orders : x # d.order => ledger'[x] = ledger[x]
          /\ ledger'[d.order] = Recorded(ledger[d.order], d.proposal)
    BY <1>0, <2>1, RecordFields
  <2>3. d.order = o
    BY <1>0, <1>1, <2>2 DEF HasRow
  <2>4. d.proposal.kind = "CREATE_BID"
    BY <1>0, <1>1, <2>3 DEF RowsRead, OwnedIn, OrdersKnown, KnownIds
  <2>5. ledger'[o] = NewRow
    BY <1>0, <1>1, <2>2, <2>3, <2>4, RowAfterRecord DEF HasRow
  <2>6. orders'[o].lag \in 0..Lag /\ Lag \in Nat
    BY <1>0, ListingAssumption DEF TypeOK, OrderType
  <2> QED
    BY <1>0, <2>5, <2>6 DEF NewRow, RowActive, Terminal
<1>2. CASE HasRow(o)
  <2>1. orders[o].status # "NONE"
    BY <1>0, <1>2 DEF OrdersKnown
  <2>2. o \in Hidden /\ (Minute \/ orders'[o].lag = orders[o].lag)
    BY <1>0, <2>1, HiddenBefore
  <2>3. RowActive(o) /\ ledger[o].age <= orders[o].lag
    BY <1>0, <1>2, <2>2 DEF RowsActive, KnownIds
  <2>4. o \notin Seen("loop") /\ o \notin tick["loop"].old
    BY <1>0, <2>2 DEF Hidden, OrdersKnown, RowsRead
  <2>5. CASE SyncLedger("loop")
    <3>1. o \notin OwnedIn("loop") /\ o \notin Vanished("loop")
      BY <2>4 DEF OwnedIn, Vanished
    <3>2. ledger'[o].status = ledger[o].status /\ ledger'[o].age = ledger[o].age
          /\ orders'[o].lag = orders[o].lag
      BY <1>0, <2>5, <3>1, SyncFields
    <3> QED
      BY <2>3, <3>2 DEF RowActive, HasRow
  <2>6. CASE Record("loop")
    <3>1. PICK d \in tick["loop"].sent :
            /\ \A x \in Orders : x # d.order => ledger'[x] = ledger[x]
            /\ ledger'[d.order] = Recorded(ledger[d.order], d.proposal)
            /\ UNCHANGED orders
      BY <1>0, <2>6, RecordFields
    <3>2. CASE d.order # o
      BY <1>0, <2>3, <3>1, <3>2 DEF RowActive, HasRow
    <3>3. CASE d.order = o
      <4>1. d.proposal.kind = "CREATE_BID"
        BY <1>0, <2>4, <3>3 DEF RowsRead, OwnedIn
      <4>2. ledger'[o] = ledger[o]
        BY <1>0, <1>2, <3>1, <3>3, <4>1, RowAfterRecord DEF HasRow
      <4> QED
        BY <2>3, <3>1, <4>2 DEF RowActive, HasRow
    <3> QED
      BY <3>2, <3>3
  <2>7. CASE ~SyncLedger("loop") /\ ~Record("loop")
    <3>1. RowActive(o)'
      BY <1>0, <2>3, <2>7, RowsAlone
    <3>2. CASE Minute
      <4>1. /\ orders'[o].lag = orders[o].lag + 1
            /\ ledger'[o].age = Older(ledger[o].age, Grace + 1)
        BY <1>0, <1>2, <2>2, <3>2, AfterMinute
      <4>2. /\ ledger[o].age \in Nat /\ orders[o].lag \in Nat /\ Grace \in Nat
        BY <1>0, ListingAssumption DEF RowType, OrderType
      <4>3. ledger'[o].age <= orders'[o].lag
        BY <2>3, <4>1, <4>2 DEF Older, LesserOf
      <4> QED
        BY <3>1, <4>3
    <3>3. CASE ~Minute
      <4>1. ledger'[o] = ledger[o]
        BY <1>0, <2>7, <3>3, AgesAlone
      <4> QED
        BY <2>2, <2>3, <3>1, <3>3, <4>1
    <3> QED
      BY <3>2, <3>3
  <2> QED
    BY <2>5, <2>6, <2>7
<1> QED
  BY <1>1, <1>2
LEMMA ActiveCount ==
    ASSUME NEW o \in Orders, RowActive(o)
    PROVE  Cardinality({x \in Orders : RowActive(x)}) # 0
<1> DEFINE S == {x \in Orders : RowActive(x)}
<1>1. IsFiniteSet(S) /\ o \in S
  BY ListingAssumption, FS_Subset
<1> QED
  BY <1>1, FS_EmptySet

\* How a step moves the tick of the loop, where there is no other.
LEMMA LoopCases ==
    ASSUME TypeOK, Ticks = {"loop"}, [GuardedNext]_allVars
    PROVE  \/ GuardedCrash
           \/ FinishTick("loop")
           \/ tick'["loop"] = tick["loop"]
           \/ Begin("loop") \/ ReadList("loop") \/ SyncLedger("loop")
           \/ DecideGuarded("loop") \/ Record("loop")
           \/ \E p \in tick["loop"].todo : Called("loop", p)
<1>1. CASE UNCHANGED allVars
  BY <1>1 DEF allVars, vars
<1>2. ASSUME GuardedStep("loop")
      PROVE  \/ FinishTick("loop")
             \/ Begin("loop") \/ ReadList("loop") \/ SyncLedger("loop")
             \/ DecideGuarded("loop") \/ Record("loop")
             \/ \E p \in tick["loop"].todo : Called("loop", p)
  <2>1. CASE Send("loop")
    <3>1. PICK p \in tick["loop"].todo :
            \/ SendRefused("loop", p)
            \/ \/ SendCreate("loop", p) \/ SendEditPrice("loop", p)
               \/ SendEditSpeed("loop", p)
               \/ SendCancel("loop", p) \/ ExecutePause("loop", p)
      BY <2>1 DEF Send
    <3> QED
      BY <3>1 DEF SendRefused, Refused, Called
  <2> QED
    BY <1>2, <2>1 DEF GuardedStep, HearList
<1>3. CASE \/ StoreHold \/ ClearHold \/ (\E o \in Orders : Deliver(o))
           \/ (\E minutes \in Bans : Blacklist(minutes)) \/ GuardedMinute
           \/ \E mode \in RunModes : SetRunMode(mode)
           \/ \E o \in Orders :
                 \/ CancelStaleUrl(o) \/ RecordStaleUrl(o)
                 \/ Surface(o) \/ Leave(o) \/ PauseOrResume(o) \/ PlaceByHand(o)
  BY <1>3 DEF StoreHold, ClearHold, Deliver, Blacklist, GuardedMinute, Minute,
     SetRunMode, CancelStaleUrl, RecordStaleUrl, Surface, Leave, PauseOrResume,
     PlaceByHand, Market, vars
<1> QED
  BY <1>1, <1>2, <1>3 DEF GuardedNext

\* A tick begins with the rows of every order that it may miss.
LEMMA RowsSeenKept ==
    ASSUME BreakerAssumed, [GuardedNext]_allVars, NEW o \in KnownIds'
    PROVE  /\ tick'["loop"].pc \in {"begun", "read"} /\ RowActive(o)'
                => tick'["loop"].active # 0
           /\ /\ tick'["loop"].pc \in {"read", "synced"} /\ tick'["loop"].bidsOk
              /\ IsLive(o)' /\ o \notin Seen("loop")'
              => tick'["loop"].active # 0
           /\ o \in OwnedIn("loop")' /\ tick'["loop"].pc \in {"synced", "acting"}
                => RowActive(o)' \/ o \in tick'["loop"].cancels
<1>0. /\ Ticks = {"loop"} /\ "loop" \in Ticks /\ "blip" \notin Faults
      /\ TypeOK /\ RowsRead /\ OrdersKnown /\ RowsActive
      /\ ControllerMoves /\ Forward
      /\ o \in Orders /\ HasRow(o)' /\ ledger[o] \in RowType
  BY EveryStepMoves, OrdersForward
     DEF BreakerAssumed, Alone, BreakerInvariant, KnownIds, TypeOK
<1>1. CASE ~HasRow(o)
  <2>1. Record("loop")
    BY <1>0, <1>1, RowsAlone
  <2>2. PICK c \in tick["loop"].sent :
          /\ tick'["loop"].pc = tick["loop"].pc
          /\ OwnedIn("loop")' = OwnedIn("loop")
    BY <1>0, <2>1, RecordFields
  <2>3. tick["loop"].pc = "acting" /\ o \notin OwnedIn("loop")
    BY <1>0, <1>1, <2>2 DEF OrdersKnown, OwnedIn, KnownIds
  <2> QED
    BY <2>2, <2>3
<1>2. CASE HasRow(o)
  <2>0. /\ IsLive(o)' => IsLive(o)
        /\ tick["loop"].pc \in {"begun", "read"} /\ RowActive(o)
             => tick["loop"].active # 0
        /\ /\ tick["loop"].pc \in {"read", "synced"} /\ tick["loop"].bidsOk
           /\ IsLive(o) /\ o \notin Seen("loop")
           => tick["loop"].active # 0
        /\ o \in OwnedIn("loop") /\ tick["loop"].pc \in {"synced", "acting"}
             => RowActive(o) \/ o \in tick["loop"].cancels
        /\ o \in Hidden => RowActive(o)
    BY <1>0, <1>2 DEF OrdersKnown, Forward, RowsActive, KnownIds
  <2>1. CASE tick'["loop"] = tick["loop"]
    <3>1. ~SyncLedger("loop") /\ ~Record("loop")
      BY <1>0, <2>1, SyncFields, RecordFields
    <3>2. RowActive(o)' <=> RowActive(o)
      BY <1>0, <3>1, RowsAlone
    <3>3. Seen("loop")' = Seen("loop") /\ OwnedIn("loop")' = OwnedIn("loop")
      BY <2>1 DEF Seen, OwnedIn
    <3> QED
      BY <2>0, <2>1, <3>2, <3>3
  <2>2. CASE tick'["loop"] = IdleTick
    BY <1>0, <2>2, IdleFields
  <2>3. CASE Begin("loop")
    <3>1. RowActive(o)' <=> RowActive(o)
      BY <1>0, <2>3, BeginFields DEF RowActive, HasRow
    <3> QED
      BY <1>0, <2>3, <3>1, BeginFields, ActiveCount
  <2>4. CASE ReadList("loop")
    <3>1. RowActive(o)' <=> RowActive(o)
      BY <1>0, <2>4, ReadFields DEF RowActive, HasRow
    <3>2. tick'["loop"].bidsOk /\ IsLive(o) /\ o \notin Seen("loop")'
            => o \in Hidden
      BY <1>0, <2>4, ReadFields DEF Listing, Hidden
    <3> QED
      BY <1>0, <2>0, <2>4, <3>1, <3>2, ReadFields
  <2>5. CASE SyncLedger("loop")
    <3>1. o \in OwnedIn("loop") => RowActive(o)'
      BY <1>0, <2>5, SyncFields DEF RowActive, HasRow, Live, Firm, Terminal
    <3> QED
      BY <1>0, <2>0, <2>5, <3>1, SyncFields
  <2>6. CASE DecideGuarded("loop")
    <3>1. RowActive(o)' <=> RowActive(o)
      BY <1>0, <2>6, DecideFields DEF RowActive, HasRow
    <3> QED
      BY <1>0, <2>0, <2>6, <3>1, DecideFields
  <2>7. CASE Record("loop")
    <3>1. PICK c \in tick["loop"].sent :
            /\ tick'["loop"].pc = tick["loop"].pc
            /\ tick'["loop"].cancels =
                 IF c.proposal.kind = "CANCEL_BID"
                 THEN tick["loop"].cancels \cup {c.order} ELSE tick["loop"].cancels
            /\ OwnedIn("loop")' = OwnedIn("loop")
            /\ \A x \in Orders : x # c.order => ledger'[x] = ledger[x]
            /\ ledger'[c.order] = Recorded(ledger[c.order], c.proposal)
      BY <1>0, <2>7, RecordFields
    <3>2. tick["loop"].pc = "acting"
      BY <1>0, <3>1 DEF OrdersKnown
    <3>3. ledger'[o].status # ledger[o].status =>
            c.order = o /\ c.proposal.kind = "CANCEL_BID"
      BY <1>0, <1>2, <3>1, RowAfterRecord DEF HasRow
    <3>4. RowActive(o) => RowActive(o)' \/ o \in tick'["loop"].cancels
      BY <3>1, <3>3 DEF RowActive, HasRow
    <3> QED
      BY <2>0, <3>1, <3>2, <3>4
  <2>8. ASSUME NEW p \in tick["loop"].todo, Called("loop", p)
        PROVE  /\ tick'["loop"].pc = "acting"
               /\ o \in OwnedIn("loop")' => RowActive(o)' \/ o \in tick'["loop"].cancels
    <3>1. RowActive(o)' <=> RowActive(o)
      BY <1>0, <2>8, CallFields DEF RowActive, HasRow
    <3> QED
      BY <1>0, <2>0, <2>8, <3>1, CallFields
  <2> QED
    BY <1>0, <2>1, <2>2, <2>3, <2>4, <2>5, <2>6, <2>7, <2>8, TickCases
<1> QED
  BY <1>1, <1>2

LEMMA ForgottenBefore ==
    ASSUME GuardWellFormed, [GuardedNext]_allVars, ~GuardedCrash,
           ~("loop" \in Ticks /\ FinishTick("loop")), NEW o \in Orders
    PROVE  /\ Memory(o)' = G!NoCancel <=> Memory(o) = G!NoCancel
           /\ Forgotten(o)' => Forgotten(o)
<1>1. Memory(o) \in Int /\ (Memory(o) # -1 => Memory(o) >= 0)
  BY GuardAssumption DEF GuardWellFormed, GuardType, GuardRecord, Memory, G!NoCancel
<1>2. Memory(o)' = G!NoCancel <=> Memory(o) = G!NoCancel
  BY <1>1, GuardBetween DEF G!NoCancel
<1> QED
  BY <1>2, GuardBetween DEF Forgotten

\* What the guard tracks has an active row, until a list that a tick has read
\* ends it; then that tick has counted the row.
LEMMA ForgottenKept ==
    ASSUME BreakerAssumed, [GuardedNext]_allVars, NEW o \in KnownIds',
           Forgotten(o)'
    PROVE  IF tick'["loop"].pc \in {"synced", "acting"} /\ tick'["loop"].bidsOk
           THEN tick'["loop"].active # 0
           ELSE RowActive(o)'
<1>0. /\ Ticks = {"loop"} /\ "loop" \in Ticks
      /\ TypeOK /\ GuardWellFormed /\ RowsRead /\ OrdersKnown /\ RowsActive
      /\ TrackedListed /\ ControllerMoves
      /\ o \in Orders /\ ledger[o] \in RowType
  BY EveryStepMoves
     DEF BreakerAssumed, Alone, BreakerInvariant, KnownIds, TypeOK
<1>1. CASE GuardedCrash
  BY <1>0, <1>1, CrashedGuard DEF Forgotten
<1>2. CASE FinishTick("loop")
  <2>1. /\ tick["loop"].pc = "acting" /\ tick'["loop"].pc = "idle"
        /\ UNCHANGED ledger
    BY <1>0, <1>2, FedFields DEF IdleTick
  <2>2. PICK h \in GuardRecord :
          /\ tick["loop"].bidsOk => ObservedAs(guard, PatchedOwned("loop"), h)
          /\ ~tick["loop"].bidsOk => h = guard
          /\ \A x : G!IsTracked(guard', x) <=> G!IsTracked(h, x)
          /\ \A x \in Orders :
                Memory(x)' = IF x \in tick["loop"].cancels THEN 0 ELSE h.cancels[x]
    BY <1>0, <1>2, FedFields
  <2>3. o \notin tick["loop"].cancels /\ h.cancels[o] = G!NoCancel
    BY <1>0, <2>2 DEF Forgotten, G!NoCancel
  <2>4. G!IsTracked(h, o)
    BY <2>2 DEF Forgotten
  <2>5. CASE tick["loop"].bidsOk
    <3>1. o \in PatchedOwned("loop")
      BY <2>2, <2>4, <2>5, TrackedOrders DEF ObservedAs
    <3>2. o \in OwnedIn("loop") /\ o \in KnownIds
      BY <1>0, <3>1 DEF PatchedOwned, OwnedIn, OrdersKnown
    <3>3. RowActive(o)
      BY <1>0, <2>1, <2>3, <3>2 DEF RowsActive
    <3> QED
      BY <2>1, <3>3 DEF RowActive, HasRow
  <2>6. CASE ~tick["loop"].bidsOk
    <3>1. Forgotten(o)
      BY <2>2, <2>3, <2>4, <2>6 DEF Forgotten, Memory
    <3>2. o \in KnownIds
      BY <1>0, <3>1 DEF Forgotten, TrackedListed, KnownIds
    <3>3. RowActive(o)
      BY <1>0, <2>6, <3>1, <3>2 DEF RowsActive
    <3> QED
      BY <2>1, <3>3 DEF RowActive, HasRow
  <2> QED
    BY <2>5, <2>6
<1>3. CASE ~GuardedCrash /\ ~FinishTick("loop")
  <2>1. Forgotten(o)
    BY <1>0, <1>3, ForgottenBefore
  <2>2. o \in KnownIds /\ HasRow(o)
    BY <1>0, <2>1 DEF Forgotten, TrackedListed, KnownIds
  <2>3. IF tick["loop"].pc \in {"synced", "acting"} /\ tick["loop"].bidsOk
        THEN tick["loop"].active # 0
        ELSE RowActive(o)
    BY <1>0, <2>1, <2>2 DEF RowsActive
  <2>4. CASE tick'["loop"] = tick["loop"]
    <3>1. ~SyncLedger("loop") /\ ~Record("loop")
      BY <1>0, <2>4, SyncFields, RecordFields
    <3>2. RowActive(o)' <=> RowActive(o)
      BY <1>0, <3>1, RowsAlone
    <3> QED
      BY <2>3, <2>4, <3>2
  <2>5. CASE Begin("loop")
    <3>1. RowActive(o)' <=> RowActive(o)
      BY <1>0, <2>5, BeginFields DEF RowActive, HasRow
    <3> QED
      BY <1>0, <2>3, <2>5, <3>1, BeginFields
  <2>6. CASE ReadList("loop")
    <3>1. RowActive(o)' <=> RowActive(o)
      BY <1>0, <2>6, ReadFields DEF RowActive, HasRow
    <3> QED
      BY <1>0, <2>3, <2>6, <3>1, ReadFields
  <2>7. CASE SyncLedger("loop")
    <3>1. /\ tick["loop"].pc = "read" /\ tick'["loop"].pc = "synced"
          /\ tick'["loop"].active = tick["loop"].active
          /\ tick'["loop"].bidsOk = tick["loop"].bidsOk
          /\ o \notin OwnedIn("loop") => ledger'[o].status =
               IF o \in Vanished("loop") THEN "CANCELED" ELSE ledger[o].status
      BY <1>0, <2>7, SyncFields
    <3>2. RowActive(o) /\ tick["loop"].active # 0
      BY <1>0, <2>2, <2>3, <3>1 DEF RowsActive
    <3>3. ~tick["loop"].bidsOk => o \notin OwnedIn("loop") /\ o \notin Vanished("loop")
      BY <1>0 DEF RowsRead, OwnedIn, Vanished
    <3>4. ~tick["loop"].bidsOk => RowActive(o)'
      BY <3>1, <3>2, <3>3 DEF RowActive, HasRow
    <3> QED
      BY <3>1, <3>2, <3>4
  <2>8. CASE DecideGuarded("loop")
    <3>1. RowActive(o)' <=> RowActive(o)
      BY <1>0, <2>8, DecideFields DEF RowActive, HasRow
    <3> QED
      BY <1>0, <2>3, <2>8, <3>1, DecideFields
  <2>9. CASE Record("loop")
    <3>1. PICK c \in tick["loop"].sent :
            /\ tick'["loop"].pc = tick["loop"].pc
            /\ tick'["loop"].active = tick["loop"].active
            /\ tick'["loop"].bidsOk = tick["loop"].bidsOk
            /\ \A x \in Orders : x # c.order => ledger'[x] = ledger[x]
            /\ ledger'[c.order] = Recorded(ledger[c.order], c.proposal)
      BY <1>0, <2>9, RecordFields
    <3>2. tick["loop"].pc = "acting"
      BY <1>0, <3>1 DEF OrdersKnown
    <3>3. ~tick["loop"].bidsOk => c.proposal.kind = "CREATE_BID"
      BY <1>0 DEF RowsRead, OwnedIn
    <3>4. ~tick["loop"].bidsOk => ledger'[o] = ledger[o]
      BY <1>0, <2>2, <3>1, <3>3, RowAfterRecord DEF HasRow
    <3>5. ~tick["loop"].bidsOk => RowActive(o)'
      BY <2>3, <3>4 DEF RowActive, HasRow
    <3> QED
      BY <2>3, <3>1, <3>2, <3>5
  <2>10. CASE \E p \in tick["loop"].todo : Called("loop", p)
    <3>1. RowActive(o)' <=> RowActive(o)
      BY <1>0, <2>10, CallFields DEF RowActive, HasRow
    <3> QED
      BY <1>0, <2>3, <2>10, <3>1, CallFields
  <2> QED
    BY <1>0, <1>3, <2>4, <2>5, <2>6, <2>7, <2>8, <2>9, <2>10, LoopCases
<1> QED
  BY <1>1, <1>2, <1>3

LEMMA RowsActiveKept ==
    ASSUME BreakerAssumed, [GuardedNext]_allVars
    PROVE  RowsActive'
  BY EveryStepMoves, HiddenRowKept, RowsSeenKept, ForgottenKept DEF RowsActive
\* The row of an order that has one is on its way out; the only way in is the
\* record of a CREATE.
LEMMA BusyShrinks ==
    ASSUME BreakerAssumed, [GuardedNext]_allVars
    PROVE  \/ Busy' \subseteq Busy
           \/ /\ Record("loop") /\ CreateSent
              /\ \E x \in Orders : Busy' \subseteq Busy \cup {x}
<1>0. /\ Ticks = {"loop"} /\ "loop" \in Ticks
      /\ TypeOK /\ GuardWellFormed /\ OrdersKnown /\ TrackedListed
      /\ ControllerMoves /\ Forward
  BY EveryStepMoves, OrdersForward DEF BreakerAssumed, Alone
<1>1. ASSUME NEW o \in Busy', HasRow(o)
      PROVE  o \in Busy
  <2>0. o \in Orders /\ o \in KnownIds /\ orders[o].status # "NONE"
    BY <1>0, <1>1 DEF Busy, KnownIds, OrdersKnown
  <2>1. IsLive(o)' => IsLive(o)
    BY <1>0, <2>0 DEF Forward
  <2>2. o \in Seen("loop")' => o \in Seen("loop") \/ IsLive(o)
    BY <1>0, SeenGrows
  <2>3. CASE GuardedCrash
    <3>1. ~Forgotten(o)'
      BY <1>0, <2>3, CrashedGuard DEF Forgotten
    <3> QED
      BY <1>1, <2>0, <2>1, <2>2, <3>1 DEF Busy
  <2>4. CASE FinishTick("loop")
    <3>1. PICK h \in GuardRecord :
            /\ tick["loop"].bidsOk => ObservedAs(guard, PatchedOwned("loop"), h)
            /\ ~tick["loop"].bidsOk => h = guard
            /\ \A x : G!IsTracked(guard', x) <=> G!IsTracked(h, x)
            /\ \A x \in Orders :
                  Memory(x)' = IF x \in tick["loop"].cancels THEN 0
                               ELSE h.cancels[x]
      BY <1>0, <2>4, FedFields
    <3>2. Forgotten(o)' => G!IsTracked(h, o) /\ h.cancels[o] = G!NoCancel
      BY <2>0, <3>1 DEF Forgotten, G!NoCancel
    <3>3. tick["loop"].bidsOk /\ Forgotten(o)' => o \in Seen("loop")
      <4>1. tick["loop"].bidsOk /\ Forgotten(o)' => o \in PatchedOwned("loop")
        BY <3>1, <3>2, TrackedOrders DEF ObservedAs
      <4> QED
        BY <4>1 DEF PatchedOwned, OwnedIn
    <3>4. ~tick["loop"].bidsOk /\ Forgotten(o)' => Forgotten(o)
      BY <3>1, <3>2 DEF Forgotten, Memory
    <3> QED
      BY <1>1, <2>0, <2>1, <2>2, <3>3, <3>4 DEF Busy
  <2>5. CASE ~GuardedCrash /\ ~FinishTick("loop")
    <3>1. Forgotten(o)' => Forgotten(o)
      BY <1>0, <2>0, <2>5, ForgottenBefore
    <3> QED
      BY <1>1, <2>0, <2>1, <2>2, <3>1 DEF Busy
  <2> QED
    BY <2>3, <2>4, <2>5
<1>2. CASE \A o \in Busy' : HasRow(o)
  BY <1>1, <1>2
<1>3. CASE \E o \in Busy' : ~HasRow(o)
  <2>1. PICK o \in Busy' : ~HasRow(o)
    BY <1>3
  <2>2. o \in Orders /\ HasRow(o)'
    BY <2>1 DEF Busy, KnownIds
  <2>3. Record("loop") /\ CreateSent
    BY <2>1, <2>2, <1>0, RowsAlone DEF CreateSent
  <2>4. PICK c \in tick["loop"].sent :
          c.order \in Orders /\ \A x \in Orders : x # c.order => ledger'[x] = ledger[x]
    BY <1>0, <2>3, RecordFields
  <2>5. Busy' \subseteq Busy \cup {c.order}
    BY <1>1, <2>4 DEF Busy, KnownIds, HasRow
  <2> QED
    BY <2>3, <2>4, <2>5
<1> QED
  BY <1>2, <1>3

LEMMA CreateSentGrows ==
    ASSUME TypeOK, OrdersKnown, ControllerMoves, "loop" \in Ticks, CreateSent'
    PROVE  \/ CreateSent
           \/ \E p \in tick["loop"].todo :
                /\ p.kind = "CREATE_BID"
                /\ tick'["loop"].todo = tick["loop"].todo \ {p}
<1>1. PICK c \in tick'["loop"].sent : c.proposal.kind = "CREATE_BID"
  BY DEF CreateSent
<1>2. CASE tick'["loop"].sent = tick["loop"].sent
  BY <1>1, <1>2 DEF CreateSent
<1>3. CASE tick'["loop"].sent = {}
  BY <1>1, <1>3
<1>4. ASSUME NEW p \in tick["loop"].todo, Called("loop", p)
      PROVE  /\ p.kind = "CREATE_BID"
             /\ tick'["loop"].todo = tick["loop"].todo \ {p}
  <2>1. \E o \in Orders :
          tick'["loop"].sent \in {{}, {[proposal |-> p, order |-> o]}}
    BY <1>1, <1>4, CallFields
  <2>2. c.proposal = p
    BY <1>1, <2>1
  <2> QED
    BY <1>1, <1>4, <2>2, CallFields
<1>5. CASE Begin("loop")
  BY <1>3, <1>5, BeginFields
<1> QED
  BY <1>2, <1>3, <1>4, <1>5, TickCases, IdleFields, ReadFields, SyncFields,
     DecideFields, RecordFields

LEMMA RefusedFields ==
    ASSUME TypeOK, NEW t \in Ticks, NEW p, Refused(t, p)
    PROVE  /\ tick[t].sent = {} /\ tick'[t].sent = {}
           /\ tick'[t].todo = tick[t].todo \ {p}
<1>1. tick[t].sent = {} /\ tick[t] \in TickType
  BY DEF Refused, MaySend, TypeOK
<1> QED
  BY <1>1 DEF Refused, Failed, Becomes, TypeOK, TickType

\* What makes a CREATE of a tick lonely: no row of an order is about.
LEMMA PlannedAlone ==
    ASSUME BreakerAssumed, DecideGuarded("loop"), CreatePlanned("loop")'
    PROVE  Busy = {} /\ guard'.hold = G!NoHold
<1>0. /\ Ticks = {"loop"} /\ "loop" \in Ticks /\ TypeOK
      /\ OrdersKnown /\ RowsRead /\ RowsActive
  BY DEF BreakerAssumed, Alone, BreakerInvariant
<1>1. PICK p \in tick'["loop"].todo : p.kind = "CREATE_BID"
  BY DEF CreatePlanned
<1>2. /\ tick["loop"].pc = "synced" /\ tick["loop"].active = 0
      /\ tick["loop"].bidsOk /\ OwnedIn("loop") = {}
      /\ guard'.hold = G!NoHold
  BY <1>0, <1>1, DecideFields
<1>3. ASSUME NEW o \in Busy
      PROVE  FALSE
  <2>1. o \in KnownIds /\ o \in tick["loop"].ids
    BY <1>0, <1>2 DEF Busy, RowsRead
  <2>2. o \notin Seen("loop")
    BY <1>2, <2>1 DEF OwnedIn
  <2>3. ~IsLive(o) /\ ~Forgotten(o)
    BY <1>0, <1>2, <2>1, <2>2 DEF RowsActive
  <2> QED
    BY <2>2, <2>3 DEF Busy
<1> QED
  BY <1>2, <1>3

LEMMA CreatesAloneKept ==
    ASSUME BreakerAssumed, [GuardedNext]_allVars
    PROVE  CreatesAlone'
<1>0. /\ Ticks = {"loop"} /\ "loop" \in Ticks
      /\ TypeOK /\ GuardWellFormed /\ OrdersKnown /\ CreatesAlone
      /\ ControllerMoves
  BY EveryStepMoves DEF BreakerAssumed, Alone, BreakerInvariant
<1> DEFINE about == CreatePlanned("loop") \/ CreateSent \/ refusals # {}
<1>1. /\ tick["loop"].pc # "acting" =>
           tick["loop"].todo = {} /\ tick["loop"].sent = {} /\ refusals = {}
      /\ about => Busy = {} /\ guard.hold = G!NoHold /\ tick["loop"].pc = "acting"
  BY <1>0 DEF OrdersKnown, CreatesAlone
<1>2. \A a, b \in Busy' : a = b
  <2>1. CASE Busy' \subseteq Busy
    BY <1>0, <2>1 DEF CreatesAlone
  <2>2. CASE CreateSent /\ \E x \in Orders : Busy' \subseteq Busy \cup {x}
    BY <1>1, <2>2
  <2> QED
    BY <2>1, <2>2, BusyShrinks
<1>3. CASE GuardedCrash
  <2>1. ~CreatePlanned("loop")' /\ ~CreateSent' /\ refusals' = {}
    BY <1>0, <1>3, CrashedGuard DEF CreatePlanned, CreateSent, IdleTick
  <2> QED
    BY <1>2, <2>1 DEF CreatesAlone
<1>4. CASE FinishTick("loop")
  <2>1. ~CreatePlanned("loop")' /\ ~CreateSent' /\ refusals' = {}
    BY <1>0, <1>4, FedFields DEF CreatePlanned, CreateSent, IdleTick, FinishTick
  <2> QED
    BY <1>2, <2>1 DEF CreatesAlone
<1>5. CASE DecideGuarded("loop")
  <2>1. /\ tick["loop"].pc = "synced" /\ tick'["loop"].pc = "acting"
        /\ tick'["loop"].sent = tick["loop"].sent
        /\ \A p \in tick'["loop"].todo :
              p.kind = "CREATE_BID" => tick'["loop"].todo = {p}
    BY <1>0, <1>5, DecideFields
  <2>2. tick["loop"].sent = {} /\ refusals' = {} /\ ~CreateSent'
    BY <1>1, <1>5, <2>1 DEF DecideGuarded, CreateSent
  <2>3. Busy' \subseteq Busy
    BY <2>2, BusyShrinks DEF CreateSent
  <2>4. CreatePlanned("loop")' =>
          /\ Busy' = {} /\ guard'.hold = G!NoHold
          /\ \E p \in tick'["loop"].todo : tick'["loop"].todo = {p}
    BY <1>5, <2>1, <2>3, PlannedAlone DEF CreatePlanned
  <2> QED
    BY <1>2, <2>1, <2>2, <2>4 DEF CreatesAlone
<1>6. CASE ~GuardedCrash /\ ~FinishTick("loop") /\ ~DecideGuarded("loop")
  <2>1. \A p \in tick'["loop"].todo : p \in tick["loop"].todo
    BY <1>0, <1>6, PlansShrink
  <2>2. CreatePlanned("loop")' => CreatePlanned("loop")
    BY <2>1 DEF CreatePlanned
  <2>3. refusals' # {} =>
          \/ refusals # {}
          \/ /\ CreatePlanned("loop") /\ tick["loop"].sent = {}
             /\ tick'["loop"].sent = {}
             /\ \E p \in tick["loop"].todo :
                   tick'["loop"].todo = tick["loop"].todo \ {p}
    <3>1. ASSUME NEW p \in tick["loop"].todo, p.kind = "CREATE_BID",
                 Refused("loop", p)
          PROVE  /\ CreatePlanned("loop") /\ tick["loop"].sent = {}
                 /\ tick'["loop"].sent = {}
                 /\ tick'["loop"].todo = tick["loop"].todo \ {p}
      BY <1>0, <3>1, RefusedFields DEF CreatePlanned
    <3> QED
      BY <1>0, <3>1, RefusalsGrow
  <2>4. CreateSent' =>
          \/ CreateSent
          \/ /\ CreatePlanned("loop")
             /\ \E p \in tick["loop"].todo :
                   tick'["loop"].todo = tick["loop"].todo \ {p}
    BY <1>0, CreateSentGrows DEF CreatePlanned
  <2>5. about' => about
    BY <2>2, <2>3, <2>4
  <2>6. /\ CreatePlanned("loop") =>
             /\ ~CreateSent /\ refusals = {}
             /\ \E p \in tick["loop"].todo : tick["loop"].todo = {p}
        /\ CreateSent => refusals = {}
    BY <1>0 DEF CreatesAlone
  <2>7. CreatePlanned("loop")' => tick'["loop"].todo # {}
    BY DEF CreatePlanned
  <2>8. about' => guard'.hold = G!NoHold
    BY <1>0, <1>1, <1>6, <2>5, HoldComes
  <2>9. about' => tick'["loop"].pc = "acting"
    <3>1. tick["loop"].pc = "acting" =>
            \/ tick'["loop"] = tick["loop"] \/ Record("loop")
            \/ \E p \in tick["loop"].todo : Called("loop", p)
      BY <1>0, <1>6, LoopCases, BeginFields, ReadFields, SyncFields
    <3>2. Record("loop") => tick'["loop"].pc = tick["loop"].pc
      BY <1>0, RecordFields
    <3>3. (\E p \in tick["loop"].todo : Called("loop", p))
            => tick'["loop"].pc = "acting"
      BY <1>0, CallFields
    <3> HIDE DEF about
    <3>4. about' => tick["loop"].pc = "acting"
      BY <1>1, <2>5
    <3> QED
      BY <3>1, <3>2, <3>3, <3>4
  <2>10. about' => Busy' = {}
    <3>1. CASE Busy' \subseteq Busy
      BY <1>1, <2>5, <3>1
    <3>2. CASE Record("loop") /\ CreateSent
      <4>1. tick'["loop"].sent = {}
        BY <1>0, <3>2, RecordFields
      <4>2. ~CreateSent' /\ ~CreatePlanned("loop")' /\ refusals' = {}
        BY <2>2, <2>3, <2>6, <3>2, <4>1 DEF CreateSent
      <4> QED
        BY <4>2
    <3> QED
      BY <3>1, <3>2, BusyShrinks
  <2>11. CreatePlanned("loop")' =>
           /\ ~CreateSent' /\ refusals' = {}
           /\ \E p \in tick'["loop"].todo : tick'["loop"].todo = {p}
    BY <2>1, <2>2, <2>3, <2>4, <2>6, <2>7
  <2>12. CreateSent' => refusals' = {}
    BY <2>3, <2>4, <2>6 DEF CreateSent
  <2> QED
    BY <1>2, <2>8, <2>9, <2>10, <2>11, <2>12 DEF CreatesAlone
<1> QED
  BY <1>3, <1>4, <1>5, <1>6
\* What a tick that ends leaves to count was there before.
LEMMA CountableFed ==
    ASSUME BreakerAssumed, [GuardedNext]_allVars, FinishTick("loop"),
           NEW o \in Countable'
    PROVE  /\ o \in Countable
           /\ tick["loop"].bidsOk => o \notin Cycles(guard, PatchedOwned("loop"))
<1>0. /\ Ticks = {"loop"} /\ "loop" \in Ticks
      /\ TypeOK /\ GuardWellFormed /\ OrdersKnown /\ TrackedListed /\ CancelsKept
      /\ tick["loop"].pc = "acting" /\ UNCHANGED <<orders, ledger>>
      /\ Seen("loop")' = {} /\ tick'["loop"] = IdleTick
  BY FedFields, IdleFields DEF BreakerAssumed, Alone
<1>1. o \in Orders /\ o \in Busy' /\ Memory(o)' = G!NoCancel
  BY DEF Countable, Busy, KnownIds
<1>2. o \in Busy
  BY <1>1, BusyShrinks, RecordFields, <1>0 DEF FinishTick, Finish
<1>3. PICK h \in GuardRecord :
        /\ tick["loop"].bidsOk => ObservedAs(guard, PatchedOwned("loop"), h)
        /\ ~tick["loop"].bidsOk => h = guard
        /\ \A x : G!IsTracked(guard', x) <=> G!IsTracked(h, x)
        /\ \A x \in Orders :
              Memory(x)' = IF x \in tick["loop"].cancels THEN 0 ELSE h.cancels[x]
  BY <1>0, FedFields
<1>4. o \notin tick["loop"].cancels /\ h.cancels[o] = G!NoCancel
  BY <1>1, <1>3 DEF G!NoCancel
<1>5. IsLive(o) \/ G!IsTracked(h, o)
  <2>1. o \notin Seen("loop")'
    BY <1>0
  <2>2. IsLive(o)' \/ Forgotten(o)'
    BY <1>1, <2>1 DEF Busy
  <2> QED
    BY <1>0, <1>3, <2>2 DEF Forgotten, IsLive
<1>6. CASE tick["loop"].bidsOk
  <2>1. G!IsTracked(h, o) => o \in PatchedOwned("loop")
    BY <1>3, <1>6, TrackedOrders DEF ObservedAs
  <2>2. G!IsTracked(guard, o) => o \in PatchedOwned("loop")
    <3>1. G!IsTracked(guard, o) /\ IsLive(o)
            => o \in Seen("loop") /\ o \in tick["loop"].ids
      BY <1>0, <1>1, <1>6 DEF TrackedListed
    <3> QED
      BY <1>4, <1>5, <2>1, <3>1 DEF PatchedOwned, OwnedIn
  <2>3. o \notin Departures(guard, PatchedOwned("loop"))
    BY <1>0, <2>2, TrackedOrders DEF Departures, GuardWellFormed, GuardType
  <2>4. ~(Memory(o) > OwnCancelMemory)
    <3>1. o \in PatchedOwned("loop") => o \in Seen("loop")
      BY DEF PatchedOwned, OwnedIn
    <3> QED
      BY <1>0, <1>1, <1>5, <2>1, <3>1 DEF CancelsKept
  <2>5. Memory(o) = G!NoCancel
    BY <1>1, <1>3, <1>4, <1>6, <2>3, <2>4 DEF ObservedAs, Memory
  <2> QED
    BY <1>2, <2>3, <2>5 DEF Countable, Cycles
<1>7. CASE ~tick["loop"].bidsOk
  BY <1>2, <1>3, <1>4, <1>7 DEF Countable, Memory
<1> QED
  BY <1>6, <1>7

\* What such a tick counts was there to count.
LEMMA CyclesCountable ==
    ASSUME BreakerAssumed, FinishTick("loop"), tick["loop"].bidsOk
    PROVE  Cycles(guard, PatchedOwned("loop")) \subseteq Countable
<1>0. /\ Ticks = {"loop"} /\ "loop" \in Ticks
      /\ GuardWellFormed /\ TrackedListed /\ CancelsKept
  BY DEF BreakerAssumed, Alone
<1>1. ASSUME NEW o \in Cycles(guard, PatchedOwned("loop"))
      PROVE  o \in Countable
  <2>1. /\ o \in Orders /\ G!IsTracked(guard, o)
        /\ ~G!Excused(guard, o)
    BY <1>0, TrackedOrders DEF Cycles, Departures, GuardWellFormed, GuardType
  <2>2. ~(Memory(o) > OwnCancelMemory)
    BY <1>0, <2>1 DEF CancelsKept
  <2>3. Memory(o) \in Int /\ OwnCancelMemory \in Nat
    BY <1>0, <2>1, GuardAssumption
       DEF GuardWellFormed, GuardType, GuardRecord, Memory, G!NoCancel
  <2>4. Memory(o) = G!NoCancel
    BY <2>1, <2>2, <2>3 DEF G!Excused, Memory
  <2> QED
    BY <1>0, <2>1, <2>4 DEF Countable, Busy, Forgotten, TrackedListed, KnownIds
<1> QED
  BY <1>1

\* A streak that has run its length is under a churn hold, and a blacklist hold
\* never covers the cycle that would complete one.
LEMMA StreakUnderHoldKept ==
    ASSUME BreakerAssumed, [GuardedNext]_allVars
    PROVE  StreakUnderHold'
<1>0. /\ Ticks = {"loop"} /\ "loop" \in Ticks
      /\ TypeOK /\ GuardWellFormed /\ OrdersKnown
      /\ CreatesAlone /\ StreakUnderHold
      /\ ChurnStreakThreshold \in Nat /\ ChurnStreakThreshold > 1
      /\ guard.streak \in Nat /\ guard.hold \in HoldType
  BY GuardAssumption DEF BreakerAssumed, Alone, BreakerInvariant,
                         GuardWellFormed, GuardType, GuardRecord
<1>1. CASE GuardedCrash
  <2>1. guard'.streak = 0
    BY <1>0, <1>1, CrashedGuard
  <2> QED
    BY <1>0, <2>1 DEF StreakUnderHold
<1>2. CASE ~GuardedCrash /\ ~FinishTick("loop")
  <2>1. /\ \/ guard'.streak = guard.streak
           \/ guard'.streak = 0 /\ guard'.hold = G!NoHold
        /\ \/ guard'.hold.kind = guard.hold.kind
           \/ /\ guard'.hold = G!NoHold
              /\ guard'.streak = 0 \/ guard.hold.kind = "blacklist"
    BY <1>0, <1>2, GuardBetween
  <2>2. guard'.streak >= ChurnStreakThreshold => guard'.hold.kind = "churn"
    BY <1>0, <2>1 DEF StreakUnderHold
  <2>3. guard'.hold.kind = "blacklist" => guard.hold.kind = "blacklist"
    BY <2>1, HoldTypes
  <2>4. guard.hold.kind = "blacklist" => Busy' \subseteq Busy
    BY <1>0, BusyShrinks, HoldTypes DEF CreatesAlone
  <2>5. \A o \in Orders : Memory(o)' = G!NoCancel => Memory(o) = G!NoCancel
    BY <1>0, <1>2, ForgottenBefore
  <2>6. guard.hold.kind = "blacklist" => Countable' \subseteq Countable
    BY <2>4, <2>5 DEF Countable, Busy, KnownIds
  <2>7. guard'.hold.kind = "blacklist" /\ Countable' # {}
          => guard'.streak + 1 < ChurnStreakThreshold
    BY <1>0, <2>1, <2>3, <2>6 DEF StreakUnderHold
  <2> QED
    BY <2>2, <2>7 DEF StreakUnderHold
<1>3. CASE FinishTick("loop")
  <2> DEFINE p == PatchedOwned("loop")
             C == Cycles(guard, p)
  <2>1. PICK h \in GuardRecord :
          /\ tick["loop"].bidsOk => ObservedAs(guard, p, h)
          /\ ~tick["loop"].bidsOk => h = guard
          /\ guard'.streak = h.streak
          /\ refusals = {} => guard'.hold = h.hold
          /\ refusals # {} => guard'.hold.kind = "blacklist"
    BY <1>0, <1>3, FedFields
  <2>2. Countable' \subseteq Countable
    BY <1>3, CountableFed
  <2>3. tick["loop"].bidsOk => C \subseteq Countable /\ C \cap Countable' = {}
    BY <1>3, CountableFed, CyclesCountable
  <2>4. Countable \subseteq Busy
    BY DEF Countable
  <2>5. CASE ~tick["loop"].bidsOk \/ C = {}
    <3>1. h.streak = guard.streak /\ h.hold = guard.hold
      BY <2>1, <2>5 DEF ObservedAs
    <3>2. CASE refusals = {}
      BY <2>1, <2>2, <3>1, <3>2, <1>0 DEF StreakUnderHold
    <3>3. CASE refusals # {}
      <4>1. Busy = {} /\ guard.hold = G!NoHold
        BY <1>0, <3>3 DEF CreatesAlone
      <4>2. Countable' = {}
        BY <2>2, <2>4, <4>1
      <4>3. ~(guard.streak >= ChurnStreakThreshold)
        BY <1>0, <4>1, HoldTypes DEF StreakUnderHold
      <4> QED
        BY <2>1, <3>1, <4>2, <4>3 DEF StreakUnderHold
    <3> QED
      BY <3>2, <3>3
  <2>6. CASE tick["loop"].bidsOk /\ C # {}
    <3>1. PICK c \in C : c \in Countable /\ c \in Busy
      BY <2>3, <2>4, <2>6
    <3>2. Busy = {c} /\ refusals = {}
      BY <1>0, <3>1 DEF CreatesAlone
    <3>3. C = {c}
      BY <2>3, <2>4, <2>6, <3>1, <3>2
    <3>4. Countable' = {}
      BY <2>2, <2>3, <2>4, <2>6, <3>2, <3>3
    <3>5. Cardinality(C) = 1
      BY <3>3, FS_Singleton
    <3>6. /\ h.streak <= guard.streak + 1
          /\ h.hold = guard.hold \/ (guard.hold = G!NoHold /\ h.hold = G!ChurnHold)
          /\ guard.streak < ChurnStreakThreshold /\ guard.hold.kind # "blacklist" =>
               (h.streak >= ChurnStreakThreshold => h.hold = G!ChurnHold)
      BY <2>1, <2>6, <3>5 DEF ObservedAs
    <3>7. guard.hold.kind = "blacklist" => guard.streak + 1 < ChurnStreakThreshold
      BY <1>0, <3>1 DEF StreakUnderHold
    <3>8. h.streak \in Nat
      BY DEF GuardRecord
    <3>9. h.streak >= ChurnStreakThreshold => h.hold.kind = "churn"
      <4>1. CASE guard.hold.kind = "churn"
        BY <3>6, <4>1, HoldTypes
      <4>2. CASE guard.hold.kind = "blacklist"
        BY <1>0, <3>6, <3>7, <3>8, <4>2
      <4>3. CASE guard.hold.kind # "churn" /\ guard.hold.kind # "blacklist"
        <5>1. guard.streak < ChurnStreakThreshold
          BY <1>0, <4>3 DEF StreakUnderHold
        <5> QED
          BY <3>6, <4>3, <5>1, HoldTypes
      <4> QED
        BY <4>1, <4>2, <4>3
    <3> QED
      BY <2>1, <3>2, <3>4, <3>9 DEF StreakUnderHold
  <2> QED
    BY <2>5, <2>6
<1> QED
  BY <1>1, <1>2, <1>3

LEMMA BreakerStarts ==
    ASSUME GuardedInit, Alone
    PROVE  BreakerInvariant
<1>1. /\ \A o \in Orders : ~HasRow(o)
      /\ tick["loop"] = IdleTick /\ cancelled = {} /\ refusals = {}
      /\ guard = G!NewGuard
  BY DEF GuardedInit, Init, Alone, NoRow, HasRow
<1>2. KnownIds = {} /\ Busy = {}
  BY <1>1 DEF KnownIds, Busy
<1>3. /\ tick["loop"].pc = "idle" /\ tick["loop"].todo = {}
      /\ tick["loop"].sent = {} /\ tick["loop"].old = {}
      /\ Seen("loop") = {}
  BY <1>1 DEF IdleTick, Seen, NotListed
<1>4. RowsRead /\ RowsActive /\ CreatesAlone
  BY <1>1, <1>2, <1>3
     DEF RowsRead, RowsActive, CreatesAlone, CreatePlanned, CreateSent
<1>5. guard.streak = 0 /\ guard.hold.kind = "none" /\ ChurnStreakThreshold > 1
  BY <1>1, NewGuardType, HoldTypes DEF Alone
<1>6. StreakUnderHold
  BY <1>5, GuardAssumption DEF StreakUnderHold
<1> QED
  BY <1>1, <1>4, <1>6 DEF BreakerInvariant

\* "Three consecutive cycles trip a hold" (bid-guard.ts:16-18), whatever is
\* refused, lost, not fetched or crashes, where only the loop runs ticks, no
\* list that arrives misses an order and the stale-URL route is not used: a
\* CREATE that Braiins refuses for its blacklist was sent when no order was
\* left to count, so the hold that follows masks no trip.
THEOREM BreakerTripsHolds ==
    Alone => (GuardedSpec => []BreakerTrips)
<1> SUFFICES ASSUME Alone PROVE GuardedSpec => []BreakerTrips
  OBVIOUS
<1> DEFINE Inv == /\ GuardedInvariant /\ OrdersKnown /\ TrackedListed
                  /\ CancelsKept /\ BreakerInvariant
<1>1. GuardedInit => Inv
  BY GuardStarts, CreatesUnheldStarts, EvidenceStarts, BreakerStarts
     DEF GuardedInvariant, EvidenceInvariant
<1>2. Inv /\ [GuardedNext]_allVars => Inv'
  <2> SUFFICES ASSUME Inv, [GuardedNext]_allVars PROVE Inv'
    OBVIOUS
  <2>1. BreakerAssumed /\ ControllerMoves
    BY EveryStepMoves DEF BreakerAssumed, GuardedInvariant
  <2>2. GuardedInvariant'
    BY GuardedInvariantKept
  <2>3. OrdersKnown' /\ TrackedListed' /\ CancelsKept'
    BY <2>1, OrdersKnownKept, TrackedListedKept, CancelsKeptKept
       DEF BreakerAssumed, Alone
  <2>4. BreakerInvariant'
    BY <2>1, LedgerAlone, RowsMemoryKept, RowsActiveKept, CreatesAloneKept,
       StreakUnderHoldKept DEF BreakerInvariant
  <2> QED
    BY <2>2, <2>3, <2>4
<1>3. Inv => BreakerTrips
  BY DEF BreakerInvariant, StreakUnderHold, BreakerTrips
<1> QED
  BY <1>1, <1>2, <1>3, PTL DEF GuardedSpec
=============================================================================
