-------------------------- MODULE PageBlocks_proof --------------------------
(* The headers tile the superpages, and the lists of page blocks are what  *)
(* they should be, for any number of threads, superpages and pages, if     *)
(* large blocks are freed and left behind as section 3 of the README says. *)
EXTENDS PageBlocks, FiniteSetTheorems, SequenceTheorems, WellFoundedInduction, TLAPS

LEMMA Least ==
  ASSUME NEW S, S \subseteq Nat, S # {}
  PROVE  \E n \in S : \A k \in S : n <= k
<1>1. IsWellFoundedOn(OpToRel(<, Nat), Nat)
  BY NatLessThanWellFounded
<1>2. PICK n \in S : \A k \in S : ~ (<<k, n>> \in OpToRel(<, Nat))
  BY <1>1, WFMin
<1>3. \A k \in S : ~ (k < n)
  BY <1>2 DEF OpToRel
<1> QED BY <1>3

----------------------------------------------------------------------------
(* Rings                                                                   *)

\* The headers C are one ring, with its head at top: all of it is reached.
IsRing(m, C, top) ==
  /\ C \subseteq SpPage
  /\ IF C = {} THEN top = NULL ELSE top \in C
  /\ \A h \in C : /\ m[h].next \in C /\ m[h].prev \in C
                  /\ m[m[h].next].prev = h /\ m[m[h].prev].next = h
  /\ \A X \in SUBSET C : top \in X /\ (\A h \in X : m[h].next \in X) => X = C

\* m2 differs from m in the pointers of the headers D only.
Relinked(m, m2, D) ==
  /\ m2 \in [SpPage -> Header]
  /\ \A h \in SpPage : /\ m2[h].length = m[h].length /\ m2[h].free = m[h].free
                       /\ m2[h].large = m[h].large /\ m2[h].whole = m[h].whole
  /\ \A h \in SpPage \ D : m2[h] = m[h]

\* m2 is m with h inserted in the ring C before its head top.
PutIn(m, m2, C, top, h) ==
  /\ Relinked(m, m2, C \cup {h})
  /\ C = {} => m2[h].next = h /\ m2[h].prev = h
  /\ C # {} =>
       /\ m2[h].next = top /\ m2[h].prev = m[top].prev
       /\ m2[top].prev = h /\ m2[m[top].prev].next = h
       /\ \A g \in C : /\ g # top => m2[g].prev = m[g].prev
                       /\ g # m[top].prev => m2[g].next = m[g].next

LEMMA HeaderSet ==
  ASSUME NEW m \in [SpPage -> Header], NEW h \in SpPage, NEW p \in Ptr
  PROVE  /\ [m EXCEPT ![h].next = p] \in [SpPage -> Header]
         /\ [m EXCEPT ![h].prev = p] \in [SpPage -> Header]
<1>1. m[h] \in Header
  OBVIOUS
<1>2. [m[h] EXCEPT !.next = p] \in Header /\ [m[h] EXCEPT !.prev = p] \in Header
  BY <1>1 DEF Header
<1> QED BY <1>2

LEMMA RingSame ==
  ASSUME NEW m, NEW m2, NEW C, NEW top, IsRing(m, C, top),
         \A h \in C : m2[h].next = m[h].next /\ m2[h].prev = m[h].prev
  PROVE  IsRing(m2, C, top)
<1>1. \A h \in C : m[h].next \in C /\ m[h].prev \in C
  BY DEF IsRing
<1>2. \A h \in C : /\ m2[h].next \in C /\ m2[h].prev \in C
                   /\ m2[m2[h].next].prev = h /\ m2[m2[h].prev].next = h
  BY <1>1 DEF IsRing
<1>3. ASSUME NEW X \in SUBSET C, top \in X, \A h \in X : m2[h].next \in X
      PROVE  X = C
  <2>1. \A h \in X : m[h].next \in X
    BY <1>3
  <2> QED BY <1>3, <2>1 DEF IsRing
<1> QED BY <1>2, <1>3 DEF IsRing

\* The head may be any of them.
LEMMA RingTurned ==
  ASSUME NEW m, NEW C, NEW top, IsRing(m, C, top), top # NULL, NULL \notin SpPage
  PROVE  top \in C /\ m[top].next \in C /\ IsRing(m, C, m[top].next)
<1>1. top \in C /\ C # {} /\ m[top].next \in C /\ m[top].prev \in C
      /\ m[m[top].prev].next = top
  BY DEF IsRing
<1>2. ASSUME NEW X \in SUBSET C, m[top].next \in X, \A h \in X : m[h].next \in X
      PROVE  X = C
  <2>1. X \cup {top} \in SUBSET C /\ \A h \in X \cup {top} : m[h].next \in X \cup {top}
    BY <1>1, <1>2
  <2>2. X \cup {top} = C
    BY <2>1 DEF IsRing
  <2>3. top \in X
    BY <1>1, <1>2, <2>2
  <2> QED BY <2>2, <2>3
<1> QED BY <1>1, <1>2 DEF IsRing

LEMMA InsertedLinks ==
  ASSUME NEW m \in [SpPage -> Header], NEW C, NEW top, IsRing(m, C, top),
         NEW h \in SpPage \ C, NULL \notin SpPage
  PROVE  PutIn(m, Insert(m, top, h), C, top, h)
<1> DEFINE m2 == Insert(m, top, h)
<1>0. \A p \in SpPage : m[p] \in Header
  OBVIOUS
<1>1. CASE C = {}
  <2>1. top = NULL
    BY <1>1 DEF IsRing
  <2>2. m2 = [m EXCEPT ![h].next = h, ![h].prev = h]
    BY <2>1 DEF Insert
  <2>3. m2 \in [SpPage -> Header]
    <3>1. [m[h] EXCEPT !.next = h, !.prev = h] \in Header
      BY <1>0 DEF Header, Ptr
    <3>2. m2 = [m EXCEPT ![h] = [m[h] EXCEPT !.next = h, !.prev = h]]
      BY <2>2
    <3> QED BY <3>1, <3>2
  <2>4. m2[h] = [m[h] EXCEPT !.next = h, !.prev = h] /\ \A p \in SpPage \ {h} : m2[p] = m[p]
    BY <2>2
  <2>5. /\ m2[h].length = m[h].length /\ m2[h].free = m[h].free
        /\ m2[h].large = m[h].large /\ m2[h].whole = m[h].whole
        /\ m2[h].next = h /\ m2[h].prev = h
    BY <1>0, <2>4 DEF Header
  <2>6. Relinked(m, m2, C \cup {h})
    BY <2>3, <2>4, <2>5 DEF Relinked
  <2> QED BY <1>1, <2>5, <2>6 DEF PutIn
<1>2. CASE C # {}
  <2> DEFINE l == m[top].prev
  <2>1. top \in C /\ l \in C /\ top # NULL /\ top \in SpPage /\ l \in SpPage /\ h # top /\ h # l
    BY <1>2 DEF IsRing
  <2>2. m2 = [m EXCEPT ![h].next = top, ![h].prev = l, ![l].next = h, ![top].prev = h]
    BY <2>1 DEF Insert
  <2> HIDE DEF l
  <2> DEFINE a == [m[h] EXCEPT !.next = top, !.prev = l]
             b == [m[l] EXCEPT !.next = h]
             c == [m[top] EXCEPT !.prev = h]
             d == [m[top] EXCEPT !.next = h, !.prev = h]
  <2>4. /\ m2[h] = a /\ \A p \in SpPage \ {h, l, top} : m2[p] = m[p]
        /\ IF l = top THEN m2[top] = d ELSE m2[l] = b /\ m2[top] = c
    BY <2>1, <2>2
  <2>3. m2 \in [SpPage -> Header]
    <3>1. a \in Header /\ b \in Header /\ c \in Header /\ d \in Header
      <4>1. m[h] \in Header /\ m[l] \in Header /\ m[top] \in Header
            /\ h \in Ptr /\ top \in Ptr /\ l \in Ptr
        BY <1>0, <2>1 DEF Ptr
      <4>2. a \in Header
        BY ONLY <4>1 DEF Header
      <4>3. b \in Header
        BY ONLY <4>1 DEF Header
      <4>4. c \in Header
        BY ONLY <4>1 DEF Header
      <4>5. d \in Header
        BY ONLY <4>1 DEF Header
      <4> QED BY <4>2, <4>3, <4>4, <4>5
    <3> HIDE DEF a, b, c, d
    <3>2. m2 = [p \in SpPage |-> m2[p]]
      BY <2>2
    <3>3. \A p \in SpPage : m2[p] \in Header
      BY <1>0, <2>4, <3>1
    <3> HIDE DEF m2
    <3> QED BY <3>2, <3>3
  <2>5. /\ a.length = m[h].length /\ a.free = m[h].free
        /\ a.large = m[h].large /\ a.whole = m[h].whole
        /\ a.next = top /\ a.prev = l
    BY <1>0 DEF Header
  <2>6. /\ b.length = m[l].length /\ b.free = m[l].free
        /\ b.large = m[l].large /\ b.whole = m[l].whole
        /\ b.next = h /\ b.prev = m[l].prev
    BY <1>0, <2>1 DEF Header
  <2>7. /\ c.length = m[top].length /\ c.free = m[top].free
        /\ c.large = m[top].large /\ c.whole = m[top].whole
        /\ c.prev = h /\ c.next = m[top].next
    BY <1>0, <2>1 DEF Header
  <2>8. /\ d.length = m[top].length /\ d.free = m[top].free
        /\ d.large = m[top].large /\ d.whole = m[top].whole
        /\ d.prev = h /\ d.next = h
    BY <1>0, <2>1 DEF Header
  <2> HIDE DEF a, b, c, d, m2
  <2>9. Relinked(m, m2, C \cup {h})
    BY <2>1, <2>3, <2>4, <2>5, <2>6, <2>7, <2>8 DEF Relinked
  <2>10. /\ m2[h].next = top /\ m2[h].prev = l
         /\ m2[top].prev = h /\ m2[l].next = h
    BY <2>4, <2>5, <2>6, <2>7, <2>8
  <2>11. ASSUME NEW g \in C
         PROVE  (g # top => m2[g].prev = m[g].prev) /\ (g # l => m2[g].next = m[g].next)
    <3>1. g \in SpPage /\ g # h
      BY DEF IsRing
    <3> QED BY <2>4, <2>6, <2>7, <3>1
  <2> QED BY <1>2, <2>9, <2>10, <2>11 DEF l, m2, PutIn
<1> QED BY <1>1, <1>2

LEMMA Inserted ==
  ASSUME NEW m \in [SpPage -> Header], NEW C, NEW top, IsRing(m, C, top),
         NEW h \in SpPage \ C, NULL \notin SpPage
  PROVE  /\ Relinked(m, Insert(m, top, h), C \cup {h})
         /\ IsRing(Insert(m, top, h), C \cup {h}, h)
         /\ C # {} => IsRing(Insert(m, top, h), C \cup {h}, top)
<1> DEFINE m2 == Insert(m, top, h)
<1>0. PutIn(m, m2, C, top, h)
  BY InsertedLinks
<1> HIDE DEF m2
<1>1. /\ Relinked(m, m2, C \cup {h})
      /\ C = {} => m2[h].next = h /\ m2[h].prev = h
      /\ C # {} =>
           /\ m2[h].next = top /\ m2[h].prev = m[top].prev
           /\ m2[top].prev = h /\ m2[m[top].prev].next = h
           /\ \A g \in C : /\ g # top => m2[g].prev = m[g].prev
                           /\ g # m[top].prev => m2[g].next = m[g].next
  BY <1>0 DEF PutIn
<1>2. CASE C = {}
  BY <1>1, <1>2 DEF IsRing, m2
<1>3. CASE C # {}
  <2> DEFINE l == m[top].prev
  <2>1. /\ top \in C /\ l \in C /\ C \subseteq SpPage /\ h \notin C
        /\ m[l].next = top
        /\ \A g \in C : /\ m[g].next \in C /\ m[g].prev \in C
                        /\ m[m[g].next].prev = g /\ m[m[g].prev].next = g
    BY <1>3 DEF IsRing
  <2>2. /\ m2[h].next = top /\ m2[h].prev = l /\ m2[top].prev = h /\ m2[l].next = h
        /\ \A g \in C : /\ g # top => m2[g].prev = m[g].prev
                        /\ g # l => m2[g].next = m[g].next
    BY <1>1, <1>3
  <2> HIDE DEF l
  <2>3. ASSUME NEW g \in C \cup {h}
        PROVE  /\ m2[g].next \in C \cup {h} /\ m2[g].prev \in C \cup {h}
               /\ m2[m2[g].next].prev = g /\ m2[m2[g].prev].next = g
    <3>1. CASE g = h
      BY <2>2, <3>1, <2>1
    <3>2. CASE g # h
      <4>1. g \in C
        BY <3>2
      <4>2. CASE g = l
        <5>1. m2[g].next = h /\ m2[h].prev = g
          BY <2>2, <4>2
        <5>2. g = top \/ (g # top /\ m2[g].prev = m[g].prev)
          BY <2>2, <4>1
        <5>3. g = top => m2[g].prev = h /\ m2[h].next = g
          BY <2>2
        <5>4. g # top => m[g].prev # l
          BY <2>1, <4>1, <4>2
        <5>5. g # top => m2[m[g].prev].next = m[m[g].prev].next
          BY <2>1, <2>2, <4>1, <5>4
        <5> QED BY <2>1, <4>1, <5>1, <5>2, <5>3, <5>5
      <4>3. CASE g # l
        <5>1. m2[g].next = m[g].next /\ m[g].next \in C
          BY <2>1, <2>2, <4>1, <4>3
        <5>2. m[g].next # top
          BY <2>1, <4>1, <4>3
        <5>3. m2[m2[g].next].prev = g
          BY <2>1, <2>2, <4>1, <5>1, <5>2
        <5>4. g = top => m2[g].prev = h /\ m2[h].next = g
          BY <2>2
        <5>5. g # top => m2[g].prev = m[g].prev /\ m[g].prev \in C
          BY <2>1, <2>2, <4>1
        <5>6. g # top => m[g].prev # l
          BY <2>1, <4>1
        <5>7. g # top => m2[m2[g].prev].next = g
          BY <2>1, <2>2, <4>1, <5>5, <5>6
        <5> QED BY <5>1, <5>3, <5>4, <5>5, <5>7
      <4> QED BY <4>2, <4>3
    <3> QED BY <3>1, <3>2
  <2>4. ASSUME NEW X \in SUBSET (C \cup {h}), h \in X \/ top \in X, \A g \in X : m2[g].next \in X
        PROVE  X = C \cup {h}
    <3> DEFINE Y == X \ {h}
    <3>1. top \in Y
      BY <2>1, <2>2, <2>4
    <3>2. ASSUME NEW g \in Y PROVE m[g].next \in Y
      <4>1. g \in C /\ g \in X
        OBVIOUS
      <4>2. CASE g = l
        BY <2>1, <3>1, <4>2
      <4>3. CASE g # l
        <5>1. m[g].next \in X
          BY <2>2, <2>4, <4>1, <4>3
        <5> QED BY <2>1, <4>1, <5>1
      <4> QED BY <4>2, <4>3
    <3>3. Y \in SUBSET C
      OBVIOUS
    <3>4. Y = C
      BY <3>1, <3>2, <3>3 DEF IsRing
    <3>5. l \in X
      BY <2>1, <3>4
    <3>6. h \in X
      BY <2>2, <2>4, <3>5
    <3> QED BY <3>4, <3>6
  <2>5. C \cup {h} \subseteq SpPage
    BY <2>1
  <2> QED BY <1>1, <2>1, <2>3, <2>4, <2>5 DEF IsRing, m2
<1> QED BY <1>2, <1>3

LEMMA UnlinkedLinks ==
  ASSUME NEW m \in [SpPage -> Header], NEW C, NEW top, IsRing(m, C, top),
         NEW h \in C, m[h].next # h, NULL \notin SpPage
  PROVE  LET m2 == Unlink(m, h)
         IN /\ Relinked(m, m2, C)
            /\ m2[m[h].prev].next = m[h].next /\ m2[m[h].next].prev = m[h].prev
            /\ \A g \in C \ {h} : /\ g # m[h].next => m2[g].prev = m[g].prev
                                  /\ g # m[h].prev => m2[g].next = m[g].next
<1> DEFINE m2 == Unlink(m, h)
           n == m[h].next
           p == m[h].prev
<1>0. \A x \in SpPage : m[x] \in Header
  OBVIOUS
<1>1. /\ h \in SpPage /\ n \in SpPage /\ p \in SpPage /\ n \in C /\ p \in C
      /\ n # h /\ m[p].next = h
      /\ C \subseteq SpPage
  BY DEF IsRing
<1>2. p # h
  BY <1>1
<1>3. m2 = [m EXCEPT ![p].next = n, ![n].prev = p, ![h].next = h, ![h].prev = h]
  BY <1>1 DEF Unlink
<1> DEFINE a == [m[h] EXCEPT !.next = h, !.prev = h]
           b == [m[p] EXCEPT !.next = n]
           c == [m[n] EXCEPT !.prev = p]
           d == [m[p] EXCEPT !.next = n, !.prev = p]
<1> HIDE DEF n, p
<1>4. /\ m2[h] = a /\ \A x \in SpPage \ {h, n, p} : m2[x] = m[x]
      /\ IF n = p THEN m2[p] = d ELSE m2[p] = b /\ m2[n] = c
  BY <1>1, <1>2, <1>3
<1>5. /\ a.length = m[h].length /\ a.free = m[h].free
      /\ a.large = m[h].large /\ a.whole = m[h].whole
  BY <1>0, <1>1 DEF Header
<1>6. /\ b.length = m[p].length /\ b.free = m[p].free
      /\ b.large = m[p].large /\ b.whole = m[p].whole
      /\ b.next = n /\ b.prev = m[p].prev
  BY <1>0, <1>1 DEF Header
<1>7. /\ c.length = m[n].length /\ c.free = m[n].free
      /\ c.large = m[n].large /\ c.whole = m[n].whole
      /\ c.next = m[n].next /\ c.prev = p
  BY <1>0, <1>1 DEF Header
<1>8. /\ d.length = m[p].length /\ d.free = m[p].free
      /\ d.large = m[p].large /\ d.whole = m[p].whole
      /\ d.next = n /\ d.prev = p
  BY <1>0, <1>1 DEF Header
<1>9. m2 \in [SpPage -> Header]
  <2>1. a \in Header /\ b \in Header /\ c \in Header /\ d \in Header
    <3>1. m[h] \in Header /\ m[p] \in Header /\ m[n] \in Header
          /\ h \in Ptr /\ n \in Ptr /\ p \in Ptr
      BY <1>0, <1>1 DEF Ptr
    <3>2. a \in Header
      BY ONLY <3>1 DEF Header
    <3>3. b \in Header
      BY ONLY <3>1 DEF Header
    <3>4. c \in Header
      BY ONLY <3>1 DEF Header
    <3>5. d \in Header
      BY ONLY <3>1 DEF Header
    <3> QED BY <3>2, <3>3, <3>4, <3>5
  <2> HIDE DEF a, b, c, d
  <2>2. m2 = [x \in SpPage |-> m2[x]]
    BY <1>3
  <2>3. \A x \in SpPage : m2[x] \in Header
    BY <1>0, <1>4, <2>1
  <2> HIDE DEF m2
  <2> QED BY <2>2, <2>3
<1> HIDE DEF a, b, c, d, m2
<1>10. Relinked(m, m2, C)
  BY <1>1, <1>4, <1>5, <1>6, <1>7, <1>8, <1>9 DEF Relinked
<1>11. m2[p].next = n /\ m2[n].prev = p
  BY <1>4, <1>6, <1>7, <1>8
<1>12. ASSUME NEW g \in C \ {h}
       PROVE  (g # n => m2[g].prev = m[g].prev) /\ (g # p => m2[g].next = m[g].next)
  BY <1>1, <1>4, <1>6, <1>7
<1> QED BY <1>10, <1>11, <1>12 DEF m2, n, p

LEMMA Unlinked ==
  ASSUME NEW m \in [SpPage -> Header], NEW C, NEW top, IsRing(m, C, top),
         NEW h \in C, NULL \notin SpPage
  PROVE  /\ Relinked(m, Unlink(m, h), C)
         /\ IsRing(Unlink(m, h), C \ {h}, HeadWithout(m, top, h))
<1> DEFINE m2 == Unlink(m, h)
           top2 == HeadWithout(m, top, h)
           n == m[h].next
           p == m[h].prev
<1>1. /\ top \in C /\ C \subseteq SpPage /\ n \in C /\ p \in C
      /\ \A g \in C : /\ m[g].next \in C /\ m[g].prev \in C
                      /\ m[m[g].next].prev = g /\ m[m[g].prev].next = g
  BY DEF IsRing
<1>2. CASE n = h
  <2>1. m2 = m
    BY <1>2 DEF Unlink
  <2>2. {h, top} \in SUBSET C /\ top = h
    <3>1. CASE top = h
      BY <3>1
    <3>2. CASE top # h
      <4> DEFINE X == C \ {h}
      <4>1. \A g \in X : m[g].next \in X
        BY <1>1, <1>2
      <4>2. X \in SUBSET C /\ top \in X
        BY <1>1, <3>2
      <4>3. X = C
        BY <4>1, <4>2 DEF IsRing
      <4> QED BY <4>3
    <3> QED BY <1>1, <3>1, <3>2
  <2>3. C = {h}
    <3>1. {h} \in SUBSET C /\ top \in {h} /\ \A g \in {h} : m[g].next \in {h}
      BY <1>2, <2>2
    <3> QED BY <3>1 DEF IsRing
  <2>4. top2 = NULL
    BY <1>2, <2>2 DEF HeadWithout
  <2>5. Relinked(m, m, C)
    BY DEF Relinked
  <2>6. IsRing(m, {}, NULL)
    BY DEF IsRing
  <2> QED BY <2>1, <2>3, <2>4, <2>5, <2>6
<1>3. CASE n # h
  <2>1. /\ Relinked(m, m2, C)
        /\ m2[p].next = n /\ m2[n].prev = p
        /\ \A g \in C \ {h} : /\ g # n => m2[g].prev = m[g].prev
                              /\ g # p => m2[g].next = m[g].next
    BY <1>3, UnlinkedLinks
  <2>2. top2 = IF top = h THEN n ELSE top
    BY <1>3 DEF HeadWithout
  <2> HIDE DEF m2, top2
  <2>3. p # h
    BY <1>1, <1>3
  <2>4. top2 \in C \ {h} /\ n \in C \ {h} /\ p \in C \ {h}
    BY <1>1, <1>3, <2>2, <2>3
  <2>5. m[p].next = h /\ m[n].prev = h
    BY <1>1
  <2> HIDE DEF n, p
  <2>6. ASSUME NEW g \in C \ {h}
        PROVE  /\ m2[g].next \in C \ {h} /\ m2[g].prev \in C \ {h}
               /\ m2[m2[g].next].prev = g /\ m2[m2[g].prev].next = g
    <3>1. m2[g].next \in C \ {h} /\ m2[m2[g].next].prev = g
      <4>1. CASE g = p
        BY <2>1, <2>4, <4>1
      <4>2. CASE g # p
        <5>1. m2[g].next = m[g].next /\ m[g].next \in C
          BY <1>1, <2>1, <4>2
        <5>2. m[g].next # h
          BY <1>1, <4>2, <2>5 DEF p
        <5>3. m[g].next # n
          BY <1>1, <2>5
        <5> QED BY <1>1, <2>1, <5>1, <5>2, <5>3
      <4> QED BY <4>1, <4>2
    <3>2. m2[g].prev \in C \ {h} /\ m2[m2[g].prev].next = g
      <4>1. CASE g = n
        BY <2>1, <2>4, <4>1
      <4>2. CASE g # n
        <5>1. m2[g].prev = m[g].prev /\ m[g].prev \in C
          BY <1>1, <2>1, <4>2
        <5>2. m[g].prev # h
          BY <1>1, <4>2, <2>5 DEF n
        <5>3. m[g].prev # p
          BY <1>1, <2>5
        <5> QED BY <1>1, <2>1, <5>1, <5>2, <5>3
      <4> QED BY <4>1, <4>2
    <3> QED BY <3>1, <3>2
  <2>7. ASSUME NEW X \in SUBSET (C \ {h}), top2 \in X, \A g \in X : m2[g].next \in X
        PROVE  X = C \ {h}
    <3>1. CASE p \in X \/ top = h
      <4>1. n \in X
        BY <2>1, <2>2, <2>7, <3>1
      <4> DEFINE Y == X \cup {h}
      <4>2. Y \in SUBSET C /\ top \in Y
        BY <2>2, <2>7
      <4>3. ASSUME NEW g \in Y PROVE m[g].next \in Y
        <5>1. CASE g = h
          BY <4>1, <5>1 DEF n
        <5>2. CASE g = p
          BY <2>5, <5>2
        <5>3. CASE g # h /\ g # p
          <6>1. g \in X /\ g \in C \ {h}
            BY <5>3
          <6> QED BY <2>1, <2>7, <5>3, <6>1
        <5> QED BY <5>1, <5>2, <5>3
      <4>4. Y = C
        BY <4>2, <4>3 DEF IsRing
      <4> QED BY <4>4
    <3>2. CASE p \notin X /\ top # h
      <4>1. X \in SUBSET C /\ top \in X
        BY <2>2, <2>7, <3>2
      <4>2. ASSUME NEW g \in X PROVE m[g].next \in X
        BY <2>1, <2>7, <3>2
      <4>3. X = C
        BY <4>1, <4>2 DEF IsRing
      <4> QED BY <4>3
    <3> QED BY <3>1, <3>2
  <2>8. IsRing(m2, C \ {h}, top2)
    BY <1>1, <2>4, <2>6, <2>7 DEF IsRing
  <2> QED BY <2>1, <2>8 DEF m2, top2
<1> QED BY <1>2, <1>3

----------------------------------------------------------------------------
(* Heaps.  O are the superpages of the thread that sees the heap.          *)

Typed(S) == S \in [mem : [SpPage -> Header], map : [SpPage -> Ptr],
                   free : [Lens -> Ptr], blk : Ptr]

\* The page block headers that the pagemap knows.
IsTile(S, h) == h \in SpPage /\ S.map[h] = h

FreeIn(S, O, c) == {h \in SpPage : /\ S.map[h] = h /\ h[1] \in O
                                   /\ S.mem[h].free /\ S.mem[h].length = c}
SmallIn(S, O) == {h \in SpPage : /\ S.map[h] = h /\ h[1] \in O
                                 /\ ~S.mem[h].free /\ ~S.mem[h].large}

\* The lists of the heap: the free page blocks but X, and C of the small ones.
Lists(S, O, X, C) ==
  /\ \A c \in Lens : IsRing(S.mem, FreeIn(S, O, c) \ X, S.free[c])
  /\ IsRing(S.mem, C, S.blk) /\ C \subseteq SmallIn(S, O)

\* Nothing changes but pointers, ...
SameData(S, S2) ==
  /\ S2.map = S.map
  /\ \A h \in SpPage : /\ S2.mem[h].length = S.mem[h].length
                       /\ S2.mem[h].free = S.mem[h].free
                       /\ S2.mem[h].large = S.mem[h].large
                       /\ S2.mem[h].whole = S.mem[h].whole

\* ... or nothing outside the superpages O.
Away(S, S2, O) ==
  \A h \in SpPage : h[1] \notin O => S2.mem[h] = S.mem[h] /\ S2.map[h] = S.map[h]

LEMMA Constants ==
  ASSUME ConstantsOK
  PROVE  /\ NULL \notin SpPage /\ SUPERPAGE_LEN \in Nat \ {0, 1}
         /\ \A h \in SpPage : h = <<h[1], h[2]>> /\ h[1] \in Superpage /\ h[2] \in Lens
         /\ \A s \in Superpage, i \in Lens : <<s, i>> \in SpPage
         /\ Lens = 1 .. SUPERPAGE_LEN
<1>1. SUPERPAGE_LEN \in Nat \ {0, 1}
  BY DEF ConstantsOK
<1>2. NULL \notin SpPage
  BY <1>1 DEF ConstantsOK, SpPage
<1> QED BY <1>1, <1>2 DEF SpPage, Lens

LEMMA SameSets ==
  ASSUME NEW S, NEW S2, SameData(S, S2), NEW O
  PROVE  /\ \A c : FreeIn(S2, O, c) = FreeIn(S, O, c)
         /\ SmallIn(S2, O) = SmallIn(S, O)
BY DEF SameData, FreeIn, SmallIn

\* Only the free list of length c0 changes: its pointers, D and its head.
FreeListStep(S, S2, O, X, X2, c0, D) ==
  /\ c0 \in Lens /\ S2.map = S.map /\ S2.blk = S.blk /\ Relinked(S.mem, S2.mem, D)
  /\ D \subseteq FreeIn(S, O, c0)
  /\ \A c \in Lens \ {c0} : S2.free[c] = S.free[c]
  /\ \A c \in Lens \ {c0} : FreeIn(S, O, c) \ X2 = FreeIn(S, O, c) \ X
  /\ IsRing(S2.mem, FreeIn(S, O, c0) \ X2, S2.free[c0])

\* Only the list of the small page blocks changes.
SmallListStep(S, S2, O, C2, D) ==
  /\ S2.map = S.map /\ S2.free = S.free /\ Relinked(S.mem, S2.mem, D)
  /\ D \subseteq SmallIn(S, O) /\ C2 \subseteq SmallIn(S, O)
  /\ IsRing(S2.mem, C2, S2.blk)

LEMMA FreeRelinked ==
  ASSUME NEW S, NEW S2, NEW O, NEW X, NEW X2, NEW C, NEW c0, NEW D,
         Lists(S, O, X, C), FreeListStep(S, S2, O, X, X2, c0, D)
  PROVE  Lists(S2, O, X2, C) /\ SameData(S, S2) /\ Away(S, S2, O)
<1>0. /\ c0 \in Lens /\ S2.map = S.map /\ S2.blk = S.blk /\ Relinked(S.mem, S2.mem, D)
      /\ D \subseteq FreeIn(S, O, c0)
      /\ \A c \in Lens \ {c0} : S2.free[c] = S.free[c]
      /\ \A c \in Lens \ {c0} : FreeIn(S, O, c) \ X2 = FreeIn(S, O, c) \ X
      /\ IsRing(S2.mem, FreeIn(S, O, c0) \ X2, S2.free[c0])
  BY DEF FreeListStep
<1>1. SameData(S, S2)
  BY <1>0 DEF Relinked, SameData
<1>2. \A h \in SpPage \ D : S2.mem[h] = S.mem[h]
  BY <1>0 DEF Relinked
<1>3. Away(S, S2, O)
  BY <1>0, <1>2 DEF Away, FreeIn
<1>4. ASSUME NEW c \in Lens PROVE IsRing(S2.mem, FreeIn(S2, O, c) \ X2, S2.free[c])
  <2>1. FreeIn(S2, O, c) = FreeIn(S, O, c)
    BY <1>1, SameSets
  <2>2. CASE c = c0
    BY <1>0, <2>1, <2>2
  <2>3. CASE c # c0
    <3>1. IsRing(S.mem, FreeIn(S, O, c) \ X, S.free[c])
      BY DEF Lists
    <3>2. \A h \in FreeIn(S, O, c) : S2.mem[h] = S.mem[h]
      BY <1>0, <1>2, <2>3 DEF FreeIn
    <3>3. IsRing(S2.mem, FreeIn(S, O, c) \ X, S.free[c])
      BY <3>1, <3>2, RingSame
    <3> QED BY <1>0, <2>1, <2>3, <3>3
  <2> QED BY <2>2, <2>3
<1>5. IsRing(S2.mem, C, S2.blk)
  <2>1. IsRing(S.mem, C, S.blk) /\ C \subseteq SmallIn(S, O)
    BY DEF Lists
  <2>2. \A h \in C : S2.mem[h] = S.mem[h]
    BY <1>0, <1>2, <2>1 DEF FreeIn, SmallIn
  <2> QED BY <1>0, <2>1, <2>2, RingSame
<1>6. C \subseteq SmallIn(S2, O)
  BY <1>1, SameSets DEF Lists
<1> QED BY <1>1, <1>3, <1>4, <1>5, <1>6 DEF Lists

LEMMA SmallRelinked ==
  ASSUME NEW S, NEW S2, NEW O, NEW X, NEW C, NEW C2, NEW D,
         Lists(S, O, X, C), SmallListStep(S, S2, O, C2, D)
  PROVE  Lists(S2, O, X, C2) /\ SameData(S, S2) /\ Away(S, S2, O)
<1>0. /\ S2.map = S.map /\ S2.free = S.free /\ Relinked(S.mem, S2.mem, D)
      /\ D \subseteq SmallIn(S, O) /\ C2 \subseteq SmallIn(S, O)
      /\ IsRing(S2.mem, C2, S2.blk)
  BY DEF SmallListStep
<1>1. SameData(S, S2)
  BY <1>0 DEF Relinked, SameData
<1>2. \A h \in SpPage \ D : S2.mem[h] = S.mem[h]
  BY <1>0 DEF Relinked
<1>3. Away(S, S2, O)
  BY <1>0, <1>2 DEF Away, SmallIn
<1>4. ASSUME NEW c \in Lens PROVE IsRing(S2.mem, FreeIn(S2, O, c) \ X, S2.free[c])
  <2>1. FreeIn(S2, O, c) = FreeIn(S, O, c)
    BY <1>1, SameSets
  <2>2. IsRing(S.mem, FreeIn(S, O, c) \ X, S.free[c])
    BY DEF Lists
  <2>3. \A h \in FreeIn(S, O, c) : S2.mem[h] = S.mem[h]
    BY <1>0, <1>2 DEF FreeIn, SmallIn
  <2>4. IsRing(S2.mem, FreeIn(S, O, c) \ X, S.free[c])
    BY <2>2, <2>3, RingSame
  <2> QED BY <1>0, <2>1, <2>4
<1>5. C2 \subseteq SmallIn(S2, O)
  BY <1>0, <1>1, SameSets
<1> QED BY <1>0, <1>1, <1>3, <1>4, <1>5 DEF Lists

LEMMA ListFreeOK ==
  ASSUME ConstantsOK, NEW S, Typed(S), NEW O, NEW X, NEW C, Lists(S, O, X, C),
         NEW h \in X, S.mem[h].length \in Lens, h \in FreeIn(S, O, S.mem[h].length)
  PROVE  LET S2 == ListFree(S, h)
         IN /\ Typed(S2) /\ SameData(S, S2) /\ Away(S, S2, O)
            /\ Lists(S2, O, X \ {h}, C)
<1> DEFINE S2 == ListFree(S, h)
           c0 == S.mem[h].length
           F == FreeIn(S, O, c0) \ X
           m2 == Insert(S.mem, S.free[c0], h)
           f2 == [S.free EXCEPT ![c0] = h]
<1>1. S.mem \in [SpPage -> Header] /\ S.free \in [Lens -> Ptr] /\ S.map \in [SpPage -> Ptr]
      /\ S.blk \in Ptr /\ S = [mem |-> S.mem, map |-> S.map, free |-> S.free, blk |-> S.blk]
  BY DEF Typed
<1>2. S2 = [mem |-> m2, map |-> S.map, free |-> f2, blk |-> S.blk]
  <2>1. S2 = [[S EXCEPT !.mem = m2] EXCEPT !.free = f2]
    BY DEF ListFree
  <2> HIDE DEF m2, f2, S2
  <2> QED BY <1>1, <2>1
<1>3. IsRing(S.mem, F, S.free[c0]) /\ h \in SpPage \ F
  BY DEF Lists, FreeIn
<1>4. Relinked(S.mem, m2, F \cup {h}) /\ IsRing(m2, F \cup {h}, h)
  BY <1>1, <1>3, Inserted, Constants
<1>5. FreeIn(S, O, c0) \ (X \ {h}) = F \cup {h}
  OBVIOUS
<1>6. f2 \in [Lens -> Ptr] /\ f2[c0] = h /\ \A c \in Lens \ {c0} : f2[c] = S.free[c]
  BY <1>1, <1>3 DEF Ptr
<1>7. \A c \in Lens \ {c0} : FreeIn(S, O, c) \ (X \ {h}) = FreeIn(S, O, c) \ X
  BY DEF FreeIn
<1>9. F \cup {h} \subseteq FreeIn(S, O, c0)
  OBVIOUS
<1>11. c0 \in Lens
  BY ONLY S.mem[h].length \in Lens
<1> HIDE DEF S2, m2, f2, c0, F
<1>12. m2 \in [SpPage -> Header]
  BY <1>4 DEF Relinked
<1>8. Typed(S2)
  BY <1>1, <1>2, <1>12, <1>6 DEF Typed
<1>10. Lists(S2, O, X \ {h}, C) /\ SameData(S, S2) /\ Away(S, S2, O)
  <2>1. Relinked(S.mem, S2.mem, F \cup {h})
    BY <1>2, <1>4
  <2>2. IsRing(S2.mem, FreeIn(S, O, c0) \ (X \ {h}), S2.free[c0])
    BY <1>2, <1>4, <1>5, <1>6
  <2>3. S2.map = S.map /\ S2.blk = S.blk /\ S2.free = f2
    BY <1>2
  <2>4. \A c \in Lens \ {c0} : S2.free[c] = S.free[c]
    BY <1>6, <2>3
  <2>5. Lists(S, O, X, C)
    OBVIOUS
  <2> DEFINE X2 == X \ {h}
             D == F \cup {h}
  <2>6. FreeListStep(S, S2, O, X, X2, c0, D)
    BY <1>7, <1>9, <1>11, <2>1, <2>2, <2>3, <2>4 DEF FreeListStep
  <2> HIDE DEF X2, D
  <2>7. Lists(S2, O, X2, C) /\ SameData(S, S2) /\ Away(S, S2, O)
    BY <2>5, <2>6, FreeRelinked
  <2> QED BY <2>7 DEF X2
<1> QED BY <1>8, <1>10 DEF S2

LEMMA UnlistFreeOK ==
  ASSUME ConstantsOK, NEW S, Typed(S), NEW O, NEW X, NEW C, Lists(S, O, X, C),
         NEW h, h \notin X, S.mem[h].length \in Lens,
         h \in FreeIn(S, O, S.mem[h].length)
  PROVE  LET S2 == UnlistFree(S, h)
         IN /\ Typed(S2) /\ SameData(S, S2) /\ Away(S, S2, O)
            /\ Lists(S2, O, X \cup {h}, C)
<1> DEFINE S2 == UnlistFree(S, h)
           c0 == S.mem[h].length
           F == FreeIn(S, O, c0) \ X
           m2 == Unlink(S.mem, h)
           top == HeadWithout(S.mem, S.free[c0], h)
           f2 == [S.free EXCEPT ![c0] = top]
           X2 == X \cup {h}
<1>1. S.mem \in [SpPage -> Header] /\ S.free \in [Lens -> Ptr] /\ S.map \in [SpPage -> Ptr]
      /\ S.blk \in Ptr /\ S = [mem |-> S.mem, map |-> S.map, free |-> S.free, blk |-> S.blk]
  BY DEF Typed
<1>2. S2 = [mem |-> m2, map |-> S.map, free |-> f2, blk |-> S.blk]
  <2>1. S2 = [[S EXCEPT !.mem = m2] EXCEPT !.free = f2]
    BY DEF UnlistFree
  <2> HIDE DEF m2, f2, S2
  <2> QED BY <1>1, <2>1
<1>3. IsRing(S.mem, F, S.free[c0]) /\ h \in F
  BY DEF Lists
<1>4. Relinked(S.mem, m2, F) /\ IsRing(m2, F \ {h}, top)
  BY <1>1, <1>3, Unlinked, Constants
<1>5. FreeIn(S, O, c0) \ X2 = F \ {h}
  OBVIOUS
<1>6. top \in Ptr
  BY <1>4 DEF IsRing, Ptr
<1>7. \A c \in Lens \ {c0} : FreeIn(S, O, c) \ X2 = FreeIn(S, O, c) \ X
  BY DEF FreeIn
<1>9. F \subseteq FreeIn(S, O, c0) /\ c0 \in Lens
  OBVIOUS
<1>10. m2 \in [SpPage -> Header]
  BY <1>4 DEF Relinked
<1>11. Lists(S, O, X, C)
  OBVIOUS
<1> HIDE DEF S2, m2, c0, F, top, X2
<1>12. f2 \in [Lens -> Ptr] /\ f2[c0] = top /\ \A c \in Lens \ {c0} : f2[c] = S.free[c]
  BY <1>1, <1>6, <1>9
<1> HIDE DEF f2
<1>8. Typed(S2)
  BY <1>1, <1>2, <1>10, <1>12 DEF Typed
<1>13. S2.mem = m2 /\ S2.map = S.map /\ S2.blk = S.blk /\ S2.free = f2
  BY <1>2
<1>14. FreeListStep(S, S2, O, X, X2, c0, F)
  BY <1>4, <1>5, <1>7, <1>9, <1>12, <1>13 DEF FreeListStep
<1>15. Lists(S2, O, X2, C) /\ SameData(S, S2) /\ Away(S, S2, O)
  BY <1>11, <1>14, FreeRelinked
<1> QED BY <1>8, <1>15 DEF S2, X2

\* On its list a small page block is the first or, if top is given, the last.
LEMMA ListSmallOK ==
  ASSUME ConstantsOK, NEW S, Typed(S), NEW O, NEW X, NEW C, Lists(S, O, X, C),
         NEW h \in SmallIn(S, O) \ C, NEW top,
         top = h \/ (C # {} /\ top = S.blk)
  PROVE  LET S2 == [ListSmall(S, h) EXCEPT !.blk = top]
         IN /\ Typed(S2) /\ SameData(S, S2) /\ Away(S, S2, O)
            /\ Lists(S2, O, X, C \cup {h})
<1> DEFINE S2 == [ListSmall(S, h) EXCEPT !.blk = top]
           m2 == Insert(S.mem, S.blk, h)
           C2 == C \cup {h}
<1>1. S.mem \in [SpPage -> Header] /\ S.free \in [Lens -> Ptr] /\ S.map \in [SpPage -> Ptr]
      /\ S.blk \in Ptr /\ S = [mem |-> S.mem, map |-> S.map, free |-> S.free, blk |-> S.blk]
  BY DEF Typed
<1>2. S2 = [mem |-> m2, map |-> S.map, free |-> S.free, blk |-> top]
  <2>1. S2 = [[[S EXCEPT !.mem = m2] EXCEPT !.blk = h] EXCEPT !.blk = top]
    BY DEF ListSmall
  <2> HIDE DEF m2, S2
  <2> QED BY <1>1, <2>1
<1>3. IsRing(S.mem, C, S.blk) /\ h \in SpPage \ C /\ C \subseteq SmallIn(S, O)
  BY DEF Lists, SmallIn
<1>4. Relinked(S.mem, m2, C2) /\ IsRing(m2, C2, top)
  BY <1>1, <1>3, Inserted, Constants
<1>5. C2 \subseteq SmallIn(S, O) /\ C2 \subseteq SpPage /\ top \in Ptr
  BY <1>1, <1>3 DEF SmallIn, Ptr
<1>6. m2 \in [SpPage -> Header]
  BY <1>4 DEF Relinked
<1>7. Lists(S, O, X, C)
  OBVIOUS
<1> HIDE DEF S2, m2, C2
<1>8. Typed(S2)
  BY <1>1, <1>2, <1>5, <1>6 DEF Typed
<1>9. S2.mem = m2 /\ S2.map = S.map /\ S2.blk = top /\ S2.free = S.free
  BY <1>2
<1>10. SmallListStep(S, S2, O, C2, C2)
  BY <1>4, <1>5, <1>9 DEF SmallListStep
<1>11. Lists(S2, O, X, C2) /\ SameData(S, S2) /\ Away(S, S2, O)
  BY <1>7, <1>10, SmallRelinked
<1> QED BY <1>8, <1>11 DEF S2, C2

LEMMA UnlistSmallOK ==
  ASSUME ConstantsOK, NEW S, Typed(S), NEW O, NEW X, NEW C, Lists(S, O, X, C), NEW h \in C
  PROVE  LET S2 == UnlistSmall(S, h)
         IN /\ Typed(S2) /\ SameData(S, S2) /\ Away(S, S2, O)
            /\ Lists(S2, O, X, C \ {h})
<1> DEFINE S2 == UnlistSmall(S, h)
           m2 == Unlink(S.mem, h)
           top == HeadWithout(S.mem, S.blk, h)
           C2 == C \ {h}
<1>1. S.mem \in [SpPage -> Header] /\ S.free \in [Lens -> Ptr] /\ S.map \in [SpPage -> Ptr]
      /\ S.blk \in Ptr /\ S = [mem |-> S.mem, map |-> S.map, free |-> S.free, blk |-> S.blk]
  BY DEF Typed
<1>2. S2 = [mem |-> m2, map |-> S.map, free |-> S.free, blk |-> top]
  <2>1. S2 = [[S EXCEPT !.mem = m2] EXCEPT !.blk = top]
    BY DEF UnlistSmall
  <2> HIDE DEF m2, S2, top
  <2> QED BY <1>1, <2>1
<1>3. IsRing(S.mem, C, S.blk) /\ C \subseteq SmallIn(S, O)
  BY DEF Lists
<1>4. Relinked(S.mem, m2, C) /\ IsRing(m2, C2, top)
  BY <1>1, <1>3, Unlinked, Constants
<1>5. C2 \subseteq SmallIn(S, O) /\ top \in Ptr
  BY <1>3, <1>4 DEF SmallIn, Ptr, IsRing
<1>6. m2 \in [SpPage -> Header]
  BY <1>4 DEF Relinked
<1>7. Lists(S, O, X, C)
  OBVIOUS
<1> HIDE DEF S2, m2, C2, top
<1>8. Typed(S2)
  BY <1>1, <1>2, <1>5, <1>6 DEF Typed
<1>9. S2.mem = m2 /\ S2.map = S.map /\ S2.blk = top /\ S2.free = S.free
  BY <1>2
<1>10. SmallListStep(S, S2, O, C2, C)
  BY <1>3, <1>4, <1>5, <1>9 DEF SmallListStep
<1>11. Lists(S2, O, X, C2) /\ SameData(S, S2) /\ Away(S, S2, O)
  BY <1>7, <1>10, SmallRelinked
<1> QED BY <1>8, <1>11 DEF S2, C2

----------------------------------------------------------------------------
(* Tiling: m are the headers, map is the pagemap.                          *)

\* The pages of the page block at j of superpage s lead to its header.
Tile(m, map, s, j) ==
  /\ j \in Lens /\ m[<<s, j>>].length > 0
  /\ j + m[<<s, j>>].length <= SUPERPAGE_LEN + 1
  /\ \A k \in Lens : j <= k /\ k < j + m[<<s, j>>].length => map[<<s, k>>] = <<s, j>>

\* Every page of the superpage lies in a page block.
Tiled(m, map, s) ==
  \A i \in Lens : \E j \in Lens :
    j <= i /\ i < j + m[<<s, j>>].length /\ Tile(m, map, s, j)

\* The page blocks that are not free.
Busy(m, map) == {h \in SpPage : map[h] = h /\ ~m[h].free}

LEMMA Lengths ==
  ASSUME ConstantsOK, NEW m \in [SpPage -> Header], NEW s \in Superpage, NEW i \in Lens
  PROVE  m[<<s, i>>].length \in 0 .. SUPERPAGE_LEN /\ m[<<s, i>>].length \in Nat /\ i \in Nat
<1>1. m[<<s, i>>] \in Header
  BY Constants
<1> QED BY <1>1, Constants DEF Header

\* The page block of a page.
LEMMA TileOf ==
  ASSUME ConstantsOK, NEW m \in [SpPage -> Header], NEW map, NEW s \in Superpage,
         Tiled(m, map, s), NEW i \in Lens
  PROVE  \E j \in Lens : /\ j <= i /\ i < j + m[<<s, j>>].length
                         /\ map[<<s, i>>] = <<s, j>> /\ map[<<s, j>>] = <<s, j>>
                         /\ Tile(m, map, s, j)
<1>1. PICK j \in Lens : j <= i /\ i < j + m[<<s, j>>].length /\ Tile(m, map, s, j)
  BY DEF Tiled
<1>2. j \in Nat /\ m[<<s, j>>].length \in Nat
  BY Lengths
<1>3. map[<<s, i>>] = <<s, j>> /\ map[<<s, j>>] = <<s, j>>
  BY <1>1, <1>2 DEF Tile
<1> QED BY <1>1, <1>3

\* A page block ends where another one starts, or with the superpage.
LEMMA TileEnd ==
  ASSUME ConstantsOK, NEW m \in [SpPage -> Header], NEW map, NEW s \in Superpage,
         Tiled(m, map, s), NEW j \in Lens, map[<<s, j>>] = <<s, j>>
  PROVE  LET e == j + m[<<s, j>>].length
         IN /\ Tile(m, map, s, j)
            /\ e <= SUPERPAGE_LEN => e \in Lens /\ map[<<s, e>>] = <<s, e>>
<1> DEFINE e == j + m[<<s, j>>].length
<1>0. SUPERPAGE_LEN \in Nat /\ Lens = 1 .. SUPERPAGE_LEN /\ m[<<s, j>>].length \in Nat /\ j \in Nat
  BY Lengths, Constants
<1>1. Tile(m, map, s, j)
  <2>1. PICK i \in Lens : map[<<s, j>>] = <<s, i>> /\ Tile(m, map, s, i)
    BY TileOf
  <2>2. i = j
    BY <2>1
  <2> QED BY <2>1, <2>2
<1>4. ASSUME e <= SUPERPAGE_LEN PROVE e \in Lens /\ map[<<s, e>>] = <<s, e>>
  <2>1. e \in Lens
    BY <1>0, <1>1, <1>4 DEF Tile
  <2>2. PICK g \in Lens : /\ g <= e /\ e < g + m[<<s, g>>].length
                          /\ map[<<s, e>>] = <<s, g>> /\ Tile(m, map, s, g)
    BY <2>1, TileOf
  <2>3. m[<<s, g>>].length \in Nat /\ g \in Nat
    BY <2>2, Lengths
  <2>4. ASSUME g < e PROVE FALSE
    <3>1. e - 1 \in Lens /\ j <= e - 1 /\ e - 1 < e /\ g <= e - 1 /\ e - 1 < g + m[<<s, g>>].length
      <4>1. j < e /\ e \in Lens /\ e < g + m[<<s, g>>].length
        BY <1>0, <1>1, <2>1, <2>2 DEF Tile
      <4> HIDE DEF e
      <4> QED BY <1>0, <4>1, <2>3, <2>4
    <3>2. map[<<s, e - 1>>] = <<s, g>>
      BY <2>2, <3>1 DEF Tile
    <3>3. map[<<s, e - 1>>] = <<s, j>>
      BY <1>1, <3>1 DEF Tile
    <3>4. g = j
      BY <3>2, <3>3
    <3> QED BY <1>0, <2>2, <2>3, <3>4
  <2>5. g = e
    BY <1>0, <2>1, <2>2, <2>3, <2>4
  <2> QED BY <2>1, <2>2, <2>5
<1> QED BY <1>1, <1>4

\* There is a page block at j.
TileHere(m, map, s, j) ==
  /\ m \in [SpPage -> Header] /\ s \in Superpage /\ Tiled(m, map, s)
  /\ j \in Lens /\ map[<<s, j>>] = <<s, j>>

\* What lies before it is a page block, too.
EndsAt(m, map, s, j) ==
  \E i \in Lens : /\ i < j /\ map[<<s, j - 1>>] = <<s, i>> /\ map[<<s, i>>] = <<s, i>>
                  /\ i + m[<<s, i>>].length = j

LEMMA TileBefore ==
  ASSUME ConstantsOK, NEW m, NEW map, NEW s, NEW j, TileHere(m, map, s, j)
  PROVE  j > 1 => j - 1 \in Lens /\ EndsAt(m, map, s, j)
<1> HAVE j > 1
<1>h. /\ m \in [SpPage -> Header] /\ s \in Superpage /\ Tiled(m, map, s)
      /\ j \in Lens /\ map[<<s, j>>] = <<s, j>>
  BY DEF TileHere
<1>0. SUPERPAGE_LEN \in Nat /\ Lens = 1 .. SUPERPAGE_LEN /\ j \in Nat
  BY <1>h, Constants
<1>1. j - 1 \in Lens
  BY <1>0, <1>h
<1>2. PICK i \in Lens : /\ i <= j - 1 /\ j - 1 < i + m[<<s, i>>].length
                        /\ map[<<s, j - 1>>] = <<s, i>> /\ map[<<s, i>>] = <<s, i>>
                        /\ Tile(m, map, s, i)
  BY <1>1, <1>h, TileOf
<1>4. m[<<s, i>>].length \in Nat /\ i \in Nat
  BY <1>2, <1>h, Lengths
<1>6. ASSUME i + m[<<s, i>>].length # j PROVE FALSE
  <2>1. i <= j /\ j < i + m[<<s, i>>].length
    BY <1>0, <1>2, <1>4, <1>6
  <2>2. map[<<s, j>>] = <<s, i>>
    BY <1>2, <1>h, <2>1 DEF Tile
  <2>3. i = j
    BY <2>2, <1>h
  <2> QED BY <1>0, <1>2, <2>3
<1>7. i < j
  BY <1>0, <1>2, <1>4
<1> QED BY <1>1, <1>2, <1>6, <1>7 DEF EndsAt

\* The page blocks from page a to page b become one.
JoinStep(m, map, m2, map2, s, a, b) ==
  /\ a \in Lens /\ b \in 1 .. SUPERPAGE_LEN + 1 /\ a < b
  /\ map[<<s, a>>] = <<s, a>> /\ (b <= SUPERPAGE_LEN => map[<<s, b>>] = <<s, b>>)
  /\ m2 \in [SpPage -> Header]
  /\ \A i \in Lens : /\ m2[<<s, i>>].length = IF i = a THEN b - a ELSE m[<<s, i>>].length
                     /\ map2[<<s, i>>] = IF a <= i /\ i < b THEN <<s, a>> ELSE map[<<s, i>>]

LEMMA Joined ==
  ASSUME ConstantsOK, NEW m \in [SpPage -> Header], NEW map, NEW s \in Superpage,
         Tiled(m, map, s), NEW m2, NEW map2, NEW a, NEW b,
         JoinStep(m, map, m2, map2, s, a, b)
  PROVE  /\ Tiled(m2, map2, s)
         /\ \A i \in Lens : map2[<<s, i>>] = <<s, i>> <=>
                              i = a \/ (map[<<s, i>>] = <<s, i>> /\ ~(a < i /\ i < b))
<1>0. SUPERPAGE_LEN \in Nat /\ Lens = 1 .. SUPERPAGE_LEN
  BY Constants
<1>1. /\ a \in Lens /\ b \in 1 .. SUPERPAGE_LEN + 1 /\ a < b
      /\ map[<<s, a>>] = <<s, a>> /\ (b <= SUPERPAGE_LEN => map[<<s, b>>] = <<s, b>>)
      /\ m2 \in [SpPage -> Header]
      /\ \A i \in Lens : /\ m2[<<s, i>>].length = IF i = a THEN b - a ELSE m[<<s, i>>].length
                         /\ map2[<<s, i>>] = IF a <= i /\ i < b THEN <<s, a>> ELSE map[<<s, i>>]
  BY DEF JoinStep
<1>2. Tile(m2, map2, s, a)
  <2>1. m2[<<s, a>>].length = b - a /\ a \in Int /\ b \in Int
    BY <1>0, <1>1
  <2>2. \A k \in Lens : a <= k /\ k < b => map2[<<s, k>>] = <<s, a>>
    BY <1>1
  <2> QED BY <1>0, <1>1, <2>1, <2>2 DEF Tile
<1>3. ASSUME NEW i \in Lens, ~(a <= i /\ i < b)
      PROVE  \E j \in Lens : j <= i /\ i < j + m2[<<s, j>>].length /\ Tile(m2, map2, s, j)
  <2>1. PICK j \in Lens : /\ j <= i /\ i < j + m[<<s, j>>].length
                          /\ map[<<s, i>>] = <<s, j>> /\ map[<<s, j>>] = <<s, j>>
                          /\ Tile(m, map, s, j)
    BY TileOf
  <2> DEFINE e == j + m[<<s, j>>].length
  <2>2. j \in Nat /\ i \in Nat /\ a \in Nat /\ b \in Nat /\ m[<<s, j>>].length \in Nat /\ e \in Nat
    <3>1. m[<<s, j>>].length \in Nat
      BY Lengths
    <3>2. j \in Nat /\ i \in Nat /\ a \in Nat /\ b \in Nat
      BY <1>0, <1>1
    <3> QED BY ONLY <3>1, <3>2
  <2>3. j < e /\ e <= SUPERPAGE_LEN + 1
        /\ \A k \in Lens : j <= k /\ k < e => map[<<s, k>>] = <<s, j>>
    BY <2>1, <2>2 DEF Tile
  <2> HIDE DEF e
  <2>6. b <= j \/ e <= a
    <3>1. CASE j < a
      <4>1. ASSUME a < e PROVE FALSE
        <5>1. map[<<s, a>>] = <<s, j>>
          BY <1>1, <2>2, <2>3, <3>1, <4>1
        <5>2. a = j
          BY <1>1, <5>1
        <5> QED BY <2>2, <3>1, <5>2
      <4> QED BY <2>2, <4>1
    <3>2. CASE a <= j /\ j < b
      <4>0. b < e
        <5>1. e = j + m[<<s, j>>].length
          BY DEF e
        <5>2. b <= i /\ i < e
          BY <1>3, <2>1, <2>2, <3>2, <5>1
        <5> QED BY ONLY <2>2, <5>2
      <4>1. b \in Lens /\ j <= b /\ b < e
        BY <1>0, <1>1, <2>2, <2>3, <3>2, <4>0
      <4>2. map[<<s, b>>] = <<s, j>> /\ map[<<s, b>>] = <<s, b>>
        BY <1>0, <1>1, <2>3, <4>1
      <4>3. b = j
        BY <4>2
      <4> QED BY <2>2, <3>2, <4>3
    <3> QED BY <2>2, <3>1, <3>2
  <2>7. j # a
    BY <1>1, <2>2, <2>3, <2>6
  <2>8. m2[<<s, j>>].length = m[<<s, j>>].length
    BY <1>1, <2>1, <2>7
  <2>9. ASSUME NEW k \in Lens, j <= k, k < e PROVE map2[<<s, k>>] = <<s, j>>
    <3>1. ~(a <= k /\ k < b)
      BY <1>0, <2>2, <2>6, <2>9
    <3> QED BY <1>1, <2>3, <2>9, <3>1
  <2>10. Tile(m2, map2, s, j)
    BY <2>1, <2>3, <2>8, <2>9 DEF Tile, e
  <2> QED BY <2>1, <2>8, <2>10
<1>4. Tiled(m2, map2, s)
  <2> SUFFICES ASSUME NEW i \in Lens
               PROVE  \E j \in Lens : j <= i /\ i < j + m2[<<s, j>>].length /\ Tile(m2, map2, s, j)
    BY DEF Tiled
  <2>1. CASE a <= i /\ i < b
    <3>1. i < a + m2[<<s, a>>].length
      <4>1. m2[<<s, a>>].length = b - a /\ a \in Int /\ b \in Int /\ i \in Int
        BY <1>0, <1>1
      <4> QED BY <2>1, <4>1
    <3> QED BY <1>1, <1>2, <2>1, <3>1
  <2> QED BY <1>3, <2>1
<1>5. ASSUME NEW i \in Lens
      PROVE  map2[<<s, i>>] = <<s, i>> <=>
               i = a \/ (map[<<s, i>>] = <<s, i>> /\ ~(a < i /\ i < b))
  <2>1. i \in Int /\ a \in Int /\ b \in Int
    BY <1>0, <1>1
  <2>2. CASE a <= i /\ i < b
    <3>1. map2[<<s, i>>] = <<s, a>>
      BY <1>1, <2>2
    <3> QED BY <2>1, <2>2, <3>1
  <2>3. CASE ~(a <= i /\ i < b)
    <3>1. map2[<<s, i>>] = map[<<s, i>>] /\ i # a
      BY <1>1, <2>1, <2>3
    <3> QED BY <2>1, <2>3, <3>1
  <2> QED BY <2>2, <2>3
<1> QED BY <1>4, <1>5

\* The page block from page a to page e is cut at page b.
SplitStep(m, map, m2, map2, s, a, b, e) ==
  /\ a \in Lens /\ b \in Lens /\ a < b /\ b < e
  /\ e = a + m[<<s, a>>].length /\ map[<<s, a>>] = <<s, a>>
  /\ m2 \in [SpPage -> Header]
  /\ m2[<<s, a>>].length = b - a /\ m2[<<s, b>>].length = e - b
  /\ \A i \in Lens \ {a, b} : m2[<<s, i>>].length = m[<<s, i>>].length
  /\ \A i \in Lens : map2[<<s, i>>] = IF b <= i /\ i < e THEN <<s, b>> ELSE map[<<s, i>>]

LEMMA Split ==
  ASSUME ConstantsOK, NEW m \in [SpPage -> Header], NEW map, NEW s \in Superpage,
         Tiled(m, map, s), NEW m2, NEW map2, NEW a, NEW b, NEW e,
         SplitStep(m, map, m2, map2, s, a, b, e)
  PROVE  /\ Tiled(m2, map2, s)
         /\ \A i \in Lens : map2[<<s, i>>] = <<s, i>> <=> i = b \/ map[<<s, i>>] = <<s, i>>
<1>0. SUPERPAGE_LEN \in Nat /\ Lens = 1 .. SUPERPAGE_LEN
  BY Constants
<1>1. /\ a \in Lens /\ b \in Lens /\ a < b /\ b < e
      /\ e = a + m[<<s, a>>].length /\ map[<<s, a>>] = <<s, a>>
      /\ m2 \in [SpPage -> Header]
      /\ m2[<<s, a>>].length = b - a /\ m2[<<s, b>>].length = e - b
      /\ \A i \in Lens \ {a, b} : m2[<<s, i>>].length = m[<<s, i>>].length
      /\ \A i \in Lens : map2[<<s, i>>] = IF b <= i /\ i < e THEN <<s, b>> ELSE map[<<s, i>>]
  BY DEF SplitStep
<1>2. Tile(m, map, s, a)
  BY <1>1, TileEnd
<1>3. e <= SUPERPAGE_LEN + 1 /\ \A k \in Lens : a <= k /\ k < e => map[<<s, k>>] = <<s, a>>
  BY <1>1, <1>2 DEF Tile
<1>4. e \in Nat /\ a \in Nat /\ b \in Nat
  BY <1>0, <1>1, Lengths
<1>6. Tile(m2, map2, s, a)
  <2>1. ASSUME NEW k \in Lens, a <= k, k < b PROVE map2[<<s, k>>] = <<s, a>>
    <3>1. ~(b <= k /\ k < e) /\ k < e
      BY <1>0, <1>1, <1>4, <2>1
    <3> QED BY <1>1, <1>3, <2>1, <3>1
  <2>2. a + (b - a) = b /\ b - a > 0 /\ b <= SUPERPAGE_LEN + 1
    BY <1>0, <1>1, <1>4
  <2> QED BY <1>1, <2>1, <2>2 DEF Tile
<1>7. Tile(m2, map2, s, b)
  <2>2. b + (e - b) = e /\ e - b > 0
    BY <1>0, <1>1, <1>4
  <2>3. \A k \in Lens : b <= k /\ k < e => map2[<<s, k>>] = <<s, b>>
    BY <1>1
  <2> QED BY <1>1, <1>3, <2>2, <2>3 DEF Tile
<1>8. ASSUME NEW i \in Lens
      PROVE  \E j \in Lens : j <= i /\ i < j + m2[<<s, j>>].length /\ Tile(m2, map2, s, j)
  <2>1. PICK j \in Lens : /\ j <= i /\ i < j + m[<<s, j>>].length
                          /\ map[<<s, i>>] = <<s, j>> /\ map[<<s, j>>] = <<s, j>>
                          /\ Tile(m, map, s, j)
    BY TileOf
  <2>2. j \in Nat /\ i \in Nat /\ m[<<s, j>>].length \in Nat
    BY <1>0, <2>1, Lengths
  <2>3. CASE j = a
    <3>1. i < e /\ a <= i
      BY <1>1, <2>1, <2>3
    <3>2. CASE i < b
      <4>1. i < a + (b - a)
        BY <1>4, <2>2, <3>2
      <4> QED BY <1>1, <1>6, <3>1, <4>1
    <3>3. CASE b <= i
      <4>1. i < b + (e - b)
        BY <1>4, <2>2, <3>1
      <4> QED BY <1>1, <1>7, <3>3, <4>1
    <3> QED BY <1>4, <2>2, <3>2, <3>3
  <2>4. CASE j # a
    <3>1. j # b
      <4>1. map[<<s, b>>] = <<s, a>>
        BY <1>1, <1>3, <1>4
      <4>2. ASSUME j = b PROVE FALSE
        <5>1. b = a
          BY <2>1, <4>1, <4>2
        <5> QED BY <1>1, <1>4, <5>1
      <4> QED BY <4>2
    <3>2. m2[<<s, j>>].length = m[<<s, j>>].length
      BY <1>1, <2>1, <2>4, <3>1
    <3>3. ASSUME NEW k \in Lens, j <= k, k < j + m[<<s, j>>].length PROVE map2[<<s, k>>] = <<s, j>>
      <4>1. map[<<s, k>>] = <<s, j>>
        BY <2>1, <3>3 DEF Tile
      <4>2. ASSUME b <= k /\ k < e PROVE FALSE
        <5>1. a <= k
          BY <1>0, <1>1, <1>4, <4>2
        <5>2. map[<<s, k>>] = <<s, a>>
          BY <1>3, <4>2, <5>1
        <5>3. a = j
          BY <4>1, <5>2
        <5> QED BY <2>4, <5>3
      <4> QED BY <1>1, <4>1, <4>2
    <3>4. Tile(m2, map2, s, j)
      BY <2>1, <3>2, <3>3 DEF Tile
    <3> QED BY <2>1, <3>2, <3>4
  <2> QED BY <2>3, <2>4
<1>9. ASSUME NEW i \in Lens
      PROVE  map2[<<s, i>>] = <<s, i>> <=> i = b \/ map[<<s, i>>] = <<s, i>>
  <2>1. CASE b <= i /\ i < e
    <3>1. a <= i /\ map[<<s, i>>] = <<s, a>> /\ i # a
      <4>1. a <= i /\ i # a
        BY <1>0, <1>1, <1>4, <2>1
      <4> QED BY <1>3, <2>1, <4>1
    <3>2. map2[<<s, i>>] = <<s, b>>
      BY <1>1, <2>1
    <3> QED BY <3>1, <3>2
  <2>2. CASE ~(b <= i /\ i < e)
    <3>1. i # b
      BY <1>1, <1>4, <2>2
    <3>2. map2[<<s, i>>] = map[<<s, i>>]
      BY <1>1, <2>2
    <3> QED BY <3>1, <3>2
  <2> QED BY <2>1, <2>2
<1> QED BY <1>8, <1>9 DEF Tiled

\* What is known of a page block.
TileFacts(m, map, s, j, e) ==
  /\ j \in Nat /\ m[<<s, j>>].length \in Nat /\ m[<<s, j>>].length > 0
  /\ e = j + m[<<s, j>>].length
  /\ j < e /\ e <= SUPERPAGE_LEN + 1 /\ e \in Nat
  /\ \A k \in Lens : j <= k /\ k < e => map[<<s, k>>] = <<s, j>>
  /\ e <= SUPERPAGE_LEN => e \in Lens /\ map[<<s, e>>] = <<s, e>>
  /\ j > 1 => j - 1 \in Lens /\ EndsAt(m, map, s, j)
  /\ \A i \in Lens : i < j /\ map[<<s, i>>] = <<s, i>> => i + m[<<s, i>>].length <= j

LEMMA Adjacent ==
  ASSUME ConstantsOK, NEW m \in [SpPage -> Header], NEW map, NEW s \in Superpage,
         Tiled(m, map, s), NEW j \in Lens, map[<<s, j>>] = <<s, j>>,
         NEW i \in Lens, i < j, map[<<s, i>>] = <<s, i>>
  PROVE  i + m[<<s, i>>].length <= j
<1>1. Tile(m, map, s, i) /\ i \in Nat /\ m[<<s, i>>].length \in Nat /\ j \in Nat
  BY TileEnd, Lengths
<1>2. ASSUME j < i + m[<<s, i>>].length PROVE FALSE
  <2>1. map[<<s, j>>] = <<s, i>>
    BY <1>1, <1>2 DEF Tile
  <2>2. i = j
    BY <2>1
  <2> QED BY <1>1, <2>2
<1> QED BY <1>1, <1>2

LEMMA TileKnown ==
  ASSUME ConstantsOK, NEW m, NEW map, NEW s, NEW j, TileHere(m, map, s, j)
  PROVE  TileFacts(m, map, s, j, j + m[<<s, j>>].length)
<1> DEFINE e == j + m[<<s, j>>].length
<1>1. /\ m \in [SpPage -> Header] /\ s \in Superpage /\ Tiled(m, map, s)
      /\ j \in Lens /\ map[<<s, j>>] = <<s, j>>
  BY DEF TileHere
<1>2. m[<<s, j>>].length \in Nat /\ j \in Nat /\ SUPERPAGE_LEN \in Nat
  BY <1>1, Lengths, Constants
<1>3. Tile(m, map, s, j)
  BY <1>1, TileEnd
<1>4. e <= SUPERPAGE_LEN => e \in Lens /\ map[<<s, e>>] = <<s, e>>
  BY <1>1, TileEnd
<1>5. j > 1 => j - 1 \in Lens /\ EndsAt(m, map, s, j)
  BY TileBefore
<1>6. \A i \in Lens : i < j /\ map[<<s, i>>] = <<s, i>> => i + m[<<s, i>>].length <= j
  BY <1>1, Adjacent
<1>7. /\ m[<<s, j>>].length > 0 /\ e <= SUPERPAGE_LEN + 1
      /\ \A k \in Lens : j <= k /\ k < e => map[<<s, k>>] = <<s, j>>
  BY <1>3 DEF Tile
<1>8. j < e /\ e \in Nat
  BY <1>2, <1>7
<1> QED BY <1>2, <1>4, <1>5, <1>6, <1>7, <1>8 DEF TileFacts

\* map2 differs from map in the pages from a to b of s, which lead to val.
Ranged(map, map2, s, a, b, val) ==
  /\ map2 \in [SpPage -> Ptr]
  /\ \A i \in Lens : map2[<<s, i>>] = IF a <= i /\ i < b THEN val ELSE map[<<s, i>>]
  /\ \A p \in SpPage : p[1] # s => map2[p] = map[p]

LEMMA RangeSet ==
  ASSUME ConstantsOK, NEW map \in [SpPage -> Ptr], NEW s \in Superpage, NEW a \in Lens,
         NEW n \in Nat, NEW val \in Ptr
  PROVE  Ranged(map, SetRange(map, <<s, a>>, n, val), s, a, a + n, val)
<1> DEFINE map2 == SetRange(map, <<s, a>>, n, val)
<1>1. map2 = [p \in SpPage |-> IF p \in Pages(<<s, a>>, n) THEN val ELSE map[p]]
  BY DEF SetRange
<1>2. map2 \in [SpPage -> Ptr]
  BY <1>1
<1>3. ASSUME NEW i \in Lens
      PROVE  map2[<<s, i>>] = IF a <= i /\ i < a + n THEN val ELSE map[<<s, i>>]
  <2>1. <<s, i>> \in SpPage /\ i \in Int /\ a \in Int
    BY Constants
  <2>2. <<s, i>> \in Pages(<<s, a>>, n) <=> i \in a .. a + n - 1
    BY DEF Pages
  <2>3. i \in a .. a + n - 1 <=> a <= i /\ i < a + n
    BY <2>1
  <2> QED BY <1>1, <2>1, <2>2, <2>3
<1>4. ASSUME NEW p \in SpPage, p[1] # s PROVE map2[p] = map[p]
  <2>1. p \notin Pages(<<s, a>>, n)
    BY <1>4 DEF Pages
  <2> QED BY <1>1, <2>1
<1> QED BY <1>2, <1>3, <1>4 DEF Ranged

\* The free neighbours of a page block.
LEMMA Neighbours ==
  ASSUME ConstantsOK, NEW S, Typed(S), NEW s \in Superpage, Tiled(S.mem, S.map, s),
         NEW j \in Lens, S.map[<<s, j>>] = <<s, j>>
  PROVE  LET h == <<s, j>>
             p == FreeBefore(S, h)
             n == FreeAfter(S, h)
             e == j + S.mem[h].length
         IN /\ p # NULL => \E i \in Lens : /\ p = <<s, i>> /\ i < j /\ i + S.mem[p].length = j
                                           /\ S.map[p] = p /\ S.mem[p].free
            /\ n # NULL => e \in Lens /\ n = <<s, e>> /\ S.map[n] = n /\ S.mem[n].free
<1> DEFINE h == <<s, j>>
           p == FreeBefore(S, h)
           n == FreeAfter(S, h)
           e == j + S.mem[h].length
<1>1. TileHere(S.mem, S.map, s, j)
  BY DEF TileHere, Typed
<1>2. TileFacts(S.mem, S.map, s, j, e)
  BY <1>1, TileKnown
<1>3. h[1] = s /\ h[2] = j /\ Lens = 1 .. SUPERPAGE_LEN /\ SUPERPAGE_LEN \in Nat
  BY Constants
<1> HIDE DEF e
<1>4. ASSUME p # NULL
      PROVE  \E i \in Lens : /\ p = <<s, i>> /\ i < j /\ i + S.mem[p].length = j
                             /\ S.map[p] = p /\ S.mem[p].free
  <2>1. p = FreeAt(S, s, j - 1)
    BY <1>3 DEF FreeBefore
  <2>2. j - 1 \in Lens /\ p = S.map[<<s, j - 1>>] /\ S.mem[p].free
    BY <1>4, <2>1 DEF FreeAt
  <2>3. j > 1
    BY <1>2, <1>3, <2>2 DEF TileFacts
  <2>4. PICK i \in Lens : /\ i < j /\ S.map[<<s, j - 1>>] = <<s, i>> /\ S.map[<<s, i>>] = <<s, i>>
                          /\ i + S.mem[<<s, i>>].length = j
    BY <1>2, <2>3 DEF TileFacts, EndsAt
  <2> QED BY <2>2, <2>4
<1>5. ASSUME n # NULL
      PROVE  e \in Lens /\ n = <<s, e>> /\ S.map[n] = n /\ S.mem[n].free
  <2>1. n = FreeAt(S, s, e)
    BY <1>3 DEF FreeAfter, e
  <2>2. e \in Lens /\ n = S.map[<<s, e>>] /\ S.mem[n].free
    BY <1>5, <2>1 DEF FreeAt
  <2>3. e <= SUPERPAGE_LEN
    BY <1>3, <2>2
  <2>4. S.map[<<s, e>>] = <<s, e>>
    BY <1>2, <2>3 DEF TileFacts
  <2> QED BY <2>2, <2>4
<1> QED BY <1>4, <1>5 DEF e

\* The page blocks Gone of superpage f[1] are one of length L now, at f.
Unified(S, S2, Gone, f, L) ==
  /\ Typed(S2) /\ Tiled(S2.mem, S2.map, f[1])
  /\ f \in Gone /\ Gone \subseteq SpPage
  /\ S2.mem = [S.mem EXCEPT ![f].length = L]
  /\ \A q \in SpPage : S2.map[q] = q <=> q = f \/ (S.map[q] = q /\ q \notin Gone)
  /\ \A q \in SpPage : q[1] # f[1] => S2.map[q] = S.map[q]
  /\ S2.free = S.free /\ S2.blk = S.blk

\* m2 differs from m in the length of header f.
Lengthened(m, m2, f, L) ==
  /\ m2 \in [SpPage -> Header] /\ m2[f].length = L
  /\ \A q \in SpPage : q # f => m2[q] = m[q]
  /\ \A q \in SpPage : /\ m2[q].free = m[q].free /\ m2[q].large = m[q].large
                       /\ m2[q].whole = m[q].whole /\ m2[q].next = m[q].next
                       /\ m2[q].prev = m[q].prev

LEMMA LengthSet ==
  ASSUME ConstantsOK, NEW m \in [SpPage -> Header], NEW f \in SpPage, NEW L \in 0 .. SUPERPAGE_LEN
  PROVE  Lengthened(m, [m EXCEPT ![f].length = L], f, L)
<1> DEFINE m2 == [m EXCEPT ![f].length = L]
           a == [m[f] EXCEPT !.length = L]
<1>1. m[f] \in Header
  OBVIOUS
<1>2. /\ a \in Header /\ a.length = L /\ a.free = m[f].free /\ a.large = m[f].large
      /\ a.whole = m[f].whole /\ a.next = m[f].next /\ a.prev = m[f].prev
  BY <1>1 DEF Header
<1> HIDE DEF a
<1>3. m2 = [m EXCEPT ![f] = a]
  BY DEF a
<1> QED BY <1>2, <1>3 DEF Lengthened

\* p and n are the page blocks before and after h, if there are any to join.
NextTo(S, s, j, p, n) ==
  /\ p # NULL => \E i \in Lens : /\ p = <<s, i>> /\ i < j /\ i + S.mem[p].length = j
                                 /\ S.map[p] = p
  /\ n # NULL => /\ j + S.mem[<<s, j>>].length \in Lens
                 /\ n = <<s, j + S.mem[<<s, j>>].length>> /\ S.map[n] = n

\* The L pages from f on are those of the page blocks Gone.
Together(map, s, f, L, Gone) ==
  \E a \in Lens, b \in 1 .. SUPERPAGE_LEN + 1 :
    /\ f = <<s, a>> /\ b = a + L /\ L \in Lens
    /\ map[f] = f /\ (b <= SUPERPAGE_LEN => map[<<s, b>>] = <<s, b>>)
    /\ Gone \subseteq SpPage /\ f \in Gone
    /\ \A q \in Gone : q[1] = s /\ map[q] = q /\ a <= q[2] /\ q[2] < b
    /\ \A i \in Lens : map[<<s, i>>] = <<s, i>> /\ a <= i /\ i < b => <<s, i>> \in Gone

LEMMA ThreeTogether ==
  ASSUME ConstantsOK, NEW S, Typed(S), NEW s, NEW j, TileHere(S.mem, S.map, s, j),
         NEW p, NEW n, NextTo(S, s, j, p, n)
  PROVE  Together(S.map, s, First(p, <<s, j>>), LenOf(S, p) + LenOf(S, <<s, j>>) + LenOf(S, n),
                  {p, <<s, j>>, n} \ {NULL})
<1> DEFINE h == <<s, j>>
           f == First(p, <<s, j>>)
           L == LenOf(S, p) + LenOf(S, <<s, j>>) + LenOf(S, n)
           e == j + S.mem[h].length
           Gone == {p, h, n} \ {NULL}
<1>0. /\ S.mem \in [SpPage -> Header] /\ s \in Superpage /\ Tiled(S.mem, S.map, s)
      /\ j \in Lens /\ S.map[h] = h
  BY DEF TileHere
<1>1. TileFacts(S.mem, S.map, s, j, e)
  BY TileKnown
<1>2. /\ j \in Nat /\ S.mem[h].length \in Nat /\ e \in Nat /\ j < e /\ e <= SUPERPAGE_LEN + 1
      /\ e <= SUPERPAGE_LEN => e \in Lens /\ S.map[<<s, e>>] = <<s, e>>
      /\ \A i \in Lens : i < j /\ S.map[<<s, i>>] = <<s, i>> => i + S.mem[<<s, i>>].length <= j
      /\ SUPERPAGE_LEN \in Nat /\ Lens = 1 .. SUPERPAGE_LEN
  BY <1>1, Constants DEF TileFacts
<1>3. h \in SpPage /\ h # NULL /\ h[1] = s /\ h[2] = j /\ LenOf(S, h) = S.mem[h].length
      /\ \A i \in Lens : <<s, i>> \in SpPage /\ <<s, i>>[1] = s /\ <<s, i>>[2] = i /\ <<s, i>> # NULL
  BY <1>0, Constants DEF LenOf
<1>4. \E a \in Lens : /\ f = <<s, a>> /\ f \in Gone /\ a + LenOf(S, p) = j /\ S.map[f] = f
                      /\ LenOf(S, p) \in Nat
                      /\ \A q \in Gone \cap {p} : q = f
                      /\ \A k \in Lens : S.map[<<s, k>>] = <<s, k>> /\ a <= k /\ k < j => <<s, k>> = f
  <2>1. CASE p = NULL
    <3>1. f = h /\ LenOf(S, p) = 0
      BY <2>1 DEF First, LenOf
    <3>2. \A k \in Lens : ~(j <= k /\ k < j)
      BY <1>2
    <3> QED BY <1>0, <1>2, <1>3, <2>1, <3>1, <3>2
  <2>2. CASE p # NULL
    <3>1. f = p /\ LenOf(S, p) = S.mem[p].length
      BY <2>2 DEF First, LenOf
    <3>2. PICK a \in Lens : p = <<s, a>> /\ a < j /\ a + S.mem[p].length = j /\ S.map[p] = p
      BY <2>2 DEF NextTo
    <3>3. TileHere(S.mem, S.map, s, a)
      BY <1>0, <3>2 DEF TileHere
    <3>4. S.mem[p].length \in Nat /\ a \in Nat
      BY <1>0, <3>2, Lengths
    <3>5. ASSUME NEW k \in Lens, S.map[<<s, k>>] = <<s, k>>, a <= k, k < j PROVE <<s, k>> = f
      <4>1. TileHere(S.mem, S.map, s, k)
        BY <1>0, <3>5 DEF TileHere
      <4>2. TileFacts(S.mem, S.map, s, k, k + S.mem[<<s, k>>].length)
        BY <4>1, TileKnown
      <4>3. a < k => a + S.mem[<<s, a>>].length <= k
        BY <3>2, <4>2 DEF TileFacts
      <4>4. k \in Nat
        BY <4>2 DEF TileFacts
      <4>5. a = k
        BY <1>2, <3>2, <3>4, <3>5, <4>3, <4>4
      <4> QED BY <3>1, <3>2, <4>5
    <3> QED BY <2>2, <3>1, <3>2, <3>4, <3>5
  <2> QED BY <2>1, <2>2
<1>5. /\ LenOf(S, n) \in Nat /\ e + LenOf(S, n) <= SUPERPAGE_LEN + 1
      /\ e + LenOf(S, n) <= SUPERPAGE_LEN =>
           S.map[<<s, e + LenOf(S, n)>>] = <<s, e + LenOf(S, n)>>
      /\ n # NULL => e \in Lens /\ n = <<s, e>> /\ S.map[n] = n /\ e < e + LenOf(S, n)
      /\ \A k \in Lens : S.map[<<s, k>>] = <<s, k>> /\ e <= k /\ k < e + LenOf(S, n) => <<s, k>> = n
  <2>1. CASE n = NULL
    <3>1. LenOf(S, n) = 0
      BY <2>1 DEF LenOf
    <3>2. \A k \in Lens : ~(e <= k /\ k < e)
      BY <1>2
    <3> HIDE DEF e
    <3>3. e + LenOf(S, n) = e
      BY <1>2, <3>1
    <3> QED BY <1>2, <2>1, <3>1, <3>2, <3>3
  <2>2. CASE n # NULL
    <3>1. LenOf(S, n) = S.mem[n].length /\ e \in Lens /\ n = <<s, e>> /\ S.map[n] = n
      BY <2>2 DEF LenOf, NextTo
    <3>2. TileHere(S.mem, S.map, s, e)
      BY <1>0, <3>1 DEF TileHere
    <3> HIDE DEF e
    <3>3. TileFacts(S.mem, S.map, s, e, e + S.mem[<<s, e>>].length)
      BY <3>2, TileKnown
    <3> DEFINE d == e + S.mem[<<s, e>>].length
    <3>4. /\ S.mem[<<s, e>>].length \in Nat /\ d <= SUPERPAGE_LEN + 1 /\ e < d
          /\ d <= SUPERPAGE_LEN => S.map[<<s, d>>] = <<s, d>>
      BY <3>3 DEF TileFacts
    <3>5. ASSUME NEW k \in Lens, S.map[<<s, k>>] = <<s, k>>, e <= k, k < d PROVE k = e
      <4>1. TileHere(S.mem, S.map, s, k)
        BY <1>0, <3>5 DEF TileHere
      <4>2. TileFacts(S.mem, S.map, s, k, k + S.mem[<<s, k>>].length)
        BY <4>1, TileKnown
      <4>3. e < k => e + S.mem[<<s, e>>].length <= k
        BY <3>1, <4>2 DEF TileFacts
      <4>4. k \in Nat
        BY <4>2 DEF TileFacts
      <4>6. d \in Nat
        BY <1>2, <3>4
      <4>5. e < k => d <= k
        BY <4>3
      <4>7. e <= k /\ k < d /\ e \in Nat
        BY <1>2, <3>5
      <4> HIDE DEF d
      <4> QED BY <4>4, <4>5, <4>6, <4>7
    <3>6. d = e + LenOf(S, n)
      BY <3>1
    <3> HIDE DEF d
    <3> QED BY <2>2, <3>1, <3>4, <3>5, <3>6
  <2> QED BY <2>1, <2>2
<1>6. PICK a \in Lens : /\ f = <<s, a>> /\ f \in Gone /\ a + LenOf(S, p) = j /\ S.map[f] = f
                        /\ LenOf(S, p) \in Nat
                        /\ \A q \in Gone \cap {p} : q = f
                        /\ \A k \in Lens : S.map[<<s, k>>] = <<s, k>> /\ a <= k /\ k < j => <<s, k>> = f
  BY <1>4
<1> DEFINE b == e + LenOf(S, n)
<1>7. b = a + L /\ L \in Nat /\ a \in Nat /\ b \in Nat /\ a <= j /\ e <= b /\ e = j + S.mem[h].length
  <2> DEFINE x == LenOf(S, p)
             y == S.mem[h].length
             z == LenOf(S, n)
  <2>1. a + x = j /\ x \in Nat /\ a \in Nat /\ y \in Nat /\ z \in Nat /\ j \in Nat
    BY <1>2, <1>5, <1>6
  <2>2. L = x + y + z /\ e = j + y /\ b = e + z
    BY <1>3
  <2> HIDE DEF x, y, z, e, b
  <2>3. b = a + L /\ L \in Nat /\ a \in Nat /\ b \in Nat /\ a <= j /\ e <= b
    BY <2>1, <2>2
  <2> QED BY <2>3 DEF e
<1>8. b <= SUPERPAGE_LEN + 1 /\ (b <= SUPERPAGE_LEN => S.map[<<s, b>>] = <<s, b>>)
  BY <1>5
<1>9. n # NULL => e \in Lens /\ n = <<s, e>> /\ S.map[n] = n /\ e < b
  BY <1>5
<1>10. \A k \in Lens : S.map[<<s, k>>] = <<s, k>> /\ e <= k /\ k < b => <<s, k>> = n
  BY <1>5
<1> HIDE DEF b, e
<1>11. a < b
  BY <1>2, <1>7
<1>12. Gone \subseteq SpPage
  BY <1>3, <1>6, <1>9
<1>13. ASSUME NEW q \in Gone PROVE q[1] = s /\ S.map[q] = q /\ a <= q[2] /\ q[2] < b
  <2>1. CASE q = f
    BY <1>3, <1>6, <1>7, <1>11, <2>1
  <2>2. CASE q = h
    <3>1. a <= j /\ j < b
      BY <1>2, <1>7
    <3> QED BY <1>0, <1>3, <2>2, <3>1
  <2>3. CASE q = n /\ n # NULL
    <3>1. q[2] = e /\ q[1] = s /\ S.map[q] = q /\ e < b
      BY <1>3, <1>9, <2>3
    <3>2. a <= e
      BY <1>2, <1>7
    <3> QED BY <3>1, <3>2
  <2> QED BY <1>6, <2>1, <2>2, <2>3
<1>14. ASSUME NEW i \in Lens, S.map[<<s, i>>] = <<s, i>>, a <= i, i < b PROVE <<s, i>> \in Gone
  <2>0. i \in Nat
    BY <1>2
  <2>1. CASE i < j
    <3>1. <<s, i>> = f
      BY <1>6, <1>14, <2>1
    <3> QED BY <1>6, <3>1
  <2>2. CASE i = j
    BY <1>3, <2>2
  <2>3. CASE j < i
    <3>1. TileHere(S.mem, S.map, s, i)
      BY <1>0, <1>14 DEF TileHere
    <3>2. TileFacts(S.mem, S.map, s, i, i + S.mem[<<s, i>>].length)
      BY <3>1, TileKnown
    <3>3. e <= i
      BY <1>0, <1>7, <2>3, <3>2 DEF TileFacts
    <3>4. <<s, i>> = n
      BY <1>10, <1>14, <3>3
    <3> QED BY <1>3, <3>4
  <2> QED BY <1>2, <2>0, <2>1, <2>2, <2>3
<1>15. b \in 1 .. SUPERPAGE_LEN + 1 /\ L \in Lens /\ a \in Lens
  <2>0. a \in Lens /\ Lens = 1 .. SUPERPAGE_LEN /\ SUPERPAGE_LEN \in Nat
    BY <1>2, <1>6
  <2>2. b = a + L /\ L \in Nat /\ a \in Nat /\ b \in Nat
    BY <1>7
  <2> HIDE DEF L, f
  <2>1. L <= SUPERPAGE_LEN /\ L > 0 /\ b <= SUPERPAGE_LEN + 1
    BY <1>8, <1>11, <2>0, <2>2
  <2> QED BY <2>0, <2>1, <2>2
<1>16. f \in Gone /\ S.map[f] = f /\ f = <<s, a>> /\ b = a + L
  BY <1>6, <1>7
<1> HIDE DEF Gone, f, L
<1>17. Together(S.map, s, f, L, Gone)
  BY <1>8, <1>12, <1>13, <1>14, <1>15, <1>16 DEF Together
<1> QED BY <1>17 DEF f, L, Gone

\* The heap with another length of page block f.
Resize(S, f, L) == [S EXCEPT !.mem[f].length = L]

\* J differs from S in the length of page block f.
Longer(S, J, f, L) ==
  /\ Typed(J) /\ J.map = S.map /\ J.free = S.free /\ J.blk = S.blk
  /\ Lengthened(S.mem, J.mem, f, L)

LEMMA UnifiedOK ==
  ASSUME ConstantsOK, NEW S, Typed(S), NEW s \in Superpage, Tiled(S.mem, S.map, s),
         NEW f, NEW L, NEW Gone, Together(S.map, s, f, L, Gone)
  PROVE  /\ L \in Lens /\ f \in Gone /\ f \in SpPage
         /\ Unified(S, Remapped(Resize(S, f, L), f), Gone, f, L)
         /\ Longer(S, Resize(S, f, L), f, L)
         /\ L = SUPERPAGE_LEN => \A q \in SpPage : q[1] = s /\ S.map[q] = q => q \in Gone
<1> DEFINE J == Resize(S, f, L)
           R == Remapped(J, f)
           m2 == [S.mem EXCEPT ![f].length = L]
           map2 == SetRange(S.map, f, L, f)
<1>0. PICK a \in Lens, b \in 1 .. SUPERPAGE_LEN + 1 :
      /\ f = <<s, a>> /\ b = a + L /\ L \in Lens
      /\ S.map[f] = f /\ (b <= SUPERPAGE_LEN => S.map[<<s, b>>] = <<s, b>>)
      /\ Gone \subseteq SpPage /\ f \in Gone
      /\ \A q \in Gone : q[1] = s /\ S.map[q] = q /\ a <= q[2] /\ q[2] < b
      /\ \A i \in Lens : S.map[<<s, i>>] = <<s, i>> /\ a <= i /\ i < b => <<s, i>> \in Gone
  BY DEF Together
<1>1. /\ S.mem \in [SpPage -> Header] /\ S.map \in [SpPage -> Ptr] /\ S.free \in [Lens -> Ptr]
      /\ S.blk \in Ptr /\ S = [mem |-> S.mem, map |-> S.map, free |-> S.free, blk |-> S.blk]
  BY DEF Typed
<1>2. /\ f \in SpPage /\ f[1] = s /\ SUPERPAGE_LEN \in Nat /\ Lens = 1 .. SUPERPAGE_LEN
      /\ \A q \in SpPage : q = <<q[1], q[2]>> /\ q[1] \in Superpage /\ q[2] \in Lens
      /\ \A i \in Lens : <<s, i>> \in SpPage /\ <<s, i>>[1] = s /\ <<s, i>>[2] = i
  BY <1>0, Constants
<1>3. L \in Lens /\ L \in 0 .. SUPERPAGE_LEN /\ a \in Nat /\ b \in Nat /\ b - a = L /\ a < b
      /\ (L = SUPERPAGE_LEN => a = 1 /\ b = SUPERPAGE_LEN + 1)
  BY <1>0, <1>2
<1>4. J = [mem |-> m2, map |-> S.map, free |-> S.free, blk |-> S.blk]
  <2>1. J = [S EXCEPT !.mem = m2]
    BY DEF Resize
  <2> HIDE DEF m2
  <2> QED BY <1>1, <2>1
<1>5. /\ m2 \in [SpPage -> Header] /\ m2[f].length = L /\ Lengthened(S.mem, m2, f, L)
      /\ \A q \in SpPage : q # f => m2[q] = m2[q] /\ m2[q] = S.mem[q]
  <2>1. S.mem \in [SpPage -> Header] /\ f \in SpPage /\ L \in 0 .. SUPERPAGE_LEN
    BY <1>1, <1>2, <1>3
  <2>2. Lengthened(S.mem, m2, f, L)
    BY <2>1, LengthSet
  <2> HIDE DEF m2
  <2> QED BY <2>2 DEF Lengthened
<1> HIDE DEF m2
<1>6. R = [mem |-> m2, map |-> map2, free |-> S.free, blk |-> S.blk]
  <2>1. J.mem[f].length = L /\ J.map = S.map
    BY <1>4, <1>5
  <2>2. R = [J EXCEPT !.map = map2]
    BY <2>1 DEF Remapped
  <2> HIDE DEF J, R, map2
  <2> QED BY <1>4, <2>2
<1> HIDE DEF J, R
<1>7. /\ map2 \in [SpPage -> Ptr]
      /\ \A i \in Lens : map2[<<s, i>>] = IF a <= i /\ i < b THEN f ELSE S.map[<<s, i>>]
      /\ \A p \in SpPage : p[1] # s => map2[p] = S.map[p]
  <2>1. map2 = SetRange(S.map, <<s, a>>, L, f) /\ f \in Ptr
    BY <1>0, <1>2 DEF Ptr
  <2> HIDE DEF map2
  <2>2. Ranged(S.map, map2, s, a, a + L, f)
    BY <1>0, <1>1, <1>3, <2>1, RangeSet
  <2> QED BY <1>0, <2>2 DEF Ranged
<1> HIDE DEF map2
<1>8. JoinStep(S.mem, S.map, m2, map2, s, a, b)
  <2>1. ASSUME NEW i \in Lens
        PROVE  m2[<<s, i>>].length = IF i = a THEN b - a ELSE S.mem[<<s, i>>].length
    BY <1>0, <1>2, <1>3, <1>5
  <2> QED BY <1>0, <1>2, <1>3, <1>5, <1>7, <2>1 DEF JoinStep
<1>9. /\ Tiled(m2, map2, s)
      /\ \A i \in Lens : map2[<<s, i>>] = <<s, i>> <=>
                           i = a \/ (S.map[<<s, i>>] = <<s, i>> /\ ~(a < i /\ i < b))
  BY <1>1, <1>8, Joined
<1>10. ASSUME NEW q \in SpPage
       PROVE  map2[q] = q <=> q = f \/ (S.map[q] = q /\ q \notin Gone)
  <2>1. CASE q[1] = s
    <3>1. q = <<s, q[2]>> /\ q[2] \in Lens /\ q[2] \in Nat
      BY <1>2, <2>1
    <3>2. map2[q] = q <=> q[2] = a \/ (S.map[q] = q /\ ~(a < q[2] /\ q[2] < b))
      BY <1>9, <3>1
    <3>3. q[2] = a <=> q = f
      BY <1>0, <1>2, <3>1
    <3>4. S.map[q] = q => (q \in Gone <=> a <= q[2] /\ q[2] < b)
      BY <1>0, <3>1
    <3> QED BY <1>0, <1>3, <3>1, <3>2, <3>3, <3>4
  <2>2. CASE q[1] # s
    <3>1. map2[q] = S.map[q] /\ q \notin Gone /\ q # f
      BY <1>0, <1>2, <1>7, <2>2
    <3> QED BY <3>1
  <2> QED BY <2>1, <2>2
<1>11. /\ J.mem = m2 /\ J.map = S.map /\ J.free = S.free /\ J.blk = S.blk
       /\ R.mem = m2 /\ R.map = map2 /\ R.free = S.free /\ R.blk = S.blk
  BY <1>4, <1>6
<1>12. Typed(J) /\ Typed(R)
  BY <1>1, <1>4, <1>5, <1>6, <1>7 DEF Typed
<1>13. f \in Gone /\ Gone \subseteq SpPage
  BY <1>0, <1>2
<1>14. m2 = [S.mem EXCEPT ![f].length = L]
  BY DEF m2
<1>15. Unified(S, R, Gone, f, L)
  BY <1>2, <1>7, <1>9, <1>10, <1>11, <1>12, <1>13, <1>14 DEF Unified
<1>16. ASSUME L = SUPERPAGE_LEN, NEW q \in SpPage, q[1] = s, S.map[q] = q PROVE q \in Gone
  <2>1. q = <<s, q[2]>> /\ q[2] \in Lens /\ a <= q[2] /\ q[2] < b
    BY <1>2, <1>3, <1>16
  <2> QED BY <1>0, <1>16, <2>1
<1>17. Longer(S, J, f, L)
  BY <1>5, <1>11, <1>12 DEF Longer
<1> QED BY <1>2, <1>3, <1>13, <1>15, <1>16, <1>17 DEF J, R

----------------------------------------------------------------------------
(* What happens to the lists when other things than their pointers change. *)

SameHeader(m, m2, h) ==
  /\ m2[h].length = m[h].length /\ m2[h].free = m[h].free
  /\ m2[h].large = m[h].large /\ m2[h].whole = m[h].whole

SameLinks(m, m2) ==
  \A h \in SpPage : m2[h].next = m[h].next /\ m2[h].prev = m[h].prev

LEMMA ListsMoved ==
  ASSUME NEW S, NEW S2, NEW O, NEW O2, NEW X, NEW X2, NEW C, Lists(S, O, X, C),
         SameLinks(S.mem, S2.mem), S2.free = S.free, S2.blk = S.blk,
         \A c \in Lens : FreeIn(S2, O2, c) \ X2 = FreeIn(S, O, c) \ X,
         C \subseteq SmallIn(S2, O2)
  PROVE  Lists(S2, O2, X2, C)
<1>1. ASSUME NEW c \in Lens PROVE IsRing(S2.mem, FreeIn(S2, O2, c) \ X2, S2.free[c])
  <2>1. IsRing(S.mem, FreeIn(S, O, c) \ X, S.free[c])
    BY DEF Lists
  <2>2. \A h \in FreeIn(S, O, c) \ X :
          S2.mem[h].next = S.mem[h].next /\ S2.mem[h].prev = S.mem[h].prev
    BY DEF SameLinks, FreeIn
  <2>3. IsRing(S2.mem, FreeIn(S, O, c) \ X, S.free[c])
    BY <2>1, <2>2, RingSame
  <2> QED BY <2>3
<1>2. IsRing(S2.mem, C, S2.blk)
  <2>1. IsRing(S.mem, C, S.blk)
    BY DEF Lists
  <2>2. \A h \in C : S2.mem[h].next = S.mem[h].next /\ S2.mem[h].prev = S.mem[h].prev
    BY <2>1 DEF SameLinks, IsRing
  <2> QED BY <2>1, <2>2, RingSame
<1> QED BY <1>1, <1>2 DEF Lists

\* Page blocks that are on no list become one.
LEMMA UnifiedLists ==
  ASSUME ConstantsOK, NEW S, Typed(S), NEW S2, NEW Gone, NEW f, NEW L \in Lens,
         Unified(S, S2, Gone, f, L), NEW O, NEW X, NEW C, Lists(S, O, X, C),
         \A q \in Gone : S.map[q] = q /\ S.mem[q].free => q \in X, C \cap Gone = {}
  PROVE  Lists(S2, O, (X \ Gone) \cup {f}, C)
<1> DEFINE X2 == (X \ Gone) \cup {f}
<1>1. /\ f \in Gone /\ Gone \subseteq SpPage /\ S2.mem = [S.mem EXCEPT ![f].length = L]
      /\ \A q \in SpPage : S2.map[q] = q <=> q = f \/ (S.map[q] = q /\ q \notin Gone)
      /\ S2.free = S.free /\ S2.blk = S.blk
  BY DEF Unified
<1>2. S.mem \in [SpPage -> Header] /\ f \in SpPage /\ L \in 0 .. SUPERPAGE_LEN
  BY <1>1, Constants DEF Typed
<1>3. /\ \A q \in SpPage : q # f => S2.mem[q] = S.mem[q]
      /\ \A q \in SpPage : /\ S2.mem[q].free = S.mem[q].free /\ S2.mem[q].large = S.mem[q].large
                           /\ S2.mem[q].next = S.mem[q].next
                           /\ S2.mem[q].prev = S.mem[q].prev
  BY <1>1, <1>2, LengthSet DEF Lengthened
<1>4. SameLinks(S.mem, S2.mem)
  BY <1>3 DEF SameLinks
<1>5. ASSUME NEW c \in Lens PROVE FreeIn(S2, O, c) \ X2 = FreeIn(S, O, c) \ X
  BY <1>1, <1>3 DEF FreeIn
<1>6. C \subseteq SmallIn(S2, O)
  <2>1. C \subseteq SmallIn(S, O)
    BY DEF Lists
  <2> QED BY <1>1, <1>3, <2>1 DEF SmallIn
<1> HIDE DEF X2
<1>7. Lists(S2, O, X2, C)
  BY <1>1, <1>4, <1>5, <1>6, ListsMoved
<1> QED BY <1>7 DEF X2

\* Only the status of header x changes.
Changed(S, S2, x) ==
  /\ x \in SpPage /\ Typed(S2)
  /\ S2.map = S.map /\ S2.free = S.free /\ S2.blk = S.blk
  /\ \A q \in SpPage : q # x => S2.mem[q] = S.mem[q]
  /\ S2.mem[x].length = S.mem[x].length
  /\ S2.mem[x].next = S.mem[x].next /\ S2.mem[x].prev = S.mem[x].prev

LEMMA ChangedLists ==
  ASSUME NEW S, NEW S2, NEW x, Changed(S, S2, x), NEW O, NEW X, NEW X2, NEW C, Lists(S, O, X, C),
         \A q : q # x => (q \in X2 <=> q \in X),
         S.map[x] = x /\ x[1] \in O => /\ S.mem[x].free => x \in X
                                       /\ S2.mem[x].free => x \in X2,
         x \in C => ~S2.mem[x].free /\ ~S2.mem[x].large
  PROVE  Lists(S2, O, X2, C)
<1>1. /\ x \in SpPage /\ S2.map = S.map /\ S2.free = S.free /\ S2.blk = S.blk
      /\ \A q \in SpPage : q # x => S2.mem[q] = S.mem[q]
      /\ S2.mem[x].length = S.mem[x].length
      /\ S2.mem[x].next = S.mem[x].next /\ S2.mem[x].prev = S.mem[x].prev
  BY DEF Changed
<1>2. SameLinks(S.mem, S2.mem)
  BY <1>1 DEF SameLinks
<1>3. ASSUME NEW c \in Lens PROVE FreeIn(S2, O, c) \ X2 = FreeIn(S, O, c) \ X
  <2>1. ASSUME NEW q \in SpPage PROVE q \in FreeIn(S2, O, c) \ X2 <=> q \in FreeIn(S, O, c) \ X
    <3>1. CASE q = x
      BY <1>1, <3>1 DEF FreeIn
    <3>2. CASE q # x
      BY <1>1, <3>2 DEF FreeIn
    <3> QED BY <3>1, <3>2
  <2> QED BY <2>1 DEF FreeIn
<1>4. C \subseteq SmallIn(S2, O)
  <2>1. C \subseteq SmallIn(S, O)
    BY DEF Lists
  <2> QED BY <1>1, <2>1 DEF SmallIn
<1> QED BY <1>1, <1>2, <1>3, <1>4, ListsMoved

LEMMA FieldInitOK ==
  ASSUME ConstantsOK, NEW S, Typed(S), NEW h \in SpPage
  PROVE  LET S2 == FieldInit(S, h)
         IN Changed(S, S2, h) /\ S2.mem[h].free /\ ~S2.mem[h].whole /\ S2.mem[h].large = S.mem[h].large
<1> DEFINE S2 == FieldInit(S, h)
           a == [S.mem[h] EXCEPT !.free = TRUE, !.whole = FALSE]
           m2 == [S.mem EXCEPT ![h] = a]
<1>1. /\ S.mem \in [SpPage -> Header] /\ S.map \in [SpPage -> Ptr] /\ S.free \in [Lens -> Ptr]
      /\ S.blk \in Ptr /\ S = [mem |-> S.mem, map |-> S.map, free |-> S.free, blk |-> S.blk]
  BY DEF Typed
<1>2. S.mem[h] \in Header
  BY <1>1
<1>3. /\ a \in Header /\ a.free = TRUE /\ a.whole = FALSE /\ a.large = S.mem[h].large
      /\ a.length = S.mem[h].length /\ a.next = S.mem[h].next /\ a.prev = S.mem[h].prev
  BY <1>2 DEF Header
<1>4. S2 = [mem |-> m2, map |-> S.map, free |-> S.free, blk |-> S.blk]
  <2>1. m2 = [[S.mem EXCEPT ![h].free = TRUE] EXCEPT ![h].whole = FALSE]
    BY <1>1, <1>2
  <2>2. S2 = [S EXCEPT !.mem = m2]
    BY <1>1, <2>1 DEF FieldInit
  <2> HIDE DEF m2
  <2> QED BY <1>1, <2>2
<1> HIDE DEF a, S2
<1>5. m2 \in [SpPage -> Header] /\ m2[h] = a /\ \A q \in SpPage : q # h => m2[q] = S.mem[q]
  BY <1>1, <1>3
<1> HIDE DEF m2
<1>6. Typed(S2)
  BY <1>1, <1>4, <1>5 DEF Typed
<1>7. S2.mem = m2 /\ S2.map = S.map /\ S2.free = S.free /\ S2.blk = S.blk
  BY <1>4
<1> QED BY <1>3, <1>5, <1>6, <1>7 DEF Changed, S2

----------------------------------------------------------------------------
(* pb_free, seen from the heap.                                            *)

LEMMA SameTiled ==
  ASSUME ConstantsOK, NEW S, NEW S2, NEW s \in Superpage, Tiled(S.mem, S.map, s),
         S2.map = S.map, \A q \in SpPage : S2.mem[q].length = S.mem[q].length
  PROVE  Tiled(S2.mem, S2.map, s)
<1>1. S2.map = S.map /\ \A i \in Lens : S2.mem[<<s, i>>].length = S.mem[<<s, i>>].length
  BY Constants
<1>2. \A j \in Lens : Tile(S.mem, S.map, s, j) => Tile(S2.mem, S2.map, s, j)
  BY <1>1 DEF Tile
<1> QED BY <1>1, <1>2 DEF Tiled

LEMMA SameNeighbours ==
  ASSUME ConstantsOK, NEW S, Typed(S), NEW S2, SameData(S, S2), NEW h \in SpPage
  PROVE  /\ FreeBefore(S2, h) = FreeBefore(S, h) /\ FreeAfter(S2, h) = FreeAfter(S, h)
         /\ \A q \in Ptr : LenOf(S2, q) = LenOf(S, q)
<1>1. S.map \in [SpPage -> Ptr]
  BY DEF Typed
<1>2. \A i \in Lens : S.map[<<h[1], i>>] \in Ptr
  BY <1>1, Constants
<1>3. \A i : FreeAt(S2, h[1], i) = FreeAt(S, h[1], i)
  BY <1>2 DEF FreeAt, SameData, Ptr
<1>4. S2.mem[h].length = S.mem[h].length
  BY DEF SameData
<1> QED BY <1>3, <1>4 DEF FreeBefore, FreeAfter, LenOf, Ptr, SameData

\* Merge, with what it joins.
LEMMA MergeIs ==
  ASSUME ConstantsOK, NEW S, Typed(S), NEW h, NEW p, NEW n, NEW L \in Lens, NEW f \in SpPage,
         p = FreeBefore(S, h), n = FreeAfter(S, h), f = First(p, h),
         L = LenOf(S, p) + LenOf(S, h) + LenOf(S, n)
  PROVE  Merge(S, h) = LET J == Resize(S, f, L)
                       IN IF L = SUPERPAGE_LEN THEN J ELSE Remapped(J, f)
<1> DEFINE J == Resize(S, f, L)
<1>1. Join(S, p, h, n) = J
  BY DEF Join, Resize
<1>2. J.mem[f].length = L
  <2>1. S.mem \in [SpPage -> Header] /\ L \in 0 .. SUPERPAGE_LEN /\ f \in SpPage
    BY Constants DEF Typed
  <2>2. [S.mem EXCEPT ![f].length = L][f].length = L
    BY <2>1, LengthSet DEF Lengthened
  <2>3. S = [mem |-> S.mem, map |-> S.map, free |-> S.free, blk |-> S.blk]
    BY DEF Typed
  <2> DEFINE m2 == [S.mem EXCEPT ![f].length = L]
  <2>4. J = [S EXCEPT !.mem = m2]
    BY DEF Resize
  <2>5. J.mem = m2
    <3> HIDE DEF m2, J
    <3> QED BY <2>3, <2>4
  <2> QED BY <2>2, <2>5
<1> HIDE DEF J
<1>3. Merge(S, h) = IF J.mem[f].length = SUPERPAGE_LEN THEN J ELSE Remapped(J, f)
  BY <1>1 DEF Merge
<1> QED BY <1>2, <1>3 DEF J

\* Pages of s are one page block at f of length L in F, and no more of the
\* page blocks Gone; what is left of the lists is the free page blocks but X.
Coalesced(S, F, O, C, s, Gone, f, L) ==
  \E S2 : /\ Typed(S2) /\ SameData(S, S2) /\ Away(S, S2, O)
          /\ Lists(S2, O, Gone \cap {q \in SpPage : S.mem[q].free}, C)
          /\ L \in Lens /\ f \in Gone
          /\ Together(S2.map, s, f, L, Gone)
          /\ F = LET J == Resize(S2, f, L)
                 IN IF L = SUPERPAGE_LEN THEN J ELSE Remapped(J, f)

LEMMA CoalesceOK ==
  ASSUME ConstantsOK, NEW S, Typed(S), NEW s, NEW j, TileHere(S.mem, S.map, s, j),
         NEW O, s \in O, NEW C, Lists(S, O, {}, C), ~S.mem[<<s, j>>].free
  PROVE  \E L, Gone : /\ Coalesced(S, Coalesce(S, <<s, j>>), O, C, s, Gone,
                                   First(FreeBefore(S, <<s, j>>), <<s, j>>), L)
                      /\ <<s, j>> \in Gone
                      /\ \A q \in Gone \ {<<s, j>>} : S.mem[q].free
<1> DEFINE h == <<s, j>>
           p == FreeBefore(S, h)
           n == FreeAfter(S, h)
           f == First(p, h)
           L == LenOf(S, p) + LenOf(S, h) + LenOf(S, n)
           Gone == {p, h, n} \ {NULL}
           S1 == IF p = NULL THEN S ELSE UnlistFree(S, p)
           S2 == IF n = NULL THEN S1 ELSE UnlistFree(S1, n)
<1>0. /\ S.mem \in [SpPage -> Header] /\ s \in Superpage /\ Tiled(S.mem, S.map, s)
      /\ j \in Lens /\ S.map[h] = h /\ h \in SpPage /\ h # NULL
      /\ \A i \in Lens : <<s, i>> \in SpPage /\ <<s, i>>[1] = s
      /\ NULL \notin SpPage
  BY Constants DEF TileHere
<1>1. /\ p # NULL => \E i \in Lens : /\ p = <<s, i>> /\ i < j /\ i + S.mem[p].length = j
                                     /\ S.map[p] = p /\ S.mem[p].free
      /\ n # NULL => /\ j + S.mem[h].length \in Lens /\ n = <<s, j + S.mem[h].length>>
                     /\ S.map[n] = n /\ S.mem[n].free
  BY <1>0, Neighbours
<1>2. NextTo(S, s, j, p, n)
  BY <1>1 DEF NextTo
<1>3. TileFacts(S.mem, S.map, s, j, j + S.mem[h].length)
  BY TileKnown
<1>4. j \in Nat /\ j < j + S.mem[h].length
  BY <1>3 DEF TileFacts
<1>5. p # NULL => /\ p \in SpPage /\ p # h /\ p # n /\ S.mem[p].free
                  /\ S.mem[p].length \in Lens /\ p \in FreeIn(S, O, S.mem[p].length)
  <2> SUFFICES ASSUME p # NULL
               PROVE  /\ p \in SpPage /\ p # h /\ p # n /\ S.mem[p].free
                      /\ S.mem[p].length \in Lens /\ p \in FreeIn(S, O, S.mem[p].length)
    OBVIOUS
  <2>1. PICK i \in Lens : p = <<s, i>> /\ i < j /\ S.map[p] = p /\ S.mem[p].free
    BY <1>1
  <2>2. TileHere(S.mem, S.map, s, i)
    BY <1>0, <2>1 DEF TileHere
  <2>3. TileFacts(S.mem, S.map, s, i, i + S.mem[<<s, i>>].length)
    BY <2>2, TileKnown
  <2>4. S.mem[p].length > 0 /\ S.mem[p].length \in 0 .. SUPERPAGE_LEN /\ i \in Nat
    BY <1>0, <2>1, <2>3, Lengths DEF TileFacts
  <2>5. S.mem[p].length \in Lens
    BY <2>4, Constants
  <2>6. p # h /\ p # n
    <3>1. i # j /\ i # j + S.mem[h].length
      BY <1>4, <2>1, <2>4
    <3> QED BY <1>1, <2>1, <3>1
  <2>7. p \in FreeIn(S, O, S.mem[p].length)
    BY <1>0, <2>1 DEF FreeIn
  <2> QED BY <1>0, <2>1, <2>5, <2>6, <2>7
<1>6. n # NULL => /\ n \in SpPage /\ n # h /\ S.mem[n].free
                  /\ S.mem[n].length \in Lens /\ n \in FreeIn(S, O, S.mem[n].length)
  <2> SUFFICES ASSUME n # NULL
               PROVE  /\ n \in SpPage /\ n # h /\ S.mem[n].free
                      /\ S.mem[n].length \in Lens /\ n \in FreeIn(S, O, S.mem[n].length)
    OBVIOUS
  <2> DEFINE e == j + S.mem[h].length
  <2>1. e \in Lens /\ n = <<s, e>> /\ S.map[n] = n /\ S.mem[n].free
    BY <1>1
  <2>9. j < e
    BY <1>4
  <2> HIDE DEF e
  <2>2. TileHere(S.mem, S.map, s, e)
    BY <1>0, <2>1 DEF TileHere
  <2>3. TileFacts(S.mem, S.map, s, e, e + S.mem[<<s, e>>].length)
    BY <2>2, TileKnown
  <2>4. S.mem[n].length > 0 /\ S.mem[n].length \in 0 .. SUPERPAGE_LEN /\ e \in Nat
    BY <1>0, <2>1, <2>3, Lengths DEF TileFacts
  <2>5. S.mem[n].length \in Lens
    BY <2>4, Constants
  <2>6. n # h
    BY <1>4, <2>1, <2>4, <2>9
  <2>7. n \in FreeIn(S, O, S.mem[n].length)
    BY <1>0, <2>1 DEF FreeIn
  <2> QED BY <1>0, <2>1, <2>5, <2>6, <2>7
<1>7. Together(S.map, s, f, L, Gone)
  BY <1>2, ThreeTogether
<1>8. L \in Lens /\ f \in Gone /\ f \in SpPage
  <2> HIDE DEF L, f, Gone
  <2> QED BY <1>7 DEF Together
<1>9. Coalesce(S, h) = Merge(S2, h)
  BY DEF Coalesce
<1> HIDE DEF p, n, f, L
<1>10. Typed(S1) /\ SameData(S, S1) /\ Away(S, S1, O) /\ Lists(S1, O, {p} \ {NULL}, C)
  <2>1. CASE p = NULL
    <3>1. S1 = S /\ {p} \ {NULL} = {}
      BY <2>1
    <3>2. SameData(S, S) /\ Away(S, S, O)
      BY DEF SameData, Away
    <3> QED BY <3>1, <3>2
  <2>2. CASE p # NULL
    <3>1. S1 = UnlistFree(S, p) /\ {p} \ {NULL} = {} \cup {p}
      BY <2>2
    <3>2. /\ Typed(UnlistFree(S, p)) /\ SameData(S, UnlistFree(S, p)) /\ Away(S, UnlistFree(S, p), O)
          /\ Lists(UnlistFree(S, p), O, {} \cup {p}, C)
      BY <1>5, <2>2, UnlistFreeOK
    <3> QED BY <3>1, <3>2
  <2> QED BY <2>1, <2>2
<1>11. Typed(S2) /\ SameData(S, S2) /\ Away(S, S2, O) /\ Lists(S2, O, {p, n} \ {NULL}, C)
  <2> HIDE DEF S1
  <2>1. CASE n = NULL
    <3>1. S2 = S1 /\ {p, n} \ {NULL} = {p} \ {NULL}
      BY <2>1
    <3> QED BY <1>10, <3>1
  <2>2. CASE n # NULL
    <3>1. S2 = UnlistFree(S1, n) /\ {p, n} \ {NULL} = ({p} \ {NULL}) \cup {n}
      BY <2>2
    <3> DEFINE X == {p} \ {NULL}
               F == UnlistFree(S1, n)
    <3>2. n \notin X
      BY <1>5, <2>2
    <3>3. S1.mem[n].length = S.mem[n].length /\ FreeIn(S1, O, S.mem[n].length) = FreeIn(S, O, S.mem[n].length)
      BY <1>6, <1>10, <2>2, SameSets DEF SameData
    <3>4. Typed(S1) /\ Lists(S1, O, X, C) /\ S1.mem[n].length \in Lens
          /\ n \in FreeIn(S1, O, S1.mem[n].length)
      BY <1>6, <1>10, <2>2, <3>3
    <3> HIDE DEF X
    <3>5. Typed(F) /\ SameData(S1, F) /\ Away(S1, F, O) /\ Lists(F, O, X \cup {n}, C)
      BY <3>2, <3>4, UnlistFreeOK
    <3>6. SameData(S, F) /\ Away(S, F, O)
      BY <1>10, <3>5 DEF SameData, Away
    <3> QED BY <3>1, <3>5, <3>6 DEF X
  <2> QED BY <2>1, <2>2
<1> HIDE DEF S2
<1>12. /\ p = FreeBefore(S2, h) /\ n = FreeAfter(S2, h)
       /\ L = LenOf(S2, p) + LenOf(S2, h) + LenOf(S2, n)
  <2>1. p \in Ptr /\ n \in Ptr /\ h \in Ptr
    BY <1>0, <1>5, <1>6 DEF Ptr
  <2>2. LenOf(S2, p) = LenOf(S, p) /\ LenOf(S2, h) = LenOf(S, h) /\ LenOf(S2, n) = LenOf(S, n)
    BY <1>0, <1>11, <2>1, SameNeighbours
  <2>3. FreeBefore(S2, h) = FreeBefore(S, h) /\ FreeAfter(S2, h) = FreeAfter(S, h)
    BY <1>0, <1>11, SameNeighbours
  <2> QED BY <2>2, <2>3 DEF p, n, L
<1>13. Merge(S2, h) = LET J == Resize(S2, f, L)
                      IN IF L = SUPERPAGE_LEN THEN J ELSE Remapped(J, f)
  <2>1. f = First(p, h)
    BY DEF f
  <2> QED BY <1>7, <1>8, <1>11, <1>12, <2>1, MergeIs
<1>14. Together(S2.map, s, f, L, Gone)
  <2>1. S2.map = S.map
    BY <1>11 DEF SameData
  <2> QED BY <1>7, <2>1
<1>15. Gone \cap {q \in SpPage : S.mem[q].free} = {p, n} \ {NULL}
  BY <1>5, <1>6
<1> HIDE DEF Gone
<1>16. Coalesced(S, Coalesce(S, h), O, C, s, Gone, f, L)
  BY <1>7, <1>8, <1>9, <1>11, <1>13, <1>14, <1>15 DEF Coalesced
<1>17. h \in Gone /\ \A q \in Gone \ {h} : S.mem[q].free
  BY <1>0, <1>5, <1>6 DEF Gone
<1>18. f = First(FreeBefore(S, h), h)
  BY DEF f, p
<1> QED BY <1>16, <1>17, <1>18

----------------------------------------------------------------------------
BusyOf(S, s) == {q \in SpPage : q[1] = s /\ S.map[q] = q /\ ~S.mem[q].free}

\* No page block fills superpage s.
Short(S, s) == \A q \in SpPage : q[1] = s /\ S.map[q] = q => S.mem[q].length < SUPERPAGE_LEN

\* In superpage s the page blocks in use, but H, are what they were.
Kept(S, F, s, H) ==
  /\ Tiled(F.mem, F.map, s) /\ Short(F, s)
  /\ BusyOf(F, s) = BusyOf(S, s) \ H
  /\ \A q \in BusyOf(F, s) : SameHeader(S.mem, F.mem, q)

\* Elsewhere nothing changes but the pointers in superpages O.
Elsewhere(S, F, O, s) ==
  \A q \in SpPage : /\ q[1] \notin O => F.mem[q] = S.mem[q]
                    /\ q[1] # s => F.map[q] = S.map[q] /\ SameHeader(S.mem, F.mem, q)

LEMMA FreedKept ==
  ASSUME ConstantsOK, NEW S, Typed(S), NEW s \in Superpage, Tiled(S.mem, S.map, s), Short(S, s),
         NEW O, s \in O, NEW C, Lists(S, O, {}, C), NEW D, NEW Gone, NEW f, NEW L,
         Coalesced(S, D, O, C, s, Gone, f, L), L # SUPERPAGE_LEN,
         NEW h \in Gone, h \in BusyOf(S, s), h \notin C,
         \A q \in Gone \ {h} : S.mem[q].free
  PROVE  LET F == ListFree(FieldInit(D, f), f)
         IN Typed(F) /\ Lists(F, O, {}, C) /\ Kept(S, F, s, {h}) /\ Elsewhere(S, F, O, s)
<1> DEFINE Fr == {q \in SpPage : S.mem[q].free}
<1>1. PICK S2 : /\ Typed(S2) /\ SameData(S, S2) /\ Away(S, S2, O)
                /\ Lists(S2, O, Gone \cap Fr, C)
                /\ L \in Lens /\ f \in Gone /\ Together(S2.map, s, f, L, Gone)
                /\ D = LET J == Resize(S2, f, L)
                       IN IF L = SUPERPAGE_LEN THEN J ELSE Remapped(J, f)
  BY DEF Coalesced
<1>2. D = Remapped(Resize(S2, f, L), f)
  BY <1>1
<1>3. /\ S2.map = S.map /\ \A q \in SpPage : SameHeader(S.mem, S2.mem, q)
      /\ \A q \in SpPage : S2.mem[q].length = S.mem[q].length
  BY <1>1 DEF SameData, SameHeader
<1>4. Tiled(S2.mem, S2.map, s)
  BY <1>3, SameTiled
<1>5. Unified(S2, D, Gone, f, L)
  <2>1. Typed(S2) /\ Together(S2.map, s, f, L, Gone)
    BY <1>1
  <2>2. Unified(S2, Remapped(Resize(S2, f, L), f), Gone, f, L)
    BY <1>4, <2>1, UnifiedOK
  <2> QED BY <1>2, <2>2
<1>6. Gone \subseteq SpPage /\ f \in SpPage /\ f[1] = s /\ h \in SpPage /\ \A q \in Gone : q[1] = s
  BY <1>1 DEF Together
<1>7. C \subseteq {q \in SpPage : ~S.mem[q].free} /\ C \cap Gone = {}
  <2>1. \A q \in C : q \in SpPage /\ ~S.mem[q].free
    BY DEF Lists, SmallIn
  <2> QED BY <2>1
<1>8. Lists(D, O, {f}, C)
  <2>1. \A q \in Gone : S2.map[q] = q /\ S2.mem[q].free => q \in Gone \cap Fr
    BY <1>3, <1>6 DEF SameHeader
  <2>2. ((Gone \cap Fr) \ Gone) \cup {f} = {f}
    OBVIOUS
  <2> DEFINE X == Gone \cap Fr
  <2>3. Lists(S2, O, X, C) /\ \A q \in Gone : S2.map[q] = q /\ S2.mem[q].free => q \in X
    BY <1>1, <2>1
  <2>4. (X \ Gone) \cup {f} = {f}
    OBVIOUS
  <2> HIDE DEF X
  <2>5. Lists(D, O, (X \ Gone) \cup {f}, C)
    BY <1>1, <1>5, <1>7, <2>3, UnifiedLists
  <2> QED BY <2>4, <2>5
<1>25. Typed(D) /\ Tiled(D.mem, D.map, s)
  BY <1>5, <1>6 DEF Unified
<1>26. D.mem = [S2.mem EXCEPT ![f].length = L]
  BY <1>5 DEF Unified
<1>9. /\ \A q \in SpPage : D.map[q] = q <=> q = f \/ (S2.map[q] = q /\ q \notin Gone)
      /\ \A q \in SpPage : q[1] # s => D.map[q] = S2.map[q]
  BY <1>5, <1>6 DEF Unified
<1>10. D.mem[f].length = L /\ \A q \in SpPage : q # f => D.mem[q] = S2.mem[q]
  <2>1. S2.mem \in [SpPage -> Header] /\ L \in 0 .. SUPERPAGE_LEN
    BY <1>1, Constants DEF Typed
  <2>2. Lengthened(S2.mem, D.mem, f, L)
    BY <1>6, <1>26, <2>1, LengthSet
  <2> QED BY <2>2 DEF Lengthened
<1> DEFINE I == FieldInit(D, f)
<1>11. Changed(D, I, f) /\ I.mem[f].free
  BY <1>6, <1>25, FieldInitOK
<1> HIDE DEF I
<1>12. /\ Typed(I) /\ I.map = D.map /\ \A q \in SpPage : q # f => I.mem[q] = D.mem[q]
       /\ I.mem[f].length = L
  BY <1>10, <1>11 DEF Changed
<1>13. Lists(I, O, {f}, C)
  <2>1. f \notin C
    BY <1>1, <1>7
  <2>2. D.mem[f].free => f \in {f}
    OBVIOUS
  <2> QED BY <1>8, <1>11, <2>1, <2>2, ChangedLists
<1>14. f \in FreeIn(I, O, I.mem[f].length)
  BY <1>6, <1>9, <1>11, <1>12 DEF FreeIn
<1> DEFINE F == ListFree(I, f)
<1>15. Typed(F) /\ SameData(I, F) /\ Away(I, F, O) /\ Lists(F, O, {f} \ {f}, C)
  <2>1. I.mem[f].length \in Lens /\ f \in {f}
    BY <1>1, <1>12
  <2> DEFINE X == {f}
  <2>2. Lists(I, O, X, C) /\ f \in X /\ X \ {f} = {f} \ {f}
    BY <1>13
  <2> HIDE DEF X
  <2> QED BY <1>12, <1>14, <2>1, <2>2, ListFreeOK
<1>16. Lists(F, O, {}, C)
  <2>1. {f} \ {f} = {}
    OBVIOUS
  <2> QED BY <1>15, <2>1
<1> HIDE DEF F
<1>17. /\ F.map = D.map
       /\ \A q \in SpPage : q # f => SameHeader(S.mem, F.mem, q)
       /\ F.mem[f].length = L /\ F.mem[f].free
  BY <1>3, <1>6, <1>10, <1>11, <1>12, <1>15 DEF SameData, SameHeader
<1>18. Tiled(F.mem, F.map, s)
  <2>1. \A q \in SpPage : F.mem[q].length = D.mem[q].length
    BY <1>10, <1>12, <1>15 DEF SameData
  <2> QED BY <1>17, <1>25, <2>1, SameTiled
<1>19. \A q \in SpPage : F.map[q] = q <=> q = f \/ (S.map[q] = q /\ q \notin Gone)
  BY <1>3, <1>9, <1>17
<1>20. Short(F, s)
  <2>1. L < SUPERPAGE_LEN
    BY <1>1, Constants
  <2> QED BY <1>17, <1>19, <2>1 DEF Short, SameHeader
<1>21. BusyOf(F, s) = BusyOf(S, s) \ {h}
  <2>1. ASSUME NEW q \in SpPage PROVE q \in BusyOf(F, s) <=> q \in BusyOf(S, s) \ {h}
    <3>1. CASE q = f
      <4>1. q \notin BusyOf(F, s)
        BY <1>17, <3>1 DEF BusyOf
      <4>2. q # h => S.mem[q].free
        BY <1>1, <3>1
      <4> QED BY <4>1, <4>2 DEF BusyOf
    <3>2. CASE q # f
      <4>1. F.mem[q].free <=> S.mem[q].free
        BY <1>17, <3>2 DEF SameHeader
      <4>2. q \in Gone => q = h \/ S.mem[q].free
        OBVIOUS
      <4> QED BY <1>19, <3>2, <4>1, <4>2 DEF BusyOf
    <3> QED BY <3>1, <3>2
  <2> QED BY <2>1 DEF BusyOf
<1>22. \A q \in BusyOf(F, s) : SameHeader(S.mem, F.mem, q)
  BY <1>17 DEF BusyOf
<1>23. Kept(S, F, s, {h})
  BY <1>18, <1>20, <1>21, <1>22 DEF Kept
<1>24. Elsewhere(S, F, O, s)
  <2>1. ASSUME NEW q \in SpPage, q[1] \notin O PROVE F.mem[q] = S.mem[q]
    <3>1. q # f
      BY <1>6, <2>1
    <3> QED BY <1>1, <1>10, <1>12, <1>15, <2>1, <3>1 DEF Away
  <2>2. ASSUME NEW q \in SpPage, q[1] # s PROVE F.map[q] = S.map[q] /\ SameHeader(S.mem, F.mem, q)
    BY <1>3, <1>6, <1>9, <1>17, <2>2
  <2> QED BY <2>1, <2>2 DEF Elsewhere
<1> QED BY <1>15, <1>16, <1>23, <1>24 DEF F, I

FreedAll(S, F, O, C, s, h) ==
  /\ Typed(F) /\ Lists(F, O \ {s}, {}, C) /\ Elsewhere(S, F, O, s)
  /\ BusyOf(S, s) = {h} /\ \A q \in SpPage : q[1] = s => F.map[q] = NULL

LEMMA FreedFull ==
  ASSUME ConstantsOK, NEW S, Typed(S), NEW s \in Superpage, Tiled(S.mem, S.map, s),
         NEW O, s \in O, NEW C, Lists(S, O, {}, C), NEW D, NEW Gone, NEW f, NEW L,
         Coalesced(S, D, O, C, s, Gone, f, L), L = SUPERPAGE_LEN,
         NEW h \in Gone, h \in BusyOf(S, s), h \notin C,
         \A q \in Gone \ {h} : S.mem[q].free
  PROVE  FreedAll(S, [D EXCEPT !.map = SetRange(@, <<s, 1>>, SUPERPAGE_LEN, NULL)],
                  O, C, s, h)
<1> DEFINE Fr == {q \in SpPage : S.mem[q].free}
<1>1. PICK S2 : /\ Typed(S2) /\ SameData(S, S2) /\ Away(S, S2, O)
                /\ Lists(S2, O, Gone \cap Fr, C)
                /\ L \in Lens /\ f \in Gone /\ Together(S2.map, s, f, L, Gone)
                /\ D = LET J == Resize(S2, f, L)
                       IN IF L = SUPERPAGE_LEN THEN J ELSE Remapped(J, f)
  BY DEF Coalesced
<1>2. D = Resize(S2, f, L)
  BY <1>1
<1>3. /\ S2.map = S.map /\ \A q \in SpPage : SameHeader(S.mem, S2.mem, q)
      /\ \A q \in SpPage : S2.mem[q].length = S.mem[q].length
  BY <1>1 DEF SameData, SameHeader
<1>4. Tiled(S2.mem, S2.map, s)
  BY <1>3, SameTiled
<1>5. /\ Longer(S2, D, f, L)
      /\ \A q \in SpPage : q[1] = s /\ S2.map[q] = q => q \in Gone
  <2>1. Typed(S2) /\ Together(S2.map, s, f, L, Gone)
    BY <1>1
  <2>2. Longer(S2, Resize(S2, f, L), f, L)
    BY <1>4, <2>1, UnifiedOK
  <2>4. ASSUME NEW q \in SpPage, q[1] = s, S2.map[q] = q PROVE q \in Gone
    BY <1>4, <2>1, <2>4, UnifiedOK
  <2> QED BY <1>2, <2>2, <2>4
<1>17. Typed(D) /\ D.map = S2.map /\ D.free = S2.free /\ D.blk = S2.blk
  BY <1>5 DEF Longer
<1>6. Gone \subseteq SpPage /\ f \in SpPage /\ f[1] = s /\ h \in SpPage /\ \A q \in Gone : q[1] = s
  BY <1>1 DEF Together
<1>7. C \subseteq {q \in SpPage : ~S.mem[q].free} /\ C \cap Gone = {}
  <2>1. \A q \in C : q \in SpPage /\ ~S.mem[q].free
    BY DEF Lists, SmallIn
  <2> QED BY <2>1
<1>8. Lengthened(S2.mem, D.mem, f, L)
  BY <1>5 DEF Longer
<1> DEFINE map2 == SetRange(D.map, <<s, 1>>, SUPERPAGE_LEN, NULL)
           F == [D EXCEPT !.map = map2]
<1>9. /\ map2 \in [SpPage -> Ptr] /\ \A q \in SpPage : q[1] # s => map2[q] = S.map[q]
      /\ \A q \in SpPage : q[1] = s => map2[q] = NULL
  <2>1. D.map \in [SpPage -> Ptr] /\ 1 \in Lens /\ SUPERPAGE_LEN \in Nat /\ NULL \in Ptr
    BY <1>17, Constants DEF Typed, Ptr
  <2>2. Ranged(D.map, map2, s, 1, 1 + SUPERPAGE_LEN, NULL)
    BY <2>1, RangeSet
  <2> HIDE DEF map2
  <2>3. /\ map2 \in [SpPage -> Ptr] /\ \A p \in SpPage : p[1] # s => map2[p] = D.map[p]
        /\ \A i \in Lens : map2[<<s, i>>] = IF 1 <= i /\ i < 1 + SUPERPAGE_LEN THEN NULL ELSE D.map[<<s, i>>]
    BY <2>2 DEF Ranged
  <2>4. \A i \in Lens : 1 <= i /\ i < 1 + SUPERPAGE_LEN
    BY Constants
  <2>5. \A q \in SpPage : q = <<q[1], q[2]>> /\ q[2] \in Lens
    BY Constants
  <2> QED BY <1>3, <1>17, <2>3, <2>4, <2>5
<1> HIDE DEF map2
<1>10. F = [mem |-> D.mem, map |-> map2, free |-> D.free, blk |-> D.blk]
       /\ D.mem \in [SpPage -> Header] /\ D.free \in [Lens -> Ptr] /\ D.blk \in Ptr
  <2>1. Typed(D)
    BY <1>17
  <2> QED BY <2>1 DEF Typed
<1> HIDE DEF F
<1>11. Typed(F) /\ F.mem = D.mem /\ F.map = map2 /\ F.free = S2.free /\ F.blk = S2.blk
  BY <1>17, <1>9, <1>10 DEF Typed
<1>12. Lists(F, O \ {s}, {}, C)
  <2> DEFINE X == Gone \cap Fr
             O2 == O \ {s}
  <2>1. ASSUME NEW c \in Lens PROVE FreeIn(F, O2, c) \ {} = FreeIn(S2, O, c) \ X
    <3>1. ASSUME NEW q \in SpPage PROVE q \in FreeIn(F, O2, c) <=> q \in FreeIn(S2, O, c) \ X
      <4>1. CASE q[1] = s
        <5>1. q \notin FreeIn(F, O2, c)
          BY <4>1 DEF FreeIn
        <5>2. q \in FreeIn(S2, O, c) => q \in X
          BY <1>3, <1>5, <4>1 DEF FreeIn, SameHeader
        <5> QED BY <5>1, <5>2
      <4>2. CASE q[1] # s
        <5>1. q \notin X /\ q # f /\ F.map[q] = S2.map[q]
          BY <1>3, <1>6, <1>9, <1>11, <4>2
        <5>2. F.mem[q] = S2.mem[q]
          BY <1>8, <1>11, <5>1 DEF Lengthened
        <5> QED BY <4>2, <5>1, <5>2 DEF FreeIn
      <4> QED BY <4>1, <4>2
    <3> QED BY <3>1 DEF FreeIn
  <2>2. SameLinks(S2.mem, F.mem)
    BY <1>8, <1>11 DEF Lengthened, SameLinks
  <2>3. C \subseteq SmallIn(F, O2)
    <3>1. ASSUME NEW q \in C PROVE q \in SmallIn(F, O2)
      <4>1. q \in SmallIn(S2, O)
        BY <1>1 DEF Lists
      <4>2. q[1] # s
        BY <1>5, <1>7, <4>1 DEF SmallIn
      <4>3. q # f /\ F.map[q] = S2.map[q]
        BY <1>3, <1>6, <1>9, <1>11, <4>1, <4>2 DEF SmallIn
      <4>4. F.mem[q] = S2.mem[q]
        BY <1>8, <1>11, <4>1, <4>3 DEF Lengthened, SmallIn
      <4> QED BY <4>1, <4>2, <4>3, <4>4 DEF SmallIn
    <3> QED BY <3>1
  <2>4. Lists(S2, O, X, C)
    BY <1>1
  <2> HIDE DEF X, O2
  <2>5. Lists(F, O2, {}, C)
    BY <1>11, <2>1, <2>2, <2>3, <2>4, ListsMoved
  <2> QED BY <2>5 DEF O2
<1>13. BusyOf(S, s) = {h}
  <2>1. ASSUME NEW q \in BusyOf(S, s) PROVE q = h
    <3>1. q \in Gone
      BY <1>3, <1>5 DEF BusyOf
    <3> QED BY <3>1 DEF BusyOf
  <2> QED BY <2>1
<1>14. Elsewhere(S, F, O, s)
  <2>1. ASSUME NEW q \in SpPage, q[1] \notin O PROVE F.mem[q] = S.mem[q]
    <3>1. q # f
      BY <1>6, <2>1
    <3> QED BY <1>1, <1>8, <1>11, <2>1, <3>1 DEF Away, Lengthened
  <2>2. ASSUME NEW q \in SpPage, q[1] # s PROVE F.map[q] = S.map[q] /\ SameHeader(S.mem, F.mem, q)
    <3>1. q # f
      BY <1>6, <2>2
    <3>2. F.mem[q] = S2.mem[q]
      BY <1>8, <1>11, <3>1 DEF Lengthened
    <3> QED BY <1>3, <1>9, <1>11, <2>2, <3>2 DEF SameHeader
  <2> QED BY <2>1, <2>2 DEF Elsewhere
<1>15. \A q \in SpPage : q[1] = s => F.map[q] = NULL
  BY <1>9, <1>11
<1>16. FreedAll(S, F, O, C, s, h)
  BY <1>11, <1>12, <1>13, <1>14, <1>15 DEF FreedAll
<1> QED BY <1>16 DEF F, map2

----------------------------------------------------------------------------
(* The walk over the page blocks of a superpage.                           *)

IsWalk(m, s, n, f) ==
  f = [k \in 0 .. n |->
         IF k = 0 THEN 1
         ELSE LET i == f[k - 1] IN IF i \in Lens THEN i + m[<<s, i>>].length ELSE i]

LEMMA WalkExists ==
  ASSUME NEW m, NEW s, NEW N \in Nat
  PROVE  \E f : IsWalk(m, s, N, f)
<1> DEFINE Step(i) == IF i \in Lens THEN i + m[<<s, i>>].length ELSE i
           Path(f, n) == IsWalk(m, s, n, f)
           Bad == {n \in Nat : ~ \E f : Path(f, n)}
<1>0. \A f, n : Path(f, n) <=> f = [k \in 0 .. n |-> IF k = 0 THEN 1 ELSE Step(f[k - 1])]
  BY DEF IsWalk
<1> HIDE DEF Step, Path
<1> SUFFICES ASSUME Bad # {} PROVE FALSE
  BY DEF Path
<1>1. PICK n \in Bad : \A k \in Bad : n <= k
  <2>1. Bad \subseteq Nat
    OBVIOUS
  <2> HIDE DEF Bad
  <2> QED BY <2>1, Least
<1>2. n \in Nat /\ ~ \E f : Path(f, n)
  OBVIOUS
<1>3. n # 0
  <2> DEFINE f == [k \in 0 .. 0 |-> 1]
  <2>1. f = [k \in 0 .. 0 |-> IF k = 0 THEN 1 ELSE Step(f[k - 1])]
    OBVIOUS
  <2> HIDE DEF f
  <2> QED BY <1>0, <1>2, <2>1
<1>4. n - 1 \in Nat /\ n - 1 \notin Bad
  BY <1>1, <1>2, <1>3
<1>5. PICK f : Path(f, n - 1)
  BY <1>4
<1> DEFINE g == [k \in 0 .. n |-> IF k = n THEN Step(f[n - 1]) ELSE f[k]]
<1>6. ASSUME NEW k \in 0 .. n
      PROVE  g[k] = IF k = 0 THEN 1 ELSE Step(g[k - 1])
  <2>1. CASE k = n
    BY <1>2, <1>3, <1>4, <2>1
  <2>2. CASE k # n
    <3>1. k \in 0 .. n - 1
      BY <1>2, <2>2
    <3>2. f[k] = IF k = 0 THEN 1 ELSE Step(f[k - 1])
      BY <1>0, <1>5, <3>1
    <3>3. k # 0 => k - 1 \in 0 .. n /\ k - 1 # n
      BY <1>2, <3>1
    <3> QED BY <2>2, <3>2, <3>3
  <2> QED BY <2>1, <2>2
<1>7. g = [k \in 0 .. n |-> IF k = 0 THEN 1 ELSE Step(g[k - 1])]
  <2> DEFINE e == [k \in 0 .. n |-> IF k = 0 THEN 1 ELSE Step(g[k - 1])]
  <2>1. DOMAIN g = DOMAIN e /\ \A k \in 0 .. n : g[k] = e[k]
    BY <1>6
  <2>2. g = e
    BY <2>1
  <2> QED BY <2>2
<1> HIDE DEF g
<1> QED BY <1>0, <1>2, <1>7

\* From one page block to the next.
IsChain(m, s, P) ==
  /\ P[0] = 1
  /\ \A k \in 1 .. SUPERPAGE_LEN :
       P[k] = IF P[k - 1] \in Lens THEN P[k - 1] + m[<<s, P[k - 1]>>].length ELSE P[k - 1]

LEMMA WalkSteps ==
  ASSUME ConstantsOK, NEW m, NEW s
  PROVE  IsChain(m, s, Walk(m, s))
<1> DEFINE P == Walk(m, s)
<1>1. SUPERPAGE_LEN \in Nat
  BY DEF ConstantsOK
<1>2. \E f : IsWalk(m, s, SUPERPAGE_LEN, f)
  BY <1>1, WalkExists
<1>3. P = CHOOSE f : IsWalk(m, s, SUPERPAGE_LEN, f)
  BY DEF Walk, IsWalk
<1>4. IsWalk(m, s, SUPERPAGE_LEN, P)
  BY <1>2, <1>3
<1> HIDE DEF P
<1>5. ASSUME NEW k \in 0 .. SUPERPAGE_LEN
      PROVE  P[k] = IF k = 0 THEN 1
                    ELSE IF P[k - 1] \in Lens THEN P[k - 1] + m[<<s, P[k - 1]>>].length
                    ELSE P[k - 1]
  BY <1>4 DEF IsWalk
<1>6. P[0] = 1 /\ \A k \in 1 .. SUPERPAGE_LEN : k \in 0 .. SUPERPAGE_LEN /\ k # 0
  <2>1. 0 \in 0 .. SUPERPAGE_LEN
    BY <1>1
  <2>2. P[0] = 1
    BY <1>5, <2>1
  <2> QED BY <1>1, <2>2
<1>7. IsChain(m, s, P)
  BY <1>5, <1>6 DEF IsChain
<1> QED BY <1>7 DEF P

\* Where the walk is after k steps.
AtTile(map, s, k, i) ==
  /\ i \in Nat /\ k < i /\ i <= SUPERPAGE_LEN + 1
  /\ i <= SUPERPAGE_LEN => i \in Lens /\ map[<<s, i>>] = <<s, i>>

LEMMA WalkTiles ==
  ASSUME ConstantsOK, NEW m \in [SpPage -> Header], NEW map, NEW s \in Superpage,
         Tiled(m, map, s)
  PROVE  /\ Walk(m, s)[SUPERPAGE_LEN] = SUPERPAGE_LEN + 1
         /\ Chain(m, s) = {h \in SpPage : h[1] = s /\ map[h] = h}
<1> DEFINE P == Walk(m, s)
           N == SUPERPAGE_LEN
<1>1. IsChain(m, s, P)
  BY WalkSteps
<1> HIDE DEF P
<1>2. N \in Nat /\ N > 1 /\ Lens = 1 .. N
  BY DEF ConstantsOK, Lens
<1>3. AtTile(map, s, 0, P[0])
  <2>1. P[0] = 1 /\ 1 \in Lens
    BY <1>1, <1>2 DEF IsChain
  <2>2. map[<<s, 1>>] = <<s, 1>>
    <3> DEFINE one == 1
    <3> HIDE DEF one
    <3>0. \E j \in Lens : /\ j <= one /\ one < j + m[<<s, j>>].length
                          /\ map[<<s, one>>] = <<s, j>> /\ map[<<s, j>>] = <<s, j>>
                          /\ Tile(m, map, s, j)
      BY <2>1, TileOf DEF one
    <3>1. PICK j \in Lens : j <= 1 /\ map[<<s, 1>>] = <<s, j>>
      BY <3>0 DEF one
    <3>2. j = 1
      BY <1>2, <3>1
    <3> QED BY <3>1, <3>2
  <2> QED BY <1>2, <2>1, <2>2 DEF AtTile
<1>4. ASSUME NEW k \in 1 .. N, AtTile(map, s, k - 1, P[k - 1])
      PROVE  AtTile(map, s, k, P[k])
  <2> DEFINE i == P[k - 1]
             e == i + m[<<s, i>>].length
  <2>1. P[k] = IF i \in Lens THEN e ELSE i
    BY <1>1 DEF IsChain
  <2>2. i \in Nat /\ k - 1 < i /\ i <= N + 1
    BY <1>4 DEF AtTile
  <2>3. CASE i \in Lens
    <3>1. TileHere(m, map, s, i)
      BY <1>2, <1>4, <2>3 DEF AtTile, TileHere
    <3>2. TileFacts(m, map, s, i, e)
      BY <3>1, TileKnown
    <3>3. e \in Nat /\ i < e /\ e <= N + 1 /\ (e <= N => e \in Lens /\ map[<<s, e>>] = <<s, e>>)
      BY <3>2 DEF TileFacts
    <3>4. k < e
      BY <1>2, <2>2, <3>3
    <3>5. P[k] = e
      BY <2>1, <2>3
    <3> HIDE DEF e
    <3> QED BY <3>3, <3>4, <3>5 DEF AtTile
  <2>4. CASE i \notin Lens
    <3>1. i = N + 1 /\ P[k] = i
      BY <1>2, <2>1, <2>2, <2>4
    <3>2. k < N + 1
      BY <1>2
    <3> HIDE DEF i
    <3> QED BY <1>2, <3>1, <3>2 DEF AtTile
  <2> QED BY <2>3, <2>4
<1>5. ASSUME NEW k \in 0 .. N
      PROVE  AtTile(map, s, k, P[k])
  <2> DEFINE Bad == {i \in 0 .. N : ~AtTile(map, s, i, P[i])}
  <2> SUFFICES ASSUME Bad # {} PROVE FALSE
    OBVIOUS
  <2>1. PICK n \in Bad : \A i \in Bad : n <= i
    <3>1. Bad \subseteq Nat
      BY <1>2
    <3> HIDE DEF Bad
    <3> QED BY <3>1, Least
  <2>2. n \in 0 .. N /\ ~AtTile(map, s, n, P[n])
    OBVIOUS
  <2>3. n # 0
    BY <1>3, <2>2
  <2>4. n \in 1 .. N /\ n - 1 \in 0 .. N /\ n - 1 \notin Bad
    <3>1. n \in 1 .. N /\ n - 1 \in 0 .. N
      BY <1>2, <2>2, <2>3
    <3>2. ASSUME n - 1 \in Bad PROVE FALSE
      <4>1. n <= n - 1
        BY <2>1, <3>2
      <4> QED BY <3>1, <4>1
    <3> QED BY <3>1, <3>2
  <2>5. AtTile(map, s, n - 1, P[n - 1])
    BY <2>4
  <2> QED BY <1>4, <2>2, <2>4, <2>5
<1>6. P[N] = N + 1
  <2>1. AtTile(map, s, N, P[N])
    BY <1>2, <1>5
  <2> QED BY <1>2, <2>1 DEF AtTile
\* The walk does not step over a page block.
<1>7. ASSUME NEW j \in Lens, map[<<s, j>>] = <<s, j>>, \A k \in 0 .. N : P[k] # j
      PROVE  FALSE
  <2> DEFINE Bad == {i \in 0 .. N : ~(P[i] <= j)}
  <2>1. N \in Bad
    BY <1>2, <1>6
  <2>2. PICK n \in Bad : \A i \in Bad : n <= i
    <3>1. Bad \subseteq Nat
      BY <1>2
    <3> HIDE DEF Bad
    <3> QED BY <2>1, <3>1, Least
  <2>3. n \in 0 .. N /\ ~(P[n] <= j)
    OBVIOUS
  <2>4. n # 0
    BY <1>1, <1>2, <2>3 DEF IsChain
  <2>5. n \in 1 .. N /\ n - 1 \in 0 .. N /\ n - 1 \notin Bad
    <3>1. n \in 1 .. N /\ n - 1 \in 0 .. N
      BY <1>2, <2>3, <2>4
    <3>2. ASSUME n - 1 \in Bad PROVE FALSE
      <4>1. n <= n - 1
        BY <2>2, <3>2
      <4> QED BY <3>1, <4>1
    <3> QED BY <3>1, <3>2
  <2> DEFINE i == P[n - 1]
  <2>6. i <= j /\ i # j
    BY <1>7, <2>5
  <2>7. AtTile(map, s, n - 1, i)
    BY <1>5, <2>5
  <2>8. i \in Lens /\ map[<<s, i>>] = <<s, i>> /\ i < j
    BY <1>2, <2>6, <2>7 DEF AtTile
  <2>9. i + m[<<s, i>>].length <= j
    BY <2>8, <1>7, Adjacent
  <2>10. P[n] = i + m[<<s, i>>].length
    BY <1>1, <2>5, <2>8 DEF IsChain
  <2> QED BY <2>3, <2>9, <2>10
<1>8. Chain(m, s) = {<<s, P[k]>> : k \in 0 .. N} \cap SpPage
  BY DEF Chain, P
<1>9. ASSUME NEW h \in SpPage
      PROVE  h \in Chain(m, s) <=> h[1] = s /\ map[h] = h
  <2>1. h = <<h[1], h[2]>> /\ h[2] \in Lens
    BY Constants
  <2>2. ASSUME NEW k \in 0 .. N, h = <<s, P[k]>>
        PROVE  h[1] = s /\ map[h] = h
    <3>1. h[2] = P[k] /\ h[1] = s
      BY <2>2
    <3>2. AtTile(map, s, k, h[2])
      BY <1>5, <3>1
    <3>3. map[<<s, h[2]>>] = <<s, h[2]>>
      BY <1>2, <2>1, <3>2 DEF AtTile
    <3> QED BY <2>1, <3>1, <3>3
  <2>3. ASSUME h[1] = s, map[h] = h
        PROVE  \E k \in 0 .. N : h = <<s, P[k]>>
    <3>1. h = <<s, h[2]>>
      BY <2>1, <2>3
    <3>2. map[<<s, h[2]>>] = <<s, h[2]>>
      BY <2>3, <3>1
    <3>3. \E k \in 0 .. N : P[k] = h[2]
      BY <1>7, <2>1, <3>2
    <3> QED BY <3>1, <3>3
  <2> QED BY <1>8, <2>2, <2>3
<1>10. Chain(m, s) \subseteq SpPage
  BY DEF Chain
<1>11. Chain(m, s) = {h \in SpPage : h[1] = s /\ map[h] = h}
  BY <1>9, <1>10
<1> QED BY <1>6, <1>11 DEF P

----------------------------------------------------------------------------
(* The two outcomes of pb_free(h), with h in superpage s.                  *)

FreedSome(S, F, O, C, s, H) ==
  /\ Typed(F) /\ Lists(F, O, {}, C) /\ Kept(S, F, s, H) /\ Elsewhere(S, F, O, s)

LEMMA CoalescedLength ==
  ASSUME ConstantsOK, NEW S, NEW D, NEW s \in Superpage, NEW f, NEW L, NEW O, NEW C, NEW Gone,
         Typed(S), Tiled(S.mem, S.map, s), Coalesced(S, D, O, C, s, Gone, f, L)
  PROVE  L \in Lens /\ D.mem[f].length = L
<1>1. PICK S2 : /\ Typed(S2) /\ SameData(S, S2) /\ L \in Lens /\ f \in Gone
                /\ Together(S2.map, s, f, L, Gone)
                /\ D = LET J == Resize(S2, f, L)
                       IN IF L = SUPERPAGE_LEN THEN J ELSE Remapped(J, f)
  BY DEF Coalesced
<1>2. Typed(S2) /\ SameData(S, S2) /\ L \in Lens /\ Together(S2.map, s, f, L, Gone)
  BY <1>1
<1>3. Tiled(S2.mem, S2.map, s)
  BY <1>2, SameTiled DEF SameData
<1>4. Longer(S2, Resize(S2, f, L), f, L)
  BY <1>2, <1>3, UnifiedOK
<1> DEFINE J == Resize(S2, f, L)
<1>5. J.mem[f].length = L /\ Typed(J)
  BY <1>4 DEF Longer, Lengthened
<1>6. D = IF L = SUPERPAGE_LEN THEN J ELSE Remapped(J, f)
  BY <1>1
<1> HIDE DEF J
<1>7. Remapped(J, f).mem = J.mem
  <2>1. J = [mem |-> J.mem, map |-> J.map, free |-> J.free, blk |-> J.blk]
    BY <1>5 DEF Typed
  <2> DEFINE val == SetRange(J.map, f, J.mem[f].length, f)
  <2>2. Remapped(J, f) = [J EXCEPT !.map = val]
    BY DEF Remapped
  <2> HIDE DEF val
  <2> QED BY <2>1, <2>2
<1>8. D.mem = J.mem
  BY <1>6, <1>7
<1> QED BY <1>2, <1>5, <1>8

LEMMA FreedOK ==
  ASSUME ConstantsOK, NEW S, Typed(S), NEW s \in Superpage, Tiled(S.mem, S.map, s), Short(S, s),
         NEW O, s \in O, NEW C, Lists(S, O, {}, C), NEW h \in BusyOf(S, s), h \notin C
  PROVE  LET D == Coalesce(S, h)
             f == First(FreeBefore(S, h), h)
         IN /\ D.mem[f].length = SUPERPAGE_LEN =>
                 FreedAll(S, [D EXCEPT !.map = SetRange(@, <<s, 1>>, SUPERPAGE_LEN, NULL)],
                          O, C, s, h)
            /\ D.mem[f].length # SUPERPAGE_LEN =>
                 FreedSome(S, ListFree(FieldInit(D, f), f), O, C, s, {h})
<1> DEFINE D == Coalesce(S, h)
           f == First(FreeBefore(S, h), h)
           j == h[2]
<1>1. h \in SpPage /\ h[1] = s /\ S.map[h] = h /\ ~S.mem[h].free
  BY DEF BusyOf
<1>2. h = <<s, j>> /\ j \in Lens
  BY <1>1, Constants
<1>3. TileHere(S.mem, S.map, s, j)
  BY <1>1, <1>2 DEF TileHere, Typed
<1>4. \E L, Gone : /\ Coalesced(S, Coalesce(S, <<s, j>>), O, C, s, Gone,
                                First(FreeBefore(S, <<s, j>>), <<s, j>>), L)
                   /\ <<s, j>> \in Gone
                   /\ \A q \in Gone \ {<<s, j>>} : S.mem[q].free
  <2>1. ~S.mem[<<s, j>>].free
    BY <1>1, <1>2
  <2> HIDE DEF j
  <2> QED BY <1>3, <2>1, CoalesceOK
<1>5. PICK L, Gone : /\ Coalesced(S, D, O, C, s, Gone, f, L) /\ h \in Gone
                     /\ \A q \in Gone \ {h} : S.mem[q].free
  BY <1>2, <1>4
<1> HIDE DEF D, f, j
<1>6. L \in Lens /\ D.mem[f].length = L
  BY <1>5, CoalescedLength
<1>7. CASE L = SUPERPAGE_LEN
  <2>1. FreedAll(S, [D EXCEPT !.map = SetRange(@, <<s, 1>>, SUPERPAGE_LEN, NULL)], O, C, s, h)
    BY <1>5, <1>7, FreedFull
  <2> QED BY <1>6, <1>7, <2>1 DEF D, f
<1>8. CASE L # SUPERPAGE_LEN
  <2>1. FreedSome(S, ListFree(FieldInit(D, f), f), O, C, s, {h})
    BY <1>5, <1>8, FreedKept DEF FreedSome
  <2> QED BY <1>6, <1>8, <2>1 DEF D, f
<1> QED BY <1>7, <1>8

----------------------------------------------------------------------------
(* A page block in use becomes free and is joined to its neighbours, but   *)
(* no list is looked at.                                                   *)

Quiet(S, F, s) ==
  /\ Typed(F) /\ F.free = S.free /\ F.blk = S.blk /\ SameLinks(S.mem, F.mem)
  /\ \A q \in SpPage : q[1] # s => F.mem[q] = S.mem[q] /\ F.map[q] = S.map[q]

\* The page blocks in use, but H, are what they were.
Released(S, F, s, H) ==
  /\ Tiled(F.mem, F.map, s)
  /\ BusyOf(F, s) = BusyOf(S, s) \ H
  /\ \A q \in BusyOf(F, s) : SameHeader(S.mem, F.mem, q)

\* The first header says that all of the superpage is free.
Filled(F, s) == F.mem[<<s, 1>>].length = SUPERPAGE_LEN /\ F.mem[<<s, 1>>].free

\* From page b on nothing changes.
Behind(S, F, s, b) ==
  \A q \in SpPage : q[1] = s /\ q[2] >= b =>
    F.mem[q] = S.mem[q] /\ (F.map[q] = q <=> S.map[q] = q)

\* Free page block f ends before page b.
FrontAt(F, s, f, b) ==
  /\ f \in SpPage /\ f[1] = s /\ F.map[f] = f /\ F.mem[f].free
  /\ b \in Nat /\ f[2] < b /\ f[2] + F.mem[f].length = b

\* h is a page block of superpage s, free in S1, with its neighbours p and n
\* if they are free.
Joining(S, S1, s, h, p, n) ==
  /\ Typed(S) /\ s \in Superpage /\ Tiled(S.mem, S.map, s)
  /\ h \in SpPage /\ h[1] = s /\ S.map[h] = h
  /\ Changed(S, S1, h) /\ S1.mem[h].free
  /\ NextTo(S1, s, h[2], p, n)
  /\ p # NULL => S1.mem[p].free
  /\ n # NULL => S1.mem[n].free

SumLen(S1, p, h, n) == LenOf(S1, p) + LenOf(S1, h) + LenOf(S1, n)

LEMMA JoiningOK ==
  ASSUME ConstantsOK, NEW S, NEW S1, NEW s, NEW h, NEW p, NEW n, Joining(S, S1, s, h, p, n)
  PROVE  /\ Typed(S1) /\ Tiled(S1.mem, S1.map, s)
         /\ Together(S1.map, s, First(p, h), SumLen(S1, p, h, n), {p, h, n} \ {NULL})
         /\ First(p, h) \in SpPage /\ First(p, h)[1] = s
<1> DEFINE j == h[2]
           Gone == {p, h, n} \ {NULL}
<1>1. Typed(S1) /\ S1.map = S.map /\ \A q \in SpPage : S1.mem[q].length = S.mem[q].length
  BY DEF Joining, Changed
<1>2. Tiled(S1.mem, S1.map, s)
  BY <1>1, SameTiled DEF Joining
<1>3. h = <<s, j>> /\ j \in Lens
  BY Constants DEF Joining
<1>4. TileHere(S1.mem, S1.map, s, j)
  BY <1>1, <1>2, <1>3 DEF TileHere, Typed, Joining
<1>5. NextTo(S1, s, j, p, n)
  BY DEF Joining
<1> HIDE DEF j
<1>6. Together(S1.map, s, First(p, <<s, j>>),
               LenOf(S1, p) + LenOf(S1, <<s, j>>) + LenOf(S1, n), {p, <<s, j>>, n} \ {NULL})
  BY <1>1, <1>4, <1>5, ThreeTogether
<1>7. Together(S1.map, s, First(p, h), SumLen(S1, p, h, n), Gone)
  BY <1>3, <1>6 DEF SumLen
<1>8. First(p, h) \in SpPage /\ First(p, h)[1] = s
  BY <1>7 DEF Together
<1> QED BY <1>1, <1>2, <1>7, <1>8

LEMMA ReleasedOK ==
  ASSUME ConstantsOK, NEW S, NEW S1, NEW s, NEW h, NEW p, NEW n, Joining(S, S1, s, h, p, n),
         NEW f, f = First(p, h), NEW L, L = SumLen(S1, p, h, n)
  PROVE  LET F == Remapped(Resize(S1, f, L), f)
         IN /\ Quiet(S, F, s) /\ Released(S, F, s, {h})
            /\ Behind(S, F, s, f[2] + L) /\ FrontAt(F, s, f, f[2] + L)
            /\ f[2] <= h[2] /\ h[2] < f[2] + L /\ f[2] + L <= SUPERPAGE_LEN + 1
<1> DEFINE F == Remapped(Resize(S1, f, L), f)
           Gone == {p, h, n} \ {NULL}
           b == f[2] + L
<1>1. Typed(S1) /\ Tiled(S1.mem, S1.map, s) /\ Together(S1.map, s, f, L, Gone)
      /\ s \in Superpage
  BY JoiningOK DEF Joining
<1>2. Unified(S1, F, Gone, f, L) /\ f \in SpPage /\ L \in Lens
  <2> HIDE DEF Gone
  <2> QED BY <1>1, UnifiedOK
<1>3. /\ Changed(S, S1, h) /\ S1.mem[h].free /\ h \in SpPage /\ h[1] = s /\ S.map[h] = h
      /\ p # NULL => S1.mem[p].free
      /\ n # NULL => S1.mem[n].free
  BY DEF Joining
<1>4. /\ S1.map = S.map /\ S1.free = S.free /\ S1.blk = S.blk
      /\ \A q \in SpPage : q # h => S1.mem[q] = S.mem[q]
      /\ S1.mem[h].length = S.mem[h].length
      /\ S1.mem[h].next = S.mem[h].next /\ S1.mem[h].prev = S.mem[h].prev
  BY <1>3 DEF Changed
<1>5. \A q \in Gone : S1.mem[q].free
  BY <1>3
<1>6. f \in Gone /\ f[1] = s /\ f[2] \in Lens /\ h \in Gone /\ L \in Nat /\ L > 0
  <2>1. h # NULL
    BY <1>3, Constants
  <2>2. f \in Gone
    BY <1>2 DEF Unified
  <2>3. f[1] = s /\ f[2] \in Lens
    BY <1>1, <1>2, Constants DEF Together
  <2>4. L \in Nat /\ L > 0
    BY <1>2, Constants
  <2> QED BY <2>1, <2>2, <2>3, <2>4
<1>7. /\ b \in Nat /\ b <= SUPERPAGE_LEN + 1
      /\ \A q \in Gone : q \in SpPage /\ q[1] = s /\ S1.map[q] = q /\ f[2] <= q[2] /\ q[2] < b
  <2>1. PICK a \in Lens, e \in 1 .. SUPERPAGE_LEN + 1 :
          /\ f = <<s, a>> /\ e = a + L
          /\ \A q \in Gone : q \in SpPage /\ q[1] = s /\ S1.map[q] = q /\ a <= q[2] /\ q[2] < e
    BY <1>1 DEF Together
  <2>2. f[2] = a
    BY <2>1
  <2>3. e \in Nat /\ e <= SUPERPAGE_LEN + 1
    BY <2>1, Constants
  <2> QED BY <2>1, <2>2, <2>3
<1>8. Lengthened(S1.mem, F.mem, f, L)
  <2>1. F.mem = [S1.mem EXCEPT ![f].length = L]
    BY <1>2 DEF Unified
  <2>2. L \in 0 .. SUPERPAGE_LEN /\ S1.mem \in [SpPage -> Header]
    BY <1>1, <1>2, Constants DEF Typed
  <2> QED BY <1>2, <2>1, <2>2, LengthSet
<1> HIDE DEF F, Gone, b
<1>9. \A q \in SpPage : q[1] # s => F.mem[q] = S.mem[q] /\ F.map[q] = S.map[q]
  <2>1. ASSUME NEW q \in SpPage, q[1] # s PROVE F.mem[q] = S.mem[q] /\ F.map[q] = S.map[q]
    <3>1. q # f /\ q # h
      BY <1>3, <1>6, <2>1
    <3>2. F.mem[q] = S1.mem[q]
      BY <1>8, <3>1 DEF Lengthened
    <3>3. F.map[q] = S1.map[q]
      BY <1>2, <1>6, <2>1 DEF Unified
    <3> QED BY <1>4, <3>1, <3>2, <3>3
  <2> QED BY <2>1
<1>10. SameLinks(S.mem, F.mem)
  <2>1. ASSUME NEW q \in SpPage PROVE F.mem[q].next = S.mem[q].next /\ F.mem[q].prev = S.mem[q].prev
    <3>1. F.mem[q].next = S1.mem[q].next /\ F.mem[q].prev = S1.mem[q].prev
      BY <1>8 DEF Lengthened
    <3>2. S1.mem[q].next = S.mem[q].next /\ S1.mem[q].prev = S.mem[q].prev
      BY <1>4
    <3> QED BY <3>1, <3>2
  <2> QED BY <2>1 DEF SameLinks
<1>11. Quiet(S, F, s)
  BY <1>2, <1>4, <1>9, <1>10 DEF Quiet, Unified
\* Which page blocks there are.
<1>12. ASSUME NEW q \in SpPage
       PROVE  /\ F.map[q] = q <=> q = f \/ (S.map[q] = q /\ q \notin Gone)
              /\ q # f => F.mem[q] = S1.mem[q]
              /\ F.mem[q].free = S1.mem[q].free
  BY <1>2, <1>4, <1>8 DEF Unified, Lengthened
<1>13. BusyOf(F, s) = BusyOf(S, s) \ {h}
  <2>1. ASSUME NEW q \in SpPage PROVE q \in BusyOf(F, s) <=> q \in BusyOf(S, s) /\ q # h
    <3>1. CASE q \in Gone
      <4>1. F.mem[q].free
        BY <1>5, <1>12, <3>1
      <4>2. q = h \/ S.mem[q].free
        BY <1>4, <1>5, <3>1
      <4> QED BY <4>1, <4>2 DEF BusyOf
    <3>2. CASE q \notin Gone
      <4>1. q # f /\ q # h
        BY <1>6, <3>2
      <4>2. F.mem[q] = S.mem[q] /\ (F.map[q] = q <=> S.map[q] = q)
        BY <1>4, <1>12, <3>2, <4>1
      <4> QED BY <4>1, <4>2 DEF BusyOf
    <3> QED BY <3>1, <3>2
  <2> QED BY <2>1 DEF BusyOf
<1>14. \A q \in BusyOf(F, s) : SameHeader(S.mem, F.mem, q)
  <2>1. ASSUME NEW q \in BusyOf(F, s) PROVE SameHeader(S.mem, F.mem, q)
    <3>1. q \in SpPage /\ ~F.mem[q].free
      BY <2>1 DEF BusyOf
    <3>2. q \notin Gone
      BY <1>5, <1>12, <3>1
    <3>3. q # f /\ q # h
      BY <1>6, <3>2
    <3>4. F.mem[q] = S.mem[q]
      BY <1>4, <1>12, <3>1, <3>3
    <3> QED BY <3>4 DEF SameHeader
  <2> QED BY <2>1
<1>15. Released(S, F, s, {h})
  <2>1. Tiled(F.mem, F.map, s)
    BY <1>2, <1>6 DEF Unified
  <2> QED BY <1>13, <1>14, <2>1 DEF Released
<1>16. Behind(S, F, s, b)
  <2>1. ASSUME NEW q \in SpPage, q[1] = s, q[2] >= b
        PROVE  F.mem[q] = S.mem[q] /\ (F.map[q] = q <=> S.map[q] = q)
    <3>1. q[2] \in Nat
      BY Constants
    <3>2. ~(q[2] < b)
      BY <1>7, <2>1, <3>1
    <3>3. q \notin Gone
      BY <1>7, <3>2
    <3>4. q # f /\ q # h
      BY <1>6, <3>3
    <3> QED BY <1>4, <1>12, <3>3, <3>4
  <2> QED BY <2>1 DEF Behind
<1>17. FrontAt(F, s, f, b)
  <2>1. F.map[f] = f /\ F.mem[f].free /\ F.mem[f].length = L
    BY <1>2, <1>5, <1>6, <1>8, <1>12 DEF Lengthened
  <2>2. f[2] < b /\ f[2] + L = b
    BY <1>6, <1>7 DEF b
  <2> QED BY <1>2, <1>6, <1>7, <2>1, <2>2 DEF FrontAt
<1>18. f[2] <= h[2] /\ h[2] < b /\ b <= SUPERPAGE_LEN + 1
  BY <1>6, <1>7
<1> QED BY <1>11, <1>15, <1>16, <1>17, <1>18 DEF F, b

\* If all of the superpage is joined, the pagemap may as well be left alone.
LEMMA FilledOK ==
  ASSUME ConstantsOK, NEW S, NEW S1, NEW s, NEW h, NEW p, NEW n, Joining(S, S1, s, h, p, n),
         NEW f, f = First(p, h), NEW L, L = SumLen(S1, p, h, n), L = SUPERPAGE_LEN
  PROVE  LET F == Resize(S1, f, L)
         IN Quiet(S, F, s) /\ Filled(F, s) /\ BusyOf(S, s) \subseteq {h}
<1> DEFINE F == Resize(S1, f, L)
           Gone == {p, h, n} \ {NULL}
<1>1. Typed(S1) /\ Tiled(S1.mem, S1.map, s) /\ Together(S1.map, s, f, L, Gone)
      /\ s \in Superpage
  <2>1. /\ Typed(S1) /\ Tiled(S1.mem, S1.map, s)
        /\ Together(S1.map, s, First(p, h), SumLen(S1, p, h, n), Gone)
    BY JoiningOK
  <2>2. s \in Superpage
    BY DEF Joining
  <2> QED BY <2>1, <2>2
<1>2. /\ Longer(S1, F, f, L) /\ f \in SpPage /\ f \in Gone /\ L \in Lens
      /\ \A q \in SpPage : q[1] = s /\ S1.map[q] = q => q \in Gone
  <2>1. Longer(S1, F, f, L) /\ f \in SpPage /\ f \in Gone /\ L \in Lens
    <3> HIDE DEF Gone
    <3> QED BY <1>1, UnifiedOK
  <2>2. ASSUME NEW q \in SpPage, q[1] = s, S1.map[q] = q PROVE q \in Gone
    <3> HIDE DEF Gone
    <3> QED BY <1>1, <2>2, UnifiedOK
  <2> QED BY <2>1, <2>2
<1>3. /\ Changed(S, S1, h) /\ S1.mem[h].free /\ h \in SpPage /\ h[1] = s
      /\ p # NULL => S1.mem[p].free
      /\ n # NULL => S1.mem[n].free
  BY DEF Joining
<1>4. /\ S1.map = S.map /\ S1.free = S.free /\ S1.blk = S.blk
      /\ \A q \in SpPage : q # h => S1.mem[q] = S.mem[q]
      /\ S1.mem[h].next = S.mem[h].next /\ S1.mem[h].prev = S.mem[h].prev
  BY <1>3 DEF Changed
<1>5. \A q \in Gone : S1.mem[q].free
  BY <1>3
<1>6. /\ Typed(F) /\ F.map = S1.map /\ F.free = S1.free /\ F.blk = S1.blk
      /\ Lengthened(S1.mem, F.mem, f, L)
  BY <1>2 DEF Longer
<1>7. f = <<s, 1>>
  <2>1. PICK a \in Lens, e \in 1 .. SUPERPAGE_LEN + 1 : f = <<s, a>> /\ e = a + L
    BY <1>1 DEF Together
  <2>2. a = 1
    BY <2>1, Constants
  <2> QED BY <2>1, <2>2
<1> HIDE DEF F, Gone
<1>8. Filled(F, s)
  <2>1. F.mem[f].length = SUPERPAGE_LEN /\ F.mem[f].free
    BY <1>2, <1>5, <1>6 DEF Lengthened
  <2> QED BY <1>7, <2>1 DEF Filled
<1>9. BusyOf(S, s) \subseteq {h}
  <2>1. ASSUME NEW q \in BusyOf(S, s), q # h PROVE FALSE
    <3>1. q \in SpPage /\ q[1] = s /\ S.map[q] = q /\ ~S.mem[q].free
      BY <2>1 DEF BusyOf
    <3>2. q \in Gone
      BY <1>2, <1>4, <3>1
    <3> QED BY <1>4, <1>5, <2>1, <3>1, <3>2
  <2> QED BY <2>1
<1>10. SameLinks(S.mem, F.mem)
  <2>1. ASSUME NEW q \in SpPage PROVE F.mem[q].next = S.mem[q].next /\ F.mem[q].prev = S.mem[q].prev
    <3>1. F.mem[q].next = S1.mem[q].next /\ F.mem[q].prev = S1.mem[q].prev
      BY <1>6 DEF Lengthened
    <3>2. S1.mem[q].next = S.mem[q].next /\ S1.mem[q].prev = S.mem[q].prev
      BY <1>4
    <3> QED BY <3>1, <3>2
  <2> QED BY <2>1 DEF SameLinks
<1>11. \A q \in SpPage : q[1] # s => F.mem[q] = S.mem[q] /\ F.map[q] = S.map[q]
  <2>1. ASSUME NEW q \in SpPage, q[1] # s PROVE F.mem[q] = S.mem[q] /\ F.map[q] = S.map[q]
    <3>1. q # f /\ q # h
      BY <1>3, <1>7, <2>1
    <3> QED BY <1>4, <1>6, <3>1 DEF Lengthened
  <2> QED BY <2>1
<1> QED BY <1>4, <1>6, <1>8, <1>9, <1>10, <1>11 DEF Quiet, F

----------------------------------------------------------------------------
(* sph_get_remote_pbs                                                      *)

GotOf(S, F, s, H) ==
  /\ Quiet(S, F, s)
  /\ Released(S, F, s, H) \/ (Filled(F, s) /\ BusyOf(S, s) \subseteq H)

LEMMA QuietTwice ==
  ASSUME NEW S, NEW F, NEW G, NEW s, Quiet(S, F, s), Quiet(F, G, s)
  PROVE  Quiet(S, G, s)
<1>1. SameLinks(S.mem, G.mem)
  BY DEF Quiet, SameLinks
<1> QED BY <1>1 DEF Quiet

LEMMA ReleasedTwice ==
  ASSUME NEW S, NEW F, NEW G, NEW s, NEW H, NEW K, Released(S, F, s, H), Released(F, G, s, K)
  PROVE  Released(S, G, s, H \cup K)
<1>1. BusyOf(G, s) = BusyOf(S, s) \ (H \cup K)
  BY DEF Released
<1>2. ASSUME NEW q \in BusyOf(G, s) PROVE SameHeader(S.mem, G.mem, q)
  <2>1. q \in BusyOf(F, s) /\ SameHeader(F.mem, G.mem, q)
    BY DEF Released
  <2>2. SameHeader(S.mem, F.mem, q)
    BY <2>1 DEF Released
  <2> QED BY <2>1, <2>2 DEF SameHeader
<1> QED BY <1>1, <1>2 DEF Released

LEMMA NeighboursJoin ==
  ASSUME ConstantsOK, NEW S, Typed(S), NEW s \in Superpage, Tiled(S.mem, S.map, s),
         NEW h \in SpPage, h[1] = s, S.map[h] = h, NEW S1, Changed(S, S1, h), S1.mem[h].free
  PROVE  Joining(S, S1, s, h, FreeBefore(S1, h), FreeAfter(S1, h))
<1> DEFINE j == h[2]
           p == FreeBefore(S1, h)
           n == FreeAfter(S1, h)
           e == j + S1.mem[h].length
<1>1. Typed(S1) /\ S1.map = S.map /\ \A q \in SpPage : S1.mem[q].length = S.mem[q].length
  BY DEF Changed
<1>2. Tiled(S1.mem, S1.map, s)
  BY <1>1, SameTiled
<1>3. h = <<s, j>> /\ j \in Lens /\ S1.map[<<s, j>>] = <<s, j>>
  BY <1>1, Constants
<1>4. /\ p # NULL => \E i \in Lens : /\ p = <<s, i>> /\ i < j /\ i + S1.mem[p].length = j
                                     /\ S1.map[p] = p /\ S1.mem[p].free
      /\ n # NULL => e \in Lens /\ n = <<s, e>> /\ S1.map[n] = n /\ S1.mem[n].free
  <2> HIDE DEF j
  <2> QED BY <1>1, <1>2, <1>3, Neighbours
<1>5. e = j + S1.mem[<<s, j>>].length
  BY <1>3
<1> HIDE DEF p, n, e
<1>6. NextTo(S1, s, h[2], p, n)
  BY <1>4, <1>5 DEF NextTo
<1> QED BY <1>4, <1>6 DEF Joining, p, n

LEMMA GotOne ==
  ASSUME ConstantsOK, NEW S, Typed(S), NEW s \in Superpage, Tiled(S.mem, S.map, s),
         NEW h \in BusyOf(S, s)
  PROVE  GotOf(S, GetRemotePb(S, h), s, {h})
<1> DEFINE S1 == [S EXCEPT !.mem[h].free = TRUE]
           p == FreeBefore(S1, h)
           n == FreeAfter(S1, h)
           f == First(p, h)
           L == SumLen(S1, p, h, n)
<1>1. h \in SpPage /\ h[1] = s /\ S.map[h] = h
  BY DEF BusyOf
<1>2. Changed(S, S1, h) /\ S1.mem[h].free
  <2> DEFINE m2 == [S.mem EXCEPT ![h].free = TRUE]
  <2>1. S = [mem |-> S.mem, map |-> S.map, free |-> S.free, blk |-> S.blk]
        /\ S.mem \in [SpPage -> Header]
    BY DEF Typed
  <2>2. /\ m2 \in [SpPage -> Header] /\ m2[h].free
        /\ \A q \in SpPage : q # h => m2[q] = S.mem[q]
        /\ m2[h].length = S.mem[h].length
        /\ m2[h].next = S.mem[h].next /\ m2[h].prev = S.mem[h].prev
    BY <1>1, <2>1 DEF Header
  <2>3. S1 = [S EXCEPT !.mem = m2]
    OBVIOUS
  <2> HIDE DEF m2, S1
  <2>4. S1 = [mem |-> m2, map |-> S.map, free |-> S.free, blk |-> S.blk]
    BY <2>1, <2>3
  <2> QED BY <1>1, <2>2, <2>4 DEF Changed, Typed
<1>3. GetRemotePb(S, h) = Merge(S1, h)
  BY <1>1 DEF GetRemotePb
<1> HIDE DEF S1
<1>4. Joining(S, S1, s, h, p, n)
  BY <1>1, <1>2, NeighboursJoin
<1>5. /\ Typed(S1) /\ Tiled(S1.mem, S1.map, s)
      /\ Together(S1.map, s, f, L, {p, h, n} \ {NULL})
      /\ f \in SpPage
  BY <1>4, JoiningOK
<1>6. L \in Lens
  BY <1>5 DEF Together
<1>7. Merge(S1, h) = LET J == Resize(S1, f, L)
                     IN IF L = SUPERPAGE_LEN THEN J ELSE Remapped(J, f)
  <2>1. L = LenOf(S1, p) + LenOf(S1, h) + LenOf(S1, n)
    BY DEF SumLen
  <2> HIDE DEF L
  <2> QED BY <1>1, <1>5, <1>6, <2>1, MergeIs
<1> HIDE DEF p, n
<1>8. CASE L = SUPERPAGE_LEN
  <2>1. Merge(S1, h) = Resize(S1, f, L)
    BY <1>7, <1>8
  <2>2. /\ Quiet(S, Resize(S1, f, L), s) /\ Filled(Resize(S1, f, L), s)
        /\ BusyOf(S, s) \subseteq {h}
    BY <1>4, <1>8, FilledOK
  <2> QED BY <1>3, <2>1, <2>2 DEF GotOf
<1>9. CASE L # SUPERPAGE_LEN
  <2>1. Merge(S1, h) = Remapped(Resize(S1, f, L), f)
    BY <1>7, <1>9
  <2>2. /\ Quiet(S, Remapped(Resize(S1, f, L), f), s)
        /\ Released(S, Remapped(Resize(S1, f, L), f), s, {h})
    BY <1>4, ReleasedOK
  <2> QED BY <1>3, <2>1, <2>2 DEF GotOf
<1> QED BY <1>8, <1>9

IsGot(S, pbs, n, f) ==
  f = [k \in 0 .. n |-> IF k = 0 THEN S ELSE GetRemotePb(f[k - 1], pbs[k])]

LEMMA GotExists ==
  ASSUME NEW S, NEW pbs, NEW N \in Nat
  PROVE  \E f : IsGot(S, pbs, N, f)
<1> DEFINE Path(f, n) == IsGot(S, pbs, n, f)
           Bad == {n \in Nat : ~ \E f : Path(f, n)}
<1>0. \A f, n : Path(f, n) <=> f = [k \in 0 .. n |-> IF k = 0 THEN S ELSE GetRemotePb(f[k - 1], pbs[k])]
  BY DEF IsGot
<1> HIDE DEF Path
<1> SUFFICES ASSUME Bad # {} PROVE FALSE
  BY DEF Path
<1>1. PICK n \in Bad : \A k \in Bad : n <= k
  <2>1. Bad \subseteq Nat
    OBVIOUS
  <2> HIDE DEF Bad
  <2> QED BY <2>1, Least
<1>2. n \in Nat /\ ~ \E f : Path(f, n)
  OBVIOUS
<1>3. n # 0
  <2> DEFINE f == [k \in 0 .. 0 |-> S]
  <2>1. f = [k \in 0 .. 0 |-> IF k = 0 THEN S ELSE GetRemotePb(f[k - 1], pbs[k])]
    OBVIOUS
  <2> HIDE DEF f
  <2> QED BY <1>0, <1>2, <2>1
<1>4. n - 1 \in Nat /\ n - 1 \notin Bad
  BY <1>1, <1>2, <1>3
<1>5. PICK f : Path(f, n - 1)
  BY <1>4
<1> DEFINE g == [k \in 0 .. n |-> IF k = n THEN GetRemotePb(f[n - 1], pbs[n]) ELSE f[k]]
<1>6. ASSUME NEW k \in 0 .. n
      PROVE  g[k] = IF k = 0 THEN S ELSE GetRemotePb(g[k - 1], pbs[k])
  <2>1. CASE k = n
    BY <1>2, <1>3, <1>4, <2>1
  <2>2. CASE k # n
    <3>1. k \in 0 .. n - 1
      BY <1>2, <2>2
    <3>2. f[k] = IF k = 0 THEN S ELSE GetRemotePb(f[k - 1], pbs[k])
      BY <1>0, <1>5, <3>1
    <3>3. k # 0 => k - 1 \in 0 .. n /\ k - 1 # n
      BY <1>2, <3>1
    <3> QED BY <2>2, <3>2, <3>3
  <2> QED BY <2>1, <2>2
<1>7. g = [k \in 0 .. n |-> IF k = 0 THEN S ELSE GetRemotePb(g[k - 1], pbs[k])]
  <2> DEFINE e == [k \in 0 .. n |-> IF k = 0 THEN S ELSE GetRemotePb(g[k - 1], pbs[k])]
  <2>1. DOMAIN g = DOMAIN e /\ \A k \in 0 .. n : g[k] = e[k]
    BY <1>6
  <2>2. g = e
    BY <2>1
  <2> QED BY <2>2
<1> HIDE DEF g
<1> QED BY <1>0, <1>2, <1>7

\* The loop, one page block after the other.
GotSteps(S, pbs, f) ==
  /\ f[0] = S
  /\ \A k \in 1 .. Len(pbs) : f[k] = GetRemotePb(f[k - 1], pbs[k])

LEMMA GotLoop ==
  ASSUME NEW S, NEW pbs, Len(pbs) \in Nat
  PROVE  \E f : GotSteps(S, pbs, f) /\ GetRemotePbs(S, pbs) = f[Len(pbs)]
<1> DEFINE P == CHOOSE f : IsGot(S, pbs, Len(pbs), f)
           n == Len(pbs)
<1>1. GetRemotePbs(S, pbs) = P[n]
  BY DEF GetRemotePbs, IsGot
<1>2. IsGot(S, pbs, n, P)
  BY GotExists
<1> HIDE DEF P, n
<1>3. n \in Nat
  BY DEF n
<1>4. ASSUME NEW k \in 0 .. n
      PROVE  P[k] = IF k = 0 THEN S ELSE GetRemotePb(P[k - 1], pbs[k])
  BY <1>2 DEF IsGot
<1>5. P[0] = S
  <2>1. 0 \in 0 .. n
    BY <1>3
  <2> QED BY <1>4, <2>1
<1>6. ASSUME NEW k \in 1 .. n PROVE P[k] = GetRemotePb(P[k - 1], pbs[k])
  <2>1. k \in 0 .. n /\ k # 0
    BY <1>3
  <2> QED BY <1>4, <2>1
<1>7. GotSteps(S, pbs, P)
  BY <1>5, <1>6 DEF GotSteps, n
<1> QED BY <1>1, <1>7 DEF n

\* The first k page blocks of the list.
FirstOf(pbs, k) == {pbs[i] : i \in 1 .. k}

\* The list holds different page blocks of s in use.
RemoteOf(S, s, pbs) ==
  /\ pbs \in Seq(SpPage)
  /\ \A k \in 1 .. Len(pbs) : pbs[k] \in BusyOf(S, s)
  /\ \A k, j \in 1 .. Len(pbs) : pbs[k] = pbs[j] => k = j

LEMMA GotAll ==
  ASSUME ConstantsOK, NEW S, Typed(S), NEW s \in Superpage, Tiled(S.mem, S.map, s),
         NEW pbs, RemoteOf(S, s, pbs)
  PROVE  GotOf(S, GetRemotePbs(S, pbs), s, ToSet(pbs))
<1> DEFINE N == Len(pbs)
<1>1. N \in Nat /\ DOMAIN pbs = 1 .. N
  BY DEF RemoteOf
<1>2. PICK f : GotSteps(S, pbs, f) /\ GetRemotePbs(S, pbs) = f[N]
  BY <1>1, GotLoop
<1> HIDE DEF N
<1> DEFINE Good(k) == GotOf(S, f[k], s, FirstOf(pbs, k))
<1>3. Good(0)
  <2>1. FirstOf(pbs, 0) = {} /\ f[0] = S
    BY <1>2 DEF FirstOf, GotSteps
  <2>2. Quiet(S, S, s)
    BY DEF Quiet, SameLinks
  <2>3. Released(S, S, s, {})
    BY DEF Released, SameHeader
  <2> QED BY <2>1, <2>2, <2>3 DEF GotOf
<1>4. ASSUME NEW k \in 1 .. N, Good(k - 1) PROVE Good(k)
  <2> DEFINE h == pbs[k]
             F == f[k - 1]
             K == FirstOf(pbs, k - 1)
  <2>1. h \in BusyOf(S, s) /\ h \notin K
    <3>1. h \in BusyOf(S, s)
      BY <1>1 DEF RemoteOf, N
    <3>2. ASSUME NEW i \in 1 .. k - 1 PROVE pbs[i] # h
      <4>1. i \in 1 .. N /\ i # k
        BY <1>1
      <4> QED BY <4>1 DEF RemoteOf, N
    <3> QED BY <3>1, <3>2 DEF FirstOf
  <2>2. f[k] = GetRemotePb(F, h)
    BY <1>2 DEF GotSteps, N
  <2>3. FirstOf(pbs, k) = K \cup {h}
    <3>1. 1 .. k = (1 .. k - 1) \cup {k}
      BY <1>1
    <3> QED BY <3>1 DEF FirstOf
  <2> HIDE DEF F, h, K
  <2>4. GotOf(S, F, s, K)
    BY <1>4 DEF F, K
  <2>5. Quiet(S, F, s) /\ Released(S, F, s, K)
    BY <2>1, <2>4 DEF GotOf
  <2>6. Typed(F) /\ Tiled(F.mem, F.map, s) /\ h \in BusyOf(F, s) /\ BusyOf(F, s) = BusyOf(S, s) \ K
    BY <2>1, <2>5 DEF Quiet, Released
  <2> DEFINE G == GetRemotePb(F, h)
  <2>7. GotOf(F, G, s, {h})
    BY <2>6, GotOne
  <2> HIDE DEF G
  <2>8. Quiet(S, G, s)
    BY <2>5, <2>7, QuietTwice DEF GotOf
  <2>9. CASE Released(F, G, s, {h})
    <3>1. Released(S, G, s, K \cup {h})
      BY <2>5, <2>9, ReleasedTwice
    <3> QED BY <2>2, <2>3, <2>8, <3>1 DEF GotOf, G
  <2>10. CASE Filled(G, s) /\ BusyOf(F, s) \subseteq {h}
    <3>1. BusyOf(S, s) \subseteq K \cup {h}
      BY <2>6, <2>10
    <3> QED BY <2>2, <2>3, <2>8, <2>10, <3>1 DEF GotOf, G
  <2> QED BY <2>7, <2>9, <2>10 DEF GotOf
<1> HIDE DEF Good
<1>5. Good(N)
  <2> DEFINE Bad == {i \in 0 .. N : ~Good(i)}
  <2> SUFFICES ASSUME Bad # {} PROVE FALSE
    BY <1>1
  <2>1. PICK n \in Bad : \A i \in Bad : n <= i
    <3>1. Bad \subseteq Nat
      BY <1>1
    <3> HIDE DEF Bad
    <3> QED BY <3>1, Least
  <2>2. n \in 0 .. N /\ ~Good(n)
    OBVIOUS
  <2>3. n # 0
    BY <1>3, <2>2
  <2>4. n \in 1 .. N /\ n - 1 \in 0 .. N /\ n - 1 \notin Bad
    <3>1. n \in 1 .. N /\ n - 1 \in 0 .. N
      BY <1>1, <2>2, <2>3
    <3>2. ASSUME n - 1 \in Bad PROVE FALSE
      <4>1. n <= n - 1
        BY <2>1, <3>2
      <4> QED BY <3>1, <4>1
    <3> QED BY <3>1, <3>2
  <2>5. Good(n - 1)
    BY <2>4
  <2> QED BY <1>4, <2>2, <2>4, <2>5
<1>6. FirstOf(pbs, N) = ToSet(pbs)
  BY <1>1 DEF FirstOf, ToSet
<1> QED BY <1>2, <1>5, <1>6 DEF Good

LEMMA Upto ==
  ASSUME NEW N \in Nat, NEW G, 0 \in G, \A k \in 1 .. N : k - 1 \in G => k \in G
  PROVE  \A k \in 0 .. N : k \in G
<1> DEFINE Bad == {i \in 0 .. N : i \notin G}
<1> SUFFICES ASSUME Bad # {} PROVE FALSE
  OBVIOUS
<1>1. PICK n \in Bad : \A i \in Bad : n <= i
  <2>1. Bad \subseteq Nat
    OBVIOUS
  <2> HIDE DEF Bad
  <2> QED BY <2>1, Least
<1>2. n \in 1 .. N /\ n - 1 \in 0 .. N
  OBVIOUS
<1>3. ASSUME n - 1 \in Bad PROVE FALSE
  <2>1. n <= n - 1
    BY <1>1, <1>3
  <2> QED BY <1>2, <2>1
<1> QED BY <1>1, <1>2, <1>3

----------------------------------------------------------------------------
(* take_superpage: the page blocks of superpage s go on the lists of the   *)
(* thread whose superpages are O.                                          *)

\* The headers of s behind page i.
After(s, i) == {q \in SpPage : q[1] = s /\ q[2] > i}

\* The small page blocks in use up to page i of s.
SmallUp(S, s, i) ==
  {q \in BusyOf(S, s) : q[2] <= i /\ ~S.mem[q].whole /\ ~S.mem[q].large}

\* Up to page i of s the whole page blocks are free, the rest is the same.
TakenData(S, F, O, s, i) ==
  /\ Typed(F) /\ F.map = S.map
  /\ \A q \in SpPage : /\ F.mem[q].length = S.mem[q].length
                       /\ q[1] # s => SameHeader(S.mem, F.mem, q)
                       /\ q[1] \notin O \cup {s} => F.mem[q] = S.mem[q]
  /\ \A q \in SpPage : q[1] = s /\ S.map[q] = q =>
       IF q[2] <= i /\ ~S.mem[q].free /\ S.mem[q].whole THEN F.mem[q].free
       ELSE SameHeader(S.mem, F.mem, q)

TakenAt(S, F, O, C, s, i) ==
  /\ TakenData(S, F, O, s, i)
  /\ Lists(F, O \cup {s}, After(s, i), C \cup SmallUp(S, s, i))

\* What an adopter finds.
Orphan(S, O, C, s) ==
  /\ Typed(S) /\ s \in Superpage \ O /\ Tiled(S.mem, S.map, s)
  /\ Lists(S, O, {}, C)

LEMMA TakenFirst ==
  ASSUME ConstantsOK, NEW S, NEW O, NEW C, NEW s, Orphan(S, O, C, s)
  PROVE  TakenAt(S, S, O, C, s, 0)
<1>1. Typed(S) /\ s \in Superpage \ O /\ Lists(S, O, {}, C)
  BY DEF Orphan
<1>2. \A q \in SpPage : q[2] \in Nat /\ q[2] > 0
  BY Constants
<1>3. SmallUp(S, s, 0) = {}
  <2>1. ASSUME NEW q \in BusyOf(S, s), q[2] <= 0 PROVE FALSE
    BY <1>2, <2>1 DEF BusyOf
  <2> QED BY <2>1 DEF SmallUp
<1>4. ASSUME NEW c \in Lens
      PROVE  FreeIn(S, O \cup {s}, c) \ After(s, 0) = FreeIn(S, O, c) \ {}
  BY <1>1, <1>2 DEF FreeIn, After
<1>5. C \subseteq SmallIn(S, O \cup {s})
  BY <1>1 DEF Lists, SmallIn
<1> DEFINE O2 == O \cup {s}
           X2 == After(s, 0)
<1>6. Lists(S, O2, X2, C)
  <2>1. SameLinks(S.mem, S.mem)
    BY DEF SameLinks
  <2>2. \A c \in Lens : FreeIn(S, O2, c) \ X2 = FreeIn(S, O, c) \ {}
    BY <1>4
  <2>3. C \subseteq SmallIn(S, O2)
    BY <1>5
  <2> HIDE DEF O2, X2
  <2> QED BY <1>1, <2>1, <2>2, <2>3, ListsMoved
<1>7. TakenData(S, S, O, s, 0)
  <2>1. ASSUME NEW q \in SpPage PROVE ~(q[2] <= 0)
    BY <1>2
  <2> QED BY <1>1, <2>1 DEF TakenData, SameHeader
<1>8. C \cup SmallUp(S, s, 0) = C
  BY <1>3
<1> QED BY <1>6, <1>7, <1>8 DEF TakenAt

\* One page block.
LEMMA TakenTile ==
  ASSUME ConstantsOK, NEW S, NEW F, NEW O, NEW C, NEW s, Orphan(S, O, C, s),
         NEW i \in Lens, TakenAt(S, F, O, C, s, i - 1), S.map[<<s, i>>] = <<s, i>>
  PROVE  TakenAt(S, Adopted(F, <<s, i>>), O, C, s, i)
<1> DEFINE h == <<s, i>>
           O2 == O \cup {s}
           X == After(s, i - 1)
           K == C \cup SmallUp(S, s, i - 1)
           G == Adopted(F, h)
<1>1. Typed(S) /\ s \in Superpage /\ s \notin O /\ Tiled(S.mem, S.map, s) /\ C \subseteq SmallIn(S, O)
  BY DEF Orphan, Lists
<1>2. h \in SpPage /\ h[1] = s /\ h[2] = i /\ i \in Nat /\ \A q \in SpPage : q[2] \in Nat /\ q = <<q[1], q[2]>>
  BY <1>1, Constants
<1>3. Lists(F, O2, X, K) /\ TakenData(S, F, O, s, i - 1)
  BY DEF TakenAt
<1>4. Typed(F) /\ F.map = S.map /\ SameHeader(S.mem, F.mem, h)
  <2>1. ~(h[2] <= i - 1)
    BY <1>2
  <2>2. S.map[h] = h
    OBVIOUS
  <2> HIDE DEF h
  <2> QED BY <1>2, <1>3, <2>1, <2>2 DEF TakenData
<1>5. h \in X /\ h \notin K /\ X \ {h} = After(s, i)
  <2>1. h \in X
    BY <1>2 DEF After
  <2>2. h \notin K
    BY <1>1, <1>2 DEF SmallUp, SmallIn
  <2>3. ASSUME NEW q \in SpPage PROVE q \in X \ {h} <=> q \in After(s, i)
    <3>1. q[2] > i - 1 /\ q[2] # i <=> q[2] > i
      BY <1>2
    <3>2. q[1] = s => (q = h <=> q[2] = i)
      BY <1>2
    <3> QED BY <3>1, <3>2 DEF After
  <2> QED BY <2>1, <2>2, <2>3 DEF After
<1>7. S.mem[h].length \in Lens
  <2>1. Tile(S.mem, S.map, s, i)
    BY <1>1, TileEnd DEF Typed
  <2>2. S.mem[<<s, i>>].length \in 0 .. SUPERPAGE_LEN /\ S.mem[<<s, i>>].length > 0
    BY <1>1, <2>1, Lengths DEF Typed, Tile
  <2> QED BY <2>2, Constants
<1>8. SmallUp(S, s, i) =
        SmallUp(S, s, i - 1) \cup
          (IF ~S.mem[h].free /\ ~S.mem[h].whole /\ ~S.mem[h].large THEN {h} ELSE {})
  <2>1. ASSUME NEW q \in BusyOf(S, s)
        PROVE  /\ q[2] <= i <=> q[2] <= i - 1 \/ q = h
               /\ q \in SpPage
    <3>1. q \in SpPage /\ q[1] = s
      BY DEF BusyOf
    <3>2. q[2] \in Nat /\ (q = h <=> q[2] = i)
      BY <1>2, <3>1
    <3> QED BY <1>2, <3>1, <3>2
  <2>2. h \in BusyOf(S, s) <=> ~S.mem[h].free
    BY <1>2 DEF BusyOf
  <2>3. S.map[h] = h
    OBVIOUS
  <2> HIDE DEF h
  <2> QED BY <2>1, <2>2, <2>3 DEF SmallUp
<1> DEFINE K2 == C \cup SmallUp(S, s, i)
<1> HIDE DEF X, K, G
\* The data, by what the new heap has in the place of h.
<1>9. ASSUME NEW D, Typed(D), D.map = S.map,
             \A q \in SpPage : q # h => SameHeader(F.mem, D.mem, q),
             \A q \in SpPage : q[1] \notin O2 => D.mem[q] = F.mem[q],
             D.mem[h].length = S.mem[h].length,
             IF ~S.mem[h].free /\ S.mem[h].whole THEN D.mem[h].free
             ELSE SameHeader(S.mem, D.mem, h)
      PROVE  TakenData(S, D, O, s, i)
  <2>1. ASSUME NEW q \in SpPage
        PROVE  /\ D.mem[q].length = S.mem[q].length
               /\ q[1] # s => SameHeader(S.mem, D.mem, q)
               /\ q[1] \notin O \cup {s} => D.mem[q] = S.mem[q]
    <3>1. q # h => SameHeader(F.mem, D.mem, q)
      BY <1>9
    <3>2. /\ F.mem[q].length = S.mem[q].length
          /\ q[1] # s => SameHeader(S.mem, F.mem, q)
          /\ q[1] \notin O \cup {s} => F.mem[q] = S.mem[q]
      BY <1>3 DEF TakenData
    <3> QED BY <1>2, <1>9, <3>1, <3>2 DEF SameHeader
  <2>2. ASSUME NEW q \in SpPage, q[1] = s, S.map[q] = q
        PROVE  IF q[2] <= i /\ ~S.mem[q].free /\ S.mem[q].whole THEN D.mem[q].free
               ELSE SameHeader(S.mem, D.mem, q)
    <3>1. CASE q = h
      BY <1>2, <1>9, <3>1
    <3>2. CASE q # h
      <4>1. q[2] <= i <=> q[2] <= i - 1
        <5>1. q[2] # i
          BY <1>2, <2>2, <3>2
        <5> QED BY <1>2, <5>1
      <4>2. SameHeader(F.mem, D.mem, q)
        BY <1>9, <3>2
      <4>3. IF q[2] <= i - 1 /\ ~S.mem[q].free /\ S.mem[q].whole THEN F.mem[q].free
            ELSE SameHeader(S.mem, F.mem, q)
        BY <1>3, <2>2 DEF TakenData
      <4> QED BY <4>1, <4>2, <4>3 DEF SameHeader
    <3> QED BY <3>1, <3>2
  <2> QED BY <1>9, <2>1, <2>2 DEF TakenData
<1>10. CASE F.mem[h].free
  <2>1. G = ListFree(F, h)
    BY <1>10 DEF G, Adopted
  <2>2. h \in FreeIn(F, O2, F.mem[h].length) /\ F.mem[h].length \in Lens
    BY <1>2, <1>4, <1>7, <1>10 DEF FreeIn, SameHeader
  <2>3. Typed(G) /\ SameData(F, G) /\ Away(F, G, O2) /\ Lists(G, O2, X \ {h}, K)
    <3> HIDE DEF O2, h
    <3> QED BY <1>3, <1>4, <1>5, <2>1, <2>2, ListFreeOK
  <2>4. K2 = K
    BY <1>4, <1>8, <1>10 DEF K, SameHeader
  <2>5. TakenData(S, G, O, s, i)
    <3>1. \A q \in SpPage : SameHeader(F.mem, G.mem, q)
      BY <2>3 DEF SameData, SameHeader
    <3>2. \A q \in SpPage : q[1] \notin O2 => G.mem[q] = F.mem[q]
      BY <2>3 DEF Away
    <3>3. SameHeader(S.mem, G.mem, h) /\ G.mem[h].length = S.mem[h].length /\ S.mem[h].free
      BY <1>2, <1>4, <1>10, <3>1 DEF SameHeader
    <3>4. G.map = S.map
      BY <1>4, <2>3 DEF SameData
    <3> QED BY <1>9, <2>3, <3>1, <3>2, <3>3, <3>4
  <2> QED BY <1>5, <2>3, <2>4, <2>5 DEF TakenAt, G
<1>11. CASE ~F.mem[h].free /\ F.mem[h].whole
  <2> DEFINE D == FieldInit(F, h)
  <2>1. G = ListFree(D, h)
    BY <1>11 DEF G, Adopted
  <2>2. Changed(F, D, h) /\ D.mem[h].free /\ Typed(D)
    <3>1. Changed(F, D, h) /\ D.mem[h].free
      BY <1>2, <1>4, FieldInitOK
    <3> QED BY ONLY <3>1 DEF Changed
  <2> HIDE DEF D
  <2>3. Lists(D, O2, X, K)
    <3> HIDE DEF O2, h
    <3> QED BY <1>3, <1>5, <2>2, ChangedLists
  <2>4. h \in FreeIn(D, O2, D.mem[h].length) /\ D.mem[h].length \in Lens
    BY <1>2, <1>4, <1>7, <2>2 DEF FreeIn, SameHeader, Changed
  <2>5. Typed(G) /\ SameData(D, G) /\ Away(D, G, O2) /\ Lists(G, O2, X \ {h}, K)
    <3> HIDE DEF O2, h
    <3> QED BY <1>5, <2>1, <2>2, <2>3, <2>4, ListFreeOK
  <2>6. K2 = K
    BY <1>4, <1>8, <1>11 DEF K, SameHeader
  <2>7. TakenData(S, G, O, s, i)
    <3>1. \A q \in SpPage : q # h => SameHeader(F.mem, G.mem, q)
      BY <2>2, <2>5 DEF SameData, SameHeader, Changed
    <3>2. \A q \in SpPage : q[1] \notin O2 => G.mem[q] = F.mem[q]
      <4>1. ASSUME NEW q \in SpPage, q[1] \notin O2 PROVE G.mem[q] = F.mem[q]
        <5>1. q # h
          BY <1>2, <4>1
        <5> HIDE DEF O2, h
        <5> QED BY <2>2, <2>5, <4>1, <5>1 DEF Away, Changed
      <4> QED BY <4>1
    <3>3. G.mem[h].length = S.mem[h].length /\ G.mem[h].free /\ ~S.mem[h].free /\ S.mem[h].whole
      BY <1>2, <1>4, <1>11, <2>2, <2>5 DEF SameHeader, SameData, Changed
    <3>4. G.map = S.map
      BY <1>4, <2>2, <2>5 DEF SameData, Changed
    <3> QED BY <1>9, <2>5, <3>1, <3>2, <3>3, <3>4
  <2> QED BY <1>5, <2>5, <2>6, <2>7 DEF TakenAt, G
<1>12. ASSUME NEW D, NEW J, Lists(D, O2, X, J), ~D.mem[h].free
       PROVE  Lists(D, O2, After(s, i), J)
  <2>1. ASSUME NEW c \in Lens PROVE FreeIn(D, O2, c) \ After(s, i) = FreeIn(D, O2, c) \ X
    <3>1. h \notin FreeIn(D, O2, c)
      BY <1>12 DEF FreeIn
    <3> QED BY <1>5, <3>1
  <2>2. SameLinks(D.mem, D.mem)
    BY DEF SameLinks
  <2>3. J \subseteq SmallIn(D, O2)
    BY <1>12 DEF Lists
  <2> HIDE DEF O2
  <2> DEFINE X2 == After(s, i)
  <2>4. \A c \in Lens : FreeIn(D, O2, c) \ X2 = FreeIn(D, O2, c) \ X
    BY <2>1
  <2> HIDE DEF X2
  <2>5. Lists(D, O2, X2, J)
    BY <1>12, <2>2, <2>3, <2>4, ListsMoved
  <2> QED BY <2>5 DEF X2
<1>13. CASE ~F.mem[h].free /\ ~F.mem[h].whole /\ F.mem[h].large
  <2>1. G = F
    BY <1>13 DEF G, Adopted
  <2>2. K2 = K
    BY <1>4, <1>8, <1>13 DEF K, SameHeader
  <2>3. Lists(G, O2, After(s, i), K)
    BY <1>3, <1>12, <1>13, <2>1
  <2>4. TakenData(S, G, O, s, i)
    <3>1. \A q \in SpPage : SameHeader(F.mem, F.mem, q)
      BY DEF SameHeader
    <3>2. SameHeader(S.mem, F.mem, h) /\ F.mem[h].length = S.mem[h].length /\ ~S.mem[h].whole
      BY <1>2, <1>4, <1>13 DEF SameHeader
    <3> QED BY <1>4, <1>9, <2>1, <3>1, <3>2
  <2> QED BY <2>2, <2>3, <2>4 DEF TakenAt, G
<1>14. CASE ~F.mem[h].free /\ ~F.mem[h].whole /\ ~F.mem[h].large
  <2>1. G = ListSmall(F, h)
    BY <1>14 DEF G, Adopted
  <2>2. h \in SmallIn(F, O2) \ K
    BY <1>2, <1>4, <1>5, <1>14 DEF SmallIn
  <2>3. [ListSmall(F, h) EXCEPT !.blk = h] = ListSmall(F, h)
    <3>1. F = [mem |-> F.mem, map |-> F.map, free |-> F.free, blk |-> F.blk]
      BY <1>4 DEF Typed
    <3> DEFINE m2 == Insert(F.mem, F.blk, h)
    <3>2. ListSmall(F, h) = [mem |-> m2, map |-> F.map, free |-> F.free, blk |-> h]
      <4>1. ListSmall(F, h) = [F EXCEPT !.mem = m2, !.blk = h]
        BY DEF ListSmall
      <4> HIDE DEF m2
      <4> QED BY <3>1, <4>1
    <3> HIDE DEF m2
    <3> QED BY <3>2
  <2>4. Typed(G) /\ SameData(F, G) /\ Away(F, G, O2) /\ Lists(G, O2, X, K \cup {h})
    <3> DEFINE top == h
    <3>1. top = h
      OBVIOUS
    <3>2. G = [ListSmall(F, h) EXCEPT !.blk = top]
      BY <2>1, <2>3
    <3> HIDE DEF O2, h, top
    <3> QED BY <1>3, <1>4, <2>2, <3>1, <3>2, ListSmallOK
  <2>5. K2 = K \cup {h}
    BY <1>4, <1>8, <1>14 DEF K, SameHeader
  <2>6. ~G.mem[h].free
    BY <1>2, <1>14, <2>4 DEF SameData
  <2>7. Lists(G, O2, After(s, i), K2)
    BY <1>12, <2>4, <2>5, <2>6
  <2>8. TakenData(S, G, O, s, i)
    <3>1. \A q \in SpPage : SameHeader(F.mem, G.mem, q)
      BY <2>4 DEF SameData, SameHeader
    <3>2. \A q \in SpPage : q[1] \notin O2 => G.mem[q] = F.mem[q]
      BY <2>4 DEF Away
    <3>3. SameHeader(S.mem, G.mem, h) /\ G.mem[h].length = S.mem[h].length /\ ~S.mem[h].whole
      BY <1>2, <1>4, <1>14, <3>1 DEF SameHeader
    <3>4. G.map = S.map
      BY <1>4, <2>4 DEF SameData
    <3> QED BY <1>9, <2>4, <3>1, <3>2, <3>3, <3>4
  <2> QED BY <2>7, <2>8 DEF TakenAt, G
<1> QED BY <1>10, <1>11, <1>13, <1>14

\* Where no page block starts nothing happens.
LEMMA TakenElse ==
  ASSUME ConstantsOK, NEW S, NEW F, NEW O, NEW C, NEW s, Orphan(S, O, C, s),
         NEW i \in Lens, TakenAt(S, F, O, C, s, i - 1), S.map[<<s, i>>] # <<s, i>>
  PROVE  TakenAt(S, F, O, C, s, i)
<1> DEFINE O2 == O \cup {s}
           X == After(s, i - 1)
           X2 == After(s, i)
           K == C \cup SmallUp(S, s, i - 1)
<1>1. Lists(F, O2, X, K) /\ TakenData(S, F, O, s, i - 1) /\ i \in Nat
  BY Constants DEF TakenAt
<1>2. ASSUME NEW q \in SpPage, q[1] = s, S.map[q] = q
      PROVE  (q[2] <= i <=> q[2] <= i - 1) /\ (q[2] > i <=> q[2] > i - 1)
  <2>1. q = <<s, q[2]>> /\ q[2] \in Nat
    BY <1>2, Constants
  <2>2. q[2] # i
    BY <1>2, <2>1
  <2> QED BY <1>1, <2>1, <2>2
<1>3. SmallUp(S, s, i) = SmallUp(S, s, i - 1)
  BY <1>2 DEF SmallUp, BusyOf
<1>4. TakenData(S, F, O, s, i)
  BY <1>1, <1>2 DEF TakenData
<1>5. ASSUME NEW c \in Lens PROVE FreeIn(F, O2, c) \ X2 = FreeIn(F, O2, c) \ X
  <2>1. F.map = S.map
    BY <1>1 DEF TakenData
  <2> QED BY <1>2, <2>1 DEF FreeIn, After
<1>6. Lists(F, O2, X2, K)
  <2>1. SameLinks(F.mem, F.mem)
    BY DEF SameLinks
  <2>2. K \subseteq SmallIn(F, O2)
    BY <1>1 DEF Lists
  <2> HIDE DEF O2, X, X2, K
  <2> QED BY <1>1, <1>5, <2>1, <2>2, ListsMoved
<1> QED BY <1>3, <1>4, <1>6 DEF TakenAt

IsTaken(S, s, chain, n, f) ==
  f = [i \in 0 .. n |->
         IF i = 0 THEN S
         ELSE IF <<s, i>> \in chain THEN Adopted(f[i - 1], <<s, i>>)
         ELSE f[i - 1]]

LEMMA TakenExists ==
  ASSUME NEW S, NEW s, NEW chain, NEW N \in Nat
  PROVE  \E f : IsTaken(S, s, chain, N, f)
<1> DEFINE Step(i, v) == IF <<s, i>> \in chain THEN Adopted(v, <<s, i>>) ELSE v
           Path(f, n) == IsTaken(S, s, chain, n, f)
           Bad == {n \in Nat : ~ \E f : Path(f, n)}
<1>0. \A f, n : Path(f, n) <=> f = [k \in 0 .. n |-> IF k = 0 THEN S ELSE Step(k, f[k - 1])]
  BY DEF IsTaken
<1> HIDE DEF Path, Step
<1> SUFFICES ASSUME Bad # {} PROVE FALSE
  BY DEF Path
<1>1. PICK n \in Bad : \A k \in Bad : n <= k
  <2>1. Bad \subseteq Nat
    OBVIOUS
  <2> HIDE DEF Bad
  <2> QED BY <2>1, Least
<1>2. n \in Nat /\ ~ \E f : Path(f, n)
  OBVIOUS
<1>3. n # 0
  <2> DEFINE f == [k \in 0 .. 0 |-> S]
  <2>1. f = [k \in 0 .. 0 |-> IF k = 0 THEN S ELSE Step(k, f[k - 1])]
    OBVIOUS
  <2> HIDE DEF f
  <2> QED BY <1>0, <1>2, <2>1
<1>4. n - 1 \in Nat /\ n - 1 \notin Bad
  BY <1>1, <1>2, <1>3
<1>5. PICK f : Path(f, n - 1)
  BY <1>4
<1> DEFINE g == [k \in 0 .. n |-> IF k = n THEN Step(n, f[n - 1]) ELSE f[k]]
<1>6. ASSUME NEW k \in 0 .. n
      PROVE  g[k] = IF k = 0 THEN S ELSE Step(k, g[k - 1])
  <2>1. CASE k = n
    BY <1>2, <1>3, <1>4, <2>1
  <2>2. CASE k # n
    <3>1. k \in 0 .. n - 1
      BY <1>2, <2>2
    <3>2. f[k] = IF k = 0 THEN S ELSE Step(k, f[k - 1])
      BY <1>0, <1>5, <3>1
    <3>3. k # 0 => k - 1 \in 0 .. n /\ k - 1 # n
      BY <1>2, <3>1
    <3> QED BY <2>2, <3>2, <3>3
  <2> QED BY <2>1, <2>2
<1>7. g = [k \in 0 .. n |-> IF k = 0 THEN S ELSE Step(k, g[k - 1])]
  <2> DEFINE e == [k \in 0 .. n |-> IF k = 0 THEN S ELSE Step(k, g[k - 1])]
  <2>1. DOMAIN g = DOMAIN e /\ \A k \in 0 .. n : g[k] = e[k]
    BY <1>6
  <2>2. g = e
    BY <2>1
  <2> QED BY <2>2
<1> HIDE DEF g
<1> QED BY <1>0, <1>2, <1>7

\* The loop, from the heap S on.
TakenSteps(S, s, chain, f) ==
  /\ f[0] = S
  /\ \A i \in Lens : /\ <<s, i>> \in chain => f[i] = Adopted(f[i - 1], <<s, i>>)
                     /\ <<s, i>> \notin chain => f[i] = f[i - 1]

LEMMA TakenLoop ==
  ASSUME ConstantsOK, NEW S, NEW s, NEW pbs
  PROVE  LET G == GetRemotePbs(S, pbs)
         IN \E f : TakenSteps(G, s, Chain(G.mem, s), f) /\ Taken(S, s, pbs) = f[SUPERPAGE_LEN]
<1> DEFINE G == GetRemotePbs(S, pbs)
           chain == Chain(G.mem, s)
           P == CHOOSE f : IsTaken(G, s, chain, SUPERPAGE_LEN, f)
<1>1. Taken(S, s, pbs) = P[SUPERPAGE_LEN]
  BY DEF Taken, IsTaken
<1> HIDE DEF G
<1> HIDE DEF chain
<1>2. SUPERPAGE_LEN \in Nat /\ Lens = 1 .. SUPERPAGE_LEN
  BY Constants
<1>3. IsTaken(G, s, chain, SUPERPAGE_LEN, P)
  BY <1>2, TakenExists
<1> HIDE DEF P
<1>4. ASSUME NEW k \in 0 .. SUPERPAGE_LEN
      PROVE  P[k] = IF k = 0 THEN G
                    ELSE IF <<s, k>> \in chain THEN Adopted(P[k - 1], <<s, k>>) ELSE P[k - 1]
  BY <1>3 DEF IsTaken
<1>5. P[0] = G
  <2>1. 0 \in 0 .. SUPERPAGE_LEN
    BY <1>2
  <2> QED BY <1>4, <2>1
<1>6. ASSUME NEW i \in Lens
      PROVE  /\ <<s, i>> \in chain => P[i] = Adopted(P[i - 1], <<s, i>>)
             /\ <<s, i>> \notin chain => P[i] = P[i - 1]
  <2>1. i \in 0 .. SUPERPAGE_LEN /\ i # 0
    BY <1>2
  <2> QED BY <1>4, <2>1
<1>7. TakenSteps(G, s, chain, P)
  BY <1>5, <1>6 DEF TakenSteps
<1> QED BY <1>1, <1>7 DEF G, chain

\* The outcome.
WholeOf(S, s) == {q \in BusyOf(S, s) : S.mem[q].whole}
SmallOf(S, s) == {q \in BusyOf(S, s) : ~S.mem[q].large}

\* The same page blocks, of the same length.
SameTiles(S, F) == F.map = S.map /\ \A q \in SpPage : F.mem[q].length = S.mem[q].length

LEMMA TakenAll ==
  ASSUME ConstantsOK, NEW S, NEW O, NEW C, NEW s, Orphan(S, O, C, s),
         NEW f, TakenSteps(S, s, Chain(S.mem, s), f)
  PROVE  LET F == f[SUPERPAGE_LEN]
         IN /\ Typed(F) /\ Released(S, F, s, WholeOf(S, s)) /\ Elsewhere(S, F, O \cup {s}, s)
            /\ Lists(F, O \cup {s}, {}, C \cup SmallOf(F, s)) /\ SameTiles(S, F)
<1> DEFINE N == SUPERPAGE_LEN
           Good == {i \in 0 .. N : TakenAt(S, f[i], O, C, s, i)}
<1>1. N \in Nat /\ Lens = 1 .. N
  BY Constants
<1>2. Typed(S) /\ s \in Superpage /\ s \notin O /\ Tiled(S.mem, S.map, s)
  BY DEF Orphan
<1>3. Chain(S.mem, s) = {h \in SpPage : h[1] = s /\ S.map[h] = h}
  BY <1>2, WalkTiles DEF Typed
<1>4. 0 \in Good
  BY <1>1, TakenFirst DEF TakenSteps
<1>5. ASSUME NEW i \in 1 .. N, i - 1 \in Good PROVE i \in Good
  <2>1. TakenAt(S, f[i - 1], O, C, s, i - 1) /\ i \in Lens
    BY <1>1, <1>5
  <2>2. <<s, i>> \in SpPage
    BY <1>2, <2>1, Constants
  <2>3. CASE S.map[<<s, i>>] = <<s, i>>
    <3>1. <<s, i>> \in Chain(S.mem, s)
      BY <1>3, <2>2, <2>3
    <3>2. f[i] = Adopted(f[i - 1], <<s, i>>)
      BY <2>1, <3>1 DEF TakenSteps
    <3>3. TakenAt(S, f[i], O, C, s, i)
      BY <2>1, <2>3, <3>2, TakenTile
    <3> QED BY <1>1, <3>3
  <2>4. CASE S.map[<<s, i>>] # <<s, i>>
    <3>1. <<s, i>> \notin Chain(S.mem, s)
      BY <1>3, <2>4
    <3>2. f[i] = f[i - 1]
      BY <2>1, <3>1 DEF TakenSteps
    <3>3. TakenAt(S, f[i], O, C, s, i)
      BY <2>1, <2>4, <3>2, TakenElse
    <3> QED BY <1>1, <3>3
  <2> QED BY <2>3, <2>4
<1>6. N \in Good
  <2> HIDE DEF Good, N
  <2>1. \A i \in 0 .. N : i \in Good
    BY <1>1, <1>4, <1>5, Upto
  <2> QED BY <1>1, <2>1
<1> DEFINE F == f[N]
<1>7. TakenData(S, F, O, s, N) /\ Lists(F, O \cup {s}, After(s, N), C \cup SmallUp(S, s, N))
  BY <1>6 DEF TakenAt
<1> HIDE DEF F, Good
<1>8. \A q \in SpPage : q[2] <= N /\ ~(q[2] > N)
  BY <1>1, Constants
<1>9. Typed(F) /\ F.map = S.map
      /\ \A q \in SpPage : /\ F.mem[q].length = S.mem[q].length
                           /\ q[1] # s => SameHeader(S.mem, F.mem, q)
                           /\ q[1] \notin O \cup {s} => F.mem[q] = S.mem[q]
  BY <1>7 DEF TakenData
<1>10. ASSUME NEW q \in SpPage, q[1] = s, S.map[q] = q
       PROVE  IF ~S.mem[q].free /\ S.mem[q].whole THEN F.mem[q].free
              ELSE SameHeader(S.mem, F.mem, q)
  BY <1>7, <1>8, <1>10 DEF TakenData
<1>11. After(s, N) = {}
  BY <1>8 DEF After
<1>12. Tiled(F.mem, F.map, s)
  BY <1>2, <1>9, SameTiled
<1>13. ASSUME NEW q \in SpPage
       PROVE  q \in BusyOf(F, s) <=> q \in BusyOf(S, s) /\ q \notin WholeOf(S, s)
  BY <1>9, <1>10 DEF BusyOf, WholeOf, SameHeader
<1>14. \A q \in BusyOf(F, s) : SameHeader(S.mem, F.mem, q)
  BY <1>9, <1>10 DEF BusyOf, SameHeader
<1>15. Released(S, F, s, WholeOf(S, s))
  <2>1. BusyOf(F, s) = BusyOf(S, s) \ WholeOf(S, s)
    BY <1>13 DEF BusyOf
  <2> QED BY <1>12, <1>14, <2>1 DEF Released
<1>16. SmallUp(S, s, N) = SmallOf(F, s)
  <2>1. ASSUME NEW q \in SpPage PROVE q \in SmallUp(S, s, N) <=> q \in SmallOf(F, s)
    <3>1. q \in BusyOf(F, s) => F.mem[q].large = S.mem[q].large
      BY <1>14 DEF SameHeader
    <3> QED BY <1>8, <1>13, <3>1 DEF SmallUp, SmallOf, WholeOf
  <2> QED BY <2>1 DEF SmallUp, SmallOf, BusyOf
<1>17. Lists(F, O \cup {s}, {}, C \cup SmallOf(F, s))
  BY <1>7, <1>11, <1>16
<1>18. Elsewhere(S, F, O \cup {s}, s)
  BY <1>9 DEF Elsewhere
<1>19. SameTiles(S, F)
  BY <1>9 DEF SameTiles
<1> QED BY <1>9, <1>15, <1>17, <1>18, <1>19 DEF F

LEMMA QuietLists ==
  ASSUME NEW S, NEW G, NEW s, Quiet(S, G, s), NEW O, s \notin O, NEW C, Lists(S, O, {}, C)
  PROVE  Lists(G, O, {}, C)
<1>1. /\ SameLinks(S.mem, G.mem) /\ G.free = S.free /\ G.blk = S.blk
      /\ \A q \in SpPage : q[1] # s => G.mem[q] = S.mem[q] /\ G.map[q] = S.map[q]
  BY DEF Quiet
<1>2. \A c \in Lens : FreeIn(G, O, c) \ {} = FreeIn(S, O, c) \ {}
  BY <1>1 DEF FreeIn
<1>3. C \subseteq SmallIn(G, O)
  BY <1>1 DEF Lists, SmallIn
<1> QED BY <1>1, <1>2, <1>3, ListsMoved

\* If there is a page block in use, none fills the superpage.
LEMMA ShortOK ==
  ASSUME ConstantsOK, NEW F, Typed(F), NEW s \in Superpage, Tiled(F.mem, F.map, s),
         NEW h \in BusyOf(F, s), F.mem[h].length < SUPERPAGE_LEN
  PROVE  Short(F, s)
<1> SUFFICES ASSUME NEW q \in SpPage, q[1] = s, F.map[q] = q, ~(F.mem[q].length < SUPERPAGE_LEN)
             PROVE  FALSE
  BY DEF Short
<1> DEFINE j == q[2]
           i == h[2]
<1>1. q = <<s, j>> /\ j \in Lens /\ j \in Nat /\ SUPERPAGE_LEN \in Nat /\ Lens = 1 .. SUPERPAGE_LEN
  BY Constants
<1>2. h = <<s, i>> /\ i \in Lens /\ F.map[h] = h /\ i \in Nat /\ h \in SpPage
  BY Constants DEF BusyOf
<1> HIDE DEF i, j
<1>3. Tile(F.mem, F.map, s, j)
  <2>1. F.mem \in [SpPage -> Header] /\ F.map[<<s, j>>] = <<s, j>>
    BY <1>1 DEF Typed
  <2> QED BY <1>1, <2>1, TileEnd
<1>4. F.mem[<<s, j>>].length \in Nat
  <2>1. F.mem \in [SpPage -> Header]
    BY DEF Typed
  <2> QED BY <1>1, <2>1, Lengths
<1>5. j = 1 /\ F.mem[<<s, j>>].length = SUPERPAGE_LEN
  BY <1>1, <1>3, <1>4 DEF Tile
<1>6. F.map[<<s, i>>] = <<s, j>>
  BY <1>1, <1>2, <1>3, <1>5 DEF Tile
<1>7. h = q
  BY <1>1, <1>2, <1>6
<1> QED BY <1>7

\* take_superpage
LEMMA TakenOK ==
  ASSUME ConstantsOK, NEW S, NEW O, NEW C, NEW s, Orphan(S, O, C, s),
         NEW pbs, RemoteOf(S, s, pbs), ~(BusyOf(S, s) \subseteq ToSet(pbs)), Short(S, s)
  PROVE  LET F == Taken(S, s, pbs)
         IN /\ Typed(F) /\ Released(S, F, s, ToSet(pbs) \cup WholeOf(S, s))
            /\ Elsewhere(S, F, O \cup {s}, s) /\ Short(F, s)
            /\ Lists(F, O \cup {s}, {}, C \cup SmallOf(F, s))
<1> DEFINE G == GetRemotePbs(S, pbs)
           F == Taken(S, s, pbs)
           P == ToSet(pbs)
<1>1. Typed(S) /\ s \in Superpage /\ s \notin O /\ Tiled(S.mem, S.map, s) /\ Lists(S, O, {}, C)
  BY DEF Orphan
<1>2. PICK f : TakenSteps(G, s, Chain(G.mem, s), f) /\ F = f[SUPERPAGE_LEN]
  BY TakenLoop
<1>3. Quiet(S, G, s) /\ Released(S, G, s, P)
  BY <1>1, GotAll DEF GotOf
<1> HIDE DEF G, F, P
<1>4. Orphan(G, O, C, s)
  <2>1. Lists(G, O, {}, C)
    BY <1>1, <1>3, QuietLists
  <2> QED BY <1>1, <1>3, <2>1 DEF Orphan, Quiet, Released
<1>5. /\ Typed(F) /\ Released(G, F, s, WholeOf(G, s)) /\ Elsewhere(G, F, O \cup {s}, s)
      /\ Lists(F, O \cup {s}, {}, C \cup SmallOf(F, s)) /\ SameTiles(G, F)
  BY <1>2, <1>4, TakenAll
<1>6. P \cup WholeOf(G, s) = P \cup WholeOf(S, s)
  <2>1. BusyOf(G, s) = BusyOf(S, s) \ P /\ \A q \in BusyOf(G, s) : G.mem[q].whole = S.mem[q].whole
    BY <1>3 DEF Released, SameHeader
  <2> QED BY <2>1 DEF WholeOf
<1>7. Released(S, F, s, P \cup WholeOf(S, s))
  <2>1. Released(S, F, s, P \cup WholeOf(G, s))
    BY <1>3, <1>5, ReleasedTwice
  <2> QED BY <1>6, <2>1
<1>8. Elsewhere(S, F, O \cup {s}, s)
  <2>1. ASSUME NEW q \in SpPage
        PROVE  /\ q[1] \notin O \cup {s} => F.mem[q] = S.mem[q]
               /\ q[1] # s => F.map[q] = S.map[q] /\ SameHeader(S.mem, F.mem, q)
    <3>1. q[1] # s => G.mem[q] = S.mem[q] /\ G.map[q] = S.map[q]
      BY <1>3 DEF Quiet
    <3>2. /\ q[1] \notin O \cup {s} => F.mem[q] = G.mem[q]
          /\ q[1] # s => F.map[q] = G.map[q] /\ SameHeader(G.mem, F.mem, q)
      BY <1>5 DEF Elsewhere
    <3> QED BY <3>1, <3>2 DEF SameHeader
  <2> QED BY <2>1 DEF Elsewhere
<1>9. Short(F, s)
  <2>1. PICK q \in BusyOf(S, s) : q \notin P
    BY DEF P
  <2>2. q \in BusyOf(G, s) /\ G.mem[q].length = S.mem[q].length
    BY <1>3, <2>1 DEF Released, SameHeader
  <2>3. G.mem[q].length < SUPERPAGE_LEN
    BY <2>2 DEF Short, BusyOf
  <2>4. Short(G, s)
    <3>1. Typed(G) /\ Tiled(G.mem, G.map, s)
      BY <1>3 DEF Quiet, Released
    <3> QED BY <1>1, <2>2, <2>3, <3>1, ShortOK
  <2> QED BY <1>5, <2>4 DEF Short, SameTiles
<1> QED BY <1>5, <1>7, <1>8, <1>9 DEF F, P

----------------------------------------------------------------------------
(* try_to_free_superpage: the walk that frees the whole page blocks of s.  *)

LEMMA FirstTile ==
  ASSUME ConstantsOK, NEW m \in [SpPage -> Header], NEW map, NEW s \in Superpage, Tiled(m, map, s)
  PROVE  1 \in Lens /\ map[<<s, 1>>] = <<s, 1>>
<1> DEFINE one == 1
<1>1. one \in Lens
  BY Constants
<1> HIDE DEF one
<1>2. PICK j \in Lens : j <= one /\ map[<<s, one>>] = <<s, j>>
  <2>1. \E j \in Lens : /\ j <= one /\ one < j + m[<<s, j>>].length
                        /\ map[<<s, one>>] = <<s, j>> /\ map[<<s, j>>] = <<s, j>>
                        /\ Tile(m, map, s, j)
    BY <1>1, TileOf
  <2> QED BY <2>1
<1>3. j = 1
  BY <1>2, Constants DEF one
<1> QED BY <1>1, <1>2, <1>3 DEF one

\* In one page block there is no other.
LEMMA OneTile ==
  ASSUME ConstantsOK, NEW m, NEW map, NEW s, NEW j, NEW e, TileFacts(m, map, s, j, e), j \in Lens,
         NEW q \in SpPage, q[1] = s, map[q] = q, j <= q[2], q[2] < e
  PROVE  q = <<s, j>>
<1>1. q = <<s, q[2]>> /\ q[2] \in Lens
  BY Constants
<1>0. \A k \in Lens : j <= k /\ k < e => map[<<s, k>>] = <<s, j>>
  BY DEF TileFacts
<1>2. map[<<s, q[2]>>] = <<s, j>>
  BY <1>0, <1>1
<1> QED BY <1>1, <1>2

\* The page blocks of S before page b that the walk frees, and those that
\* keep the superpage in use.
WholeUpto(S, s, b) == {q \in WholeOf(S, s) : q[2] < b}
KeptUpto(S, s, b) == {q \in BusyOf(S, s) : q[2] < b /\ ~S.mem[q].whole /\ ~S.mem[q].large}

\* The page block before page b, if there is one.
PrevAt(F, s, p, b) ==
  p # NULL => /\ p \in SpPage /\ p[1] = s /\ F.map[p] = p
              /\ p[2] < b /\ p[2] + F.mem[p].length = b

CleanRecord(acc) ==
  /\ acc = [heap |-> acc.heap, prev |-> acc.prev, pos |-> acc.pos, inuse |-> acc.inuse]
  /\ acc.inuse \in BOOLEAN

\* The heap F when the walk is at page b.
CleanTo(S, F, s, b) ==
  /\ Quiet(S, F, s) /\ Released(S, F, s, WholeUpto(S, s, b)) /\ Behind(S, F, s, b)
  /\ b \in Nat /\ b > 0 /\ b <= SUPERPAGE_LEN + 1
  /\ b <= SUPERPAGE_LEN => b \in Lens /\ F.map[<<s, b>>] = <<s, b>>

CleanAt(S, acc, s, i) ==
  /\ CleanRecord(acc) /\ CleanTo(S, acc.heap, s, acc.pos) /\ i < acc.pos
  /\ PrevAt(acc.heap, s, acc.prev, acc.pos)
  /\ acc.inuse <=> KeptUpto(S, s, acc.pos) # {}

\* The walk has come from page i to page b, freed what it found, and f is behind.
CleanNext(S, s, i, G, b, f) ==
  /\ CleanTo(S, G, s, b) /\ i < b /\ PrevAt(G, s, f, b)
  /\ KeptUpto(S, s, b) = KeptUpto(S, s, i)

\* h joined its neighbours into f, of L pages.
JoinFrees(S, G, s, h, f, L) ==
  /\ Quiet(S, G, s) /\ Released(S, G, s, {h})
  /\ Behind(S, G, s, f[2] + L) /\ FrontAt(G, s, f, f[2] + L)
  /\ f[2] <= h[2] /\ h[2] < f[2] + L /\ f[2] + L <= SUPERPAGE_LEN + 1

LEMMA JoinedFrees ==
  ASSUME ConstantsOK, NEW S, NEW S1, NEW s, NEW h, NEW p, NEW n, Joining(S, S1, s, h, p, n),
         NEW f, f = First(p, h), NEW L, L = SumLen(S1, p, h, n),
         NEW G, G = Remapped(Resize(S1, f, L), f)
  PROVE  JoinFrees(S, G, s, h, f, L)
BY ReleasedOK DEF JoinFrees

\* One page block, which is whole.
LEMMA CleanWhole ==
  ASSUME ConstantsOK, NEW S, NEW F, NEW s \in Superpage, NEW i \in Lens, CleanTo(S, F, s, i),
         NEW p, PrevAt(F, s, p, i), p # NULL => F.mem[p].free,
         NEW n, NEW e, e = i + F.mem[<<s, i>>].length,
         n = IF e \in Lens /\ F.mem[<<s, e>>].free THEN <<s, e>> ELSE NULL,
         NEW h, h = <<s, i>>, ~F.mem[h].free, F.mem[h].whole
  PROVE  LET f == First(p, h)
             G == Remapped(Join(FieldInit(F, h), p, h, n), f)
         IN CleanNext(S, s, i, G, e + LenOf(F, n), f)
<1> DEFINE S1 == FieldInit(F, h)
           f == First(p, h)
           L == SumLen(S1, p, h, n)
           G == Remapped(Resize(S1, f, L), f)
           b == e + LenOf(F, n)
<1>1. /\ Quiet(S, F, s) /\ Released(S, F, s, WholeUpto(S, s, i)) /\ Behind(S, F, s, i)
      /\ Typed(F) /\ Tiled(F.mem, F.map, s) /\ F.map[h] = h /\ h \in SpPage /\ h[1] = s /\ h[2] = i
      /\ i \in Nat
  <2>1. /\ Quiet(S, F, s) /\ Released(S, F, s, WholeUpto(S, s, i)) /\ Behind(S, F, s, i)
        /\ i <= SUPERPAGE_LEN => F.map[<<s, i>>] = <<s, i>>
    BY Zenon DEF CleanTo
  <2>2. i <= SUPERPAGE_LEN /\ i \in Nat
    BY Constants
  <2> QED BY Zenon, <2>1, <2>2, Constants DEF Quiet, Released
<1>2. TileFacts(F.mem, F.map, s, i, e)
  <2>1. TileHere(F.mem, F.map, s, i)
    BY Zenon, <1>1 DEF TileHere, Typed
  <2>2. TileFacts(F.mem, F.map, s, i, i + F.mem[<<s, i>>].length)
    BY Zenon, <2>1, TileKnown
  <2> QED BY Zenon, <2>2
<1>3. Changed(F, S1, h) /\ S1.mem[h].free
  BY Zenon, <1>1, FieldInitOK
<1> HIDE DEF S1
<1>4. /\ S1.map = F.map /\ \A q \in SpPage : S1.mem[q].length = F.mem[q].length
      /\ \A q \in SpPage : q # h => S1.mem[q] = F.mem[q]
  BY Zenon, <1>3 DEF Changed
<1>5. n # NULL => n = <<s, e>> /\ e \in Lens /\ F.mem[n].free /\ n \in SpPage /\ n # h /\ F.map[n] = n
  <2>1. e \in Lens => <<s, e>> \in SpPage /\ e # i
    BY <1>1, <1>2, Constants DEF TileFacts
  <2>2. e \in Lens => e <= SUPERPAGE_LEN
    BY Constants
  <2>3. e \in Lens => F.map[<<s, e>>] = <<s, e>>
    BY Zenon, <1>2, <2>2 DEF TileFacts
  <2> QED BY Zenon, <2>1, <2>3
<1>6. p # NULL => p \in SpPage /\ p # h /\ p = <<s, p[2]>> /\ p[2] \in Lens /\ F.map[p] = p
                  /\ p[2] < i /\ p[2] + F.mem[p].length = i
  <2>1. p # NULL => p \in SpPage /\ p[1] = s /\ F.map[p] = p
                    /\ p[2] < i /\ p[2] + F.mem[p].length = i
    BY Zenon DEF PrevAt
  <2>2. p \in SpPage => p = <<p[1], p[2]>> /\ p[2] \in Lens
    BY Zenon, Constants
  <2> QED BY Zenon, <1>1, <2>1, <2>2
<1>7. NextTo(S1, s, h[2], p, n)
  <2>1. e = h[2] + S1.mem[<<s, h[2]>>].length
    BY Zenon, <1>1, <1>4
  <2>2. p # NULL => \E k \in Lens : /\ p = <<s, k>> /\ k < h[2] /\ k + S1.mem[p].length = h[2]
                                    /\ S1.map[p] = p
    BY <1>1, <1>4, <1>6
  <2> QED BY Zenon, <1>4, <1>5, <2>1, <2>2 DEF NextTo
<1>8. Joining(F, S1, s, h, p, n)
  BY Zenon, <1>1, <1>3, <1>4, <1>5, <1>6, <1>7 DEF Joining
<1>9. Resize(S1, f, L) = Join(S1, p, h, n)
  BY Zenon DEF Resize, Join, SumLen
<1> HIDE DEF L, f
<1>10. /\ Quiet(F, G, s) /\ Released(F, G, s, {h})
       /\ Behind(F, G, s, f[2] + L) /\ FrontAt(G, s, f, f[2] + L)
       /\ f[2] <= h[2] /\ h[2] < f[2] + L /\ f[2] + L <= SUPERPAGE_LEN + 1
  <2>1. f = First(p, h)
    BY Zenon DEF f
  <2>2. L = SumLen(S1, p, h, n)
    BY Zenon DEF L
  <2>3. G = Remapped(Resize(S1, f, L), f)
    OBVIOUS
  <2> HIDE DEF G
  <2>4. JoinFrees(F, G, s, h, f, L)
    BY Zenon, <1>8, <2>1, <2>2, <2>3, JoinedFrees
  <2> QED BY Zenon, <2>4 DEF JoinFrees
<1> HIDE DEF G
<1>11. b = f[2] + L
  <2>1. LenOf(S1, n) = LenOf(F, n) /\ LenOf(S1, h) = F.mem[h].length /\ LenOf(S1, p) = LenOf(F, p)
    <3>1. h # NULL
      BY Zenon, <1>1, Constants
    <3> QED BY Zenon, <1>1, <1>4, <1>5, <1>6, <3>1 DEF LenOf
  <2>2. LenOf(F, n) \in Nat /\ F.mem[h].length \in Nat /\ LenOf(F, p) \in Nat
    <3>1. \A q \in SpPage : F.mem[q].length \in Nat
      BY <1>1 DEF Typed, Header
    <3> QED BY Zenon, <1>1, <1>5, <1>6, <3>1 DEF LenOf
  <2>3. L = LenOf(F, p) + F.mem[h].length + LenOf(F, n)
    BY Zenon, <2>1 DEF L, SumLen
  <2>4. f[2] + LenOf(F, p) = i /\ f[2] \in Nat
    <3>1. CASE p = NULL
      BY <1>1, <3>1 DEF f, First, LenOf
    <3>2. CASE p # NULL
      <4>1. p[2] \in Nat
        BY <1>6, <3>2, Constants
      <4> QED BY Zenon, <1>6, <3>2, <4>1 DEF f, First, LenOf
    <3> QED BY Zenon, <3>1, <3>2
  <2> QED BY <1>1, <2>2, <2>3, <2>4
<1> HIDE DEF b
<1>12. b \in Nat /\ b > i /\ b <= SUPERPAGE_LEN + 1 /\ f[2] <= i /\ FrontAt(G, s, f, b) /\ Behind(F, G, s, b)
  <2>1. b \in Nat /\ FrontAt(G, s, f, b) /\ Behind(F, G, s, b)
    BY Zenon, <1>10, <1>11 DEF FrontAt
  <2> QED BY Zenon, <1>1, <1>10, <1>11, <2>1
<1>13. Typed(G) /\ Tiled(G.mem, G.map, s)
  BY Zenon, <1>10 DEF Quiet, Released
<1>14. TileFacts(G.mem, G.map, s, f[2], b) /\ f = <<s, f[2]>> /\ f[2] \in Lens /\ G.mem[f].free
  <2>1. f \in SpPage /\ f[1] = s /\ G.map[f] = f /\ G.mem[f].free /\ f[2] + G.mem[f].length = b
    BY Zenon, <1>12 DEF FrontAt
  <2>2. f = <<s, f[2]>> /\ f[2] \in Lens
    BY Zenon, <2>1, Constants
  <2> DEFINE j == f[2]
  <2>3. f = <<s, j>> /\ j \in Lens
    BY Zenon, <2>2
  <2> HIDE DEF j
  <2>4. TileHere(G.mem, G.map, s, j)
    BY Zenon, <1>13, <2>1, <2>3 DEF TileHere, Typed
  <2>5. TileFacts(G.mem, G.map, s, j, j + G.mem[<<s, j>>].length)
    BY Zenon, <2>4, TileKnown
  <2>6. j + G.mem[<<s, j>>].length = b
    BY Zenon, <2>1, <2>3 DEF j
  <2>7. TileFacts(G.mem, G.map, s, j, b)
    BY Zenon, <2>5, <2>6
  <2> QED BY Zenon, <2>1, <2>2, <2>7 DEF j
\* Between the two pages S has no other page block in use.
<1>15. ASSUME NEW q \in BusyOf(S, s), i <= q[2], q[2] < b PROVE q = h
  <2>1. q \in SpPage /\ q[1] = s /\ S.map[q] = q /\ ~S.mem[q].free
    BY Zenon, <1>15 DEF BusyOf
  <2>2. F.mem[q] = S.mem[q] /\ F.map[q] = q
    BY Zenon, <1>1, <1>15, <2>1 DEF Behind
  <2> SUFFICES ASSUME q # h PROVE FALSE
    OBVIOUS
  <2>3. q \in BusyOf(G, s)
    BY Zenon, <1>10, <2>1, <2>2 DEF Released, BusyOf
  <2>4. q[2] \in Nat /\ f[2] \in Nat
    BY <1>14, <2>1, Constants
  <2>5. f[2] <= q[2]
    BY <1>1, <1>12, <1>15, <2>4
  <2>6. q = f
    <3>1. G.map[q] = q
      BY Zenon, <2>3 DEF BusyOf
    <3> DEFINE j == f[2]
    <3>2. TileFacts(G.mem, G.map, s, j, b) /\ j \in Lens /\ j <= q[2] /\ f = <<s, j>>
      BY Zenon, <1>14, <2>5
    <3> HIDE DEF j
    <3>3. q = <<s, j>>
      BY <1>15, <2>1, <3>1, <3>2, OneTile
    <3> QED BY Zenon, <3>2, <3>3
  <2> QED BY Zenon, <1>14, <2>3, <2>6 DEF BusyOf
<1>16. S.mem[h] = F.mem[h] /\ S.map[h] = h
  BY <1>1 DEF Behind
<1>17. ASSUME NEW q \in BusyOf(S, s) PROVE q[2] < b <=> q[2] < i \/ q = h
  <2>1. q[2] \in Nat
    BY Constants DEF BusyOf
  <2>2. q[2] < b /\ ~(q[2] < i) => q = h
    BY <1>1, <1>15, <2>1
  <2> QED BY <1>1, <1>12, <2>1, <2>2
<1>18. WholeUpto(S, s, b) = WholeUpto(S, s, i) \cup {h}
  <2>1. h \in WholeOf(S, s)
    BY Zenon, <1>1, <1>16 DEF WholeOf, BusyOf
  <2> QED BY Zenon, <1>17, <2>1 DEF WholeUpto, WholeOf
<1>19. KeptUpto(S, s, b) = KeptUpto(S, s, i)
  BY Zenon, <1>16, <1>17 DEF KeptUpto
<1>20. CleanTo(S, G, s, b)
  <2>1. Quiet(S, G, s)
    BY Zenon, <1>1, <1>10, QuietTwice
  <2>2. Released(S, G, s, WholeUpto(S, s, b))
    BY <1>1, <1>10, <1>18, ReleasedTwice
  <2>3. Behind(S, G, s, b)
    <3>1. ASSUME NEW q \in SpPage, q[1] = s, q[2] >= b
          PROVE  G.mem[q] = S.mem[q] /\ (G.map[q] = q <=> S.map[q] = q)
      <4>1. q[2] >= i
        <5>1. q[2] \in Nat
          BY Constants
        <5> QED BY <1>1, <1>12, <3>1, <5>1
      <4> QED BY <1>1, <1>12, <3>1, <4>1 DEF Behind
    <3> QED BY Zenon, <3>1 DEF Behind
  <2>4. b <= SUPERPAGE_LEN => b \in Lens /\ G.map[<<s, b>>] = <<s, b>>
    BY Zenon, <1>14 DEF TileFacts
  <2>5. b > 0
    BY <1>1, <1>12
  <2> QED BY Zenon, <1>12, <2>1, <2>2, <2>3, <2>4, <2>5 DEF CleanTo
<1>21. PrevAt(G, s, f, b)
  BY Zenon, <1>12 DEF FrontAt, PrevAt
<1>22. CleanNext(S, s, i, G, b, f)
  BY Zenon, <1>9, <1>12, <1>19, <1>20, <1>21 DEF CleanNext
<1> QED BY Zenon, <1>9, <1>22 DEF G, b, f, S1

\* One that is free or not whole.
LEMMA CleanPass ==
  ASSUME ConstantsOK, NEW S, NEW F, NEW s \in Superpage, NEW i \in Lens, CleanTo(S, F, s, i),
         NEW h, h = <<s, i>>, NEW e, e = i + F.mem[h].length,
         ~(~F.mem[h].free /\ F.mem[h].whole)
  PROVE  /\ CleanTo(S, F, s, e) /\ i < e /\ PrevAt(F, s, h, e)
         /\ KeptUpto(S, s, e) = KeptUpto(S, s, i)
                                \cup (IF ~F.mem[h].free /\ ~F.mem[h].large THEN {h} ELSE {})
<1>1. /\ Quiet(S, F, s) /\ Released(S, F, s, WholeUpto(S, s, i)) /\ Behind(S, F, s, i)
      /\ Typed(F) /\ Tiled(F.mem, F.map, s) /\ F.map[h] = h /\ h \in SpPage /\ h[1] = s /\ h[2] = i
      /\ i \in Nat
  <2>1. /\ Quiet(S, F, s) /\ Released(S, F, s, WholeUpto(S, s, i)) /\ Behind(S, F, s, i)
        /\ i <= SUPERPAGE_LEN => F.map[<<s, i>>] = <<s, i>>
    BY DEF CleanTo
  <2>2. i <= SUPERPAGE_LEN /\ i \in Nat
    BY Constants
  <2> QED BY <2>1, <2>2, Constants DEF Quiet, Released
<1>2. TileFacts(F.mem, F.map, s, i, e)
  <2>1. TileHere(F.mem, F.map, s, i)
    BY <1>1 DEF TileHere, Typed
  <2>2. TileFacts(F.mem, F.map, s, i, i + F.mem[<<s, i>>].length)
    BY <2>1, TileKnown
  <2> QED BY <2>2
<1>3. e \in Nat /\ i < e /\ e <= SUPERPAGE_LEN + 1
      /\ (e <= SUPERPAGE_LEN => e \in Lens /\ F.map[<<s, e>>] = <<s, e>>)
  BY <1>2 DEF TileFacts
<1>4. S.mem[h] = F.mem[h] /\ S.map[h] = h
  BY <1>1 DEF Behind
<1>5. ASSUME NEW q \in BusyOf(S, s) PROVE q[2] < e <=> q[2] < i \/ q = h
  <2>1. q \in SpPage /\ q[1] = s /\ S.map[q] = q /\ ~S.mem[q].free /\ q[2] \in Nat
    BY <1>5, Constants DEF BusyOf
  <2>2. ASSUME q[2] < e, ~(q[2] < i) PROVE q = h
    <3>1. i <= q[2]
      BY <1>1, <2>1, <2>2
    <3>2. F.map[q] = q
      BY <1>1, <2>1, <3>1 DEF Behind
    <3>3. q = <<s, i>>
      BY <1>2, <2>1, <2>2, <3>1, <3>2, OneTile
    <3> QED BY <3>3
  <2> QED BY <1>1, <1>3, <2>1, <2>2
<1>6. WholeUpto(S, s, e) = WholeUpto(S, s, i)
  BY <1>4, <1>5 DEF WholeUpto, WholeOf, BusyOf
<1>7. KeptUpto(S, s, e) = KeptUpto(S, s, i)
                          \cup (IF ~F.mem[h].free /\ ~F.mem[h].large THEN {h} ELSE {})
  <2>1. h \in BusyOf(S, s) <=> ~F.mem[h].free
    BY <1>1, <1>4 DEF BusyOf
  <2>2. ASSUME NEW q \in BusyOf(S, s)
        PROVE  q \in KeptUpto(S, s, e) <=>
                 q \in KeptUpto(S, s, i) \/ (q = h /\ ~F.mem[h].free /\ ~F.mem[h].large)
    <3>1. q[2] < e <=> q[2] < i \/ q = h
      BY <1>5
    <3>2. q = h => /\ ~S.mem[q].free /\ ~S.mem[q].whole
                   /\ S.mem[q].large = F.mem[h].large
      BY <1>4, <2>1
    <3>3. h[2] = i /\ ~(i < i)
      BY <1>1
    <3> QED BY <1>4, <3>1, <3>2, <3>3 DEF KeptUpto
  <2>3. \A q : q \in KeptUpto(S, s, e) \cup KeptUpto(S, s, i) => q \in BusyOf(S, s)
    BY DEF KeptUpto
  <2> QED BY <2>1, <2>2, <2>3
<1>8. CleanTo(S, F, s, e)
  <2>1. Behind(S, F, s, e)
    <3>1. ASSUME NEW q \in SpPage, q[1] = s, q[2] >= e
          PROVE  F.mem[q] = S.mem[q] /\ (F.map[q] = q <=> S.map[q] = q)
      <4>1. q[2] >= i
        <5>1. q[2] \in Nat
          BY Constants
        <5> QED BY <1>1, <1>3, <3>1, <5>1
      <4> QED BY <1>1, <3>1, <4>1 DEF Behind
    <3> QED BY <3>1 DEF Behind
  <2>2. e > 0
    BY <1>1, <1>3
  <2> QED BY <1>1, <1>3, <1>6, <2>1, <2>2 DEF CleanTo
<1>9. PrevAt(F, s, h, e)
  BY <1>1, <1>3 DEF PrevAt
<1> QED BY <1>3, <1>7, <1>8, <1>9

LEMMA CleanFirst ==
  ASSUME ConstantsOK, NEW S, Typed(S), NEW s \in Superpage, Tiled(S.mem, S.map, s)
  PROVE  CleanAt(S, [heap |-> S, prev |-> NULL, pos |-> 1, inuse |-> FALSE], s, 0)
<1>1. \A q \in SpPage : ~(q[2] < 1)
  BY Constants
<1>2. WholeUpto(S, s, 1) = {} /\ KeptUpto(S, s, 1) = {}
  BY <1>1 DEF WholeUpto, KeptUpto, WholeOf, BusyOf
<1>3. Quiet(S, S, s) /\ Behind(S, S, s, 1)
  BY DEF Quiet, SameLinks, Behind
<1>4. Released(S, S, s, {})
  BY DEF Released, SameHeader
<1>5. 1 \in Lens /\ S.map[<<s, 1>>] = <<s, 1>>
  BY FirstTile DEF Typed
<1>6. CleanTo(S, S, s, 1)
  <2>1. 1 <= SUPERPAGE_LEN + 1
    BY Constants
  <2> QED BY <1>2, <1>3, <1>4, <1>5, <2>1 DEF CleanTo
<1> QED BY <1>2, <1>6 DEF CleanAt, CleanRecord, PrevAt

LEMMA CleanStep ==
  ASSUME ConstantsOK, NEW S, NEW s \in Superpage, NEW i \in Lens, NEW acc,
         CleanAt(S, acc, s, i - 1), i = acc.pos
  PROVE  CleanAt(S, Visited(acc, <<s, i>>), s, i)
<1> DEFINE F == acc.heap
           h == <<s, i>>
           e == i + F.mem[h].length
           n == IF e \in Lens /\ F.mem[<<s, e>>].free THEN <<s, e>> ELSE NULL
           p == IF acc.prev # NULL /\ F.mem[acc.prev].free THEN acc.prev ELSE NULL
           f == First(p, h)
           G == Remapped(Join(FieldInit(F, h), p, h, n), f)
           b == e + LenOf(F, n)
           new == Visited(acc, h)
<1>1. /\ CleanRecord(acc) /\ CleanTo(S, F, s, i) /\ PrevAt(F, s, acc.prev, i)
      /\ acc.inuse <=> KeptUpto(S, s, i) # {}
  BY DEF CleanAt
<1>2. new = IF ~F.mem[h].free /\ F.mem[h].whole
            THEN [acc EXCEPT !.heap = G, !.prev = f, !.pos = b]
            ELSE [acc EXCEPT !.prev = h, !.pos = e,
                             !.inuse = @ \/ (~F.mem[h].free /\ ~F.mem[h].large)]
  BY DEF Visited
<1>3. PrevAt(F, s, p, i) /\ (p # NULL => F.mem[p].free)
  BY <1>1 DEF PrevAt
<1>4. e = i + F.mem[<<s, i>>].length
  OBVIOUS
<1>5. acc = [heap |-> F, prev |-> acc.prev, pos |-> acc.pos, inuse |-> acc.inuse]
      /\ acc.inuse \in BOOLEAN
  BY <1>1 DEF CleanRecord
<1>6. n = IF e \in Lens /\ F.mem[<<s, e>>].free THEN <<s, e>> ELSE NULL
  OBVIOUS
<1> HIDE DEF F, new, p, n, e
<1>7. CASE ~F.mem[h].free /\ F.mem[h].whole
  <2>0. CleanNext(S, s, i, G, b, f)
    BY <1>1, <1>3, <1>4, <1>6, <1>7, CleanWhole
  <2> HIDE DEF G, b, f, h
  <2>1. CleanTo(S, G, s, b) /\ i < b /\ PrevAt(G, s, f, b) /\ KeptUpto(S, s, b) = KeptUpto(S, s, i)
    BY ONLY <2>0 DEF CleanNext
  <2>2. new = [heap |-> G, prev |-> f, pos |-> b, inuse |-> acc.inuse]
    <3>1. new = [acc EXCEPT !.heap = G, !.prev = f, !.pos = b]
      BY <1>2, <1>7
    <3> QED BY <1>5, <3>1
  <2>3. CleanAt(S, new, s, i)
    BY <1>1, <1>5, <2>1, <2>2 DEF CleanAt, CleanRecord
  <2> QED BY <2>3 DEF new, h
<1>8. CASE ~(~F.mem[h].free /\ F.mem[h].whole)
  <2> DEFINE more == ~F.mem[h].free /\ ~F.mem[h].large
  <2>1. /\ CleanTo(S, F, s, e) /\ i < e /\ PrevAt(F, s, h, e)
        /\ KeptUpto(S, s, e) = KeptUpto(S, s, i) \cup (IF more THEN {h} ELSE {})
    <3>1. h = <<s, i>> /\ e = i + F.mem[h].length
      BY <1>4
    <3> HIDE DEF h
    <3> QED BY <1>1, <1>8, <3>1, CleanPass
  <2> DEFINE used == acc.inuse \/ more
  <2>2. used \in BOOLEAN /\ (used <=> KeptUpto(S, s, e) # {})
    BY <1>1, <2>1
  <2>3. new = [heap |-> F, prev |-> h, pos |-> e, inuse |-> used]
    <3>1. new = [acc EXCEPT !.prev = h, !.pos = e, !.inuse = used]
      BY <1>2, <1>8, <1>5
    <3>2. PICK u : u = used
      BY <2>2
    <3>5. PICK p0, b0, u0 : acc = [heap |-> F, prev |-> p0, pos |-> b0, inuse |-> u0]
      BY <1>5
    <3>3. new = [acc EXCEPT !.prev = h, !.pos = e, !.inuse = u]
      BY <3>1, <3>2
    <3> HIDE DEF used, h
    <3>4. new = [heap |-> F, prev |-> h, pos |-> e, inuse |-> u]
      BY <3>3, <3>5
    <3> QED BY <3>2, <3>4
  <2> HIDE DEF used, more, h
  <2>4. CleanAt(S, new, s, i)
    BY <2>1, <2>2, <2>3 DEF CleanAt, CleanRecord
  <2> QED BY <2>4 DEF new, h
<1> QED BY <1>7, <1>8

CleanStart(S) == [heap |-> S, prev |-> NULL, pos |-> 1, inuse |-> FALSE]

IsCleaned(S, s, n, f) ==
  f = [i \in 0 .. n |->
         IF i = 0 THEN CleanStart(S)
         ELSE IF i = f[i - 1].pos THEN Visited(f[i - 1], <<s, i>>)
         ELSE f[i - 1]]

LEMMA CleanedExists ==
  ASSUME NEW S, NEW s, NEW N \in Nat
  PROVE  \E f : IsCleaned(S, s, N, f)
<1> DEFINE Step(i, v) == IF i = v.pos THEN Visited(v, <<s, i>>) ELSE v
           Path(f, n) == IsCleaned(S, s, n, f)
           Bad == {n \in Nat : ~ \E f : Path(f, n)}
<1>0. \A f, n : Path(f, n) <=> f = [k \in 0 .. n |-> IF k = 0 THEN CleanStart(S) ELSE Step(k, f[k - 1])]
  BY DEF IsCleaned
<1> HIDE DEF Path, Step
<1> SUFFICES ASSUME Bad # {} PROVE FALSE
  BY DEF Path
<1>1. PICK n \in Bad : \A k \in Bad : n <= k
  <2>1. Bad \subseteq Nat
    OBVIOUS
  <2> HIDE DEF Bad
  <2> QED BY <2>1, Least
<1>2. n \in Nat /\ ~ \E f : Path(f, n)
  OBVIOUS
<1>3. n # 0
  <2> DEFINE f == [k \in 0 .. 0 |-> CleanStart(S)]
  <2>1. f = [k \in 0 .. 0 |-> IF k = 0 THEN CleanStart(S) ELSE Step(k, f[k - 1])]
    OBVIOUS
  <2> HIDE DEF f
  <2> QED BY <1>0, <1>2, <2>1
<1>4. n - 1 \in Nat /\ n - 1 \notin Bad
  BY <1>1, <1>2, <1>3
<1>5. PICK f : Path(f, n - 1)
  BY <1>4
<1> DEFINE g == [k \in 0 .. n |-> IF k = n THEN Step(n, f[n - 1]) ELSE f[k]]
<1>6. ASSUME NEW k \in 0 .. n
      PROVE  g[k] = IF k = 0 THEN CleanStart(S) ELSE Step(k, g[k - 1])
  <2>1. CASE k = n
    BY <1>2, <1>3, <1>4, <2>1
  <2>2. CASE k # n
    <3>1. k \in 0 .. n - 1
      BY <1>2, <2>2
    <3>2. f[k] = IF k = 0 THEN CleanStart(S) ELSE Step(k, f[k - 1])
      BY <1>0, <1>5, <3>1
    <3>3. k # 0 => k - 1 \in 0 .. n /\ k - 1 # n
      BY <1>2, <3>1
    <3> QED BY <2>2, <3>2, <3>3
  <2> QED BY <2>1, <2>2
<1>7. g = [k \in 0 .. n |-> IF k = 0 THEN CleanStart(S) ELSE Step(k, g[k - 1])]
  <2> DEFINE e == [k \in 0 .. n |-> IF k = 0 THEN CleanStart(S) ELSE Step(k, g[k - 1])]
  <2>1. DOMAIN g = DOMAIN e /\ \A k \in 0 .. n : g[k] = e[k]
    BY <1>6
  <2>2. g = e
    BY <2>1
  <2> QED BY <2>2
<1> HIDE DEF g
<1> QED BY <1>0, <1>2, <1>7

\* The loop.
CleanSteps(S, s, f) ==
  /\ f[0] = CleanStart(S)
  /\ \A i \in Lens : /\ i = f[i - 1].pos => f[i] = Visited(f[i - 1], <<s, i>>)
                     /\ i # f[i - 1].pos => f[i] = f[i - 1]

LEMMA CleanedLoop ==
  ASSUME ConstantsOK, NEW S, NEW s
  PROVE  \E f : CleanSteps(S, s, f) /\ Cleaned(S, s) = f[SUPERPAGE_LEN]
<1> DEFINE P == CHOOSE f : IsCleaned(S, s, SUPERPAGE_LEN, f)
<1>1. Cleaned(S, s) = P[SUPERPAGE_LEN]
  BY DEF Cleaned, IsCleaned, CleanStart
<1>2. SUPERPAGE_LEN \in Nat /\ Lens = 1 .. SUPERPAGE_LEN
  BY Constants
<1>3. IsCleaned(S, s, SUPERPAGE_LEN, P)
  BY <1>2, CleanedExists
<1> HIDE DEF P
<1>4. ASSUME NEW k \in 0 .. SUPERPAGE_LEN
      PROVE  P[k] = IF k = 0 THEN CleanStart(S)
                    ELSE IF k = P[k - 1].pos THEN Visited(P[k - 1], <<s, k>>) ELSE P[k - 1]
  BY <1>3 DEF IsCleaned
<1>5. P[0] = CleanStart(S)
  <2>1. 0 \in 0 .. SUPERPAGE_LEN
    BY <1>2
  <2> QED BY <1>4, <2>1
<1>6. ASSUME NEW i \in Lens
      PROVE  /\ i = P[i - 1].pos => P[i] = Visited(P[i - 1], <<s, i>>)
             /\ i # P[i - 1].pos => P[i] = P[i - 1]
  <2>1. i \in 0 .. SUPERPAGE_LEN /\ i # 0
    BY <1>2
  <2> QED BY <1>4, <2>1
<1>7. CleanSteps(S, s, P)
  BY <1>5, <1>6 DEF CleanSteps
<1> QED BY <1>1, <1>7

\* The small page blocks in use that the walk leaves.
KeptOf(S, s) == {q \in BusyOf(S, s) : ~S.mem[q].whole /\ ~S.mem[q].large}

LEMMA CleanedOK ==
  ASSUME ConstantsOK, NEW S, Typed(S), NEW s \in Superpage, Tiled(S.mem, S.map, s)
  PROVE  LET C == Cleaned(S, s)
         IN /\ Quiet(S, C.heap, s) /\ Released(S, C.heap, s, WholeOf(S, s))
            /\ C.inuse <=> KeptOf(S, s) # {}
<1> DEFINE N == SUPERPAGE_LEN
<1>1. PICK f : CleanSteps(S, s, f) /\ Cleaned(S, s) = f[N]
  BY CleanedLoop
<1>2. N \in Nat /\ Lens = 1 .. N
  BY Constants
<1> DEFINE Good == {i \in 0 .. N : CleanAt(S, f[i], s, i)}
<1>3. 0 \in Good
  BY <1>1, <1>2, CleanFirst DEF CleanSteps, CleanStart
<1>4. ASSUME NEW i \in 1 .. N, i - 1 \in Good PROVE i \in Good
  <2>1. CleanAt(S, f[i - 1], s, i - 1) /\ i \in Lens /\ i \in Nat /\ i \in 0 .. N
    BY <1>2, <1>4
  <2>2. CASE i = f[i - 1].pos
    <3>1. f[i] = Visited(f[i - 1], <<s, i>>)
      BY <1>1, <2>1, <2>2 DEF CleanSteps
    <3>2. CleanAt(S, f[i], s, i)
      BY <2>1, <2>2, <3>1, CleanStep
    <3> QED BY <2>1, <3>2
  <2>3. CASE i # f[i - 1].pos
    <3>1. f[i] = f[i - 1]
      BY <1>1, <2>1, <2>3 DEF CleanSteps
    <3>2. i - 1 < f[i - 1].pos /\ f[i - 1].pos \in Nat
      BY <2>1 DEF CleanAt, CleanTo
    <3>3. i < f[i - 1].pos
      BY <2>1, <2>3, <3>2
    <3>4. CleanAt(S, f[i], s, i)
      BY <2>1, <3>1, <3>3 DEF CleanAt
    <3> QED BY <2>1, <3>4
  <2> QED BY <2>2, <2>3
<1>5. CleanAt(S, f[N], s, N)
  <2> HIDE DEF Good, N
  <2>1. N \in Good
    <3>1. \A i \in 0 .. N : i \in Good
      BY <1>2, <1>3, <1>4, Upto
    <3> QED BY <1>2, <3>1
  <2> QED BY <2>1 DEF Good
<1> DEFINE C == f[N]
<1>6. CleanTo(S, C.heap, s, C.pos) /\ N < C.pos /\ (C.inuse <=> KeptUpto(S, s, C.pos) # {})
  BY <1>5 DEF CleanAt
<1> HIDE DEF C
<1>7. Quiet(S, C.heap, s) /\ Released(S, C.heap, s, WholeUpto(S, s, C.pos)) /\ C.pos \in Nat
  BY <1>6 DEF CleanTo
<1>8. \A q \in SpPage : q[2] < C.pos
  <2>1. \A q \in SpPage : q[2] \in Nat /\ q[2] <= N
    BY Constants
  <2> QED BY <1>2, <1>6, <1>7, <2>1
<1>9. WholeUpto(S, s, C.pos) = WholeOf(S, s) /\ KeptUpto(S, s, C.pos) = KeptOf(S, s)
  BY <1>8 DEF WholeUpto, WholeOf, KeptUpto, KeptOf, BusyOf
<1> QED BY <1>1, <1>6, <1>7, <1>9 DEF C

\* If the superpage is one free page block, the walk is one step.
LEMMA CleanedFilled ==
  ASSUME ConstantsOK, NEW S, Typed(S), NEW s \in Superpage, Filled(S, s)
  PROVE  Cleaned(S, s).heap = S /\ ~Cleaned(S, s).inuse
<1> DEFINE N == SUPERPAGE_LEN
           h == <<s, 1>>
<1>1. PICK f : CleanSteps(S, s, f) /\ Cleaned(S, s) = f[N]
  BY CleanedLoop
<1>2. N \in Nat /\ Lens = 1 .. N /\ 1 \in Lens /\ N + 1 \notin Lens
  BY Constants
<1> DEFINE last == [heap |-> S, prev |-> h, pos |-> N + 1, inuse |-> FALSE]
           Good == {i \in 0 .. N : IF i = 0 THEN f[i] = CleanStart(S) ELSE f[i] = last}
<1>3. 0 \in Good
  BY <1>1, <1>2 DEF CleanSteps
<1>4. Visited(CleanStart(S), h) = last
  <2> DEFINE acc == CleanStart(S)
             e == h[2] + S.mem[h].length
             used == acc.inuse \/ (~S.mem[h].free /\ ~S.mem[h].large)
  <2>1. acc.heap = S /\ S.mem[h].free /\ e = N + 1
    BY <1>2 DEF Filled, CleanStart
  <2>2. Visited(acc, h) = [acc EXCEPT !.prev = h, !.pos = e, !.inuse = used]
    <3>1. ~(~acc.heap.mem[h].free /\ acc.heap.mem[h].whole)
      BY <2>1
    <3> HIDE DEF h, acc
    <3> QED BY <2>1, <3>1 DEF Visited
  <2>3. PICK u : u = used /\ u = FALSE
    BY <2>1 DEF CleanStart
  <2>4. Visited(acc, h) = [acc EXCEPT !.prev = h, !.pos = e, !.inuse = u]
    BY <2>2, <2>3
  <2>5. acc = [heap |-> S, prev |-> NULL, pos |-> 1, inuse |-> FALSE]
    BY DEF CleanStart
  <2> HIDE DEF used, acc, h, e
  <2>6. PICK p0, b0, u0 : acc = [heap |-> S, prev |-> p0, pos |-> b0, inuse |-> u0]
    BY <2>5
  <2> DEFINE v == Visited(acc, h)
  <2>7. v = [acc EXCEPT !.prev = h, !.pos = e, !.inuse = u]
    BY <2>4
  <2> HIDE DEF v
  <2>8. v = [heap |-> S, prev |-> h, pos |-> e, inuse |-> u]
    BY <2>6, <2>7
  <2>9. v = [heap |-> S, prev |-> h, pos |-> N + 1, inuse |-> FALSE]
    BY <2>1, <2>3, <2>8
  <2> QED BY <2>9 DEF v, acc
<1> HIDE DEF h
<1>5. ASSUME NEW i \in 1 .. N, i - 1 \in Good PROVE i \in Good
  <2>1. i \in Lens /\ i \in Nat /\ i \in 0 .. N /\ i # 0
    BY <1>2
  <2>2. CASE i = 1
    <3>1. f[i - 1] = CleanStart(S)
      BY <1>5, <2>2
    <3>2. f[i - 1].pos = i
      BY <2>2, <3>1 DEF CleanStart
    <3>3. f[i] = last
      BY <1>1, <1>4, <2>1, <2>2, <3>1, <3>2 DEF CleanSteps, h
    <3> QED BY <2>1, <3>3
  <2>3. CASE i # 1
    <3>1. f[i - 1] = last
      BY <1>2, <1>5, <2>1, <2>3
    <3>2. f[i - 1].pos # i
      BY <1>2, <2>1, <3>1
    <3>3. f[i] = last
      BY <1>1, <2>1, <3>1, <3>2 DEF CleanSteps
    <3> QED BY <2>1, <3>3
  <2> QED BY <2>2, <2>3
<1>6. f[N] = last
  <2> HIDE DEF Good, last
  <2>1. N \in Good
    <3>1. \A i \in 0 .. N : i \in Good
      <4> HIDE DEF N
      <4> QED BY <1>2, <1>3, <1>5, Upto
    <3> QED BY <1>2, <3>1
  <2> QED BY <1>2, <2>1 DEF Good
<1> QED BY <1>1, <1>6

----------------------------------------------------------------------------
(* pb_alloc                                                                *)

\* Headers that are none yet may get other pointers.
ResetStep(S, S2, O, O2, X, X2, C, R) ==
  /\ \A q \in R : S.map[q] # q
  /\ \A q \in SpPage : q \notin R => S2.mem[q].next = S.mem[q].next /\ S2.mem[q].prev = S.mem[q].prev
  /\ S2.free = S.free /\ S2.blk = S.blk
  /\ \A c \in Lens : FreeIn(S2, O2, c) \ X2 = FreeIn(S, O, c) \ X
  /\ C \subseteq SmallIn(S2, O2)

LEMMA ListsReset ==
  ASSUME NEW S, NEW S2, NEW O, NEW O2, NEW X, NEW X2, NEW C, NEW R, Lists(S, O, X, C),
         ResetStep(S, S2, O, O2, X, X2, C, R)
  PROVE  Lists(S2, O2, X2, C)
<1> USE DEF ResetStep
<1>1. ASSUME NEW c \in Lens
      PROVE  IsRing(S2.mem, FreeIn(S2, O2, c) \ X2, S2.free[c])
  <2> DEFINE D == FreeIn(S, O, c) \ X
  <2>1. IsRing(S.mem, D, S.free[c])
    BY DEF Lists
  <2>2. \A q \in D : q \in SpPage /\ q \notin R
    BY DEF FreeIn
  <2>3. \A q \in D : S2.mem[q].next = S.mem[q].next /\ S2.mem[q].prev = S.mem[q].prev
    BY <2>2
  <2> HIDE DEF D
  <2>4. IsRing(S2.mem, D, S.free[c])
    BY <2>1, <2>3, RingSame
  <2> QED BY <2>4 DEF D
<1>2. IsRing(S2.mem, C, S2.blk)
  <2>1. IsRing(S.mem, C, S.blk)
    BY DEF Lists
  <2>2. \A q \in C : q \in SpPage /\ q \notin R
    BY DEF Lists, SmallIn
  <2>3. \A q \in C : S2.mem[q].next = S.mem[q].next /\ S2.mem[q].prev = S.mem[q].prev
    BY <2>2
  <2> QED BY <2>1, <2>3, RingSame
<1> QED BY <1>1, <1>2 DEF Lists

Fresh(len) == [Zeroed EXCEPT !.length = len]

LEMMA FreshHeader ==
  ASSUME ConstantsOK, NEW len \in Lens
  PROVE  /\ Fresh(len) = [length |-> len, free |-> TRUE, large |-> FALSE, whole |-> FALSE,
                          next |-> NULL, prev |-> NULL]
         /\ Fresh(len) \in Header
         /\ [Zeroed EXCEPT !.length = len, !.free = FALSE]
              = [length |-> len, free |-> FALSE, large |-> FALSE, whole |-> FALSE,
                 next |-> NULL, prev |-> NULL]
         /\ [Zeroed EXCEPT !.length = len, !.free = FALSE] \in Header
<1>1. len \in 0 .. SUPERPAGE_LEN /\ NULL \in Ptr
  BY Constants DEF Ptr
<1>6. PICK z, a, b, c, d, n0, u :
      /\ z = [length |-> d, free |-> a, large |-> b, whole |-> c, next |-> n0, prev |-> n0]
      /\ z = Zeroed /\ a = TRUE /\ b = FALSE /\ c = FALSE /\ n0 = NULL /\ u = FALSE
  BY DEF Zeroed
<1>5. z = [length |-> d, free |-> a, large |-> b, whole |-> c, next |-> n0, prev |-> n0]
  BY <1>6
<1>2. Fresh(len) = [length |-> len, free |-> TRUE, large |-> FALSE, whole |-> FALSE,
                    next |-> NULL, prev |-> NULL]
  <2>1. [z EXCEPT !.length = len]
          = [length |-> len, free |-> a, large |-> b, whole |-> c, next |-> n0, prev |-> n0]
    BY <1>5
  <2> QED BY <1>6, <2>1 DEF Fresh
<1>3. [Zeroed EXCEPT !.length = len, !.free = FALSE]
        = [length |-> len, free |-> FALSE, large |-> FALSE, whole |-> FALSE,
           next |-> NULL, prev |-> NULL]
  <2> DEFINE w == [z EXCEPT !.length = len, !.free = u]
  <2>1. w = [z EXCEPT !.length = len, !.free = u]
    OBVIOUS
  <2> HIDE DEF w
  <2>2. w = [length |-> len, free |-> u, large |-> b, whole |-> c, next |-> n0, prev |-> n0]
    BY <1>5, <2>1
  <2> QED BY <1>6, <2>2 DEF w
<1>4. /\ [length |-> len, free |-> TRUE, large |-> FALSE, whole |-> FALSE,
          next |-> NULL, prev |-> NULL] \in Header
      /\ [length |-> len, free |-> FALSE, large |-> FALSE, whole |-> FALSE,
          next |-> NULL, prev |-> NULL] \in Header
  BY <1>1 DEF Header
<1> QED BY <1>2, <1>3, <1>4

\* The header at r and its pages in the pagemap, before it is listed.
WithFree(T, r, n) ==
  [mem |-> [T.mem EXCEPT ![r] = Fresh(n)], map |-> SetRange(T.map, r, n, r),
   free |-> T.free, blk |-> T.blk]

LEMMA NewFreeIs ==
  ASSUME ConstantsOK, NEW T, Typed(T), NEW r \in SpPage, NEW n \in Lens
  PROVE  NewFree(T, r, n) = ListFree(WithFree(T, r, n), r)
<1> DEFINE m1 == [T.mem EXCEPT ![r] = Fresh(n)]
           T1 == [T EXCEPT !.mem[r] = Fresh(n)]
           map2 == SetRange(T.map, r, n, r)
           T2 == WithFree(T, r, n)
           m2 == Insert(m1, T.free[n], r)
           free2 == [T.free EXCEPT ![n] = r]
<1>1. T = [mem |-> T.mem, map |-> T.map, free |-> T.free, blk |-> T.blk]
      /\ T.mem \in [SpPage -> Header] /\ T.free \in [Lens -> Ptr]
  BY DEF Typed
<1>2. m1[r].length = n /\ m1 \in [SpPage -> Header]
  <2>1. Fresh(n).length = n /\ Fresh(n) \in Header
    <3>1. Fresh(n) = [length |-> n, free |-> TRUE, large |-> FALSE, whole |-> FALSE,
                      next |-> NULL, prev |-> NULL]
          /\ Fresh(n) \in Header
      BY FreshHeader
    <3> QED BY <3>1
  <2> QED BY <1>1, <2>1
<1>3. T1 = [mem |-> m1, map |-> T.map, free |-> T.free, blk |-> T.blk]
  <2>1. T1 = [T EXCEPT !.mem = m1]
    OBVIOUS
  <2> HIDE DEF m1, T1
  <2> QED BY <1>1, <2>1
<1>4. NewFree(T, r, n) = Remapped(ListFree(T1, r), r)
  BY DEF NewFree, Fresh
<1> HIDE DEF m1, T1
<1>5. ListFree(T1, r) = [mem |-> m2, map |-> T.map, free |-> free2, blk |-> T.blk]
  <2>1. T1.mem[r].length = n /\ T1.mem = m1 /\ T1.free = T.free
    BY <1>2, <1>3
  <2>2. ListFree(T1, r) = [T1 EXCEPT !.mem = Insert(m1, T.free[n], r), !.free = [T.free EXCEPT ![n] = r]]
    BY <2>1 DEF ListFree
  <2> HIDE DEF m2, free2
  <2>3. ListFree(T1, r) = [T1 EXCEPT !.mem = m2, !.free = free2]
    BY ONLY <2>2 DEF m2, free2
  <2> QED BY <1>3, <2>3
<1>6. m2[r].length = n
  BY <1>1, <1>2 DEF m2, Insert, Header
<1>7. ListFree(T2, r) = [mem |-> m2, map |-> map2, free |-> free2, blk |-> T.blk]
  <2>0. T2 = [mem |-> m1, map |-> map2, free |-> T.free, blk |-> T.blk]
    BY DEF WithFree, m1
  <2> HIDE DEF T2, map2
  <2>1. T2.mem[r].length = n /\ T2.mem = m1 /\ T2.free = T.free
    BY <1>2, <2>0
  <2>2. ListFree(T2, r) = [T2 EXCEPT !.mem = Insert(m1, T.free[n], r), !.free = [T.free EXCEPT ![n] = r]]
    BY <2>1 DEF ListFree
  <2> HIDE DEF m2, free2
  <2>3. ListFree(T2, r) = [T2 EXCEPT !.mem = m2, !.free = free2]
    BY <2>2 DEF m2, free2
  <2> QED BY <2>0, <2>3
<1> DEFINE T3 == ListFree(T1, r)
<1>8. Remapped(T3, r) = [mem |-> m2, map |-> map2, free |-> free2, blk |-> T.blk]
  <2>1. T3.mem[r].length = n /\ T3.map = T.map
    BY <1>5, <1>6
  <2>2. Remapped(T3, r) = [T3 EXCEPT !.map = map2]
    <3> HIDE DEF T3
    <3> QED BY <2>1 DEF Remapped
  <2> HIDE DEF m2, free2, map2
  <2> QED BY <1>5, <2>2
<1> QED BY <1>4, <1>7, <1>8

\* The page block that pb_alloc_from_tlh takes off its list.
Popped(S, c, h) ==
  [S EXCEPT !.mem = [Unlink(@, h) EXCEPT ![h].free = FALSE],
            !.free[c] = HeadWithout(S.mem, @, h)]

PopFacts(S, T, O, C, h, c) ==
  /\ Typed(T) /\ T.map = S.map /\ Lists(T, O, {}, C) /\ Away(S, T, O)
  /\ ~T.mem[h].free /\ T.mem[h].length = c
  /\ \A q \in SpPage : q # h => SameHeader(S.mem, T.mem, q)

LEMMA PopOK ==
  ASSUME ConstantsOK, NEW S, Typed(S), NEW O, NEW C, Lists(S, O, {}, C),
         NEW c \in Lens, S.free[c] # NULL, NEW h, h = S.free[c]
  PROVE  h \in FreeIn(S, O, c) /\ h \notin C /\ PopFacts(S, Popped(S, c, h), O, C, h, c)
<1> DEFINE S2 == UnlistFree(S, h)
           T == Popped(S, c, h)
<1>1. h \in FreeIn(S, O, c)
  <2>1. IsRing(S.mem, FreeIn(S, O, c) \ {}, S.free[c])
    BY DEF Lists
  <2> QED BY <2>1 DEF IsRing
<1>2. h \in SpPage /\ S.mem[h].length = c /\ S.map[h] = h /\ h[1] \in O /\ S.mem[h].free /\ h \notin {}
      /\ S.mem[h].length \in Lens /\ h \in FreeIn(S, O, S.mem[h].length)
  BY <1>1 DEF FreeIn
<1>3. Typed(S2) /\ SameData(S, S2) /\ Away(S, S2, O) /\ Lists(S2, O, {h}, C)
  <2>1. Typed(S2) /\ SameData(S, S2) /\ Away(S, S2, O) /\ Lists(S2, O, {} \cup {h}, C)
    BY <1>2, UnlistFreeOK
  <2>2. {} \cup {h} = {h}
    OBVIOUS
  <2> QED BY <2>1, <2>2
<1>4. h \notin C /\ h \in SpPage
  BY <1>2 DEF Lists, SmallIn
<1> DEFINE m1 == Unlink(S.mem, h)
           m2 == [m1 EXCEPT ![h].free = FALSE]
           free2 == [S.free EXCEPT ![c] = HeadWithout(S.mem, S.free[c], h)]
<1>5. S = [mem |-> S.mem, map |-> S.map, free |-> S.free, blk |-> S.blk]
  BY DEF Typed
<1>6. S2 = [mem |-> m1, map |-> S.map, free |-> free2, blk |-> S.blk]
  <2>1. S2 = [S EXCEPT !.mem = m1, !.free[c] = HeadWithout(S.mem, S.free[c], h)]
    BY <1>2 DEF UnlistFree
  <2>2. S2 = [S EXCEPT !.mem = m1, !.free = free2]
    BY <1>5, <2>1
  <2> HIDE DEF m1, free2, S2
  <2> QED BY <1>5, <2>2
<1>7. T = [mem |-> m2, map |-> S.map, free |-> free2, blk |-> S.blk]
  <2>1. T = [S EXCEPT !.mem = m2, !.free = free2]
    BY <1>5 DEF Popped
  <2> HIDE DEF m2, free2, T
  <2> QED BY <1>5, <2>1
<1> HIDE DEF S2, T, m2, free2
<1>8. m1 = S2.mem /\ m1 \in [SpPage -> Header] /\ free2 \in [Lens -> Ptr] /\ S.blk \in Ptr /\ S.map \in [SpPage -> Ptr]
  <2> HIDE DEF m1
  <2> QED BY <1>3, <1>6 DEF Typed
<1> HIDE DEF m1
<1>9. /\ m2 \in [SpPage -> Header] /\ ~m2[h].free
      /\ \A q \in SpPage : q # h => m2[q] = m1[q]
      /\ m2[h].length = m1[h].length
      /\ m2[h].next = m1[h].next /\ m2[h].prev = m1[h].prev
  <2>1. h \in SpPage /\ m1 \in [SpPage -> Header]
    BY <1>4, <1>8
  <2> DEFINE x == [m1[h] EXCEPT !.free = FALSE]
  <2>2. m1[h] \in Header
    BY ONLY <2>1
  <2>3. x \in Header /\ ~x.free /\ x.length = m1[h].length /\ x.next = m1[h].next /\ x.prev = m1[h].prev
    BY ONLY <2>2 DEF Header
  <2>4. m2 = [m1 EXCEPT ![h] = x]
    BY ONLY <2>1 DEF m2
  <2> HIDE DEF x
  <2> QED BY ONLY <2>1, <2>3, <2>4
<1>10. Typed(T) /\ T.mem = m2 /\ T.map = S2.map /\ T.free = S2.free /\ T.blk = S2.blk
  BY <1>6, <1>7, <1>8, <1>9 DEF Typed
<1>11. Changed(S2, T, h) /\ ~T.mem[h].free
  BY <1>4, <1>8, <1>9, <1>10 DEF Changed
<1>12. Lists(T, O, {}, C)
  BY <1>3, <1>4, <1>11, ChangedLists
<1>13. T.mem[h].length = c
  BY <1>2, <1>3, <1>8, <1>9, <1>10 DEF SameData
<1>14. Away(S, T, O)
  <2>1. ASSUME NEW q \in SpPage, q[1] \notin O PROVE T.mem[q] = S.mem[q] /\ T.map[q] = S.map[q]
    <3>1. q # h
      BY <1>2, <2>1
    <3> QED BY <1>3, <1>8, <1>9, <1>10, <2>1, <3>1 DEF Away
  <2> QED BY <2>1 DEF Away
<1>15. \A q \in SpPage : q # h => SameHeader(S.mem, T.mem, q)
  BY <1>3, <1>8, <1>9, <1>10 DEF SameData, SameHeader
<1>16. T.map = S.map
  BY <1>7
<1> QED BY <1>1, <1>4, <1>10, <1>11, <1>12, <1>13, <1>14, <1>15, <1>16 DEF PopFacts, T

\* A free page block that is a new one in the heap T2.
LEMMA NewFreeOK ==
  ASSUME ConstantsOK, NEW T, Typed(T), NEW r \in SpPage, NEW n \in Lens, NEW O, NEW C,
         NEW T2, T2 = WithFree(T, r, n), Typed(T2), r \in FreeIn(T2, O, n), Lists(T2, O, {r}, C)
  PROVE  LET G == NewFree(T, r, n)
         IN Typed(G) /\ SameData(T2, G) /\ Away(T2, G, O) /\ Lists(G, O, {}, C)
<1> DEFINE G == ListFree(T2, r)
<1>1. NewFree(T, r, n) = G
  BY NewFreeIs
<1>2. T2.mem[r].length = n /\ r \in {r}
  BY DEF FreeIn
<1>3. Typed(G) /\ SameData(T2, G) /\ Away(T2, G, O) /\ Lists(G, O, {r} \ {r}, C)
  BY <1>2, ListFreeOK
<1>4. {r} \ {r} = {}
  OBVIOUS
<1> QED BY <1>1, <1>3, <1>4

\* The heap G has a page block h of len pages in use that S has not.
GotBlock(S, G, O, C, s, h, len) ==
  /\ Typed(G) /\ Tiled(G.mem, G.map, s) /\ Short(G, s) /\ Lists(G, O, {}, C)
  /\ h \in SpPage /\ h[1] = s /\ s \in O /\ h \notin C
  /\ BusyOf(G, s) = BusyOf(S, s) \cup {h} /\ h \notin BusyOf(S, s)
  /\ \A q \in BusyOf(S, s) : SameHeader(S.mem, G.mem, q)
  /\ ~G.mem[h].free /\ G.mem[h].length = len
  /\ Elsewhere(S, G, O, s)

\* pb_alloc_from_tlh, if the page block has the right length.
LEMMA ExactOK ==
  ASSUME ConstantsOK, NEW S, Typed(S), NEW O, NEW C, Lists(S, O, {}, C),
         NEW c \in Lens, S.free[c] # NULL, NEW h, h = S.free[c], NEW s, s = h[1],
         s \in O, Tiled(S.mem, S.map, s), Short(S, s)
  PROVE  GotBlock(S, Popped(S, c, h), O, C, s, h, c)
<1> DEFINE T == Popped(S, c, h)
<1>1. h \in FreeIn(S, O, c) /\ h \notin C /\ PopFacts(S, T, O, C, h, c)
  BY PopOK
<1> HIDE DEF T
<1>2. /\ Typed(T) /\ T.map = S.map /\ Lists(T, O, {}, C) /\ Away(S, T, O)
      /\ ~T.mem[h].free /\ T.mem[h].length = c
      /\ \A q \in SpPage : q # h => SameHeader(S.mem, T.mem, q)
  BY <1>1 DEF PopFacts
<1>3. h \in SpPage /\ S.map[h] = h /\ S.mem[h].free /\ S.mem[h].length = c /\ s \in Superpage
  BY <1>1, Constants DEF FreeIn
<1>4. \A q \in SpPage : T.mem[q].length = S.mem[q].length
  BY <1>2, <1>3 DEF SameHeader
<1>5. Tiled(T.mem, T.map, s)
  BY <1>2, <1>3, <1>4, SameTiled
<1>6. Short(T, s)
  BY <1>2, <1>4 DEF Short
<1>7. BusyOf(T, s) = BusyOf(S, s) \cup {h} /\ h \notin BusyOf(S, s)
  BY <1>2, <1>3 DEF BusyOf, SameHeader
<1>8. \A q \in BusyOf(S, s) : SameHeader(S.mem, T.mem, q)
  BY <1>2, <1>3 DEF BusyOf
<1>9. Elsewhere(S, T, O, s)
  <2>1. \A q \in SpPage : q[1] # s => q # h
    OBVIOUS
  <2> QED BY <1>2, <2>1 DEF Elsewhere, Away
<1> QED BY <1>1, <1>2, <1>3, <1>5, <1>6, <1>7, <1>8, <1>9 DEF GotBlock, T

\* The headers R are new in T2, and only r is free.
FreshStep(T, T2, R, r, O, O2) ==
  /\ T2.free = T.free /\ T2.blk = T.blk
  /\ r \in R /\ \A q \in R : T.map[q] # q
  /\ \A q \in R : q # r => ~T2.mem[q].free
  /\ \A q \in SpPage : q \notin R => /\ T2.mem[q] = T.mem[q]
                                     /\ T2.map[q] = q <=> T.map[q] = q
                                     /\ T.map[q] = q => (q[1] \in O2 <=> q[1] \in O)

\* What a new free page block does to the lists.
LEMMA FreshLists ==
  ASSUME NEW T, NEW T2, NEW R, NEW r, NEW O, NEW O2, NEW C, Lists(T, O, {}, C),
         FreshStep(T, T2, R, r, O, O2)
  PROVE  Lists(T2, O2, {r}, C)
<1> USE DEF FreshStep
<1>1. ASSUME NEW c \in Lens PROVE FreeIn(T2, O2, c) \ {r} = FreeIn(T, O, c) \ {}
  <2>1. ASSUME NEW q \in SpPage PROVE q \in FreeIn(T2, O2, c) \ {r} <=> q \in FreeIn(T, O, c)
    <3>1. CASE q \in R
      BY <3>1 DEF FreeIn
    <3>2. CASE q \notin R
      BY <3>2 DEF FreeIn
    <3> QED BY <3>1, <3>2
  <2> QED BY <2>1 DEF FreeIn
<1>2. C \subseteq SmallIn(T2, O2)
  <2>1. ASSUME NEW q \in C PROVE q \in SmallIn(T2, O2)
    <3>1. q \in SpPage /\ T.map[q] = q /\ q[1] \in O /\ ~T.mem[q].free /\ ~T.mem[q].large
      BY DEF Lists, SmallIn
    <3>2. q \notin R
      BY <3>1
    <3> QED BY <3>1, <3>2 DEF SmallIn
  <2> QED BY <2>1
<1> DEFINE E == {}
           X2 == {r}
<1>3. ResetStep(T, T2, O, O2, E, X2, C, R)
  BY <1>1, <1>2 DEF ResetStep
<1> HIDE DEF E, X2
<1>4. Lists(T, O, E, C)
  BY DEF E
<1>5. Lists(T2, O2, X2, C)
  BY ONLY <1>3, <1>4, ListsReset
<1> QED BY <1>5 DEF X2

\* Page block h = <<s, a>> of c pages is cut to len of them: T2 has the rest at r.
CutBy(T, cut, T2, s, h, r, a, b, c, len, n) ==
  /\ s \in Superpage /\ a \in Lens /\ c \in Lens /\ len \in Lens /\ len < c
  /\ h = <<s, a>> /\ b = a + len /\ r = <<s, b>> /\ n = c - len
  /\ Typed(T) /\ Tiled(T.mem, T.map, s)
  /\ T.map[h] = h /\ ~T.mem[h].free /\ T.mem[h].length = c
  /\ cut = [T EXCEPT !.mem[h].length = len]
  /\ T2 = WithFree(cut, r, n)

\* Where the cut is.
CutAt(map, s, h, r, a, b, e, c, len, n) ==
  /\ h = <<s, a>> /\ r = <<s, b>> /\ h \in SpPage /\ r \in SpPage /\ r # h
  /\ a \in Lens /\ b \in Lens /\ a < b /\ b < e /\ b + n = e /\ e = a + c /\ b = a + len
  /\ n \in Lens /\ n \in Nat /\ len \in 0 .. SUPERPAGE_LEN /\ n < SUPERPAGE_LEN /\ len < SUPERPAGE_LEN
  /\ map[r] = h

LEMMA CutWhere ==
  ASSUME ConstantsOK, NEW T, NEW cut, NEW T2, NEW s, NEW h, NEW r, NEW a, NEW b, NEW c, NEW len, NEW n,
         CutBy(T, cut, T2, s, h, r, a, b, c, len, n), NEW e, e = a + c
  PROVE  CutAt(T.map, s, h, r, a, b, e, c, len, n)
<1>1. /\ s \in Superpage /\ a \in Lens /\ c \in Lens /\ len \in Lens /\ len < c
      /\ h = <<s, a>> /\ b = a + len /\ r = <<s, b>> /\ n = c - len
      /\ Typed(T) /\ Tiled(T.mem, T.map, s) /\ T.map[h] = h /\ T.mem[h].length = c
  BY DEF CutBy
<1>2. SUPERPAGE_LEN \in Nat /\ Lens = 1 .. SUPERPAGE_LEN
  BY Constants
<1>3. TileFacts(T.mem, T.map, s, a, e)
  <2>1. TileHere(T.mem, T.map, s, a)
    BY <1>1 DEF TileHere, Typed
  <2>2. TileFacts(T.mem, T.map, s, a, a + T.mem[<<s, a>>].length)
    BY <2>1, TileKnown
  <2>3. T.mem[<<s, a>>].length = c
    BY <1>1
  <2> QED BY <2>2, <2>3
<1>4. e \in Nat /\ e <= SUPERPAGE_LEN + 1 /\ \A k \in Lens : a <= k /\ k < e => T.map[<<s, k>>] = <<s, a>>
  BY <1>3 DEF TileFacts
<1>5. /\ b \in Lens /\ a < b /\ b < e /\ n \in Lens /\ n \in Nat /\ b + n = e
      /\ len < SUPERPAGE_LEN /\ n < SUPERPAGE_LEN /\ len \in 0 .. SUPERPAGE_LEN
  BY <1>1, <1>2, <1>4
<1>6. h \in SpPage /\ r \in SpPage
  BY <1>1, <1>5, Constants
<1>7. a # b /\ a <= b
  BY <1>1, <1>2, <1>5
<1>8. r # h /\ T.map[r] = h
  BY <1>1, <1>4, <1>5, <1>7
<1> QED BY <1>1, <1>5, <1>6, <1>8 DEF CutAt

\* The headers: h is shorter, r is new.
CutHeaders(m, m2, h, r, len, n) ==
  /\ m2 \in [SpPage -> Header]
  /\ m2[h].length = len /\ ~m2[h].free
  /\ m2[r].length = n /\ m2[r].free
  /\ \A q \in SpPage : q # r => /\ m2[q].free = m[q].free /\ m2[q].large = m[q].large
                                /\ m2[q].whole = m[q].whole
                                /\ m2[q].next = m[q].next /\ m2[q].prev = m[q].prev
                                /\ q # h => m2[q] = m[q]

\* They are the headers of CutBy.
CutMemBy(m, m1, m2, h, r, len, n) ==
  /\ m \in [SpPage -> Header] /\ h \in SpPage /\ r \in SpPage /\ r # h /\ ~m[h].free
  /\ len \in 0 .. SUPERPAGE_LEN /\ n \in Lens
  /\ m1 = [m EXCEPT ![h].length = len] /\ m2 = [m1 EXCEPT ![r] = Fresh(n)]

LEMMA FreshIs ==
  ASSUME ConstantsOK, NEW n \in Lens
  PROVE  Fresh(n).length = n /\ Fresh(n).free /\ Fresh(n) \in Header
<1>1. Fresh(n) = [length |-> n, free |-> TRUE, large |-> FALSE, whole |-> FALSE,
                  next |-> NULL, prev |-> NULL]
      /\ Fresh(n) \in Header
  BY FreshHeader
<1> QED BY <1>1

LEMMA CutMem ==
  ASSUME ConstantsOK, NEW m, NEW m1, NEW m2, NEW h, NEW r, NEW len, NEW n, CutMemBy(m, m1, m2, h, r, len, n)
  PROVE  CutHeaders(m, m2, h, r, len, n) /\ m1 \in [SpPage -> Header]
<1>0. /\ m \in [SpPage -> Header] /\ h \in SpPage /\ r \in SpPage /\ r # h /\ ~m[h].free
      /\ len \in 0 .. SUPERPAGE_LEN /\ n \in Lens
      /\ m1 = [m EXCEPT ![h].length = len] /\ m2 = [m1 EXCEPT ![r] = Fresh(n)]
  BY DEF CutMemBy
<1>1. Lengthened(m, m1, h, len)
  BY <1>0, LengthSet
<1>2. Fresh(n).length = n /\ Fresh(n).free /\ Fresh(n) \in Header
  BY <1>0, FreshIs
<1>3. /\ m1 \in [SpPage -> Header] /\ m1[h].length = len
      /\ \A q \in SpPage : q # h => m1[q] = m[q]
      /\ \A q \in SpPage : /\ m1[q].free = m[q].free /\ m1[q].large = m[q].large
                           /\ m1[q].whole = m[q].whole /\ m1[q].next = m[q].next
                           /\ m1[q].prev = m[q].prev
  BY <1>1 DEF Lengthened
<1>4. /\ m2 \in [SpPage -> Header] /\ m2[r].length = n /\ m2[r].free
      /\ \A q \in SpPage : q # r => m2[q] = m1[q]
  BY <1>0, <1>2, <1>3
<1>5. m2[h] = m1[h] /\ ~m1[h].free
  BY <1>0, <1>3, <1>4
<1> QED BY Zenon, <1>0, <1>3, <1>4, <1>5 DEF CutHeaders

\* What the cut does to superpage s.
Cut(T, T2, s, h, r, len, n) ==
  /\ Typed(T2) /\ Tiled(T2.mem, T2.map, s) /\ CutHeaders(T.mem, T2.mem, h, r, len, n)
  /\ T2.free = T.free /\ T2.blk = T.blk
  /\ T.map[r] = h /\ h # r /\ h[1] = s /\ r[1] = s /\ h \in SpPage /\ r \in SpPage
  /\ \A q \in SpPage : T2.map[q] = q <=> q = r \/ T.map[q] = q
  /\ \A q \in SpPage : q[1] # s => T2.map[q] = T.map[q]

LEMMA CutOK ==
  ASSUME ConstantsOK, NEW T, NEW cut, NEW T2, NEW s, NEW h, NEW r, NEW a, NEW b, NEW c, NEW len, NEW n,
         CutBy(T, cut, T2, s, h, r, a, b, c, len, n)
  PROVE  Typed(cut) /\ Cut(T, T2, s, h, r, len, n)
<1>1. /\ s \in Superpage /\ Typed(T) /\ Tiled(T.mem, T.map, s) /\ T.map[h] = h /\ ~T.mem[h].free
      /\ T.mem[h].length = c /\ cut = [T EXCEPT !.mem[h].length = len] /\ T2 = WithFree(cut, r, n)
  BY DEF CutBy
<1>2. PICK e : e = a + c
  OBVIOUS
<1>3. CutAt(T.map, s, h, r, a, b, e, c, len, n)
  BY <1>2, CutWhere
<1>4. /\ h = <<s, a>> /\ r = <<s, b>> /\ h \in SpPage /\ r \in SpPage /\ r # h
      /\ a \in Lens /\ b \in Lens /\ a < b /\ b < e /\ b + n = e
      /\ n \in Lens /\ n \in Nat /\ len \in 0 .. SUPERPAGE_LEN /\ T.map[r] = h
  BY <1>3 DEF CutAt
<1>5. T = [mem |-> T.mem, map |-> T.map, free |-> T.free, blk |-> T.blk]
      /\ T.mem \in [SpPage -> Header] /\ T.map \in [SpPage -> Ptr] /\ T.free \in [Lens -> Ptr] /\ T.blk \in Ptr
  BY <1>1 DEF Typed
<1>6. PICK m1 : m1 = [T.mem EXCEPT ![h].length = len]
  OBVIOUS
<1>7. PICK m2 : m2 = [m1 EXCEPT ![r] = Fresh(n)]
  OBVIOUS
<1>8. PICK map2 : map2 = SetRange(T.map, r, n, r)
  OBVIOUS
<1>9. CutHeaders(T.mem, m2, h, r, len, n) /\ m1 \in [SpPage -> Header]
  <2>1. CutMemBy(T.mem, m1, m2, h, r, len, n)
    BY Zenon, <1>1, <1>4, <1>5, <1>6, <1>7 DEF CutMemBy
  <2> QED BY <2>1, CutMem
<1>10. Ranged(T.map, map2, s, b, e, r)
  <2>1. r \in Ptr
    BY <1>4 DEF Ptr
  <2>2. Ranged(T.map, SetRange(T.map, <<s, b>>, n, r), s, b, b + n, r)
    BY <1>1, <1>4, <1>5, <2>1, RangeSet
  <2> QED BY <1>4, <1>8, <2>2
<1>11. /\ map2 \in [SpPage -> Ptr]
       /\ \A i \in Lens : map2[<<s, i>>] = IF b <= i /\ i < e THEN r ELSE T.map[<<s, i>>]
       /\ \A p \in SpPage : p[1] # s => map2[p] = T.map[p]
  BY <1>10 DEF Ranged
<1>12. cut = [mem |-> m1, map |-> T.map, free |-> T.free, blk |-> T.blk]
  <2>1. cut = [T EXCEPT !.mem = m1]
    BY <1>1, <1>6
  <2> QED BY <1>5, <2>1
<1>13. Typed(cut)
  BY <1>5, <1>9, <1>12 DEF Typed
<1>14. T2 = [mem |-> m2, map |-> map2, free |-> T.free, blk |-> T.blk]
  BY <1>1, <1>7, <1>8, <1>12 DEF WithFree
<1>15. m2 \in [SpPage -> Header]
  BY <1>9 DEF CutHeaders
<1>16. Typed(T2) /\ T2.mem = m2 /\ T2.map = map2 /\ T2.free = T.free /\ T2.blk = T.blk
  BY <1>5, <1>11, <1>14, <1>15 DEF Typed
<1>17. SplitStep(T.mem, T.map, m2, map2, s, a, b, e)
  <2>1. m2[<<s, a>>].length = len /\ m2[<<s, b>>].length = n
    BY <1>4, <1>9 DEF CutHeaders
  <2>2. len = b - a /\ n = e - b /\ e = a + c
    BY <1>3 DEF CutAt
  <2>3. ASSUME NEW i \in Lens, i # a, i # b PROVE m2[<<s, i>>].length = T.mem[<<s, i>>].length
    <3>1. <<s, i>> \in SpPage /\ <<s, i>> # r /\ <<s, i>> # h
      BY <1>1, <1>4, <2>3, Constants
    <3> QED BY <1>9, <3>1 DEF CutHeaders
  <2>4. T.mem[<<s, a>>].length = c /\ T.map[<<s, a>>] = <<s, a>>
    BY <1>1, <1>4
  <2>5. \A i \in Lens : map2[<<s, i>>] = IF b <= i /\ i < e THEN <<s, b>> ELSE T.map[<<s, i>>]
    BY <1>4, <1>11
  <2> QED BY Zenon, <1>4, <1>15, <2>1, <2>2, <2>3, <2>4, <2>5 DEF SplitStep
<1>18. /\ Tiled(m2, map2, s)
       /\ \A i \in Lens : map2[<<s, i>>] = <<s, i>> <=> i = b \/ T.map[<<s, i>>] = <<s, i>>
  BY <1>1, <1>5, <1>17, Split
<1>19. ASSUME NEW q \in SpPage PROVE map2[q] = q <=> q = r \/ T.map[q] = q
  <2>1. PICK x \in Superpage, i \in Lens : q = <<x, i>>
    BY DEF SpPage, Lens
  <2>2. CASE x = s
    <3>1. map2[<<s, i>>] = <<s, i>> <=> i = b \/ T.map[<<s, i>>] = <<s, i>>
      BY <1>18
    <3>2. q = r <=> i = b
      BY <1>4, <2>1, <2>2
    <3> QED BY <2>1, <2>2, <3>1, <3>2
  <2>3. CASE x # s
    <3>1. q[1] # s /\ q # r
      BY <1>4, <2>1, <2>3
    <3> QED BY <1>11, <3>1
  <2> QED BY <2>2, <2>3
<1>20. h[1] = s /\ r[1] = s
  BY <1>4
<1>21. Cut(T, T2, s, h, r, len, n)
  BY Zenon, <1>4, <1>9, <1>11, <1>16, <1>18, <1>19, <1>20 DEF Cut
<1> QED BY <1>13, <1>21

\* The lists when the rest is free and not on its list yet.
LEMMA CutLists ==
  ASSUME ConstantsOK, NEW T, NEW T2, NEW s, NEW h, NEW r, NEW len, NEW n, Cut(T, T2, s, h, r, len, n),
         NEW O, s \in O, NEW C, Lists(T, O, {}, C), ~T.mem[h].free
  PROVE  r \in FreeIn(T2, O, n) /\ Lists(T2, O, {r}, C)
<1>1. /\ T2.free = T.free /\ T2.blk = T.blk /\ h # r /\ r[1] = s /\ h \in SpPage /\ r \in SpPage /\ T.map[r] # r
      /\ \A q \in SpPage : T2.map[q] = q <=> q = r \/ T.map[q] = q
  BY DEF Cut
<1>2. /\ ~T2.mem[h].free /\ T2.mem[r].length = n /\ T2.mem[r].free
      /\ \A q \in SpPage : q # r => /\ T2.mem[q].free = T.mem[q].free /\ T2.mem[q].large = T.mem[q].large
                                    /\ T2.mem[q].next = T.mem[q].next /\ T2.mem[q].prev = T.mem[q].prev
                                    /\ q # h => T2.mem[q] = T.mem[q]
  BY DEF Cut, CutHeaders
<1>3. r \in FreeIn(T2, O, n)
  BY <1>1, <1>2 DEF FreeIn
<1>4. ASSUME NEW c1 \in Lens PROVE FreeIn(T2, O, c1) \ {r} = FreeIn(T, O, c1) \ {}
  <2>1. ASSUME NEW q \in SpPage PROVE q \in FreeIn(T2, O, c1) \ {r} <=> q \in FreeIn(T, O, c1)
    <3>1. CASE q = r
      BY <1>1, <3>1 DEF FreeIn
    <3>2. CASE q # r
      BY <1>1, <1>2, <3>2 DEF FreeIn
    <3> QED BY <3>1, <3>2
  <2> QED BY <2>1 DEF FreeIn
<1>5. C \subseteq SmallIn(T2, O)
  <2>1. ASSUME NEW q \in C PROVE q \in SmallIn(T2, O)
    <3>1. q \in SmallIn(T, O)
      BY DEF Lists
    <3>2. q \in SpPage /\ T.map[q] = q /\ q[1] \in O /\ ~T.mem[q].free /\ ~T.mem[q].large /\ q # r
      BY <1>1, <3>1 DEF SmallIn
    <3> QED BY <1>1, <1>2, <3>2 DEF SmallIn
  <2> QED BY <2>1
<1>6. PICK R, E : R = {r} /\ E = {}
  OBVIOUS
<1>7. ResetStep(T, T2, O, O, E, R, C, R)
  <2>1. \A q \in R : T.map[q] # q
    BY <1>1, <1>6
  <2>2. \A q \in SpPage : q \notin R => T2.mem[q].next = T.mem[q].next /\ T2.mem[q].prev = T.mem[q].prev
    BY <1>2, <1>6
  <2>3. \A c1 \in Lens : FreeIn(T2, O, c1) \ R = FreeIn(T, O, c1) \ E
    BY <1>4, <1>6
  <2> QED BY <1>1, <1>5, <2>1, <2>2, <2>3 DEF ResetStep
<1>8. Lists(T2, O, R, C)
  BY <1>6, <1>7, ListsReset
<1> QED BY <1>3, <1>6, <1>8

\* Then the rest goes to its list.
RestBy(S, T, cut, T2, G, O, C, s, h, r, c, len, n) ==
  /\ GotBlock(S, T, O, C, s, h, c) /\ Cut(T, T2, s, h, r, len, n) /\ Typed(cut)
  /\ s \in Superpage /\ n \in Lens /\ len < SUPERPAGE_LEN /\ n < SUPERPAGE_LEN
  /\ T2 = WithFree(cut, r, n) /\ r \in FreeIn(T2, O, n) /\ Lists(T2, O, {r}, C)
  /\ G = NewFree(cut, r, n)

LEMMA GotRest ==
  ASSUME ConstantsOK, NEW S, NEW T, NEW cut, NEW T2, NEW G, NEW O, NEW C, NEW s, NEW h, NEW r, NEW c, NEW len,
         NEW n, RestBy(S, T, cut, T2, G, O, C, s, h, r, c, len, n)
  PROVE  GotBlock(S, G, O, C, s, h, len)
<1>0. /\ GotBlock(S, T, O, C, s, h, c) /\ Cut(T, T2, s, h, r, len, n) /\ Typed(cut)
      /\ s \in Superpage /\ n \in Lens /\ len < SUPERPAGE_LEN /\ n < SUPERPAGE_LEN
      /\ T2 = WithFree(cut, r, n) /\ r \in FreeIn(T2, O, n) /\ Lists(T2, O, {r}, C)
      /\ G = NewFree(cut, r, n)
  BY DEF RestBy
<1>1. /\ Short(T, s) /\ h \in SpPage /\ h[1] = s /\ s \in O /\ h \notin C
      /\ BusyOf(T, s) = BusyOf(S, s) \cup {h} /\ h \notin BusyOf(S, s)
      /\ \A q \in BusyOf(S, s) : SameHeader(S.mem, T.mem, q)
      /\ Elsewhere(S, T, O, s)
  BY <1>0 DEF GotBlock
<1>2. /\ Typed(T2) /\ Tiled(T2.mem, T2.map, s)
      /\ T.map[r] = h /\ h # r /\ r[1] = s /\ r \in SpPage
      /\ \A q \in SpPage : T2.map[q] = q <=> q = r \/ T.map[q] = q
      /\ \A q \in SpPage : q[1] # s => T2.map[q] = T.map[q]
  BY <1>0 DEF Cut
<1>3. /\ T2.mem[h].length = len /\ ~T2.mem[h].free /\ T2.mem[r].length = n /\ T2.mem[r].free
      /\ \A q \in SpPage : q # r => /\ T2.mem[q].free = T.mem[q].free /\ T2.mem[q].large = T.mem[q].large
                                    /\ T2.mem[q].whole = T.mem[q].whole
                                    /\ q # h => T2.mem[q] = T.mem[q]
  BY <1>0 DEF Cut, CutHeaders
<1>4. Typed(G) /\ SameData(T2, G) /\ Away(T2, G, O) /\ Lists(G, O, {}, C)
  BY <1>0, <1>2, NewFreeOK
<1>5. G.map = T2.map /\ \A q \in SpPage : SameHeader(T2.mem, G.mem, q)
  BY <1>4 DEF SameData, SameHeader
<1>6. \A q \in SpPage : /\ G.mem[q].length = T2.mem[q].length /\ G.mem[q].free = T2.mem[q].free
                        /\ G.mem[q].large = T2.mem[q].large /\ G.mem[q].whole = T2.mem[q].whole
  BY <1>5 DEF SameHeader
<1>7. Tiled(G.mem, G.map, s)
  BY <1>0, <1>2, <1>5, <1>6, SameTiled
<1>8. Short(G, s)
  <2>1. ASSUME NEW q \in SpPage, q[1] = s, G.map[q] = q PROVE G.mem[q].length < SUPERPAGE_LEN
    <3>1. CASE q = r \/ q = h
      BY <1>0, <1>1, <1>2, <1>3, <1>6, <3>1
    <3>2. CASE q # r /\ q # h
      <4>1. T.map[q] = q /\ G.mem[q].length = T.mem[q].length
        BY <1>2, <1>3, <1>5, <1>6, <2>1, <3>2
      <4> QED BY <1>1, <2>1, <4>1 DEF Short
    <3> QED BY <3>1, <3>2
  <2> QED BY <2>1 DEF Short
<1>9. BusyOf(G, s) = BusyOf(T, s)
  <2>1. ASSUME NEW q \in SpPage PROVE q \in BusyOf(G, s) <=> q \in BusyOf(T, s)
    <3>1. CASE q = r
      <4>1. T.map[q] # q /\ G.mem[q].free
        BY <1>2, <1>3, <1>6, <3>1
      <4> QED BY <4>1 DEF BusyOf
    <3>2. CASE q # r
      <4>1. (G.map[q] = q <=> T.map[q] = q) /\ G.mem[q].free = T.mem[q].free
        BY <1>2, <1>3, <1>5, <1>6, <3>2
      <4> QED BY <4>1 DEF BusyOf
    <3> QED BY <3>1, <3>2
  <2> QED BY <2>1 DEF BusyOf
<1>10. ASSUME NEW q \in BusyOf(S, s) PROVE SameHeader(S.mem, G.mem, q)
  <2>1. q \in SpPage /\ q # h /\ q \in BusyOf(T, s) /\ SameHeader(S.mem, T.mem, q)
    BY <1>1 DEF BusyOf
  <2>2. q # r
    BY <1>2, <2>1 DEF BusyOf
  <2>3. T2.mem[q] = T.mem[q]
    BY <1>3, <2>1, <2>2
  <2> QED BY <1>6, <2>1, <2>3 DEF SameHeader
<1>11. ~G.mem[h].free /\ G.mem[h].length = len
  BY <1>1, <1>3, <1>6
<1>12. Elsewhere(S, G, O, s)
  <2>1. ASSUME NEW q \in SpPage
        PROVE  /\ q[1] \notin O => G.mem[q] = S.mem[q]
               /\ q[1] # s => G.map[q] = S.map[q] /\ SameHeader(S.mem, G.mem, q)
    <3>1. /\ q[1] \notin O => T.mem[q] = S.mem[q]
          /\ q[1] # s => T.map[q] = S.map[q] /\ SameHeader(S.mem, T.mem, q)
      BY <1>1 DEF Elsewhere
    <3>2. q[1] # s => T2.mem[q] = T.mem[q] /\ T2.map[q] = T.map[q]
      BY <1>1, <1>2, <1>3
    <3>3. q[1] \notin O => G.mem[q] = T2.mem[q] /\ q[1] # s
      BY <1>1, <1>4 DEF Away
    <3>4. CASE q[1] \notin O
      BY <1>5, <3>1, <3>2, <3>3, <3>4 DEF SameHeader
    <3>5. CASE q[1] \in O
      BY <1>5, <3>1, <3>2, <3>5 DEF SameHeader
    <3> QED BY <3>4, <3>5
  <2> QED BY <2>1 DEF Elsewhere
<1> QED BY Zenon, <1>1, <1>4, <1>7, <1>8, <1>9, <1>10, <1>11, <1>12 DEF GotBlock

\* pb_alloc_from_tlh with pb_split: the rest becomes a free page block.
LEMMA SplitOK ==
  ASSUME ConstantsOK, NEW S, Typed(S), NEW O, NEW C, Lists(S, O, {}, C),
         NEW c \in Lens, S.free[c] # NULL, NEW h, h = S.free[c], NEW s, s = h[1],
         s \in O, Tiled(S.mem, S.map, s), Short(S, s), NEW len \in Lens, len < c, NEW r, r = <<s, h[2] + len>>
  PROVE  GotBlock(S, NewFree([Popped(S, c, h) EXCEPT !.mem[h].length = len], r, c - len), O, C, s, h, len)
<1>1. PICK T, cut, n : T = Popped(S, c, h) /\ cut = [T EXCEPT !.mem[h].length = len] /\ n = c - len
  OBVIOUS
<1>2. PICK T2, G : T2 = WithFree(cut, r, n) /\ G = NewFree(cut, r, n)
  OBVIOUS
<1>3. GotBlock(S, T, O, C, s, h, c) /\ h \in FreeIn(S, O, c) /\ PopFacts(S, T, O, C, h, c)
  <2>1. h \in FreeIn(S, O, c) /\ PopFacts(S, T, O, C, h, c)
    BY <1>1, PopOK
  <2>2. GotBlock(S, T, O, C, s, h, c)
    BY <1>1, ExactOK
  <2> QED BY <2>1, <2>2
<1>4. /\ Typed(T) /\ Tiled(T.mem, T.map, s) /\ Short(T, s) /\ Lists(T, O, {}, C)
      /\ h \in SpPage /\ h \notin C
      /\ BusyOf(T, s) = BusyOf(S, s) \cup {h} /\ h \notin BusyOf(S, s)
      /\ \A q \in BusyOf(S, s) : SameHeader(S.mem, T.mem, q)
      /\ ~T.mem[h].free /\ T.mem[h].length = c
      /\ Elsewhere(S, T, O, s)
  BY <1>3 DEF GotBlock
<1>5. T.map[h] = h
  BY Zenon, <1>3 DEF PopFacts, FreeIn
<1>6. PICK a, b : a = h[2] /\ b = a + len
  BY Zenon
<1>7. CutBy(T, cut, T2, s, h, r, a, b, c, len, n)
  <2>1. h = <<s, a>> /\ s \in Superpage /\ a \in Lens
    BY <1>4, <1>6, Constants
  <2>2. r = <<s, b>>
    BY <1>6
  <2> QED BY Zenon, <1>1, <1>2, <1>4, <1>5, <1>6, <2>1, <2>2 DEF CutBy
<1>8. CutAt(T.map, s, h, r, a, b, a + c, c, len, n)
  BY <1>7, CutWhere
<1>9. Typed(cut) /\ Cut(T, T2, s, h, r, len, n)
  BY <1>7, CutOK
<1>10. r \in FreeIn(T2, O, n) /\ Lists(T2, O, {r}, C)
  BY <1>4, <1>9, CutLists
<1>11. GotBlock(S, G, O, C, s, h, len)
  <2>1. n \in Lens /\ len < SUPERPAGE_LEN /\ n < SUPERPAGE_LEN
    BY <1>8 DEF CutAt
  <2>2. s \in Superpage
    BY <1>7 DEF CutBy
  <2>3. RestBy(S, T, cut, T2, G, O, C, s, h, r, c, len, n)
    BY Zenon, <1>2, <1>3, <1>9, <1>10, <2>1, <2>2 DEF RestBy
  <2> QED BY Zenon, <2>3, GotRest
<1> QED BY Zenon, <1>1, <1>2, <1>11

\* A superpage cut in two page blocks at page b.
TwoCut(m, map, s, b) ==
  /\ m[<<s, 1>>].length = b - 1 /\ m[<<s, b>>].length = SUPERPAGE_LEN + 1 - b
  /\ \A i \in Lens : map[<<s, i>>] = IF i < b THEN <<s, 1>> ELSE <<s, b>>

LEMMA TwoTiles ==
  ASSUME ConstantsOK, NEW m, NEW map, NEW s \in Superpage, NEW b \in Lens, b > 1,
         TwoCut(m, map, s, b)
  PROVE  Tiled(m, map, s)
<1> USE DEF TwoCut
<1>1. SUPERPAGE_LEN \in Nat /\ b \in Nat /\ 1 \in Lens /\ Lens = 1 .. SUPERPAGE_LEN
  BY Constants
<1>2. Tile(m, map, s, 1)
  BY <1>1 DEF Tile
<1>3. Tile(m, map, s, b)
  BY <1>1 DEF Tile
<1>4. ASSUME NEW i \in Lens
      PROVE  \E j \in Lens : j <= i /\ i < j + m[<<s, j>>].length /\ Tile(m, map, s, j)
  <2>1. CASE i < b
    <3>1. 1 <= i /\ i < 1 + m[<<s, 1>>].length
      BY <1>1, <2>1
    <3> QED BY <1>1, <1>2, <3>1
  <2>2. CASE ~(i < b)
    <3>1. b <= i /\ i < b + m[<<s, b>>].length
      BY <1>1, <2>2
    <3> QED BY <1>3, <3>1
  <2> QED BY <2>1, <2>2
<1> QED BY <1>4 DEF Tiled

\* A superpage that has just been got, with a page block in use at h and a
\* free one at r.
NewPair(S, T, T2, s, h, r, len) ==
  /\ Typed(T) /\ Typed(T2) /\ T2 = WithFree(T, r, SUPERPAGE_LEN - len)
  /\ T2.free = S.free /\ T2.blk = S.blk
  /\ T2.mem[h].length = len /\ ~T2.mem[h].free
  /\ T2.mem[r].length = SUPERPAGE_LEN - len /\ T2.mem[r].free
  /\ \A q \in SpPage \ {h, r} : T2.mem[q] = S.mem[q]
  /\ \A q \in SpPage : q[1] # s => T2.map[q] = S.map[q]
  /\ \A i \in Lens : T2.map[<<s, i>>] = IF i < 1 + len THEN h ELSE r

LEMMA PairMade ==
  ASSUME ConstantsOK, NEW S, Typed(S), NEW s \in Superpage,
         NEW len \in Lens, len < SUPERPAGE_LEN, NEW h, h = <<s, 1>>, NEW r, r = <<s, 1 + len>>
  PROVE  /\ \E T, T2 : /\ NewPair(S, T, T2, s, h, r, len)
                       /\ FromSuperpage(S, s, len) = [pb |-> h, heap |-> NewFree(T, r, SUPERPAGE_LEN - len)]
         /\ h \in SpPage /\ r \in SpPage /\ h # r /\ 1 + len \in Lens /\ SUPERPAGE_LEN - len \in Lens
<1> DEFINE used == [Zeroed EXCEPT !.length = len, !.free = FALSE]
           n == SUPERPAGE_LEN - len
           b == 1 + len
           m1 == [S.mem EXCEPT ![h] = used]
           map1 == SetRange(S.map, h, len, h)
           m2 == [m1 EXCEPT ![r] = Fresh(n)]
           map2 == SetRange(map1, r, n, r)
           S1 == [S EXCEPT !.mem[h] = used]
           T == [mem |-> m1, map |-> map1, free |-> S.free, blk |-> S.blk]
           T2 == [mem |-> m2, map |-> map2, free |-> S.free, blk |-> S.blk]
<1>1. /\ SUPERPAGE_LEN \in Nat /\ len \in Nat /\ 1 \in Lens /\ b \in Lens /\ n \in Lens /\ n \in Nat /\ b > 1
      /\ b + n = SUPERPAGE_LEN + 1 /\ Lens = 1 .. SUPERPAGE_LEN /\ 1 + len = b
  BY Constants
<1>2. r = <<s, b>> /\ h \in SpPage /\ r \in SpPage /\ h # r
  BY <1>1, Constants
<1>3. used = [length |-> len, free |-> FALSE, large |-> FALSE, whole |-> FALSE, next |-> NULL, prev |-> NULL]
      /\ used \in Header
  BY FreshHeader
<1>4. Fresh(n).length = n /\ Fresh(n).free /\ Fresh(n) \in Header
  <2> HIDE DEF n
  <2>1. Fresh(n) = [length |-> n, free |-> TRUE, large |-> FALSE, whole |-> FALSE,
                    next |-> NULL, prev |-> NULL]
        /\ Fresh(n) \in Header
    BY <1>1, FreshHeader
  <2> QED BY <2>1
<1>5. used.length = len /\ ~used.free
  BY <1>3
<1> HIDE DEF used, n, b
<1>6. S = [mem |-> S.mem, map |-> S.map, free |-> S.free, blk |-> S.blk]
      /\ S.mem \in [SpPage -> Header] /\ S.map \in [SpPage -> Ptr] /\ S.free \in [Lens -> Ptr] /\ S.blk \in Ptr
  BY DEF Typed
<1>7. m1 \in [SpPage -> Header] /\ m1[h] = used /\ \A q \in SpPage \ {h} : m1[q] = S.mem[q]
  BY <1>2, <1>3, <1>6
<1>8. Ranged(S.map, map1, s, 1, b, h)
  <2>1. h \in Ptr
    BY <1>2 DEF Ptr
  <2>2. Ranged(S.map, SetRange(S.map, <<s, 1>>, len, h), s, 1, 1 + len, h)
    BY <1>1, <1>6, <2>1, RangeSet
  <2> QED BY <1>1, <2>2
<1>9. Ranged(map1, map2, s, b, b + n, r)
  <2>1. r \in Ptr /\ map1 \in [SpPage -> Ptr]
    BY <1>2, <1>8 DEF Ptr, Ranged
  <2>2. Ranged(map1, SetRange(map1, <<s, b>>, n, r), s, b, b + n, r)
    BY <1>1, <2>1, RangeSet
  <2> QED BY <1>2, <2>2
<1>10. m2 \in [SpPage -> Header] /\ m2[r] = Fresh(n) /\ \A q \in SpPage \ {r} : m2[q] = m1[q]
  <2> HIDE DEF m1
  <2> QED BY <1>2, <1>4, <1>7
<1>11. Remapped(S1, h) = T
  <2>1. S1 = [S EXCEPT !.mem = m1]
    OBVIOUS
  <2>2. S1 = [mem |-> m1, map |-> S.map, free |-> S.free, blk |-> S.blk]
    <3> HIDE DEF m1, S1
    <3> QED BY <1>6, <2>1
  <2>3. S1.mem[h].length = len /\ S1.map = S.map
    <3> HIDE DEF m1, S1
    <3> QED BY <1>5, <1>7, <2>2
  <2>4. Remapped(S1, h) = [S1 EXCEPT !.map = SetRange(S.map, h, len, h)]
    <3> HIDE DEF S1
    <3> QED BY <2>3 DEF Remapped
  <2> HIDE DEF m1, map1, S1
  <2> QED BY <2>2, <2>4 DEF map1
<1>12. T2 = WithFree(T, r, n)
  <2> HIDE DEF m1, map1
  <2> QED BY DEF WithFree
<1> HIDE DEF m1, m2, map1, map2
<1>13. Typed(T) /\ Typed(T2)
  BY <1>6, <1>7, <1>8, <1>9, <1>10 DEF Typed, Ranged
<1>14. \A q \in SpPage : q[1] # s => map2[q] = S.map[q]
  BY <1>8, <1>9 DEF Ranged
<1>15. ASSUME NEW i \in Lens PROVE map2[<<s, i>>] = IF i < b THEN h ELSE r
  <2>1. map2[<<s, i>>] = IF b <= i /\ i < b + n THEN r ELSE map1[<<s, i>>]
    BY <1>9 DEF Ranged
  <2>2. map1[<<s, i>>] = IF 1 <= i /\ i < b THEN h ELSE S.map[<<s, i>>]
    BY <1>8 DEF Ranged
  <2> QED BY <1>1, <2>1, <2>2
<1>16. /\ T2.mem[h].length = len /\ ~T2.mem[h].free
       /\ T2.mem[r].length = n /\ T2.mem[r].free
       /\ \A q \in SpPage \ {h, r} : T2.mem[q] = S.mem[q]
  BY <1>2, <1>4, <1>5, <1>7, <1>10
<1>17. NewPair(S, T, T2, s, h, r, len)
  <2> HIDE DEF T, T2
  <2>1. T2.free = S.free /\ T2.blk = S.blk /\ T2.map = map2
    BY DEF T2
  <2>2. n = SUPERPAGE_LEN - len
    BY DEF n
  <2>3. \A i \in Lens : T2.map[<<s, i>>] = IF i < 1 + len THEN h ELSE r
    BY <1>1, <1>15, <2>1
  <2> QED BY <1>12, <1>13, <1>14, <1>16, <2>1, <2>2, <2>3 DEF NewPair
<1>18. FromSuperpage(S, s, len) = [pb |-> h, heap |-> NewFree(T, r, n)]
  <2> HIDE DEF T
  <2> QED BY <1>11 DEF FromSuperpage, n, used
<1> HIDE DEF T, T2
<1>19. \E U, U2 : NewPair(S, U, U2, s, h, r, len)
                  /\ FromSuperpage(S, s, len) = [pb |-> h, heap |-> NewFree(U, r, n)]
  BY <1>17, <1>18
<1> QED BY <1>1, <1>2, <1>19 DEF n

\* A superpage from the pool.
LEMMA SuperpageOK ==
  ASSUME ConstantsOK, NEW S, Typed(S), NEW O, NEW C, Lists(S, O, {}, C),
         NEW s \in Superpage \ O, \A i \in Lens : S.map[<<s, i>>] = NULL,
         NEW len \in Lens, len < SUPERPAGE_LEN, NEW h, h = <<s, 1>>
  PROVE  /\ FromSuperpage(S, s, len).pb = h
         /\ GotBlock(S, FromSuperpage(S, s, len).heap, O \cup {s}, C, s, h, len)
<1> DEFINE r == <<s, 1 + len>>
           b == 1 + len
           n == SUPERPAGE_LEN - len
           P == O \cup {s}
<1>1. /\ \E T, T2 : /\ NewPair(S, T, T2, s, h, r, len)
                    /\ FromSuperpage(S, s, len) = [pb |-> h, heap |-> NewFree(T, r, n)]
      /\ h \in SpPage /\ r \in SpPage /\ h # r /\ 1 + len \in Lens /\ n \in Lens
  BY PairMade
<1>2. PICK T, T2 : /\ NewPair(S, T, T2, s, h, r, len)
                   /\ FromSuperpage(S, s, len) = [pb |-> h, heap |-> NewFree(T, r, n)]
  BY <1>1
<1>3. b \in Lens /\ b > 1 /\ SUPERPAGE_LEN \in Nat /\ len \in Nat /\ n < SUPERPAGE_LEN
      /\ Lens = 1 .. SUPERPAGE_LEN /\ b = 1 + len /\ len = b - 1 /\ n = SUPERPAGE_LEN + 1 - b
  BY <1>1, Constants
<1>4. r = <<s, b>> /\ r[1] = s /\ r[2] = b /\ h[1] = s /\ h[2] = 1
  OBVIOUS
<1> DEFINE G == NewFree(T, r, n)
<1>5. /\ Typed(T) /\ Typed(T2) /\ T2 = WithFree(T, r, n)
      /\ T2.free = S.free /\ T2.blk = S.blk
      /\ T2.mem[h].length = len /\ ~T2.mem[h].free
      /\ T2.mem[r].length = n /\ T2.mem[r].free
      /\ \A q \in SpPage \ {h, r} : T2.mem[q] = S.mem[q]
      /\ \A q \in SpPage : q[1] # s => T2.map[q] = S.map[q]
      /\ \A i \in Lens : T2.map[<<s, i>>] = IF i < b THEN h ELSE r
  BY <1>2, <1>3 DEF NewPair
<1> HIDE DEF n, b, r
<1>6. Tiled(T2.mem, T2.map, s)
  <2>1. T2.mem[<<s, 1>>].length = b - 1 /\ T2.mem[<<s, b>>].length = SUPERPAGE_LEN + 1 - b
    <3>1. <<s, 1>> = h /\ <<s, b>> = r
      BY <1>4
    <3>2. T2.mem[h].length = b - 1
      BY <1>3, <1>5
    <3>3. T2.mem[r].length = SUPERPAGE_LEN + 1 - b
      BY <1>3, <1>5
    <3> QED BY <3>1, <3>2, <3>3, Zenon
  <2>2. \A i \in Lens : T2.map[<<s, i>>] = IF i < b THEN <<s, 1>> ELSE <<s, b>>
    BY <1>4, <1>5
  <2>3. s \in Superpage /\ b \in Lens /\ b > 1
    BY <1>3
  <2> DEFINE m == T2.mem
             map == T2.map
  <2>4. TwoCut(m, map, s, b)
    BY <2>1, <2>2 DEF TwoCut
  <2> HIDE DEF m, map
  <2>5. Tiled(m, map, s)
    BY ONLY ConstantsOK, <2>3, <2>4, TwoTiles
  <2> QED BY <2>5 DEF m, map
<1>7. T2.map[h] = h /\ T2.map[r] = r
  <2>1. 1 \in Lens /\ 1 < b /\ ~(b < b)
    BY <1>3
  <2> QED BY <1>3, <1>4, <1>5, <2>1
<1>8. ASSUME NEW q \in SpPage, q[1] = s, T2.map[q] = q PROVE q = h \/ q = r
  <2>1. q = <<q[1], q[2]>> /\ q[2] \in Lens
    BY Constants
  <2>2. T2.map[q] = IF q[2] < b THEN h ELSE r
    BY <1>5, <1>8, <2>1
  <2> QED BY <1>8, <2>2
<1>9. ASSUME NEW q \in SpPage, q[1] = s PROVE S.map[q] # q
  <2>1. q = <<q[1], q[2]>> /\ q[2] \in Lens
    BY Constants
  <2>2. S.map[q] = NULL
    BY <1>9, <2>1
  <2> QED BY <2>2, Constants
<1>10. FreshStep(S, T2, {h, r}, r, O, P)
  <2>1. \A q \in {h, r} : S.map[q] # q
    BY <1>1, <1>4, <1>9
  <2>2. \A q \in {h, r} : q # r => ~T2.mem[q].free
    BY <1>5
  <2>3. ASSUME NEW q \in SpPage, q \notin {h, r}
        PROVE  /\ T2.mem[q] = S.mem[q]
               /\ T2.map[q] = q <=> S.map[q] = q
               /\ S.map[q] = q => (q[1] \in P <=> q[1] \in O)
    <3>1. T2.mem[q] = S.mem[q]
      BY <1>5, <2>3
    <3>2. CASE q[1] = s
      BY <1>8, <1>9, <2>3, <3>1, <3>2
    <3>3. CASE q[1] # s
      BY <1>5, <3>1, <3>3
    <3> QED BY <3>2, <3>3
  <2> QED BY <1>5, <2>1, <2>2, <2>3 DEF FreshStep
<1>11. Lists(T2, P, {r}, C)
  BY <1>10, FreshLists
<1>12. r \in FreeIn(T2, P, n)
  BY <1>1, <1>4, <1>5, <1>7 DEF FreeIn
<1> HIDE DEF P
<1>13. Typed(G) /\ SameData(T2, G) /\ Away(T2, G, P) /\ Lists(G, P, {}, C)
  BY <1>1, <1>5, <1>11, <1>12, NewFreeOK
<1> HIDE DEF G
<1>14. G.map = T2.map /\ \A q \in SpPage : SameHeader(T2.mem, G.mem, q)
  BY <1>13 DEF SameData, SameHeader
<1>15. Tiled(G.mem, G.map, s)
  BY <1>6, <1>14, SameTiled DEF SameHeader
<1>16. ~G.mem[h].free /\ G.mem[h].length = len /\ G.mem[r].free /\ G.mem[r].length = n
  BY <1>1, <1>5, <1>14 DEF SameHeader
<1>17. Short(G, s)
  BY <1>3, <1>8, <1>14, <1>16 DEF Short
<1>18. BusyOf(G, s) = {h} /\ BusyOf(S, s) = {}
  <2>1. ASSUME NEW q \in SpPage PROVE q \in BusyOf(G, s) <=> q = h
    BY <1>1, <1>4, <1>7, <1>8, <1>14, <1>16 DEF BusyOf
  <2>2. BusyOf(S, s) = {}
    BY <1>9 DEF BusyOf
  <2> QED BY <1>1, <2>1, <2>2 DEF BusyOf
<1>19. h \notin C
  <2>1. C \subseteq SmallIn(S, O)
    BY DEF Lists
  <2> QED BY <1>1, <1>4, <1>9, <2>1 DEF SmallIn
<1>20. Elsewhere(S, G, P, s)
  <2>1. ASSUME NEW q \in SpPage
        PROVE  /\ q[1] \notin P => G.mem[q] = S.mem[q]
               /\ q[1] # s => G.map[q] = S.map[q] /\ SameHeader(S.mem, G.mem, q)
    <3>1. q[1] # s => q \notin {h, r}
      BY <1>4
    <3>2. q[1] # s => T2.mem[q] = S.mem[q] /\ G.map[q] = S.map[q]
      BY <1>5, <1>14, <3>1
    <3>3. q[1] \notin P => G.mem[q] = T2.mem[q] /\ q[1] # s
      BY <1>13 DEF Away, P
    <3> QED BY <1>14, <3>2, <3>3 DEF SameHeader
  <2> QED BY <2>1 DEF Elsewhere
<1>21. s \in P
  BY DEF P
<1>22. GotBlock(S, G, P, C, s, h, len)
  <2>1. BusyOf(G, s) = BusyOf(S, s) \cup {h} /\ h \notin BusyOf(S, s)
        /\ \A q \in BusyOf(S, s) : SameHeader(S.mem, G.mem, q)
    BY <1>18
  <2> QED BY <1>1, <1>4, <1>13, <1>15, <1>16, <1>17, <1>19, <1>20, <1>21, <2>1 DEF GotBlock
<1>23. FromSuperpage(S, s, len).heap = G /\ FromSuperpage(S, s, len).pb = h
  BY <1>2 DEF G
<1> QED BY <1>22, <1>23 DEF P

\* A heap with the superpages O, all of them with a page block in use, and C
\* on the list of the small page blocks.
HeapInv(S, O, C) ==
  /\ Typed(S) /\ Lists(S, O, {}, C)
  /\ \A s \in O : s \in Superpage /\ Tiled(S.mem, S.map, s) /\ Short(S, s)

\* pb_alloc_from_tlh
LEMMA TlhOK ==
  ASSUME ConstantsOK, NEW S, NEW O, NEW C, HeapInv(S, O, C),
         NEW len \in Lens, Fitting(S, len) # {}
  PROVE  LET got == FromTlh(S, len)
         IN \E s \in O : GotBlock(S, got.heap, O, C, s, got.pb, len)
<1> DEFINE c == CHOOSE d \in Fitting(S, len) : \A e \in Fitting(S, len) : d <= e
           h == S.free[c]
           s == h[1]
           r == <<h[1], h[2] + len>>
           T == Popped(S, c, h)
<1>1. SUPERPAGE_LEN \in Nat /\ len \in Nat /\ len \in Lens /\ Lens = 1 .. SUPERPAGE_LEN
  BY Constants
<1>2. \E d \in Fitting(S, len) : \A e \in Fitting(S, len) : d <= e
  <2>1. Fitting(S, len) \subseteq Nat
    BY <1>1 DEF Fitting, NUM_PAGE_CLASSES
  <2> QED BY <2>1, Least
<1>3. c \in Fitting(S, len)
  BY <1>2
<1> HIDE DEF c
<1>4. c \in Lens /\ c >= len /\ S.free[c] # NULL
  BY <1>1, <1>3 DEF Fitting, NUM_PAGE_CLASSES
<1>5. Typed(S) /\ Lists(S, O, {}, C)
  BY DEF HeapInv
<1>6. h \in FreeIn(S, O, c)
  BY <1>4, <1>5, PopOK
<1>7. s \in O /\ S.mem[h].length = c
  BY <1>6 DEF FreeIn
<1>8. Tiled(S.mem, S.map, s) /\ Short(S, s)
  BY <1>7 DEF HeapInv
<1>9. FromTlh(S, len) = [pb |-> h, heap |-> IF c = len THEN T
                                            ELSE NewFree([T EXCEPT !.mem[h].length = len], r, c - len)]
  <2> HIDE DEF s
  <2> QED BY <1>7 DEF FromTlh, Popped, c
<1> DEFINE got == FromTlh(S, len)
<1> HIDE DEF T, r, h, s
<1>10. GotBlock(S, got.heap, O, C, s, got.pb, len)
  <2>1. CASE c = len
    <3>1. GotBlock(S, T, O, C, s, h, c)
      BY <1>4, <1>5, <1>7, <1>8, ExactOK DEF T, h, s
    <3> QED BY <1>9, <2>1, <3>1
  <2>2. CASE c # len
    <3>1. len < c
      BY <1>1, <1>4, <2>2
    <3>2. GotBlock(S, NewFree([Popped(S, c, h) EXCEPT !.mem[h].length = len], r, c - len), O, C, s, h, len)
      BY <1>4, <1>5, <1>7, <1>8, <3>1, SplitOK DEF h, s, r
    <3> QED BY <1>9, <2>2, <3>2 DEF T
  <2> QED BY <2>1, <2>2
<1> QED BY <1>7, <1>10

\* The caller's part.
Handed(G, h, large) ==
  LET T == [G EXCEPT !.mem[h].large = large, !.mem[h].whole = FALSE]
      top == IF T.blk = NULL THEN h ELSE T.blk
  IN IF large THEN T ELSE [ListSmall(T, h) EXCEPT !.blk = top]

\* In superpage s the heap F has a new page block h in use.
HandedBlock(S, F, O, C, s, h, len, large) ==
  /\ Typed(F) /\ Tiled(F.mem, F.map, s) /\ Short(F, s)
  /\ Lists(F, O, {}, IF large THEN C ELSE C \cup {h})
  /\ h \in SpPage /\ h[1] = s /\ s \in O
  /\ BusyOf(F, s) = BusyOf(S, s) \cup {h} /\ h \notin BusyOf(S, s)
  /\ \A q \in BusyOf(S, s) : SameHeader(S.mem, F.mem, q)
  /\ F.mem[h].length = len /\ F.mem[h].large = large /\ ~F.mem[h].whole
  /\ Elsewhere(S, F, O, s)

LEMMA HandedOK ==
  ASSUME ConstantsOK, NEW S, NEW G, NEW O, NEW C, NEW s, NEW h, NEW len,
         GotBlock(S, G, O, C, s, h, len), NEW large \in BOOLEAN
  PROVE  HandedBlock(S, Handed(G, h, large), O, C, s, h, len, large)
<1> DEFINE m1 == [G.mem EXCEPT ![h].large = large]
           m2 == [m1 EXCEPT ![h].whole = FALSE]
           T == [G EXCEPT !.mem[h].large = large, !.mem[h].whole = FALSE]
           top == IF T.blk = NULL THEN h ELSE T.blk
           F == Handed(G, h, large)
<1>1. /\ Typed(G) /\ Tiled(G.mem, G.map, s) /\ Short(G, s) /\ Lists(G, O, {}, C)
      /\ h \in SpPage /\ h[1] = s /\ s \in O /\ h \notin C
      /\ BusyOf(G, s) = BusyOf(S, s) \cup {h} /\ h \notin BusyOf(S, s)
      /\ \A q \in BusyOf(S, s) : SameHeader(S.mem, G.mem, q)
      /\ ~G.mem[h].free /\ G.mem[h].length = len
      /\ Elsewhere(S, G, O, s)
  BY DEF GotBlock
<1>2. G = [mem |-> G.mem, map |-> G.map, free |-> G.free, blk |-> G.blk]
      /\ G.mem \in [SpPage -> Header] /\ G.map \in [SpPage -> Ptr] /\ G.free \in [Lens -> Ptr] /\ G.blk \in Ptr
  BY <1>1 DEF Typed
<1>3. m1 \in [SpPage -> Header] /\ m1[h].large = large /\ m1[h].free = G.mem[h].free
      /\ m1[h].length = G.mem[h].length /\ m1[h].next = G.mem[h].next /\ m1[h].prev = G.mem[h].prev
      /\ \A q \in SpPage : q # h => m1[q] = G.mem[q]
  BY <1>1, <1>2 DEF Header
<1>4. m2 \in [SpPage -> Header] /\ m2[h].large = large /\ m2[h].free = G.mem[h].free
      /\ m2[h].whole = FALSE
      /\ m2[h].length = G.mem[h].length /\ m2[h].next = G.mem[h].next /\ m2[h].prev = G.mem[h].prev
      /\ \A q \in SpPage : q # h => m2[q] = G.mem[q]
  <2> HIDE DEF m1
  <2> QED BY <1>1, <1>3 DEF Header
<1>5. T = [mem |-> m2, map |-> G.map, free |-> G.free, blk |-> G.blk]
  <2>1. T = [[G EXCEPT !.mem = m1] EXCEPT !.mem[h].whole = FALSE]
    BY <1>2
  <2>2. [G EXCEPT !.mem = m1] = [mem |-> m1, map |-> G.map, free |-> G.free, blk |-> G.blk]
    <3> HIDE DEF m1
    <3> QED BY <1>2
  <2> HIDE DEF m1, T
  <2>3. T = [mem |-> m2, map |-> G.map, free |-> G.free, blk |-> G.blk]
    BY <2>1, <2>2
  <2> QED BY <2>3
<1> HIDE DEF m1, m2
<1>6. F = IF large THEN T ELSE [ListSmall(T, h) EXCEPT !.blk = top]
  <2> QED BY DEF Handed
<1> HIDE DEF T
<1>7. Typed(T) /\ T.map = G.map /\ T.free = G.free /\ T.blk = G.blk /\ T.mem = m2
  BY <1>2, <1>4, <1>5 DEF Typed
<1>8. Changed(G, T, h)
  BY <1>1, <1>4, <1>7 DEF Changed
<1>9. Lists(T, O, {}, C)
  BY <1>1, <1>4, <1>7, <1>8, ChangedLists
<1> HIDE DEF F, top
<1>10. /\ Typed(F) /\ SameData(T, F) /\ Away(T, F, O)
       /\ Lists(F, O, {}, IF large THEN C ELSE C \cup {h})
  <2>1. CASE large
    <3>1. F = T
      BY <1>6, <2>1
    <3> QED BY <1>7, <1>9, <2>1, <3>1 DEF SameData, Away
  <2>2. CASE ~large
    <3>1. F = [ListSmall(T, h) EXCEPT !.blk = top]
      BY <1>6, <2>2
    <3>2. h \in BusyOf(G, s)
      BY <1>1
    <3>3. h \in SmallIn(T, O) \ C
      BY <1>1, <1>4, <1>7, <2>2, <3>2 DEF SmallIn, BusyOf
    <3>4. top = h \/ (C # {} /\ top = T.blk)
      <4>1. IsRing(T.mem, C, T.blk)
        BY <1>9 DEF Lists
      <4> QED BY <4>1 DEF IsRing, top
    <3>5. Typed(F) /\ SameData(T, F) /\ Away(T, F, O) /\ Lists(F, O, {}, C \cup {h})
      BY <1>7, <1>9, <3>1, <3>3, <3>4, ListSmallOK
    <3> QED BY <2>2, <3>5
  <2> QED BY <2>1, <2>2
<1>11. /\ F.map = G.map /\ \A q \in SpPage : SameHeader(m2, F.mem, q)
  BY <1>7, <1>10 DEF SameData, SameHeader
<1>12. \A q \in SpPage : F.mem[q].length = G.mem[q].length /\ F.mem[q].free = G.mem[q].free
                         /\ (q # h => SameHeader(G.mem, F.mem, q))
  BY <1>4, <1>11 DEF SameHeader
<1>13. s \in Superpage
  BY <1>1, Constants
<1>14. Tiled(F.mem, F.map, s)
  BY <1>1, <1>11, <1>12, <1>13, SameTiled
<1>15. Short(F, s)
  BY <1>1, <1>11, <1>12 DEF Short
<1>16. BusyOf(F, s) = BusyOf(G, s)
  BY <1>11, <1>12 DEF BusyOf
<1>17. ASSUME NEW q \in BusyOf(S, s) PROVE SameHeader(S.mem, F.mem, q)
  <2>1. q \in SpPage /\ q # h
    BY <1>1 DEF BusyOf
  <2> QED BY <1>1, <1>12, <2>1 DEF SameHeader
<1>18. F.mem[h].length = len /\ F.mem[h].large = large /\ ~F.mem[h].whole
  BY <1>1, <1>4, <1>11 DEF SameHeader
<1>19. Elsewhere(S, F, O, s)
  <2>1. ASSUME NEW q \in SpPage
        PROVE  /\ q[1] \notin O => F.mem[q] = S.mem[q]
               /\ q[1] # s => F.map[q] = S.map[q] /\ SameHeader(S.mem, F.mem, q)
    <3>1. /\ q[1] \notin O => G.mem[q] = S.mem[q]
          /\ q[1] # s => G.map[q] = S.map[q] /\ SameHeader(S.mem, G.mem, q)
      BY <1>1 DEF Elsewhere
    <3>2. (q[1] \notin O => q # h) /\ (q[1] # s => q # h)
      BY <1>1
    <3>3. q[1] \notin O => F.mem[q] = m2[q]
      BY <1>7, <1>10 DEF Away
    <3> QED BY <1>4, <1>11, <1>12, <3>1, <3>2, <3>3 DEF SameHeader
  <2> QED BY <2>1 DEF Elsewhere
<1> QED BY <1>1, <1>10, <1>14, <1>15, <1>16, <1>17, <1>18, <1>19 DEF HandedBlock, F

----------------------------------------------------------------------------
(* The inductive invariant.                                                *)

\* Only small page blocks are ever whole.
Sound(S, x) ==
  /\ Tiled(S.mem, S.map, x) /\ Short(S, x)
  /\ \A q \in BusyOf(S, x) : S.mem[q].large => ~S.mem[q].whole

\* The runs handed out are page blocks in use.
Runs(S, x, rn) ==
  \A q \in SpPage : q[1] = x /\ rn[q] > 0 => q \in BusyOf(S, x) /\ S.mem[q].length = rn[q]

\* What other threads have freed.
Remotes(S, x, rn, pbs) ==
  /\ RemoteOf(S, x, pbs)
  /\ \A k \in 1 .. Len(pbs) : S.mem[pbs[k]].large /\ rn[pbs[k]] = 0

\* An orphan has a small page block in use.
Orphaned(S, x) ==
  /\ \E q \in BusyOf(S, x) : ~S.mem[q].large
  /\ \A q \in BusyOf(S, x) : ~S.mem[q].whole

\* Superpage x with owner o and remote list pbs.
SpOK(S, x, o, rn, pbs) ==
  /\ o = NULL => \A i \in Lens : S.map[<<x, i>>] = NULL
  /\ o # NULL => Sound(S, x)
  /\ Runs(S, x, rn) /\ Remotes(S, x, rn, pbs)
  /\ o = "dead" => Orphaned(S, x)

\* The lists of a thread with superpages O.
ListsOK(S, O, ph) ==
  IF ph = "live" THEN Lists(S, O, {}, SmallIn(S, O))
  ELSE S.blk = NULL \/ \E C : Lists(S, O, {}, C)

\* The list l holds the superpages O, each once.
ListedOK(l, O) ==
  /\ ToSet(l) = O
  /\ \A i, j \in 1 .. Len(l) : l[i] = l[j] => i = j

Now == [mem |-> mem, map |-> pagemap]
Own(t) == {s \in Superpage : owner[s] = t}

SpInv(x) ==
  /\ SpOK(Now, x, owner[x], run, remote_pb_list[x])
  /\ remote_pb_list[x] # << >> => owner[x] \in Thread /\ phase[owner[x]] = "exit"

IInv ==
  /\ TypeOK
  /\ \A x \in Superpage : SpInv(x)
  /\ \A t \in Thread : ListsOK(HeapOf(t), Own(t), phase[t])
  /\ \A t \in Thread : ListedOK(sp_list[t], Own(t))

\* Superpage x looks the same in F.
Still(S, F, x) ==
  \A q \in SpPage : q[1] = x => F.map[q] = S.map[q] /\ SameHeader(S.mem, F.mem, q)

LEMMA StillBusy ==
  ASSUME NEW S, NEW F, NEW x, Still(S, F, x)
  PROVE  BusyOf(F, x) = BusyOf(S, x)
BY DEF Still, BusyOf, SameHeader

LEMMA StillTiled ==
  ASSUME ConstantsOK, NEW S, NEW F, NEW x \in Superpage, Still(S, F, x), Tiled(S.mem, S.map, x)
  PROVE  Tiled(F.mem, F.map, x)
<1>1. \A i \in Lens : F.map[<<x, i>>] = S.map[<<x, i>>] /\ F.mem[<<x, i>>].length = S.mem[<<x, i>>].length
  BY Constants DEF Still, SameHeader
<1>2. ASSUME NEW j \in Lens, Tile(S.mem, S.map, x, j) PROVE Tile(F.mem, F.map, x, j)
  BY <1>1, <1>2 DEF Tile
<1> QED BY <1>1, <1>2 DEF Tiled

LEMMA StillOK ==
  ASSUME ConstantsOK, NEW S, NEW F, NEW x \in Superpage, Still(S, F, x),
         NEW o, NEW rn, NEW rn2, NEW pbs, SpOK(S, x, o, rn, pbs),
         \A q \in SpPage : q[1] = x => rn2[q] = rn[q]
  PROVE  SpOK(F, x, o, rn2, pbs)
<1>1. BusyOf(F, x) = BusyOf(S, x)
  BY StillBusy
<1>2. \A q \in BusyOf(S, x) : SameHeader(S.mem, F.mem, q) /\ q \in SpPage /\ q[1] = x
  BY DEF BusyOf, Still
<1>3. o = NULL => \A i \in Lens : F.map[<<x, i>>] = NULL
  <2>1. \A i \in Lens : F.map[<<x, i>>] = S.map[<<x, i>>]
    BY Constants DEF Still
  <2> QED BY <2>1 DEF SpOK
<1>4. o # NULL => Sound(F, x)
  <2>1. ASSUME Sound(S, x) PROVE Sound(F, x)
    <3>1. Tiled(F.mem, F.map, x)
      BY <2>1, StillTiled DEF Sound
    <3>2. Short(F, x)
      BY <2>1 DEF Sound, Short, Still, SameHeader
    <3>3. \A q \in BusyOf(F, x) : F.mem[q].large => ~F.mem[q].whole
      BY <1>1, <1>2, <2>1 DEF Sound, SameHeader
    <3> QED BY <3>1, <3>2, <3>3 DEF Sound
  <2> QED BY <2>1 DEF SpOK
<1>5. Runs(F, x, rn2)
  <2>1. Runs(S, x, rn)
    BY DEF SpOK
  <2> QED BY <1>1, <1>2, <2>1 DEF Runs, SameHeader
<1>6. Remotes(F, x, rn2, pbs)
  <2>1. Remotes(S, x, rn, pbs)
    BY DEF SpOK
  <2>2. RemoteOf(F, x, pbs)
    BY <1>1, <2>1 DEF Remotes, RemoteOf
  <2>3. ASSUME NEW k \in 1 .. Len(pbs) PROVE F.mem[pbs[k]].large /\ rn2[pbs[k]] = 0
    <3>1. pbs[k] \in BusyOf(S, x)
      BY <2>1 DEF Remotes, RemoteOf
    <3>2. S.mem[pbs[k]].large /\ rn[pbs[k]] = 0
      BY <2>1 DEF Remotes
    <3> QED BY <1>2, <3>1, <3>2 DEF SameHeader
  <2> QED BY <2>2, <2>3 DEF Remotes
<1>7. o = "dead" => Orphaned(F, x)
  <2>1. ASSUME Orphaned(S, x) PROVE Orphaned(F, x)
    BY <1>1, <1>2, <2>1 DEF Orphaned, SameHeader
  <2> QED BY <2>1 DEF SpOK
<1> QED BY <1>3, <1>4, <1>5, <1>6, <1>7 DEF SpOK

\* Another thread's lists, in superpages P, are not touched.
Apart(S, F, P) ==
  /\ F.free = S.free /\ F.blk = S.blk
  /\ \A q \in SpPage : q[1] \in P => F.mem[q] = S.mem[q] /\ F.map[q] = S.map[q]

LEMMA ApartLists ==
  ASSUME NEW S, NEW F, NEW P, Apart(S, F, P), NEW C, Lists(S, P, {}, C)
  PROVE  Lists(F, P, {}, C)
<1>1. ASSUME NEW c \in Lens PROVE IsRing(F.mem, FreeIn(F, P, c) \ {}, F.free[c])
  <2> DEFINE D == FreeIn(S, P, c)
  <2>1. FreeIn(F, P, c) = D
    BY DEF Apart, FreeIn
  <2>2. \A q \in D : F.mem[q] = S.mem[q]
    BY DEF Apart, FreeIn
  <2>3. IsRing(S.mem, D \ {}, S.free[c]) /\ D \ {} = D
    BY DEF Lists
  <2> HIDE DEF D
  <2>4. IsRing(F.mem, D, S.free[c])
    BY <2>2, <2>3, RingSame
  <2>5. FreeIn(F, P, c) \ {} = D /\ F.free = S.free
    BY <2>1 DEF Apart
  <2> QED BY <2>4, <2>5
<1>2. SmallIn(F, P) = SmallIn(S, P)
  BY DEF Apart, SmallIn
<1>3. IsRing(F.mem, C, F.blk)
  <2>1. \A q \in C : F.mem[q] = S.mem[q]
    BY DEF Lists, SmallIn, Apart
  <2>2. IsRing(S.mem, C, S.blk) /\ F.blk = S.blk
    BY DEF Lists, Apart
  <2> QED BY <2>1, <2>2, RingSame
<1>4. C \subseteq SmallIn(F, P)
  BY <1>2 DEF Lists
<1> QED BY <1>1, <1>3, <1>4 DEF Lists

LEMMA ApartOK ==
  ASSUME NEW S, NEW F, NEW P, Apart(S, F, P), NEW ph, ListsOK(S, P, ph)
  PROVE  ListsOK(F, P, ph)
<1>1. SmallIn(F, P) = SmallIn(S, P)
  BY DEF Apart, SmallIn
<1>2. F.blk = S.blk
  BY DEF Apart
<1>3. CASE ph = "live"
  BY <1>1, <1>3, ApartLists DEF ListsOK
<1>4. CASE ph # "live"
  <2>1. CASE S.blk = NULL
    BY <1>2, <1>4, <2>1 DEF ListsOK
  <2>2. CASE S.blk # NULL
    <3>1. PICK C : Lists(S, P, {}, C)
      BY <1>4, <2>2 DEF ListsOK
    <3>2. Lists(F, P, {}, C)
      BY <3>1, ApartLists
    <3> QED BY <1>4, <3>2 DEF ListsOK
  <2> QED BY <2>1, <2>2
<1> QED BY <1>3, <1>4

\* A step of thread t that makes its heap F and changes superpage s only: its
\* owner becomes o, its remote list pbs, and the thread's superpage list l.
HeapStep(t, s, F, o, pbs, l) ==
  /\ IsHeapOf(t, F) /\ Typed(F) /\ Elsewhere(HeapOf(t), F, Own(t) \cup {s}, s)
  /\ owner[s] \in {t, "dead", NULL} /\ o \in {t, "dead", NULL}
  /\ owner' = [owner EXCEPT ![s] = o]
  /\ run' \in [SpPage -> 0 .. NUM_PAGE_CLASSES]
  /\ \A q \in SpPage : q[1] # s => run'[q] = run[q]
  /\ remote_pb_list' = [remote_pb_list EXCEPT ![s] = pbs] /\ pbs \in Seq(SpPage)
  /\ pbs # << >> => o = t /\ phase[t] = "exit"
  /\ phase' = phase
  /\ sp_list' = [sp_list EXCEPT ![t] = l] /\ l \in Seq(Superpage)

\* The thread's superpages then.
Owned(t, s, o) == IF o = t THEN Own(t) \cup {s} ELSE Own(t) \ {s}

LEMMA HeapTyped ==
  ASSUME TypeOK, NEW t \in Thread
  PROVE  /\ Typed(HeapOf(t)) /\ HeapOf(t).mem = mem /\ HeapOf(t).map = pagemap
         /\ HeapOf(t).free = free_pb_list[t] /\ HeapOf(t).blk = pbh_list[t]
BY DEF TypeOK, Typed, HeapOf

LEMMA HeapStepTypes ==
  ASSUME TypeOK, NEW t \in Thread, NEW s \in Superpage, NEW F, NEW o, NEW pbs, NEW l,
         HeapStep(t, s, F, o, pbs, l)
  PROVE  /\ TypeOK'
         /\ mem' = F.mem /\ pagemap' = F.map
         /\ free_pb_list'[t] = F.free /\ pbh_list'[t] = F.blk
         /\ \A u \in Thread \ {t} : /\ free_pb_list'[u] = free_pb_list[u]
                                    /\ pbh_list'[u] = pbh_list[u] /\ sp_list'[u] = sp_list[u]
         /\ sp_list'[t] = l /\ owner'[s] = o /\ remote_pb_list'[s] = pbs
         /\ \A x \in Superpage \ {s} : owner'[x] = owner[x] /\ remote_pb_list'[x] = remote_pb_list[x]
<1>1. F.mem \in [SpPage -> Header] /\ F.map \in [SpPage -> Ptr] /\ F.free \in [Lens -> Ptr] /\ F.blk \in Ptr
  BY DEF HeapStep, Typed
<1>2. mem' = F.mem /\ pagemap' = F.map
      /\ free_pb_list' = [free_pb_list EXCEPT ![t] = F.free]
      /\ pbh_list' = [pbh_list EXCEPT ![t] = F.blk]
  BY DEF HeapStep, IsHeapOf
<1>3. /\ owner' = [owner EXCEPT ![s] = o] /\ o \in {t, "dead", NULL}
      /\ remote_pb_list' = [remote_pb_list EXCEPT ![s] = pbs] /\ pbs \in Seq(SpPage)
      /\ phase' = phase /\ run' \in [SpPage -> 0 .. NUM_PAGE_CLASSES]
      /\ sp_list' = [sp_list EXCEPT ![t] = l] /\ l \in Seq(Superpage)
  BY DEF HeapStep
<1>4. /\ owner \in [Superpage -> Thread \cup {"dead", NULL}]
      /\ free_pb_list \in [Thread -> [Lens -> Ptr]]
      /\ pbh_list \in [Thread -> Ptr]
      /\ sp_list \in [Thread -> Seq(Superpage)]
      /\ remote_pb_list \in [Superpage -> Seq(SpPage)]
      /\ phase \in [Thread -> {"live", "exit"}]
  BY DEF TypeOK
<1>5. owner' \in [Superpage -> Thread \cup {"dead", NULL}]
  BY <1>3, <1>4
<1>6. free_pb_list' \in [Thread -> [Lens -> Ptr]] /\ pbh_list' \in [Thread -> Ptr]
  BY <1>1, <1>2, <1>4
<1>7. sp_list' \in [Thread -> Seq(Superpage)]
  BY <1>3, <1>4
<1>8. remote_pb_list' \in [Superpage -> Seq(SpPage)]
  BY <1>3, <1>4
<1>9. TypeOK'
  BY <1>1, <1>2, <1>3, <1>4, <1>5, <1>6, <1>7, <1>8 DEF TypeOK
<1> QED BY <1>2, <1>3, <1>4, <1>9

LEMMA HeapStepOK ==
  ASSUME ConstantsOK, IInv, NEW t \in Thread, NEW s \in Superpage, NEW F, NEW o, NEW pbs, NEW l,
         HeapStep(t, s, F, o, pbs, l), SpOK(F, s, o, run', pbs),
         ListsOK(F, Owned(t, s, o), phase[t]), ListedOK(l, Owned(t, s, o))
  PROVE  IInv'
<1>1. TypeOK
  BY DEF IInv
<1>2. /\ TypeOK'
      /\ mem' = F.mem /\ pagemap' = F.map
      /\ free_pb_list'[t] = F.free /\ pbh_list'[t] = F.blk
      /\ \A u \in Thread \ {t} : /\ free_pb_list'[u] = free_pb_list[u]
                                 /\ pbh_list'[u] = pbh_list[u] /\ sp_list'[u] = sp_list[u]
      /\ sp_list'[t] = l /\ owner'[s] = o /\ remote_pb_list'[s] = pbs
      /\ \A x \in Superpage \ {s} : owner'[x] = owner[x] /\ remote_pb_list'[x] = remote_pb_list[x]
  BY <1>1, HeapStepTypes
<1>3. /\ Elsewhere(HeapOf(t), F, Own(t) \cup {s}, s) /\ Typed(F)
      /\ owner[s] \in {t, "dead", NULL} /\ o \in {t, "dead", NULL}
      /\ \A q \in SpPage : q[1] # s => run'[q] = run[q]
      /\ pbs # << >> => o = t /\ phase[t] = "exit"
      /\ phase' = phase
  BY DEF HeapStep
<1>4. Now.mem = mem /\ Now.map = pagemap /\ Now'.mem = F.mem /\ Now'.map = F.map
  BY <1>2 DEF Now
<1>5. /\ \A q \in SpPage : q[1] \notin Own(t) \cup {s} => F.mem[q] = mem[q]
      /\ \A q \in SpPage : q[1] # s => F.map[q] = pagemap[q] /\ SameHeader(mem, F.mem, q)
  BY <1>1, <1>3, HeapTyped DEF Elsewhere
<1>6. t \notin {"dead", NULL} /\ \A u \in Thread : u \notin {"dead", NULL}
  BY DEF ConstantsOK
<1>7. ASSUME NEW x \in Superpage PROVE SpInv(x)'
  <2>1. CASE x = s
    <3>1. Still(F, Now', s)
      BY <1>4 DEF Still, SameHeader
    <3>2. SpOK(Now', s, o, run', pbs)
      BY <3>1, StillOK
    <3>3. remote_pb_list'[s] # << >> => owner'[s] \in Thread /\ phase'[owner'[s]] = "exit"
      BY <1>2, <1>3
    <3>4. owner'[s] = o /\ remote_pb_list'[s] = pbs
      BY <1>2
    <3>5. SpOK(Now', s, owner'[s], run', remote_pb_list'[s])
      BY <3>2, <3>4
    <3> QED BY <2>1, <3>3, <3>5 DEF SpInv
  <2>2. CASE x # s
    <3>1. Still(Now, Now', x)
      BY <1>4, <1>5, <2>2 DEF Still
    <3>2. SpInv(x)
      BY DEF IInv
    <3>3. SpOK(Now, x, owner[x], run, remote_pb_list[x])
      BY <3>2 DEF SpInv
    <3>4. \A q \in SpPage : q[1] = x => run'[q] = run[q]
      BY <1>3, <2>2
    <3>5. SpOK(Now', x, owner[x], run', remote_pb_list[x])
      BY <3>1, <3>3, <3>4, StillOK
    <3>6. owner'[x] = owner[x] /\ remote_pb_list'[x] = remote_pb_list[x]
      BY <1>2, <2>2
    <3>7. SpOK(Now', x, owner'[x], run', remote_pb_list'[x])
      BY <3>5, <3>6
    <3>8. remote_pb_list'[x] # << >> => owner'[x] \in Thread /\ phase'[owner'[x]] = "exit"
      BY <1>3, <3>2, <3>6 DEF SpInv
    <3> QED BY <3>7, <3>8 DEF SpInv
  <2> QED BY <2>1, <2>2
<1>8. Own(t)' = Owned(t, s, o)
  <2>1. ASSUME NEW x \in Superpage PROVE x \in Own(t)' <=> x \in Owned(t, s, o)
    BY <1>2 DEF Own, Owned
  <2> QED BY <2>1 DEF Own, Owned
<1>9. ASSUME NEW u \in Thread, u # t PROVE Own(u)' = Own(u) /\ s \notin Own(u) /\ Own(u) \cap Own(t) = {}
  <2>1. ASSUME NEW x \in Superpage PROVE owner'[x] = u <=> owner[x] = u
    BY <1>2, <1>3, <1>6, <1>9
  <2> QED BY <1>3, <1>6, <1>9, <2>1 DEF Own
<1>10. ASSUME NEW u \in Thread PROVE ListsOK(HeapOf(u)', Own(u)', phase'[u])
  <2>1. CASE u = t
    <3>1. HeapOf(t)' = F
      <4>1. F = [mem |-> F.mem, map |-> F.map, free |-> F.free, blk |-> F.blk]
        BY <1>3 DEF Typed
      <4>2. HeapOf(t)' = [mem |-> F.mem, map |-> F.map, free |-> F.free, blk |-> F.blk]
        BY <1>2 DEF HeapOf
      <4> QED BY <4>1, <4>2
    <3>2. phase'[t] = phase[t]
      BY <1>3
    <3> QED BY <1>8, <2>1, <3>1, <3>2
  <2>2. CASE u # t
    <3>1. Own(u)' = Own(u) /\ s \notin Own(u) /\ Own(u) \cap Own(t) = {}
      BY <1>9, <2>2
    <3>2. Apart(HeapOf(u), HeapOf(u)', Own(u))
      <4>1. HeapOf(u)'.mem = F.mem /\ HeapOf(u)'.map = F.map
            /\ HeapOf(u)'.free = free_pb_list[u] /\ HeapOf(u)'.blk = pbh_list[u]
        BY <1>2, <2>2 DEF HeapOf
      <4>2. HeapOf(u).mem = mem /\ HeapOf(u).map = pagemap
            /\ HeapOf(u).free = free_pb_list[u] /\ HeapOf(u).blk = pbh_list[u]
        BY DEF HeapOf
      <4>3. \A q \in SpPage : q[1] \in Own(u) => F.mem[q] = mem[q] /\ F.map[q] = pagemap[q]
        BY <1>5, <3>1
      <4> QED BY <4>1, <4>2, <4>3 DEF Apart
    <3>3. ListsOK(HeapOf(u), Own(u), phase[u])
      BY DEF IInv
    <3>4. ListsOK(HeapOf(u)', Own(u), phase[u])
      BY <3>2, <3>3, ApartOK
    <3> QED BY <1>3, <3>1, <3>4
  <2> QED BY <2>1, <2>2
<1>11. ASSUME NEW u \in Thread PROVE ListedOK(sp_list'[u], Own(u)')
  <2>1. CASE u = t
    BY <1>2, <1>8, <2>1
  <2>2. CASE u # t
    <3>1. ListedOK(sp_list[u], Own(u))
      BY DEF IInv
    <3>2. sp_list'[u] = sp_list[u] /\ Own(u)' = Own(u)
      BY <1>2, <1>9, <2>2
    <3> QED BY <3>1, <3>2
  <2> QED BY <2>1, <2>2
<1> QED BY <1>2, <1>7, <1>10, <1>11 DEF IInv

----------------------------------------------------------------------------
(* What the invariant says of the heap of a thread.                        *)

LEMMA HeapSp ==
  ASSUME ConstantsOK, IInv, NEW t \in Thread, NEW x \in Superpage
  PROVE  /\ SpOK(HeapOf(t), x, owner[x], run, remote_pb_list[x])
         /\ remote_pb_list[x] # << >> => owner[x] \in Thread /\ phase[owner[x]] = "exit"
<1>1. SpInv(x) /\ TypeOK
  BY DEF IInv
<1>2. Still(Now, HeapOf(t), x)
  BY DEF Still, Now, HeapOf, SameHeader
<1>3. SpOK(Now, x, owner[x], run, remote_pb_list[x])
  BY <1>1 DEF SpInv
<1>4. SpOK(HeapOf(t), x, owner[x], run, remote_pb_list[x])
  BY <1>2, <1>3, StillOK
<1> QED BY <1>1, <1>4 DEF SpInv

LEMMA HeapTiles ==
  ASSUME ConstantsOK, IInv, NEW t \in Thread, NEW C, Lists(HeapOf(t), Own(t), {}, C)
  PROVE  HeapInv(HeapOf(t), Own(t), C)
<1>1. Typed(HeapOf(t))
  BY HeapTyped DEF IInv
<1>2. ASSUME NEW s \in Own(t)
      PROVE  s \in Superpage /\ Tiled(HeapOf(t).mem, HeapOf(t).map, s) /\ Short(HeapOf(t), s)
  <2>1. s \in Superpage /\ owner[s] = t /\ t # NULL
    BY DEF Own, ConstantsOK
  <2>2. SpOK(HeapOf(t), s, owner[s], run, remote_pb_list[s])
    BY <2>1, HeapSp
  <2>3. Sound(HeapOf(t), s)
    BY <2>1, <2>2 DEF SpOK
  <2> QED BY <2>1, <2>3 DEF Sound
<1> QED BY <1>1, <1>2 DEF HeapInv

LEMMA LiveHeap ==
  ASSUME ConstantsOK, IInv, NEW t \in Thread, phase[t] = "live"
  PROVE  HeapInv(HeapOf(t), Own(t), SmallIn(HeapOf(t), Own(t)))
<1>1. ListsOK(HeapOf(t), Own(t), phase[t])
  BY DEF IInv
<1>2. Lists(HeapOf(t), Own(t), {}, SmallIn(HeapOf(t), Own(t)))
  BY <1>1 DEF ListsOK
<1> QED BY <1>2, HeapTiles

\* Nobody frees remotely into a live thread's superpages, or an orphan.
LEMMA NoRemotes ==
  ASSUME ConstantsOK, IInv, NEW x \in Superpage,
         \A u \in Thread : owner[x] = u => phase[u] = "live"
  PROVE  remote_pb_list[x] = << >>
<1>1. SpInv(x)
  BY DEF IInv
<1> QED BY <1>1 DEF SpInv

----------------------------------------------------------------------------
(* pb_alloc                                                                *)

\* The run that is handed out.
RunSet(rn, rn2, h, len) == rn2 = [rn EXCEPT ![h] = len]

HandedRun(S, F, P, s, h, len, large, t, rn, rn2) ==
  /\ s \in Superpage /\ len \in Lens /\ len < SUPERPAGE_LEN /\ t \in Thread
  /\ HandedBlock(S, F, P, SmallIn(S, P), s, h, len, large)
  /\ rn \in [SpPage -> 0 .. NUM_PAGE_CLASSES] /\ \E o : SpOK(S, s, o, rn, << >>)
  /\ RunSet(rn, rn2, h, len)

RunsElsewhere(s, rn, rn2) ==
  /\ rn2 \in [SpPage -> 0 .. NUM_PAGE_CLASSES]
  /\ \A q \in SpPage : q[1] # s => rn2[q] = rn[q]

LEMMA HandedSp ==
  ASSUME ConstantsOK, NEW S, NEW F, NEW P, NEW s, NEW h, NEW len, NEW large, NEW t, NEW rn, NEW rn2,
         HandedRun(S, F, P, s, h, len, large, t, rn, rn2)
  PROVE  /\ SpOK(F, s, t, rn2, << >>)
         /\ Lists(F, P, {}, SmallIn(F, P)) /\ s \in P /\ RunsElsewhere(s, rn, rn2)
<1> DEFINE C == SmallIn(S, P)
           D == IF large THEN C ELSE C \cup {h}
<1>a. /\ s \in Superpage /\ len \in Lens /\ len < SUPERPAGE_LEN /\ t \in Thread
      /\ HandedBlock(S, F, P, C, s, h, len, large)
      /\ rn \in [SpPage -> 0 .. NUM_PAGE_CLASSES] /\ RunSet(rn, rn2, h, len)
  BY DEF HandedRun
<1>b. PICK o : SpOK(S, s, o, rn, << >>)
  BY DEF HandedRun
<1>1. /\ Typed(F) /\ Tiled(F.mem, F.map, s) /\ Short(F, s)
      /\ Lists(F, P, {}, D)
      /\ h \in SpPage /\ h[1] = s /\ s \in P
      /\ BusyOf(F, s) = BusyOf(S, s) \cup {h} /\ h \notin BusyOf(S, s)
      /\ \A q \in BusyOf(S, s) : SameHeader(S.mem, F.mem, q)
      /\ F.mem[h].length = len /\ F.mem[h].large = large /\ ~F.mem[h].whole
      /\ Elsewhere(S, F, P, s)
  BY <1>a DEF HandedBlock
<1>2. len \in 0 .. NUM_PAGE_CLASSES /\ len > 0
  BY <1>a, Constants DEF NUM_PAGE_CLASSES
<1>3. rn2 \in [SpPage -> 0 .. NUM_PAGE_CLASSES] /\ rn2[h] = len /\ \A q \in SpPage : q # h => rn2[q] = rn[q]
  BY <1>1, <1>2, <1>a DEF RunSet
<1>4. o = NULL => BusyOf(S, s) = {}
  <2>1. ASSUME o = NULL, NEW q \in BusyOf(S, s) PROVE FALSE
    <3>1. q = <<s, q[2]>> /\ q[2] \in Lens /\ S.map[q] = q /\ q # NULL
      BY <2>1, Constants DEF BusyOf
    <3> QED BY <1>b, <2>1, <3>1 DEF SpOK
  <2> QED BY <2>1
<1>5. Sound(F, s)
  <2>1. ASSUME NEW q \in BusyOf(F, s), F.mem[q].large PROVE ~F.mem[q].whole
    <3>1. CASE q = h
      BY <1>1, <3>1
    <3>2. CASE q # h
      <4>1. q \in BusyOf(S, s)
        BY <1>1, <3>2
      <4>2. Sound(S, s)
        BY <1>4, <1>b, <4>1 DEF SpOK
      <4> QED BY <1>1, <2>1, <4>1, <4>2 DEF Sound, SameHeader
    <3> QED BY <3>1, <3>2
  <2> QED BY <1>1, <2>1 DEF Sound
<1>6. Runs(F, s, rn2)
  <2>1. ASSUME NEW q \in SpPage, q[1] = s, rn2[q] > 0 PROVE q \in BusyOf(F, s) /\ F.mem[q].length = rn2[q]
    <3>1. CASE q = h
      BY <1>1, <1>3, <3>1
    <3>2. CASE q # h
      <4>1. q \in BusyOf(S, s) /\ S.mem[q].length = rn[q]
        BY <1>3, <1>b, <2>1, <3>2 DEF SpOK, Runs
      <4> QED BY <1>1, <1>3, <3>2, <4>1 DEF SameHeader
    <3> QED BY <3>1, <3>2
  <2> QED BY <2>1 DEF Runs
<1>7. Remotes(F, s, rn2, << >>)
  BY DEF Remotes, RemoteOf
<1>8. t # NULL /\ t # "dead"
  BY <1>a DEF ConstantsOK
<1>9. SpOK(F, s, t, rn2, << >>)
  BY <1>5, <1>6, <1>7, <1>8 DEF SpOK
<1>10. SmallIn(F, P) = D
  <2>1. ASSUME NEW q \in SpPage PROVE q \in SmallIn(F, P) <=> q \in D
    <3>1. CASE q[1] = s
      <4>1. q \in SmallIn(F, P) <=> q \in BusyOf(F, s) /\ ~F.mem[q].large
        BY <1>1, <3>1 DEF SmallIn, BusyOf
      <4>2. q \in C <=> q \in BusyOf(S, s) /\ ~S.mem[q].large
        BY <1>1, <3>1 DEF SmallIn, BusyOf
      <4>3. CASE q = h
        BY <1>1, <4>1, <4>2, <4>3
      <4>4. CASE q # h
        BY <1>1, <4>1, <4>2, <4>4 DEF SameHeader
      <4> QED BY <4>3, <4>4
    <3>2. CASE q[1] # s
      <4>1. F.map[q] = S.map[q] /\ SameHeader(S.mem, F.mem, q) /\ q # h
        BY <1>1, <3>2 DEF Elsewhere
      <4> QED BY <4>1 DEF SmallIn, SameHeader
    <3> QED BY <3>1, <3>2
  <2>2. D \subseteq SpPage
    BY <1>1 DEF SmallIn
  <2> QED BY <2>1, <2>2 DEF SmallIn
<1>11. \A q \in SpPage : q[1] # s => rn2[q] = rn[q]
  BY <1>1, <1>3
<1> QED BY <1>1, <1>3, <1>9, <1>10, <1>11 DEF RunsElsewhere

\* A step of pb_alloc and its caller, once the page block is there.
LEMMA HandedStep ==
  ASSUME ConstantsOK, IInv, NEW t \in Thread, phase[t] = "live",
         NEW s \in Superpage, owner[s] \in {t, NULL},
         NEW len \in Lens, len < SUPERPAGE_LEN, NEW large, NEW h, NEW F,
         HandedBlock(HeapOf(t), F, Own(t) \cup {s}, SmallIn(HeapOf(t), Own(t) \cup {s}), s, h, len, large),
         IsHeapOf(t, F), run' = [run EXCEPT ![h] = len],
         owner' = [owner EXCEPT ![s] = t], UNCHANGED <<remote_pb_list, phase>>,
         NEW l \in Seq(Superpage), sp_list' = [sp_list EXCEPT ![t] = l],
         ListedOK(l, Own(t) \cup {s})
  PROVE  IInv'
<1> DEFINE S == HeapOf(t)
           P == Own(t) \cup {s}
<1>1. TypeOK /\ t \notin {"dead", NULL} /\ \A u \in Thread : u # NULL
  BY DEF IInv, ConstantsOK
<1>2. remote_pb_list[s] = << >>
  <2>1. \A u \in Thread : owner[s] = u => phase[u] = "live"
    BY <1>1
  <2> QED BY <2>1, NoRemotes
<1>3. SpOK(S, s, owner[s], run, << >>)
  <2>1. SpOK(S, s, owner[s], run, remote_pb_list[s])
    BY HeapSp
  <2> QED BY <1>2, <2>1
<1>4. /\ Typed(F) /\ Elsewhere(S, F, P, s)
  BY DEF HandedBlock
<1> HIDE DEF S, P
<1>5. run \in [SpPage -> 0 .. NUM_PAGE_CLASSES]
  BY <1>1 DEF TypeOK
<1>6. /\ SpOK(F, s, t, run', << >>)
      /\ Lists(F, P, {}, SmallIn(F, P)) /\ s \in P
      /\ run' \in [SpPage -> 0 .. NUM_PAGE_CLASSES]
      /\ \A q \in SpPage : q[1] # s => run'[q] = run[q]
  <2>1. HandedBlock(S, F, P, SmallIn(S, P), s, h, len, large)
    BY DEF S, P
  <2>2. HandedRun(S, F, P, s, h, len, large, t, run, run')
    BY <1>3, <1>5, <2>1 DEF RunSet, HandedRun
  <2>3. SpOK(F, s, t, run', << >>)
    BY ONLY ConstantsOK, <2>2, HandedSp
  <2>4. RunsElsewhere(s, run, run')
    BY ONLY ConstantsOK, <2>2, HandedSp
  <2>5. s \in P
    BY ONLY ConstantsOK, <2>2, HandedSp
  <2>6. Lists(F, P, {}, SmallIn(F, P))
    BY ONLY ConstantsOK, <2>2, HandedSp
  <2> QED BY <2>3, <2>4, <2>5, <2>6 DEF RunsElsewhere
<1>7. remote_pb_list' = [remote_pb_list EXCEPT ![s] = << >>]
  <2>1. remote_pb_list \in [Superpage -> Seq(SpPage)]
    BY <1>1 DEF TypeOK
  <2> QED BY <1>2, <2>1
<1>8. HeapStep(t, s, F, t, << >>, l)
  <2>1. << >> \in Seq(SpPage)
    OBVIOUS
  <2> QED BY <1>4, <1>6, <1>7, <2>1 DEF HeapStep, S, P
<1>9. Owned(t, s, t) = P
  BY DEF Owned, P
<1>10. ListsOK(F, Owned(t, s, t), phase[t])
  BY <1>6, <1>9 DEF ListsOK
<1>11. SpOK(F, s, t, run', << >>)
  BY <1>6
<1>12. ListedOK(l, Owned(t, s, t))
  BY <1>9 DEF P
<1> QED BY <1>8, <1>10, <1>11, <1>12, HeapStepOK

LEMMA Prepended ==
  ASSUME NEW A, NEW l \in Seq(A), NEW s \in A, NEW O, ListedOK(l, O), s \notin O
  PROVE  <<s>> \o l \in Seq(A) /\ ListedOK(<<s>> \o l, O \cup {s})
<1> DEFINE m == <<s>> \o l
<1>1. m \in Seq(A) /\ Len(m) = 1 + Len(l) /\ m[1] = s /\ Len(l) \in Nat
      /\ \A i \in 1 .. Len(l) : m[i + 1] = l[i]
  OBVIOUS
<1>2. \A i \in 2 .. Len(m) : i - 1 \in 1 .. Len(l) /\ m[i] = l[i - 1]
  BY <1>1
<1>3. ToSet(l) = O /\ \A i \in 1 .. Len(l) : l[i] \in O
  BY DEF ListedOK, ToSet
<1>4. DOMAIN m = 1 .. Len(m) /\ DOMAIN l = 1 .. Len(l)
  BY <1>1
<1> HIDE DEF m
<1>5. ToSet(m) = O \cup {s}
  <2>1. ASSUME NEW x \in ToSet(m) PROVE x \in O \cup {s}
    <3>1. PICK i \in 1 .. Len(m) : x = m[i]
      BY <1>4, <2>1 DEF ToSet
    <3>2. CASE i = 1
      BY <1>1, <3>1, <3>2
    <3>3. CASE i # 1
      BY <1>1, <1>2, <1>3, <3>1, <3>3
    <3> QED BY <3>2, <3>3
  <2>2. ASSUME NEW x \in O PROVE x \in ToSet(m)
    <3>1. PICK i \in 1 .. Len(l) : x = l[i]
      BY <1>3, <1>4 DEF ToSet
    <3>2. i + 1 \in 1 .. Len(m) /\ m[i + 1] = x
      BY <1>1, <3>1
    <3> QED BY <1>4, <3>2 DEF ToSet
  <2>3. s \in ToSet(m)
    <3>1. 1 \in 1 .. Len(m)
      BY <1>1
    <3> QED BY <1>1, <1>4, <3>1 DEF ToSet
  <2> QED BY <2>1, <2>2, <2>3
<1>6. ASSUME NEW i \in 1 .. Len(m), NEW j \in 1 .. Len(m), m[i] = m[j] PROVE i = j
  <2>1. CASE i = 1 /\ j = 1
    BY <2>1
  <2>2. CASE i = 1 /\ j # 1
    <3>1. j - 1 \in 1 .. Len(l) /\ m[j] = l[j - 1]
      BY <1>1, <1>2, <2>2
    <3> QED BY <1>1, <1>3, <1>6, <2>2, <3>1
  <2>3. CASE i # 1 /\ j = 1
    <3>1. i - 1 \in 1 .. Len(l) /\ m[i] = l[i - 1]
      BY <1>1, <1>2, <2>3
    <3> QED BY <1>1, <1>3, <1>6, <2>3, <3>1
  <2>4. CASE i # 1 /\ j # 1
    <3>1. i - 1 \in 1 .. Len(l) /\ j - 1 \in 1 .. Len(l) /\ l[i - 1] = l[j - 1]
      BY <1>1, <1>2, <1>6, <2>4
    <3>2. i - 1 = j - 1
      BY <3>1 DEF ListedOK
    <3> QED BY <1>1, <3>2
  <2> QED BY <2>1, <2>2, <2>3, <2>4
<1> QED BY <1>1, <1>5, <1>6 DEF ListedOK, m

LEMMA PbAllocOK ==
  ASSUME ConstantsOK, IInv, NEW t \in Thread, NEW len \in 1 .. SUPERPAGE_LEN - 1,
         NEW large \in BOOLEAN, PbAlloc(t, len, large)
  PROVE  IInv'
<1> DEFINE S == HeapOf(t)
           O == Own(t)
           C == SmallIn(S, O)
           l == sp_list[t]
           drain == /\ Fitting(S, len) = {}
                    /\ sp_list[t] # << >>
                    /\ remote_pb_list[Head(sp_list[t])] # << >>
<1>1. TypeOK /\ phase[t] = "live" /\ t \notin {"dead", NULL}
  BY DEF PbAlloc, IInv, ConstantsOK
<1>2. HeapInv(S, O, C)
  BY <1>1, LiveHeap
<1>3. l \in Seq(Superpage) /\ ListedOK(l, O)
  BY <1>1 DEF TypeOK, IInv
<1>4. ~drain
  <2>1. SUFFICES ASSUME l # << >> PROVE remote_pb_list[Head(l)] = << >>
    OBVIOUS
  <2>2. Head(l) = l[1] /\ 1 \in DOMAIN l
    BY <1>3, <2>1
  <2>3. Head(l) \in Own(t)
    BY <1>3, <2>2 DEF ListedOK, ToSet
  <2>4. Head(l) \in Superpage /\ owner[Head(l)] = t
    BY <2>3 DEF Own
  <2> QED BY <1>1, <2>4, NoRemotes
<1>5. /\ remote_pb_list' = remote_pb_list /\ phase' = phase
      /\ \/ /\ Fitting(S, len) # {}
            /\ HandOut(t, FromTlh(S, len), large, len)
            /\ sp_list' = [sp_list EXCEPT ![t] = l]
            /\ owner' = owner
         \/ \E s \in Superpage :
              /\ owner[s] = NULL
              /\ owner' = [owner EXCEPT ![s] = t]
              /\ sp_list' = [sp_list EXCEPT ![t] = <<s>> \o l]
              /\ HandOut(t, FromSuperpage(S, s, len), large, len)
  BY <1>4 DEF PbAlloc
<1>6. len \in Lens /\ len < SUPERPAGE_LEN
  BY Constants
<1>7. ASSUME NEW got, HandOut(t, got, large, len)
      PROVE  IsHeapOf(t, Handed(got.heap, got.pb, large)) /\ run' = [run EXCEPT ![got.pb] = len]
  BY <1>7, Zenon DEF HandOut, Handed
<1> HIDE DEF S, O, C, l, drain
<1>8. CASE /\ Fitting(S, len) # {}
           /\ HandOut(t, FromTlh(S, len), large, len)
           /\ sp_list' = [sp_list EXCEPT ![t] = l]
           /\ owner' = owner
  <2> DEFINE got == FromTlh(S, len)
             F == Handed(got.heap, got.pb, large)
  <2>1. PICK s \in O : GotBlock(S, got.heap, O, C, s, got.pb, len)
    BY <1>2, <1>6, <1>8, TlhOK
  <2>2. IsHeapOf(t, F) /\ run' = [run EXCEPT ![got.pb] = len]
    BY <1>7, <1>8
  <2>3. HandedBlock(S, F, O, C, s, got.pb, len, large)
    BY <2>1, HandedOK
  <2>4. s \in Superpage /\ owner[s] = t /\ O \cup {s} = O
    BY <2>1 DEF O, Own
  <2>5. owner' = [owner EXCEPT ![s] = t]
    <3>1. owner \in [Superpage -> Thread \cup {"dead", NULL}]
      BY <1>1 DEF TypeOK
    <3> QED BY <1>8, <2>4, <3>1
  <2> HIDE DEF got, F
  <2>6. HandedBlock(HeapOf(t), F, Own(t) \cup {s}, SmallIn(HeapOf(t), Own(t) \cup {s}), s, got.pb, len, large)
    BY <2>3, <2>4 DEF S, O, C
  <2>7. ListedOK(l, Own(t) \cup {s})
    BY <1>3, <2>4 DEF O
  <2> QED BY <1>1, <1>3, <1>5, <1>6, <1>8, <2>2, <2>4, <2>5, <2>6, <2>7, HandedStep
<1>9. CASE \E s \in Superpage :
             /\ owner[s] = NULL
             /\ owner' = [owner EXCEPT ![s] = t]
             /\ sp_list' = [sp_list EXCEPT ![t] = <<s>> \o l]
             /\ HandOut(t, FromSuperpage(S, s, len), large, len)
  <2>1. PICK s \in Superpage :
             /\ owner[s] = NULL
             /\ owner' = [owner EXCEPT ![s] = t]
             /\ sp_list' = [sp_list EXCEPT ![t] = <<s>> \o l]
             /\ HandOut(t, FromSuperpage(S, s, len), large, len)
    BY <1>9
  <2> DEFINE got == FromSuperpage(S, s, len)
             F == Handed(got.heap, got.pb, large)
             P == O \cup {s}
  <2>2. s \notin O
    BY <1>1, <2>1 DEF O, Own
  <2>3. \A i \in Lens : S.map[<<s, i>>] = NULL
    <3>1. SpOK(S, s, owner[s], run, remote_pb_list[s])
      BY HeapSp DEF S
    <3> QED BY <2>1, <3>1 DEF SpOK
  <2>4. got.pb = <<s, 1>> /\ GotBlock(S, got.heap, P, C, s, got.pb, len)
    <3>1. Typed(S) /\ Lists(S, O, {}, C)
      BY <1>2 DEF HeapInv
    <3>2. s \in Superpage \ O
      BY <2>2
    <3> DEFINE h == <<s, 1>>
    <3>3. h = <<s, 1>>
      OBVIOUS
    <3> HIDE DEF h, got, F, P
    <3>4. /\ FromSuperpage(S, s, len).pb = h
          /\ GotBlock(S, FromSuperpage(S, s, len).heap, O \cup {s}, C, s, h, len)
      BY ONLY ConstantsOK, <1>6, <2>3, <3>1, <3>2, <3>3, SuperpageOK
    <3> QED BY <3>3, <3>4 DEF got, P
  <2>5. IsHeapOf(t, F) /\ run' = [run EXCEPT ![got.pb] = len]
    BY <1>7, <2>1
  <2> HIDE DEF got
  <2>6. HandedBlock(S, F, P, C, s, got.pb, len, large)
    BY <2>4, HandedOK
  <2> HIDE DEF F
  <2>7. SmallIn(S, P) = C
    <3>1. ASSUME NEW q \in SpPage, q[1] = s PROVE S.map[q] # q
      <4>1. q = <<s, q[2]>> /\ q[2] \in Lens /\ q # NULL
        BY <3>1, Constants
      <4> QED BY <2>3, <4>1
    <3> QED BY <3>1 DEF SmallIn, C
  <2>8. <<s>> \o l \in Seq(Superpage) /\ ListedOK(<<s>> \o l, P)
    BY <1>3, <2>2, Prepended
  <2> DEFINE l2 == <<s>> \o l
  <2>9. sp_list' = [sp_list EXCEPT ![t] = l2] /\ owner' = [owner EXCEPT ![s] = t] /\ owner[s] = NULL
        /\ l2 \in Seq(Superpage) /\ ListedOK(l2, P)
    BY <2>1, <2>8
  <2> HIDE DEF l2
  <2>10. HandedBlock(HeapOf(t), F, Own(t) \cup {s}, SmallIn(HeapOf(t), Own(t) \cup {s}), s, got.pb, len, large)
    BY <2>6, <2>7 DEF S, O, P
  <2>11. ListedOK(l2, Own(t) \cup {s})
    BY <2>9 DEF O, P
  <2> QED BY <1>1, <1>5, <1>6, <2>5, <2>9, <2>10, <2>11, HandedStep
<1> QED BY <1>5, <1>8, <1>9

----------------------------------------------------------------------------
(* pb_free                                                                 *)

LEMMA Removed ==
  ASSUME NEW A, NEW l \in Seq(A), NEW i \in 1 .. Len(l)
  PROVE  LET m == RemoveAt(l, i)
         IN /\ m \in Seq(A) /\ Len(m) = Len(l) - 1
            /\ \A k \in 1 .. Len(m) : m[k] = IF k < i THEN l[k] ELSE l[k + 1]
<1> DEFINE a == SubSeq(l, 1, i - 1)
           b == SubSeq(l, i + 1, Len(l))
<1>1. Len(l) \in Nat /\ i \in Nat
  OBVIOUS
<1>2. a \in Seq(A) /\ Len(a) = i - 1 /\ \A k \in 1 .. i - 1 : a[k] = l[k]
  BY <1>1
<1>3. b \in Seq(A) /\ Len(b) = Len(l) - i /\ \A k \in 1 .. Len(l) - i : b[k] = l[i + k]
  BY <1>1
<1>4. RemoveAt(l, i) = a \o b
  BY DEF RemoveAt
<1> HIDE DEF a, b
<1>5. a \o b \in Seq(A) /\ Len(a \o b) = Len(l) - 1
  <2>1. a \o b \in Seq(A) /\ Len(a \o b) = Len(a) + Len(b)
    <3>1. a \in Seq(A) /\ b \in Seq(A)
      BY <1>2, <1>3
    <3>2. a \o b \in Seq(A)
      BY <3>1
    <3>3. Len(a \o b) = Len(a) + Len(b)
      BY <3>1
    <3> QED BY <3>2, <3>3
  <2>2. (i - 1) + (Len(l) - i) = Len(l) - 1
    BY <1>1
  <2> QED BY <1>2, <1>3, <2>1, <2>2
<1>6. ASSUME NEW k \in 1 .. Len(l) - 1 PROVE (a \o b)[k] = IF k < i THEN l[k] ELSE l[k + 1]
  <2>1. CASE k < i
    BY <1>1, <1>2, <1>3, <2>1
  <2>2. CASE ~(k < i)
    <3>1. (a \o b)[k] = b[k - (i - 1)]
      BY <1>1, <1>2, <1>3, <2>2
    <3>2. k - (i - 1) \in 1 .. Len(l) - i /\ i + (k - (i - 1)) = k + 1
      BY <1>1, <2>2
    <3>3. b[k - (i - 1)] = l[i + (k - (i - 1))]
      BY <1>3, <3>2
    <3> QED BY <2>2, <3>1, <3>2, <3>3
  <2> QED BY <2>1, <2>2
<1> QED BY <1>4, <1>5, <1>6

LEMMA WithoutOK ==
  ASSUME NEW A, NEW l \in Seq(A), NEW s, NEW O, ListedOK(l, O), s \in O
  PROVE  Without(l, s) \in Seq(A) /\ ListedOK(Without(l, s), O \ {s})
<1> DEFINE i == CHOOSE k \in DOMAIN l : l[k] = s
           m == Without(l, s)
<1>1. DOMAIN l = 1 .. Len(l) /\ Len(l) \in Nat /\ s \in ToSet(l) /\ ToSet(l) = O
  BY DEF ListedOK
<1>2. i \in 1 .. Len(l) /\ l[i] = s
  BY <1>1 DEF ToSet
<1>3. m = RemoveAt(l, i)
  BY <1>1 DEF Without
<1> HIDE DEF i, m
<1>4. /\ m \in Seq(A) /\ Len(m) = Len(l) - 1
      /\ \A k \in 1 .. Len(m) : m[k] = IF k < i THEN l[k] ELSE l[k + 1]
  BY <1>2, <1>3, Removed
<1>5. \A j, k \in 1 .. Len(l) : l[j] = l[k] => j = k
  BY DEF ListedOK
<1> DEFINE at(k) == IF k < i THEN k ELSE k + 1
<1>6. ASSUME NEW k \in 1 .. Len(m) PROVE at(k) \in 1 .. Len(l) /\ at(k) # i /\ m[k] = l[at(k)]
  BY <1>1, <1>2, <1>4
<1>7. ASSUME NEW j \in 1 .. Len(m), NEW k \in 1 .. Len(m), m[j] = m[k] PROVE j = k
  <2>1. at(j) = at(k)
    BY <1>5, <1>6, <1>7
  <2> QED BY <1>2, <2>1
<1>8. ToSet(m) = O \ {s}
  <2>1. DOMAIN m = 1 .. Len(m)
    BY <1>4
  <2>2. ASSUME NEW x \in ToSet(m) PROVE x \in O \ {s}
    <3>1. PICK k \in 1 .. Len(m) : x = m[k]
      BY <2>1, <2>2 DEF ToSet
    <3>2. x = l[at(k)] /\ at(k) \in 1 .. Len(l) /\ at(k) # i
      BY <1>6, <3>1
    <3> HIDE DEF at
    <3>3. x \in O /\ x # l[i]
      BY <1>1, <1>2, <1>5, <3>2 DEF ToSet
    <3> QED BY <1>2, <3>3
  <2>3. ASSUME NEW x \in O \ {s} PROVE x \in ToSet(m)
    <3>1. PICK k \in 1 .. Len(l) : x = l[k]
      BY <1>1 DEF ToSet
    <3>2. k # i
      BY <1>2, <3>1
    <3>3. CASE k < i
      <4>1. k \in 1 .. Len(m) /\ m[k] = x
        BY <1>1, <1>2, <1>4, <3>1, <3>3
      <4> QED BY <2>1, <4>1 DEF ToSet
    <3>4. CASE ~(k < i)
      <4>1. k - 1 \in 1 .. Len(m) /\ ~(k - 1 < i) /\ k - 1 + 1 = k
        BY <1>1, <1>2, <1>4, <3>2, <3>4
      <4>2. m[k - 1] = x
        BY <1>4, <3>1, <4>1
      <4> QED BY <2>1, <4>1, <4>2 DEF ToSet
    <3> QED BY <3>3, <3>4
  <2> QED BY <2>2, <2>3
<1> QED BY <1>4, <1>7, <1>8 DEF ListedOK, m

\* The runs but those at H.
RunsFreed(rn, rn2, H) == rn2 = [q \in SpPage |-> IF q \in H THEN 0 ELSE rn[q]]

\* What is kept is as it was.
LEMMA ReleasedSp ==
  ASSUME NEW S, NEW F, NEW s, NEW H, Released(S, F, s, H),
         NEW o, NEW rn, NEW pbs, SpOK(S, s, o, rn, pbs), o # NULL,
         NEW rn2, RunsFreed(rn, rn2, H), NEW pbs2, RemoteOf(F, s, pbs2), ToSet(pbs2) \subseteq ToSet(pbs),
         NEW p, p \notin {"dead", NULL}, Short(F, s)
  PROVE  SpOK(F, s, p, rn2, pbs2)
<1>1. /\ Tiled(F.mem, F.map, s) /\ BusyOf(F, s) = BusyOf(S, s) \ H
      /\ \A q \in BusyOf(F, s) : SameHeader(S.mem, F.mem, q)
  BY DEF Released
<1>2. Sound(F, s)
  <2>1. Sound(S, s)
    BY DEF SpOK
  <2> QED BY <1>1, <2>1 DEF Sound, SameHeader
<1>3. Runs(F, s, rn2)
  <2>1. ASSUME NEW q \in SpPage, q[1] = s, rn2[q] > 0 PROVE q \in BusyOf(F, s) /\ F.mem[q].length = rn2[q]
    <3>1. q \notin H /\ rn2[q] = rn[q]
      BY <2>1 DEF RunsFreed
    <3>2. q \in BusyOf(S, s) /\ S.mem[q].length = rn[q]
      BY <2>1, <3>1 DEF SpOK, Runs
    <3> QED BY <1>1, <3>1, <3>2 DEF SameHeader
  <2> QED BY <2>1 DEF Runs
<1>4. Remotes(F, s, rn2, pbs2)
  <2>1. ASSUME NEW k \in 1 .. Len(pbs2) PROVE F.mem[pbs2[k]].large /\ rn2[pbs2[k]] = 0
    <3>1. pbs2[k] \in BusyOf(F, s) /\ pbs2 \in Seq(SpPage)
      BY DEF RemoteOf
    <3>2. pbs2[k] \in ToSet(pbs) /\ pbs \in Seq(SpPage)
      <4>1. pbs2[k] \in ToSet(pbs2)
        BY <3>1 DEF ToSet
      <4>2. RemoteOf(S, s, pbs)
        BY DEF SpOK, Remotes
      <4>3. pbs \in Seq(SpPage)
        BY <4>2 DEF RemoteOf
      <4> QED BY <4>1, <4>3
    <3>3. PICK j \in 1 .. Len(pbs) : pbs2[k] = pbs[j]
      BY <3>2 DEF ToSet
    <3>4. S.mem[pbs[j]].large /\ rn[pbs[j]] = 0
      BY DEF SpOK, Remotes
    <3>5. pbs2[k] \in SpPage
      BY <3>1 DEF BusyOf
    <3> QED BY <1>1, <3>1, <3>3, <3>4, <3>5 DEF SameHeader, RunsFreed
  <2> QED BY <2>1 DEF Remotes
<1> QED BY <1>2, <1>3, <1>4 DEF SpOK

\* All of the superpage is free.
LEMMA EmptySp ==
  ASSUME ConstantsOK, NEW S, NEW F, NEW s \in Superpage, NEW H, BusyOf(S, s) \subseteq H,
         \A q \in SpPage : q[1] = s => F.map[q] = NULL,
         NEW o, NEW rn \in [SpPage -> 0 .. NUM_PAGE_CLASSES], NEW pbs, SpOK(S, s, o, rn, pbs),
         NEW rn2, RunsFreed(rn, rn2, H)
  PROVE  SpOK(F, s, NULL, rn2, << >>)
<1>1. Runs(F, s, rn2)
  <2>1. ASSUME NEW q \in SpPage, q[1] = s, rn2[q] > 0 PROVE FALSE
    <3>1. q \notin H /\ rn2[q] = rn[q]
      BY <2>1 DEF RunsFreed
    <3>2. q \in BusyOf(S, s)
      BY <2>1, <3>1 DEF SpOK, Runs
    <3> QED BY <3>1, <3>2
  <2> QED BY <2>1 DEF Runs
<1>2. Remotes(F, s, rn2, << >>)
  BY DEF Remotes, RemoteOf
<1>3. \A i \in Lens : F.map[<<s, i>>] = NULL
  BY Constants
<1>4. NULL # "dead"
  BY DEF ConstantsOK
<1> QED BY <1>1, <1>2, <1>3, <1>4 DEF SpOK

\* Thread t may call pb_free(h), with S for its heap and l for its superpages.
Ready(t, s, S, C, h, pbs, l) ==
  /\ Typed(S) /\ Lists(S, Own(t) \cup {s}, {}, C)
  /\ Elsewhere(HeapOf(t), S, Own(t) \cup {s}, s)
  /\ SpOK(S, s, t, run, pbs)
  /\ h \in BusyOf(S, s) /\ h \notin C /\ h \notin ToSet(pbs)
  /\ owner[s] \in {t, "dead"}
  /\ l \in Seq(Superpage) /\ ListedOK(l, Own(t) \cup {s})
  /\ phase[t] = "live" => C = SmallIn(S, Own(t) \cup {s}) \ {h}
  /\ pbs # << >> => phase[t] = "exit"

LEMMA ElsewhereTwice ==
  ASSUME NEW S, NEW F, NEW G, NEW O, NEW s, Elsewhere(S, F, O, s), Elsewhere(F, G, O, s)
  PROVE  Elsewhere(S, G, O, s)
BY DEF Elsewhere, SameHeader

\* The small page blocks of the other superpages.
LEMMA SmallElsewhere ==
  ASSUME NEW S, NEW F, NEW O, NEW s, Elsewhere(S, F, O, s), NEW P, NEW q \in SpPage, q[1] # s
  PROVE  q \in SmallIn(F, P) <=> q \in SmallIn(S, P)
BY DEF Elsewhere, SmallIn, SameHeader

LEMMA SmallHere ==
  ASSUME NEW S, NEW P, NEW s, s \in P, NEW q \in SpPage, q[1] = s
  PROVE  q \in SmallIn(S, P) <=> q \in BusyOf(S, s) /\ ~S.mem[q].large
BY DEF SmallIn, BusyOf

LEMMA FreeStep ==
  ASSUME ConstantsOK, IInv, NEW t \in Thread, NEW s \in Superpage, NEW S, NEW C, NEW h, NEW pbs, NEW l,
         Ready(t, s, S, C, h, pbs, l), PbFree(t, S, h, l, {h}),
         remote_pb_list' = [remote_pb_list EXCEPT ![s] = pbs], phase' = phase
  PROVE  IInv'
<1> DEFINE P == Own(t) \cup {s}
           B == HeapOf(t)
           D == Coalesce(S, h)
           f == First(FreeBefore(S, h), h)
           F1 == [D EXCEPT !.map = SetRange(@, <<s, 1>>, SUPERPAGE_LEN, NULL)]
           F2 == ListFree(FieldInit(D, f), f)
<1>1. /\ Typed(S) /\ Lists(S, P, {}, C)
      /\ Elsewhere(B, S, P, s)
      /\ SpOK(S, s, t, run, pbs)
      /\ h \in BusyOf(S, s) /\ h \notin C /\ h \notin ToSet(pbs)
      /\ owner[s] \in {t, "dead"}
      /\ l \in Seq(Superpage) /\ ListedOK(l, P)
      /\ phase[t] = "live" => C = SmallIn(S, P) \ {h}
      /\ pbs # << >> => phase[t] = "exit"
  BY DEF Ready
<1>2. t \notin {"dead", NULL} /\ TypeOK /\ NULL # "dead"
  BY DEF ConstantsOK, IInv
<1>3. Tiled(S.mem, S.map, s) /\ Short(S, s) /\ h[1] = s /\ h \in SpPage /\ s \in P
  BY <1>1, <1>2 DEF SpOK, Sound, BusyOf
<1>4. run' = WithoutRuns({h}) /\ run \in [SpPage -> 0 .. NUM_PAGE_CLASSES]
  BY <1>2 DEF PbFree, TypeOK
<1>5. /\ run' \in [SpPage -> 0 .. NUM_PAGE_CLASSES] /\ RunsFreed(run, run', {h})
      /\ \A q \in SpPage : q[1] # s => run'[q] = run[q]
  <2>1. RunsFreed(run, run', {h})
    BY <1>4 DEF WithoutRuns, RunsFreed
  <2>2. \A q \in SpPage : run'[q] = IF q \in {h} THEN 0 ELSE run[q]
    BY <1>4 DEF WithoutRuns
  <2>3. 0 \in 0 .. NUM_PAGE_CLASSES
    BY Constants DEF NUM_PAGE_CLASSES
  <2>4. run' \in [SpPage -> 0 .. NUM_PAGE_CLASSES]
    BY <1>4, <2>3 DEF WithoutRuns
  <2> QED BY <1>3, <2>1, <2>2, <2>4
<1>6. RemoteOf(S, s, pbs) /\ pbs \in Seq(SpPage)
  BY <1>1 DEF SpOK, Remotes, RemoteOf
<1>7. \/ /\ D.mem[f].length = SUPERPAGE_LEN /\ IsHeapOf(t, F1)
         /\ owner' = [owner EXCEPT ![s] = NULL]
         /\ sp_list' = [sp_list EXCEPT ![t] = Without(l, s)]
      \/ /\ D.mem[f].length # SUPERPAGE_LEN /\ IsHeapOf(t, F2)
         /\ owner' = [owner EXCEPT ![s] = t]
         /\ sp_list' = [sp_list EXCEPT ![t] = l]
  BY <1>3 DEF PbFree
<1>8. /\ D.mem[f].length = SUPERPAGE_LEN => FreedAll(S, F1, P, C, s, h)
      /\ D.mem[f].length # SUPERPAGE_LEN => FreedSome(S, F2, P, C, s, {h})
  <2> HIDE DEF P
  <2> QED BY <1>1, <1>3, FreedOK
<1> HIDE DEF F1, F2, D, f
<1>9. CASE /\ D.mem[f].length = SUPERPAGE_LEN /\ IsHeapOf(t, F1)
           /\ owner' = [owner EXCEPT ![s] = NULL]
           /\ sp_list' = [sp_list EXCEPT ![t] = Without(l, s)]
  <2> DEFINE F == F1
  <2>1. /\ Typed(F) /\ Lists(F, P \ {s}, {}, C) /\ Elsewhere(S, F, P, s)
        /\ BusyOf(S, s) = {h} /\ \A q \in SpPage : q[1] = s => F.map[q] = NULL
    BY <1>8, <1>9 DEF FreedAll
  <2> HIDE DEF F
  <2>2. pbs = << >>
    <3>1. SUFFICES ASSUME pbs # << >> PROVE FALSE
      OBVIOUS
    <3>2. 1 \in DOMAIN pbs /\ 1 \in 1 .. Len(pbs)
      BY <1>6, <3>1
    <3>3. pbs[1] = h
      BY <1>6, <2>1, <3>2 DEF RemoteOf
    <3> QED BY <1>1, <3>2, <3>3 DEF ToSet
  <2>3. SpOK(F, s, NULL, run', << >>)
    <3>1. BusyOf(S, s) \subseteq {h}
      BY <2>1
    <3>2. \A q \in SpPage : q[1] = s => F.map[q] = NULL
      BY <2>1
    <3> QED BY <1>1, <1>4, <1>5, <3>1, <3>2, EmptySp
  <2>4. Elsewhere(B, F, P, s)
    BY <1>1, <2>1, ElsewhereTwice
  <2> DEFINE l2 == Without(l, s)
  <2>5. l2 \in Seq(Superpage) /\ ListedOK(l2, P \ {s})
    BY <1>1, <1>3, WithoutOK
  <2>6. Owned(t, s, NULL) = P \ {s}
    BY <1>2 DEF Owned
  <2>7. phase[t] = "live" => C = SmallIn(F, P \ {s})
    <3>1. SUFFICES ASSUME phase[t] = "live" PROVE C = SmallIn(F, P \ {s})
      OBVIOUS
    <3>2. C = SmallIn(S, P) \ {h}
      BY <1>1, <3>1
    <3>3. ASSUME NEW q \in SpPage PROVE q \in C <=> q \in SmallIn(F, P \ {s})
      <4>1. CASE q[1] = s
        <5>1. q \in SmallIn(S, P) <=> q \in BusyOf(S, s) /\ ~S.mem[q].large
          BY <1>3, <4>1, SmallHere
        <5>2. q \notin SmallIn(F, P \ {s})
          BY <4>1 DEF SmallIn
        <5> QED BY <2>1, <3>2, <5>1, <5>2
      <4>2. CASE q[1] # s
        <5>1. q \in SmallIn(F, P) <=> q \in SmallIn(S, P)
          BY <2>1, <4>2, SmallElsewhere
        <5> QED BY <1>3, <3>2, <4>2, <5>1 DEF SmallIn
      <4> QED BY <4>1, <4>2
    <3> QED BY <3>2, <3>3 DEF SmallIn
  <2>8. ListsOK(F, Owned(t, s, NULL), phase[t])
    BY <2>1, <2>6, <2>7 DEF ListsOK
  <2>9. HeapStep(t, s, F, NULL, << >>, l2)
    <3>1. IsHeapOf(t, F)
      BY <1>9 DEF F
    <3>2. << >> \in Seq(SpPage)
      OBVIOUS
    <3> QED BY <1>1, <1>5, <1>9, <2>1, <2>2, <2>4, <2>5, <3>1, <3>2 DEF HeapStep
  <2>10. ListedOK(l2, Owned(t, s, NULL))
    BY <2>5, <2>6
  <2> HIDE DEF l2
  <2> QED BY <2>3, <2>8, <2>9, <2>10, HeapStepOK
<1>10. CASE /\ D.mem[f].length # SUPERPAGE_LEN /\ IsHeapOf(t, F2)
            /\ owner' = [owner EXCEPT ![s] = t]
            /\ sp_list' = [sp_list EXCEPT ![t] = l]
  <2> DEFINE F == F2
             H == {h}
  <2>1. /\ Typed(F) /\ Lists(F, P, {}, C) /\ Kept(S, F, s, H) /\ Elsewhere(S, F, P, s)
    BY <1>8, <1>10 DEF FreedSome
  <2> HIDE DEF F
  <2>2. Released(S, F, s, H) /\ Short(F, s) /\ BusyOf(F, s) = BusyOf(S, s) \ H
        /\ \A q \in BusyOf(F, s) : SameHeader(S.mem, F.mem, q)
    BY <2>1 DEF Kept, Released
  <2>3. RemoteOf(F, s, pbs)
    <3>1. DOMAIN pbs = 1 .. Len(pbs)
      BY <1>6
    <3>2. \A k \in 1 .. Len(pbs) : pbs[k] # h
      BY <1>1, <3>1 DEF ToSet
    <3> QED BY <1>6, <2>2, <3>2 DEF RemoteOf
  <2>4. SpOK(F, s, t, run', pbs)
    <3>1. RunsFreed(run, run', H)
      BY <1>5
    <3>2. ToSet(pbs) \subseteq ToSet(pbs)
      OBVIOUS
    <3> HIDE DEF H
    <3> QED BY <1>1, <1>2, <2>2, <2>3, <3>1, <3>2, ReleasedSp
  <2>5. Elsewhere(B, F, P, s)
    BY <1>1, <2>1, ElsewhereTwice
  <2>6. Owned(t, s, t) = P
    BY DEF Owned
  <2>7. phase[t] = "live" => C = SmallIn(F, P)
    <3>1. SUFFICES ASSUME phase[t] = "live" PROVE C = SmallIn(F, P)
      OBVIOUS
    <3>2. C = SmallIn(S, P) \ {h}
      BY <1>1, <3>1
    <3>3. ASSUME NEW q \in SpPage PROVE q \in C <=> q \in SmallIn(F, P)
      <4>1. CASE q[1] = s
        <5>1. q \in SmallIn(F, P) <=> q \in BusyOf(F, s) /\ ~F.mem[q].large
          BY <1>3, <4>1, SmallHere
        <5>2. q \in SmallIn(S, P) <=> q \in BusyOf(S, s) /\ ~S.mem[q].large
          BY <1>3, <4>1, SmallHere
        <5> QED BY <2>2, <3>2, <5>1, <5>2 DEF SameHeader
      <4>2. CASE q[1] # s
        <5>1. q \in SmallIn(F, P) <=> q \in SmallIn(S, P)
          BY <2>1, <4>2, SmallElsewhere
        <5> QED BY <1>3, <3>2, <4>2, <5>1
      <4> QED BY <4>1, <4>2
    <3> QED BY <3>2, <3>3 DEF SmallIn
  <2>8. ListsOK(F, Owned(t, s, t), phase[t])
    BY <2>1, <2>6, <2>7 DEF ListsOK
  <2>9. HeapStep(t, s, F, t, pbs, l)
    <3>1. IsHeapOf(t, F)
      BY <1>10 DEF F
    <3> QED BY <1>1, <1>5, <1>6, <1>10, <2>1, <2>5, <3>1 DEF HeapStep
  <2>10. ListedOK(l, Owned(t, s, t))
    BY <1>1, <2>6
  <2> QED BY <2>4, <2>8, <2>9, <2>10, HeapStepOK
<1> QED BY <1>7, <1>9, <1>10

\* What LargeFreeOwn, AddLastBlocks, ... know of the page block.
LEMMA InUseBusy ==
  ASSUME ConstantsOK, IInv, NEW t \in Thread, NEW h \in SpPage, NEW large, InUse(h, large)
  PROVE  /\ h \in BusyOf(HeapOf(t), h[1]) /\ h[1] \in Superpage
         /\ HeapOf(t).mem[h].large = large /\ ~HeapOf(t).mem[h].whole
         /\ run[h] > 0
<1>1. h[1] \in Superpage
  BY Constants
<1>2. SpOK(HeapOf(t), h[1], owner[h[1]], run, remote_pb_list[h[1]])
  BY <1>1, HeapSp
<1>3. run[h] > 0 /\ mem[h].large = large /\ ~mem[h].whole
  BY DEF InUse
<1>4. h \in BusyOf(HeapOf(t), h[1])
  BY <1>2, <1>3 DEF SpOK, Runs
<1> QED BY <1>1, <1>3, <1>4 DEF HeapOf

\* Nothing happened yet.
LEMMA ElsewhereNot ==
  ASSUME NEW S, NEW O, NEW s
  PROVE  Elsewhere(S, S, O, s)
BY DEF Elsewhere, SameHeader

\* A live thread's superpage.
LEMMA OwnLive ==
  ASSUME ConstantsOK, IInv, NEW t \in Thread, phase[t] = "live", NEW s \in Superpage, owner[s] = t
  PROVE  /\ remote_pb_list[s] = << >> /\ s \in Own(t) /\ Own(t) \cup {s} = Own(t)
         /\ SpOK(HeapOf(t), s, t, run, << >>)
         /\ sp_list[t] \in Seq(Superpage) /\ ListedOK(sp_list[t], Own(t))
<1>1. remote_pb_list[s] = << >>
  BY NoRemotes
<1>2. SpOK(HeapOf(t), s, t, run, << >>)
  <2>1. SpOK(HeapOf(t), s, owner[s], run, remote_pb_list[s])
    BY HeapSp
  <2> QED BY <1>1, <2>1
<1>3. s \in Own(t) /\ Own(t) \cup {s} = Own(t)
  BY DEF Own
<1>4. sp_list[t] \in Seq(Superpage) /\ ListedOK(sp_list[t], Own(t))
  BY DEF IInv, TypeOK
<1> QED BY <1>1, <1>2, <1>3, <1>4

LEMMA LargeFreeOwnOK ==
  ASSUME ConstantsOK, IInv, NEW t \in Thread, NEW h \in SpPage, LargeFreeOwn(t, h)
  PROVE  IInv'
<1> DEFINE s == h[1]
           S == HeapOf(t)
           C == SmallIn(S, Own(t))
           l == sp_list[t]
           none == << >>
<1>1. phase[t] = "live" /\ InUse(h, TRUE) /\ owner[s] = t
      /\ PbFree(t, S, h, l, {h}) /\ remote_pb_list' = remote_pb_list /\ phase' = phase
  BY DEF LargeFreeOwn
<1>2. h \in BusyOf(S, s) /\ s \in Superpage /\ S.mem[h].large
  BY <1>1, InUseBusy
<1>3. /\ remote_pb_list[s] = << >> /\ s \in Own(t) /\ Own(t) \cup {s} = Own(t)
      /\ SpOK(S, s, t, run, << >>)
      /\ l \in Seq(Superpage) /\ ListedOK(l, Own(t))
  BY <1>1, <1>2, OwnLive
<1>4. Typed(S) /\ Lists(S, Own(t), {}, C)
  BY <1>1, LiveHeap DEF HeapInv
<1>5. h \notin C /\ C \ {h} = C
  BY <1>2 DEF SmallIn
<1>6. Elsewhere(HeapOf(t), S, Own(t), s)
  BY ElsewhereNot
<1>7. h \notin ToSet(none)
  BY DEF ToSet
<1>8. C = SmallIn(S, Own(t)) \ {h}
  BY <1>5
<1>9. owner[s] \in {t, "dead"}
  BY <1>1
<1>10. remote_pb_list' = [remote_pb_list EXCEPT ![s] = none]
  <2>1. remote_pb_list \in [Superpage -> Seq(SpPage)]
    BY DEF IInv, TypeOK
  <2> QED BY <1>1, <1>2, <1>3, <2>1
<1>11. Ready(t, s, S, C, h, none, l)
  <2> HIDE DEF S, C, l, s
  <2> QED BY <1>2, <1>3, <1>4, <1>5, <1>6, <1>7, <1>8, <1>9 DEF Ready, S
<1>12. s \in Superpage /\ PbFree(t, S, h, l, {h}) /\ phase' = phase
  BY <1>1, <1>2
<1> HIDE DEF S, C, l, none, s
<1> QED BY ONLY ConstantsOK, IInv, <1>10, <1>11, <1>12, FreeStep

LEMMA AddLastBlocksOK ==
  ASSUME ConstantsOK, IInv, NEW t \in Thread, NEW h \in SpPage, AddLastBlocks(t, h)
  PROVE  IInv'
<1> DEFINE s == h[1]
           B == HeapOf(t)
           O == Own(t)
           C == SmallIn(B, O)
           S == UnlistSmall(B, h)
           l == sp_list[t]
           none == << >>
<1>1. phase[t] = "live" /\ InUse(h, FALSE) /\ owner[s] = t
      /\ PbFree(t, S, h, l, {h}) /\ remote_pb_list' = remote_pb_list /\ phase' = phase
  BY DEF AddLastBlocks, InUseBy
<1>2. h \in BusyOf(B, s) /\ s \in Superpage /\ ~B.mem[h].large
  BY <1>1, InUseBusy
<1>3. /\ remote_pb_list[s] = << >> /\ s \in O /\ O \cup {s} = O
      /\ SpOK(B, s, t, run, << >>)
      /\ l \in Seq(Superpage) /\ ListedOK(l, O)
  BY <1>1, <1>2, OwnLive
<1>4. Typed(B) /\ Lists(B, O, {}, C)
  BY <1>1, LiveHeap DEF HeapInv
<1>5. h \in C
  BY <1>2, <1>3 DEF SmallIn, BusyOf
<1> HIDE DEF C
<1>6. Typed(S) /\ SameData(B, S) /\ Away(B, S, O) /\ Lists(S, O, {}, C \ {h})
  BY <1>4, <1>5, UnlistSmallOK
<1> HIDE DEF S
<1>7. Elsewhere(B, S, O, s)
  BY <1>6 DEF Elsewhere, SameData, Away, SameHeader
<1>8. Still(B, S, s)
  BY <1>6 DEF Still, SameData, SameHeader
<1>9. SpOK(S, s, t, run, << >>) /\ BusyOf(S, s) = BusyOf(B, s)
  BY <1>2, <1>3, <1>8, StillOK, StillBusy
<1>10. SmallIn(S, O) = C
  BY <1>6, SameSets DEF C
<1>11. h \notin ToSet(none)
  BY DEF ToSet
<1>12. owner[s] \in {t, "dead"}
  BY <1>1
<1>13. remote_pb_list' = [remote_pb_list EXCEPT ![s] = none]
  <2>1. remote_pb_list \in [Superpage -> Seq(SpPage)]
    BY DEF IInv, TypeOK
  <2> QED BY <1>1, <1>2, <1>3, <2>1
<1> DEFINE C2 == C \ {h}
<1>14. Ready(t, s, S, C2, h, none, l)
  <2>1. C2 = SmallIn(S, O) \ {h} /\ h \notin C2
    BY <1>10
  <2>2. h \in BusyOf(S, s)
    BY <1>2, <1>9
  <2> HIDE DEF l, s
  <2> QED BY <1>2, <1>3, <1>6, <1>7, <1>9, <1>11, <1>12, <2>1, <2>2 DEF Ready
<1> HIDE DEF C2, l, none
<1> QED BY <1>1, <1>2, <1>13, <1>14, FreeStep

\* tlh_return_pbhs: the page block may be anyone's on the list.
LEMMA ReturnPbhOK ==
  ASSUME ConstantsOK, IInv, NEW t \in Thread, ReturnPbh(t)
  PROVE  IInv'
<1> DEFINE h == pbh_list[t]
           s == h[1]
           B == HeapOf(t)
           O == Own(t)
           S == UnlistSmall(B, h)
           l == sp_list[t]
           pbs == remote_pb_list[s]
<1>1. /\ phase[t] = "exit" /\ h # NULL /\ remote_pb_list' = remote_pb_list /\ phase' = phase
      /\ \/ /\ B.mem[h].whole
            /\ PbFree(t, S, h, l, {h})
         \/ /\ ~B.mem[h].whole
            /\ IsHeapOf(t, S)
            /\ UNCHANGED <<owner, sp_list, run>>
  BY DEF ReturnPbh, HeapOf
<1>2. TypeOK /\ Typed(B) /\ B.blk = h /\ t \notin {"dead", NULL}
  BY HeapTyped DEF IInv, ConstantsOK
<1>3. PICK C : Lists(B, O, {}, C)
  <2>1. ListsOK(B, O, phase[t])
    BY DEF IInv
  <2> QED BY <1>1, <1>2, <2>1 DEF ListsOK
<1>4. h \in C /\ C \subseteq SmallIn(B, O)
  <2>1. IsRing(B.mem, C, B.blk)
    BY <1>3 DEF Lists
  <2> QED BY <1>1, <1>2, <1>3, <2>1 DEF IsRing, Lists
<1>5. h \in SpPage /\ s \in O /\ s \in Superpage /\ owner[s] = t /\ h \in BusyOf(B, s) /\ ~B.mem[h].large
  BY <1>4 DEF SmallIn, BusyOf, Own
<1>6. Typed(S) /\ SameData(B, S) /\ Away(B, S, O) /\ Lists(S, O, {}, C \ {h})
  BY <1>2, <1>3, <1>4, UnlistSmallOK
<1>7. SpOK(B, s, t, run, pbs)
  <2>1. SpOK(B, s, owner[s], run, remote_pb_list[s])
    BY <1>5, HeapSp
  <2> QED BY <1>5, <2>1
<1> HIDE DEF S, h
<1>8. Elsewhere(B, S, O, s)
  BY <1>6 DEF Elsewhere, SameData, Away, SameHeader
<1>9. Still(B, S, s)
  BY <1>6 DEF Still, SameData, SameHeader
<1>10. SpOK(S, s, t, run, pbs) /\ BusyOf(S, s) = BusyOf(B, s)
  BY <1>5, <1>7, <1>9, StillOK, StillBusy
<1>11. pbs \in Seq(SpPage) /\ h \notin ToSet(pbs)
  <2>1. pbs \in Seq(SpPage) /\ \A k \in 1 .. Len(pbs) : B.mem[pbs[k]].large
    BY <1>7 DEF SpOK, Remotes, RemoteOf
  <2> QED BY <1>5, <2>1 DEF ToSet
<1>12. l \in Seq(Superpage) /\ ListedOK(l, O) /\ O \cup {s} = O
  BY <1>2, <1>5 DEF TypeOK, IInv
<1>13. remote_pb_list' = [remote_pb_list EXCEPT ![s] = pbs]
  <2>1. remote_pb_list \in [Superpage -> Seq(SpPage)]
    BY <1>2 DEF TypeOK
  <2> QED BY <1>1, <1>5, <2>1
<1> DEFINE C2 == C \ {h}
<1>14. h \notin C2
  OBVIOUS
<1> HIDE DEF C2
<1>15. CASE PbFree(t, S, h, l, {h})
  <2>1. Ready(t, s, S, C2, h, pbs, l)
    <3>1. phase[t] # "live" /\ owner[s] \in {t, "dead"} /\ h \in BusyOf(S, s) /\ Lists(S, O, {}, C2)
      BY <1>1, <1>5, <1>6, <1>10 DEF C2
    <3> HIDE DEF l, s, pbs
    <3> QED BY <1>1, <1>6, <1>8, <1>10, <1>11, <1>12, <1>14, <3>1 DEF Ready
  <2> HIDE DEF l, s, pbs
  <2> QED BY <1>1, <1>5, <1>13, <1>15, <2>1, FreeStep
<1>16. CASE IsHeapOf(t, S) /\ UNCHANGED <<owner, sp_list, run>>
  <2>1. owner' = [owner EXCEPT ![s] = t] /\ sp_list' = [sp_list EXCEPT ![t] = l]
    <3>1. owner \in [Superpage -> Thread \cup {"dead", NULL}] /\ sp_list \in [Thread -> Seq(Superpage)]
      BY <1>2 DEF TypeOK
    <3> QED BY <1>5, <1>16, <3>1
  <2>2. run' \in [SpPage -> 0 .. NUM_PAGE_CLASSES] /\ run' = run
    BY <1>2, <1>16 DEF TypeOK
  <2>3. HeapStep(t, s, S, t, pbs, l)
    <3> HIDE DEF l, s, pbs
    <3> QED BY <1>1, <1>5, <1>6, <1>8, <1>11, <1>12, <1>13, <1>16, <2>1, <2>2 DEF HeapStep
  <2>4. Owned(t, s, t) = O
    BY <1>12 DEF Owned
  <2>5. ListsOK(S, Owned(t, s, t), phase[t])
    BY <1>1, <1>6, <2>4 DEF ListsOK
  <2>6. ListedOK(l, Owned(t, s, t)) /\ SpOK(S, s, t, run', pbs)
    BY <1>10, <1>12, <2>2, <2>4
  <2> HIDE DEF l, s, pbs
  <2> QED BY <1>5, <2>3, <2>5, <2>6, HeapStepOK
<1> QED BY <1>1, <1>15, <1>16

----------------------------------------------------------------------------
(* take_superpage                                                          *)

\* Thread t may adopt s, with S for its heap and the remote list pbs.
Adoptable(t, s, S, pbs) ==
  /\ s \in Superpage /\ owner[s] = "dead"
  /\ Typed(S) /\ Lists(S, Own(t), {}, SmallIn(S, Own(t)))
  /\ Elsewhere(HeapOf(t), S, Own(t) \cup {s}, s)
  /\ SpOK(S, s, t, run, << >>)
  /\ RemoteOf(S, s, pbs) /\ ~(BusyOf(S, s) \subseteq ToSet(pbs))

\* What the adopter has then, in the heap F.
AdoptedSp(t, s, F, rn2) ==
  /\ Typed(F) /\ Lists(F, Own(t) \cup {s}, {}, SmallIn(F, Own(t) \cup {s}))
  /\ Elsewhere(HeapOf(t), F, Own(t) \cup {s}, s)
  /\ SpOK(F, s, t, rn2, << >>)

LEMMA TakeOK ==
  ASSUME ConstantsOK, NEW t \in Thread, NEW s, NEW S, NEW pbs, Adoptable(t, s, S, pbs),
         NEW rn2, RunsFreed(run, rn2, ToSet(pbs) \cup WholeOf(S, s))
  PROVE  AdoptedSp(t, s, Taken(S, s, pbs), rn2) /\ Released(S, Taken(S, s, pbs), s, ToSet(pbs) \cup WholeOf(S, s))
<1> DEFINE O == Own(t)
           P == O \cup {s}
           C == SmallIn(S, O)
           F == Taken(S, s, pbs)
           H == ToSet(pbs) \cup WholeOf(S, s)
           none == << >>
<1>1. /\ s \in Superpage /\ owner[s] = "dead"
      /\ Typed(S) /\ Lists(S, O, {}, C)
      /\ Elsewhere(HeapOf(t), S, P, s)
      /\ SpOK(S, s, t, run, none)
      /\ RemoteOf(S, s, pbs) /\ ~(BusyOf(S, s) \subseteq ToSet(pbs))
  BY DEF Adoptable
<1>2. t \notin {"dead", NULL}
  BY DEF ConstantsOK
<1>3. s \notin O
  BY <1>1, <1>2 DEF Own
<1>4. Tiled(S.mem, S.map, s) /\ Short(S, s)
  BY <1>1, <1>2 DEF SpOK, Sound
<1> HIDE DEF O, H
<1>5. Orphan(S, O, C, s)
  BY <1>1, <1>3, <1>4 DEF Orphan
<1>6. /\ Typed(F) /\ Released(S, F, s, H)
      /\ Elsewhere(S, F, P, s) /\ Short(F, s)
      /\ Lists(F, P, {}, C \cup SmallOf(F, s))
  <2> HIDE DEF C
  <2> QED BY <1>1, <1>4, <1>5, TakenOK DEF H
<1> HIDE DEF F
<1>7. RemoteOf(F, s, none)
  BY DEF RemoteOf
<1>8. SpOK(F, s, t, rn2, none)
  <2>1. RunsFreed(run, rn2, H)
    BY DEF H
  <2>2. ToSet(none) \subseteq ToSet(none)
    OBVIOUS
  <2> HIDE DEF none
  <2> QED BY <1>1, <1>2, <1>6, <1>7, <2>1, <2>2, ReleasedSp
<1>9. C \cup SmallOf(F, s) = SmallIn(F, P)
  <2>1. ASSUME NEW q \in SpPage PROVE q \in C \cup SmallOf(F, s) <=> q \in SmallIn(F, P)
    <3>1. CASE q[1] = s
      <4>1. q \notin C
        BY <1>3, <3>1 DEF SmallIn
      <4>2. q \in SmallIn(F, P) <=> q \in BusyOf(F, s) /\ ~F.mem[q].large
        BY <3>1, SmallHere
      <4> QED BY <4>1, <4>2 DEF SmallOf
    <3>2. CASE q[1] # s
      <4>1. q \in SmallIn(F, P) <=> q \in SmallIn(S, P)
        BY <1>6, <3>2, SmallElsewhere
      <4>2. q \in SmallIn(S, P) <=> q \in C
        BY <3>2 DEF SmallIn
      <4>3. q \notin SmallOf(F, s)
        BY <3>2 DEF SmallOf, BusyOf
      <4> QED BY <4>1, <4>2, <4>3
    <3> QED BY <3>1, <3>2
  <2>2. C \cup SmallOf(F, s) \subseteq SpPage
    BY DEF SmallIn, SmallOf, BusyOf
  <2> QED BY <2>1, <2>2 DEF SmallIn
<1>10. Elsewhere(HeapOf(t), F, P, s)
  BY <1>1, <1>6, ElsewhereTwice
<1>11. Lists(F, P, {}, SmallIn(F, P))
  BY <1>6, <1>9
<1> QED BY <1>6, <1>8, <1>10, <1>11 DEF AdoptedSp, F, O, H

LEMMA TakeStep ==
  ASSUME ConstantsOK, IInv, NEW t \in Thread, phase[t] = "live", NEW s, NEW S, NEW pbs,
         TakeSuperpage(t, s, S, pbs), Adoptable(t, s, S, pbs), phase' = phase,
         RunsFreed(run, run', ToSet(pbs) \cup WholeOf(S, s)),
         \A q \in ToSet(pbs) \cup WholeOf(S, s) : q[1] = s
  PROVE  IInv'
<1> DEFINE P == Own(t) \cup {s}
           F == Taken(S, s, pbs)
           l == <<s>> \o sp_list[t]
           none == << >>
           H == ToSet(pbs) \cup WholeOf(S, s)
<1>1. AdoptedSp(t, s, F, run')
  BY TakeOK
<1>2. /\ owner[s] = "dead" /\ IsHeapOf(t, F)
      /\ owner' = [owner EXCEPT ![s] = t]
      /\ sp_list' = [sp_list EXCEPT ![t] = l]
      /\ remote_pb_list' = [remote_pb_list EXCEPT ![s] = none]
  <2>1. TypeOK
    BY DEF IInv
  <2> QED BY <2>1 DEF TakeSuperpage, TypeOK
<1> HIDE DEF F
<1>3. /\ Typed(F) /\ Lists(F, P, {}, SmallIn(F, P))
      /\ Elsewhere(HeapOf(t), F, P, s)
      /\ SpOK(F, s, t, run', none)
  BY <1>1 DEF AdoptedSp
<1>4. s \in Superpage /\ t \notin {"dead", NULL}
  BY DEF Adoptable, ConstantsOK
<1>5. s \notin Own(t)
  BY <1>2, <1>4 DEF Own
<1>6. l \in Seq(Superpage) /\ ListedOK(l, P)
  <2>1. sp_list[t] \in Seq(Superpage) /\ ListedOK(sp_list[t], Own(t))
    BY DEF IInv, TypeOK
  <2> QED BY <1>4, <1>5, <2>1, Prepended
<1>7. run \in [SpPage -> 0 .. NUM_PAGE_CLASSES]
  BY DEF IInv, TypeOK
<1>8. /\ run' \in [SpPage -> 0 .. NUM_PAGE_CLASSES]
      /\ \A q \in SpPage : q[1] # s => run'[q] = run[q]
  <2>1. 0 \in 0 .. NUM_PAGE_CLASSES
    BY Constants DEF NUM_PAGE_CLASSES
  <2>2. run' = [q \in SpPage |-> IF q \in H THEN 0 ELSE run[q]]
    BY DEF RunsFreed
  <2>3. \A q \in H : q[1] = s
    OBVIOUS
  <2> HIDE DEF H
  <2> QED BY <1>7, <2>1, <2>2, <2>3
<1>9. Owned(t, s, t) = P
  BY DEF Owned
<1>10. ListsOK(F, Owned(t, s, t), phase[t])
  BY <1>3, <1>9 DEF ListsOK
<1>11. none \in Seq(SpPage) /\ none = << >>
  OBVIOUS
<1> HIDE DEF none, l
<1>12. HeapStep(t, s, F, t, none, l)
  BY <1>2, <1>3, <1>6, <1>8, <1>11 DEF HeapStep
<1> QED BY <1>3, <1>4, <1>6, <1>9, <1>10, <1>12, HeapStepOK

LEMMA DeadHeap ==
  ASSUME ConstantsOK, IInv, NEW t \in Thread, phase[t] = "live", NEW s \in Superpage, owner[s] = "dead"
  PROVE  /\ remote_pb_list[s] = << >> /\ s \notin Own(t)
         /\ SpOK(HeapOf(t), s, t, run, << >>) /\ Orphaned(HeapOf(t), s)
         /\ Typed(HeapOf(t)) /\ Lists(HeapOf(t), Own(t), {}, SmallIn(HeapOf(t), Own(t)))
<1> DEFINE B == HeapOf(t)
<1>1. \A u \in Thread : u \notin {"dead", NULL}
  BY DEF ConstantsOK
<1>2. remote_pb_list[s] = << >>
  BY <1>1, NoRemotes
<1>3. SpOK(B, s, owner[s], run, remote_pb_list[s])
  BY HeapSp
<1>4. Typed(B) /\ Lists(B, Own(t), {}, SmallIn(B, Own(t)))
  BY LiveHeap DEF HeapInv
<1> HIDE DEF B
<1>5. Sound(B, s) /\ Runs(B, s, run) /\ Remotes(B, s, run, << >>) /\ Orphaned(B, s)
  <2>1. "dead" # NULL
    BY DEF ConstantsOK
  <2> QED BY <1>2, <1>3, <2>1 DEF SpOK
<1>6. SpOK(B, s, t, run, << >>)
  BY <1>1, <1>5 DEF SpOK
<1>7. s \notin Own(t)
  BY <1>1 DEF Own
<1> QED BY <1>2, <1>4, <1>5, <1>6, <1>7 DEF B

\* An orphan as it is.
LEMMA DeadAdoptable ==
  ASSUME ConstantsOK, IInv, NEW t \in Thread, phase[t] = "live", NEW s \in Superpage, owner[s] = "dead",
         NEW pbs, RemoteOf(HeapOf(t), s, pbs), \A q \in ToSet(pbs) : HeapOf(t).mem[q].large
  PROVE  Adoptable(t, s, HeapOf(t), pbs) /\ WholeOf(HeapOf(t), s) = {}
<1> DEFINE B == HeapOf(t)
<1>1. /\ SpOK(B, s, t, run, << >>) /\ Orphaned(B, s)
      /\ Typed(B) /\ Lists(B, Own(t), {}, SmallIn(B, Own(t)))
  BY DeadHeap
<1>2. Elsewhere(B, B, Own(t) \cup {s}, s)
  BY ElsewhereNot
<1>3. ~(BusyOf(B, s) \subseteq ToSet(pbs))
  BY <1>1 DEF Orphaned
<1>4. WholeOf(B, s) = {}
  BY <1>1 DEF Orphaned, WholeOf
<1> HIDE DEF B
<1>5. Adoptable(t, s, B, pbs)
  <2>1. RemoteOf(B, s, pbs)
    BY DEF B
  <2> QED BY <1>1, <1>2, <1>3, <2>1 DEF Adoptable, B
<1> QED BY <1>4, <1>5 DEF B

LEMMA AdoptOK ==
  ASSUME ConstantsOK, IInv, NEW t \in Thread, NEW s \in Superpage, Adopt(t, s)
  PROVE  IInv'
<1> DEFINE B == HeapOf(t)
           none == << >>
           H == ToSet(none) \cup WholeOf(B, s)
<1>1. phase[t] = "live" /\ TakeSuperpage(t, s, B, remote_pb_list[s]) /\ phase' = phase /\ run' = run
  BY DEF Adopt
<1>2. owner[s] = "dead"
  BY <1>1 DEF TakeSuperpage
<1>3. remote_pb_list[s] = none
  BY <1>1, <1>2, DeadHeap
<1>4. RemoteOf(B, s, none) /\ \A q \in ToSet(none) : B.mem[q].large
  BY DEF RemoteOf, ToSet
<1>5. Adoptable(t, s, B, none) /\ WholeOf(B, s) = {}
  <2> HIDE DEF none
  <2> QED BY <1>1, <1>2, <1>4, DeadAdoptable
<1>6. H = {}
  BY <1>5 DEF ToSet
<1>7. RunsFreed(run, run', H)
  <2>1. run \in [SpPage -> 0 .. NUM_PAGE_CLASSES]
    BY DEF IInv, TypeOK
  <2> HIDE DEF H
  <2> QED BY <1>1, <1>6, <2>1 DEF RunsFreed
<1>8. \A q \in H : q[1] = s
  BY <1>6
<1> HIDE DEF none, B
<1>9. TakeSuperpage(t, s, B, none)
  BY <1>1, <1>3
<1> QED BY <1>1, <1>5, <1>7, <1>8, <1>9, TakeStep

LEMMA LargeFreeDyingOK ==
  ASSUME ConstantsOK, IInv, NEW t \in Thread, NEW h \in SpPage, LargeFreeDying(t, h)
  PROVE  IInv'
<1> DEFINE B == HeapOf(t)
           s == h[1]
           pbs == <<h>>
           H == ToSet(pbs) \cup WholeOf(B, s)
<1>1. phase[t] = "live" /\ InUse(h, TRUE) /\ TakeSuperpage(t, s, B, <<h>> \o remote_pb_list[s])
      /\ phase' = phase /\ run' = WithoutRuns({h})
  BY DEF LargeFreeDying
<1>2. owner[s] = "dead"
  BY <1>1 DEF TakeSuperpage
<1>3. h \in BusyOf(B, s) /\ s \in Superpage /\ B.mem[h].large
  BY <1>1, InUseBusy
<1>4. remote_pb_list[s] = << >>
  BY <1>1, <1>2, <1>3, DeadHeap
<1>5. <<h>> \o remote_pb_list[s] = pbs
  BY <1>4
<1>6. RemoteOf(B, s, pbs) /\ ToSet(pbs) = {h}
  BY <1>3 DEF RemoteOf, ToSet
<1>7. Adoptable(t, s, B, pbs) /\ WholeOf(B, s) = {}
  <2>1. \A q \in ToSet(pbs) : B.mem[q].large
    BY <1>3, <1>6
  <2> HIDE DEF pbs, s
  <2> QED BY <1>1, <1>2, <1>3, <1>6, <2>1, DeadAdoptable
<1>8. H = {h}
  BY <1>6, <1>7
<1>9. RunsFreed(run, run', H)
  BY <1>1, <1>8 DEF RunsFreed, WithoutRuns
<1>10. \A q \in H : q[1] = s
  BY <1>8
<1>11. TakeSuperpage(t, s, B, pbs)
  BY <1>1, <1>5
<1> HIDE DEF pbs, B, s
<1> QED BY <1>1, <1>7, <1>9, <1>10, <1>11, TakeStep

LEMMA AdoptDyingOK ==
  ASSUME ConstantsOK, IInv, NEW t \in Thread, NEW h \in SpPage, AdoptDying(t, h)
  PROVE  IInv'
<1> DEFINE B == HeapOf(t)
           O == Own(t)
           s == h[1]
           m2 == [B.mem EXCEPT ![h].whole = TRUE]
           S == [B EXCEPT !.mem[h].whole = TRUE]
           none == << >>
           H == ToSet(none) \cup WholeOf(S, s)
<1>1. phase[t] = "live" /\ InUse(h, FALSE) /\ TakeSuperpage(t, s, S, remote_pb_list[s])
      /\ phase' = phase /\ run' = WithoutRuns({h})
  BY DEF AdoptDying
<1>2. owner[s] = "dead"
  BY <1>1 DEF TakeSuperpage
<1>3. h \in BusyOf(B, s) /\ s \in Superpage /\ ~B.mem[h].large
  BY <1>1, InUseBusy
<1>4. /\ remote_pb_list[s] = none /\ s \notin O
      /\ SpOK(B, s, t, run, none) /\ Orphaned(B, s)
      /\ Typed(B) /\ Lists(B, O, {}, SmallIn(B, O))
  BY <1>1, <1>2, <1>3, DeadHeap
<1>5. B = [mem |-> B.mem, map |-> B.map, free |-> B.free, blk |-> B.blk]
      /\ B.mem \in [SpPage -> Header] /\ B.map \in [SpPage -> Ptr] /\ B.free \in [Lens -> Ptr] /\ B.blk \in Ptr
  BY <1>4 DEF Typed
<1> HIDE DEF B
<1>6. /\ m2 \in [SpPage -> Header] /\ m2[h].whole
      /\ m2[h].length = B.mem[h].length /\ m2[h].free = B.mem[h].free /\ m2[h].large = B.mem[h].large
      /\ m2[h].next = B.mem[h].next /\ m2[h].prev = B.mem[h].prev
      /\ \A q \in SpPage : q # h => m2[q] = B.mem[q]
  BY <1>5 DEF Header
<1>7. S = [mem |-> m2, map |-> B.map, free |-> B.free, blk |-> B.blk]
  <2>1. S = [B EXCEPT !.mem = m2]
    OBVIOUS
  <2> HIDE DEF m2, S
  <2> QED BY <1>5, <2>1
<1> HIDE DEF m2, S
<1>8. /\ Typed(S) /\ S.mem = m2 /\ S.map = B.map /\ S.free = B.free /\ S.blk = B.blk
  BY <1>5, <1>6, <1>7 DEF Typed
<1>9. Changed(B, S, h) /\ S.mem[h].free = B.mem[h].free /\ S.mem[h].large = B.mem[h].large /\ S.mem[h].whole
  BY <1>6, <1>8 DEF Changed
<1>10. \A q \in SpPage : q # h => S.mem[q] = B.mem[q]
  BY <1>6, <1>8
<1>11. SmallIn(S, O) = SmallIn(B, O)
  BY <1>8, <1>9, <1>10 DEF SmallIn
<1>12. BusyOf(S, s) = BusyOf(B, s)
  BY <1>8, <1>9, <1>10 DEF BusyOf
<1>13. Lists(S, O, {}, SmallIn(S, O))
  <2> DEFINE C == SmallIn(B, O)
             E == {}
  <2>1. h \notin C
    BY <1>4 DEF SmallIn
  <2>2. Lists(B, O, E, C)
    BY <1>4
  <2>3. h[1] \notin O
    BY <1>4
  <2> HIDE DEF C, E, s
  <2>4. Lists(S, O, E, C)
    BY <1>9, <2>1, <2>2, <2>3, ChangedLists
  <2> QED BY <1>11, <2>4 DEF C, E
<1>14. Elsewhere(B, S, O \cup {s}, s)
  BY <1>8, <1>10 DEF Elsewhere, SameHeader
<1>15. SpOK(S, s, t, run, none)
  <2>1. t \notin {"dead", NULL}
    BY DEF ConstantsOK
  <2>2. Sound(B, s) /\ Runs(B, s, run)
    BY <1>4, <2>1 DEF SpOK
  <2>3. \A q \in SpPage : S.mem[q].length = B.mem[q].length /\ S.mem[q].free = B.mem[q].free
                          /\ S.mem[q].large = B.mem[q].large
    BY <1>6, <1>8
  <2>4. Tiled(S.mem, S.map, s)
    BY <1>3, <1>8, <2>2, <2>3, SameTiled DEF Sound
  <2>5. Short(S, s)
    BY <1>8, <2>2, <2>3 DEF Sound, Short
  <2>6. ASSUME NEW q \in BusyOf(S, s), S.mem[q].large PROVE ~S.mem[q].whole
    <3>1. q # h /\ q \in SpPage
      BY <1>3, <1>9, <2>6 DEF BusyOf
    <3> QED BY <1>10, <1>12, <2>2, <2>6, <3>1 DEF Sound
  <2>7. Runs(S, s, run)
    BY <1>12, <2>2, <2>3 DEF Runs
  <2>8. Remotes(S, s, run, none)
    BY DEF Remotes, RemoteOf
  <2> QED BY <2>1, <2>4, <2>5, <2>6, <2>7, <2>8 DEF SpOK, Sound
<1>16. WholeOf(S, s) = {h}
  <2>1. ASSUME NEW q \in BusyOf(S, s) PROVE S.mem[q].whole <=> q = h
    <3>1. q \in SpPage /\ q \in BusyOf(B, s) /\ ~B.mem[q].whole
      BY <1>4, <1>12 DEF BusyOf, Orphaned
    <3> QED BY <1>9, <1>10, <3>1
  <2>2. h \in BusyOf(S, s)
    BY <1>3, <1>12
  <2> QED BY <2>1, <2>2 DEF WholeOf
<1>17. H = {h} /\ ToSet(none) = {}
  BY <1>16 DEF ToSet
<1>18. RunsFreed(run, run', H)
  BY <1>1, <1>17 DEF RunsFreed, WithoutRuns
<1>19. \A q \in H : q[1] = s
  BY <1>17
<1>20. RemoteOf(S, s, none) /\ ~(BusyOf(S, s) \subseteq ToSet(none))
  BY <1>3, <1>12, <1>17 DEF RemoteOf
<1> HIDE DEF none, s
<1>21. Adoptable(t, s, S, none)
  BY <1>2, <1>3, <1>8, <1>13, <1>14, <1>15, <1>20 DEF Adoptable, B, O, none
<1>22. TakeSuperpage(t, s, S, none)
  BY <1>1, <1>4
<1> QED BY <1>1, <1>18, <1>19, <1>21, <1>22, TakeStep

LEMMA LargeFreeDeadOK ==
  ASSUME ConstantsOK, IInv, NEW t \in Thread, NEW h \in SpPage, LargeFreeDead(t, h)
  PROVE  IInv'
<1> DEFINE B == HeapOf(t)
           s == h[1]
           P == Own(t) \cup {s}
           none == << >>
           F == Taken(B, s, none)
           C == SmallIn(F, P)
           l == <<s>> \o sp_list[t]
           H == ToSet(none) \cup WholeOf(B, s)
<1>1. /\ phase[t] = "live" /\ InUse(h, TRUE) /\ owner[s] = "dead"
      /\ PbFree(t, Taken(B, s, remote_pb_list[s]), h, l, {h})
      /\ remote_pb_list' = [remote_pb_list EXCEPT ![s] = none] /\ phase' = phase
  BY DEF LargeFreeDead
<1>2. h \in BusyOf(B, s) /\ s \in Superpage /\ B.mem[h].large
  BY <1>1, InUseBusy
<1>3. remote_pb_list[s] = none /\ s \notin Own(t)
  BY <1>1, <1>2, DeadHeap
<1>4. RemoteOf(B, s, none) /\ ToSet(none) = {} /\ \A q \in ToSet(none) : B.mem[q].large
  BY DEF RemoteOf, ToSet
<1> HIDE DEF none, s
<1>5. Adoptable(t, s, B, none) /\ WholeOf(B, s) = {}
  BY <1>1, <1>2, <1>4, DeadAdoptable
<1>6. H = {}
  BY <1>4, <1>5
<1>7. RunsFreed(run, run, H)
  <2>1. run \in [SpPage -> 0 .. NUM_PAGE_CLASSES]
    BY DEF IInv, TypeOK
  <2> HIDE DEF H
  <2> QED BY <1>6, <2>1 DEF RunsFreed
<1>8. AdoptedSp(t, s, F, run) /\ Released(B, F, s, H)
  BY <1>5, <1>7, TakeOK
<1> HIDE DEF F
<1>9. /\ Typed(F) /\ Lists(F, P, {}, C)
      /\ Elsewhere(B, F, P, s)
      /\ SpOK(F, s, t, run, << >>)
  BY <1>8 DEF AdoptedSp
<1>10. h \in BusyOf(F, s) /\ F.mem[h].large
  <2>1. h \in SpPage /\ h \in BusyOf(F, s)
    BY <1>2, <1>6, <1>8 DEF Released
  <2> QED BY <1>2, <1>8, <2>1 DEF Released, SameHeader
<1>11. h \notin C /\ C = C \ {h}
  BY <1>10 DEF SmallIn
<1>12. l \in Seq(Superpage) /\ ListedOK(l, P)
  <2>1. sp_list[t] \in Seq(Superpage) /\ ListedOK(sp_list[t], Own(t))
    BY DEF IInv, TypeOK
  <2> QED BY <1>2, <1>3, <2>1, Prepended
<1> HIDE DEF l, H
<1>13. Ready(t, s, F, C, h, none, l)
  <2>1. none = << >> /\ h \notin ToSet(none)
    BY <1>4 DEF none
  <2>2. phase[t] = "live" => C = SmallIn(F, P) \ {h}
    BY <1>11
  <2>3. SpOK(F, s, t, run, none)
    BY <1>9, <2>1
  <2> HIDE DEF C
  <2> QED BY <1>1, <1>9, <1>10, <1>11, <1>12, <2>1, <2>2, <2>3 DEF Ready
<1>14. PbFree(t, F, h, l, {h})
  BY <1>1, <1>3 DEF F
<1> HIDE DEF C
<1> QED BY <1>1, <1>2, <1>13, <1>14, FreeStep

----------------------------------------------------------------------------
(* The counters: steps that change pointers or one status.                 *)

\* The heap of the thread changes, its superpages do not.
LEMMA LiveStep ==
  ASSUME ConstantsOK, IInv, NEW t \in Thread, phase[t] = "live",
         NEW s \in Superpage, owner[s] = t, NEW F, IsHeapOf(t, F), Typed(F),
         Elsewhere(HeapOf(t), F, Own(t), s), Lists(F, Own(t), {}, SmallIn(F, Own(t))),
         SpOK(F, s, t, run, << >>),
         UNCHANGED <<owner, sp_list, remote_pb_list, phase, run>>
  PROVE  IInv'
<1> DEFINE O == Own(t)
           l == sp_list[t]
           none == << >>
<1>1. /\ remote_pb_list[s] = none /\ s \in O /\ O \cup {s} = O
      /\ l \in Seq(Superpage) /\ ListedOK(l, O)
  BY OwnLive
<1>2. TypeOK
  BY DEF IInv
<1>3. /\ owner' = [owner EXCEPT ![s] = t] /\ sp_list' = [sp_list EXCEPT ![t] = l]
      /\ remote_pb_list' = [remote_pb_list EXCEPT ![s] = none]
      /\ phase' = phase /\ run' = run /\ run' \in [SpPage -> 0 .. NUM_PAGE_CLASSES]
  BY <1>1, <1>2 DEF TypeOK
<1>4. Owned(t, s, t) = O
  BY <1>1 DEF Owned
<1>5. ListsOK(F, Owned(t, s, t), phase[t]) /\ ListedOK(l, Owned(t, s, t))
  BY <1>1, <1>4 DEF ListsOK
<1>6. SpOK(F, s, t, run', none)
  BY <1>3
<1>7. none \in Seq(SpPage) /\ none = << >>
  OBVIOUS
<1> HIDE DEF none, l
<1>8. HeapStep(t, s, F, t, none, l)
  BY <1>1, <1>3, <1>7 DEF HeapStep
<1> QED BY <1>5, <1>6, <1>8, HeapStepOK

LEMMA AddSomeBlocksOK ==
  ASSUME ConstantsOK, IInv, NEW t \in Thread, NEW h \in SpPage, AddSomeBlocks(t, h)
  PROVE  IInv'
<1> DEFINE s == h[1]
           B == HeapOf(t)
           O == Own(t)
           C == SmallIn(B, O)
           U == UnlistSmall(B, h)
           F == [ListSmall(U, h) EXCEPT !.blk = h]
<1>1. /\ phase[t] = "live" /\ InUse(h, FALSE) /\ owner[s] = t /\ pbh_list[t] # h
      /\ mem' = Insert(Unlink(mem, h), pbh_list[t], h)
      /\ pbh_list' = [pbh_list EXCEPT ![t] = h]
      /\ UNCHANGED <<owner, sp_list, remote_pb_list, phase, run>> /\ UNCHANGED <<pagemap, free_pb_list>>
  BY DEF AddSomeBlocks, InUseBy
<1>2. h \in BusyOf(B, s) /\ s \in Superpage /\ ~B.mem[h].large
  BY <1>1, InUseBusy
<1>3. s \in O /\ O \cup {s} = O /\ SpOK(B, s, t, run, << >>)
  BY <1>1, <1>2, OwnLive
<1>4. Typed(B) /\ Lists(B, O, {}, C)
  BY <1>1, LiveHeap DEF HeapInv
<1>5. h \in C
  BY <1>2, <1>3 DEF SmallIn, BusyOf
<1> HIDE DEF C
<1>6. Typed(U) /\ SameData(B, U) /\ Away(B, U, O) /\ Lists(U, O, {}, C \ {h})
  BY <1>4, <1>5, UnlistSmallOK
<1>7. TypeOK /\ B.mem = mem /\ B.map = pagemap /\ B.free = free_pb_list[t] /\ B.blk = pbh_list[t]
  BY HeapTyped DEF IInv
<1>8. B = [mem |-> mem, map |-> pagemap, free |-> free_pb_list[t], blk |-> pbh_list[t]]
  BY DEF HeapOf
<1>9. U = [mem |-> Unlink(mem, h), map |-> pagemap, free |-> free_pb_list[t], blk |-> pbh_list[t]]
  <2>1. U = [B EXCEPT !.mem = Unlink(mem, h), !.blk = HeadWithout(mem, pbh_list[t], h)]
    BY <1>7 DEF UnlistSmall
  <2>2. HeadWithout(mem, pbh_list[t], h) = pbh_list[t]
    BY <1>1 DEF HeadWithout
  <2> HIDE DEF U, B
  <2> QED BY <1>8, <2>1, <2>2
<1>10. F = [mem |-> mem', map |-> pagemap, free |-> free_pb_list[t], blk |-> h]
  <2> DEFINE n == Insert(Unlink(mem, h), pbh_list[t], h)
  <2>1. ListSmall(U, h) = [U EXCEPT !.mem = n, !.blk = h]
    <3> HIDE DEF U
    <3> QED BY <1>9 DEF ListSmall
  <2>2. mem' = n
    BY <1>1
  <2> HIDE DEF U, n
  <2> QED BY <1>9, <2>1, <2>2
<1> HIDE DEF U
<1>11. SmallIn(U, O) = C
  BY <1>6, SameSets DEF C
<1>12. Typed(F) /\ SameData(U, F) /\ Away(U, F, O) /\ Lists(F, O, {}, C)
  <2>1. h \in SmallIn(U, O) \ (C \ {h}) /\ (C \ {h}) \cup {h} = C
    BY <1>5, <1>11
  <2> DEFINE C2 == C \ {h}
             E == {}
             top == h
  <2>2. Lists(U, O, E, C2) /\ h \in SmallIn(U, O) \ C2 /\ (top = h \/ (C2 # {} /\ top = U.blk))
    BY <1>6, <2>1
  <2>3. F = [ListSmall(U, h) EXCEPT !.blk = top]
    OBVIOUS
  <2> HIDE DEF C2, E, F, top
  <2>4. Typed(F) /\ SameData(U, F) /\ Away(U, F, O) /\ Lists(F, O, E, C2 \cup {h})
    BY <1>6, <2>2, <2>3, ListSmallOK
  <2> QED BY <2>1, <2>4 DEF C2, E
<1> HIDE DEF F
<1>13. SmallIn(F, O) = C
  BY <1>11, <1>12, SameSets
<1>14. Elsewhere(B, F, O, s)
  BY <1>6, <1>12 DEF Elsewhere, SameData, Away, SameHeader
<1>15. Still(B, F, s)
  BY <1>6, <1>12 DEF Still, SameData, SameHeader
<1>16. SpOK(F, s, t, run, << >>)
  BY <1>2, <1>3, <1>15, StillOK
<1>17. IsHeapOf(t, F)
  <2>1. free_pb_list' = [free_pb_list EXCEPT ![t] = free_pb_list[t]]
    BY <1>1, <1>7 DEF TypeOK
  <2> QED BY <1>1, <1>10, <2>1 DEF IsHeapOf
<1> HIDE DEF s
<1> QED BY <1>1, <1>2, <1>12, <1>13, <1>14, <1>16, <1>17, LiveStep

\* Case 3 of small_malloc.
LEMMA TakeBlocksOK ==
  ASSUME ConstantsOK, IInv, NEW t \in Thread, TakeBlocks(t)
  PROVE  IInv'
<1> DEFINE h == pbh_list[t]
           s == h[1]
           B == HeapOf(t)
           O == Own(t)
           C == SmallIn(B, O)
           m2 == [mem EXCEPT ![h].whole = FALSE]
<1>1. PICK top \in {h, mem[h].next} :
      /\ phase[t] = "live" /\ h # NULL /\ mem' = m2
      /\ pbh_list' = [pbh_list EXCEPT ![t] = top]
      /\ UNCHANGED <<owner, sp_list, remote_pb_list, phase, run>> /\ UNCHANGED <<pagemap, free_pb_list>>
  BY DEF TakeBlocks
<1>2. TypeOK /\ Typed(B) /\ B.mem = mem /\ B.map = pagemap /\ B.free = free_pb_list[t] /\ B.blk = h
  BY HeapTyped DEF IInv
<1>3. Lists(B, O, {}, C)
  BY <1>1, LiveHeap DEF HeapInv
<1>4. IsRing(B.mem, C, h)
  BY <1>2, <1>3 DEF Lists
<1>5. h \in C /\ h \in SpPage
  BY <1>1, <1>4 DEF IsRing, SmallIn
<1>6. s \in O /\ s \in Superpage /\ owner[s] = t /\ h \in BusyOf(B, s) /\ ~mem[h].large /\ ~mem[h].free
      /\ pagemap[h] = h
  BY <1>2, <1>5 DEF SmallIn, BusyOf, Own
<1>7. SpOK(B, s, t, run, << >>) /\ O \cup {s} = O
  BY <1>1, <1>6, OwnLive
<1>8. mem \in [SpPage -> Header] /\ pagemap \in [SpPage -> Ptr] /\ free_pb_list \in [Thread -> [Lens -> Ptr]]
      /\ pbh_list \in [Thread -> Ptr]
  BY <1>2 DEF TypeOK
<1> HIDE DEF B, h
<1>9. /\ m2 \in [SpPage -> Header] /\ ~m2[h].whole
      /\ m2[h].length = mem[h].length /\ m2[h].free = mem[h].free /\ m2[h].large = mem[h].large
      /\ m2[h].next = mem[h].next /\ m2[h].prev = mem[h].prev
      /\ \A q \in SpPage : q # h => m2[q] = mem[q]
  BY <1>5, <1>8 DEF Header
<1> DEFINE T == [mem |-> m2, map |-> pagemap, free |-> free_pb_list[t], blk |-> h]
           F == [mem |-> m2, map |-> pagemap, free |-> free_pb_list[t], blk |-> top]
<1> HIDE DEF m2
<1>10. /\ Typed(T) /\ T.mem = m2 /\ T.map = pagemap /\ T.free = free_pb_list[t] /\ T.blk = h
  BY <1>5, <1>8, <1>9 DEF Typed, Ptr
<1> HIDE DEF T
<1>11. Changed(B, T, h)
  BY <1>2, <1>5, <1>9, <1>10 DEF Changed
<1>12. Lists(T, O, {}, C)
  <2> DEFINE E == {}
  <2>1. h \notin E /\ Lists(B, O, E, C) /\ ~B.mem[h].free /\ ~T.mem[h].free /\ ~T.mem[h].large
    BY <1>2, <1>3, <1>6, <1>9, <1>10
  <2> HIDE DEF E, C, s
  <2>2. Lists(T, O, E, C)
    BY <1>11, <2>1, ChangedLists
  <2> QED BY <2>2 DEF E
<1>13. top \in C /\ IsRing(m2, C, top)
  <2>1. IsRing(m2, C, h)
    BY <1>10, <1>12 DEF Lists
  <2>2. NULL \notin SpPage /\ m2[h].next = mem[h].next
    BY <1>9, Constants
  <2> HIDE DEF C
  <2>3. m2[h].next \in C /\ IsRing(m2, C, m2[h].next)
    BY <1>1, <2>1, <2>2, RingTurned
  <2> QED BY <1>1, <1>5, <2>1, <2>2, <2>3
<1>14. /\ Typed(F) /\ F.mem = m2 /\ F.map = pagemap /\ F.free = free_pb_list[t] /\ F.blk = top
  <2>1. top \in Ptr
    BY <1>13 DEF SmallIn, Ptr
  <2> HIDE DEF C
  <2> QED BY <1>8, <1>9, <2>1 DEF Typed
<1> HIDE DEF F
<1>15. SmallIn(F, O) = C
  BY <1>2, <1>9, <1>14 DEF SmallIn
<1>16. Lists(F, O, {}, SmallIn(F, O))
  <2>1. ASSUME NEW c \in Lens PROVE IsRing(F.mem, FreeIn(F, O, c) \ {}, F.free[c])
    <3>1. FreeIn(F, O, c) = FreeIn(T, O, c)
      BY <1>10, <1>14 DEF FreeIn
    <3>2. IsRing(T.mem, FreeIn(T, O, c) \ {}, T.free[c])
      BY <1>12 DEF Lists
    <3> QED BY <1>10, <1>14, <3>1, <3>2
  <2>2. IsRing(F.mem, C, F.blk)
    BY <1>13, <1>14
  <2> HIDE DEF C
  <2> QED BY <1>15, <2>1, <2>2 DEF Lists
<1>17. Elsewhere(B, F, O, s)
  BY <1>2, <1>6, <1>9, <1>14 DEF Elsewhere, SameHeader
<1>18. BusyOf(F, s) = BusyOf(B, s)
  BY <1>2, <1>9, <1>14 DEF BusyOf
<1>19. SpOK(F, s, t, run, << >>)
  <2>1. t \notin {"dead", NULL}
    BY DEF ConstantsOK
  <2>2. Sound(B, s) /\ Runs(B, s, run)
    BY <1>7, <2>1 DEF SpOK
  <2>3. \A q \in SpPage : F.mem[q].length = B.mem[q].length
    BY <1>2, <1>9, <1>14
  <2>4. Tiled(F.mem, F.map, s)
    BY <1>2, <1>6, <1>14, <2>2, <2>3, SameTiled DEF Sound
  <2>5. Short(F, s)
    BY <1>2, <1>14, <2>2, <2>3 DEF Sound, Short
  <2>6. ASSUME NEW q \in BusyOf(F, s), F.mem[q].large PROVE ~F.mem[q].whole
    <3>1. q # h /\ q \in SpPage
      BY <1>6, <1>9, <1>14, <2>6 DEF BusyOf
    <3> QED BY <1>2, <1>9, <1>14, <1>18, <2>2, <2>6, <3>1 DEF Sound
  <2>7. Runs(F, s, run)
    BY <1>18, <2>2, <2>3 DEF Runs
  <2>8. Remotes(F, s, run, << >>)
    BY DEF Remotes, RemoteOf
  <2> QED BY <2>1, <2>4, <2>5, <2>6, <2>7, <2>8 DEF SpOK, Sound
<1>20. IsHeapOf(t, F)
  <2>1. free_pb_list' = [free_pb_list EXCEPT ![t] = free_pb_list[t]]
    BY <1>1, <1>8
  <2> QED BY <1>1, <1>14, <2>1 DEF IsHeapOf
<1> HIDE DEF s
<1> QED BY <1>1, <1>6, <1>14, <1>16, <1>17, <1>19, <1>20, LiveStep DEF B

----------------------------------------------------------------------------
(* Steps that leave the lists alone.                                       *)

LEMMA Pushed ==
  ASSUME NEW A, NEW l \in Seq(A), NEW h \in A
  PROVE  LET m == <<h>> \o l
         IN /\ m \in Seq(A) /\ Len(m) = Len(l) + 1 /\ m[1] = h
            /\ \A k \in 2 .. Len(m) : k - 1 \in 1 .. Len(l) /\ m[k] = l[k - 1]
<1>1. <<h>> \in Seq(A) /\ Len(<<h>>) = 1 /\ Len(l) \in Nat
  OBVIOUS
<1> QED BY <1>1

\* Nothing that a list is made of changes.
LEMMA ListsKept ==
  ASSUME IInv, UNCHANGED <<owner, mem, pagemap, free_pb_list, pbh_list, sp_list, phase>>
  PROVE  /\ \A t \in Thread : ListsOK(HeapOf(t)', Own(t)', phase'[t])
         /\ \A t \in Thread : ListedOK(sp_list'[t], Own(t)')
<1>1. \A t \in Thread : HeapOf(t)' = HeapOf(t) /\ Own(t)' = Own(t)
  BY DEF HeapOf, Own
<1>2. \A t \in Thread : ListsOK(HeapOf(t), Own(t), phase[t]) /\ ListedOK(sp_list[t], Own(t))
  BY DEF IInv
<1> QED BY <1>1, <1>2

LEMMA LargeFreeRemoteOK ==
  ASSUME ConstantsOK, RemotePhases \subseteq {"exit"}, IInv,
         NEW t \in Thread, NEW h \in SpPage, LargeFreeRemote(t, h)
  PROVE  IInv'
<1> DEFINE s == h[1]
           pbs == remote_pb_list[s]
           more == <<h>> \o pbs
<1>1. /\ InUse(h, TRUE) /\ remote_pb_list' = [remote_pb_list EXCEPT ![s] = more]
      /\ run' = WithoutRuns({h})
      /\ UNCHANGED <<owner, mem, pagemap, free_pb_list, pbh_list, sp_list, phase>>
  BY DEF LargeFreeRemote
<1>2. owner[s] \in Thread /\ phase[owner[s]] = "exit"
  BY DEF LargeFreeRemote
<1>3. TypeOK
  BY DEF IInv
<1>4. s \in Superpage /\ run[h] > 0
  BY <1>1, InUseBusy
<1>5. h \in BusyOf(Now, s) /\ Now.mem[h].large
  <2>1. h \in BusyOf(HeapOf(t), s) /\ HeapOf(t).mem[h].large
    BY <1>1, InUseBusy
  <2> QED BY <2>1 DEF BusyOf, HeapOf, Now
<1>6. SpOK(Now, s, owner[s], run, pbs)
  <2>1. SpInv(s)
    BY <1>4 DEF IInv
  <2> QED BY <2>1 DEF SpInv
<1>7. pbs \in Seq(SpPage) /\ remote_pb_list \in [Superpage -> Seq(SpPage)]
      /\ run \in [SpPage -> 0 .. NUM_PAGE_CLASSES]
  BY <1>3, <1>4 DEF TypeOK
<1> HIDE DEF s, pbs
<1>8. /\ more \in Seq(SpPage) /\ Len(more) = Len(pbs) + 1 /\ more[1] = h
      /\ \A k \in 2 .. Len(more) : k - 1 \in 1 .. Len(pbs) /\ more[k] = pbs[k - 1]
  BY <1>7, Pushed
<1> HIDE DEF more
<1>9. run' = [q \in SpPage |-> IF q = h THEN 0 ELSE run[q]]
  BY <1>1 DEF WithoutRuns
<1>10. run' \in [SpPage -> 0 .. NUM_PAGE_CLASSES]
  <2>1. 0 \in 0 .. NUM_PAGE_CLASSES
    BY Constants DEF NUM_PAGE_CLASSES
  <2> QED BY <1>7, <1>9, <2>1
<1>11. TypeOK'
  <2>1. remote_pb_list' \in [Superpage -> Seq(SpPage)]
    BY <1>1, <1>7, <1>8
  <2> QED BY <1>1, <1>3, <1>10, <2>1 DEF TypeOK
<1>12. Now' = Now
  BY <1>1 DEF Now
<1>13. Remotes(Now, s, run, pbs)
  BY <1>6 DEF SpOK
<1>14. \A k \in 1 .. Len(pbs) : /\ pbs[k] \in BusyOf(Now, s) /\ Now.mem[pbs[k]].large
                                /\ run[pbs[k]] = 0 /\ pbs[k] # h /\ pbs[k] \in SpPage
  <2>1. ASSUME NEW k \in 1 .. Len(pbs)
        PROVE  pbs[k] \in BusyOf(Now, s) /\ Now.mem[pbs[k]].large /\ run[pbs[k]] = 0
    BY <1>13 DEF Remotes, RemoteOf
  <2>2. \A k \in 1 .. Len(pbs) : pbs[k] # h
    BY <1>4, <2>1
  <2> QED BY <2>1, <2>2 DEF BusyOf
<1>15. \A j, k \in 1 .. Len(pbs) : pbs[k] = pbs[j] => k = j
  BY <1>13 DEF Remotes, RemoteOf
<1>16. ASSUME NEW k \in 1 .. Len(more)
       PROVE  /\ more[k] \in BusyOf(Now, s) /\ Now.mem[more[k]].large /\ run'[more[k]] = 0
              /\ (k = 1 /\ more[k] = h) \/ (k - 1 \in 1 .. Len(pbs) /\ more[k] = pbs[k - 1] /\ more[k] # h)
  <2>1. CASE k = 1
    BY <1>5, <1>8, <1>9, <2>1
  <2>2. CASE k # 1
    <3>1. k \in 2 .. Len(more)
      BY <2>2
    <3>2. k - 1 \in 1 .. Len(pbs) /\ more[k] = pbs[k - 1]
      BY <1>8, <3>1
    <3> QED BY <1>9, <1>14, <3>2
  <2> QED BY <2>1, <2>2
<1>17. RemoteOf(Now, s, more)
  <2>1. ASSUME NEW k \in 1 .. Len(more), NEW j \in 1 .. Len(more), more[k] = more[j] PROVE k = j
    BY <1>15, <1>16, <2>1
  <2> QED BY <1>8, <1>16, <2>1 DEF RemoteOf
<1>18. Remotes(Now, s, run', more)
  BY <1>16, <1>17 DEF Remotes
<1>19. Runs(Now, s, run')
  <2>1. Runs(Now, s, run)
    BY <1>6 DEF SpOK
  <2>2. \A q \in SpPage : run'[q] > 0 => run'[q] = run[q]
    BY <1>9
  <2> QED BY <2>1, <2>2 DEF Runs
<1>20. SpOK(Now, s, owner[s], run', more)
  BY <1>6, <1>18, <1>19 DEF SpOK
<1>21. ASSUME NEW x \in Superpage PROVE SpInv(x)'
  <2>1. CASE x = s
    <3>1. remote_pb_list'[x] = more /\ owner'[x] = owner[s] /\ phase' = phase
      BY <1>1, <1>7, <2>1
    <3> QED BY <1>2, <1>12, <1>20, <2>1, <3>1 DEF SpInv
  <2>2. CASE x # s
    <3>1. SpInv(x)
      BY DEF IInv
    <3>2. \A q \in SpPage : q[1] = x => run'[q] = run[q]
      BY <1>9, <2>2 DEF s
    <3>3. Still(Now, Now, x)
      BY DEF Still, SameHeader
    <3>4. SpOK(Now, x, owner[x], run', remote_pb_list[x])
      BY <3>1, <3>2, <3>3, StillOK DEF SpInv
    <3>5. remote_pb_list'[x] = remote_pb_list[x] /\ owner' = owner /\ phase' = phase
      BY <1>1, <1>7, <2>2
    <3> QED BY <1>12, <3>1, <3>4, <3>5 DEF SpInv
  <2> QED BY <2>1, <2>2
<1> QED BY <1>1, <1>11, <1>21, ListsKept DEF IInv

LEMMA RemoteLastBlocksOK ==
  ASSUME ConstantsOK, IInv, NEW t \in Thread, NEW h \in SpPage, RemoteLastBlocks(t, h)
  PROVE  IInv'
<1> DEFINE s == h[1]
           m2 == [mem EXCEPT ![h].whole = TRUE]
<1>1. /\ InUse(h, FALSE) /\ owner[s] \in Thread /\ mem' = m2
      /\ UNCHANGED <<owner, sp_list, remote_pb_list, phase, run>>
      /\ UNCHANGED <<pagemap, free_pb_list, pbh_list>>
  BY DEF RemoteLastBlocks
<1>2. TypeOK
  BY DEF IInv
<1>3. s \in Superpage /\ pagemap[h] = h /\ ~mem[h].free /\ ~mem[h].large
  <2>1. h \in BusyOf(HeapOf(t), s) /\ s \in Superpage /\ ~HeapOf(t).mem[h].large
    BY <1>1, InUseBusy
  <2> QED BY <2>1 DEF BusyOf, HeapOf
<1>4. /\ m2 \in [SpPage -> Header]
      /\ m2[h].length = mem[h].length /\ m2[h].free = mem[h].free /\ m2[h].large = mem[h].large
      /\ m2[h].next = mem[h].next /\ m2[h].prev = mem[h].prev
      /\ \A q \in SpPage : q # h => m2[q] = mem[q]
  BY <1>2 DEF TypeOK, Header
<1> HIDE DEF m2
<1>5. TypeOK'
  BY <1>1, <1>2, <1>4 DEF TypeOK
<1>6. ASSUME NEW u \in Thread PROVE ListsOK(HeapOf(u)', Own(u)', phase'[u])
  <2> DEFINE B == HeapOf(u)
             F == HeapOf(u)'
             O == Own(u)
  <2>1. /\ B.mem = mem /\ B.map = pagemap /\ B.free = free_pb_list[u] /\ B.blk = pbh_list[u]
        /\ F.mem = m2 /\ F.map = pagemap /\ F.free = free_pb_list[u] /\ F.blk = pbh_list[u]
    BY <1>1 DEF HeapOf
  <2>2. Typed(F)
    <3>1. F = [mem |-> mem', map |-> pagemap', free |-> free_pb_list'[u], blk |-> pbh_list'[u]]
      BY DEF HeapOf
    <3> HIDE DEF F
    <3> QED BY <1>5, <3>1 DEF Typed, TypeOK
  <2>3. Own(u)' = O /\ phase'[u] = phase[u] /\ ListsOK(B, O, phase[u])
    BY <1>1 DEF Own, IInv
  <2> HIDE DEF B, F, O
  <2>4. Changed(B, F, h)
    BY <1>4, <2>1, <2>2 DEF Changed
  <2>5. ASSUME NEW C, Lists(B, O, {}, C) PROVE Lists(F, O, {}, C)
    <3> DEFINE E == {}
    <3>1. h \notin E /\ Lists(B, O, E, C) /\ ~B.mem[h].free /\ ~F.mem[h].free /\ ~F.mem[h].large
      BY <1>3, <1>4, <2>1, <2>5
    <3> HIDE DEF E, s
    <3>2. Lists(F, O, E, C)
      BY <2>4, <3>1, ChangedLists
    <3> QED BY <3>2 DEF E
  <2>6. SmallIn(F, O) = SmallIn(B, O)
    BY <1>4, <2>1 DEF SmallIn
  <2>7. ListsOK(F, O, phase[u])
    <3>1. CASE phase[u] = "live"
      BY <2>3, <2>5, <2>6, <3>1 DEF ListsOK
    <3>2. CASE phase[u] # "live"
      BY <2>1, <2>3, <2>5, <3>2 DEF ListsOK
    <3> QED BY <3>1, <3>2
  <2> QED BY <2>3, <2>7 DEF F
<1>7. ASSUME NEW u \in Thread PROVE ListedOK(sp_list'[u], Own(u)')
  <2>1. ListedOK(sp_list[u], Own(u))
    BY DEF IInv
  <2> QED BY <1>1, <2>1 DEF Own
<1> DEFINE A == Now
           F == Now'
<1>8. A.mem = mem /\ A.map = pagemap /\ F.mem = m2 /\ F.map = pagemap
  BY <1>1 DEF Now
<1> HIDE DEF A, F
<1>9. ASSUME NEW x \in Superpage PROVE SpOK(F, x, owner[x], run, remote_pb_list[x])
  <2>1. SpOK(A, x, owner[x], run, remote_pb_list[x])
    BY DEF IInv, SpInv, A
  <2>2. CASE x # s
    <3>1. Still(A, F, x)
      BY <1>4, <1>8, <2>2 DEF Still, SameHeader
    <3> QED BY <2>1, <3>1, StillOK
  <2>3. CASE x = s
    <3>1. owner[x] \notin {"dead", NULL}
      BY <1>1, <2>3 DEF ConstantsOK
    <3>2. Sound(A, x) /\ Runs(A, x, run) /\ Remotes(A, x, run, remote_pb_list[x])
      BY <2>1, <3>1 DEF SpOK
    <3>3. BusyOf(F, x) = BusyOf(A, x)
      BY <1>4, <1>8 DEF BusyOf
    <3>4. \A q \in SpPage : F.mem[q].length = A.mem[q].length /\ F.mem[q].large = A.mem[q].large
      BY <1>4, <1>8
    <3>5. Tiled(F.mem, F.map, x)
      BY <1>8, <3>2, <3>4, SameTiled DEF Sound
    <3>6. Short(F, x)
      BY <1>8, <3>2, <3>4 DEF Sound, Short
    <3>7. ASSUME NEW q \in BusyOf(F, x), F.mem[q].large PROVE ~F.mem[q].whole
      <4>1. q # h /\ q \in SpPage
        BY <1>3, <1>4, <1>8, <3>7 DEF BusyOf
      <4> QED BY <1>4, <1>8, <3>2, <3>3, <3>7, <4>1 DEF Sound
    <3>8. Runs(F, x, run)
      BY <3>2, <3>3, <3>4 DEF Runs
    <3>9. Remotes(F, x, run, remote_pb_list[x])
      <4>1. RemoteOf(F, x, remote_pb_list[x])
        BY <3>2, <3>3 DEF Remotes, RemoteOf
      <4>2. \A k \in 1 .. Len(remote_pb_list[x]) : remote_pb_list[x][k] \in SpPage
        BY <3>2 DEF Remotes, RemoteOf, BusyOf
      <4> QED BY <3>2, <3>4, <4>1, <4>2 DEF Remotes
    <3> QED BY <3>1, <3>5, <3>6, <3>7, <3>8, <3>9 DEF SpOK, Sound
  <2> QED BY <2>2, <2>3
<1>10. ASSUME NEW x \in Superpage PROVE SpInv(x)'
  <2>1. remote_pb_list[x] # << >> => owner[x] \in Thread /\ phase[owner[x]] = "exit"
    BY DEF IInv, SpInv
  <2> QED BY <1>1, <1>9, <2>1 DEF SpInv, F
<1> QED BY <1>5, <1>6, <1>7, <1>10 DEF IInv

----------------------------------------------------------------------------
(* Exit of a thread                                                        *)

\* finish_superpages, seen from the heap.
LEMMA FinishedOK ==
  ASSUME ConstantsOK, NEW S, Typed(S), NEW s \in Superpage, Sound(S, s), NEW pbs, RemoteOf(S, s, pbs)
  PROVE  LET C == Cleaned(GetRemotePbs(S, pbs), s)
         IN /\ Quiet(S, C.heap, s)
            /\ C.inuse => /\ Released(S, C.heap, s, ToSet(pbs) \cup WholeOf(S, s))
                          /\ Orphaned(C.heap, s) /\ Short(C.heap, s)
            /\ ~C.inuse => \A q \in BusyOf(S, s) :
                             q \in ToSet(pbs) \/ S.mem[q].whole \/ S.mem[q].large
<1> DEFINE G == GetRemotePbs(S, pbs)
           C == Cleaned(G, s)
           F == C.heap
<1>1. Tiled(S.mem, S.map, s) /\ Short(S, s)
  BY DEF Sound
<1>2. GotOf(S, G, s, ToSet(pbs))
  BY <1>1, GotAll
<1> HIDE DEF G
<1>3. Quiet(S, G, s) /\ Typed(G)
  BY <1>2 DEF GotOf, Quiet
<1>4. CASE Released(S, G, s, ToSet(pbs))
  <2>1. /\ BusyOf(G, s) = BusyOf(S, s) \ ToSet(pbs) /\ Tiled(G.mem, G.map, s)
        /\ \A q \in BusyOf(G, s) : SameHeader(S.mem, G.mem, q)
    BY <1>4 DEF Released
  <2>2. Quiet(G, F, s) /\ Released(G, F, s, WholeOf(G, s)) /\ (C.inuse <=> KeptOf(G, s) # {})
    BY <1>3, <2>1, CleanedOK
  <2> HIDE DEF C
  <2>3. Quiet(S, F, s)
    BY <1>3, <2>2, QuietTwice
  <2>4. Released(S, F, s, ToSet(pbs) \cup WholeOf(G, s))
    BY <1>4, <2>2, ReleasedTwice
  <2>5. ToSet(pbs) \cup WholeOf(G, s) = ToSet(pbs) \cup WholeOf(S, s)
    BY <2>1 DEF WholeOf, SameHeader
  <2>6. Released(S, F, s, ToSet(pbs) \cup WholeOf(S, s))
    BY <2>4, <2>5
  <2>7. BusyOf(F, s) = BusyOf(G, s) \ WholeOf(G, s) /\ \A q \in BusyOf(F, s) : SameHeader(G.mem, F.mem, q)
    BY <2>2 DEF Released
  <2>8. ASSUME C.inuse PROVE Orphaned(F, s) /\ Short(F, s)
    <3>1. PICK q \in BusyOf(G, s) : ~G.mem[q].whole /\ ~G.mem[q].large
      BY <2>2, <2>8 DEF KeptOf
    <3>2. q \in BusyOf(F, s) /\ ~F.mem[q].large
      BY <2>7, <3>1 DEF WholeOf, SameHeader
    <3>3. \A p \in BusyOf(F, s) : ~F.mem[p].whole
      BY <2>7 DEF WholeOf, SameHeader
    <3>4. F.mem[q].length = S.mem[q].length /\ q \in BusyOf(S, s)
      BY <2>1, <2>7, <3>1, <3>2 DEF SameHeader
    <3>5. F.mem[q].length < SUPERPAGE_LEN
      BY <1>1, <3>4 DEF Short, BusyOf
    <3>6. Typed(F) /\ Tiled(F.mem, F.map, s)
      BY <2>2 DEF Quiet, Released
    <3>7. Short(F, s)
      BY <3>2, <3>5, <3>6, ShortOK
    <3> QED BY <3>2, <3>3, <3>7 DEF Orphaned
  <2>9. ASSUME ~C.inuse, NEW q \in BusyOf(S, s), q \notin ToSet(pbs) PROVE S.mem[q].whole \/ S.mem[q].large
    <3>1. q \in BusyOf(G, s) /\ q \notin KeptOf(G, s)
      BY <2>1, <2>2, <2>9
    <3> QED BY <2>1, <3>1 DEF KeptOf, SameHeader
  <2> QED BY <2>3, <2>6, <2>8, <2>9 DEF C, G
<1>5. CASE Filled(G, s) /\ BusyOf(S, s) \subseteq ToSet(pbs)
  <2>1. F = G /\ ~C.inuse
    BY <1>3, <1>5, CleanedFilled
  <2> HIDE DEF C
  <2> QED BY <1>3, <1>5, <2>1 DEF C, G
<1> QED BY <1>2, <1>4, <1>5 DEF GotOf

\* The superpage's page blocks and its runs, when it becomes an orphan ...
LEMMA OrphanedSp ==
  ASSUME ConstantsOK, NEW S, NEW F, NEW s, NEW o, o \notin {"dead", NULL}, NEW rn, NEW pbs,
         SpOK(S, s, o, rn, pbs), Released(S, F, s, ToSet(pbs) \cup WholeOf(S, s)),
         Orphaned(F, s), Short(F, s),
         NEW rn2, RunsFreed(rn, rn2, {h \in SpPage : h[1] = s /\ S.mem[h].whole}), NEW none, none = << >>,
         rn \in [SpPage -> 0 .. NUM_PAGE_CLASSES]
  PROVE  SpOK(F, s, "dead", rn2, none)
<1> DEFINE H == ToSet(pbs) \cup WholeOf(S, s)
           W == {h \in SpPage : h[1] = s /\ S.mem[h].whole}
<1>1. Remotes(S, s, rn, pbs) /\ Runs(S, s, rn)
  BY DEF SpOK
<1>2. \A q \in ToSet(pbs) : q \in BusyOf(S, s) /\ rn[q] = 0 /\ q \in SpPage
  <2>1. ASSUME NEW k \in 1 .. Len(pbs) PROVE pbs[k] \in BusyOf(S, s) /\ rn[pbs[k]] = 0
    BY <1>1 DEF Remotes, RemoteOf
  <2>2. \A q \in ToSet(pbs) : \E k \in 1 .. Len(pbs) : q = pbs[k]
    <3>1. pbs \in Seq(SpPage)
      BY <1>1 DEF Remotes, RemoteOf
    <3> QED BY <3>1 DEF ToSet
  <2> QED BY <2>1, <2>2 DEF BusyOf
<1>3. ASSUME NEW q \in SpPage
      PROVE  (IF q \in H THEN 0 ELSE rn[q]) = (IF q \in W THEN 0 ELSE rn[q])
  <2>1. CASE q \in ToSet(pbs)
    BY <1>2, <2>1
  <2>2. CASE q \notin ToSet(pbs) /\ q \in W
    <3>1. CASE q \in BusyOf(S, s)
      BY <2>2, <3>1 DEF WholeOf
    <3>2. CASE q \notin BusyOf(S, s)
      <4>1. ~(rn[q] > 0)
        BY <1>1, <2>2, <3>2 DEF Runs
      <4>2. rn[q] \in 0 .. NUM_PAGE_CLASSES /\ NUM_PAGE_CLASSES \in Int
        BY Constants DEF NUM_PAGE_CLASSES
      <4>3. rn[q] = 0
        BY <4>1, <4>2
      <4> QED BY <2>2, <4>3
    <3> QED BY <3>1, <3>2
  <2>3. CASE q \notin ToSet(pbs) /\ q \notin W
    BY <2>3 DEF WholeOf, BusyOf
  <2> QED BY <2>1, <2>2, <2>3
<1>4. RunsFreed(rn, rn2, H)
  <2>1. rn2 = [q \in SpPage |-> IF q \in W THEN 0 ELSE rn[q]]
    BY DEF RunsFreed
  <2> HIDE DEF H, W
  <2> QED BY <1>3, <2>1 DEF RunsFreed
<1>5. RemoteOf(F, s, none) /\ ToSet(none) \subseteq ToSet(pbs)
  BY DEF RemoteOf, ToSet
<1>6. Released(S, F, s, H)
  OBVIOUS
<1> HIDE DEF H, W
<1>7. SpOK(F, s, o, rn2, none)
  <2>1. o # NULL
    OBVIOUS
  <2> QED BY ONLY <1>4, <1>5, <1>6, <2>1, ReleasedSp, SpOK(S, s, o, rn, pbs), o \notin {"dead", NULL}, Short(F, s)
<1>8. "dead" # NULL
  BY DEF ConstantsOK
<1> QED BY <1>7, <1>8 DEF SpOK

\* ... or is freed.
LEMMA FinishedSp ==
  ASSUME ConstantsOK, NEW S, NEW F, NEW s \in Superpage, NEW o, NEW rn \in [SpPage -> 0 .. NUM_PAGE_CLASSES],
         NEW pbs, SpOK(S, s, o, rn, pbs), \A q \in SpPage : q[1] = s => F.map[q] = NULL,
         {h \in SpPage : h[1] = s /\ rn[h] > 0 /\ S.mem[h].large} = {},
         \A q \in BusyOf(S, s) : q \in ToSet(pbs) \/ S.mem[q].whole \/ S.mem[q].large,
         NEW rn2, RunsFreed(rn, rn2, {h \in SpPage : h[1] = s /\ S.mem[h].whole}), NEW none, none = << >>
  PROVE  SpOK(F, s, NULL, rn2, none)
<1>1. Remotes(S, s, rn, pbs) /\ Runs(S, s, rn)
  BY DEF SpOK
<1>2. ASSUME NEW q \in ToSet(pbs) PROVE rn[q] = 0
  <2>1. \A k \in 1 .. Len(pbs) : rn[pbs[k]] = 0
    BY <1>1 DEF Remotes
  <2>2. pbs \in Seq(SpPage)
    BY <1>1 DEF Remotes, RemoteOf
  <2> QED BY <1>2, <2>1, <2>2 DEF ToSet
<1>3. ASSUME NEW q \in SpPage, q[1] = s PROVE ~(rn2[q] > 0)
  <2>1. CASE S.mem[q].whole
    BY <1>3, <2>1 DEF RunsFreed
  <2>2. CASE ~S.mem[q].whole
    <3>1. rn2[q] = rn[q]
      BY <1>3, <2>2 DEF RunsFreed
    <3>2. ASSUME rn[q] > 0 PROVE FALSE
      <4>1. q \in BusyOf(S, s) /\ ~S.mem[q].large
        BY <1>1, <1>3, <3>2 DEF Runs
      <4>2. q \in ToSet(pbs)
        BY <2>2, <4>1
      <4> QED BY <1>2, <3>2, <4>2
    <3> QED BY <3>1, <3>2
  <2> QED BY <2>1, <2>2
<1>4. \A i \in Lens : F.map[<<s, i>>] = NULL
  BY Constants
<1>5. Runs(F, s, rn2)
  BY <1>3 DEF Runs
<1>6. Remotes(F, s, rn2, none)
  BY DEF Remotes, RemoteOf
<1>7. "dead" # NULL
  BY DEF ConstantsOK
<1> QED BY <1>4, <1>5, <1>6, <1>7 DEF SpOK

\* The first superpage of the list leaves it.
LEMMA TailOK ==
  ASSUME NEW A, NEW l \in Seq(A), l # << >>, NEW O, ListedOK(l, O)
  PROVE  Head(l) \in O /\ Tail(l) \in Seq(A) /\ ListedOK(Tail(l), O \ {Head(l)})
<1> DEFINE m == Tail(l)
<1>1. /\ Len(l) \in Nat /\ Len(l) > 0 /\ Head(l) = l[1] /\ m \in Seq(A) /\ Len(m) = Len(l) - 1
      /\ \A k \in 1 .. Len(m) : m[k] = l[k + 1]
  OBVIOUS
<1>2. DOMAIN l = 1 .. Len(l) /\ DOMAIN m = 1 .. Len(m)
  BY <1>1
<1> HIDE DEF m
<1>3. \A i, j \in 1 .. Len(l) : l[i] = l[j] => i = j
  BY DEF ListedOK
<1>4. O = {l[k] : k \in 1 .. Len(l)}
  BY <1>2 DEF ListedOK, ToSet
<1>5. Head(l) \in O
  BY <1>1, <1>4
<1>6. ASSUME NEW i \in 1 .. Len(m), NEW j \in 1 .. Len(m), m[i] = m[j] PROVE i = j
  <2>1. i + 1 \in 1 .. Len(l) /\ j + 1 \in 1 .. Len(l) /\ l[i + 1] = l[j + 1]
    BY <1>1, <1>6
  <2>2. i + 1 = j + 1
    BY <1>3, <2>1
  <2> QED BY <2>2
<1>7. ToSet(m) = O \ {Head(l)}
  <2>1. ASSUME NEW k \in 1 .. Len(m) PROVE m[k] \in O \ {Head(l)}
    <3>1. k + 1 \in 1 .. Len(l) /\ k + 1 # 1 /\ m[k] = l[k + 1] /\ 1 \in 1 .. Len(l)
      BY <1>1
    <3>2. l[k + 1] # l[1]
      BY <1>3, <3>1
    <3> QED BY <1>1, <1>4, <3>1, <3>2
  <2>2. ASSUME NEW k \in 1 .. Len(l), l[k] # Head(l) PROVE \E j \in 1 .. Len(m) : l[k] = m[j]
    <3>1. k # 1
      BY <1>1, <2>2
    <3>2. k - 1 \in 1 .. Len(m) /\ (k - 1) + 1 = k
      BY <1>1, <3>1
    <3>3. m[k - 1] = l[k]
      BY <1>1, <3>2
    <3> QED BY <3>2, <3>3
  <2>3. ToSet(m) = {m[k] : k \in 1 .. Len(m)}
    BY <1>2 DEF ToSet
  <2>4. ASSUME NEW x \in O \ {Head(l)} PROVE x \in ToSet(m)
    BY <1>4, <2>2, <2>3, <2>4
  <2> QED BY <2>1, <2>3, <2>4
<1> QED BY <1>1, <1>5, <1>6, <1>7 DEF ListedOK, m

LEMMA FinishSuperpageOK ==
  ASSUME ConstantsOK, LargeAtExit = FALSE, IInv, NEW t \in Thread, FinishSuperpage(t)
  PROVE  IInv'
<1> DEFINE l == sp_list[t]
           s == Head(l)
           B == HeapOf(t)
           pbs == remote_pb_list[s]
           C == Cleaned(GetRemotePbs(B, pbs), s)
           L == {h \in SpPage : h[1] = s /\ run[h] > 0 /\ mem[h].large}
           W == {h \in SpPage : h[1] = s /\ mem[h].whole}
           none == << >>
           m == Tail(l)
           freed == [C.heap EXCEPT !.map = SetRange(@, <<s, 1>>, SUPERPAGE_LEN, NULL)]
<1>1. /\ phase[t] = "exit" /\ pbh_list[t] = NULL /\ l # << >>
      /\ C.inuse \/ L = {}
      /\ \/ ~C.inuse /\ IsHeapOf(t, freed) /\ owner' = [owner EXCEPT ![s] = NULL]
         \/ C.inuse /\ IsHeapOf(t, C.heap) /\ owner' = [owner EXCEPT ![s] = "dead"]
      /\ sp_list' = [sp_list EXCEPT ![t] = m]
      /\ remote_pb_list' = [remote_pb_list EXCEPT ![s] = none]
      /\ run' = WithoutRuns(W) /\ phase' = phase
  BY DEF FinishSuperpage
<1>2. TypeOK /\ Typed(B) /\ B.mem = mem /\ B.map = pagemap /\ B.free = free_pb_list[t] /\ B.blk = pbh_list[t]
  BY HeapTyped DEF IInv
<1>3. l \in Seq(Superpage) /\ ListedOK(l, Own(t)) /\ run \in [SpPage -> 0 .. NUM_PAGE_CLASSES]
  BY <1>2 DEF TypeOK, IInv
<1>4. s \in Own(t) /\ m \in Seq(Superpage) /\ ListedOK(m, Own(t) \ {s})
  BY <1>1, <1>3, TailOK
<1>5. s \in Superpage /\ owner[s] = t /\ t \notin {"dead", NULL}
  BY <1>4 DEF Own, ConstantsOK
<1> HIDE DEF l, s, m
<1>6. SpOK(B, s, t, run, pbs)
  BY <1>5, HeapSp
<1>7. Sound(B, s) /\ RemoteOf(B, s, pbs)
  BY <1>5, <1>6 DEF SpOK, Remotes
<1>8. /\ Quiet(B, C.heap, s)
      /\ C.inuse => /\ Released(B, C.heap, s, ToSet(pbs) \cup WholeOf(B, s))
                    /\ Orphaned(C.heap, s) /\ Short(C.heap, s)
      /\ ~C.inuse => \A q \in BusyOf(B, s) : q \in ToSet(pbs) \/ B.mem[q].whole \/ B.mem[q].large
  BY <1>2, <1>5, <1>7, FinishedOK
<1>9. RunsFreed(run, run', {h \in SpPage : h[1] = s /\ B.mem[h].whole})
  <2>1. W = {h \in SpPage : h[1] = s /\ B.mem[h].whole}
    BY <1>2
  <2> QED BY <1>1, <2>1 DEF RunsFreed, WithoutRuns
<1>10. none \in Seq(SpPage) /\ none = << >>
  OBVIOUS
<1>11. /\ run' \in [SpPage -> 0 .. NUM_PAGE_CLASSES]
       /\ \A q \in SpPage : q[1] # s => run'[q] = run[q]
  <2>1. 0 \in 0 .. NUM_PAGE_CLASSES
    BY Constants DEF NUM_PAGE_CLASSES
  <2> QED BY <1>3, <1>9, <2>1 DEF RunsFreed
<1> HIDE DEF C, B, pbs, none, W
<1>12. Typed(C.heap) /\ C.heap.blk = NULL
       /\ \A q \in SpPage : q[1] # s => C.heap.mem[q] = B.mem[q] /\ C.heap.map[q] = B.map[q]
  BY <1>1, <1>2, <1>8 DEF Quiet
<1>13. ASSUME NEW F, NEW o, o \in {"dead", NULL}, IsHeapOf(t, F), owner' = [owner EXCEPT ![s] = o],
              Typed(F), F.blk = NULL, SpOK(F, s, o, run', none),
              \A q \in SpPage : q[1] # s => F.mem[q] = B.mem[q] /\ F.map[q] = B.map[q]
       PROVE  IInv'
  <2>1. Elsewhere(B, F, Own(t) \cup {s}, s)
    BY <1>13 DEF Elsewhere, SameHeader
  <2>2. Owned(t, s, o) = Own(t) \ {s}
    BY <1>5, <1>13 DEF Owned
  <2>3. ListsOK(F, Owned(t, s, o), phase[t]) /\ ListedOK(m, Owned(t, s, o))
    BY <1>1, <1>4, <1>13, <2>2 DEF ListsOK
  <2>4. HeapStep(t, s, F, o, none, m)
    BY <1>1, <1>4, <1>5, <1>10, <1>11, <1>13, <2>1 DEF HeapStep, B
  <2> QED BY <1>5, <1>13, <2>3, <2>4, HeapStepOK
<1>14. CASE C.inuse
  <2>1. SpOK(C.heap, s, "dead", run', none)
    BY <1>3, <1>5, <1>6, <1>8, <1>9, <1>10, <1>14, OrphanedSp
  <2> QED BY <1>1, <1>12, <1>13, <1>14, <2>1
<1>15. CASE ~C.inuse
  <2> DEFINE one == <<s, 1>>
             N == SUPERPAGE_LEN
  <2>1. Ranged(C.heap.map, SetRange(C.heap.map, one, N, NULL), s, 1, 1 + N, NULL)
    <3>1. NULL \in Ptr /\ N \in Nat /\ 1 \in Lens
      BY Constants DEF Ptr
    <3>2. C.heap.map \in [SpPage -> Ptr]
      BY <1>12 DEF Typed
    <3> QED BY <1>5, <3>1, <3>2, RangeSet
  <2> DEFINE map2 == SetRange(C.heap.map, one, N, NULL)
  <2> HIDE DEF map2
  <2>2. /\ map2 \in [SpPage -> Ptr]
        /\ \A i \in Lens : map2[<<s, i>>] = NULL
        /\ \A q \in SpPage : q[1] # s => map2[q] = C.heap.map[q]
    <3>1. Ranged(C.heap.map, map2, s, 1, 1 + N, NULL)
      BY ONLY <2>1 DEF map2
    <3>2. \A i \in Lens : 1 <= i /\ i < 1 + N
      BY Constants
    <3> HIDE DEF N
    <3> QED BY ONLY <3>1, <3>2 DEF Ranged
  <2>3. C.heap = [mem |-> C.heap.mem, map |-> C.heap.map, free |-> C.heap.free, blk |-> C.heap.blk]
    BY <1>12 DEF Typed
  <2>4. freed = [mem |-> C.heap.mem, map |-> map2, free |-> C.heap.free, blk |-> C.heap.blk]
    <3>1. freed = [C.heap EXCEPT !.map = map2]
      BY DEF map2
    <3> HIDE DEF freed
    <3> QED BY <2>3, <3>1
  <2>5. IsHeapOf(t, freed) /\ owner' = [owner EXCEPT ![s] = NULL] /\ L = {}
    BY <1>1, <1>15
  <2> HIDE DEF freed
  <2>6. Typed(freed) /\ freed.blk = NULL /\ freed.mem = C.heap.mem /\ freed.map = map2
    BY <1>12, <2>2, <2>4 DEF Typed
  <2>7. \A q \in SpPage : q[1] = s => freed.map[q] = NULL
    BY <2>2, <2>6, Constants
  <2>8. {h \in SpPage : h[1] = s /\ run[h] > 0 /\ B.mem[h].large} = {}
    BY <1>2, <2>5
  <2>9. \A q \in BusyOf(B, s) : q \in ToSet(pbs) \/ B.mem[q].whole \/ B.mem[q].large
    BY <1>8, <1>15
  <2> HIDE DEF L
  <2>10. SpOK(freed, s, NULL, run', none)
    BY <1>3, <1>5, <1>6, <1>9, <1>10, <2>7, <2>8, <2>9, FinishedSp
  <2>11. \A q \in SpPage : q[1] # s => freed.mem[q] = B.mem[q] /\ freed.map[q] = B.map[q]
    BY <1>12, <2>2, <2>6
  <2> QED BY <1>13, <2>5, <2>6, <2>10, <2>11
<1> QED BY ONLY <1>14, <1>15

\* The lists of a thread without superpages.
LEMMA NoLists ==
  ASSUME NEW S, S.free = NoPb, S.blk = NULL
  PROVE  Lists(S, {}, {}, {}) /\ SmallIn(S, {}) = {}
<1>1. ASSUME NEW c \in Lens PROVE IsRing(S.mem, FreeIn(S, {}, c) \ {}, S.free[c])
  <2>1. FreeIn(S, {}, c) \ {} = {} /\ S.free[c] = NULL
    BY DEF FreeIn, NoPb
  <2> QED BY <2>1 DEF IsRing
<1>2. IsRing(S.mem, {}, S.blk)
  BY DEF IsRing
<1>3. SmallIn(S, {}) = {}
  BY DEF SmallIn
<1> QED BY <1>1, <1>2, <1>3 DEF Lists

LEMMA ExitOK ==
  ASSUME ConstantsOK, IInv, NEW t \in Thread, Exit(t)
  PROVE  IInv'
<1>1. /\ phase[t] = "live" /\ phase' = [phase EXCEPT ![t] = "exit"]
      /\ UNCHANGED <<owner, mem, pagemap, free_pb_list, pbh_list, sp_list, remote_pb_list, run>>
  BY DEF Exit
<1>2. TypeOK /\ phase \in [Thread -> {"live", "exit"}]
  BY DEF IInv, TypeOK
<1>3. TypeOK'
  BY <1>1, <1>2 DEF TypeOK
<1>4. ASSUME NEW x \in Superpage PROVE SpInv(x)'
  <2>1. SpInv(x)
    BY DEF IInv
  <2>2. Now' = Now
    BY <1>1 DEF Now
  <2>3. remote_pb_list[x] # << >> => owner[x] \in Thread /\ phase'[owner[x]] = "exit"
    BY <1>1, <1>2, <2>1 DEF SpInv
  <2> QED BY <1>1, <2>1, <2>2, <2>3 DEF SpInv
<1>5. ASSUME NEW u \in Thread PROVE ListsOK(HeapOf(u)', Own(u)', phase'[u])
  <2>1. ListsOK(HeapOf(u), Own(u), phase[u])
    BY DEF IInv
  <2>2. HeapOf(u)' = HeapOf(u) /\ Own(u)' = Own(u)
    BY <1>1 DEF HeapOf, Own
  <2>3. CASE u = t
    <3>1. Lists(HeapOf(t), Own(t), {}, SmallIn(HeapOf(t), Own(t)))
      BY <1>1, <2>1, <2>3 DEF ListsOK
    <3>2. phase'[t] # "live"
      BY <1>1, <1>2
    <3> QED BY <2>2, <2>3, <3>1, <3>2 DEF ListsOK
  <2>4. CASE u # t
    BY <1>1, <1>2, <2>1, <2>2, <2>4
  <2> QED BY <2>3, <2>4
<1>6. ASSUME NEW u \in Thread PROVE ListedOK(sp_list'[u], Own(u)')
  <2>1. ListedOK(sp_list[u], Own(u))
    BY DEF IInv
  <2> QED BY <1>1, <2>1 DEF Own
<1> QED BY <1>3, <1>4, <1>5, <1>6 DEF IInv

LEMMA ThreadInitOK ==
  ASSUME ConstantsOK, IInv, NEW t \in Thread, ThreadInit(t)
  PROVE  IInv'
<1>1. /\ pbh_list[t] = NULL /\ sp_list[t] = << >> /\ phase' = [phase EXCEPT ![t] = "live"]
      /\ free_pb_list' = [free_pb_list EXCEPT ![t] = NoPb]
      /\ UNCHANGED <<owner, mem, pagemap, pbh_list, sp_list, remote_pb_list, run>>
  BY DEF ThreadInit
<1>2. TypeOK /\ phase \in [Thread -> {"live", "exit"}] /\ free_pb_list \in [Thread -> [Lens -> Ptr]]
  BY DEF IInv, TypeOK
<1>3. TypeOK'
  <2>1. NoPb \in [Lens -> Ptr]
    BY DEF NoPb, Ptr
  <2> QED BY <1>1, <1>2, <2>1 DEF TypeOK
<1>4. Own(t) = {}
  <2>1. ListedOK(sp_list[t], Own(t))
    BY DEF IInv
  <2> QED BY <1>1, <2>1 DEF ListedOK, ToSet
<1>5. ASSUME NEW x \in Superpage PROVE SpInv(x)'
  <2>1. SpInv(x)
    BY DEF IInv
  <2>2. Now' = Now
    BY <1>1 DEF Now
  <2>3. owner[x] # t
    BY <1>4 DEF Own
  <2>4. remote_pb_list[x] # << >> => owner[x] \in Thread /\ phase'[owner[x]] = "exit"
    BY <1>1, <1>2, <2>1, <2>3 DEF SpInv
  <2> QED BY <1>1, <2>1, <2>2, <2>4 DEF SpInv
<1>6. ASSUME NEW u \in Thread PROVE ListsOK(HeapOf(u)', Own(u)', phase'[u])
  <2>1. Own(u)' = Own(u)
    BY <1>1 DEF Own
  <2>2. CASE u = t
    <3>1. HeapOf(t)'.free = NoPb /\ HeapOf(t)'.blk = NULL /\ phase'[t] = "live"
      BY <1>1, <1>2 DEF HeapOf
    <3>2. Lists(HeapOf(t)', {}, {}, {}) /\ SmallIn(HeapOf(t)', {}) = {}
      BY <3>1, NoLists
    <3> QED BY <1>4, <2>1, <2>2, <3>1, <3>2 DEF ListsOK
  <2>3. CASE u # t
    <3>1. HeapOf(u)' = HeapOf(u) /\ phase'[u] = phase[u]
      BY <1>1, <1>2, <2>3 DEF HeapOf
    <3>2. ListsOK(HeapOf(u), Own(u), phase[u])
      BY DEF IInv
    <3> QED BY <2>1, <3>1, <3>2
  <2> QED BY <2>2, <2>3
<1>7. ASSUME NEW u \in Thread PROVE ListedOK(sp_list'[u], Own(u)')
  <2>1. ListedOK(sp_list[u], Own(u))
    BY DEF IInv
  <2> QED BY <1>1, <2>1 DEF Own
<1> QED BY <1>3, <1>5, <1>6, <1>7 DEF IInv

LEMMA InitOK ==
  ASSUME ConstantsOK, Init
  PROVE  IInv
<1>1. "dead" # NULL /\ \A t \in Thread : t # NULL
  BY DEF ConstantsOK
<1>2. TypeOK
  <2>1. Zeroed \in Header /\ 0 \in 0 .. NUM_PAGE_CLASSES
    BY Constants DEF Zeroed, Header, Ptr, NUM_PAGE_CLASSES
  <2>2. NoPb \in [Lens -> Ptr] /\ NULL \in Ptr
    BY DEF NoPb, Ptr
  <2>3. owner \in [Superpage -> Thread \cup {"dead", NULL}] /\ mem \in [SpPage -> Header]
        /\ pagemap \in [SpPage -> Ptr] /\ free_pb_list \in [Thread -> [Lens -> Ptr]]
    BY <2>1, <2>2 DEF Init
  <2>4. pbh_list \in [Thread -> Ptr] /\ sp_list \in [Thread -> Seq(Superpage)]
        /\ remote_pb_list \in [Superpage -> Seq(SpPage)]
    BY <2>2 DEF Init
  <2>5. phase \in [Thread -> {"live", "exit"}] /\ run \in [SpPage -> 0 .. NUM_PAGE_CLASSES]
    BY <2>1 DEF Init
  <2> QED BY <2>3, <2>4, <2>5 DEF TypeOK
<1>3. ASSUME NEW x \in Superpage PROVE SpInv(x)
  <2>1. owner[x] = NULL /\ remote_pb_list[x] = << >>
    BY DEF Init
  <2>2. \A i \in Lens : Now.map[<<x, i>>] = NULL
    BY Constants DEF Init, Now
  <2>3. Runs(Now, x, run)
    BY DEF Init, Runs
  <2>4. Remotes(Now, x, run, << >>)
    BY DEF Remotes, RemoteOf
  <2> QED BY <1>1, <2>1, <2>2, <2>3, <2>4 DEF SpInv, SpOK
<1>4. \A t \in Thread : Own(t) = {}
  BY <1>1 DEF Own, Init
<1>5. ASSUME NEW t \in Thread PROVE ListsOK(HeapOf(t), Own(t), phase[t])
  <2>1. HeapOf(t).free = NoPb /\ HeapOf(t).blk = NULL /\ phase[t] = "live"
    BY DEF HeapOf, Init
  <2> QED BY <1>4, <2>1, NoLists DEF ListsOK
<1>6. ASSUME NEW t \in Thread PROVE ListedOK(sp_list[t], Own(t))
  <2>1. sp_list[t] = << >>
    BY DEF Init
  <2> QED BY <1>4, <2>1 DEF ListedOK, ToSet
<1> QED BY <1>2, <1>3, <1>5, <1>6 DEF IInv

LEMMA NextOK ==
  ASSUME ConstantsOK, RemotePhases \subseteq {"exit"}, LargeAtExit = FALSE, IInv, [Next]_vars
  PROVE  IInv'
<1>1. CASE UNCHANGED vars
  <2>1. UNCHANGED <<owner, mem, pagemap, free_pb_list, pbh_list, sp_list, remote_pb_list, phase, run>>
    BY <1>1 DEF vars
  <2>2. TypeOK'
    BY <2>1 DEF IInv, TypeOK
  <2>3. Now' = Now
    BY <2>1 DEF Now
  <2>4. \A x \in Superpage : SpInv(x)'
    BY <2>1, <2>3 DEF IInv, SpInv
  <2> QED BY <2>1, <2>2, <2>4, ListsKept DEF IInv
<1>2. CASE Next
  <2>1. PICK t \in Thread :
        \/ LargeMalloc(t) \/ SmallMalloc(t) \/ TakeBlocks(t)
        \/ \E s \in Superpage : Adopt(t, s)
        \/ \E h \in SpPage :
             \/ AdoptDying(t, h)
             \/ LargeFreeOwn(t, h) \/ LargeFreeDead(t, h)
             \/ LargeFreeDying(t, h) \/ LargeFreeRemote(t, h)
             \/ AddLastBlocks(t, h) \/ AddSomeBlocks(t, h)
             \/ RemoteLastBlocks(t, h)
        \/ Exit(t) \/ ReturnPbh(t) \/ FinishSuperpage(t) \/ ThreadInit(t)
    BY <1>2 DEF Next
  <2>2. CASE LargeMalloc(t)
    <3>1. PICK len \in LargeLens : PbAlloc(t, len, TRUE)
      BY <2>2 DEF LargeMalloc
    <3>2. len \in 1 .. SUPERPAGE_LEN - 1
      BY DEF ConstantsOK
    <3> QED BY <3>1, <3>2, PbAllocOK
  <2>3. CASE SmallMalloc(t)
    <3>1. SmallLen \in 1 .. SUPERPAGE_LEN - 1
      BY DEF ConstantsOK
    <3> QED BY <2>3, <3>1, PbAllocOK DEF SmallMalloc
  <2>4. CASE TakeBlocks(t)
    BY <2>4, TakeBlocksOK
  <2>5. ASSUME NEW s \in Superpage, Adopt(t, s) PROVE IInv'
    BY <2>5, AdoptOK
  <2>6. ASSUME NEW h \in SpPage, AdoptDying(t, h) PROVE IInv'
    BY <2>6, AdoptDyingOK
  <2>7. ASSUME NEW h \in SpPage, LargeFreeOwn(t, h) PROVE IInv'
    BY <2>7, LargeFreeOwnOK
  <2>8. ASSUME NEW h \in SpPage, LargeFreeDead(t, h) PROVE IInv'
    BY <2>8, LargeFreeDeadOK
  <2>9. ASSUME NEW h \in SpPage, LargeFreeDying(t, h) PROVE IInv'
    BY <2>9, LargeFreeDyingOK
  <2>10. ASSUME NEW h \in SpPage, LargeFreeRemote(t, h) PROVE IInv'
    BY <2>10, LargeFreeRemoteOK
  <2>11. ASSUME NEW h \in SpPage, AddLastBlocks(t, h) PROVE IInv'
    BY <2>11, AddLastBlocksOK
  <2>12. ASSUME NEW h \in SpPage, AddSomeBlocks(t, h) PROVE IInv'
    BY <2>12, AddSomeBlocksOK
  <2>13. ASSUME NEW h \in SpPage, RemoteLastBlocks(t, h) PROVE IInv'
    BY <2>13, RemoteLastBlocksOK
  <2>14. CASE Exit(t)
    BY <2>14, ExitOK
  <2>15. CASE ReturnPbh(t)
    BY <2>15, ReturnPbhOK
  <2>16. CASE FinishSuperpage(t)
    BY <2>16, FinishSuperpageOK
  <2>17. CASE ThreadInit(t)
    BY <2>17, ThreadInitOK
  <2> QED BY ONLY <2>1, <2>2, <2>3, <2>4, <2>5, <2>6, <2>7, <2>8, <2>9, <2>10, <2>11, <2>12, <2>13,
                  <2>14, <2>15, <2>16, <2>17
<1> QED BY <1>1, <1>2

\* The invariant holds, if nobody frees large blocks into the superpages of a
\* thread but while it exits, and a thread leaves no large ones alone.
THEOREM InvariantHolds ==
  ASSUME ConstantsOK, RemotePhases \subseteq {"exit"}, LargeAtExit = FALSE
  PROVE  Spec => []IInv
<1>1. Init => IInv
  BY InitOK
<1>2. IInv /\ [Next]_vars => IInv'
  BY NextOK
<1> QED BY <1>1, <1>2, PTL DEF Spec

----------------------------------------------------------------------------
(* What the invariant is good for: the rings.                              *)

\* Following the next pointers for n steps, or for ever.
IsPath(m, top, n, f) == f = [k \in 0 .. n |-> IF k = 0 THEN top ELSE m[f[k - 1]].next]
IsTrack(m, top, f) == f = [k \in Nat |-> IF k = 0 THEN top ELSE m[f[k - 1]].next]

LEMMA PathExists ==
  ASSUME NEW m, NEW top, NEW N \in Nat
  PROVE  \E f : IsPath(m, top, N, f)
<1> DEFINE Path(f, n) == IsPath(m, top, n, f)
           Bad == {n \in Nat : ~ \E f : Path(f, n)}
<1>0. \A f, n : Path(f, n) <=> f = [k \in 0 .. n |-> IF k = 0 THEN top ELSE m[f[k - 1]].next]
  BY DEF IsPath
<1> HIDE DEF Path
<1> SUFFICES ASSUME Bad # {} PROVE FALSE
  BY DEF Path
<1>1. PICK n \in Bad : \A k \in Bad : n <= k
  <2>1. Bad \subseteq Nat
    OBVIOUS
  <2> HIDE DEF Bad
  <2> QED BY <2>1, Least
<1>2. n \in Nat /\ ~ \E f : Path(f, n)
  OBVIOUS
<1>3. n # 0
  <2> DEFINE f == [k \in 0 .. 0 |-> top]
  <2>1. f = [k \in 0 .. 0 |-> IF k = 0 THEN top ELSE m[f[k - 1]].next]
    OBVIOUS
  <2> HIDE DEF f
  <2> QED BY <1>0, <1>2, <2>1
<1>4. n - 1 \in Nat /\ n - 1 \notin Bad
  BY <1>1, <1>2, <1>3
<1>5. PICK f : Path(f, n - 1)
  BY <1>4
<1> DEFINE g == [k \in 0 .. n |-> IF k = n THEN m[f[n - 1]].next ELSE f[k]]
<1>6. ASSUME NEW k \in 0 .. n
      PROVE  g[k] = IF k = 0 THEN top ELSE m[g[k - 1]].next
  <2>1. CASE k = n
    BY <1>2, <1>3, <1>4, <2>1
  <2>2. CASE k # n
    <3>1. k \in 0 .. n - 1
      BY <1>2, <2>2
    <3>2. f[k] = IF k = 0 THEN top ELSE m[f[k - 1]].next
      BY <1>0, <1>5, <3>1
    <3>3. k # 0 => k - 1 \in 0 .. n /\ k - 1 # n
      BY <1>2, <3>1
    <3> QED BY <2>2, <3>2, <3>3
  <2> QED BY <2>1, <2>2
<1>7. g = [k \in 0 .. n |-> IF k = 0 THEN top ELSE m[g[k - 1]].next]
  <2> DEFINE e == [k \in 0 .. n |-> IF k = 0 THEN top ELSE m[g[k - 1]].next]
  <2>1. DOMAIN g = DOMAIN e /\ \A k \in 0 .. n : g[k] = e[k]
    BY <1>6
  <2>2. g = e
    BY <2>1
  <2> QED BY <2>2
<1> HIDE DEF g
<1> QED BY <1>0, <1>2, <1>7

LEMMA PathsAgree ==
  ASSUME NEW m, NEW top, NEW a \in Nat, NEW b \in Nat, NEW f, NEW g,
         IsPath(m, top, a, f), IsPath(m, top, b, g)
  PROVE  \A k \in Nat : k <= a /\ k <= b => f[k] = g[k]
<1> DEFINE Bad == {k \in Nat : k <= a /\ k <= b /\ f[k] # g[k]}
<1> SUFFICES ASSUME Bad # {} PROVE FALSE
  OBVIOUS
<1>1. PICK n \in Bad : \A k \in Bad : n <= k
  <2>1. Bad \subseteq Nat
    OBVIOUS
  <2> HIDE DEF Bad
  <2> QED BY <2>1, Least
<1>2. n \in Nat /\ n <= a /\ n <= b /\ f[n] # g[n]
  OBVIOUS
<1>3. /\ f[n] = IF n = 0 THEN top ELSE m[f[n - 1]].next
      /\ g[n] = IF n = 0 THEN top ELSE m[g[n - 1]].next
  <2>1. n \in 0 .. a /\ n \in 0 .. b
    BY <1>2
  <2> QED BY <2>1 DEF IsPath
<1>4. n # 0
  BY <1>2, <1>3
<1>5. n - 1 \in Nat /\ n - 1 \notin Bad /\ n - 1 <= a /\ n - 1 <= b
  BY <1>1, <1>2, <1>4
<1>6. f[n - 1] = g[n - 1]
  BY <1>5
<1> QED BY <1>2, <1>3, <1>4, <1>6

LEMMA TrackExists ==
  ASSUME NEW m, NEW top
  PROVE  \E f : IsTrack(m, top, f)
<1> DEFINE P(n) == CHOOSE f : IsPath(m, top, n, f)
           g == [k \in Nat |-> P(k)[k]]
<1>1. ASSUME NEW n \in Nat PROVE IsPath(m, top, n, P(n))
  BY PathExists
<1> HIDE DEF P
<1>2. ASSUME NEW k \in Nat PROVE g[k] = IF k = 0 THEN top ELSE m[g[k - 1]].next
  <2>1. k \in 0 .. k
    OBVIOUS
  <2>2. P(k)[k] = IF k = 0 THEN top ELSE m[P(k)[k - 1]].next
    BY <1>1, <2>1 DEF IsPath
  <2>3. ASSUME k # 0 PROVE g[k - 1] = P(k)[k - 1]
    <3> DEFINE j == k - 1
    <3>1. j \in Nat /\ j <= j /\ j <= k
      BY <2>3
    <3> HIDE DEF j
    <3>2. P(j)[j] = P(k)[j]
      BY <1>1, <3>1, PathsAgree
    <3>3. g[j] = P(j)[j]
      BY <3>1
    <3> QED BY <3>2, <3>3 DEF j
  <2> QED BY <2>2, <2>3
<1>3. g = [k \in Nat |-> IF k = 0 THEN top ELSE m[g[k - 1]].next]
  <2> DEFINE e == [k \in Nat |-> IF k = 0 THEN top ELSE m[g[k - 1]].next]
  <2>1. DOMAIN g = DOMAIN e /\ \A k \in Nat : g[k] = e[k]
    BY <1>2
  <2>2. g = e
    BY <2>1
  <2> QED BY <2>2
<1> HIDE DEF g
<1> QED BY <1>3 DEF IsTrack

\* From a ring's head on, the next pointers lead through all of it.
OnTrack(m, C, top, f) ==
  /\ f[0] = top /\ \A k \in Nat : f[k] \in C /\ f[k + 1] = m[f[k]].next

LEMMA TrackInRing ==
  ASSUME NEW m, NEW C, NEW top, IsRing(m, C, top), C # {}, NEW f, IsTrack(m, top, f)
  PROVE  OnTrack(m, C, top, f)
<1>1. ASSUME NEW k \in Nat PROVE f[k] = IF k = 0 THEN top ELSE m[f[k - 1]].next
  BY DEF IsTrack
<1>2. f[0] = top /\ top \in C
  BY <1>1 DEF IsRing
<1>3. ASSUME NEW k \in Nat PROVE f[k + 1] = m[f[k]].next
  <2> DEFINE j == k + 1
  <2>1. j \in Nat /\ j # 0 /\ j - 1 = k
    OBVIOUS
  <2> HIDE DEF j
  <2>2. f[j] = m[f[j - 1]].next
    BY <1>1, <2>1
  <2> QED BY <2>1, <2>2 DEF j
<1>4. ASSUME NEW N \in Nat PROVE f[N] \in C
  <2> DEFINE G == {k \in Nat : f[k] \in C}
  <2>1. 0 \in G
    BY <1>2
  <2>2. ASSUME NEW k \in 1 .. N, k - 1 \in G PROVE k \in G
    <3> DEFINE j == k - 1
    <3>1. j \in Nat /\ j + 1 = k /\ f[j] \in C
      BY <2>2
    <3> HIDE DEF j
    <3>2. f[j + 1] \in C
      BY <1>3, <3>1 DEF IsRing
    <3> QED BY <3>1, <3>2
  <2> HIDE DEF G
  <2>3. \A k \in 0 .. N : k \in G
    BY <2>1, <2>2, Upto
  <2>4. N \in G
    BY <2>3
  <2> QED BY <2>4 DEF G
<1> QED BY <1>2, <1>3, <1>4 DEF OnTrack

\* Sooner or later they come back to the head.
LEMMA TrackReturns ==
  ASSUME NEW m, NEW C, NEW top, IsRing(m, C, top), NEW f, OnTrack(m, C, top, f),
         NEW A, IsFiniteSet(A), C \subseteq A
  PROVE  \E k \in 1 .. Cardinality(A) : f[k] = top
<1> DEFINE N == Cardinality(A)
           T == 0 .. N
           e == [k \in T |-> f[k]]
<1>1. N \in Nat
  BY FS_CardinalityType
<1>2. IsFiniteSet(T) /\ Cardinality(T) = N + 1
  BY <1>1, FS_Interval
<1>3. e \in [T -> A]
  BY <1>1 DEF OnTrack
<1> HIDE DEF e, N
<1>4. \E i, j \in T : i # j /\ e[i] = e[j]
  <2>1. Cardinality(A) < Cardinality(T)
    BY <1>1, <1>2 DEF N
  <2> HIDE DEF T
  <2> QED BY <1>2, <1>3, <2>1, FS_PigeonHole
<1> DEFINE Twice == {i \in Nat : \E j \in T : i < j /\ f[i] = f[j]}
<1>5. Twice # {}
  <2>1. PICK i \in T, j \in T : i # j /\ e[i] = e[j]
    BY <1>4
  <2>2. i \in Nat /\ j \in Nat /\ f[i] = f[j] /\ (i < j \/ j < i)
    BY <1>1, <2>1 DEF e
  <2> QED BY <2>2
<1>6. PICK i \in Twice : \A k \in Twice : i <= k
  <2>1. Twice \subseteq Nat
    OBVIOUS
  <2> HIDE DEF Twice
  <2> QED BY <1>5, <2>1, Least
<1>7. PICK j \in T : i < j /\ f[i] = f[j]
  OBVIOUS
<1>8. i \in Nat /\ j \in Nat /\ j <= N
  BY <1>1
<1>9. i = 0
  <2> SUFFICES ASSUME i # 0 PROVE FALSE
    OBVIOUS
  <2> DEFINE a == i - 1
             b == j - 1
  <2>1. a \in Nat /\ b \in Nat /\ b \in T /\ a < b /\ a + 1 = i /\ b + 1 = j
    BY <1>1, <1>7, <1>8
  <2> HIDE DEF a, b, T
  <2>2. f[i] = m[f[a]].next /\ f[j] = m[f[b]].next /\ f[a] \in C /\ f[b] \in C
    BY <2>1 DEF OnTrack
  <2>3. f[a] = f[b]
    <3>1. \A h \in C : m[m[h].next].prev = h
      BY DEF IsRing
    <3>2. m[m[f[a]].next].prev = f[a] /\ m[m[f[b]].next].prev = f[b]
      BY <2>2, <3>1
    <3>3. f[i] = f[j]
      BY <1>7
    <3> QED BY <2>2, <3>2, <3>3
  <2>4. a \in Twice
    BY <2>1, <2>3
  <2>5. i <= a
    BY <1>6, <2>4
  <2> QED BY <1>8, <2>1, <2>5
<1> QED BY <1>7, <1>8, <1>9 DEF OnTrack, N

\* Ring lists all of a ring.
LEMMA RingListed ==
  ASSUME ConstantsOK, NEW C, NEW top, IsRing(mem, C, top)
  PROVE  ToSet(Ring(top)) = C /\ WellLinked(top)
<1>1. CASE top = NULL
  <2>1. C = {}
    BY <1>1, Constants DEF IsRing
  <2>2. Ring(top) = << >>
    BY <1>1 DEF Ring
  <2> QED BY <2>1, <2>2 DEF ToSet, WellLinked
<1>2. CASE top # NULL
  <2> DEFINE f == CHOOSE at : IsTrack(mem, top, at)
             N == Cardinality(SpPage)
             back == {k \in 1 .. N : f[k] = top}
             size == IF back = {} THEN N ELSE Min(back)
  <2>1. Ring(top) = [k \in 1 .. size |-> f[k - 1]]
    BY <1>2 DEF Ring, IsTrack
  <2>2. IsTrack(mem, top, f)
    BY TrackExists
  <2> HIDE DEF f
  <2>3. C # {} /\ C \subseteq SpPage
    BY <1>2 DEF IsRing
  <2>4. OnTrack(mem, C, top, f)
    BY <2>2, <2>3, TrackInRing
  <2>5. IsFiniteSet(SpPage) /\ N \in Nat
    <3>1. IsFiniteSet(Superpage)
      BY DEF ConstantsOK
    <3>2. IsFiniteSet(1 .. SUPERPAGE_LEN)
      BY Constants, FS_Interval
    <3>3. IsFiniteSet(SpPage)
      BY <3>1, <3>2, FS_Product DEF SpPage
    <3> QED BY <3>3, FS_CardinalityType
  <2>6. \E k \in 1 .. N : f[k] = top
    BY <2>3, <2>4, <2>5, TrackReturns
  <2>7. size \in 1 .. N /\ f[size] = top
    <3>1. back # {} /\ back \subseteq Nat
      BY <2>6
    <3>2. Min(back) \in back
      <4> HIDE DEF back
      <4> QED BY <3>1, Least DEF Min
    <3> QED BY <3>1, <3>2
  <2> HIDE DEF back, size, N
  <2>8. ToSet(Ring(top)) = {f[k - 1] : k \in 1 .. size}
    BY <2>1 DEF ToSet
  <2> DEFINE X == {f[k - 1] : k \in 1 .. size}
  <2>9. X \in SUBSET C
    <3>1. ASSUME NEW k \in 1 .. size PROVE f[k - 1] \in C
      <4>1. k - 1 \in Nat
        BY <2>5, <2>7
      <4> QED BY <2>4, <4>1 DEF OnTrack
    <3> QED BY <3>1
  <2>10. top \in X
    <3>1. 1 \in 1 .. size /\ f[1 - 1] = top
      BY <2>4, <2>5, <2>7 DEF OnTrack
    <3> QED BY <3>1
  <2>11. ASSUME NEW h \in X PROVE mem[h].next \in X
    <3>1. PICK k \in 1 .. size : h = f[k - 1]
      OBVIOUS
    <3>2. k \in Nat /\ k - 1 \in Nat /\ (k - 1) + 1 = k /\ size \in Nat
      BY <2>5, <2>7
    <3>3. mem[h].next = f[k]
      BY <2>4, <3>1, <3>2 DEF OnTrack
    <3>4. CASE k = size
      BY <2>7, <2>10, <3>3, <3>4
    <3>5. CASE k # size
      <4> DEFINE j == k + 1
      <4>1. j \in 1 .. size /\ j - 1 = k
        BY <3>2, <3>5
      <4> HIDE DEF j
      <4> QED BY <3>3, <4>1
    <3> QED BY <3>4, <3>5
  <2>12. X = C
    <3> HIDE DEF X
    <3> QED BY <2>9, <2>10, <2>11 DEF IsRing
  <2>13. ToSet(Ring(top)) = C
    BY <2>8, <2>12
  <2> QED BY <2>13 DEF WellLinked, IsRing
<1> QED BY <1>1, <1>2

----------------------------------------------------------------------------
(* The properties.                                                         *)

\* The page blocks of a superpage that is used.
LEMMA UsedTiles ==
  ASSUME ConstantsOK, IInv, NEW s \in Used
  PROVE  /\ s \in Superpage /\ Tiled(mem, pagemap, s) /\ Short(Now, s)
         /\ Walk(mem, s)[SUPERPAGE_LEN] = SUPERPAGE_LEN + 1
         /\ Tiles(s) = {h \in SpPage : h[1] = s /\ pagemap[h] = h}
<1>1. s \in Superpage /\ owner[s] # NULL
  BY DEF Used
<1>2. SpOK(Now, s, owner[s], run, remote_pb_list[s])
  BY <1>1 DEF IInv, SpInv
<1>3. Sound(Now, s) /\ Now.mem = mem /\ Now.map = pagemap
  BY <1>1, <1>2 DEF SpOK, Now
<1>4. Tiled(mem, pagemap, s) /\ Short(Now, s)
  BY <1>3 DEF Sound
<1>5. mem \in [SpPage -> Header]
  BY DEF IInv, TypeOK
<1> QED BY <1>1, <1>4, <1>5, WalkTiles DEF Tiles

\* The pages of a page block.
LEMMA TilePages ==
  ASSUME ConstantsOK, IInv, NEW s \in Used, NEW h \in Tiles(s), NEW p \in Pages(h, mem[h].length)
  PROVE  pagemap[p] = h
<1>1. s \in Superpage /\ Tiled(mem, pagemap, s) /\ h \in SpPage /\ h[1] = s /\ pagemap[h] = h
  BY UsedTiles
<1>2. mem \in [SpPage -> Header]
  BY DEF IInv, TypeOK
<1> DEFINE j == h[2]
<1>3. h = <<s, j>> /\ j \in Lens
  BY <1>1, Constants
<1>4. PICK k \in j .. j + mem[h].length - 1 : p = <<s, k>>
  BY <1>1 DEF Pages
<1> HIDE DEF j
<1>5. Tile(mem, pagemap, s, j)
  <2>1. pagemap[<<s, j>>] = <<s, j>>
    BY <1>1, <1>3
  <2> QED BY <1>1, <1>2, <1>3, <2>1, TileEnd
<1>6. k \in Lens /\ j <= k /\ k < j + mem[<<s, j>>].length
  <2>1. mem[<<s, j>>].length \in Nat /\ j \in Nat
    BY <1>1, <1>2, <1>3, Lengths
  <2>2. j + mem[<<s, j>>].length <= SUPERPAGE_LEN + 1
    BY <1>5 DEF Tile
  <2>3. Lens = 1 .. SUPERPAGE_LEN /\ SUPERPAGE_LEN \in Nat
    BY Constants
  <2> QED BY <1>3, <1>4, <2>1, <2>2, <2>3
<1> QED BY <1>3, <1>4, <1>5, <1>6 DEF Tile

LEMMA HeapOKHolds ==
  ASSUME ConstantsOK, IInv
  PROVE  HeapOK
<1>1. ASSUME NEW s \in Superpage \ Used, NEW i \in Lens PROVE pagemap[<<s, i>>] = NULL
  <2>1. owner[s] = NULL
    BY DEF Used
  <2>2. SpOK(Now, s, NULL, run, remote_pb_list[s])
    BY <2>1 DEF IInv, SpInv
  <2> QED BY <2>2 DEF SpOK, Now
<1>2. TypeOK
  BY DEF IInv
<1> QED BY <1>1, <1>2, UsedTiles, TilePages DEF HeapOK

LEMMA RunsIntactHolds ==
  ASSUME ConstantsOK, IInv
  PROVE  RunsIntact
<1>1. ASSUME NEW h \in HandedOut
      PROVE  /\ owner[h[1]] # NULL /\ mem[h].length = run[h] /\ ~mem[h].free
             /\ \A p \in Pages(h, run[h]) : pagemap[p] = h
  <2>1. h \in SpPage /\ run[h] > 0 /\ h[1] \in Superpage /\ h = <<h[1], h[2]>> /\ h[2] \in Lens
    BY Constants DEF HandedOut
  <2>2. SpOK(Now, h[1], owner[h[1]], run, remote_pb_list[h[1]])
    BY <2>1 DEF IInv, SpInv
  <2>3. pagemap[h] = h /\ ~mem[h].free /\ mem[h].length = run[h]
    BY <2>1, <2>2 DEF SpOK, Runs, BusyOf, Now
  <2>4. owner[h[1]] # NULL
    <3> SUFFICES ASSUME owner[h[1]] = NULL PROVE FALSE
      OBVIOUS
    <3>1. pagemap[<<h[1], h[2]>>] = NULL
      BY <2>1, <2>2 DEF SpOK, Now
    <3> QED BY <2>1, <2>3, <3>1, Constants
  <2>5. h[1] \in Used
    BY <2>1, <2>4 DEF Used
  <2>6. h \in Tiles(h[1])
    BY <2>1, <2>3, <2>5, UsedTiles
  <2>7. \A p \in Pages(h, mem[h].length) : pagemap[p] = h
    BY <2>5, <2>6, TilePages
  <2> QED BY <2>3, <2>4, <2>7
<1>2. ASSUME NEW h \in HandedOut, NEW g \in HandedOut, g # h
      PROVE  Pages(h, run[h]) \cap Pages(g, run[g]) = {}
  BY <1>1, <1>2
<1> QED BY <1>1, <1>2 DEF RunsIntact

\* The page blocks of a thread.
LEMMA OwnTiles ==
  ASSUME ConstantsOK, IInv, NEW t \in Thread
  PROVE  TilesOf(t) = {h \in SpPage : pagemap[h] = h /\ h[1] \in Own(t)}
<1>1. \A s \in Own(t) : s \in Used
  BY DEF Own, Used, ConstantsOK
<1>2. \A s \in Own(t) : Tiles(s) = {h \in SpPage : h[1] = s /\ pagemap[h] = h}
  BY <1>1, UsedTiles
<1>3. TilesOf(t) = UNION {Tiles(s) : s \in Own(t)}
  BY DEF TilesOf, Own
<1> QED BY <1>2, <1>3

LEMMA ListsExactHolds ==
  ASSUME ConstantsOK, IInv
  PROVE  ListsExact
<1> SUFFICES ASSUME NEW t \in Thread, phase[t] = "live"
             PROVE  /\ \A c \in Lens :
                         /\ WellLinked(free_pb_list[t][c])
                         /\ ToSet(Ring(free_pb_list[t][c])) =
                              {h \in TilesOf(t) : mem[h].free /\ mem[h].length = c}
                    /\ free_pb_list[t][SUPERPAGE_LEN] = NULL
                    /\ WellLinked(pbh_list[t])
                    /\ ToSet(Ring(pbh_list[t])) =
                         {h \in TilesOf(t) : ~mem[h].free /\ ~mem[h].large}
  BY DEF ListsExact
<1> DEFINE B == HeapOf(t)
           O == Own(t)
<1>1. HeapInv(B, O, SmallIn(B, O))
  BY LiveHeap
<1>2. B.mem = mem /\ B.map = pagemap /\ B.free = free_pb_list[t] /\ B.blk = pbh_list[t]
  BY DEF HeapOf
<1>3. TilesOf(t) = {h \in SpPage : pagemap[h] = h /\ h[1] \in O}
  BY OwnTiles
<1> HIDE DEF B, O
<1>4. Lists(B, O, {}, SmallIn(B, O))
  BY <1>1 DEF HeapInv
<1>5. ASSUME NEW c \in Lens
      PROVE  /\ WellLinked(free_pb_list[t][c])
             /\ ToSet(Ring(free_pb_list[t][c])) =
                  {h \in TilesOf(t) : mem[h].free /\ mem[h].length = c}
  <2> DEFINE C == FreeIn(B, O, c)
             top == free_pb_list[t][c]
  <2>1. IsRing(mem, C, top)
    <3>1. IsRing(B.mem, FreeIn(B, O, c) \ {}, B.free[c])
      BY <1>4 DEF Lists
    <3>2. FreeIn(B, O, c) \ {} = C
      OBVIOUS
    <3> HIDE DEF C
    <3> QED BY <1>2, <3>1, <3>2
  <2>2. C = {h \in TilesOf(t) : mem[h].free /\ mem[h].length = c}
    BY <1>2, <1>3 DEF FreeIn
  <2> HIDE DEF C, top
  <2>3. ToSet(Ring(top)) = C /\ WellLinked(top)
    BY <2>1, RingListed
  <2> QED BY <2>2, <2>3 DEF top
<1>6. free_pb_list[t][SUPERPAGE_LEN] = NULL
  <2> DEFINE n == SUPERPAGE_LEN
  <2>1. n \in Lens /\ n \in Nat
    BY Constants
  <2>2. \A s \in O : Short(B, s)
    BY <1>1 DEF HeapInv
  <2>3. FreeIn(B, O, n) = {}
    <3> SUFFICES ASSUME NEW h \in FreeIn(B, O, n) PROVE FALSE
      OBVIOUS
    <3>1. h \in SpPage /\ B.map[h] = h /\ h[1] \in O /\ B.mem[h].length = n
      BY DEF FreeIn
    <3>2. B.mem[h].length < SUPERPAGE_LEN
      BY <2>2, <3>1 DEF Short
    <3> QED BY <2>1, <3>1, <3>2
  <2>4. IsRing(B.mem, FreeIn(B, O, n) \ {}, B.free[n])
    BY <1>4, <2>1 DEF Lists
  <2>5. FreeIn(B, O, n) \ {} = {}
    BY <2>3
  <2>6. B.free[n] = NULL
    BY <2>4, <2>5 DEF IsRing
  <2> QED BY <1>2, <2>6
<1>7. WellLinked(pbh_list[t]) /\ ToSet(Ring(pbh_list[t])) = SmallIn(B, O)
  <2>1. IsRing(mem, SmallIn(B, O), pbh_list[t])
    BY <1>2, <1>4 DEF Lists
  <2> QED BY <2>1, RingListed
<1>8. SmallIn(B, O) = {h \in TilesOf(t) : ~mem[h].free /\ ~mem[h].large}
  BY <1>2, <1>3 DEF SmallIn
<1> QED BY <1>5, <1>6, <1>7, <1>8

\* Different elements are as many as their list is long.
LEMMA ListedOnce ==
  ASSUME NEW A, NEW l \in Seq(A), \A i, j \in 1 .. Len(l) : l[i] = l[j] => i = j
  PROVE  Cardinality(ToSet(l)) = Len(l)
<1> DEFINE n == Len(l)
           T == ToSet(l)
<1>1. n \in Nat /\ DOMAIN l = 1 .. n
  OBVIOUS
<1>2. T = {l[i] : i \in 1 .. n}
  BY <1>1 DEF ToSet
<1>3. l \in [1 .. n -> T]
  BY <1>1, <1>2
<1> HIDE DEF T, n
<1>4. \A i, j \in 1 .. n : l[i] = l[j] => i = j
  BY DEF n
<1>5. l \in Bijection(1 .. n, T)
  <2>1. l \in Injection(1 .. n, T)
    BY <1>3, <1>4 DEF Injection, IsInjective
  <2>2. l \in Surjection(1 .. n, T)
    BY <1>2, <1>3 DEF Surjection
  <2> QED BY <2>1, <2>2 DEF Bijection
<1>6. ExistsBijection(1 .. n, T)
  BY <1>5 DEF ExistsBijection
<1>7. Cardinality(T) = n
  BY <1>1, <1>6, FS_CountingElements
<1> QED BY <1>7 DEF T, n

LEMMA SuperpagesListedHolds ==
  ASSUME ConstantsOK, IInv
  PROVE  SuperpagesListed
<1>1. ASSUME NEW t \in Thread
      PROVE  /\ ToSet(sp_list[t]) = {s \in Superpage : owner[s] = t}
             /\ Cardinality(ToSet(sp_list[t])) = Len(sp_list[t])
  <2>1. ListedOK(sp_list[t], Own(t)) /\ sp_list[t] \in Seq(Superpage)
    BY DEF IInv, TypeOK
  <2>2. \A i, j \in 1 .. Len(sp_list[t]) : sp_list[t][i] = sp_list[t][j] => i = j
    BY <2>1 DEF ListedOK
  <2>3. ToSet(sp_list[t]) = {s \in Superpage : owner[s] = t}
    BY <2>1 DEF ListedOK, Own
  <2> DEFINE l == sp_list[t]
  <2> HIDE DEF l
  <2>4. Cardinality(ToSet(l)) = Len(l)
    BY <2>1, <2>2, ListedOnce DEF l
  <2> QED BY <2>3, <2>4 DEF l
<1> QED BY <1>1 DEF SuperpagesListed

\* The walks over a superpage's page blocks end at its end, and the pagemap
\* sends every page to its header.
THEOREM HeapStaysOK ==
  ASSUME ConstantsOK, RemotePhases \subseteq {"exit"}, LargeAtExit = FALSE
  PROVE  Spec => []HeapOK
<1>1. IInv => HeapOK
  BY HeapOKHolds
<1> QED BY <1>1, InvariantHolds, PTL

\* A run of pages handed out stays what it was until it is freed.
THEOREM RunsStayIntact ==
  ASSUME ConstantsOK, RemotePhases \subseteq {"exit"}, LargeAtExit = FALSE
  PROVE  Spec => []RunsIntact
<1>1. IInv => RunsIntact
  BY RunsIntactHolds
<1> QED BY <1>1, InvariantHolds, PTL

\* A live thread's lists hold exactly the page blocks of its superpages.
THEOREM ListsStayExact ==
  ASSUME ConstantsOK, RemotePhases \subseteq {"exit"}, LargeAtExit = FALSE
  PROVE  Spec => []ListsExact
<1>1. IInv => ListsExact
  BY ListsExactHolds
<1> QED BY <1>1, InvariantHolds, PTL

\* sp_list holds exactly the superpages its thread owns, each once.
THEOREM SuperpagesStayListed ==
  ASSUME ConstantsOK, RemotePhases \subseteq {"exit"}, LargeAtExit = FALSE
  PROVE  Spec => []SuperpagesListed
<1>1. IInv => SuperpagesListed
  BY SuperpagesListedHolds
<1> QED BY <1>1, InvariantHolds, PTL
=============================================================================
