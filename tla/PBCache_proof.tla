---------------------------- MODULE PBCache_proof --------------------------
(* The page block cache keeps page blocks of the right length, each in one *)
(* place, for every set of page blocks and lengths.                        *)
EXTENDS PBCache, SequenceTheorems, TLAPS

LEMMA TablesInRange ==
  /\ \A n \in 1 .. 128 : g_lru_table[n] \in Way
  /\ \A w \in Way : g_way_table[w + 1].set_bit \subseteq Bits
BY DEF g_lru_table, g_way_table, Way, NUM_PB_CACHE_WAY, Bits

LEMMA VictimInWay == \A S \in SUBSET Bits : Victim(S) \in Way
<1> SUFFICES ASSUME NEW S \in SUBSET Bits PROVE Victim(S) \in Way
  OBVIOUS
<1>1. Value(S) \in 0 .. 127
  BY DEF Value
<1> QED BY <1>1, TablesInRange DEF Victim

LEMMA UsedInBits ==
  \A S \in SUBSET Bits, w \in Way : Used(S, w) \in SUBSET Bits
BY TablesInRange DEF Used

(* What the list operations of the cache do to a list.                     *)
LEMMA PopFacts ==
  ASSUME NEW S, NEW s \in Seq(S), s # <<>>
  PROVE  /\ Tail(s) \in Seq(S) /\ Len(s) > 0 /\ Len(Tail(s)) = Len(s) - 1
         /\ Head(s) = s[1] /\ Head(s) \in S
         /\ \A i \in 1 .. Len(s) - 1 : Tail(s)[i] = s[i + 1]
BY HeadTailProperties, EmptySeq, ElementOfSeq

LEMMA PushFacts ==
  ASSUME NEW S, NEW s \in Seq(S), NEW b \in S
  PROVE  /\ <<b>> \o s \in Seq(S) /\ Len(<<b>> \o s) = Len(s) + 1
         /\ (<<b>> \o s)[1] = b
         /\ \A i \in 2 .. Len(s) + 1 : (<<b>> \o s)[i] = s[i - 1]
OBVIOUS

LEMMA Popped ==
  ASSUME NEW S, NEW s \in Seq(S), s # <<>>, NoRepeat(s)
  PROVE  /\ Head(s) \in Elems(s) /\ Elems(Tail(s)) = Elems(s) \ {Head(s)}
         /\ NoRepeat(Tail(s))
<1> DEFINE n == Len(s)
<1>1. n \in Nat /\ n > 0 /\ Len(Tail(s)) = n - 1 /\ Head(s) = s[1]
  BY PopFacts
<1>2. \A i \in 1 .. n - 1 : Tail(s)[i] = s[i + 1] /\ i + 1 \in 1 .. n
  BY <1>1, PopFacts
<1> HIDE DEF n
<1>3. \A i, j \in 1 .. n : s[i] = s[j] => i = j
  BY DEF NoRepeat, n
<1>4. Elems(s) = {s[i] : i \in 1 .. n}
  BY DEF Elems, n
<1>5. Elems(Tail(s)) = {Tail(s)[i] : i \in 1 .. n - 1}
  BY <1>1 DEF Elems
<1>6. ASSUME NEW i \in 1 .. n, s[i] # s[1]
      PROVE  s[i] \in {Tail(s)[j] : j \in 1 .. n - 1}
  <2>1. i - 1 \in 1 .. n - 1 /\ s[i] = s[(i - 1) + 1]
    BY <1>1, <1>6
  <2>2. s[i] = Tail(s)[i - 1]
    BY <1>2, <2>1
  <2> QED BY <2>1, <2>2
<1>7. ASSUME NEW i \in 1 .. n - 1
      PROVE  Tail(s)[i] \in {s[j] : j \in 1 .. n} \ {s[1]}
  BY <1>1, <1>2, <1>3
<1>8. NoRepeat(Tail(s))
  <2> SUFFICES ASSUME NEW i \in 1 .. n - 1, NEW j \in 1 .. n - 1,
                      Tail(s)[i] = Tail(s)[j]
               PROVE  i = j
    BY <1>1 DEF NoRepeat
  <2>1. i + 1 = j + 1
    BY <1>2, <1>3
  <2> QED BY <1>1, <2>1
<1> QED BY <1>1, <1>4, <1>5, <1>6, <1>7, <1>8

LEMMA Pushed ==
  ASSUME NEW S, NEW s \in Seq(S), NEW b \in S, NoRepeat(s), b \notin Elems(s)
  PROVE  Elems(<<b>> \o s) = Elems(s) \cup {b} /\ NoRepeat(<<b>> \o s)
<1> DEFINE n == Len(s)
<1>1. n \in Nat /\ Len(<<b>> \o s) = n + 1 /\ (<<b>> \o s)[1] = b
  BY PushFacts
<1> PICK e : e = <<b>> \o s
  OBVIOUS
<1>2. \A i \in 2 .. n + 1 : e[i] = s[i - 1] /\ i - 1 \in 1 .. n
  BY <1>1, PushFacts
<1> HIDE DEF n
<1>3. /\ Elems(s) = {s[i] : i \in 1 .. n}
      /\ \A i, j \in 1 .. n : s[i] = s[j] => i = j
  BY DEF Elems, NoRepeat, n
<1>4. Elems(e) = {e[i] : i \in 1 .. n + 1} /\ e[1] = b
  BY <1>1 DEF Elems
<1>5. ASSUME NEW i \in 1 .. n PROVE s[i] \in {e[j] : j \in 1 .. n + 1}
  <2>1. i + 1 \in 2 .. n + 1 /\ i + 1 \in 1 .. n + 1 /\ (i + 1) - 1 = i
    BY <1>1
  <2>2. e[i + 1] = s[i]
    BY <1>2, <2>1
  <2> QED BY <2>1, <2>2
<1>6. ASSUME NEW i \in 1 .. n + 1 PROVE e[i] \in {s[j] : j \in 1 .. n} \cup {b}
  <2>1. i = 1 \/ i \in 2 .. n + 1
    BY <1>1
  <2> QED BY <1>2, <1>4, <2>1
<1>7. 1 \in 1 .. n + 1
  BY <1>1
<1>8. ASSUME NEW i \in 1 .. n + 1, NEW j \in 1 .. n + 1, e[i] = e[j]
      PROVE  i = j
  <2>1. (i = 1 \/ i \in 2 .. n + 1) /\ (j = 1 \/ j \in 2 .. n + 1)
    BY <1>1
  <2>2. CASE i \in 2 .. n + 1 /\ j \in 2 .. n + 1
    <3>1. i - 1 = j - 1
      BY <1>2, <1>3, <1>8, <2>2
    <3> QED BY <1>1, <2>2, <3>1
  <2>3. ASSUME NEW k \in 2 .. n + 1 PROVE e[k] # b
    <3>1. e[k] = s[k - 1] /\ k - 1 \in 1 .. n
      BY <1>2
    <3> QED BY <1>3, <3>1
  <2> QED BY <1>4, <1>8, <2>1, <2>2, <2>3
<1>9. NoRepeat(e)
  BY <1>1, <1>8 DEF NoRepeat
<1>10. Elems(e) = Elems(s) \cup {b}
  <2>1. Elems(e) \subseteq Elems(s) \cup {b}
    BY <1>3, <1>4, <1>6
  <2>2. Elems(s) \subseteq Elems(e)
    <3>1. ASSUME NEW i \in 1 .. n PROVE s[i] \in Elems(e)
      BY <1>4, <1>5, Zenon
    <3> QED BY <1>3, <3>1, Zenon
  <2>3. b \in Elems(e)
    BY <1>4, <1>7
  <2> QED BY <2>1, <2>2, <2>3
<1> QED BY <1>9, <1>10, Zenon

LEMMA EmptyList == Elems(<<>>) = {} /\ NoRepeat(<<>>)
BY DEF Elems, NoRepeat

LEMMA OneElement ==
  ASSUME NEW b PROVE Elems(<<b>>) = {b} /\ NoRepeat(<<b>>)
BY DEF Elems, NoRepeat

(* Of the ways that compare equal the first one is taken.                  *)
LEMMA HitFacts ==
  ASSUME NEW l, Hits(l) # {}
  PROVE  HitIndex(l) \in Way /\ tag[HitIndex(l)] = l
<1>1. \E w \in Hits(l) : \A v \in Hits(l) : w <= v
  <2> Hits(l) \subseteq {0, 1, 2, 3, 4, 5, 6, 7}
    BY DEF Hits, Way, NUM_PB_CACHE_WAY
  <2> QED OBVIOUS
<1> QED BY <1>1 DEF HitIndex, Hits

----------------------------------------------------------------------------
LEMMA TypeStep == TypeOK /\ TagsDistinct /\ WaysExact /\ [Next]_vars => TypeOK'
<1> SUFFICES ASSUME TypeOK, WaysExact, [Next]_vars PROVE TypeOK'
  OBVIOUS
<1> DEFINE v == Victim(state)
<1>0. v \in Way /\ \A w \in Way : Used(state, w) \in SUBSET Bits
  BY VictimInWay, UsedInBits DEF TypeOK
<1>1. ASSUME NEW w \in Way
      PROVE  Returned(w) \in [PageBlock -> PageLen \cup {0}]
  BY DEF TypeOK, Returned
<1>2. ASSUME NEW l \in PageLen, MallocHit(l) PROVE TypeOK'
  <2> DEFINE w == HitIndex(l)
  <2>1. w \in Way
    BY <1>2, HitFacts DEF MallocHit
  <2>2. /\ Tail(data[w]) \in Seq(PageBlock) /\ Head(data[w]) \in PageBlock
        /\ length[w] - 1 \in Nat
    BY <1>2, <2>1, PopFacts DEF MallocHit, TypeOK, WaysExact
  <2> QED BY <1>0, <1>2, <2>1, <2>2 DEF MallocHit, TypeOK
<1>3. ASSUME NEW l \in PageLen, MallocHitEmpty(l) PROVE TypeOK'
  BY <1>0, <1>3, HitFacts DEF MallocHitEmpty, PbAlloc, TypeOK
<1>4. ASSUME NEW l \in PageLen, MallocMiss(l) PROVE TypeOK'
  <2>1. /\ state' = Used(state, v) /\ tag' = [tag EXCEPT ![v] = l]
        /\ \/ /\ data' = [data EXCEPT ![v] = <<>>]
              /\ length' = [length EXCEPT ![v] = 0]
           \/ UNCHANGED <<data, length>>
        /\ PbAlloc(Returned(v), l)
    BY <1>4 DEF MallocMiss
  <2>2. data' \in [Way -> Seq(PageBlock)] /\ length' \in [Way -> Nat]
    <3>1. PICK e \in Seq(PageBlock) : e = <<>>
      BY EmptySeq
    <3>2. data \in [Way -> Seq(PageBlock)] /\ length \in [Way -> Nat]
      BY DEF TypeOK
    <3>3. CASE /\ data' = [data EXCEPT ![v] = <<>>]
               /\ length' = [length EXCEPT ![v] = 0]
      <4>1. data' = [data EXCEPT ![v] = e]
        BY <3>1, <3>3
      <4> QED BY <3>2, <3>3, <4>1
    <3> QED BY <2>1, <3>2, <3>3
  <2>3. /\ state' \in SUBSET Bits /\ tag' \in [Way -> PageLen \cup {0}]
    BY <1>0, <2>1 DEF TypeOK
  <2>4. len' \in [PageBlock -> PageLen \cup {0}] /\ out' \subseteq PageBlock
    BY <1>0, <1>1, <2>1 DEF PbAlloc, TypeOK
  <2> QED BY <2>2, <2>3, <2>4 DEF TypeOK
<1>5. ASSUME NEW b \in PageBlock, LargeFree(b), FreeHit(b) PROVE TypeOK'
  <2> DEFINE w == HitIndex(len[b])
  <2>1. w \in Way
    BY <1>5, HitFacts DEF FreeHit
  <2>2. data[w] \in Seq(PageBlock) /\ length[w] + 1 \in Nat
    BY <2>1 DEF TypeOK
  <2>3. <<b>> \o data[w] \in Seq(PageBlock)
    BY <2>2, PushFacts
  <2>4. /\ data' \in [Way -> Seq(PageBlock)] /\ length' \in [Way -> Nat]
        /\ len' \in [PageBlock -> PageLen \cup {0}]
    BY <1>5, <2>1, <2>2, <2>3 DEF FreeHit, TypeOK
  <2> QED BY <1>0, <1>5, <2>1, <2>4 DEF LargeFree, FreeHit, TypeOK
<1>6. ASSUME NEW b \in PageBlock, LargeFree(b), FreeMiss(b) PROVE TypeOK'
  <2>1. len[b] \in PageLen \cup {0} /\ <<b>> \in Seq(PageBlock)
    BY DEF TypeOK
  <2>2. /\ data' \in [Way -> Seq(PageBlock)] /\ length' \in [Way -> Nat]
        /\ tag' \in [Way -> PageLen \cup {0}]
    BY <1>0, <1>6, <2>1 DEF FreeMiss, TypeOK
  <2> QED BY <1>0, <1>1, <1>6, <2>2 DEF LargeFree, FreeMiss, TypeOK
<1>7. CASE Clear
  BY <1>7, EmptySeq DEF Clear, TypeOK
<1>8. ASSUME NEW l \in PageLen, MallocElsewhere(l) PROVE TypeOK'
  BY <1>8 DEF MallocElsewhere, PbAlloc, TypeOK
<1>9. ASSUME NEW b \in PageBlock, FreeElsewhere(b) PROVE TypeOK'
  BY <1>9 DEF FreeElsewhere, TypeOK
<1>10. CASE UNCHANGED vars
  BY <1>10 DEF vars, TypeOK
<1> QED
  BY <1>2, <1>3, <1>4, <1>5, <1>6, <1>7, <1>8, <1>9, <1>10
     DEF Next, LargeMalloc, LargeFree

LEMMA TagsStep == TypeOK /\ TagsDistinct /\ [Next]_vars => TagsDistinct'
<1> SUFFICES ASSUME TypeOK, TagsDistinct, [Next]_vars PROVE TagsDistinct'
  OBVIOUS
<1>1. Victim(state) \in Way
  BY VictimInWay DEF TypeOK
<1>2. CASE UNCHANGED tag
  BY <1>2 DEF TagsDistinct
<1>3. ASSUME NEW l, Hits(l) = {}, tag' = [tag EXCEPT ![Victim(state)] = l]
      PROVE  TagsDistinct'
  BY <1>1, <1>3 DEF TagsDistinct, Hits, TypeOK
<1> QED
  BY <1>2, <1>3 DEF Next, LargeMalloc, LargeFree, MallocHit, MallocHitEmpty,
     MallocMiss, FreeHit, FreeMiss, Clear, MallocElsewhere, FreeElsewhere, vars

----------------------------------------------------------------------------
LEMMA Typed == TypeOK => \A w \in Way : InWay(w) \subseteq PageBlock
BY DEF TypeOK, InWay, Elems

LEMMA PlacedStep == IInv /\ [Next]_vars => PlacedOnce'
<1> SUFFICES ASSUME IInv, [Next]_vars PROVE PlacedOnce'
  OBVIOUS
<1> TypeOK /\ WaysExact /\ PlacedOnce
  BY DEF IInv
<1>0. Victim(state) \in Way
  BY VictimInWay DEF TypeOK
<1>1. ASSUME NEW l \in PageLen, MallocHit(l) PROVE PlacedOnce'
  <2> PICK w \in Way, s \in Seq(PageBlock) :
        /\ s = data[w] /\ s # <<>> /\ data' = [data EXCEPT ![w] = Tail(s)]
        /\ out' = out \cup {Head(s)} /\ len' = len
    BY <1>1, HitFacts DEF MallocHit, TypeOK
  <2> PICK h : h = Head(s)
    OBVIOUS
  <2>1. h \in InWay(w) /\ Elems(Tail(s)) = InWay(w) \ {h} /\ NoRepeat(Tail(s))
    BY Popped DEF PlacedOnce, InWay
  <2>2. /\ InWay(w)' = InWay(w) \ {h} /\ NoRepeat(data'[w])
        /\ \A v \in Way \ {w} : data'[v] = data[v] /\ InWay(v)' = InWay(v)
    BY <2>1 DEF TypeOK, InWay
  <2> QED BY <2>1, <2>2 DEF PlacedOnce
<1>2. ASSUME NEW l \in PageLen, PbAlloc(len, l), UNCHANGED data
      PROVE  PlacedOnce'
  <2> PICK b \in PageBlock :
        len[b] = 0 /\ len' = [len EXCEPT ![b] = l] /\ out' = out \cup {b}
    BY <1>2 DEF PbAlloc
  <2>1. l # 0 /\ \A w \in Way : InWay(w)' = InWay(w) /\ b \notin InWay(w)
    BY <1>2, PageLenAssumption DEF InWay, PlacedOnce
  <2> QED BY <1>2, <2>1 DEF PlacedOnce, TypeOK
<1>3. ASSUME NEW l \in PageLen, MallocMiss(l) PROVE PlacedOnce'
  <2> PICK w \in Way : w = Victim(state)
    BY <1>0
  <2>1. /\ \/ data' = [data EXCEPT ![w] = <<>>]
           \/ data[w] = <<>> /\ data' = data
        /\ PbAlloc(Returned(w), l)
    BY <1>3 DEF MallocMiss
  <2> PICK b \in PageBlock : /\ Returned(w)[b] = 0
                             /\ len' = [Returned(w) EXCEPT ![b] = l]
                             /\ out' = out \cup {b}
    BY <2>1 DEF PbAlloc
  <2>2. /\ InWay(w)' = {} /\ NoRepeat(data'[w])
        /\ \A v \in Way \ {w} : data'[v] = data[v] /\ InWay(v)' = InWay(v)
    BY <2>1, EmptyList DEF TypeOK, InWay
  <2>3. /\ l # 0 /\ \A v \in Way \ {w} : b \notin InWay(v)
        /\ len'[b] = l
        /\ \A c \in PageBlock \ {b} :
             len'[c] = IF c \in InWay(w) THEN 0 ELSE len[c]
    BY PageLenAssumption DEF PlacedOnce, Returned
  <2> QED BY <2>2, <2>3 DEF PlacedOnce
<1>4. ASSUME NEW b \in out, out' = out \ {b}, FreeHit(b) PROVE PlacedOnce'
  <2> PICK w \in Way, s \in Seq(PageBlock) :
        w = HitIndex(len[b]) /\ s = data[w]
    BY <1>4, HitFacts DEF FreeHit, TypeOK
  <2>1. b \in PageBlock /\ len[b] # 0 /\ b \notin InWay(w)
    BY DEF TypeOK, PlacedOnce
  <2>2. CASE data' = [data EXCEPT ![w] = <<b>> \o s] /\ len' = len
    <3>1. Elems(<<b>> \o s) = InWay(w) \cup {b} /\ NoRepeat(<<b>> \o s)
      BY <2>1, Pushed DEF InWay, PlacedOnce
    <3>2. /\ InWay(w)' = InWay(w) \cup {b} /\ NoRepeat(data'[w])
          /\ \A v \in Way \ {w} : data'[v] = data[v] /\ InWay(v)' = InWay(v)
      BY <2>2, <3>1 DEF TypeOK, InWay
    <3>3. \A c \in PageBlock :
            len'[c] # 0 <=> c \in out' \/ \E v \in Way : c \in InWay(v)'
      BY <1>4, <2>1, <2>2, <3>2 DEF PlacedOnce
    <3>4. \A v \in Way : InWay(v)' \cap out' = {} /\ NoRepeat(data'[v])
      BY <1>4, <2>1, <3>2 DEF PlacedOnce
    <3>5. \A u, v \in Way : u # v => InWay(u)' \cap InWay(v)' = {}
      BY <2>1, <3>2 DEF PlacedOnce
    <3> QED BY <3>3, <3>4, <3>5 DEF PlacedOnce
  <2>3. CASE len' = [len EXCEPT ![b] = 0] /\ data' = data
    BY <1>4, <2>1, <2>3 DEF PlacedOnce, TypeOK, InWay
  <2> QED BY <1>4, <2>2, <2>3 DEF FreeHit
<1>5. ASSUME NEW b \in out, out' = out \ {b}, FreeMiss(b) PROVE PlacedOnce'
  <2> PICK w \in Way : w = Victim(state)
    BY <1>0
  <2>1. data' = [data EXCEPT ![w] = <<b>>] /\ len' = Returned(w)
    BY <1>5 DEF FreeMiss
  <2>2. /\ InWay(w)' = {b} /\ NoRepeat(data'[w])
        /\ \A v \in Way \ {w} : data'[v] = data[v] /\ InWay(v)' = InWay(v)
    BY <2>1, OneElement DEF TypeOK, InWay
  <2>3. /\ b \in PageBlock /\ len[b] # 0 /\ \A v \in Way : b \notin InWay(v)
        /\ \A c \in PageBlock : len'[c] = IF c \in InWay(w) THEN 0 ELSE len[c]
    BY <2>1 DEF TypeOK, PlacedOnce, Returned
  <2> QED BY <1>5, <2>2, <2>3 DEF PlacedOnce
<1>6. CASE Clear
  <2>1. \A w \in Way : InWay(w)' = {} /\ NoRepeat(data'[w])
    BY <1>6, EmptyList DEF Clear, InWay
  <2> QED BY <1>6, <2>1 DEF Clear, PlacedOnce
<1>7. ASSUME NEW b \in PageBlock, FreeElsewhere(b) PROVE PlacedOnce'
  BY <1>7 DEF FreeElsewhere, PlacedOnce, TypeOK, InWay
<1>8. CASE UNCHANGED vars
  BY <1>8 DEF vars, PlacedOnce, InWay
<1> QED
  BY <1>1, <1>2, <1>3, <1>4, <1>5, <1>6, <1>7, <1>8
     DEF Next, LargeMalloc, LargeFree, MallocHitEmpty, MallocElsewhere

LEMMA WaysStep == IInv /\ [Next]_vars => WaysExact'
<1> SUFFICES ASSUME IInv, [Next]_vars PROVE WaysExact'
  OBVIOUS
<1> TypeOK /\ WaysExact /\ PlacedOnce
  BY DEF IInv
<1>0. Victim(state) \in Way
  BY VictimInWay DEF TypeOK
<1>1. ASSUME NEW l \in PageLen, MallocHit(l) PROVE WaysExact'
  <2> PICK w \in Way, s \in Seq(PageBlock) :
        /\ s = data[w] /\ s # <<>> /\ data' = [data EXCEPT ![w] = Tail(s)]
        /\ length' = [length EXCEPT ![w] = length[w] - 1]
        /\ len' = len /\ tag' = tag
    BY <1>1, HitFacts DEF MallocHit, TypeOK
  <2>1. Elems(Tail(s)) \subseteq InWay(w) /\ Len(Tail(s)) = Len(s) - 1
    BY Popped, PopFacts DEF PlacedOnce, InWay
  <2>2. /\ InWay(w)' \subseteq InWay(w) /\ Len(data'[w]) = length'[w]
        /\ length'[w] <= 2
        /\ \A v \in Way \ {w} : /\ data'[v] = data[v] /\ length'[v] = length[v]
                                 /\ InWay(v)' = InWay(v)
    BY <2>1 DEF TypeOK, InWay, WaysExact
  <2> QED BY <2>2 DEF WaysExact
<1>2. ASSUME NEW l \in PageLen, PbAlloc(len, l),
             UNCHANGED <<data, length, tag>>
      PROVE  WaysExact'
  <2> PICK b \in PageBlock : len[b] = 0 /\ len' = [len EXCEPT ![b] = l]
    BY <1>2 DEF PbAlloc
  <2>1. \A w \in Way : InWay(w)' = InWay(w) /\ b \notin InWay(w)
    BY <1>2 DEF InWay, PlacedOnce
  <2>2. \A w \in Way : \A c \in InWay(w) : len'[c] = len[c]
    BY <2>1, Typed DEF TypeOK
  <2> QED BY <1>2, <2>1, <2>2 DEF WaysExact
<1>3. ASSUME NEW l \in PageLen, MallocMiss(l) PROVE WaysExact'
  <2> PICK w \in Way : w = Victim(state)
    BY <1>0
  <2>1. /\ \/ /\ data' = [data EXCEPT ![w] = <<>>]
              /\ length' = [length EXCEPT ![w] = 0]
           \/ data[w] = <<>> /\ data' = data /\ length' = length
        /\ tag' = [tag EXCEPT ![w] = l] /\ PbAlloc(Returned(w), l)
    BY <1>3 DEF MallocMiss
  <2> PICK b \in PageBlock : /\ Returned(w)[b] = 0
                             /\ len' = [Returned(w) EXCEPT ![b] = l]
    BY <2>1 DEF PbAlloc
  <2>2. /\ InWay(w)' = {} /\ length'[w] = 0 /\ Len(data'[w]) = 0
        /\ \A v \in Way \ {w} : /\ data'[v] = data[v] /\ length'[v] = length[v]
                                 /\ tag'[v] = tag[v] /\ InWay(v)' = InWay(v)
    BY <2>1, EmptyList DEF TypeOK, InWay, WaysExact
  <2>3. \A v \in Way \ {w} : \A c \in InWay(v) : len'[c] = len[c]
    BY Typed DEF PlacedOnce, Returned
  <2> QED BY <2>2, <2>3 DEF WaysExact
<1>4. ASSUME NEW b \in out, out' = out \ {b}, FreeHit(b) PROVE WaysExact'
  <2> PICK w \in Way, s \in Seq(PageBlock) :
        w = HitIndex(len[b]) /\ s = data[w]
    BY <1>4, HitFacts DEF FreeHit, TypeOK
  <2>1. /\ b \in PageBlock /\ b \notin InWay(w)
        /\ tag[w] = len[b] /\ tag' = tag
    BY <1>4, HitFacts DEF FreeHit, TypeOK, PlacedOnce
  <2>2. CASE /\ length[w] < 2 /\ data' = [data EXCEPT ![w] = <<b>> \o s]
             /\ length' = [length EXCEPT ![w] = length[w] + 1] /\ len' = len
    <3>1. /\ Elems(<<b>> \o s) = InWay(w) \cup {b}
          /\ Len(<<b>> \o s) = Len(s) + 1
      BY <2>1, Pushed, PushFacts DEF InWay, PlacedOnce
    <3>2. data'[w] = <<b>> \o s /\ length'[w] = length[w] + 1
      BY <2>2 DEF TypeOK
    <3>3. InWay(w)' = InWay(w) \cup {b}
      BY <3>1, <3>2 DEF InWay
    <3>4. length[w] = Len(s) /\ length[w] \in Nat
      BY DEF WaysExact, TypeOK
    <3>5. Len(data'[w]) = length'[w] /\ length'[w] <= 2
      BY <2>2, <3>1, <3>2, <3>4
    <3>6. \A v \in Way \ {w} : /\ data'[v] = data[v] /\ length'[v] = length[v]
                               /\ InWay(v)' = InWay(v)
      BY <2>2 DEF TypeOK, InWay
    <3> QED BY <2>1, <2>2, <3>3, <3>5, <3>6 DEF WaysExact
  <2>3. CASE len' = [len EXCEPT ![b] = 0] /\ data' = data /\ length' = length
    <3>1. \A v \in Way : b \notin InWay(v) /\ InWay(v)' = InWay(v)
      BY <2>3 DEF PlacedOnce, InWay
    <3>2. \A v \in Way : \A c \in InWay(v) : len'[c] = len[c]
      BY <2>3, <3>1, Typed DEF TypeOK
    <3> QED BY <2>1, <2>3, <3>1, <3>2 DEF WaysExact
  <2> QED BY <1>4, <2>2, <2>3 DEF FreeHit
<1>5. ASSUME NEW b \in out, out' = out \ {b}, FreeMiss(b) PROVE WaysExact'
  <2> PICK w \in Way : w = Victim(state)
    BY <1>0
  <2>1. /\ data' = [data EXCEPT ![w] = <<b>>] /\ len' = Returned(w)
        /\ length' = [length EXCEPT ![w] = 1]
        /\ tag' = [tag EXCEPT ![w] = len[b]]
    BY <1>5 DEF FreeMiss
  <2>2. /\ InWay(w)' = {b} /\ length'[w] = 1 /\ Len(data'[w]) = 1
        /\ tag'[w] = len[b]
        /\ \A v \in Way \ {w} : /\ data'[v] = data[v] /\ length'[v] = length[v]
                                 /\ tag'[v] = tag[v] /\ InWay(v)' = InWay(v)
    BY <2>1, OneElement DEF TypeOK, InWay
  <2>3. /\ len'[b] = len[b]
        /\ \A v \in Way \ {w} : \A c \in InWay(v) : len'[c] = len[c]
    BY <2>1, Typed DEF PlacedOnce, Returned, TypeOK
  <2>4. /\ length'[w] = Len(data'[w]) /\ length'[w] <= 2
        /\ \A c \in InWay(w)' : len'[c] = tag'[w]
    BY <2>2, <2>3
  <2>5. \A v \in Way \ {w} : /\ length'[v] = Len(data'[v]) /\ length'[v] <= 2
                             /\ \A c \in InWay(v)' : len'[c] = tag'[v]
    BY <2>2, <2>3 DEF WaysExact
  <2>6. ASSUME NEW v \in Way
        PROVE  /\ length'[v] = Len(data'[v]) /\ length'[v] <= 2
               /\ \A c \in InWay(v)' : len'[c] = tag'[v]
    <3>1. CASE v = w
      BY <2>4, <3>1, Zenon
    <3> QED BY <2>5, <3>1
  <2> QED BY <2>6 DEF WaysExact
<1>6. CASE Clear
  <2>1. \A w \in Way : InWay(w)' = {} /\ Len(data'[w]) = 0 /\ length'[w] = 0
    BY <1>6, EmptyList DEF Clear, InWay
  <2> QED BY <2>1 DEF WaysExact
<1>7. ASSUME NEW b \in PageBlock, FreeElsewhere(b) PROVE WaysExact'
  <2>1. \A w \in Way : InWay(w)' = InWay(w) /\ b \notin InWay(w)
    BY <1>7 DEF FreeElsewhere, InWay, PlacedOnce
  <2>2. \A w \in Way : \A c \in InWay(w) : len'[c] = len[c]
    BY <1>7, <2>1, Typed DEF FreeElsewhere, TypeOK
  <2> QED BY <1>7, <2>1, <2>2 DEF FreeElsewhere, WaysExact
<1>8. CASE UNCHANGED vars
  BY <1>8 DEF vars, WaysExact, InWay
<1> QED
  BY <1>1, <1>2, <1>3, <1>4, <1>5, <1>6, <1>7, <1>8
     DEF Next, LargeMalloc, LargeFree, MallocHitEmpty, MallocElsewhere

----------------------------------------------------------------------------
LEMMA InvInit == Init => IInv
<1> SUFFICES ASSUME Init PROVE IInv
  OBVIOUS
<1>1. \A w \in Way : InWay(w) = {} /\ NoRepeat(data[w]) /\ Len(data[w]) = 0
  BY EmptyList DEF Init, InWay
<1>2. TypeOK
  BY EmptySeq DEF Init, TypeOK
<1> QED BY <1>1, <1>2 DEF Init, IInv, TagsDistinct, WaysExact, PlacedOnce

LEMMA InvStep == IInv /\ [Next]_vars => IInv'
BY TypeStep, TagsStep, WaysStep, PlacedStep DEF IInv

(* The inductive invariant of the cache: its parts need each other.        *)
THEOREM Inductive == Spec => []IInv
BY InvInit, InvStep, PTL DEF Spec

(* Every entry of the cache keeps its type: no way has a tag that is not a *)
(* length asked for, and no counter runs below zero.                       *)
THEOREM TypeCorrect == Spec => []TypeOK
<1>1. IInv => TypeOK
  BY DEF IInv
<1> QED BY Inductive, <1>1, PTL

(* Whatever a thread frees and allocates, no two ways are for one length.  *)
THEOREM OneWayPerLength == Spec => []TagsDistinct
<1>1. IInv => TagsDistinct
  BY DEF IInv
<1> QED BY Inductive, <1>1, PTL

(* large_malloc gives page blocks of the length that was asked for, and a  *)
(* way never holds more than two.                                          *)
THEOREM RightLength == Spec => []WaysExact
<1>1. IInv => WaysExact
  BY DEF IInv
<1> QED BY Inductive, <1>1, PTL

(* Eviction, a full way and the end of a thread lose no page block, and    *)
(* none is given out twice.                                                *)
THEOREM NothingLost == Spec => []PlacedOnce
<1>1. IInv => PlacedOnce
  BY DEF IInv
<1> QED BY Inductive, <1>1, PTL

----------------------------------------------------------------------------
(* The tables as the tree they stand for: bit 0 tells the halves of the    *)
(* ways, bits 1 and 2 the pairs of a half, bits 3 to 6 the ways of a pair. *)
Chosen(S) ==
  IF 0 \in S
  THEN IF 2 \in S THEN IF 6 \in S THEN 7 ELSE 6 ELSE IF 5 \in S THEN 5 ELSE 4
  ELSE IF 1 \in S THEN IF 4 \in S THEN 3 ELSE 2 ELSE IF 3 \in S THEN 1 ELSE 0

LEMMA VictimChosen == \A S \in SUBSET Bits : Victim(S) = Chosen(S)
<1> SUFFICES ASSUME NEW S \in SUBSET Bits PROVE Victim(S) = Chosen(S)
  OBVIOUS
<1>1. Value(S) =
        (IF 0 \in S THEN 1 ELSE 0) + (IF 1 \in S THEN 2 ELSE 0)
        + (IF 2 \in S THEN 4 ELSE 0) + (IF 3 \in S THEN 8 ELSE 0)
        + (IF 4 \in S THEN 16 ELSE 0) + (IF 5 \in S THEN 32 ELSE 0)
        + (IF 6 \in S THEN 64 ELSE 0)
  BY DEF Value
<1> QED BY <1>1 DEF Victim, Chosen, g_lru_table

(* A use of a way makes every bit on the way to it point elsewhere, and    *)
(* leaves the other bits alone.                                            *)
LEMMA UsedPoints ==
  ASSUME NEW S \in SUBSET Bits, NEW w \in Way
  PROVE  /\ 0 \in Used(S, w) <=> w \in 0 .. 3
         /\ 1 \in Used(S, w) <=> w \in 0 .. 1 \/ (w \notin 2 .. 3 /\ 1 \in S)
         /\ 2 \in Used(S, w) <=> w \in 4 .. 5 \/ (w \notin 6 .. 7 /\ 2 \in S)
         /\ 3 \in Used(S, w) <=> w = 0 \/ (w # 1 /\ 3 \in S)
         /\ 4 \in Used(S, w) <=> w = 2 \/ (w # 3 /\ 4 \in S)
         /\ 5 \in Used(S, w) <=> w = 4 \/ (w # 5 /\ 5 \in S)
         /\ 6 \in Used(S, w) <=> w = 6 \/ (w # 7 /\ 6 \in S)
<1>1. w \in {0, 1, 2, 3, 4, 5, 6, 7}
  BY DEF Way, NUM_PB_CACHE_WAY
<1> QED BY <1>1 DEF Used, g_way_table

(* The bits are a pseudo-LRU, whatever they were: after three uses of ways *)
(* the victim is another one.                                              *)
LEMMA RecentKept == KeepsRecent = SUBSET Bits
<1> SUFFICES ASSUME NEW S \in SUBSET Bits, NEW u \in Way, NEW v \in Way, NEW w \in Way
             PROVE  Victim(Used(Used(Used(S, u), v), w)) \notin {u, v, w}
  BY DEF KeepsRecent
<1> DEFINE S1 == Used(S, u)
           S2 == Used(S1, v)
           S3 == Used(S2, w)
<1>1. S1 \in SUBSET Bits /\ S2 \in SUBSET Bits /\ S3 \in SUBSET Bits
  BY UsedInBits
<1>2. u \in 0 .. 7 /\ v \in 0 .. 7 /\ w \in 0 .. 7
  BY DEF Way, NUM_PB_CACHE_WAY
<1>3. Victim(S3) = Chosen(S3)
  BY <1>1, VictimChosen
<1> HIDE DEF S1, S2, S3
<1>4. /\ 0 \in S3 <=> w \in 0 .. 3
      /\ 1 \in S3 <=> w \in 0 .. 1 \/ (w \notin 2 .. 3 /\ 1 \in S2)
      /\ 2 \in S3 <=> w \in 4 .. 5 \/ (w \notin 6 .. 7 /\ 2 \in S2)
      /\ 3 \in S3 <=> w = 0 \/ (w # 1 /\ 3 \in S2)
      /\ 4 \in S3 <=> w = 2 \/ (w # 3 /\ 4 \in S2)
      /\ 5 \in S3 <=> w = 4 \/ (w # 5 /\ 5 \in S2)
      /\ 6 \in S3 <=> w = 6 \/ (w # 7 /\ 6 \in S2)
  BY <1>1, UsedPoints DEF S3
<1>5. /\ 1 \in S2 <=> v \in 0 .. 1 \/ (v \notin 2 .. 3 /\ 1 \in S1)
      /\ 2 \in S2 <=> v \in 4 .. 5 \/ (v \notin 6 .. 7 /\ 2 \in S1)
      /\ 3 \in S2 <=> v = 0 \/ (v # 1 /\ 3 \in S1)
      /\ 4 \in S2 <=> v = 2 \/ (v # 3 /\ 4 \in S1)
      /\ 5 \in S2 <=> v = 4 \/ (v # 5 /\ 5 \in S1)
      /\ 6 \in S2 <=> v = 6 \/ (v # 7 /\ 6 \in S1)
  BY <1>1, UsedPoints DEF S2
<1>6. /\ 1 \in S1 <=> u \in 0 .. 1 \/ (u \notin 2 .. 3 /\ 1 \in S)
      /\ 2 \in S1 <=> u \in 4 .. 5 \/ (u \notin 6 .. 7 /\ 2 \in S)
      /\ 3 \in S1 <=> u = 0 \/ (u # 1 /\ 3 \in S)
      /\ 4 \in S1 <=> u = 2 \/ (u # 3 /\ 4 \in S)
      /\ 5 \in S1 <=> u = 4 \/ (u # 5 /\ 5 \in S)
      /\ 6 \in S1 <=> u = 6 \/ (u # 7 /\ 6 \in S)
  BY UsedPoints DEF S1
<1>7. Chosen(S3) \notin {u, v, w}
  BY <1>2, <1>4, <1>5, <1>6 DEF Chosen
<1> QED BY <1>3, <1>7 DEF S1, S2, S3

(* The way that the next miss empties is none of those that the last three *)
(* calls used (of large_malloc and large_free, and the constant tables     *)
(* they read): the three uses may follow any state that is reached.        *)
THEOREM RecentStays == Spec => []VictimNotRecent
<1>1. IInv => VictimNotRecent
  BY RecentKept DEF IInv, TypeOK, VictimNotRecent
<1> QED BY Inductive, <1>1, PTL
=============================================================================
