-------------------------- MODULE HazardPtr_proof --------------------------
(* Theorems about HazardPtr, for every number of threads, superpages and   *)
(* hazard pointers to a page.                                              *)
EXTENDS HazardPtr, FiniteSetTheorems, TLAPS

----------------------------------------------------------------------------
(* The inductive invariant                                                 *)

Linking   == {"link", "cas"}              \* its page is not on the list yet
Searching == {"walk", "xchg", "map"}      \* it may still map a page
Settled   == {"add", "idle", "set", "work", "clr", "scan", "node"}
Walking   == {"walk", "xchg", "dec", "scan", "node"}
Keeping   == Linking \cup Settled
PcValues  == {"off", "inc"} \cup Searching \cup Walking \cup Keeping

Types ==
  /\ head \in Hp \cup {NULL} /\ num_free \in Int /\ mapped \in Nat
  /\ hpnext \in [Hp -> Hp \cup {NULL}] /\ active \in [Hp -> {0, 1}]
  /\ count \in [Hp -> {0, 1}] /\ node \in [Hp -> Superpage \cup {NULL}]
  /\ g_id \in Nat \ {0} /\ thread_id \in [Thread -> Nat]
  /\ pc \in [Thread -> PcValues]
  /\ hazard_ptr \in [Thread -> Hp \cup {NULL}]
  /\ hp \in [Thread -> Hp \cup {NULL}] /\ top \in [Thread -> Hp \cup {NULL}]
  /\ sph \in [Thread -> Superpage \cup {NULL}]
  /\ set_all_along \in [Thread -> SUBSET Thread]

\* A thread maps one page at most, before it is through with its start: there
\* are as many hazard pointers as Hp says, and those not mapped are inactive.
Mapped == HPS_PER_PAGE * mapped

PagesFit ==
  /\ g_id <= MAX_NUM_THREADS
  /\ mapped + Cardinality({t \in Thread : pc[t] \in Searching}) <= g_id - 1
  /\ \A h \in Hp : h > Mapped => active[h] = 0

\* The hazard pointer a thread has taken and not given back.
Owns(t) == pc[t] \in Keeping \cup {"dec"}
Own(t)  == IF pc[t] = "dec" THEN hp[t] ELSE hazard_ptr[t]

OwnOK(t) ==
  /\ hazard_ptr[t] # NULL <=> pc[t] \in Keeping \cup {"inc"}
  /\ Owns(t) => active[Own(t)] = 1
  /\ pc[t] \in Settled => hazard_ptr[t] \in Known
  /\ hp[t] \in Known \cup {NULL} /\ top[t] \in Known \cup {NULL}
  /\ hp[t] # NULL => pc[t] \in Walking
  /\ pc[t] \in {"xchg", "dec", "node"} => hp[t] # NULL

\* A page that is not on the list yet: a chain of inactive ones after the
\* thread's own.
PageOK(t) ==
  LET f == hazard_ptr[t]
  IN /\ PageAt(f) \subseteq 1 .. Mapped
     /\ \A h \in PageAt(f) \ {f} : active[h] = 0
     /\ \A h \in PageAt(f) \ {Last(f)} : hpnext[h] = h + 1
     /\ pc[t] = "cas" => hpnext[Last(f)] = top[t]

Apart ==
  \A t, u \in Thread : t # u =>
    /\ Owns(t) /\ Owns(u) => Own(t) # Own(u)
    /\ pc[t] \in Linking /\ pc[u] \in Linking =>
         PageAt(hazard_ptr[t]) \cap PageAt(hazard_ptr[u]) = {}
    /\ thread_id[t] # thread_id[u] \/ thread_id[t] = 0

\* What a scan relies on.
SetOK(t) ==
  /\ pc[t] \in {"set", "work", "clr"} => count[hazard_ptr[t]] = 1
  /\ pc[t] = "work" => node[hazard_ptr[t]] = sph[t]
  /\ \A u \in set_all_along[t] :
       pc[t] \in {"scan", "node"} /\ IsSet(u, sph[t])

\* From the end of the list on, rank numbers the n hazard pointers that are on
\* it; and a scan is not past those that it has to see.
Ordered(rank, n) ==
  /\ \A h \in Known : rank[h] \in 1 .. n
  /\ \A i \in 1 .. n : \E h \in Known : rank[h] = i
  /\ \A h, k \in Known : rank[h] = rank[k] => h = k
  /\ IF n = 0 THEN head = NULL ELSE head \in Known /\ rank[head] = n
  /\ \A h \in Known :
       IF rank[h] = 1 THEN hpnext[h] = NULL
       ELSE hpnext[h] \in Known /\ rank[hpnext[h]] = rank[h] - 1

Ahead(rank) ==
  \A t \in Thread : \A u \in set_all_along[t] :
    hp[t] # NULL /\ rank[hazard_ptr[u]] <= rank[hp[t]]

ThreadsOK ==
  \A t \in Thread :
    /\ OwnOK(t) /\ SetOK(t)
    /\ pc[t] \in Linking => PageOK(t)
    /\ thread_id[t] < g_id

Chain == \E n \in Nat : \E rank \in [Hp -> Nat] : Ordered(rank, n) /\ Ahead(rank)

IInv == Types /\ PagesFit /\ ThreadsOK /\ Apart /\ Chain /\ FreeCounted

----------------------------------------------------------------------------
(* Pages and the list as a set                                             *)

(* A number of pages below the bound is within Hp.                         *)
LEMMA PagesWithin ==
  ASSUME ConstantsOK, NEW m \in Nat, m <= MAX_NUM_THREADS - 1
  PROVE  1 .. HPS_PER_PAGE * m \subseteq Hp
<1>1. HPS_PER_PAGE * m <= HPS_PER_PAGE * (MAX_NUM_THREADS - 1)
  BY DEF ConstantsOK
<1> QED BY <1>1 DEF Hp, ConstantsOK

(* All hazard pointers mapped are in Hp, and so is the page that a         *)
(* searching thread maps next.                                             *)
LEMMA MappedWithin ==
  ASSUME ConstantsOK, Types, PagesFit
  PROVE  /\ Mapped \in Nat /\ 1 .. Mapped \subseteq Hp /\ Known \subseteq 1 .. Mapped
         /\ \A t \in Thread : pc[t] \in Searching =>
              /\ PageAt(Mapped + 1) \subseteq Hp
              /\ mapped + 1 <= MAX_NUM_THREADS - 1
<1> DEFINE S == {t \in Thread : pc[t] \in Searching}
<1>1. IsFiniteSet(S) /\ Cardinality(S) \in Nat
  <2>1. IsFiniteSet(S)
    BY FS_Subset DEF ConstantsOK
  <2> QED BY <2>1, FS_CardinalityType
<1>2. mapped + Cardinality(S) <= g_id - 1 /\ g_id <= MAX_NUM_THREADS
  BY DEF PagesFit
<1> HIDE DEF S
<1>3. mapped \in Nat /\ g_id \in Nat /\ mapped <= MAX_NUM_THREADS - 1
  BY <1>1, <1>2 DEF Types, ConstantsOK
<1>4. Mapped \in Nat
  BY <1>3 DEF Mapped, ConstantsOK
<1>5. 1 .. Mapped \subseteq Hp
  BY <1>3, PagesWithin DEF Mapped
<1>6. Known \subseteq 1 .. Mapped
  BY DEF Known, Mapped
<1>7. ASSUME NEW t \in Thread, pc[t] \in Searching
      PROVE  PageAt(Mapped + 1) \subseteq Hp /\ mapped + 1 <= MAX_NUM_THREADS - 1
  <2>1. S # {}
    BY <1>7 DEF S
  <2>2. Cardinality(S) >= 1
    BY <1>1, <2>1, FS_EmptySet
  <2>3. mapped + 1 <= MAX_NUM_THREADS - 1
    BY <1>1, <1>2, <1>3, <2>2 DEF ConstantsOK
  <2>4. 1 .. HPS_PER_PAGE * (mapped + 1) \subseteq Hp
    BY <2>3, <1>3, PagesWithin
  <2>5. PageAt(Mapped + 1) \subseteq 1 .. HPS_PER_PAGE * (mapped + 1)
    BY <1>3 DEF PageAt, Last, Mapped, ConstantsOK
  <2> QED BY <2>3, <2>4, <2>5
<1> QED BY <1>4, <1>5, <1>6, <1>7

(* The page that a searching thread maps.                                  *)
LEMMA NewPage ==
  ASSUME ConstantsOK, Types, PagesFit, NEW t \in Thread, MapPage(t),
         NEW f, f = mapped * HPS_PER_PAGE + 1
  PROVE  /\ f \in Hp /\ f = Mapped + 1 /\ PageAt(f) \subseteq Hp /\ f \in PageAt(f)
         /\ \A h \in PageAt(f) : h \in Nat /\ h > Mapped /\ h <= Mapped'
         /\ \A h \in PageAt(f) \ {Last(f)} : h + 1 \in PageAt(f)
         /\ Mapped \in Nat /\ Mapped' = Mapped + HPS_PER_PAGE
<1>1. mapped \in Nat /\ HPS_PER_PAGE \in Nat \ {0}
  BY DEF Types, ConstantsOK
<1>2. f = Mapped + 1 /\ Mapped \in Nat
  BY <1>1 DEF Mapped
<1>3. Mapped' = Mapped + HPS_PER_PAGE
  BY <1>1 DEF MapPage, Mapped
<1>4. PageAt(f) \subseteq Hp
  BY <1>2, MappedWithin DEF MapPage, Goto, Searching
<1>5. \A h \in PageAt(f) : h \in Nat /\ h > Mapped /\ h <= Mapped'
  BY <1>1, <1>2, <1>3 DEF PageAt, Last
<1>6. \A h \in PageAt(f) \ {Last(f)} : h + 1 \in PageAt(f)
  BY <1>1, <1>2 DEF PageAt, Last
<1>7. f \in PageAt(f)
  BY <1>1, <1>2 DEF PageAt, Last
<1> QED BY <1>2, <1>3, <1>4, <1>5, <1>6, <1>7

LEMMA TypesStep ==
  ASSUME ConstantsOK, Types, PagesFit, ThreadsOK, [Next]_vars
  PROVE  Types'
<1> \A u \in Thread : OwnOK(u)
  BY DEF ThreadsOK
<1> NULL \notin Hp
  BY DEF Hp, ConstantsOK
<1>1. ASSUME NEW t \in Thread, Start(t) PROVE Types'
  BY <1>1 DEF Start, Goto, listVars, nodeVars, Types, OwnOK, PcValues, Keeping, Settled, Linking, Searching, Walking
<1>2. ASSUME NEW t \in Thread, Walk(t) PROVE Types'
  BY <1>2 DEF Walk, Goto, listVars, nodeVars, Types, OwnOK, PcValues, Keeping, Settled, Linking, Searching, Walking
<1>3. ASSUME NEW t \in Thread, Xchg(t) PROVE Types'
  BY <1>3 DEF Xchg, Goto, listVars, nodeVars, Types, OwnOK, PcValues, Keeping, Settled, Linking, Searching, Walking
<1>4. ASSUME NEW t \in Thread, Take(t) PROVE Types'
  BY <1>4 DEF Take, Goto, listVars, nodeVars, Types, OwnOK, PcValues, Keeping, Settled, Linking, Searching, Walking
<1>5. ASSUME NEW t \in Thread, MapPage(t) PROVE Types'
  <2> DEFINE f == mapped * HPS_PER_PAGE + 1
  <2>1. /\ f \in Hp
        /\ \A h \in PageAt(f) \ {Last(f)} : h + 1 \in Hp
    BY <1>5, NewPage
  <2>2. /\ mapped' = mapped + 1
        /\ active' = [active EXCEPT ![f] = 1]
        /\ hpnext' = [h \in Hp |-> IF h \in PageAt(f) \ {Last(f)}
                                   THEN h + 1 ELSE hpnext[h]]
        /\ hazard_ptr' = [hazard_ptr EXCEPT ![t] = f]
        /\ pc' = [pc EXCEPT ![t] = "link"]
        /\ UNCHANGED <<head, num_free, nodeVars, g_id, thread_id, hp, top, sph,
                       set_all_along>>
    BY <1>5 DEF MapPage, Goto
  <2> HIDE DEF f
  <2>3. hpnext' \in [Hp -> Hp \cup {NULL}]
    BY <2>1, <2>2 DEF Types
  <2>4. active' \in [Hp -> {0, 1}] /\ hazard_ptr' \in [Thread -> Hp \cup {NULL}]
    BY <2>1, <2>2 DEF Types
  <2> QED BY <2>2, <2>3, <2>4 DEF Types, nodeVars, PcValues, Keeping, Linking
<1>6. ASSUME NEW t \in Thread, LinkPage(t) PROVE Types'
  BY <1>6 DEF LinkPage, Goto, listVars, nodeVars, Types, OwnOK, PcValues, Keeping, Settled, Linking, Searching, Walking
<1>7. ASSUME NEW t \in Thread, CasPage(t) PROVE Types'
  BY <1>7 DEF CasPage, Goto, listVars, nodeVars, Types, OwnOK, PcValues, Keeping, Settled, Linking, Searching, Walking
<1>8. ASSUME NEW t \in Thread, AddFree(t) PROVE Types'
  BY <1>8 DEF AddFree, Goto, listVars, nodeVars, Types, OwnOK, PcValues, Keeping, Settled, Linking, Searching, Walking
<1>9. ASSUME NEW t \in Thread, NEW s \in Superpage, SetCount(t, s) PROVE Types'
  BY <1>9 DEF SetCount, Goto, listVars, nodeVars, Types, OwnOK, PcValues, Keeping, Settled, Linking, Searching, Walking
<1>10. ASSUME NEW t \in Thread, SetNode(t) PROVE Types'
  BY <1>10 DEF SetNode, Goto, listVars, nodeVars, Types, OwnOK, PcValues, Keeping, Settled, Linking, Searching, Walking
<1>11. ASSUME NEW t \in Thread, ClrNode(t) PROVE Types'
  BY <1>11 DEF ClrNode, Goto, listVars, nodeVars, Types, OwnOK, PcValues, Keeping, Settled, Linking, Searching, Walking
<1>12. ASSUME NEW t \in Thread, ClrCount(t) PROVE Types'
  BY <1>12 DEF ClrCount, Goto, listVars, nodeVars, Types, OwnOK, PcValues, Keeping, Settled, Linking, Searching, Walking
<1>13. ASSUME NEW t \in Thread, NEW s \in Superpage, Scan(t, s) PROVE Types'
  BY <1>13 DEF Scan, Goto, listVars, nodeVars, Types, OwnOK, PcValues, Keeping, Settled, Linking, Searching, Walking
<1>14. ASSUME NEW t \in Thread, ScanCount(t) PROVE Types'
  BY <1>14 DEF ScanCount, Goto, listVars, nodeVars, Types, OwnOK, PcValues, Keeping, Settled, Linking, Searching, Walking
<1>15. ASSUME NEW t \in Thread, ScanNode(t) PROVE Types'
  BY <1>15 DEF ScanNode, Goto, listVars, nodeVars, Types, OwnOK, PcValues, Keeping, Settled, Linking, Searching, Walking
<1>16. ASSUME NEW t \in Thread, ScanFalse(t) PROVE Types'
  BY <1>16 DEF ScanFalse, Goto, listVars, nodeVars, Types, OwnOK, PcValues, Keeping, Settled, Linking, Searching, Walking
<1>17. ASSUME NEW t \in Thread, FreeActive(t) PROVE Types'
  BY <1>17 DEF FreeActive, Goto, listVars, nodeVars, Types, OwnOK, PcValues, Keeping, Settled, Linking, Searching, Walking
<1>18. ASSUME NEW t \in Thread, FreeInc(t) PROVE Types'
  BY <1>18 DEF FreeInc, Goto, listVars, nodeVars, Types, OwnOK, PcValues, Keeping, Settled, Linking, Searching, Walking
<1>19. CASE UNCHANGED vars
  BY <1>19 DEF vars, listVars, nodeVars, thrVars, Types
<1> QED BY <1>1, <1>2, <1>3, <1>4, <1>5, <1>6, <1>7, <1>8, <1>9, <1>10, <1>11, <1>12, <1>13, <1>14, <1>15, <1>16, <1>17, <1>18, <1>19 DEF Next

(***************************************************************************)
(* How the list's set of hazard pointers changes                           *)
(***************************************************************************)
LEMMA KnownSame ==
  ASSUME mapped' = mapped,
         \A u \in Thread : pc'[u] \in Linking <=> pc[u] \in Linking,
         \A u \in Thread : pc[u] \in Linking => hazard_ptr'[u] = hazard_ptr[u]
  PROVE  Known' = Known
<1>1. (Threads("link") \cup Threads("cas"))' = Threads("link") \cup Threads("cas")
  BY DEF Threads, Linking
<1>2. \A u \in Threads("link") \cup Threads("cas") : hazard_ptr'[u] = hazard_ptr[u]
  BY DEF Threads, Linking
<1> QED BY <1>1, <1>2 DEF Known, PageAt, Last

(* A page just mapped is not on the list.                                  *)
LEMMA KnownMap ==
  ASSUME ConstantsOK, Types, PagesFit, NEW t \in Thread, MapPage(t)
  PROVE  Known' = Known
<1> DEFINE f == mapped * HPS_PER_PAGE + 1
           L == Threads("link") \cup Threads("cas")
<1>1. /\ f = Mapped + 1 /\ Mapped' = Mapped + HPS_PER_PAGE /\ Mapped \in Nat
      /\ \A h \in PageAt(f) : h > Mapped
  BY NewPage
<1>2. hazard_ptr' = [hazard_ptr EXCEPT ![t] = f] /\ pc[t] = "map"
      /\ pc' = [pc EXCEPT ![t] = "link"]
  BY DEF MapPage, Goto
<1>3. PageAt(f) = Mapped + 1 .. Mapped'
  BY <1>1 DEF PageAt, Last, ConstantsOK
<1>4. L' = L \cup {t} /\ t \notin L /\ L \subseteq Thread
  BY <1>2 DEF Threads, Types
<1>5. \A u \in L : hazard_ptr'[u] = hazard_ptr[u]
  BY <1>2, <1>4 DEF Types
<1>6. hazard_ptr'[t] = f
  BY <1>2 DEF Types
<1> HIDE DEF f, L
<1>7. Known' = {h \in 1 .. Mapped' : \A u \in L' : h \notin PageAt(hazard_ptr'[u])}
  BY DEF Known, Mapped, L, PageAt, Last
<1>8. Known = {h \in 1 .. Mapped : \A u \in L : h \notin PageAt(hazard_ptr[u])}
  BY DEF Known, Mapped, L
<1>9. Mapped' \in Nat /\ Mapped' >= Mapped
  BY <1>1 DEF ConstantsOK
<1>10. ASSUME NEW h \in Known' PROVE h \in Known
  <2>1. h \in 1 .. Mapped' /\ h \notin PageAt(f)
    BY <1>7, <1>4, <1>6, <1>10
  <2>2. h \in 1 .. Mapped
    BY <2>1, <1>3, <1>1, <1>9
  <2> QED BY <1>7, <1>8, <1>4, <1>5, <1>10, <2>2
<1>11. ASSUME NEW h \in Known PROVE h \in Known'
  <2>1. h \in 1 .. Mapped' /\ h \notin PageAt(f)
    BY <1>8, <1>11, <1>3, <1>1, <1>9
  <2> QED BY <1>7, <1>8, <1>4, <1>5, <1>6, <1>11, <2>1
<1> QED BY <1>10, <1>11

(* The list grows by the page that a thread puts on it.                    *)
LEMMA KnownCas ==
  ASSUME ConstantsOK, Types, ThreadsOK, Apart, NEW t \in Thread, CasPage(t)
  PROVE  Known' = IF head = top[t] THEN Known \cup PageAt(hazard_ptr[t]) ELSE Known
<1> DEFINE L == Threads("link") \cup Threads("cas")
<1>1. mapped' = mapped /\ hazard_ptr' = hazard_ptr /\ pc[t] = "cas"
      /\ pc' = [pc EXCEPT ![t] = IF head = top[t] THEN "add" ELSE "link"]
  BY DEF CasPage, Goto
<1>2. CASE head # top[t]
  BY <1>1, <1>2, KnownSame DEF Types, Linking
<1>3. CASE head = top[t]
  <2>1. L' = L \ {t} /\ t \in L /\ L \subseteq Thread
    BY <1>1, <1>3 DEF Threads, Types
  <2>2. \A u \in L : pc[u] \in Linking
    BY DEF Threads, Linking
  <2>3. PageAt(hazard_ptr[t]) \subseteq 1 .. Mapped
    BY <2>1, <2>2 DEF ThreadsOK, PageOK
  <2>4. \A u \in L \ {t} : PageAt(hazard_ptr[t]) \cap PageAt(hazard_ptr[u]) = {}
    BY <2>1, <2>2 DEF Apart
  <2> HIDE DEF L
  <2>5. Known' = {h \in 1 .. Mapped : \A u \in L' : h \notin PageAt(hazard_ptr[u])}
    BY <1>1 DEF Known, Mapped, L, PageAt, Last
  <2>6. Known = {h \in 1 .. Mapped : \A u \in L : h \notin PageAt(hazard_ptr[u])}
    BY DEF Known, Mapped, L
  <2> QED BY <1>3, <2>1, <2>3, <2>4, <2>5, <2>6
<1> QED BY <1>2, <1>3

LEMMA OwnInPage ==
  ASSUME ConstantsOK, NEW h \in Hp
  PROVE  h \in PageAt(h) /\ Last(h) \in PageAt(h) /\ PageAt(h) \subseteq Nat
BY DEF Hp, PageAt, Last, ConstantsOK

(* Every other step leaves it alone.                                       *)
Elsewhere(t) ==
  \/ Start(t) \/ Walk(t) \/ Xchg(t) \/ Take(t) \/ LinkPage(t) \/ AddFree(t)
  \/ \E s \in Superpage : SetCount(t, s) \/ Scan(t, s)
  \/ SetNode(t) \/ ClrNode(t) \/ ClrCount(t)
  \/ ScanCount(t) \/ ScanNode(t) \/ ScanFalse(t)
  \/ FreeActive(t) \/ FreeInc(t)

LEMMA KnownElsewhere ==
  ASSUME Types, NEW t \in Thread, Elsewhere(t)
  PROVE  Known' = Known /\ mapped' = mapped
<1>1. /\ mapped' = mapped
      /\ \A u \in Thread : u # t => pc'[u] = pc[u] /\ hazard_ptr'[u] = hazard_ptr[u]
      /\ pc'[t] \in Linking <=> pc[t] \in Linking
      /\ pc[t] \in Linking => hazard_ptr'[t] = hazard_ptr[t]
  <2>1. CASE Start(t)
    BY <2>1 DEF Start, Goto, listVars, nodeVars, Types, Linking
  <2>2. CASE Walk(t)
    BY <2>2 DEF Walk, Goto, listVars, nodeVars, Types, Linking
  <2>3. CASE Xchg(t)
    BY <2>3 DEF Xchg, Goto, listVars, nodeVars, Types, Linking
  <2>4. CASE Take(t)
    BY <2>4 DEF Take, Goto, listVars, nodeVars, Types, Linking
  <2>5. CASE LinkPage(t)
    BY <2>5 DEF LinkPage, Goto, listVars, nodeVars, Types, Linking
  <2>6. CASE AddFree(t)
    BY <2>6 DEF AddFree, Goto, listVars, nodeVars, Types, Linking
  <2>7. CASE \E s \in Superpage : SetCount(t, s)
    BY <2>7 DEF SetCount, Goto, listVars, nodeVars, Types, Linking
  <2>8. CASE SetNode(t)
    BY <2>8 DEF SetNode, Goto, listVars, nodeVars, Types, Linking
  <2>9. CASE ClrNode(t)
    BY <2>9 DEF ClrNode, Goto, listVars, nodeVars, Types, Linking
  <2>10. CASE ClrCount(t)
    BY <2>10 DEF ClrCount, Goto, listVars, nodeVars, Types, Linking
  <2>11. CASE \E s \in Superpage : Scan(t, s)
    BY <2>11 DEF Scan, Goto, listVars, nodeVars, Types, Linking
  <2>12. CASE ScanCount(t)
    BY <2>12 DEF ScanCount, Goto, listVars, nodeVars, Types, Linking
  <2>13. CASE ScanNode(t)
    BY <2>13 DEF ScanNode, Goto, listVars, nodeVars, Types, Linking
  <2>14. CASE ScanFalse(t)
    BY <2>14 DEF ScanFalse, Goto, listVars, nodeVars, Types, Linking
  <2>15. CASE FreeActive(t)
    BY <2>15 DEF FreeActive, Goto, listVars, nodeVars, Types, Linking
  <2>16. CASE FreeInc(t)
    BY <2>16 DEF FreeInc, Goto, listVars, nodeVars, Types, Linking
  <2> QED BY <2>1, <2>2, <2>3, <2>4, <2>5, <2>6, <2>7, <2>8, <2>9, <2>10, <2>11, <2>12, <2>13, <2>14, <2>15, <2>16 DEF Elsewhere
<1> QED BY <1>1, KnownSame

(***************************************************************************)
(* The steps keep the invariant                                            *)
(***************************************************************************)
LEMMA SearchersStep ==
  ASSUME ConstantsOK, Types, PagesFit, NEW t \in Thread,
         Elsewhere(t) \/ MapPage(t) \/ CasPage(t)
  PROVE  /\ g_id' <= MAX_NUM_THREADS
         /\ mapped' + Cardinality({u \in Thread : pc'[u] \in Searching}) <= g_id' - 1
<1> DEFINE S == {u \in Thread : pc[u] \in Searching}
           S1 == {u \in Thread : pc'[u] \in Searching}
<1>1. IsFiniteSet(S) /\ Cardinality(S) \in Nat
  <2>1. IsFiniteSet(S)
    BY FS_Subset DEF ConstantsOK
  <2> QED BY <2>1, FS_CardinalityType
<1>2. mapped + Cardinality(S) <= g_id - 1 /\ g_id <= MAX_NUM_THREADS
  BY DEF PagesFit
<1>3. mapped \in Nat /\ g_id \in Nat /\ MAX_NUM_THREADS \in Nat
  BY DEF Types, ConstantsOK
<1>4. CASE Start(t)
  <2>1. S1 = S \cup {t} /\ t \notin S
    BY <1>4 DEF Start, Goto, Types, Searching
  <2>2. g_id' = g_id + 1 /\ g_id < MAX_NUM_THREADS /\ mapped' = mapped
    BY <1>4 DEF Start, listVars
  <2> HIDE DEF S, S1
  <2>3. Cardinality(S1) = Cardinality(S) + 1
    BY <2>1, <1>1, FS_AddElement
  <2>4. g_id' <= MAX_NUM_THREADS /\ mapped' + Cardinality(S1) <= g_id' - 1
    BY <2>2, <2>3, <1>1, <1>2, <1>3
  <2> QED BY <2>4 DEF S1
<1>5. CASE MapPage(t)
  <2>1. S1 = S \ {t} /\ t \in S
    BY <1>5 DEF MapPage, Goto, Types, Searching
  <2>2. g_id' = g_id /\ mapped' = mapped + 1
    BY <1>5 DEF MapPage
  <2> HIDE DEF S, S1
  <2>3. Cardinality(S1) = Cardinality(S) - 1
    BY <2>1, <1>1, FS_RemoveElement
  <2>4. g_id' <= MAX_NUM_THREADS /\ mapped' + Cardinality(S1) <= g_id' - 1
    BY <2>2, <2>3, <1>1, <1>2, <1>3
  <2> QED BY <2>4 DEF S1
<1>6. CASE ~ Start(t) /\ ~ MapPage(t)
  <2>1. S1 \subseteq S /\ g_id' = g_id /\ mapped' = mapped
    <3>1. CASE Walk(t)
      BY <3>1 DEF Walk, Goto, listVars, nodeVars, Types, Searching
    <3>2. CASE Xchg(t)
      BY <3>2 DEF Xchg, Goto, nodeVars, Types, Searching
    <3>3. CASE Take(t) \/ LinkPage(t) \/ CasPage(t) \/ AddFree(t) \/ SetNode(t)
               \/ ClrNode(t) \/ ClrCount(t)
      BY <3>3 DEF Take, LinkPage, CasPage, AddFree, SetNode, ClrNode, ClrCount,
             Goto, listVars, nodeVars, Types, Searching
    <3>4. CASE \E s \in Superpage : SetCount(t, s) \/ Scan(t, s)
      BY <3>4 DEF SetCount, Scan, Goto, listVars, nodeVars, Types, Searching
    <3>5. CASE ScanCount(t) \/ ScanNode(t) \/ ScanFalse(t)
      BY <3>5 DEF ScanCount, ScanNode, ScanFalse, Goto, listVars, nodeVars, Types,
             Searching
    <3>6. CASE FreeActive(t) \/ FreeInc(t)
      BY <3>6 DEF FreeActive, FreeInc, Goto, listVars, nodeVars, Types, Searching
    <3> QED BY <1>6, <3>1, <3>2, <3>3, <3>4, <3>5, <3>6 DEF Elsewhere
  <2> HIDE DEF S, S1
  <2>2. Cardinality(S1) <= Cardinality(S) /\ Cardinality(S1) \in Nat
    BY <2>1, <1>1, FS_Subset, FS_CardinalityType
  <2>3. g_id' <= MAX_NUM_THREADS /\ mapped' + Cardinality(S1) <= g_id' - 1
    BY <2>1, <2>2, <1>1, <1>2, <1>3
  <2> QED BY <2>3 DEF S1
<1> QED BY <1>4, <1>5, <1>6

(* Only hazard pointers of pages that are mapped become active.            *)
LEMMA FreshStep ==
  ASSUME ConstantsOK, Types, PagesFit, ThreadsOK, NEW t \in Thread,
         Elsewhere(t) \/ MapPage(t) \/ CasPage(t), NEW h \in Hp, h > Mapped'
  PROVE  active'[h] = 0
<1> h \in Nat /\ Mapped \in Nat /\ Known \subseteq 1 .. Mapped /\ 1 .. Mapped \subseteq Hp
  BY MappedWithin DEF Hp, ConstantsOK
<1> h > Mapped => active[h] = 0
  BY DEF PagesFit
<1>1. CASE MapPage(t)
  <2> DEFINE f == mapped * HPS_PER_PAGE + 1
  <2>1. f \in Hp /\ f \in PageAt(f) /\ Mapped' >= Mapped
        /\ \A k \in PageAt(f) : k <= Mapped'
    BY <1>1, NewPage DEF ConstantsOK
  <2>2. Mapped' \in Nat /\ h # f
    BY <1>1, <2>1, NewPage DEF ConstantsOK
  <2>3. active' = [active EXCEPT ![f] = 1]
    BY <1>1 DEF MapPage
  <2> HIDE DEF f
  <2> QED BY <2>1, <2>2, <2>3 DEF Types
<1>2. CASE CasPage(t)
  BY <1>2 DEF CasPage, Mapped
<1>3. CASE Xchg(t)
  <2>1. hp[t] \in Known
    BY <1>3 DEF Xchg, Goto, ThreadsOK, OwnOK
  <2> QED BY <1>3, <2>1 DEF Xchg, Types, Mapped
<1>4. CASE FreeActive(t)
  BY <1>4 DEF FreeActive, Types, Mapped
<1>5. CASE Elsewhere(t) /\ ~ Xchg(t) /\ ~ FreeActive(t)
  <2>1. mapped' = mapped /\ active' = active
    BY <1>5 DEF Elsewhere, listVars, Start, Walk, Take, LinkPage, AddFree, SetCount,
           Scan, SetNode, ClrNode, ClrCount, ScanCount, ScanNode, ScanFalse, FreeInc
  <2> QED BY <2>1 DEF Mapped
<1> QED BY <1>1, <1>2, <1>3, <1>4, <1>5

LEMMA PagesFitStep ==
  ASSUME ConstantsOK, Types, PagesFit, ThreadsOK, NEW t \in Thread,
         Elsewhere(t) \/ MapPage(t) \/ CasPage(t)
  PROVE  PagesFit'
<1>1. Hp' = Hp
  BY DEF Hp
<1> QED BY <1>1, SearchersStep, FreshStep DEF PagesFit

(* A step of t leaves the other threads where they are.                    *)
LEMMA OthersStay ==
  ASSUME Types, NEW t \in Thread, Elsewhere(t) \/ MapPage(t) \/ CasPage(t),
         NEW u \in Thread, u # t
  PROVE  /\ pc'[u] = pc[u] /\ hazard_ptr'[u] = hazard_ptr[u] /\ hp'[u] = hp[u]
         /\ top'[u] = top[u] /\ sph'[u] = sph[u] /\ thread_id'[u] = thread_id[u]
         /\ set_all_along'[u] = IF ClrNode(t) THEN set_all_along[u] \ {t}
                                ELSE set_all_along[u]
<1>1. CASE Start(t)
  BY <1>1 DEF Start, ClrNode, Goto, listVars, nodeVars, Types
<1>2. CASE Walk(t)
  BY <1>2 DEF Walk, ClrNode, Goto, listVars, nodeVars, Types
<1>3. CASE Xchg(t)
  BY <1>3 DEF Xchg, ClrNode, Goto, listVars, nodeVars, Types
<1>4. CASE Take(t)
  BY <1>4 DEF Take, ClrNode, Goto, listVars, nodeVars, Types
<1>5. CASE MapPage(t)
  BY <1>5 DEF MapPage, ClrNode, Goto, listVars, nodeVars, Types
<1>6. CASE LinkPage(t)
  BY <1>6 DEF LinkPage, ClrNode, Goto, listVars, nodeVars, Types
<1>7. CASE CasPage(t)
  BY <1>7 DEF CasPage, ClrNode, Goto, listVars, nodeVars, Types
<1>8. CASE AddFree(t)
  BY <1>8 DEF AddFree, ClrNode, Goto, listVars, nodeVars, Types
<1>9. CASE \E s \in Superpage : SetCount(t, s)
  BY <1>9 DEF SetCount, ClrNode, Goto, listVars, nodeVars, Types
<1>10. CASE SetNode(t)
  BY <1>10 DEF SetNode, ClrNode, Goto, listVars, nodeVars, Types
<1>11. CASE ClrNode(t)
  BY <1>11 DEF ClrNode, ClrNode, Goto, listVars, nodeVars, Types
<1>12. CASE ClrCount(t)
  BY <1>12 DEF ClrCount, ClrNode, Goto, listVars, nodeVars, Types
<1>13. CASE \E s \in Superpage : Scan(t, s)
  BY <1>13 DEF Scan, ClrNode, Goto, listVars, nodeVars, Types
<1>14. CASE ScanCount(t)
  BY <1>14 DEF ScanCount, ClrNode, Goto, listVars, nodeVars, Types
<1>15. CASE ScanNode(t)
  BY <1>15 DEF ScanNode, ClrNode, Goto, listVars, nodeVars, Types
<1>16. CASE ScanFalse(t)
  BY <1>16 DEF ScanFalse, ClrNode, Goto, listVars, nodeVars, Types
<1>17. CASE FreeActive(t)
  BY <1>17 DEF FreeActive, ClrNode, Goto, listVars, nodeVars, Types
<1>18. CASE FreeInc(t)
  BY <1>18 DEF FreeInc, ClrNode, Goto, listVars, nodeVars, Types
<1> QED BY <1>1, <1>2, <1>3, <1>4, <1>5, <1>6, <1>7, <1>8, <1>9, <1>10, <1>11, <1>12, <1>13, <1>14, <1>15, <1>16, <1>17, <1>18 DEF Elsewhere

(* The list never loses a hazard pointer, and only its thread makes one    *)
(* inactive.                                                               *)
LEMMA KnownGrows ==
  ASSUME ConstantsOK, Types, PagesFit, ThreadsOK, Apart, NEW t \in Thread,
         Elsewhere(t) \/ MapPage(t) \/ CasPage(t)
  PROVE  Known \subseteq Known'
BY KnownElsewhere, KnownMap, KnownCas

LEMMA StaysActive ==
  ASSUME Types, NEW t \in Thread, Elsewhere(t) \/ MapPage(t) \/ CasPage(t),
         NEW h \in Hp, active[h] = 1, FreeActive(t) => h # hazard_ptr[t]
  PROVE  active'[h] = 1
<1>1. CASE MapPage(t)
  BY <1>1 DEF MapPage, Types
<1>2. CASE Xchg(t)
  BY <1>2 DEF Xchg, Types
<1>3. CASE FreeActive(t)
  BY <1>3 DEF FreeActive, Types
<1>4. CASE ~ MapPage(t) /\ ~ Xchg(t) /\ ~ FreeActive(t)
  BY <1>4 DEF Elsewhere, listVars, Start, Walk, Take, LinkPage, CasPage, AddFree,
     SetCount, Scan, SetNode, ClrNode, ClrCount, ScanCount, ScanNode, ScanFalse, FreeInc
<1> QED BY <1>1, <1>2, <1>3, <1>4

(* The list does not lead out of itself.                                   *)
LEMMA ListClosed ==
  ASSUME Chain
  PROVE  /\ head \in Known \cup {NULL}
         /\ \A h \in Known : hpnext[h] \in Known \cup {NULL}
BY DEF Chain, Ordered

LEMMA OwnOthers ==
  ASSUME ConstantsOK, Types, PagesFit, ThreadsOK, Apart, NEW t \in Thread,
         Elsewhere(t) \/ MapPage(t) \/ CasPage(t), NEW u \in Thread, u # t
  PROVE  OwnOK(u)'
<1>1. pc'[u] = pc[u] /\ hazard_ptr'[u] = hazard_ptr[u] /\ hp'[u] = hp[u]
      /\ top'[u] = top[u]
  BY OthersStay
<1>2. Known \subseteq Known'
  BY KnownGrows
<1>3. OwnOK(u)
  BY DEF ThreadsOK
<1>4. Owns(u)' = Owns(u) /\ Own(u)' = Own(u)
  BY <1>1 DEF Owns, Own
<1>5. ASSUME Owns(u) PROVE active'[Own(u)] = 1
  <2>1. Own(u) \in Hp /\ active[Own(u)] = 1
    BY <1>3, <1>5 DEF OwnOK, Owns, Own, Types
  <2>2. FreeActive(t) => Own(u) # hazard_ptr[t]
    BY <1>5 DEF FreeActive, Goto, Apart, Owns, Own, Keeping, Settled
  <2> QED BY <2>1, <2>2, StaysActive
<1> QED BY <1>1, <1>2, <1>3, <1>4, <1>5 DEF OwnOK

LEMMA OwnSelf ==
  ASSUME ConstantsOK, Types, PagesFit, ThreadsOK, Apart, Chain, NEW t \in Thread,
         Elsewhere(t) \/ MapPage(t) \/ CasPage(t)
  PROVE  OwnOK(t)'
<1> OwnOK(t)
  BY DEF ThreadsOK
<1> Known \subseteq Known' /\ Known \subseteq Hp /\ NULL \notin Hp
  BY KnownGrows, MappedWithin DEF Hp, ConstantsOK
<1> /\ head \in Known \cup {NULL}
    /\ \A h \in Known : hpnext[h] \in Known \cup {NULL}
  BY ListClosed
<1> USE DEF OwnOK, Owns, Own, Linking, Settled, Keeping, Walking
<1>1. CASE Start(t)
  BY <1>1 DEF Start, Goto, listVars, nodeVars, Types
<1>2. CASE Walk(t)
  BY <1>2 DEF Walk, Goto, listVars, nodeVars, Types
<1>3. CASE Xchg(t)
  BY <1>3 DEF Xchg, Goto, listVars, nodeVars, Types
<1>4. CASE Take(t)
  BY <1>4 DEF Take, Goto, listVars, nodeVars, Types
<1>5. CASE MapPage(t)
  <2> DEFINE f == mapped * HPS_PER_PAGE + 1
  <2>1. f \in Hp
    BY <1>5, NewPage
  <2>2. /\ pc[t] = "map" /\ pc'[t] = "link" /\ hazard_ptr'[t] = f /\ active'[f] = 1
        /\ hp' = hp /\ top' = top
    BY <1>5, <2>1 DEF MapPage, Goto, Types
  <2> HIDE DEF f
  <2> QED BY <2>1, <2>2
<1>6. CASE LinkPage(t)
  BY <1>6 DEF LinkPage, Goto, listVars, nodeVars, Types
<1>7. CASE CasPage(t)
  <2>1. pc[t] = "cas" /\ hazard_ptr[t] \in Hp
    BY <1>7 DEF CasPage, Goto, Types
  <2>2. hazard_ptr[t] \in PageAt(hazard_ptr[t])
    BY <2>1, OwnInPage
  <2>3. head = top[t] => hazard_ptr[t] \in Known'
    BY <1>7, <2>2, KnownCas
  <2> QED BY <1>7, <2>1, <2>3 DEF CasPage, Types, Goto
<1>8. CASE AddFree(t)
  BY <1>8 DEF AddFree, Goto, listVars, nodeVars, Types
<1>9. CASE \E s \in Superpage : SetCount(t, s)
  BY <1>9 DEF SetCount, Goto, listVars, nodeVars, Types
<1>10. CASE SetNode(t)
  BY <1>10 DEF SetNode, Goto, listVars, nodeVars, Types
<1>11. CASE ClrNode(t)
  BY <1>11 DEF ClrNode, Goto, listVars, nodeVars, Types
<1>12. CASE ClrCount(t)
  BY <1>12 DEF ClrCount, Goto, listVars, nodeVars, Types
<1>13. CASE \E s \in Superpage : Scan(t, s)
  BY <1>13 DEF Scan, Goto, listVars, nodeVars, Types
<1>14. CASE ScanCount(t)
  BY <1>14 DEF ScanCount, Goto, listVars, nodeVars, Types
<1>15. CASE ScanNode(t)
  BY <1>15 DEF ScanNode, Goto, listVars, nodeVars, Types
<1>16. CASE ScanFalse(t)
  BY <1>16 DEF ScanFalse, Goto, listVars, nodeVars, Types
<1>17. CASE FreeActive(t)
  BY <1>17 DEF FreeActive, Goto, listVars, nodeVars, Types
<1>18. CASE FreeInc(t)
  BY <1>18 DEF FreeInc, Goto, listVars, nodeVars, Types
<1> QED BY <1>1, <1>2, <1>3, <1>4, <1>5, <1>6, <1>7, <1>8, <1>9, <1>10, <1>11, <1>12, <1>13, <1>14, <1>15, <1>16, <1>17, <1>18 DEF Elsewhere

(* The next of a hazard pointer changes where a thread links its own page. *)
LEMMA NextStays ==
  ASSUME ConstantsOK, Types, PagesFit, NEW t \in Thread,
         Elsewhere(t) \/ MapPage(t) \/ CasPage(t), NEW h \in 1 .. Mapped,
         LinkPage(t) => h # Last(hazard_ptr[t])
  PROVE  hpnext'[h] = hpnext[h]
<1>1. h \in Hp
  BY MappedWithin
<1>2. CASE MapPage(t)
  <2> DEFINE f == mapped * HPS_PER_PAGE + 1
  <2>1. h \notin PageAt(f)
    BY <1>2, NewPage
  <2>2. hpnext'[h] = IF h \in PageAt(f) \ {Last(f)} THEN h + 1 ELSE hpnext[h]
    BY <1>1, <1>2 DEF MapPage
  <2> HIDE DEF f
  <2> QED BY <2>1, <2>2
<1>3. CASE LinkPage(t)
  BY <1>1, <1>3 DEF LinkPage, Types
<1>4. CASE ~ MapPage(t) /\ ~ LinkPage(t)
  BY <1>4 DEF Elsewhere, listVars, Start, Walk, Take, Xchg, CasPage, AddFree,
     SetCount, Scan, SetNode, ClrNode, ClrCount, ScanCount, ScanNode, ScanFalse,
     FreeActive, FreeInc
<1> QED BY <1>2, <1>3, <1>4

(* Only what is on the list, or a page just mapped, becomes active.        *)
LEMMA StaysInactive ==
  ASSUME ConstantsOK, Types, PagesFit, ThreadsOK, NEW t \in Thread,
         Elsewhere(t) \/ MapPage(t) \/ CasPage(t),
         NEW h \in 1 .. Mapped, Xchg(t) => h # hp[t], active[h] = 0
  PROVE  active'[h] = 0
<1>1. h \in Hp
  BY MappedWithin
<1>2. CASE MapPage(t)
  <2> DEFINE f == mapped * HPS_PER_PAGE + 1
  <2>1. h # f
    BY <1>2, NewPage
  <2>2. active' = [active EXCEPT ![f] = 1]
    BY <1>2 DEF MapPage
  <2> HIDE DEF f
  <2> QED BY <1>1, <2>1, <2>2 DEF Types
<1>3. CASE Xchg(t)
  BY <1>1, <1>3 DEF Xchg, Types
<1>4. CASE FreeActive(t)
  BY <1>1, <1>4 DEF FreeActive, Types
<1>5. CASE ~ MapPage(t) /\ ~ Xchg(t) /\ ~ FreeActive(t)
  BY <1>5 DEF Elsewhere, listVars, Start, Walk, Take, LinkPage, CasPage, AddFree,
     SetCount, Scan, SetNode, ClrNode, ClrCount, ScanCount, ScanNode, ScanFalse, FreeInc
<1> QED BY <1>2, <1>3, <1>4, <1>5

LEMMA PagesOthers ==
  ASSUME ConstantsOK, Types, PagesFit, ThreadsOK, Apart, NEW t \in Thread,
         Elsewhere(t) \/ MapPage(t) \/ CasPage(t),
         NEW u \in Thread, u # t, pc'[u] \in Linking
  PROVE  PageOK(u)'
<1> DEFINE f == hazard_ptr[u]
<1>1. pc'[u] = pc[u] /\ hazard_ptr'[u] = hazard_ptr[u] /\ top'[u] = top[u]
  BY OthersStay
<1>2. PageOK(u) /\ PageAt(f) \subseteq 1 .. Mapped /\ f \in PageAt(f) /\ Last(f) \in PageAt(f)
  <2>1. PageOK(u) /\ f \in Hp
    BY <1>1 DEF ThreadsOK, OwnOK, Types, Keeping, Linking
  <2> QED BY <2>1, OwnInPage DEF PageOK
<1>3. Mapped \in Nat /\ Mapped' \in Nat /\ Mapped <= Mapped'
  BY KnownElsewhere, NewPage, MappedWithin DEF ConstantsOK, CasPage, Mapped
<1>4. \A h \in PageAt(f) : h \notin Known
  BY <1>1, <1>2 DEF Known, Threads, Linking
<1>5. ASSUME NEW h \in PageAt(f) \ {f} PROVE active'[h] = 0
  <2>1. active[h] = 0 /\ h \in 1 .. Mapped
    BY <1>2 DEF PageOK
  <2>2. Xchg(t) => h # hp[t]
    BY <1>4 DEF Xchg, Goto, ThreadsOK, OwnOK
  <2> QED BY <2>1, <2>2, StaysInactive
<1>6. ASSUME NEW h \in PageAt(f) PROVE hpnext'[h] = hpnext[h]
  <2>1. ASSUME LinkPage(t) PROVE h # Last(hazard_ptr[t])
    <3>1. pc[t] \in Linking /\ hazard_ptr[t] \in Hp
      BY <2>1 DEF LinkPage, Goto, Linking, ThreadsOK, OwnOK, Types, Keeping
    <3>2. Last(hazard_ptr[t]) \in PageAt(hazard_ptr[t])
      BY <3>1, OwnInPage
    <3> QED BY <1>1, <3>1, <3>2 DEF Apart
  <2> QED BY <1>2, <2>1, NextStays
<1>7. PageAt(f) \subseteq 1 .. Mapped'
  BY <1>2, <1>3
<1>8. PageAt(f)' = PageAt(f) /\ Last(f)' = Last(f)
  BY <1>1 DEF PageAt, Last
<1> QED BY <1>1, <1>2, <1>5, <1>6, <1>7, <1>8 DEF PageOK

LEMMA PagesSelf ==
  ASSUME ConstantsOK, Types, PagesFit, ThreadsOK, Apart, NEW t \in Thread,
         Elsewhere(t) \/ MapPage(t) \/ CasPage(t), pc'[t] \in Linking
  PROVE  PageOK(t)'
<1>1. CASE MapPage(t)
  <2> DEFINE f == mapped * HPS_PER_PAGE + 1
  <2>1. /\ f \in Hp /\ PageAt(f) \subseteq Hp
        /\ \A h \in PageAt(f) : h \in Nat /\ h > Mapped /\ h <= Mapped'
        /\ Mapped \in Nat /\ Mapped' = Mapped + HPS_PER_PAGE
    BY <1>1, NewPage
  <2>2. /\ hazard_ptr'[t] = f /\ pc'[t] = "link"
        /\ active' = [active EXCEPT ![f] = 1]
        /\ hpnext' = [h \in Hp |-> IF h \in PageAt(f) \ {Last(f)}
                                   THEN h + 1 ELSE hpnext[h]]
    BY <1>1 DEF MapPage, Goto, Types
  <2>3. \A h \in PageAt(f) : active[h] = 0
    BY <2>1 DEF PagesFit
  <2> HIDE DEF f
  <2>5. PageAt(f) \subseteq 1 .. Mapped'
    BY <2>1 DEF ConstantsOK
  <2>6. \A h \in PageAt(f) \ {f} : active'[h] = 0
    BY <2>1, <2>2, <2>3 DEF Types
  <2>7. \A h \in PageAt(f) \ {Last(f)} : hpnext'[h] = h + 1
    BY <2>1, <2>2
  <2>8. PageAt(hazard_ptr[t])' = PageAt(f) /\ Last(hazard_ptr[t])' = Last(f)
    BY <2>2 DEF PageAt, Last
  <2> QED BY <2>2, <2>5, <2>6, <2>7, <2>8 DEF PageOK
<1>2. CASE CasPage(t)
  <2>1. /\ pc[t] = "cas" /\ pc'[t] = "link" /\ hazard_ptr' = hazard_ptr
        /\ active' = active /\ hpnext' = hpnext /\ mapped' = mapped
    BY <1>2 DEF CasPage, Goto, Types, Linking
  <2> QED BY <2>1 DEF ThreadsOK, PageOK, Linking, PageAt, Last, Mapped
<1>3. CASE LinkPage(t)
  <2> DEFINE f == hazard_ptr[t]
  <2>1. /\ pc[t] = "link" /\ pc'[t] = "cas" /\ hazard_ptr' = hazard_ptr
        /\ active' = active /\ mapped' = mapped /\ top'[t] = head
        /\ hpnext' = [hpnext EXCEPT ![Last(f)] = head]
    BY <1>3 DEF LinkPage, Goto, Types
  <2>2. PageOK(t) /\ f \in Hp
    BY <2>1 DEF ThreadsOK, Linking, Keeping, OwnOK, Types
  <2>3. PageAt(f) \subseteq 1 .. Mapped /\ Last(f) \in PageAt(f) /\ 1 .. Mapped \subseteq Hp
    BY <2>2, OwnInPage, MappedWithin DEF PageOK
  <2>4. \A h \in PageAt(f) \ {Last(f)} : hpnext'[h] = h + 1
    BY <2>1, <2>2, <2>3 DEF PageOK, Types
  <2>5. hpnext'[Last(f)] = head
    BY <2>1, <2>3 DEF Types
  <2>6. PageAt(f)' = PageAt(f) /\ Last(f)' = Last(f) /\ Mapped' = Mapped
    BY <2>1 DEF PageAt, Last, Mapped
  <2> QED BY <2>1, <2>2, <2>4, <2>5, <2>6 DEF PageOK
<1>4. CASE Elsewhere(t) /\ ~ LinkPage(t)
  <2>1. pc'[t] \notin Linking
    BY <1>4 DEF Elsewhere, Linking, Goto, Types, Start, Walk, Xchg, Take, AddFree, SetCount, Scan,
       SetNode, ClrNode, ClrCount, ScanCount, ScanNode, ScanFalse, FreeActive, FreeInc
  <2> QED BY <2>1
<1> QED BY <1>1, <1>2, <1>3, <1>4

(* What a thread owns lies in a mapped page.                               *)
LEMMA OwnMapped ==
  ASSUME ConstantsOK, Types, PagesFit, ThreadsOK, NEW u \in Thread, Owns(u)
  PROVE  Own(u) \in 1 .. Mapped
<1>1. CASE pc[u] \in Linking
  <2>1. PageAt(hazard_ptr[u]) \subseteq 1 .. Mapped /\ hazard_ptr[u] \in Hp
    BY <1>1 DEF ThreadsOK, PageOK, OwnOK, Types, Keeping
  <2> QED BY <1>1, <2>1, OwnInPage DEF Own, Linking
<1>2. CASE pc[u] \in Settled \cup {"dec"}
  <2>1. Own(u) \in Known
    BY <1>2 DEF ThreadsOK, OwnOK, Own, Settled
  <2> QED BY <2>1, MappedWithin
<1> QED BY <1>1, <1>2 DEF Owns, Keeping

(* A thread comes to own an inactive hazard pointer or the first of a new  *)
(* page, and otherwise what it has owned before.                           *)
LEMMA OwnComes ==
  ASSUME ConstantsOK, Types, ThreadsOK, NEW t \in Thread,
         Elsewhere(t) \/ MapPage(t) \/ CasPage(t), Owns(t)'
  PROVE  \/ Owns(t) /\ Own(t)' = Own(t)
         \/ Xchg(t) /\ active[hp[t]] = 0 /\ Own(t)' = hp[t]
         \/ MapPage(t) /\ Own(t)' = Mapped + 1
<1> USE DEF Owns, Own, Keeping, Linking, Settled
<1>1. CASE Start(t)
  BY <1>1 DEF Start, Goto, listVars, nodeVars, Types
<1>2. CASE Walk(t)
  BY <1>2 DEF Walk, Goto, listVars, nodeVars, Types
<1>3. CASE Xchg(t)
  <2>1. hp[t] \in Hp
    BY <1>3 DEF Xchg, Goto, ThreadsOK, OwnOK, Types
  <2> QED BY <1>3, <2>1 DEF Xchg, Goto, Types
<1>4. CASE Take(t)
  BY <1>4 DEF Take, Goto, listVars, nodeVars, Types
<1>5. CASE MapPage(t)
  <2>1. Own(t)' = mapped * HPS_PER_PAGE + 1
    BY <1>5 DEF MapPage, Goto, Types
  <2> QED BY <1>5, <2>1 DEF Mapped, Types, ConstantsOK
<1>6. CASE LinkPage(t)
  BY <1>6 DEF LinkPage, Goto, listVars, nodeVars, Types
<1>7. CASE CasPage(t)
  BY <1>7 DEF CasPage, Goto, listVars, nodeVars, Types
<1>8. CASE AddFree(t)
  BY <1>8 DEF AddFree, Goto, listVars, nodeVars, Types
<1>9. CASE \E s \in Superpage : SetCount(t, s)
  BY <1>9 DEF SetCount, Goto, listVars, nodeVars, Types
<1>10. CASE SetNode(t)
  BY <1>10 DEF SetNode, Goto, listVars, nodeVars, Types
<1>11. CASE ClrNode(t)
  BY <1>11 DEF ClrNode, Goto, listVars, nodeVars, Types
<1>12. CASE ClrCount(t)
  BY <1>12 DEF ClrCount, Goto, listVars, nodeVars, Types
<1>13. CASE \E s \in Superpage : Scan(t, s)
  BY <1>13 DEF Scan, Goto, listVars, nodeVars, Types
<1>14. CASE ScanCount(t)
  BY <1>14 DEF ScanCount, Goto, listVars, nodeVars, Types
<1>15. CASE ScanNode(t)
  BY <1>15 DEF ScanNode, Goto, listVars, nodeVars, Types
<1>16. CASE ScanFalse(t)
  BY <1>16 DEF ScanFalse, Goto, listVars, nodeVars, Types
<1>17. CASE FreeActive(t)
  BY <1>17 DEF FreeActive, Goto, listVars, nodeVars, Types
<1>18. CASE FreeInc(t)
  BY <1>18 DEF FreeInc, Goto, listVars, nodeVars, Types
<1> QED BY <1>1, <1>2, <1>3, <1>4, <1>5, <1>6, <1>7, <1>8, <1>9, <1>10, <1>11, <1>12, <1>13, <1>14, <1>15, <1>16, <1>17, <1>18 DEF Elsewhere

LEMMA OwnApart ==
  ASSUME ConstantsOK, Types, PagesFit, ThreadsOK, Apart, NEW t \in Thread,
         Elsewhere(t) \/ MapPage(t) \/ CasPage(t),
         NEW u \in Thread, u # t, Owns(t)', Owns(u)'
  PROVE  Own(t)' # Own(u)'
<1>1. Owns(u) /\ Own(u)' = Own(u)
  BY OthersStay DEF Owns, Own
<1>2. active[Own(u)] = 1 /\ Own(u) \in 1 .. Mapped
  BY <1>1, OwnMapped DEF ThreadsOK, OwnOK
<1>3. Mapped \in Nat
  BY MappedWithin
<1>4. \/ Owns(t) /\ Own(t)' = Own(t)
      \/ active[hp[t]] = 0 /\ Own(t)' = hp[t]
      \/ Own(t)' = Mapped + 1
  BY OwnComes
<1> QED BY <1>1, <1>2, <1>3, <1>4 DEF Apart

LEMMA PagesApart ==
  ASSUME ConstantsOK, Types, PagesFit, ThreadsOK, Apart, NEW t \in Thread,
         Elsewhere(t) \/ MapPage(t) \/ CasPage(t),
         NEW u \in Thread, u # t, pc'[t] \in Linking, pc'[u] \in Linking
  PROVE  (PageAt(hazard_ptr[t]) \cap PageAt(hazard_ptr[u]))' = {}
<1>1. pc[u] \in Linking /\ hazard_ptr'[u] = hazard_ptr[u]
  BY OthersStay
<1>2. PageAt(hazard_ptr[u]) \subseteq 1 .. Mapped
  BY <1>1 DEF ThreadsOK, PageOK
<1>3. CASE MapPage(t)
  <2> DEFINE f == mapped * HPS_PER_PAGE + 1
  <2>1. \A h \in PageAt(f) : h > Mapped
    BY <1>3, NewPage
  <2>2. hazard_ptr'[t] = f
    BY <1>3 DEF MapPage, Types
  <2> HIDE DEF f
  <2>3. PageAt(hazard_ptr[t])' = PageAt(f) /\ PageAt(hazard_ptr[u])' = PageAt(hazard_ptr[u])
    BY <1>1, <2>2 DEF PageAt, Last
  <2> QED BY <1>2, <2>1, <2>3, MappedWithin
<1>4. CASE ~ MapPage(t)
  <2>1. pc[t] \in Linking /\ hazard_ptr'[t] = hazard_ptr[t]
    BY <1>4 DEF Elsewhere, Linking, Goto, Types, Start, Walk, Xchg, Take, AddFree,
       LinkPage, CasPage, SetCount, Scan, SetNode, ClrNode, ClrCount, ScanCount,
       ScanNode, ScanFalse, FreeActive, FreeInc
  <2>2. PageAt(hazard_ptr[t]) \cap PageAt(hazard_ptr[u]) = {}
    BY <1>1, <2>1 DEF Apart
  <2> QED BY <1>1, <2>1, <2>2 DEF PageAt, Last
<1> QED BY <1>3, <1>4

(* An id is given once.                                                    *)
LEMMA IdsStep ==
  ASSUME Types, ThreadsOK, Apart, NEW t \in Thread,
         Elsewhere(t) \/ MapPage(t) \/ CasPage(t)
  PROVE  /\ \A u \in Thread : thread_id'[u] < g_id'
         /\ \A u \in Thread \ {t} :
              \/ thread_id'[t] # thread_id'[u]
              \/ thread_id'[t] = 0 /\ thread_id'[u] = 0
<1>1. \A u \in Thread : thread_id[u] < g_id /\ thread_id[u] \in Nat /\ g_id \in Nat \ {0}
  BY DEF ThreadsOK, Types
<1>2. \A u \in Thread \ {t} : thread_id'[u] = thread_id[u]
  BY OthersStay
<1>3. CASE Start(t)
  BY <1>1, <1>2, <1>3 DEF Start, Types
<1>4. CASE FreeInc(t)
  BY <1>1, <1>2, <1>4 DEF FreeInc, Types, Apart
<1>5. CASE ~ Start(t) /\ ~ FreeInc(t)
  <2>1. thread_id' = thread_id /\ g_id' = g_id
    BY <1>5 DEF Elsewhere, Walk, Xchg, Take, AddFree, MapPage,
       LinkPage, CasPage, SetCount, Scan, SetNode, ClrNode, ClrCount, ScanCount,
       ScanNode, ScanFalse, FreeActive
  <2> QED BY <1>1, <2>1 DEF Apart
<1> QED BY <1>3, <1>4, <1>5

LEMMA ApartStep ==
  ASSUME ConstantsOK, Types, PagesFit, ThreadsOK, Apart, NEW t \in Thread,
         Elsewhere(t) \/ MapPage(t) \/ CasPage(t)
  PROVE  Apart'
<1> SUFFICES ASSUME NEW v \in Thread, NEW u \in Thread, v # u
             PROVE  /\ Owns(v)' /\ Owns(u)' => Own(v)' # Own(u)'
                    /\ pc'[v] \in Linking /\ pc'[u] \in Linking =>
                         (PageAt(hazard_ptr[v]) \cap PageAt(hazard_ptr[u]))' = {}
                    /\ thread_id'[v] # thread_id'[u] \/ thread_id'[v] = 0
  BY DEF Apart, PageAt, Last
<1>1. CASE v = t
  BY <1>1, OwnApart, PagesApart, IdsStep
<1>2. CASE u = t
  <2>1. (PageAt(hazard_ptr[v]) \cap PageAt(hazard_ptr[u]))'
        = (PageAt(hazard_ptr[u]) \cap PageAt(hazard_ptr[v]))'
    OBVIOUS
  <2> QED BY <1>2, <2>1, OwnApart, PagesApart, IdsStep
<1>3. CASE v # t /\ u # t
  <2>1. /\ pc'[u] = pc[u] /\ hazard_ptr'[u] = hazard_ptr[u] /\ hp'[u] = hp[u]
        /\ pc'[v] = pc[v] /\ hazard_ptr'[v] = hazard_ptr[v] /\ hp'[v] = hp[v]
        /\ thread_id'[u] = thread_id[u] /\ thread_id'[v] = thread_id[v]
    BY <1>3, OthersStay
  <2> QED BY <2>1 DEF Apart, Owns, Own, PageAt, Last
<1> QED BY <1>1, <1>2, <1>3

(* A thread writes to the count and node of its own hazard pointer only.   *)
LEMMA NodesStay ==
  ASSUME Types, ThreadsOK, NEW t \in Thread, Elsewhere(t) \/ MapPage(t) \/ CasPage(t),
         NEW h \in Hp, Owns(t) => h # Own(t)
  PROVE  count'[h] = count[h] /\ node'[h] = node[h]
<1> USE DEF Owns, Own, Keeping, Settled, Goto, Types
<1>1. CASE Take(t)
  BY <1>1 DEF Take
<1>2. CASE \E s \in Superpage : SetCount(t, s)
  BY <1>2 DEF SetCount
<1>3. CASE SetNode(t)
  BY <1>3 DEF SetNode
<1>4. CASE ClrNode(t)
  BY <1>4 DEF ClrNode
<1>5. CASE ClrCount(t)
  BY <1>5 DEF ClrCount
<1>6. CASE FreeActive(t)
  BY <1>6 DEF FreeActive
<1>7. CASE Start(t) \/ Walk(t) \/ Xchg(t) \/ MapPage(t)
           \/ LinkPage(t) \/ CasPage(t) \/ AddFree(t)
  BY <1>7 DEF Start, Walk, Xchg, MapPage, LinkPage, CasPage, AddFree, nodeVars
<1>8. CASE \/ \E s \in Superpage : Scan(t, s)
           \/ ScanCount(t) \/ ScanNode(t) \/ ScanFalse(t) \/ FreeInc(t)
  BY <1>8 DEF Scan, ScanCount, ScanNode, ScanFalse, FreeInc, nodeVars
<1> QED BY <1>1, <1>2, <1>3, <1>4, <1>5, <1>6, <1>7, <1>8 DEF Elsewhere

(* A thread that has a superpage set has it set until it clears it.        *)
LEMMA StaysSet ==
  ASSUME Types, NEW t \in Thread, Elsewhere(t) \/ MapPage(t) \/ CasPage(t),
         NEW u \in Thread, NEW s, IsSet(u, s), ~ (u = t /\ ClrNode(t))
  PROVE  IsSet(u, s)'
<1>1. CASE u # t
  BY <1>1, OthersStay DEF IsSet
<1>2. CASE u = t
  <2>1. pc[t] = "work"
    BY <1>2 DEF IsSet
  <2> QED BY <1>2, <2>1 DEF Elsewhere, Goto, Start, Walk, Xchg, Take, MapPage, LinkPage,
      CasPage, AddFree, SetCount, Scan, SetNode, ClrCount, ScanCount, ScanNode,
      ScanFalse, FreeActive, FreeInc
<1> QED BY <1>1, <1>2

LEMMA SetOthers ==
  ASSUME ConstantsOK, Types, PagesFit, ThreadsOK, Apart, NEW t \in Thread,
         Elsewhere(t) \/ MapPage(t) \/ CasPage(t), NEW u \in Thread, u # t
  PROVE  SetOK(u)'
<1>1. /\ pc'[u] = pc[u] /\ hazard_ptr'[u] = hazard_ptr[u] /\ sph'[u] = sph[u]
      /\ set_all_along'[u] = IF ClrNode(t) THEN set_all_along[u] \ {t}
                             ELSE set_all_along[u]
  BY OthersStay
<1>2. SetOK(u) /\ OwnOK(u)
  BY DEF ThreadsOK
<1>3. pc[u] \in {"set", "work", "clr"} =>
        /\ count'[hazard_ptr[u]] = count[hazard_ptr[u]]
        /\ node'[hazard_ptr[u]] = node[hazard_ptr[u]]
  <2> SUFFICES ASSUME pc[u] \in {"set", "work", "clr"}
               PROVE  /\ count'[hazard_ptr[u]] = count[hazard_ptr[u]]
                      /\ node'[hazard_ptr[u]] = node[hazard_ptr[u]]
    OBVIOUS
  <2>1. Owns(u) /\ Own(u) = hazard_ptr[u] /\ hazard_ptr[u] \in Hp
    BY <1>2 DEF Owns, Own, Keeping, Settled, OwnOK, Types
  <2>2. Owns(t) => hazard_ptr[u] # Own(t)
    BY <2>1 DEF Apart
  <2> QED BY <2>1, <2>2, NodesStay
<1>4. ASSUME NEW v \in set_all_along'[u] PROVE IsSet(v, sph[u])'
  <2>1. v \in set_all_along[u] /\ ~ (v = t /\ ClrNode(t)) /\ v \in Thread
    BY <1>1, <1>4 DEF Types
  <2>2. IsSet(v, sph[u])
    BY <1>2, <2>1 DEF SetOK
  <2>3. \A s : s = sph[u] => IsSet(v, s)'
    BY <2>1, <2>2, StaysSet
  <2> QED BY <1>1, <2>3 DEF IsSet
<1>5. \A v \in set_all_along'[u] : pc[u] \in {"scan", "node"}
  BY <1>1, <1>2 DEF SetOK
<1> QED BY <1>1, <1>2, <1>3, <1>4, <1>5 DEF SetOK

LEMMA SetSelf ==
  ASSUME ConstantsOK, Types, ThreadsOK, NEW t \in Thread,
         Elsewhere(t) \/ MapPage(t) \/ CasPage(t)
  PROVE  SetOK(t)'
<1> SetOK(t) /\ OwnOK(t)
  BY DEF ThreadsOK
<1>1. /\ pc'[t] \in {"set", "work", "clr"} => count'[hazard_ptr'[t]] = 1
      /\ pc'[t] = "work" => node'[hazard_ptr'[t]] = sph'[t]
  <2> USE DEF SetOK, OwnOK, Goto, Keeping, Settled
  <2>1. CASE Start(t)
    BY <2>1 DEF Start, listVars, nodeVars, Types
  <2>2. CASE Walk(t)
    BY <2>2 DEF Walk, listVars, nodeVars, Types
  <2>3. CASE Xchg(t)
    BY <2>3 DEF Xchg, listVars, nodeVars, Types
  <2>4. CASE Take(t)
    BY <2>4 DEF Take, listVars, nodeVars, Types
  <2>5. CASE MapPage(t)
    BY <2>5 DEF MapPage, listVars, nodeVars, Types
  <2>6. CASE LinkPage(t)
    BY <2>6 DEF LinkPage, listVars, nodeVars, Types
  <2>7. CASE CasPage(t)
    BY <2>7 DEF CasPage, listVars, nodeVars, Types
  <2>8. CASE AddFree(t)
    BY <2>8 DEF AddFree, listVars, nodeVars, Types
  <2>9. CASE \E s \in Superpage : SetCount(t, s)
    BY <2>9 DEF SetCount, listVars, nodeVars, Types
  <2>10. CASE SetNode(t)
    BY <2>10 DEF SetNode, listVars, nodeVars, Types
  <2>11. CASE ClrNode(t)
    BY <2>11 DEF ClrNode, listVars, nodeVars, Types
  <2>12. CASE ClrCount(t)
    BY <2>12 DEF ClrCount, listVars, nodeVars, Types
  <2>13. CASE \E s \in Superpage : Scan(t, s)
    BY <2>13 DEF Scan, listVars, nodeVars, Types
  <2>14. CASE ScanCount(t)
    BY <2>14 DEF ScanCount, listVars, nodeVars, Types
  <2>15. CASE ScanNode(t)
    BY <2>15 DEF ScanNode, listVars, nodeVars, Types
  <2>16. CASE ScanFalse(t)
    BY <2>16 DEF ScanFalse, listVars, nodeVars, Types
  <2>17. CASE FreeActive(t)
    BY <2>17 DEF FreeActive, listVars, nodeVars, Types
  <2>18. CASE FreeInc(t)
    BY <2>18 DEF FreeInc, listVars, nodeVars, Types
  <2> QED BY <2>1, <2>2, <2>3, <2>4, <2>5, <2>6, <2>7, <2>8, <2>9, <2>10, <2>11, <2>12, <2>13, <2>14, <2>15, <2>16, <2>17, <2>18 DEF Elsewhere
<1>2. ASSUME NEW v \in set_all_along'[t]
      PROVE  pc'[t] \in {"scan", "node"} /\ IsSet(v, sph[t])'
  <2>1. CASE \E s \in Superpage : Scan(t, s)
    <3>1. PICK s \in Superpage : Scan(t, s)
      BY <2>1
    <3>2. IsSet(v, s) /\ v \in Thread /\ pc'[t] = "scan" /\ sph'[t] = s /\ ~ ClrNode(t)
      BY <1>2, <3>1 DEF Scan, Goto, Types, ClrNode
    <3>3. IsSet(v, s)'
      BY <3>1, <3>2, StaysSet DEF Elsewhere
    <3> QED BY <3>2, <3>3 DEF IsSet
  <2>2. CASE ~ \E s \in Superpage : Scan(t, s)
    <3>1. /\ v \in set_all_along[t] /\ v \in Thread
          /\ pc'[t] \in {"scan", "node"} /\ sph'[t] = sph[t] /\ ~ ClrNode(t)
      <4>1. pc[t] \in {"scan", "node"} \/ set_all_along[t] = {}
        BY DEF SetOK, Types
      <4>2. CASE ScanCount(t) \/ ScanNode(t) \/ ScanFalse(t)
        BY <1>2, <4>2 DEF ScanCount, ScanNode, ScanFalse, Goto, Types, ClrNode
      <4>3. CASE ~ (ScanCount(t) \/ ScanNode(t) \/ ScanFalse(t))
        <5>1. set_all_along'[t] \subseteq set_all_along[t] /\ pc[t] \notin {"scan", "node"}
          BY <2>2, <4>3 DEF Elsewhere, Goto, Start, Walk, Xchg, Take, MapPage, LinkPage,
             CasPage, AddFree, SetCount, SetNode, ClrNode, ClrCount, FreeActive, FreeInc, Types
        <5> QED BY <1>2, <4>1, <5>1
      <4> QED BY <4>2, <4>3
    <3>2. IsSet(v, sph[t])
      BY <3>1 DEF SetOK
    <3>3. \A s : s = sph[t] => IsSet(v, s)'
      BY <3>1, <3>2, StaysSet
    <3> QED BY <3>1, <3>3 DEF IsSet
  <2> QED BY <2>1, <2>2
<1> QED BY <1>1, <1>2 DEF SetOK

LEMMA ThreadsStep ==
  ASSUME ConstantsOK, Types, PagesFit, ThreadsOK, Apart, Chain, NEW t \in Thread,
         Elsewhere(t) \/ MapPage(t) \/ CasPage(t)
  PROVE  ThreadsOK'
<1> SUFFICES ASSUME NEW u \in Thread
             PROVE  /\ OwnOK(u)' /\ SetOK(u)'
                    /\ pc'[u] \in Linking => PageOK(u)'
                    /\ thread_id'[u] < g_id'
  BY DEF ThreadsOK
<1>1. thread_id'[u] < g_id'
  BY IdsStep
<1>2. CASE u = t
  BY <1>1, <1>2, OwnSelf, SetSelf, PagesSelf
<1>3. CASE u # t
  BY <1>1, <1>3, OwnOthers, SetOthers, PagesOthers
<1> QED BY <1>2, <1>3

(***************************************************************************)
(* The order of the list                                                   *)
(***************************************************************************)

(* As long as no page is put on the list, it stays as it is.               *)
LEMMA OrderStays ==
  ASSUME ConstantsOK, Types, PagesFit, ThreadsOK, Apart, NEW t \in Thread,
         \/ Elsewhere(t) \/ MapPage(t)
         \/ CasPage(t) /\ head # top[t],
         NEW n \in Nat, NEW rank \in [Hp -> Nat], Ordered(rank, n)
  PROVE  Ordered(rank, n)'
<1>1. Known' = Known
  BY KnownElsewhere, KnownMap, KnownCas
<1>2. head' = head
  BY DEF Elsewhere, CasPage, MapPage, listVars, Start, Walk, Xchg, Take, LinkPage,
     AddFree, SetCount, Scan, SetNode, ClrNode, ClrCount, ScanCount, ScanNode, ScanFalse,
     FreeActive, FreeInc
<1>3. ASSUME NEW h \in Known PROVE hpnext'[h] = hpnext[h]
  <2>1. ASSUME LinkPage(t) PROVE h # Last(hazard_ptr[t])
    <3>1. pc[t] = "link" /\ hazard_ptr[t] \in Hp
      BY <2>1 DEF LinkPage, Goto, ThreadsOK, OwnOK, Types, Keeping, Linking
    <3> QED BY <3>1, OwnInPage DEF Known, Threads
  <2> QED BY <2>1, NextStays, MappedWithin
<1> QED BY <1>1, <1>2, <1>3 DEF Ordered

(* A page that is put on the list comes before what was on it.             *)
LEMMA OrderGrows ==
  ASSUME ConstantsOK, Types, PagesFit, ThreadsOK, Apart, NEW t \in Thread,
         CasPage(t), head = top[t],
         NEW n \in Nat, NEW rank \in [Hp -> Nat], Ordered(rank, n)
  PROVE  \E n1 \in Nat : \E rank1 \in [Hp -> Nat] :
           Ordered(rank1, n1)' /\ \A h \in Known : rank1[h] = rank[h]
<1>1. PICK f : f = hazard_ptr[t]
  OBVIOUS
<1>2. PICK n1 : n1 = n + HPS_PER_PAGE
  OBVIOUS
<1>3. PICK rank1 : rank1 = [h \in Hp |-> IF h \in PageAt(f) THEN n + Last(f) - h + 1
                                        ELSE rank[h]]
  OBVIOUS
<1>4. /\ pc[t] = "cas" /\ f \in Hp /\ PageOK(t)
      /\ head' = f /\ hpnext' = hpnext
  BY <1>1 DEF CasPage, Goto, ThreadsOK, OwnOK, Types, Keeping, Linking
<1>5. /\ PageAt(f) \subseteq Hp /\ Known \subseteq Hp /\ Hp \subseteq Nat
      /\ \A h \in Known : h \notin PageAt(f)
      /\ f \in PageAt(f) /\ Last(f) \in PageAt(f)
  BY <1>1, <1>4, OwnInPage, MappedWithin DEF PageOK, Known, Threads, Hp, ConstantsOK
<1>6. Known' = Known \cup PageAt(f)
  BY <1>1, KnownCas
<1>7. f \in Nat /\ Last(f) \in Nat /\ HPS_PER_PAGE \in Nat \ {0} /\ Last(f) = f + HPS_PER_PAGE - 1
      /\ n1 = n + HPS_PER_PAGE
  BY <1>2, <1>4, <1>5 DEF Last, ConstantsOK
<1>8. \A h \in PageAt(f) : h \in Nat /\ h >= f /\ h <= Last(f)
  BY <1>7 DEF PageAt
<1>9. /\ \A h \in PageAt(f) : rank1[h] = n + Last(f) - h + 1 /\ h \in Nat /\ h >= f /\ h <= Last(f)
      /\ \A h \in Known : rank1[h] = rank[h]
  BY <1>3, <1>5, <1>8
<1>10. rank1 \in [Hp -> Nat]
  BY <1>3, <1>5, <1>9, <1>7
<1>11. \A h \in PageAt(f) \ {Last(f)} : hpnext[h] = h + 1 /\ h + 1 \in PageAt(f)
  BY <1>1, <1>4, <1>7 DEF PageOK, PageAt
<1>12. hpnext[Last(f)] = head
  BY <1>1, <1>4 DEF PageOK
<1>13. \A i \in n + 1 .. n1 : n + Last(f) - i + 1 \in PageAt(f)
  BY <1>7 DEF PageAt
<1>14. \A h \in PageAt(f) : rank1[h] \in n + 1 .. n1
  BY <1>9, <1>7
<1>15. \A h \in Known : rank[h] \in 1 .. n /\ rank[h] \in Nat
  BY DEF Ordered
<1>16. \A h \in Known' : rank1[h] \in 1 .. n1
  BY <1>6, <1>9, <1>7, <1>14, <1>15
<1>17. ASSUME NEW i \in 1 .. n1 PROVE \E h \in Known' : rank1[h] = i
  <2>1. CASE i <= n
    <3>1. PICK h \in Known : rank[h] = i
      BY <2>1 DEF Ordered
    <3> QED BY <1>6, <1>9, <3>1
  <2>2. CASE i > n
    <3>1. n + Last(f) - i + 1 \in PageAt(f)
      BY <2>2, <1>13, <1>7
    <3>2. rank1[n + Last(f) - i + 1] = i
      BY <3>1, <1>9, <1>7
    <3> QED BY <1>6, <3>1, <3>2
  <2> QED BY <2>1, <2>2, <1>7
<1>18. ASSUME NEW h \in Known', NEW k \in Known', rank1[h] = rank1[k] PROVE h = k
  <2>1. CASE h \in Known /\ k \in Known
    BY <2>1, <1>9, <1>18 DEF Ordered
  <2>2. CASE h \in PageAt(f) /\ k \in PageAt(f)
    BY <2>2, <1>9, <1>7, <1>18
  <2>3. CASE h \in PageAt(f) /\ k \in Known
    BY <2>3, <1>9, <1>7, <1>14, <1>15, <1>18
  <2>4. CASE h \in Known /\ k \in PageAt(f)
    BY <2>4, <1>9, <1>7, <1>14, <1>15, <1>18
  <2> QED BY <2>1, <2>2, <2>3, <2>4, <1>6
<1>19. head' \in Known' /\ rank1[head'] = n1 /\ n1 # 0
  BY <1>4, <1>5, <1>6, <1>9, <1>7
<1>20. ASSUME NEW h \in Known'
       PROVE  IF rank1[h] = 1 THEN hpnext'[h] = NULL
              ELSE hpnext'[h] \in Known' /\ rank1[hpnext'[h]] = rank1[h] - 1
  <2>1. CASE h \in Known
    <3>1. IF rank[h] = 1 THEN hpnext[h] = NULL
          ELSE hpnext[h] \in Known /\ rank[hpnext[h]] = rank[h] - 1
      BY <2>1 DEF Ordered
    <3> QED BY <2>1, <3>1, <1>4, <1>6, <1>9
  <2>2. CASE h \in PageAt(f) /\ h # Last(f)
    <3>1. hpnext'[h] = h + 1 /\ h + 1 \in PageAt(f)
      BY <2>2, <1>4, <1>11
    <3>2. rank1[h] = n + Last(f) - h + 1 /\ rank1[h + 1] = n + Last(f) - (h + 1) + 1
          /\ h \in Nat /\ h < Last(f)
      BY <2>2, <3>1, <1>9, <1>7
    <3> QED BY <3>1, <3>2, <1>6, <1>7
  <2>3. CASE h = Last(f)
    <3>1. rank1[h] = n + 1 /\ hpnext'[h] = head
      BY <2>3, <1>4, <1>5, <1>9, <1>7, <1>12
    <3>2. IF n = 0 THEN head = NULL ELSE head \in Known /\ rank[head] = n
      BY DEF Ordered
    <3> QED BY <3>1, <3>2, <1>6, <1>9, <1>7
  <2> QED BY <2>1, <2>2, <2>3, <1>6
<1>21. n1 \in Nat
  BY <1>7
<1>22. Ordered(rank1, n1)'
  BY <1>16, <1>17, <1>18, <1>19, <1>20 DEF Ordered
<1> QED BY <1>9, <1>10, <1>21, <1>22

(* A scan stays in front of what it has to see, in an order that is the old *)
(* one on the list as it was.                                              *)
LEMMA AheadStep ==
  ASSUME ConstantsOK, Types, PagesFit, ThreadsOK, Apart, NEW t \in Thread,
         Elsewhere(t) \/ MapPage(t) \/ CasPage(t),
         NEW n \in Nat, NEW rank \in [Hp -> Nat], Ordered(rank, n), Ahead(rank),
         NEW rank1 \in [Hp -> Nat], \A h \in Known : rank1[h] = rank[h]
  PROVE  Ahead(rank1)'
<1>1. ASSUME NEW u \in Thread, NEW v \in set_all_along[u]
      PROVE  /\ v \in Thread /\ pc[v] = "work" /\ hazard_ptr'[v] = hazard_ptr[v]
             /\ hazard_ptr[v] \in Known /\ hp[u] \in Known
             /\ rank[hazard_ptr[v]] \in Nat /\ rank[hp[u]] \in Nat
             /\ rank[hazard_ptr[v]] <= rank[hp[u]] /\ sph[v] = sph[u]
  <2>1. v \in Thread /\ pc[v] = "work" /\ sph[v] = sph[u]
    BY DEF Types, ThreadsOK, SetOK, IsSet
  <2>2. hazard_ptr[v] \in Known
    BY <2>1 DEF ThreadsOK, OwnOK, Settled
  <2>3. hp[u] \in Known /\ rank[hazard_ptr[v]] <= rank[hp[u]]
    BY DEF Ahead, ThreadsOK, OwnOK
  <2>4. hazard_ptr'[v] = hazard_ptr[v]
    <3>1. CASE v # t
      BY <2>1, <3>1, OthersStay
    <3>2. CASE v = t
      BY <2>1, <3>2 DEF Elsewhere, Goto, Start, Walk, Xchg, Take, MapPage, LinkPage,
         CasPage, AddFree, SetCount, Scan, SetNode, ClrNode, ClrCount, ScanCount, ScanNode,
         ScanFalse, FreeActive, FreeInc
    <3> QED BY <3>1, <3>2
  <2>5. Known \subseteq Hp
    BY MappedWithin
  <2> QED BY <2>1, <2>2, <2>3, <2>4, <2>5
<1>2. ASSUME NEW u \in Thread, u # t, NEW v \in set_all_along'[u]
      PROVE  hp'[u] # NULL /\ rank1[hazard_ptr'[v]] <= rank1[hp'[u]]
  <2>1. v \in set_all_along[u] /\ hp'[u] = hp[u]
    BY <1>2, OthersStay DEF Types
  <2>2. hp[u] # NULL
    BY <2>1 DEF Ahead
  <2> QED BY <1>1, <2>1, <2>2
<1>3. ASSUME NEW v \in set_all_along'[t]
      PROVE  hp'[t] # NULL /\ rank1[hazard_ptr'[v]] <= rank1[hp'[t]]
  <2>1. CASE \E s \in Superpage : Scan(t, s)
    <3>1. v \in Thread /\ pc[v] = "work" /\ pc[t] = "idle"
          /\ hp'[t] = head /\ hazard_ptr'[v] = hazard_ptr[v]
      BY <1>3, <2>1 DEF Scan, Goto, Types, IsSet
    <3>2. hazard_ptr[v] \in Known /\ Known \subseteq Hp
      BY <3>1, MappedWithin DEF ThreadsOK, OwnOK, Settled
    <3>3. rank[hazard_ptr[v]] \in 1 .. n
      BY <3>2 DEF Ordered
    <3>4. head \in Known /\ rank[head] = n
      BY <3>3 DEF Ordered
    <3> QED BY <3>1, <3>2, <3>3, <3>4, MappedWithin DEF Hp, ConstantsOK
  <2>2. CASE ScanCount(t) \/ ScanNode(t)
    <3> DEFINE h == hp[t]
    <3>1. v \in set_all_along[t] /\ set_all_along'[t] # {}
      BY <1>3, <2>2 DEF ScanCount, ScanNode, Types
    <3>2. /\ h \in Known /\ hazard_ptr[v] \in Known /\ hazard_ptr'[v] = hazard_ptr[v]
          /\ rank[hazard_ptr[v]] <= rank[h] /\ sph[v] = sph[t] /\ v \in Thread
          /\ pc[v] = "work"
      BY <1>1, <3>1
    <3>3. count[hazard_ptr[v]] = 1 /\ node[hazard_ptr[v]] = sph[v]
      BY <3>2 DEF ThreadsOK, SetOK
    <3>4. CASE hp'[t] = h
      BY <3>2, <3>4, MappedWithin DEF Hp, ConstantsOK
    <3>5. CASE hp'[t] # h
      <4>1. hp'[t] = hpnext[h] /\ hazard_ptr[v] # h
        BY <2>2, <3>1, <3>2, <3>3, <3>5 DEF ScanCount, ScanNode, Types
      <4>2. rank[hazard_ptr[v]] # rank[h] /\ rank[hazard_ptr[v]] \in 1 .. n /\ rank[h] \in 1 .. n
        BY <3>2, <4>1 DEF Ordered
      <4>3. rank[h] # 1
        BY <3>2, <4>2
      <4>4. hpnext[h] \in Known /\ rank[hpnext[h]] = rank[h] - 1
        BY <3>2, <4>3 DEF Ordered
      <4>5. hpnext[h] # NULL
        BY <4>4, MappedWithin DEF Hp, ConstantsOK
      <4>6. rank[hazard_ptr[v]] <= rank[h] - 1
        BY <3>2, <4>2
      <4> QED BY <3>2, <4>1, <4>4, <4>5, <4>6
    <3> QED BY <3>4, <3>5
  <2>3. CASE ~ (ScanCount(t) \/ ScanNode(t)) /\ ~ \E s \in Superpage : Scan(t, s)
    <3>1. v \in set_all_along[t] /\ pc[t] \notin {"scan", "node"}
      BY <1>3, <2>3 DEF Elsewhere, Goto, Start, Walk, Xchg, Take, MapPage, LinkPage,
         CasPage, AddFree, SetCount, SetNode, ClrNode, ClrCount, ScanFalse, FreeActive,
         FreeInc, Types
    <3> QED BY <3>1 DEF ThreadsOK, SetOK
  <2> QED BY <2>1, <2>2, <2>3
<1> QED BY <1>2, <1>3 DEF Ahead

LEMMA ChainStep ==
  ASSUME ConstantsOK, Types, PagesFit, ThreadsOK, Apart, Chain, NEW t \in Thread,
         Elsewhere(t) \/ MapPage(t) \/ CasPage(t)
  PROVE  Chain'
<1>1. PICK n \in Nat, rank \in [Hp -> Nat] : Ordered(rank, n) /\ Ahead(rank)
  BY DEF Chain
<1>2. \E n1 \in Nat : \E rank1 \in [Hp -> Nat] :
        Ordered(rank1, n1)' /\ \A h \in Known : rank1[h] = rank[h]
  <2>1. CASE CasPage(t) /\ head = top[t]
    BY <1>1, <2>1, OrderGrows
  <2>2. CASE ~ (CasPage(t) /\ head = top[t])
    BY <1>1, <2>2, OrderStays
  <2> QED BY <2>1, <2>2
<1>3. PICK n1 \in Nat, rank1 \in [Hp -> Nat] :
        Ordered(rank1, n1)' /\ \A h \in Known : rank1[h] = rank[h]
  BY <1>2
<1>4. Ahead(rank1)'
  BY <1>1, <1>3, AheadStep
<1>5. Hp' = Hp
  BY DEF Hp
<1> QED BY <1>3, <1>4, <1>5 DEF Chain

(***************************************************************************)
(* The number of free ones                                                 *)
(***************************************************************************)
Inactive == {h \in Known : active[h] = 0}

LEMMA CountTypes ==
  ASSUME ConstantsOK, Types, PagesFit
  PROVE  /\ IsFiniteSet(Inactive) /\ Cardinality(Inactive) \in Nat
         /\ \A label : /\ IsFiniteSet(Threads(label))
                       /\ Cardinality(Threads(label)) \in Nat
<1>1. IsFiniteSet(1 .. Mapped) /\ Known \subseteq 1 .. Mapped
  BY MappedWithin, FS_Interval
<1>2. IsFiniteSet(Inactive)
  BY <1>1, FS_Subset DEF Inactive
<1>3. ASSUME NEW label PROVE IsFiniteSet(Threads(label))
  BY FS_Subset DEF Threads, ConstantsOK
<1> QED BY <1>2, <1>3, FS_CardinalityType

(* The ones of a page but for the first.                                   *)
LEMMA RestOfPage ==
  ASSUME ConstantsOK, NEW f \in Hp
  PROVE  /\ IsFiniteSet(PageAt(f) \ {f})
         /\ Cardinality(PageAt(f) \ {f}) = HPS_PER_PAGE - 1
<1>1. f \in Nat /\ HPS_PER_PAGE \in Nat \ {0} /\ Last(f) = f + HPS_PER_PAGE - 1
  BY DEF Hp, ConstantsOK, Last
<1>2. PageAt(f) \ {f} = f + 1 .. Last(f)
  BY <1>1 DEF PageAt
<1>3. /\ IsFiniteSet(f + 1 .. Last(f))
      /\ Cardinality(f + 1 .. Last(f)) = IF f + 1 > Last(f) THEN 0 ELSE Last(f) - (f + 1) + 1
  BY <1>1, FS_Interval
<1>4. (IF f + 1 > Last(f) THEN 0 ELSE Last(f) - (f + 1) + 1) = HPS_PER_PAGE - 1
  BY <1>1
<1>5. IsFiniteSet(PageAt(f) \ {f}) /\ Cardinality(PageAt(f) \ {f}) = HPS_PER_PAGE - 1
  BY <1>2, <1>3, <1>4, Zenon
<1> QED BY <1>5

(* Where nothing is taken or given back, all that is counted stays.        *)
LEMMA CountStays ==
  ASSUME ConstantsOK, Types, PagesFit, ThreadsOK, Apart, NEW t \in Thread,
         Elsewhere(t) \/ MapPage(t) \/ (CasPage(t) /\ head # top[t]),
         Xchg(t) => active[hp[t]] = 1,
         ~ Take(t) /\ ~ AddFree(t) /\ ~ FreeActive(t) /\ ~ FreeInc(t)
  PROVE  /\ num_free' = num_free /\ Inactive' = Inactive
         /\ Threads("dec")' = Threads("dec") /\ Threads("inc")' = Threads("inc")
         /\ Threads("add")' = Threads("add")
<1>1. Known' = Known /\ Known \subseteq Hp
  BY KnownElsewhere, KnownMap, KnownCas, MappedWithin
<1>2. num_free' = num_free
  BY DEF Elsewhere, CasPage, MapPage, Start, Walk, Xchg, LinkPage, SetCount, Scan,
     SetNode, ClrNode, ClrCount, ScanCount, ScanNode, ScanFalse, listVars
<1>3. \A h \in Known : active'[h] = active[h]
  <2>1. CASE MapPage(t)
    <3> DEFINE f == mapped * HPS_PER_PAGE + 1
    <3>1. f \in Hp /\ f \notin Known
      BY <2>1, NewPage, MappedWithin
    <3>2. active' = [active EXCEPT ![f] = 1]
      BY <2>1 DEF MapPage
    <3> HIDE DEF f
    <3> QED BY <1>1, <3>1, <3>2 DEF Types
  <2>2. CASE Xchg(t)
    <3>1. hp[t] \in Hp
      BY <2>2 DEF Xchg, Goto, ThreadsOK, OwnOK, Types
    <3> QED BY <1>1, <2>2, <3>1 DEF Xchg, Types
  <2>3. CASE ~ MapPage(t) /\ ~ Xchg(t)
    BY <2>3 DEF Elsewhere, CasPage, Start, Walk, LinkPage, SetCount, Scan,
       SetNode, ClrNode, ClrCount, ScanCount, ScanNode, ScanFalse, listVars
  <2> QED BY <2>1, <2>2, <2>3
<1>4. \A label \in {"dec", "inc", "add"} : \A u \in Thread : pc'[u] = label <=> pc[u] = label
  <2>1. \A u \in Thread \ {t} : pc'[u] = pc[u]
    BY OthersStay
  <2>2. \A label \in {"dec", "inc", "add"} : pc'[t] # label /\ pc[t] # label
    <3>1. CASE Xchg(t)
      BY <3>1 DEF Xchg, Goto, Types
    <3>2. CASE CasPage(t)
      <4>1. pc[t] = "cas" /\ pc' = [pc EXCEPT ![t] = IF head = top[t] THEN "add" ELSE "link"]
        BY <3>2 DEF CasPage, Goto
      <4>2. ~ Elsewhere(t) /\ ~ MapPage(t)
        BY <4>1 DEF Elsewhere, MapPage, Goto, Start, Walk, Xchg, LinkPage, SetCount,
           Scan, SetNode, ClrNode, ClrCount, ScanCount, ScanNode, ScanFalse
      <4> QED BY <4>1, <4>2 DEF Types
    <3>3. CASE ~ Xchg(t) /\ ~ CasPage(t)
      BY <3>3 DEF Elsewhere, MapPage, Goto, Types, Start, Walk, LinkPage, SetCount,
         Scan, SetNode, ClrNode, ClrCount, ScanCount, ScanNode, ScanFalse
    <3> QED BY <3>1, <3>2, <3>3
  <2> QED BY <2>1, <2>2
<1> QED BY <1>1, <1>2, <1>3, <1>4 DEF Inactive, Threads

LEMMA FreeCountedStep ==
  ASSUME ConstantsOK, Types, PagesFit, ThreadsOK, Apart, FreeCounted, NEW t \in Thread,
         Elsewhere(t) \/ MapPage(t) \/ CasPage(t)
  PROVE  FreeCounted'
<1> DEFINE F == Inactive
           D == Threads("dec")
           I == Threads("inc")
           A == Threads("add")
<1>1. /\ IsFiniteSet(F) /\ IsFiniteSet(D) /\ IsFiniteSet(I) /\ IsFiniteSet(A)
      /\ Cardinality(F) \in Nat /\ Cardinality(D) \in Nat
      /\ Cardinality(I) \in Nat /\ Cardinality(A) \in Nat
  BY CountTypes
<1>2. num_free = Cardinality(F) + Cardinality(D) - Cardinality(I)
                 - (HPS_PER_PAGE - 1) * Cardinality(A)
  BY DEF FreeCounted, Inactive
<1>3. HPS_PER_PAGE \in Nat \ {0} /\ num_free \in Int
  BY DEF ConstantsOK, Types
<1>4. Known \subseteq Hp
  BY MappedWithin
<1> SUFFICES num_free' = Cardinality(F') + Cardinality(D') - Cardinality(I')
                         - (HPS_PER_PAGE - 1) * Cardinality(A')
  BY DEF FreeCounted, Inactive
<1>5. CASE Xchg(t) /\ active[hp[t]] = 0
  <2>1. hp[t] \in Known /\ pc[t] = "xchg"
    BY <1>5 DEF Xchg, Goto, ThreadsOK, OwnOK
  <2>2. /\ pc' = [pc EXCEPT ![t] = "dec"] /\ active' = [active EXCEPT ![hp[t]] = 1]
        /\ num_free' = num_free
    BY <1>5 DEF Xchg, Goto
  <2>3. Known' = Known
    BY <1>5, KnownElsewhere DEF Elsewhere
  <2>4. F' = F \ {hp[t]} /\ hp[t] \in F
    BY <1>4, <1>5, <2>1, <2>2, <2>3 DEF Inactive, Types
  <2>5. D' = D \cup {t} /\ t \notin D /\ I' = I /\ A' = A
    BY <2>1, <2>2 DEF Threads, Types
  <2> HIDE DEF F, D, I, A
  <2>6. Cardinality(F') = Cardinality(F) - 1
    BY <1>1, <2>4, FS_RemoveElement
  <2>7. Cardinality(D') = Cardinality(D) + 1
    BY <1>1, <2>5, FS_AddElement
  <2> QED BY <1>1, <1>2, <1>3, <2>2, <2>5, <2>6, <2>7
<1>6. CASE Take(t)
  <2>1. /\ pc[t] = "dec" /\ pc' = [pc EXCEPT ![t] = "idle"] /\ active' = active
        /\ num_free' = num_free - 1
    BY <1>6 DEF Take, Goto
  <2>2. Known' = Known
    BY <1>6, KnownElsewhere DEF Elsewhere
  <2>3. D' = D \ {t} /\ t \in D /\ I' = I /\ A' = A /\ F' = F
    BY <2>1, <2>2 DEF Threads, Types, Inactive
  <2> HIDE DEF F, D, I, A
  <2>4. Cardinality(D') = Cardinality(D) - 1
    BY <1>1, <2>3, FS_RemoveElement
  <2> QED BY <1>1, <1>2, <1>3, <2>1, <2>3, <2>4
<1>7. CASE CasPage(t) /\ head = top[t]
  <2> DEFINE f == hazard_ptr[t]
             R == PageAt(f) \ {f}
  <2>1. /\ pc[t] = "cas" /\ pc' = [pc EXCEPT ![t] = "add"] /\ active' = active
        /\ num_free' = num_free
    BY <1>7 DEF CasPage, Goto
  <2>2. f \in Hp /\ PageOK(t) /\ active[f] = 1
    BY <2>1 DEF ThreadsOK, OwnOK, Types, Keeping, Linking, Owns, Own
  <2>3. Known' = Known \cup PageAt(f)
    BY <1>7, KnownCas
  <2>4. \A h \in PageAt(f) : h \notin Known
    BY <2>1 DEF Known, Threads
  <2>5. \A h \in R : active[h] = 0
    BY <2>2 DEF PageOK
  <2>6. F' = F \cup R /\ F \cap R = {}
    BY <2>1, <2>2, <2>3, <2>4, <2>5 DEF Inactive
  <2>7. A' = A \cup {t} /\ t \notin A /\ I' = I /\ D' = D
    BY <2>1 DEF Threads, Types
  <2>8. IsFiniteSet(R) /\ Cardinality(R) = HPS_PER_PAGE - 1
    BY <2>2, RestOfPage
  <2> HIDE DEF F, D, I, A, R
  <2>9. Cardinality(F') = Cardinality(F) + (HPS_PER_PAGE - 1)
    <3>1. Cardinality(F \cup R) = Cardinality(F) + Cardinality(R) - Cardinality(F \cap R)
      BY <1>1, <2>8, FS_Union
    <3>2. Cardinality(F \cap R) = 0
      BY <2>6, FS_EmptySet
    <3> QED BY <1>1, <1>3, <2>6, <2>8, <3>1, <3>2
  <2>10. Cardinality(A') = Cardinality(A) + 1
    BY <1>1, <2>7, FS_AddElement
  <2>11. (HPS_PER_PAGE - 1) * Cardinality(A')
         = (HPS_PER_PAGE - 1) * Cardinality(A) + (HPS_PER_PAGE - 1)
    BY <1>1, <1>3, <2>10
  <2>12. (HPS_PER_PAGE - 1) * Cardinality(A) \in Int
    BY <1>1, <1>3
  <2> QED BY <1>1, <1>2, <1>3, <2>1, <2>7, <2>9, <2>11, <2>12
<1>8. CASE AddFree(t)
  <2>1. /\ pc[t] = "add" /\ pc' = [pc EXCEPT ![t] = "idle"] /\ active' = active
        /\ num_free' = num_free + HPS_PER_PAGE - 1
    BY <1>8 DEF AddFree, Goto
  <2>2. Known' = Known
    BY <1>8, KnownElsewhere DEF Elsewhere
  <2>3. A' = A \ {t} /\ t \in A /\ I' = I /\ D' = D /\ F' = F
    BY <2>1, <2>2 DEF Threads, Types, Inactive
  <2> HIDE DEF F, D, I, A
  <2>4. Cardinality(A') = Cardinality(A) - 1
    BY <1>1, <2>3, FS_RemoveElement
  <2>5. (HPS_PER_PAGE - 1) * Cardinality(A')
        = (HPS_PER_PAGE - 1) * Cardinality(A) - (HPS_PER_PAGE - 1)
    BY <1>1, <1>3, <2>4
  <2>6. (HPS_PER_PAGE - 1) * Cardinality(A) \in Int
    BY <1>1, <1>3
  <2> QED BY <1>1, <1>2, <1>3, <2>1, <2>3, <2>5, <2>6
<1>9. CASE FreeActive(t)
  <2> DEFINE h == hazard_ptr[t]
  <2>1. /\ pc[t] = "idle" /\ pc' = [pc EXCEPT ![t] = "inc"] /\ num_free' = num_free
        /\ active' = [active EXCEPT ![h] = 0]
    BY <1>9 DEF FreeActive, Goto
  <2>2. h \in Known /\ active[h] = 1
    BY <2>1 DEF ThreadsOK, OwnOK, Settled, Keeping, Owns, Own
  <2>3. Known' = Known
    BY <1>9, KnownElsewhere DEF Elsewhere
  <2>4. F' = F \cup {h} /\ h \notin F
    BY <1>4, <2>1, <2>2, <2>3 DEF Inactive, Types
  <2>5. I' = I \cup {t} /\ t \notin I /\ A' = A /\ D' = D
    BY <2>1 DEF Threads, Types
  <2> HIDE DEF F, D, I, A
  <2>6. Cardinality(F') = Cardinality(F) + 1
    BY <1>1, <2>4, FS_AddElement
  <2>7. Cardinality(I') = Cardinality(I) + 1
    BY <1>1, <2>5, FS_AddElement
  <2> QED BY <1>1, <1>2, <1>3, <2>1, <2>5, <2>6, <2>7
<1>10. CASE FreeInc(t)
  <2>1. /\ pc[t] = "inc" /\ pc' = [pc EXCEPT ![t] = "off"] /\ active' = active
        /\ num_free' = num_free + 1
    BY <1>10 DEF FreeInc, Goto
  <2>2. Known' = Known
    BY <1>10, KnownElsewhere DEF Elsewhere
  <2>3. I' = I \ {t} /\ t \in I /\ A' = A /\ D' = D /\ F' = F
    BY <2>1, <2>2 DEF Threads, Types, Inactive
  <2> HIDE DEF F, D, I, A
  <2>4. Cardinality(I') = Cardinality(I) - 1
    BY <1>1, <2>3, FS_RemoveElement
  <2> QED BY <1>1, <1>2, <1>3, <2>1, <2>3, <2>4
<1>11. CASE /\ Xchg(t) => active[hp[t]] # 0
            /\ CasPage(t) => head # top[t]
            /\ ~ Take(t) /\ ~ AddFree(t) /\ ~ FreeActive(t) /\ ~ FreeInc(t)
  <2>1. Xchg(t) => active[hp[t]] = 1
    BY <1>11 DEF Xchg, Goto, ThreadsOK, OwnOK, Types
  <2>2. Elsewhere(t) \/ MapPage(t) \/ (CasPage(t) /\ head # top[t])
    BY <1>11
  <2>3. ~ Take(t) /\ ~ AddFree(t) /\ ~ FreeActive(t) /\ ~ FreeInc(t)
    BY <1>11
  <2>4. num_free' = num_free /\ F' = F /\ D' = D /\ I' = I /\ A' = A
    BY <2>1, <2>2, <2>3, CountStays
  <2> QED BY <1>2, <2>4
<1> QED BY <1>5, <1>6, <1>7, <1>8, <1>9, <1>10, <1>11

(***************************************************************************)
(* The invariant and the theorems                                          *)
(***************************************************************************)
LEMMA NextKind ==
  ASSUME NEW t \in Thread,
         \/ Start(t) \/ Walk(t) \/ Xchg(t) \/ Take(t)
         \/ MapPage(t) \/ LinkPage(t) \/ CasPage(t) \/ AddFree(t)
         \/ \E s \in Superpage : SetCount(t, s) \/ Scan(t, s)
         \/ SetNode(t) \/ ClrNode(t) \/ ClrCount(t)
         \/ ScanCount(t) \/ ScanNode(t) \/ ScanFalse(t)
         \/ FreeActive(t) \/ FreeInc(t)
  PROVE  Elsewhere(t) \/ MapPage(t) \/ CasPage(t)
BY DEF Elsewhere

LEMMA InitInv ==
  ASSUME ConstantsOK, Init
  PROVE  IInv
<1>1. HPS_PER_PAGE \in Nat /\ MAX_NUM_THREADS \in Nat \ {0}
  BY DEF ConstantsOK
<1>2. Mapped = 0 /\ Known = {} /\ Hp \subseteq Nat
  BY <1>1 DEF Init, Mapped, Known, Hp
<1>3. Types
  BY DEF Init, Types, PcValues
<1>4. \A label : label # "off" => Threads(label) = {}
  BY DEF Init, Threads
<1>5. PagesFit
  <2>1. {t \in Thread : pc[t] \in Searching} = {}
    BY DEF Init, Searching
  <2>2. Cardinality({t \in Thread : pc[t] \in Searching}) = 0
    BY <2>1, FS_EmptySet
  <2>3. mapped = 0 /\ g_id = 1 /\ \A h \in Hp : active[h] = 0
    BY DEF Init
  <2> QED BY <1>1, <2>2, <2>3 DEF PagesFit
<1>6. \A t \in Thread : pc[t] = "off" /\ hazard_ptr[t] = NULL /\ hp[t] = NULL /\ top[t] = NULL
                        /\ set_all_along[t] = {} /\ thread_id[t] = 0
  BY DEF Init
<1>7. ThreadsOK
  BY <1>6 DEF ThreadsOK, OwnOK, SetOK, Owns, Keeping, Settled, Linking, Walking, Init
<1>8. Apart
  BY <1>6 DEF Apart, Owns, Keeping, Settled, Linking
<1>9. Chain
  <2>1. PICK rank : rank = [h \in Hp |-> 0]
    OBVIOUS
  <2>2. rank \in [Hp -> Nat] /\ Ordered(rank, 0) /\ Ahead(rank)
    BY <1>2, <1>6, <2>1 DEF Ordered, Ahead, Init
  <2> QED BY <2>2 DEF Chain
<1>10. FreeCounted
  <2>1. Inactive = {} /\ Threads("dec") = {} /\ Threads("inc") = {} /\ Threads("add") = {}
    BY <1>2, <1>4 DEF Inactive
  <2>2. Cardinality(Inactive) = 0 /\ Cardinality(Threads("dec")) = 0
        /\ Cardinality(Threads("inc")) = 0 /\ Cardinality(Threads("add")) = 0
    BY <2>1, FS_EmptySet
  <2>3. num_free = 0
    BY DEF Init
  <2> QED BY <1>1, <2>2, <2>3 DEF FreeCounted, Inactive
<1> QED BY <1>3, <1>5, <1>7, <1>8, <1>9, <1>10 DEF IInv

LEMMA InvStep ==
  ASSUME ConstantsOK, IInv, [Next]_vars
  PROVE  IInv'
<1> Types /\ PagesFit /\ ThreadsOK /\ Apart /\ Chain /\ FreeCounted
  BY DEF IInv
<1>1. Types'
  BY TypesStep
<1>2. CASE UNCHANGED vars
  <2>1. PagesFit' /\ ThreadsOK' /\ Apart' /\ FreeCounted'
    BY <1>2 DEF vars, listVars, nodeVars, thrVars, PagesFit, ThreadsOK, Apart,
       FreeCounted, OwnOK, SetOK, PageOK, IsSet, Owns, Own, Known, Threads, Mapped, Hp,
       PageAt, Last
  <2>2. PICK n \in Nat, rank \in [Hp -> Nat] : Ordered(rank, n) /\ Ahead(rank)
    BY DEF Chain
  <2>3. Known' = Known
    BY <1>2 DEF vars, listVars, nodeVars, thrVars, Known, Threads, PageAt, Last
  <2>4. Ordered(rank, n)' /\ Ahead(rank)'
    BY <1>2, <2>2, <2>3 DEF vars, listVars, nodeVars, thrVars, Ordered, Ahead
  <2> QED BY <1>1, <2>1, <2>2, <2>4 DEF IInv, Chain, Hp
<1>3. CASE Next
  <2>1. PICK t \in Thread : Elsewhere(t) \/ MapPage(t) \/ CasPage(t)
    BY <1>3, NextKind DEF Next
  <2> QED BY <1>1, <2>1, PagesFitStep, ThreadsStep, ApartStep, ChainStep, FreeCountedStep
      DEF IInv
<1> QED BY <1>2, <1>3

(* A thread that starts never gets a hazard pointer or an id that another  *)
(* thread has (hazard_ptr_alloc, tlh_init), nor a second hazard pointer.   *)
LEMMA InvOneThreadEach ==
  ASSUME IInv
  PROVE  OneThreadEach
<1> Types /\ ThreadsOK /\ Apart
  BY DEF IInv
<1>1. \A t \in Thread : Held(t) = IF Owns(t) THEN {Own(t)} ELSE {}
  BY DEF Held, Owns, Own, ThreadsOK, OwnOK, Types, PcValues, Keeping, Settled, Linking,
     Searching, Walking
<1>2. \A t, u \in Thread : t # u => Held(t) \cap Held(u) = {}
  BY <1>1 DEF Apart
<1>3. ASSUME NEW t \in Thread PROVE Cardinality(Held(t)) <= 1
  <2>1. CASE Owns(t)
    <3>1. Held(t) = {Own(t)}
      BY <1>1, <2>1
    <3>2. Cardinality(Held(t)) = 1
      BY <3>1, FS_Singleton, Zenon
    <3> QED BY <3>2
  <2>2. CASE ~ Owns(t)
    <3>1. Held(t) = {}
      BY <1>1, <2>2
    <3>2. Cardinality(Held(t)) = 0
      BY <3>1, FS_EmptySet, Zenon
    <3> QED BY <3>2
  <2> QED BY <2>1, <2>2
<1>4. \A t \in Thread : \A h \in Held(t) : active[h] = 1
  BY <1>1 DEF ThreadsOK, OwnOK
<1> QED BY <1>2, <1>3, <1>4 DEF OneThreadEach, Apart

LEMMA InvNoneMissed ==
  ASSUME IInv
  PROVE  NoneMissed
BY DEF IInv, Chain, Ahead, NoneMissed

(***************************************************************************)
(* From the end of the walk, backwards: the list is finite                 *)
(***************************************************************************)
LEMMA Least ==
  ASSUME NEW S, S \subseteq Nat, S # {}
  PROVE  \E m \in S : \A k \in S : m <= k
<1>1. IsWellFoundedOn(OpToRel(<, Nat), Nat)
  BY NatLessThanWellFounded
<1>2. PICK m \in S : \A k \in S : ~ (<<k, m>> \in OpToRel(<, Nat))
  BY <1>1, WFMin
<1>3. \A k \in S : ~ (k < m)
  BY <1>2 DEF OpToRel
<1> QED BY <1>3

(* The walk along the list is the hazard pointers by falling rank.         *)
LEMMA WalkByRank ==
  ASSUME ConstantsOK, IInv, NEW n \in Nat, NEW rank \in [Hp -> Nat], Ordered(rank, n)
  PROVE  /\ n = Cardinality(Known) /\ Listed[n] = NULL
         /\ \A k \in 0 .. n - 1 : Listed[k] \in Known /\ rank[Listed[k]] = n - k
<1> DEFINE D == 0 .. Cardinality(Hp)
           Nxt(h) == IF h = NULL THEN NULL ELSE hpnext[h]
           At(i) == CHOOSE h \in Known : rank[h] = i
           IsWalk(g) == g = [k \in D |-> IF k = 0 THEN head ELSE Nxt(g[k - 1])]
<1>1. /\ Known \subseteq Hp /\ IsFiniteSet(Hp) /\ NULL \notin Known
      /\ Cardinality(Known) <= Cardinality(Hp) /\ Cardinality(Hp) \in Nat
      /\ IsFiniteSet(Known) /\ Cardinality(Known) \in Nat
  <2>1. Known \subseteq Hp /\ NULL \notin Known
    BY MappedWithin DEF IInv, Hp, ConstantsOK
  <2>2. IsFiniteSet(Hp)
    BY FS_Interval DEF Hp, ConstantsOK
  <2> QED BY <2>1, <2>2, FS_Subset, FS_CardinalityType
<1>2. n = Cardinality(Known)
  <2>1. PICK f : f = [h \in Known |-> rank[h]]
    OBVIOUS
  <2>2. f \in Bijection(Known, 1 .. n)
    BY <2>1 DEF Ordered, Bijection, Injection, Surjection, IsInjective
  <2>3. Cardinality(1 .. n) = Cardinality(Known)
    BY <1>1, <2>2, FS_Bijection DEF ExistsBijection
  <2> QED BY <2>3, FS_Interval
<1>3. \A i \in 1 .. n : At(i) \in Known /\ rank[At(i)] = i
  BY DEF Ordered
<1>4. \A h \in Known : h = At(rank[h])
  BY <1>3 DEF Ordered
<1> HIDE DEF At
<1>5. PICK w : w = [k \in D |-> IF k < n THEN At(n - k) ELSE NULL]
  OBVIOUS
<1>6. w[0] = head
  <2>1. 0 \in D /\ w[0] = IF 0 < n THEN At(n) ELSE NULL
    BY <1>1, <1>5
  <2>2. CASE n = 0
    BY <2>1, <2>2 DEF Ordered
  <2>3. CASE n # 0
    <3>1. head \in Known /\ rank[head] = n
      BY <2>3 DEF Ordered
    <3> QED BY <2>1, <2>3, <3>1, <1>4
  <2> QED BY <2>2, <2>3
<1>7. ASSUME NEW k \in D \ {0} PROVE w[k] = Nxt(w[k - 1])
  <2>1. k \in Nat /\ k - 1 \in D /\ w[k] = (IF k < n THEN At(n - k) ELSE NULL)
        /\ w[k - 1] = IF k - 1 < n THEN At(n - (k - 1)) ELSE NULL
    BY <1>1, <1>5
  <2>2. CASE k - 1 < n
    <3>1. w[k - 1] \in Known /\ rank[w[k - 1]] = n - k + 1 /\ w[k - 1] # NULL
      BY <1>1, <1>3, <2>1, <2>2
    <3>2. IF n - k + 1 = 1 THEN hpnext[w[k - 1]] = NULL
          ELSE hpnext[w[k - 1]] \in Known /\ rank[hpnext[w[k - 1]]] = n - k
      BY <2>1, <2>2, <3>1 DEF Ordered
    <3>3. CASE k = n
      BY <2>1, <3>1, <3>2, <3>3
    <3>4. CASE k # n
      <4>1. hpnext[w[k - 1]] = At(n - k) /\ k < n
        BY <1>4, <2>1, <2>2, <3>2, <3>4
      <4> QED BY <2>1, <3>1, <4>1
    <3> QED BY <3>3, <3>4
  <2>3. CASE ~ (k - 1 < n)
    BY <2>1, <2>3
  <2> QED BY <2>2, <2>3
<1>8. IsWalk(w)
  BY <1>5, <1>6, <1>7
<1>9. Listed = CHOOSE g : IsWalk(g)
  BY DEF Listed
<1>10. IsWalk(Listed)
  BY <1>8, <1>9
<1>11. \A k \in D : Listed[k] = w[k]
  <2> DEFINE B == {k \in D : Listed[k] # w[k]}
  <2>1. SUFFICES ASSUME B # {} PROVE FALSE
    OBVIOUS
  <2>2. PICK m \in B : \A k \in B : m <= k
    <3>1. B \subseteq Nat
      BY <1>1
    <3> HIDE DEF B
    <3> QED BY <2>1, <3>1, Least
  <2>3. m \in D /\ m \in Nat /\ Listed[m] # w[m] /\ Cardinality(Hp) \in Nat
    BY <1>1
  <2>4. Listed[0] = head /\ 0 \in D
    BY <1>1, <1>10
  <2>5. m # 0
    BY <1>6, <2>3, <2>4
  <2>6. m - 1 \in D /\ ~ (m <= m - 1)
    BY <2>3, <2>5
  <2>7. Listed[m - 1] = w[m - 1]
    BY <2>2, <2>6
  <2>8. Listed[m] = Nxt(Listed[m - 1])
    BY <1>10, <2>3, <2>5
  <2> QED BY <1>7, <2>3, <2>5, <2>7, <2>8
<1>12. n \in D /\ \A k \in 0 .. n - 1 : k \in D
  BY <1>1, <1>2
<1>13. Listed[n] = NULL
  BY <1>5, <1>11, <1>12
<1>14. \A k \in 0 .. n - 1 : Listed[k] = At(n - k)
  BY <1>5, <1>11, <1>12
<1> QED BY <1>2, <1>3, <1>13, <1>14

LEMMA InvListComplete ==
  ASSUME ConstantsOK, IInv
  PROVE  ListComplete
<1>1. PICK n \in Nat, rank \in [Hp -> Nat] : Ordered(rank, n)
  BY DEF IInv, Chain
<1>2. /\ n = Cardinality(Known) /\ Listed[n] = NULL
      /\ \A k \in 0 .. n - 1 : Listed[k] \in Known /\ rank[Listed[k]] = n - k
  BY <1>1, WalkByRank
<1>3. NULL \notin Known
  BY MappedWithin DEF IInv, Hp, ConstantsOK
<1>4. {Listed[k] : k \in 0 .. n} \ {NULL} \subseteq Known
  <2>1. \A k \in 0 .. n : k = n \/ k \in 0 .. n - 1
    OBVIOUS
  <2> QED BY <1>2, <2>1
<1>5. ASSUME NEW h \in Known PROVE \E k \in 0 .. n : Listed[k] = h
  <2>1. rank[h] \in 1 .. n /\ n - rank[h] \in 0 .. n - 1
    BY <1>1 DEF Ordered
  <2>2. Listed[n - rank[h]] \in Known /\ rank[Listed[n - rank[h]]] = n - (n - rank[h])
    BY <1>2, <2>1
  <2>3. Listed[n - rank[h]] = h
    BY <1>1, <2>1, <2>2 DEF Ordered
  <2> QED BY <2>1, <2>3
<1>6. Known \subseteq {Listed[k] : k \in 0 .. n} \ {NULL}
  BY <1>3, <1>5
<1> QED BY <1>2, <1>4, <1>6 DEF ListComplete

(* The inductive invariant holds in every state.                           *)
THEOREM Invariant == ConstantsOK /\ Spec => []IInv
<1> SUFFICES ASSUME ConstantsOK PROVE Spec => []IInv
  OBVIOUS
<1>1. Init => IInv
  BY InitInv
<1>2. IInv /\ [Next]_vars => IInv'
  BY InvStep
<1> QED BY <1>1, <1>2, PTL DEF Spec

(* However threads start and exit at once, none gets a hazard pointer that *)
(* another one has, nor a second one, nor the id of another, and what a    *)
(* thread holds is active (hazard_ptr_alloc, hazard_ptr_free, tlh_init).   *)
THEOREM OneEach == ConstantsOK /\ Spec => []OneThreadEach
<1>1. IInv => OneThreadEach
  BY InvOneThreadEach
<1> QED BY <1>1, Invariant, PTL

(* A scan that finds nothing (hazard_ptr_scan_single) has passed the       *)
(* hazard pointer of every thread that had the superpage set all along.    *)
THEOREM ScanMissesNone == ConstantsOK /\ Spec => []NoneMissed
<1>1. IInv => NoneMissed
  BY InvNoneMissed
<1> QED BY <1>1, Invariant, PTL

(* num_free is off by no more than the threads that are about to change it *)
(* (hazard_ptr_alloc, hazard_ptr_free).                                    *)
THEOREM CountOfFree == ConstantsOK /\ Spec => []FreeCounted
<1>1. IInv => FreeCounted
  BY DEF IInv
<1> QED BY <1>1, Invariant, PTL

(* The list ends, and on it is every hazard pointer of the pages that have *)
(* been put on it (hazard_ptr_alloc), however many threads do so at once.  *)
THEOREM ListHasAll == ConstantsOK /\ Spec => []ListComplete
<1> SUFFICES ASSUME ConstantsOK PROVE Spec => []ListComplete
  OBVIOUS
<1>1. IInv => ListComplete
  BY InvListComplete
<1> QED BY <1>1, Invariant, PTL
=============================================================================
