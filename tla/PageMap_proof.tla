--------------------------- MODULE PageMap_proof ---------------------------
(* Theorems about PageMap, for every size of the tree, set of threads and  *)
(* address space.                                                          *)
EXTENDS PageMap, FiniteSetTheorems, TLAPS

----------------------------------------------------------------------------
(* The inductive invariant                                                 *)

Expanding == {"node", "casnode", "leaf", "casleaf"}
Rooting   == {"set", "made", "unmap", "clear", "erase", "unmapsp"}
PcValues  == {"idle", "lost"} \cup Expanding \cup Rooting

\* What is mapped at once, or what is left of it.
Block ==
  {b \in [kind : {"huge", "sp"}, at : Page, len : 1 .. ROOM] :
     /\ b.kind = "sp" => b.len = 1 + SUPERPAGE_LEN
     /\ Extent(b) \subseteq Page}

Types ==
  /\ node \in [Slot -> Obj \cup {NULL}]
  /\ mem \in [Obj -> [Slot -> Obj \cup {NULL, "huge", "pbh"}]]
  /\ live \subseteq Obj
  /\ l_pagemap_tag \in [Thread -> Tag \cup {-1}]
  /\ l_pagemap_leaf \in [Thread -> Obj \cup {NULL}]
  /\ blocks \subseteq Block /\ cur \in [Thread -> Block \cup {NULL}]
  /\ pc \in [Thread -> PcValues]
  /\ key \in [Thread -> Nat] /\ cut \in [Thread -> Nat]
  /\ new \in [Thread -> Obj \cup {NULL}]
  /\ interior \in [Thread -> Obj \cup {NULL}]

\* The leaf in a slot of the node in a slot of the root.
LeafAt(i, j) == IF node[i] = NULL THEN NULL ELSE mem[node[i]][j]

\* Each node and each leaf is in one place.
TreeOK ==
  /\ \A i \in Slot : node[i] # NULL => node[i] \in live
  /\ \A i, j \in Slot : LeafAt(i, j) # NULL => LeafAt(i, j) \in live
  /\ \A i, j \in Slot : node[i] # NULL /\ node[i] = node[j] => i = j
  /\ \A i, j, k \in Slot : LeafAt(i, j) # NULL => LeafAt(i, j) # node[k]
  /\ \A i, j, k, l \in Slot :
       LeafAt(i, j) # NULL /\ LeafAt(i, j) = LeafAt(k, l) => i = k /\ j = l

\* What a thread has mapped for the tree is its own, and empty.
NewOK(t) ==
  new[t] # NULL =>
    /\ new[t] \in live /\ \A j \in Slot : mem[new[t]][j] = NULL
    /\ \A i \in Slot : node[i] # new[t]
    /\ \A i, j \in Slot : LeafAt(i, j) # new[t]
    /\ \A u \in Thread : u # t => new[u] # new[t]

HasLeaf(p) == LeafOf(p \div LEN) # NULL
Rooted(b)  == \A p \in Entries(b) : HasLeaf(p)

\* Where a thread is with the block it makes or frees.
ThreadOK(t) ==
  /\ pc[t] \in Expanding \cup Rooting => cur[t] \in Block
  /\ pc[t] \in Expanding \cup {"set", "erase"} => key[t] \in Entries(cur[t])
  /\ pc[t] \in Expanding =>
       \A p \in Entries(cur[t]) : p \div LEN < key[t] \div LEN => HasLeaf(p)
  /\ pc[t] \in {"leaf", "casleaf"} => node[I1(t)] # NULL
  /\ pc[t] = "casleaf" => interior[t] = node[I1(t)]
  /\ pc[t] \in {"casnode", "casleaf"} => new[t] # NULL
  /\ pc[t] \in Rooting => Rooted(cur[t])
  /\ pc[t] \in {"unmap", "clear"} =>
       cur[t].kind = "huge" /\ cut[t] \in 1 .. cur[t].len
  /\ pc[t] \in {"erase", "unmapsp"} => cur[t].kind = "sp"

\* The leaf a thread has cached is the one of the tag, for good.
TagOK(t) ==
  l_pagemap_tag[t] # -1 =>
    /\ l_pagemap_leaf[t] = LeafOf(l_pagemap_tag[t])
    /\ l_pagemap_leaf[t] # NULL

TInv ==
  /\ Types /\ TreeOK
  /\ \A t \in Thread : NewOK(t) /\ ThreadOK(t) /\ TagOK(t)
  /\ \A b \in blocks : Rooted(b)

\* The pages that a block or a thread keeps others away from: a thread that has
\* unmapped a huge block has yet to clear its entry.
Kept(t) == IF cur[t] # NULL /\ pc[t] = "clear" THEN Mapped(t) \cup {cur[t].at}
           ELSE Mapped(t)

\* The entry of a page of a block that is in use.
EntryOf(b, p) == IF p \in Entries(b) THEN Mark(b) ELSE NULL

\* The entries a thread has entered, or not yet cleared.
EntryNow(t, p) ==
  CASE pc[t] = "set" /\ p < key[t] -> EntryOf(cur[t], p)
    [] pc[t] = "erase" /\ p >= key[t] -> EntryOf(cur[t], p)
    [] pc[t] \in {"made", "unmap"} -> EntryOf(cur[t], p)
    [] pc[t] = "clear" /\ p = cur[t].at -> "huge"
    [] OTHER -> NULL

SpaceOK ==
  /\ \A b, c \in blocks : b # c => Extent(b) \cap Extent(c) = {}
  /\ \A b \in blocks, t \in Thread : Extent(b) \cap Kept(t) = {}
  /\ \A t, u \in Thread : t # u => Kept(t) \cap Kept(u) = {}
  /\ \A t \in Thread : pc[t] = "idle" => cur[t] = NULL

EntriesOK ==
  \A p \in Page :
    /\ \A b \in blocks : p \in Extent(b) => Entry(p) = EntryOf(b, p)
    /\ \A t \in Thread : p \in Kept(t) => Entry(p) = EntryNow(t, p)
    /\ (\A b \in blocks : p \notin Extent(b)) /\ (\A t \in Thread : p \notin Kept(t))
         => Entry(p) = NULL

EInv == SpaceOK /\ EntriesOK /\ \A t \in Thread : pc[t] # "lost"

----------------------------------------------------------------------------
(* Places in the tree                                                      *)

LEMMA DivMod ==
  ASSUME NEW n \in Nat \ {0}, NEW x \in Nat
  PROVE  x \div n \in Nat /\ x % n \in 0 .. n - 1 /\ x = n * (x \div n) + (x % n)
OBVIOUS

LEMMA DivBound ==
  ASSUME NEW n \in Nat \ {0}, NEW m \in Nat, NEW x \in Nat, x < n * m
  PROVE  x \div n < m
OBVIOUS

LEMMA DivDiv ==
  ASSUME NEW n \in Nat \ {0}, NEW x \in Nat
  PROVE  x \div (n * n) = (x \div n) \div n
OBVIOUS

LEMMA DivMono ==
  ASSUME NEW n \in Nat \ {0}, NEW x \in Nat, NEW y \in Nat, x <= y
  PROVE  x \div n <= y \div n
OBVIOUS

LEMMA DivMult ==
  ASSUME NEW n \in Nat \ {0}, NEW a \in Nat
  PROVE  (a * n) \div n = a
OBVIOUS

(* The slots of a tag and of a page.                                       *)
LEMMA TagSlots ==
  ASSUME ConstantsOK, NEW tag \in Tag
  PROVE  tag \in Nat /\ tag \div LEN \in Slot /\ tag % LEN \in Slot
<1>1. tag \in Nat /\ LEN \in Nat \ {0} /\ tag < LEN * LEN
  BY DEF Tag, ConstantsOK
<1>2. tag \div LEN \in Nat /\ tag % LEN \in 0 .. LEN - 1
  BY <1>1, DivMod
<1>3. tag \div LEN < LEN
  BY <1>1, DivBound
<1>4. \A x \in Nat : x < LEN => x \in 0 .. LEN - 1
  BY <1>1
<1>5. tag \div LEN \in 0 .. LEN - 1
  BY <1>2, <1>3, <1>4, Zenon
<1> QED BY <1>1, <1>2, <1>5, Zenon DEF Slot

LEMMA PageSlots ==
  ASSUME ConstantsOK, NEW p \in Page
  PROVE  /\ p \in Nat /\ p \div LEN \in Tag /\ p % LEN \in Slot
         /\ p \div (LEN * LEN) = (p \div LEN) \div LEN
         /\ p \div (LEN * LEN) \in Slot /\ (p \div LEN) % LEN \in Slot
<1>1. p \in Nat /\ LEN \in Nat \ {0} /\ p < LEN * (LEN * LEN) /\ LEN * LEN \in Nat
  BY DEF ConstantsOK, ROOM
<1>2. p \div LEN \in Nat /\ p % LEN \in 0 .. LEN - 1
  BY <1>1, DivMod
<1>3. p \div LEN < LEN * LEN
  BY <1>1, DivBound
<1>4. p \div LEN \in Tag
  BY <1>1, <1>2, <1>3 DEF Tag
<1>5. p \div (LEN * LEN) = (p \div LEN) \div LEN
  BY <1>1, DivDiv
<1> QED BY <1>1, <1>2, <1>4, <1>5, TagSlots DEF Slot

LEMMA RoomIsNat ==
  ASSUME ConstantsOK
  PROVE  /\ ROOM \in Nat \ {0} /\ LEN \in Nat \ {0} /\ SUPERPAGE_LEN \in Nat \ {0}
         /\ HugeLens \subseteq Nat \ {0} /\ Page \subseteq 0 .. ROOM - 1
BY DEF ConstantsOK, ROOM

LEMMA TagOfSlots ==
  ASSUME ConstantsOK, NEW a \in Tag, NEW b \in Tag,
         a \div LEN = b \div LEN, a % LEN = b % LEN
  PROVE  a = b
<1>1. a \in Nat /\ b \in Nat /\ LEN \in Nat \ {0}
  BY DEF Tag, ConstantsOK
<1>2. a = LEN * (a \div LEN) + (a % LEN) /\ b = LEN * (b \div LEN) + (b % LEN)
  BY <1>1, DivMod
<1> QED BY <1>2

LEMMA PageOfSlots ==
  ASSUME ConstantsOK, NEW p \in Page, NEW q \in Page,
         p \div LEN = q \div LEN, p % LEN = q % LEN
  PROVE  p = q
<1>1. p \in Nat /\ q \in Nat /\ LEN \in Nat \ {0}
  BY PageSlots DEF ConstantsOK
<1>2. p = LEN * (p \div LEN) + (p % LEN) /\ q = LEN * (q \div LEN) + (q % LEN)
  BY <1>1, DivMod
<1> QED BY <1>2

(***************************************************************************)
(* Blocks                                                                  *)
(***************************************************************************)
LEMMA Least ==
  ASSUME NEW S, S \subseteq Nat, S # {}
  PROVE  \E m \in S : \A k \in S : m <= k
<1>1. IsWellFoundedOn(OpToRel(<, Nat), Nat)
  BY NatLessThanWellFounded
<1>2. PICK m \in S : \A k \in S : ~ (<<k, m>> \in OpToRel(<, Nat))
  BY <1>1, WFMin
<1>3. \A k \in S : ~ (k < m)
  BY <1>2 DEF OpToRel
<1> QED BY <1>3

LEMMA MinMaxOfRun ==
  ASSUME NEW lo \in Nat, NEW hi \in Nat, lo <= hi
  PROVE  Min(lo .. hi) = lo /\ Max(lo .. hi) = hi
<1> DEFINE S == lo .. hi
<1>1. lo \in S /\ hi \in S /\ \A y \in S : y \in Nat /\ lo <= y /\ hi >= y
  OBVIOUS
<1> HIDE DEF S
<1>2. Min(S) \in S /\ \A y \in S : Min(S) <= y
  BY <1>1 DEF Min
<1>3. Max(S) \in S /\ \A y \in S : Max(S) >= y
  BY <1>1 DEF Max
<1>4. Min(S) \in Nat /\ Max(S) \in Nat /\ lo <= Min(S) /\ Min(S) <= lo
      /\ hi <= Max(S) /\ Max(S) <= hi
  BY <1>1, <1>2, <1>3
<1>5. Min(S) = lo /\ Max(S) = hi
  BY <1>4
<1> QED BY <1>5 DEF S

(* The entries of a block are a run of its pages.                          *)
LEMMA EntriesOfBlock ==
  ASSUME ConstantsOK, NEW b \in Block
  PROVE  /\ b.at \in Page /\ b.at \in Nat /\ b.len \in Nat \ {0}
         /\ Extent(b) \subseteq Page /\ b.at \in Extent(b)
         /\ Entries(b) \subseteq Extent(b)
         /\ Min(Entries(b)) \in Nat /\ Max(Entries(b)) \in Nat
         /\ Min(Entries(b)) <= Max(Entries(b))
         /\ Entries(b) = Min(Entries(b)) .. Max(Entries(b))
         /\ b.kind = "huge" => Entries(b) = {b.at} /\ Min(Entries(b)) = b.at
         /\ b.kind = "sp" => b.at \notin Entries(b) /\ Entries(b) = Extent(b) \ {b.at}
<1>1. /\ b.kind \in {"huge", "sp"} /\ b.at \in Page /\ b.len \in 1 .. ROOM
      /\ b.kind = "sp" => b.len = 1 + SUPERPAGE_LEN
      /\ Extent(b) \subseteq Page
  BY DEF Block
<1>2. b.at \in Nat /\ b.len \in Nat \ {0} /\ SUPERPAGE_LEN \in Nat \ {0}
  BY <1>1, RoomIsNat
<1>3. b.at \in Extent(b)
  BY <1>2 DEF Extent
<1>4. CASE b.kind = "huge"
  <2>1. Entries(b) = {b.at} /\ Entries(b) = b.at .. b.at
    BY <1>2, <1>4 DEF Entries
  <2>2. Min(b.at .. b.at) = b.at /\ Max(b.at .. b.at) = b.at
    <3>1. b.at <= b.at
      BY <1>2
    <3> QED BY <1>2, <3>1, MinMaxOfRun
  <2>3. Min(Entries(b)) = b.at /\ Max(Entries(b)) = b.at
    BY <2>1, <2>2
  <2> QED BY <1>1, <1>2, <1>3, <1>4, <2>1, <2>3
<1>5. CASE b.kind = "sp"
  <2> DEFINE lo == b.at + 1
             hi == b.at + SUPERPAGE_LEN
  <2>1. Entries(b) = Extent(b) \ {b.at} /\ Extent(b) = b.at .. b.at + SUPERPAGE_LEN
    BY <1>1, <1>2, <1>5 DEF Entries, Extent
  <2>2. Entries(b) = lo .. hi /\ lo \in Nat /\ hi \in Nat /\ lo <= hi
    BY <1>2, <2>1
  <2>3. Min(Entries(b)) = lo /\ Max(Entries(b)) = hi
    BY <2>2, MinMaxOfRun
  <2> HIDE DEF lo, hi
  <2> QED BY <1>1, <1>2, <1>3, <1>5, <2>1, <2>2, <2>3
<1> QED BY <1>1, <1>4, <1>5

LEMMA NotNull ==
  ASSUME ConstantsOK, NEW b \in Block
  PROVE  b # NULL
<1>1. \A p \in Page, len \in 1 .. ROOM : Huge(p, len) # NULL /\ Sp(p) # NULL
  BY DEF ConstantsOK
<1>2. PICK p \in Page, len \in 1 .. ROOM, kind \in {"huge", "sp"} :
        /\ b = [kind |-> kind, at |-> p, len |-> len]
        /\ kind = "sp" => len = 1 + SUPERPAGE_LEN
  BY DEF Block
<1>3. b = Huge(p, len) \/ b = Sp(p)
  BY <1>2 DEF Huge, Sp
<1> QED BY <1>1, <1>3

LEMMA NewBlocksAre ==
  ASSUME ConstantsOK, NEW b \in NewBlocks
  PROVE  b \in Block
<1>1. PICK p \in Page : (\E len \in HugeLens : b = Huge(p, len)) \/ b = Sp(p)
  BY DEF NewBlocks
<1>2. Extent(b) \subseteq Page
  BY DEF NewBlocks
<1>3. p \in Nat /\ ROOM \in Nat
  BY RoomIsNat
<1>4. b.kind \in {"huge", "sp"} /\ b.at = p /\ b.len \in Nat \ {0}
      /\ (b.kind = "sp" => b.len = 1 + SUPERPAGE_LEN)
      /\ b = [kind |-> b.kind, at |-> b.at, len |-> b.len]
  BY <1>1, RoomIsNat DEF Huge, Sp
<1>5. p + b.len - 1 \in Extent(b)
  BY <1>3, <1>4 DEF Extent
<1>6. p + b.len - 1 < ROOM
  BY <1>2, <1>3, <1>4, <1>5, RoomIsNat
<1>7. b.len \in 1 .. ROOM
  BY <1>3, <1>4, <1>6
<1>8. b \in [kind : {"huge", "sp"}, at : Page, len : 1 .. ROOM]
  BY <1>4, <1>7
<1> QED BY <1>2, <1>4, <1>8 DEF Block

----------------------------------------------------------------------------
(* What a step does to the tree                                            *)

NewsOK == \A t \in Thread : NewOK(t)

TreeTypes ==
  /\ node \in [Slot -> Obj \cup {NULL}]
  /\ mem \in [Obj -> [Slot -> Obj \cup {NULL, "huge", "pbh"}]]
  /\ live \subseteq Obj /\ new \in [Thread -> Obj \cup {NULL}]

Grows ==
  /\ \A i \in Slot : node[i] # NULL => node'[i] = node[i]
  /\ \A i, j \in Slot : LeafAt(i, j) # NULL => LeafAt(i, j)' = LeafAt(i, j)

Sound == TreeTypes /\ TreeOK /\ NewsOK

LEMMA NewIsFree ==
  ASSUME ConstantsOK, TreeTypes, Obj \ live # {}
  PROVE  NewObj \in Obj \ live
<1> DEFINE S == Obj \ live
<1>1. S \subseteq Nat /\ S # {}
  BY DEF ConstantsOK
<1> HIDE DEF S
<1>2. \E m \in S : \A k \in S : m <= k
  BY <1>1, Least
<1>3. Min(S) \in S
  BY <1>2 DEF Min
<1> QED BY <1>3 DEF S, NewObj

LEMMA SlotsOfTree ==
  ASSUME ConstantsOK, Sound, NEW i \in Slot, NEW j \in Slot
  PROVE  /\ node[i] # NULL => node[i] \in Obj /\ node[i] \in live
         /\ LeafAt(i, j) # NULL => LeafAt(i, j) \in Obj /\ LeafAt(i, j) \in live
         /\ NULL \notin Obj
BY DEF Sound, TreeTypes, TreeOK, ConstantsOK

(* New memory is in no place of the tree.                                  *)
LEMMA MapKeeps ==
  ASSUME ConstantsOK, Sound, NEW t \in Thread, MapObj(t), node' = node
  PROVE  /\ Sound' /\ Grows /\ new'[t] # NULL
         /\ \A i, j \in Slot : LeafAt(i, j)' = LeafAt(i, j)
         /\ \A o \in live : mem'[o] = mem[o]
<1>1. NewObj \in Obj \ live /\ NULL \notin Obj
  BY NewIsFree DEF MapObj, Sound, ConstantsOK
<1>2. PICK o \in Obj \ live : o = NewObj
  BY <1>1
<1>3. /\ new' = [new EXCEPT ![t] = o] /\ live' = live \cup {o}
      /\ mem' = [mem EXCEPT ![o] = [j \in Slot |-> NULL]]
  BY <1>2 DEF MapObj
<1>4. \A p \in live : mem'[p] = mem[p]
  BY <1>2, <1>3 DEF Sound, TreeTypes
<1>5. ASSUME NEW i \in Slot, NEW j \in Slot PROVE LeafAt(i, j)' = LeafAt(i, j)
  BY <1>4, SlotsOfTree DEF LeafAt
<1>6. TreeTypes'
  BY <1>2, <1>3 DEF Sound, TreeTypes
<1>7. TreeOK'
  BY <1>3, <1>5 DEF Sound, TreeOK
<1>8. ASSUME NEW u \in Thread PROVE NewOK(u)'
  <2>1. CASE u = t
    <3>1. new'[u] = o /\ \A j \in Slot : mem'[o][j] = NULL
      BY <1>2, <1>3, <2>1 DEF Sound, TreeTypes
    <3>2. \A i, j \in Slot : node'[i] # o /\ LeafAt(i, j)' # o
      BY <1>1, <1>2, <1>5, SlotsOfTree
    <3>3. \A v \in Thread : v # u => new'[v] # o
      BY <1>1, <1>2, <1>3, <2>1 DEF Sound, NewsOK, NewOK, TreeTypes
    <3> QED BY <1>3, <3>1, <3>2, <3>3 DEF NewOK
  <2>2. CASE u # t
    <3>1. new'[u] = new[u] /\ NewOK(u)
      BY <1>3, <2>2 DEF Sound, TreeTypes, NewsOK
    <3>2. SUFFICES ASSUME new[u] # NULL PROVE NewOK(u)'
      BY <3>1 DEF NewOK
    <3>3. new[u] \in live /\ mem'[new[u]] = mem[new[u]]
      BY <1>4, <3>1, <3>2 DEF NewOK
    <3>4. \A v \in Thread : v # u => new'[v] # new[u]
      BY <1>2, <1>3, <3>1, <3>2, <3>3 DEF NewOK, Sound, TreeTypes
    <3> QED BY <1>3, <1>5, <3>1, <3>3, <3>4 DEF NewOK
  <2> QED BY <2>1, <2>2
<1>9. new'[t] # NULL
  BY <1>1, <1>2, <1>3 DEF Sound, TreeTypes
<1> QED BY <1>4, <1>5, <1>6, <1>7, <1>8, <1>9 DEF Sound, NewsOK, Grows

(* The loser of a race unmaps what nobody else has.                        *)
LEMMA DropKeeps ==
  ASSUME ConstantsOK, Sound, NEW t \in Thread, new[t] # NULL,
         node' = node, mem' = mem, live' = live \ {new[t]},
         new' = [new EXCEPT ![t] = NULL]
  PROVE  /\ Sound' /\ Grows
         /\ \A i, j \in Slot : LeafAt(i, j)' = LeafAt(i, j)
<1>1. \A i, j \in Slot : LeafAt(i, j)' = LeafAt(i, j)
  BY DEF LeafAt
<1>2. NewOK(t) /\ new'[t] = NULL
  BY DEF Sound, NewsOK, TreeTypes
<1>3. TreeTypes'
  BY DEF Sound, TreeTypes
<1>4. TreeOK'
  BY <1>1, <1>2 DEF Sound, TreeOK, NewOK
<1>5. ASSUME NEW u \in Thread PROVE NewOK(u)'
  <2>1. CASE u = t
    BY <1>2, <2>1 DEF NewOK
  <2>2. CASE u # t
    <3>1. new'[u] = new[u] /\ NewOK(u)
      BY <2>2 DEF Sound, TreeTypes, NewsOK
    <3>2. SUFFICES ASSUME new[u] # NULL PROVE NewOK(u)'
      BY <3>1 DEF NewOK
    <3>3. new[u] # new[t]
      BY <2>2, <3>1, <3>2 DEF NewOK
    <3>4. \A v \in Thread : v # u => new'[v] # new[u]
      BY <3>1, <3>2 DEF NewOK, Sound, TreeTypes
    <3> QED BY <1>1, <3>1, <3>3, <3>4 DEF NewOK
  <2> QED BY <2>1, <2>2
<1> QED BY <1>1, <1>3, <1>4, <1>5 DEF Sound, NewsOK, Grows

(* The winner's node comes where there was none, and has no leaf.          *)
LEMMA NodeKeeps ==
  ASSUME ConstantsOK, Sound, NEW t \in Thread, new[t] # NULL,
         NEW k \in Slot, node[k] = NULL,
         node' = [node EXCEPT ![k] = new[t]], mem' = mem, live' = live,
         new' = [new EXCEPT ![t] = NULL]
  PROVE  /\ Sound' /\ Grows
         /\ \A i, j \in Slot : LeafAt(i, j)' = LeafAt(i, j)
<1>1. NewOK(t) /\ new'[t] = NULL /\ new[t] \in Obj
  BY DEF Sound, NewsOK, TreeTypes
<1>2. \A i \in Slot : node'[i] = IF i = k THEN new[t] ELSE node[i]
  BY DEF Sound, TreeTypes
<1>3. ASSUME NEW i \in Slot, NEW j \in Slot PROVE LeafAt(i, j)' = LeafAt(i, j)
  BY <1>1, <1>2 DEF LeafAt, NewOK
<1>4. TreeTypes'
  BY <1>1 DEF Sound, TreeTypes
<1>5. TreeOK'
  BY <1>1, <1>2, <1>3 DEF Sound, TreeOK, NewOK
<1>6. ASSUME NEW u \in Thread PROVE NewOK(u)'
  <2>1. CASE u = t
    BY <1>1, <2>1 DEF NewOK
  <2>2. CASE u # t
    <3>1. new'[u] = new[u] /\ NewOK(u)
      BY <2>2 DEF Sound, TreeTypes, NewsOK
    <3>2. SUFFICES ASSUME new[u] # NULL PROVE NewOK(u)'
      BY <3>1 DEF NewOK
    <3>3. new[u] # new[t]
      BY <2>2, <3>1, <3>2 DEF NewOK
    <3>4. \A v \in Thread : v # u => new'[v] # new[u]
      BY <3>1, <3>2 DEF NewOK, Sound, TreeTypes
    <3> QED BY <1>2, <1>3, <3>1, <3>2, <3>3, <3>4 DEF NewOK
  <2> QED BY <2>1, <2>2
<1> QED BY <1>2, <1>3, <1>4, <1>5, <1>6 DEF Sound, NewsOK, Grows

(* The leaf in one slot is new, and the other ones are what they were.      *)
OthersStay(k, l) ==
  \A i, j \in Slot : i # k \/ j # l => LeafAt(i, j)' = LeafAt(i, j)

(* The winner's leaf comes where there was none.                           *)
LEMMA LeafKeeps ==
  ASSUME ConstantsOK, Sound, NEW t \in Thread, new[t] # NULL,
         NEW k \in Slot, NEW l \in Slot, node[k] # NULL, mem[node[k]][l] = NULL,
         mem' = [mem EXCEPT ![node[k]][l] = new[t]], node' = node, live' = live,
         new' = [new EXCEPT ![t] = NULL]
  PROVE  /\ Sound' /\ Grows
         /\ LeafAt(k, l)' = new[t] /\ LeafAt(k, l) = NULL
         /\ OthersStay(k, l)
         /\ \A o \in Obj : (\A i \in Slot : node[i] # o) => mem'[o] = mem[o]
<1>1. NewOK(t) /\ new'[t] = NULL /\ new[t] \in Obj
  BY DEF Sound, NewsOK, TreeTypes
<1>2. LeafAt(k, l) = NULL /\ node[k] \in Obj
  BY DEF LeafAt, Sound, TreeTypes
<1>3. /\ \A o \in Obj : o # node[k] => mem'[o] = mem[o]
      /\ \A j \in Slot : mem'[node[k]][j] = IF j = l THEN new[t] ELSE mem[node[k]][j]
  BY <1>2 DEF Sound, TreeTypes
<1>4. ASSUME NEW i \in Slot, NEW j \in Slot
      PROVE  LeafAt(i, j)' = IF i = k /\ j = l THEN new[t] ELSE LeafAt(i, j)
  <2>1. CASE i = k
    BY <1>3, <2>1 DEF LeafAt
  <2>2. CASE i # k
    <3>1. node[i] # NULL => node[i] \in Obj /\ node[i] # node[k]
      BY <2>2, SlotsOfTree DEF Sound, TreeOK
    <3> QED BY <1>3, <2>2, <3>1 DEF LeafAt
  <2> QED BY <2>1, <2>2
<1>5. TreeTypes'
  <2>1. mem' \in [Obj -> [Slot -> Obj \cup {NULL, "huge", "pbh"}]]
    <3>1. [mem[node[k]] EXCEPT ![l] = new[t]] \in [Slot -> Obj \cup {NULL, "huge", "pbh"}]
      BY <1>1, <1>2 DEF Sound, TreeTypes
    <3>2. mem' = [mem EXCEPT ![node[k]] = [mem[node[k]] EXCEPT ![l] = new[t]]]
      OBVIOUS
    <3> QED BY <1>2, <3>1, <3>2 DEF Sound, TreeTypes
  <2> QED BY <2>1 DEF Sound, TreeTypes
<1>6. TreeOK'
  BY <1>1, <1>4 DEF Sound, TreeOK, NewOK
<1>7. ASSUME NEW u \in Thread PROVE NewOK(u)'
  <2>1. CASE u = t
    BY <1>1, <2>1 DEF NewOK
  <2>2. CASE u # t
    <3>1. new'[u] = new[u] /\ NewOK(u)
      BY <2>2 DEF Sound, TreeTypes, NewsOK
    <3>2. SUFFICES ASSUME new[u] # NULL PROVE NewOK(u)'
      BY <3>1 DEF NewOK
    <3>3. new[u] # new[t] /\ new[u] # node[k] /\ new[u] \in Obj
      BY <2>2, <3>1, <3>2 DEF NewOK, Sound, TreeTypes
    <3>4. \A v \in Thread : v # u => new'[v] # new[u]
      BY <3>1, <3>2 DEF NewOK, Sound, TreeTypes
    <3>5. mem'[new[u]] = mem[new[u]]
      BY <1>3, <3>3
    <3> QED BY <1>4, <3>1, <3>2, <3>3, <3>4, <3>5 DEF NewOK
  <2> QED BY <2>1, <2>2
<1> QED BY <1>2, <1>3, <1>4, <1>5, <1>6, <1>7 DEF Sound, NewsOK, Grows, OthersStay

(* An entry is written into a leaf, where it changes nothing of the tree.  *)
LEMMA EntryKeeps ==
  ASSUME ConstantsOK, Sound, NEW k \in Slot, NEW l \in Slot, LeafAt(k, l) # NULL,
         NEW m \in Slot, NEW val \in {NULL, "huge", "pbh"},
         mem' = [mem EXCEPT ![LeafAt(k, l)][m] = val],
         node' = node, live' = live, new' = new
  PROVE  /\ Sound' /\ Grows
         /\ \A i, j \in Slot : LeafAt(i, j)' = LeafAt(i, j)
         /\ \A o \in Obj : o # LeafAt(k, l) => mem'[o] = mem[o]
         /\ \A j \in Slot : mem'[LeafAt(k, l)][j] = IF j = m THEN val ELSE mem[LeafAt(k, l)][j]
<1>1. LeafAt(k, l) \in Obj /\ \A i \in Slot : node[i] # LeafAt(k, l)
  BY SlotsOfTree DEF Sound, TreeOK
<1>2. PICK o \in Obj : o = LeafAt(k, l)
  BY <1>1
<1>3. /\ \A p \in Obj : p # o => mem'[p] = mem[p]
      /\ \A j \in Slot : mem'[o][j] = IF j = m THEN val ELSE mem[o][j]
  BY <1>2 DEF Sound, TreeTypes
<1>4. ASSUME NEW i \in Slot, NEW j \in Slot PROVE LeafAt(i, j)' = LeafAt(i, j)
  BY <1>1, <1>2, <1>3, SlotsOfTree DEF LeafAt
<1>5. TreeTypes'
  <2>1. [mem[o] EXCEPT ![m] = val] \in [Slot -> Obj \cup {NULL, "huge", "pbh"}]
    BY <1>2 DEF Sound, TreeTypes
  <2>2. mem' = [mem EXCEPT ![o] = [mem[o] EXCEPT ![m] = val]]
    BY <1>2
  <2> QED BY <1>2, <2>1, <2>2 DEF Sound, TreeTypes
<1>6. TreeOK'
  BY <1>4 DEF Sound, TreeOK
<1>7. ASSUME NEW u \in Thread PROVE NewOK(u)'
  <2>1. new[u] # NULL => new[u] \in Obj /\ new[u] # o
    BY <1>2 DEF Sound, NewsOK, NewOK, TreeTypes
  <2> QED BY <1>3, <1>4, <2>1 DEF Sound, NewsOK, NewOK
<1> QED BY <1>2, <1>3, <1>4, <1>5, <1>6, <1>7 DEF Sound, NewsOK, Grows

----------------------------------------------------------------------------
(* What a step keeps                                                       *)

LEMMA LeafOfTag ==
  ASSUME NEW tag
  PROVE  /\ LeafOf(tag) = LeafAt(tag \div LEN, tag % LEN)
         /\ LeafOf(tag)' = LeafAt(tag \div LEN, tag % LEN)'
BY DEF LeafOf, LeafAt

LEMMA GrowsKeeps ==
  ASSUME ConstantsOK, Grows
  PROVE  /\ \A tag \in Tag : LeafOf(tag) # NULL => LeafOf(tag)' = LeafOf(tag)
         /\ \A p \in Page : HasLeaf(p) => HasLeaf(p)'
<1>1. ASSUME NEW tag \in Tag, LeafOf(tag) # NULL PROVE LeafOf(tag)' = LeafOf(tag)
  BY <1>1, TagSlots, LeafOfTag DEF Grows
<1>2. ASSUME NEW p \in Page, HasLeaf(p) PROVE HasLeaf(p)'
  BY <1>1, <1>2, PageSlots DEF HasLeaf
<1> QED BY <1>1, <1>2

LEMMA RootedStays ==
  ASSUME ConstantsOK, Grows, NEW b \in Block, Rooted(b)
  PROVE  Rooted(b)'
BY GrowsKeeps, EntriesOfBlock DEF Rooted

(* The leaf that pagemap_get and pagemap_set use is the page's.            *)
LEMMA LeafIsThere ==
  ASSUME ConstantsOK, Types, NEW t \in Thread, TagOK(t), NEW p \in Page, HasLeaf(p)
  PROVE  Leaf(t, p) = LeafOf(p \div LEN) /\ Leaf(t, p) # NULL
<1>1. p \div LEN \in Tag /\ p \div LEN # -1
  BY PageSlots DEF Tag
<1> QED BY <1>1 DEF Leaf, TagOK, HasLeaf

LEMMA SoundOfTInv ==
  ASSUME TInv
  PROVE  Sound
BY DEF TInv, Types, Sound, TreeTypes, NewsOK

(* A thread is not disturbed by the steps of others.                       *)
Same(u) ==
  /\ pc'[u] = pc[u] /\ cur'[u] = cur[u] /\ key'[u] = key[u] /\ cut'[u] = cut[u]
  /\ new'[u] = new[u] /\ interior'[u] = interior[u]
  /\ l_pagemap_tag'[u] = l_pagemap_tag[u] /\ l_pagemap_leaf'[u] = l_pagemap_leaf[u]

LEMMA SameThread ==
  ASSUME ConstantsOK, TInv, Grows, NEW u \in Thread, Same(u)
  PROVE  ThreadOK(u)' /\ TagOK(u)'
<1>1. ThreadOK(u) /\ TagOK(u)
  BY DEF TInv
<1>2. TagOK(u)'
  <2>1. l_pagemap_tag[u] \in Tag \cup {-1}
    BY DEF TInv, Types
  <2> QED BY <1>1, <2>1, GrowsKeeps DEF TagOK, Same
<1>3. CASE pc[u] \in Expanding \cup Rooting
  <2>1. cur[u] \in Block
    BY <1>1, <1>3 DEF ThreadOK
  <2>2. PICK b \in Block : b = cur[u]
    BY <2>1
  <2>3. Entries(b) \subseteq Page
    BY EntriesOfBlock
  <2>4. pc[u] \in Expanding => I1(u) \in Slot /\ I1(u)' = I1(u)
    BY <1>1, <2>2, <2>3, PageSlots DEF ThreadOK, I1, Same
  <2>5. pc[u] \in Expanding =>
          \A p \in Entries(b) : p \div LEN < key[u] \div LEN => HasLeaf(p)'
    BY <1>1, <2>2, <2>3, GrowsKeeps DEF ThreadOK
  <2>6. pc[u] \in Rooting => Rooted(b)'
    BY <1>1, <2>2, RootedStays DEF ThreadOK
  <2>7. pc[u] \in {"leaf", "casleaf"} => node'[I1(u)] = node[I1(u)]
    BY <1>1, <2>4 DEF Grows, ThreadOK, Expanding
  <2> QED BY <1>1, <1>2, <2>1, <2>2, <2>4, <2>5, <2>6, <2>7
          DEF ThreadOK, Same, Expanding, Rooting, Rooted
<1>4. CASE pc[u] \notin Expanding \cup Rooting
  BY <1>1, <1>2, <1>4 DEF ThreadOK, Same, Expanding, Rooting, Rooted
<1> QED BY <1>2, <1>3, <1>4

LEMMA Assemble ==
  ASSUME ConstantsOK, TInv, NEW t \in Thread, Grows, Sound', Types',
         \A u \in Thread : u # t => Same(u),
         ThreadOK(t)', TagOK(t)', \A b \in blocks' : b \notin blocks => Rooted(b)'
  PROVE  TInv'
<1>1. ASSUME NEW u \in Thread PROVE NewOK(u)' /\ ThreadOK(u)' /\ TagOK(u)'
  BY SameThread DEF Sound, NewsOK
<1>2. ASSUME NEW b \in blocks' PROVE Rooted(b)'
  BY <1>2, RootedStays DEF TInv, Types
<1>3. TreeOK'
  BY DEF Sound
<1> QED BY <1>1, <1>2, <1>3 DEF TInv

----------------------------------------------------------------------------
(* Each action keeps TInv, and the tree grows                              *)

RestTypes ==
  /\ l_pagemap_tag \in [Thread -> Tag \cup {-1}]
  /\ l_pagemap_leaf \in [Thread -> Obj \cup {NULL}]
  /\ blocks \subseteq Block /\ cur \in [Thread -> Block \cup {NULL}]
  /\ pc \in [Thread -> PcValues]
  /\ key \in [Thread -> Nat] /\ cut \in [Thread -> Nat]
  /\ interior \in [Thread -> Obj \cup {NULL}]

LEMMA TypesAre ==
  /\ Types <=> TreeTypes /\ RestTypes
  /\ Types' <=> TreeTypes' /\ RestTypes'
BY DEF Types, TreeTypes, RestTypes

LEMMA TreeStays ==
  ASSUME Sound, UNCHANGED <<node, mem, live, new>>
  PROVE  Sound' /\ Grows /\ \A i, j \in Slot : LeafAt(i, j)' = LeafAt(i, j)
<1>1. \A i, j \in Slot : LeafAt(i, j)' = LeafAt(i, j)
  BY DEF LeafAt
<1>2. Grows
  BY <1>1 DEF Grows
<1>3. TreeTypes' /\ TreeOK'
  BY <1>1 DEF Sound, TreeTypes, TreeOK
<1>4. ASSUME NEW u \in Thread PROVE NewOK(u)'
  BY <1>1 DEF Sound, NewsOK, NewOK
<1> QED BY <1>1, <1>2, <1>3, <1>4 DEF Sound, NewsOK

LEMMA FirstKey ==
  ASSUME ConstantsOK, NEW b \in Block
  PROVE  /\ Min(Entries(b)) \in Entries(b) /\ Min(Entries(b)) \in Nat
         /\ \A p \in Entries(b) : ~ (p \div LEN < Min(Entries(b)) \div LEN)
<1> DEFINE lo == Min(Entries(b))
           hi == Max(Entries(b))
<1>1. lo \in Nat /\ hi \in Nat /\ lo <= hi /\ Entries(b) = lo .. hi
  BY EntriesOfBlock
<1> HIDE DEF lo, hi
<1>2. lo \in Entries(b)
  BY <1>1
<1>3. ASSUME NEW p \in Entries(b) PROVE ~ (p \div LEN < lo \div LEN)
  <2>1. p \in Nat /\ lo <= p /\ LEN \in Nat \ {0}
    BY <1>1, RoomIsNat
  <2>2. lo \div LEN <= p \div LEN /\ lo \div LEN \in Nat /\ p \div LEN \in Nat
    BY <1>1, <2>1, DivMono, DivMod
  <2> QED BY <2>2
<1> QED BY <1>1, <1>2, <1>3 DEF lo

(* The key moves on to what the next leaf covers, or all have one.         *)
LEMMA KeyMoves ==
  ASSUME ConstantsOK, NEW b \in Block, NEW k \in Entries(b),
         NEW next, next = (k \div LEN + 1) * LEN
  PROVE  /\ next \in Nat
         /\ next <= Max(Entries(b)) =>
              /\ next \in Entries(b)
              /\ \A p \in Entries(b) :
                   p \div LEN < next \div LEN =>
                     p \div LEN < k \div LEN \/ p \div LEN = k \div LEN
         /\ ~ (next <= Max(Entries(b))) =>
              \A p \in Entries(b) :
                p \div LEN < k \div LEN \/ p \div LEN = k \div LEN
<1> DEFINE lo == Min(Entries(b))
           hi == Max(Entries(b))
<1>1. lo \in Nat /\ hi \in Nat /\ lo <= hi /\ Entries(b) = lo .. hi
  BY EntriesOfBlock
<1> HIDE DEF lo, hi
<1>2. k \in Nat /\ lo <= k /\ k <= hi /\ LEN \in Nat \ {0}
  BY <1>1, RoomIsNat
<1>3. PICK q \in Nat : q = k \div LEN
  BY <1>2, DivMod
<1>4. PICK r \in 0 .. LEN - 1 : r = k % LEN
  BY <1>2, DivMod
<1>5. k = LEN * q + r
  BY <1>2, <1>3, <1>4, DivMod
<1>6. next = LEN * (q + 1) /\ next \in Nat /\ k < next
  BY <1>2, <1>3, <1>4, <1>5
<1>7. next \div LEN = q + 1
  <2>1. q + 1 \in Nat /\ next = (q + 1) * LEN
    BY <1>3
  <2> QED BY <1>2, <2>1, DivMult
<1>8. ASSUME next <= hi PROVE next \in Entries(b)
  BY <1>1, <1>2, <1>6, <1>8
<1>9. ASSUME NEW p \in Entries(b) PROVE p \in Nat /\ p <= hi /\ p \div LEN \in Nat
  <2>1. p \in Nat /\ p <= hi
    BY <1>1
  <2> QED BY <1>2, <2>1, DivMod
<1>10. ASSUME NEW p \in Entries(b), p \div LEN < next \div LEN
       PROVE  p \div LEN < q \/ p \div LEN = q
  BY <1>3, <1>7, <1>9, <1>10
<1>11. ASSUME ~ (next <= hi), NEW p \in Entries(b)
       PROVE  p \div LEN < q \/ p \div LEN = q
  <2>1. p \in Nat /\ p < LEN * (q + 1) /\ q + 1 \in Nat \ {0}
    BY <1>1, <1>3, <1>6, <1>9, <1>11
  <2>2. p \div LEN < q + 1
    BY <1>2, <2>1, DivBound
  <2> QED BY <1>3, <1>9, <2>2
<1> QED BY <1>3, <1>6, <1>8, <1>10, <1>11 DEF hi

LEMMA MapStep ==
  ASSUME ConstantsOK, TInv, NEW t \in Thread, NEW b \in NewBlocks, Map(t, b)
  PROVE  TInv' /\ Grows
<1>1. b \in Block /\ Min(Entries(b)) \in Entries(b) /\ Min(Entries(b)) \in Nat
      /\ \A p \in Entries(b) : ~ (p \div LEN < Min(Entries(b)) \div LEN)
  BY NewBlocksAre, FirstKey
<1>2. Sound' /\ Grows
  BY SoundOfTInv, TreeStays DEF Map, treeVars
<1>3. RestTypes
  BY TypesAre DEF TInv
<1>4. pc'[t] = "node" /\ cur'[t] = b /\ key'[t] = Min(Entries(b))
  BY <1>3 DEF Map, Goto, RestTypes
<1>5. Types'
  BY <1>1, <1>2, <1>3, TypesAre DEF Map, Goto, RestTypes, Sound, tagVars, PcValues, Expanding
<1>6. \A u \in Thread : u # t => Same(u)
  BY <1>3 DEF Map, Goto, RestTypes, Same, tagVars
<1>7. ThreadOK(t)'
  BY <1>1, <1>4 DEF ThreadOK, Expanding, Rooting
<1>8. TagOK(t)'
  <2>1. l_pagemap_tag[t] \in Tag \cup {-1} /\ TagOK(t)
    BY <1>3 DEF RestTypes, TInv
  <2> QED BY <1>2, <2>1, GrowsKeeps DEF TagOK, Map, tagVars
<1> QED BY <1>2, <1>5, <1>6, <1>7, <1>8, Assemble DEF Map

(* Where a thread that expands the tree is.                                *)
LEMMA KeyIsPage ==
  ASSUME ConstantsOK, TInv, NEW t \in Thread, pc[t] \in Expanding
  PROVE  /\ cur[t] \in Block /\ key[t] \in Entries(cur[t]) /\ key[t] \in Page
         /\ I1(t) \in Slot /\ I2(t) \in Slot
         /\ key[t] \div LEN \in Tag
         /\ I1(t) = (key[t] \div LEN) \div LEN /\ I2(t) = (key[t] \div LEN) % LEN
<1>1. ThreadOK(t)
  BY DEF TInv
<1>2. cur[t] \in Block /\ key[t] \in Entries(cur[t])
  BY <1>1 DEF ThreadOK
<1>3. PICK b \in Block : b = cur[t]
  BY <1>2
<1>4. key[t] \in Page
  BY <1>2, <1>3, EntriesOfBlock
<1> QED BY <1>2, <1>4, PageSlots DEF I1, I2

LEMMA TagStays ==
  ASSUME ConstantsOK, TInv, Grows, NEW t \in Thread, UNCHANGED tagVars
  PROVE  TagOK(t)'
<1>1. l_pagemap_tag[t] \in Tag \cup {-1} /\ TagOK(t)
  BY DEF TInv, Types
<1> QED BY <1>1, GrowsKeeps DEF TagOK, tagVars

LEMMA TestNodeStep ==
  ASSUME ConstantsOK, TInv, NEW t \in Thread, TestNode(t)
  PROVE  TInv' /\ Grows
<1>1. RestTypes /\ ThreadOK(t) /\ Sound
  BY TypesAre, SoundOfTInv DEF TInv
<1>2. Sound' /\ Grows /\ (pc'[t] = "casnode" => new'[t] # NULL)
  <2>1. CASE MapObj(t)
    BY <1>1, <2>1, MapKeeps DEF TestNode
  <2>2. CASE pc' = [pc EXCEPT ![t] = "leaf"] /\ UNCHANGED <<mem, live, new>>
    BY <1>1, <2>2, TreeStays DEF TestNode, RestTypes
  <2> QED BY <2>1, <2>2 DEF TestNode
<1>3. /\ pc[t] = "node" /\ pc'[t] \in {"casnode", "leaf"}
      /\ pc'[t] = "leaf" => node[I1(t)] # NULL
      /\ pc' \in [Thread -> PcValues] /\ \A u \in Thread : u # t => pc'[u] = pc[u]
  BY <1>1 DEF TestNode, RestTypes, PcValues, Expanding
<1>4. Types'
  BY <1>1, <1>2, <1>3, TypesAre DEF TestNode, RestTypes, Sound, tagVars
<1>5. \A u \in Thread : u # t => new'[u] = new[u]
  BY <1>1 DEF TestNode, MapObj, Sound, TreeTypes
<1>6. \A u \in Thread : u # t => Same(u)
  BY <1>3, <1>5 DEF TestNode, Same, tagVars
<1>7. I1(t) \in Slot /\ cur[t] \in Block /\ key[t] \in Entries(cur[t])
  BY <1>3, KeyIsPage DEF Expanding
<1>8. ThreadOK(t)'
  <2>1. PICK b \in Block : b = cur[t]
    BY <1>7
  <2>2. \A p \in Entries(b) : p \div LEN < key[t] \div LEN => HasLeaf(p)'
    BY <1>1, <1>2, <1>3, <2>1, GrowsKeeps, EntriesOfBlock DEF ThreadOK, Expanding
  <2>3. I1(t)' = I1(t) /\ (pc'[t] = "leaf" => node'[I1(t)] # NULL)
    BY <1>3 DEF TestNode, I1
  <2> QED BY <1>2, <1>3, <1>7, <2>1, <2>2, <2>3 DEF TestNode, ThreadOK, Expanding, Rooting
<1> QED BY <1>2, <1>4, <1>6, <1>8, TagStays, Assemble DEF TestNode

LEMMA CasNodeStep ==
  ASSUME ConstantsOK, TInv, NEW t \in Thread, CasNode(t)
  PROVE  TInv' /\ Grows
<1>1. RestTypes /\ ThreadOK(t) /\ Sound /\ TreeTypes
  BY TypesAre, SoundOfTInv DEF TInv
<1>2. pc[t] = "casnode" /\ pc'[t] = "leaf" /\ new[t] # NULL
  BY <1>1 DEF CasNode, Goto, RestTypes, ThreadOK
<1>3. I1(t) \in Slot /\ cur[t] \in Block /\ key[t] \in Entries(cur[t])
  BY <1>2, KeyIsPage DEF Expanding
<1>4. Sound' /\ Grows /\ node'[I1(t)] # NULL
  <2>1. CASE node[I1(t)] = NULL
    <3>1. node' = [node EXCEPT ![I1(t)] = new[t]] /\ mem' = mem /\ live' = live
          /\ new' = [new EXCEPT ![t] = NULL]
      BY <2>1 DEF CasNode
    <3>2. PICK k \in Slot : k = I1(t)
      BY <1>3
    <3>3. node[k] = NULL /\ node' = [node EXCEPT ![k] = new[t]]
      BY <2>1, <3>1, <3>2
    <3>4. Sound' /\ Grows
      BY <1>1, <1>2, <3>1, <3>3, NodeKeeps
    <3> QED BY <1>1, <1>2, <3>2, <3>3, <3>4 DEF TreeTypes
  <2>2. CASE node[I1(t)] # NULL
    <3>1. node' = node /\ mem' = mem /\ live' = live \ {new[t]}
          /\ new' = [new EXCEPT ![t] = NULL]
      BY <2>2 DEF CasNode
    <3> QED BY <1>1, <1>2, <2>2, <3>1, DropKeeps
  <2> QED BY <2>1, <2>2
<1>5. Types'
  BY <1>1, <1>4, TypesAre DEF CasNode, Goto, RestTypes, Sound, tagVars, PcValues, Expanding
<1>6. \A u \in Thread : u # t => Same(u)
  BY <1>1 DEF CasNode, Goto, Same, tagVars, RestTypes, TreeTypes
<1>7. ThreadOK(t)'
  <2>1. PICK b \in Block : b = cur[t]
    BY <1>3
  <2>2. \A p \in Entries(b) : p \div LEN < key[t] \div LEN => HasLeaf(p)'
    BY <1>1, <1>2, <1>4, <2>1, GrowsKeeps, EntriesOfBlock DEF ThreadOK, Expanding
  <2>3. I1(t)' = I1(t)
    BY DEF CasNode, I1
  <2> QED BY <1>2, <1>3, <1>4, <2>1, <2>2, <2>3 DEF CasNode, ThreadOK, Expanding, Rooting
<1> QED BY <1>4, <1>5, <1>6, <1>7, TagStays, Assemble DEF CasNode

LEMMA NextKeyStep ==
  ASSUME ConstantsOK, TInv, NEW t \in Thread, pc[t] \in {"leaf", "casleaf"},
         Grows, NextKey(t), cur' = cur,
         NEW k \in Page, k = key[t], HasLeaf(k)'
  PROVE  /\ ThreadOK(t)'
         /\ key' \in [Thread -> Nat] /\ pc' \in [Thread -> PcValues]
         /\ \A u \in Thread : u # t => key'[u] = key[u] /\ pc'[u] = pc[u]
<1>1. RestTypes /\ ThreadOK(t)
  BY TypesAre DEF TInv
<1>2. PICK b \in Block : b = cur[t]
  BY KeyIsPage DEF Expanding
<1>3. k \in Entries(b)
  BY <1>2, KeyIsPage DEF Expanding
<1>4. PICK next : next = (k \div LEN + 1) * LEN
  OBVIOUS
<1>5. /\ next \in Nat
      /\ next <= Max(Entries(b)) =>
           /\ next \in Entries(b)
           /\ \A p \in Entries(b) :
                p \div LEN < next \div LEN =>
                  p \div LEN < k \div LEN \/ p \div LEN = k \div LEN
      /\ ~ (next <= Max(Entries(b))) =>
           \A p \in Entries(b) : p \div LEN < k \div LEN \/ p \div LEN = k \div LEN
  BY <1>3, <1>4, KeyMoves
<1>6. \A p \in Entries(b) : p \div LEN < k \div LEN \/ p \div LEN = k \div LEN => HasLeaf(p)'
  <2>1. ASSUME NEW p \in Entries(b), p \div LEN < k \div LEN PROVE HasLeaf(p)'
    <3>1. HasLeaf(p) /\ p \in Page
      BY <1>1, <1>2, <1>3, <2>1, EntriesOfBlock DEF ThreadOK, Expanding
    <3> QED BY <3>1, GrowsKeeps
  <2>2. ASSUME NEW p \in Entries(b), p \div LEN = k \div LEN PROVE HasLeaf(p)'
    BY <2>2 DEF HasLeaf
  <2> QED BY <2>1, <2>2
<1>7. Min(Entries(b)) \in Entries(b) /\ Min(Entries(b)) \in Nat
  BY FirstKey
<1>8. /\ key' = [key EXCEPT ![t] = IF next <= Max(Entries(b)) THEN next ELSE Min(Entries(b))]
      /\ pc' = [pc EXCEPT ![t] = IF next <= Max(Entries(b)) THEN "node" ELSE "set"]
  BY <1>2, <1>3, <1>4 DEF NextKey
<1>9. CASE next <= Max(Entries(b))
  <2>1. key'[t] = next /\ pc'[t] = "node" /\ cur'[t] = b
    BY <1>1, <1>2, <1>8, <1>9 DEF RestTypes
  <2>2. key' \in [Thread -> Nat] /\ pc' \in [Thread -> PcValues]
    BY <1>1, <1>5, <1>8, <1>9 DEF RestTypes, PcValues, Expanding
  <2>3. ThreadOK(t)'
    BY <1>5, <1>6, <1>9, <2>1 DEF ThreadOK, Expanding, Rooting
  <2> QED BY <1>1, <1>8, <2>2, <2>3 DEF RestTypes
<1>10. CASE ~ (next <= Max(Entries(b)))
  <2>1. key'[t] = Min(Entries(b)) /\ pc'[t] = "set" /\ cur'[t] = b
    BY <1>1, <1>2, <1>8, <1>10 DEF RestTypes
  <2>2. key' \in [Thread -> Nat] /\ pc' \in [Thread -> PcValues]
    BY <1>1, <1>7, <1>8, <1>10 DEF RestTypes, PcValues, Rooting
  <2>3. Rooted(b)'
    BY <1>5, <1>6, <1>10 DEF Rooted
  <2>4. ThreadOK(t)'
    BY <1>7, <2>1, <2>3 DEF ThreadOK, Expanding, Rooting, Rooted
  <2> QED BY <1>1, <1>8, <2>2, <2>4 DEF RestTypes
<1> QED BY <1>9, <1>10

LEMMA TestLeafStep ==
  ASSUME ConstantsOK, TInv, NEW t \in Thread, TestLeaf(t)
  PROVE  TInv' /\ Grows
<1>1. RestTypes /\ ThreadOK(t) /\ Sound /\ TreeTypes
  BY TypesAre, SoundOfTInv DEF TInv
<1>2. pc[t] = "leaf" /\ node' = node /\ cur' = cur /\ UNCHANGED tagVars /\ blocks' = blocks
      /\ cut' = cut
  BY DEF TestLeaf
<1>3. /\ I1(t) \in Slot /\ I2(t) \in Slot /\ cur[t] \in Block /\ key[t] \in Entries(cur[t])
      /\ key[t] \in Page
      /\ I1(t) = (key[t] \div LEN) \div LEN /\ I2(t) = (key[t] \div LEN) % LEN
  BY <1>2, KeyIsPage DEF Expanding
<1>4. node[I1(t)] # NULL /\ node[I1(t)] \in Obj
  BY <1>1, <1>2, <1>3 DEF ThreadOK, TreeTypes
<1>5. CASE mem[node[I1(t)]][I2(t)] = NULL /\ MapObj(t) /\ pc' = [pc EXCEPT ![t] = "casleaf"]
           /\ interior' = [interior EXCEPT ![t] = node[I1(t)]] /\ key' = key
  <2>1. Sound' /\ Grows /\ new'[t] # NULL
    BY <1>1, <1>2, <1>5, MapKeeps
  <2>2. Types'
    BY <1>1, <1>2, <1>4, <1>5, <2>1, TypesAre
       DEF RestTypes, Sound, tagVars, PcValues, Expanding
  <2>3. \A u \in Thread : u # t => Same(u)
    BY <1>1, <1>2, <1>5 DEF Same, tagVars, RestTypes, TreeTypes, MapObj
  <2>4. ThreadOK(t)'
    <3>1. PICK b \in Block : b = cur[t]
      BY <1>3
    <3>2. \A p \in Entries(b) : p \div LEN < key[t] \div LEN => HasLeaf(p)'
      BY <1>1, <1>2, <2>1, <3>1, GrowsKeeps, EntriesOfBlock DEF ThreadOK, Expanding
    <3>3. I1(t)' = I1(t) /\ pc'[t] = "casleaf" /\ interior'[t] = node[I1(t)]
      BY <1>1, <1>5 DEF I1, RestTypes
    <3> QED BY <1>2, <1>3, <1>4, <1>5, <2>1, <3>1, <3>2, <3>3
            DEF ThreadOK, Expanding, Rooting
  <2> QED BY <1>2, <2>1, <2>2, <2>3, <2>4, TagStays, Assemble
<1>6. CASE mem[node[I1(t)]][I2(t)] # NULL /\ NextKey(t)
           /\ UNCHANGED <<mem, live, new, interior>>
  <2>1. Sound' /\ Grows
    BY <1>1, <1>2, <1>6, TreeStays
  <2>2. HasLeaf(key[t])
    BY <1>3, <1>4, <1>6 DEF HasLeaf, LeafOf
  <2>3. PICK k \in Page : k = key[t]
    BY <1>3
  <2>4. HasLeaf(k)'
    BY <2>1, <2>2, <2>3, GrowsKeeps
  <2>5. ThreadOK(t)' /\ key' \in [Thread -> Nat] /\ pc' \in [Thread -> PcValues]
        /\ \A u \in Thread : u # t => key'[u] = key[u] /\ pc'[u] = pc[u]
    BY <1>2, <1>6, <2>1, <2>3, <2>4, NextKeyStep
  <2>6. Types'
    BY <1>1, <1>2, <1>6, <2>1, <2>5, TypesAre DEF RestTypes, Sound, tagVars
  <2>7. \A u \in Thread : u # t => Same(u)
    BY <1>2, <1>6, <2>5 DEF Same, tagVars
  <2> QED BY <1>2, <2>1, <2>5, <2>6, <2>7, TagStays, Assemble
<1> QED BY <1>5, <1>6 DEF TestLeaf

LEMMA CasLeafStep ==
  ASSUME ConstantsOK, TInv, NEW t \in Thread, CasLeaf(t)
  PROVE  TInv' /\ Grows
<1>1. RestTypes /\ ThreadOK(t) /\ Sound /\ TreeTypes
  BY TypesAre, SoundOfTInv DEF TInv
<1>2. pc[t] = "casleaf" /\ node' = node /\ cur' = cur /\ UNCHANGED tagVars
      /\ blocks' = blocks /\ cut' = cut /\ NextKey(t)
      /\ new' = [new EXCEPT ![t] = NULL] /\ interior' = [interior EXCEPT ![t] = NULL]
  BY DEF CasLeaf
<1>3. /\ I1(t) \in Slot /\ I2(t) \in Slot /\ key[t] \in Page /\ key[t] \div LEN \in Tag
      /\ I1(t) = (key[t] \div LEN) \div LEN /\ I2(t) = (key[t] \div LEN) % LEN
  BY <1>2, KeyIsPage DEF Expanding
<1>4. /\ node[I1(t)] # NULL /\ node[I1(t)] \in Obj /\ interior[t] = node[I1(t)]
      /\ new[t] # NULL
  BY <1>1, <1>2, <1>3 DEF ThreadOK, TreeTypes
<1>5. PICK k \in Page : k = key[t]
  BY <1>3
<1>6. Sound' /\ Grows /\ HasLeaf(k)'
  <2>1. PICK i \in Slot, j \in Slot : i = (k \div LEN) \div LEN /\ j = (k \div LEN) % LEN
    BY <1>3, <1>5
  <2>2. i = I1(t) /\ j = I2(t)
    BY <1>3, <1>5, <2>1
  <2>3. LeafOf(k \div LEN)' = LeafAt(i, j)' /\ LeafOf(k \div LEN) = LeafAt(i, j)
    BY <2>1 DEF LeafOf, LeafAt
  <2>4. CASE mem[interior[t]][I2(t)] = NULL
    <3>1. mem' = [mem EXCEPT ![node[i]][j] = new[t]] /\ live' = live
          /\ mem[node[i]][j] = NULL /\ node[i] # NULL
      BY <1>4, <2>2, <2>4 DEF CasLeaf
    <3>2. Sound' /\ Grows /\ LeafAt(i, j)' = new[t]
      BY <1>1, <1>2, <1>4, <3>1, LeafKeeps
    <3> QED BY <1>4, <2>3, <3>2 DEF HasLeaf
  <2>5. CASE mem[interior[t]][I2(t)] # NULL
    <3>1. mem' = mem /\ live' = live \ {new[t]}
      BY <2>5 DEF CasLeaf
    <3>2. Sound' /\ Grows /\ LeafAt(i, j)' = LeafAt(i, j)
      BY <1>1, <1>2, <1>4, <3>1, DropKeeps
    <3>3. LeafAt(i, j) # NULL
      BY <1>4, <2>2, <2>5 DEF LeafAt
    <3> QED BY <2>3, <3>2, <3>3 DEF HasLeaf
  <2> QED BY <2>4, <2>5
<1>7. ThreadOK(t)' /\ key' \in [Thread -> Nat] /\ pc' \in [Thread -> PcValues]
      /\ \A u \in Thread : u # t => key'[u] = key[u] /\ pc'[u] = pc[u]
  BY <1>2, <1>5, <1>6, NextKeyStep
<1>8. Types'
  BY <1>1, <1>2, <1>6, <1>7, TypesAre DEF RestTypes, Sound, tagVars
<1>9. \A u \in Thread : u # t => Same(u)
  BY <1>1, <1>2, <1>7 DEF Same, tagVars, RestTypes, TreeTypes
<1> QED BY <1>2, <1>6, <1>7, <1>8, <1>9, TagStays, Assemble

(* What pagemap_get and pagemap_set leave in a thread's cache.             *)
LEMMA CacheKeeps ==
  ASSUME ConstantsOK, TInv, NEW t \in Thread, NEW p \in Page, HasLeaf(p), Cache(t, p), Grows
  PROVE  /\ TagOK(t)'
         /\ l_pagemap_tag' \in [Thread -> Tag \cup {-1}]
         /\ l_pagemap_leaf' \in [Thread -> Obj \cup {NULL}]
         /\ \A u \in Thread : u # t => /\ l_pagemap_tag'[u] = l_pagemap_tag[u]
                                       /\ l_pagemap_leaf'[u] = l_pagemap_leaf[u]
<1>1. RestTypes /\ TagOK(t) /\ Types /\ Sound
  BY TypesAre, SoundOfTInv DEF TInv
<1>2. Leaf(t, p) = LeafOf(p \div LEN) /\ LeafOf(p \div LEN) # NULL
  BY <1>1, LeafIsThere
<1>3. PICK tag \in Tag : tag = p \div LEN
  BY PageSlots
<1>4. LeafOf(tag) \in Obj /\ LeafOf(tag)' = LeafOf(tag)
  BY <1>1, <1>2, <1>3, GrowsKeeps, LeafOfTag, TagSlots, SlotsOfTree
<1>5. /\ l_pagemap_tag' = [l_pagemap_tag EXCEPT ![t] = tag]
      /\ l_pagemap_leaf' = [l_pagemap_leaf EXCEPT ![t] = LeafOf(tag)]
  BY <1>2, <1>3 DEF Cache
<1>6. l_pagemap_tag'[t] = tag /\ l_pagemap_leaf'[t] = LeafOf(tag)
  BY <1>1, <1>5 DEF RestTypes
<1>7. TagOK(t)'
  BY <1>2, <1>3, <1>4, <1>6 DEF TagOK
<1> QED BY <1>1, <1>4, <1>5, <1>7 DEF RestTypes

LEMMA SetKeeps ==
  ASSUME ConstantsOK, TInv, NEW t \in Thread, NEW p \in Page, HasLeaf(p),
         NEW val \in {NULL, "huge", "pbh"}, pagemap_set(t, p, val), new' = new
  PROVE  Sound' /\ Grows
<1>1. Types /\ TagOK(t) /\ Sound
  BY SoundOfTInv DEF TInv
<1>2. Leaf(t, p) = LeafOf(p \div LEN) /\ LeafOf(p \div LEN) # NULL
  BY <1>1, LeafIsThere
<1>3. PICK i \in Slot, j \in Slot : LeafOf(p \div LEN) = LeafAt(i, j)
  BY PageSlots, TagSlots, LeafOfTag
<1>4. mem' = [mem EXCEPT ![LeafAt(i, j)][p % LEN] = val] /\ node' = node /\ live' = live
  BY <1>2, <1>3 DEF pagemap_set
<1> QED BY <1>1, <1>2, <1>3, <1>4, PageSlots, EntryKeeps

LEMMA SetEntryStep ==
  ASSUME ConstantsOK, TInv, NEW t \in Thread, NEW val \in {NULL, "huge", "pbh"},
         SetEntry(t, "set", "made", val) \/ SetEntry(t, "erase", "unmapsp", val)
  PROVE  TInv' /\ Grows
<1> PICK from \in {"set", "erase"}, to \in {"made", "unmapsp"} :
      /\ SetEntry(t, from, to, val)
      /\ from = "set" => to = "made"
      /\ from = "erase" => to = "unmapsp"
  OBVIOUS
<1>1. RestTypes /\ ThreadOK(t) /\ TreeTypes
  BY TypesAre, SoundOfTInv DEF TInv, Sound
<1>2. pc[t] = from /\ cur' = cur /\ new' = new /\ interior' = interior /\ cut' = cut
      /\ blocks' = blocks /\ pagemap_set(t, key[t], val)
  BY DEF SetEntry, Goto
<1>3. PICK b \in Block : b = cur[t]
  BY <1>1, <1>2 DEF ThreadOK, Rooting
<1>4. PICK k \in Entries(b) : k = key[t]
  BY <1>1, <1>2, <1>3 DEF ThreadOK
<1>5. Rooted(b) /\ k \in Page /\ HasLeaf(k)
  BY <1>1, <1>2, <1>3, <1>4, EntriesOfBlock DEF ThreadOK, Rooting, Rooted
<1>6. Sound' /\ Grows
  BY <1>2, <1>4, <1>5, SetKeeps
<1>7. /\ TagOK(t)'
      /\ l_pagemap_tag' \in [Thread -> Tag \cup {-1}]
      /\ l_pagemap_leaf' \in [Thread -> Obj \cup {NULL}]
      /\ \A u \in Thread : u # t => /\ l_pagemap_tag'[u] = l_pagemap_tag[u]
                                    /\ l_pagemap_leaf'[u] = l_pagemap_leaf[u]
  BY <1>2, <1>4, <1>5, <1>6, CacheKeeps DEF pagemap_set
<1>8. Rooted(b)'
  BY <1>5, <1>6, RootedStays
<1>9. PICK last \in BOOLEAN : last <=> k = Max(Entries(b))
  OBVIOUS
<1>10. /\ pc' = [pc EXCEPT ![t] = IF last THEN to ELSE from]
       /\ key' = [key EXCEPT ![t] = IF last THEN Min(Entries(b)) ELSE k + 1]
  BY <1>3, <1>4, <1>9 DEF SetEntry, Goto
<1>11. /\ Min(Entries(b)) \in Entries(b) /\ Min(Entries(b)) \in Nat
       /\ k \in Nat /\ k + 1 \in Nat
       /\ ~ last => k + 1 \in Entries(b)
  <2>1. /\ Min(Entries(b)) \in Nat /\ Max(Entries(b)) \in Nat
        /\ Entries(b) = Min(Entries(b)) .. Max(Entries(b))
    BY EntriesOfBlock
  <2>2. k \in Nat /\ k <= Max(Entries(b))
    BY <2>1
  <2>3. ~ last => k + 1 \in Entries(b)
    BY <1>9, <2>1, <2>2
  <2> QED BY <2>2, <2>3, FirstKey
<1>12. PICK x \in {from, to}, y \in Nat :
         /\ pc' = [pc EXCEPT ![t] = x] /\ key' = [key EXCEPT ![t] = y]
         /\ x = from => y \in Entries(b)
  <2>1. CASE last
    BY <1>10, <1>11, <2>1
  <2>2. CASE ~ last
    BY <1>10, <1>11, <2>2
  <2> QED BY <2>1, <2>2
<1>13. x \in PcValues
  BY DEF PcValues, Rooting
<1>14. /\ key' \in [Thread -> Nat] /\ pc' \in [Thread -> PcValues]
       /\ \A u \in Thread : u # t => key'[u] = key[u] /\ pc'[u] = pc[u]
  BY <1>1, <1>12, <1>13 DEF RestTypes
<1>15. ThreadOK(t)'
  <2>1. cur'[t] = b /\ b \in Block /\ ((pc'[t] = from /\ key'[t] \in Entries(b)) \/ pc'[t] = to)
    BY <1>1, <1>2, <1>3, <1>12 DEF RestTypes
  <2>2. from = "erase" => b.kind = "sp"
    BY <1>1, <1>2, <1>3 DEF ThreadOK
  <2> QED BY <1>8, <2>1, <2>2 DEF ThreadOK, Expanding, Rooting, Rooted
<1>16. Types'
  BY <1>1, <1>2, <1>6, <1>7, <1>14, TypesAre DEF RestTypes, Sound
<1>17. \A u \in Thread : u # t => Same(u)
  BY <1>2, <1>7, <1>14 DEF Same
<1> QED BY <1>2, <1>6, <1>7, <1>15, <1>16, <1>17, Assemble

LEMMA SetStep ==
  ASSUME ConstantsOK, TInv, NEW t \in Thread, Set(t) \/ SpErase(t)
  PROVE  TInv' /\ Grows
<1>1. CASE Set(t)
  <2>1. Mark(cur[t]) \in {NULL, "huge", "pbh"}
    BY DEF Mark
  <2>2. SetEntry(t, "set", "made", Mark(cur[t]))
    BY <1>1 DEF Set
  <2> QED BY <2>1, <2>2, SetEntryStep
<1>2. CASE SpErase(t)
  BY <1>2, SetEntryStep DEF SpErase
<1> QED BY <1>1, <1>2

LEMMA ReturnStep ==
  ASSUME ConstantsOK, TInv, NEW t \in Thread, Return(t)
  PROVE  TInv' /\ Grows
<1>1. RestTypes /\ ThreadOK(t) /\ Sound
  BY TypesAre, SoundOfTInv DEF TInv
<1>2. pc[t] = "made" /\ UNCHANGED tagVars /\ UNCHANGED <<new, interior, cut>>
  BY DEF Return, Goto
<1>3. PICK b \in Block : b = cur[t] /\ Rooted(cur[t])
  BY <1>1, <1>2 DEF ThreadOK, Rooting
<1>4. Sound' /\ Grows
  BY <1>1, TreeStays DEF Return, treeVars
<1>5. Rooted(b)'
  BY <1>3, <1>4, RootedStays
<1>6. Types'
  BY <1>1, <1>3, <1>4, TypesAre DEF Return, Goto, RestTypes, Sound, tagVars, PcValues
<1>7. \A u \in Thread : u # t => Same(u)
  BY <1>1 DEF Return, Goto, Same, tagVars, RestTypes
<1>8. ThreadOK(t)'
  <2>1. pc'[t] = "idle"
    BY <1>1 DEF Return, Goto, RestTypes
  <2> QED BY <2>1 DEF ThreadOK, Expanding, Rooting
<1>9. \A c \in blocks' : c \notin blocks => Rooted(c)'
  BY <1>3, <1>5 DEF Return
<1> QED BY <1>2, <1>4, <1>6, <1>7, <1>8, <1>9, TagStays, Assemble

LEMMA CarveStep ==
  ASSUME ConstantsOK, TInv, NEW t \in Thread, Carve(t)
  PROVE  TInv' /\ Grows
<1>1. RestTypes /\ ThreadOK(t) /\ Sound
  BY TypesAre, SoundOfTInv DEF TInv
<1>2. pc[t] = "made" /\ UNCHANGED tagVars /\ cur' = cur /\ cur[t].kind = "huge"
      /\ blocks' = blocks
  BY DEF Carve, Goto
<1>3. PICK b \in Block : b = cur[t] /\ Rooted(cur[t])
  BY <1>1, <1>2 DEF ThreadOK, Rooting
<1>4. Sound' /\ Grows
  BY <1>1, TreeStays DEF Carve, treeVars
<1>5. Rooted(b)'
  BY <1>3, <1>4, RootedStays
<1>6. PICK skip \in 1 .. b.len - 1 : cut' = [cut EXCEPT ![t] = skip]
  BY <1>3 DEF Carve
<1>7. skip \in Nat /\ skip \in 1 .. b.len
  BY <1>6, EntriesOfBlock
<1>8. Types'
  BY <1>1, <1>4, <1>6, <1>7, TypesAre
     DEF Carve, Goto, RestTypes, Sound, tagVars, PcValues, Rooting
<1>9. \A u \in Thread : u # t => Same(u)
  BY <1>1, <1>6 DEF Carve, Goto, Same, tagVars, RestTypes
<1>10. ThreadOK(t)'
  <2>1. pc'[t] = "unmap" /\ cut'[t] = skip /\ cur'[t] = b
    BY <1>1, <1>2, <1>3, <1>6 DEF Carve, Goto, RestTypes
  <2> QED BY <1>2, <1>3, <1>5, <1>7, <2>1 DEF ThreadOK, Expanding, Rooting, Rooted
<1> QED BY <1>2, <1>4, <1>8, <1>9, <1>10, TagStays, Assemble

LEMMA FreeHugeStep ==
  ASSUME ConstantsOK, TInv, NEW t \in Thread, NEW b \in blocks, FreeHuge(t, b)
  PROVE  TInv' /\ Grows
<1>1. RestTypes /\ ThreadOK(t) /\ Sound
  BY TypesAre, SoundOfTInv DEF TInv
<1>2. b \in Block /\ Rooted(b) /\ b.kind = "huge"
  BY <1>1 DEF RestTypes, TInv, FreeHuge
<1>3. b.at \in Page /\ HasLeaf(b.at) /\ b.len \in Nat \ {0} /\ b.len \in 1 .. b.len
  BY <1>2, EntriesOfBlock DEF Rooted
<1>4. Sound' /\ Grows
  BY <1>1, TreeStays DEF FreeHuge, treeVars
<1>5. /\ TagOK(t)'
      /\ l_pagemap_tag' \in [Thread -> Tag \cup {-1}]
      /\ l_pagemap_leaf' \in [Thread -> Obj \cup {NULL}]
      /\ \A u \in Thread : u # t => /\ l_pagemap_tag'[u] = l_pagemap_tag[u]
                                    /\ l_pagemap_leaf'[u] = l_pagemap_leaf[u]
  BY <1>3, <1>4, CacheKeeps DEF FreeHuge
<1>6. PICK x \in {"unmap", "lost"} : pc' = [pc EXCEPT ![t] = x]
  BY DEF FreeHuge, Goto
<1>7. Types'
  BY <1>1, <1>2, <1>3, <1>4, <1>5, <1>6, TypesAre
     DEF FreeHuge, RestTypes, Sound, PcValues, Rooting
<1>8. \A u \in Thread : u # t => Same(u)
  BY <1>1, <1>5, <1>6 DEF FreeHuge, Same, RestTypes
<1>9. Rooted(b)'
  BY <1>2, <1>4, RootedStays
<1>10. ThreadOK(t)'
  <2>1. pc'[t] = x /\ cur'[t] = b /\ cut'[t] = b.len
    BY <1>1, <1>6 DEF FreeHuge, RestTypes
  <2> QED BY <1>2, <1>3, <1>9, <2>1 DEF ThreadOK, Expanding, Rooting, Rooted
<1>11. \A c \in blocks' : c \in blocks
  BY DEF FreeHuge
<1> QED BY <1>4, <1>5, <1>7, <1>8, <1>10, <1>11, Assemble

LEMMA FreeSpStep ==
  ASSUME ConstantsOK, TInv, NEW t \in Thread, NEW b \in blocks, FreeSp(t, b)
  PROVE  TInv' /\ Grows
<1>1. RestTypes /\ ThreadOK(t) /\ Sound
  BY TypesAre, SoundOfTInv DEF TInv
<1>2. b \in Block /\ Rooted(b) /\ b.kind = "sp"
  BY <1>1 DEF RestTypes, TInv, FreeSp
<1>3. Min(Entries(b)) \in Entries(b) /\ Min(Entries(b)) \in Nat
  BY <1>2, FirstKey
<1>4. Sound' /\ Grows
  BY <1>1, TreeStays DEF FreeSp, treeVars
<1>5. Types'
  BY <1>1, <1>2, <1>3, <1>4, TypesAre
     DEF FreeSp, Goto, RestTypes, Sound, tagVars, PcValues, Rooting
<1>6. \A u \in Thread : u # t => Same(u)
  BY <1>1 DEF FreeSp, Goto, Same, tagVars, RestTypes
<1>7. Rooted(b)'
  BY <1>2, <1>4, RootedStays
<1>8. ThreadOK(t)'
  <2>1. pc'[t] = "erase" /\ cur'[t] = b /\ key'[t] = Min(Entries(b))
    BY <1>1 DEF FreeSp, Goto, RestTypes
  <2> QED BY <1>2, <1>3, <1>7, <2>1 DEF ThreadOK, Expanding, Rooting, Rooted
<1>9. UNCHANGED tagVars /\ \A c \in blocks' : c \in blocks
  BY DEF FreeSp
<1> QED BY <1>4, <1>5, <1>6, <1>8, <1>9, TagStays, Assemble

LEMMA LookStep ==
  ASSUME ConstantsOK, TInv, NEW t \in Thread, NEW b \in blocks, NEW p \in Page,
         p \in Entries(b), Look(t, b, p)
  PROVE  TInv' /\ Grows
<1>1. RestTypes /\ Sound /\ HasLeaf(p)
  BY TypesAre, SoundOfTInv DEF TInv, Rooted
<1>2. Sound' /\ Grows
  BY <1>1, TreeStays DEF Look, treeVars, thrVars
<1>3. /\ TagOK(t)'
      /\ l_pagemap_tag' \in [Thread -> Tag \cup {-1}]
      /\ l_pagemap_leaf' \in [Thread -> Obj \cup {NULL}]
      /\ \A u \in Thread : u # t => /\ l_pagemap_tag'[u] = l_pagemap_tag[u]
                                    /\ l_pagemap_leaf'[u] = l_pagemap_leaf[u]
  BY <1>1, <1>2, CacheKeeps DEF Look
<1>4. PICK x \in {"idle", "lost"} : pc' = [pc EXCEPT ![t] = x]
  BY DEF Look, Goto
<1>5. Types'
  BY <1>1, <1>2, <1>3, <1>4, TypesAre DEF Look, thrVars, RestTypes, Sound, PcValues
<1>6. \A u \in Thread : u # t => Same(u)
  BY <1>1, <1>3, <1>4 DEF Look, thrVars, Same, RestTypes
<1>7. ThreadOK(t)'
  <2>1. pc'[t] = x
    BY <1>1, <1>4 DEF RestTypes
  <2> QED BY <2>1 DEF ThreadOK, Expanding, Rooting
<1> QED BY <1>2, <1>3, <1>5, <1>6, <1>7, Assemble DEF Look

LEMMA HugeUnmapStep ==
  ASSUME ConstantsOK, TInv, NEW t \in Thread, HugeUnmap(t)
  PROVE  TInv' /\ Grows
<1>1. RestTypes /\ ThreadOK(t) /\ Sound
  BY TypesAre, SoundOfTInv DEF TInv
<1>2. pc[t] = "unmap" /\ UNCHANGED tagVars /\ UNCHANGED <<cur, cut, blocks>>
  BY DEF HugeUnmap, Goto, thrVars
<1>3. PICK b \in Block : b = cur[t] /\ Rooted(cur[t])
  BY <1>1, <1>2 DEF ThreadOK, Rooting
<1>4. Sound' /\ Grows
  BY <1>1, TreeStays DEF HugeUnmap, treeVars, thrVars
<1>5. Rooted(b)'
  BY <1>3, <1>4, RootedStays
<1>6. Types'
  BY <1>1, <1>4, TypesAre
     DEF HugeUnmap, Goto, RestTypes, Sound, tagVars, thrVars, PcValues, Rooting
<1>7. \A u \in Thread : u # t => Same(u)
  BY <1>1 DEF HugeUnmap, Goto, Same, tagVars, thrVars, RestTypes
<1>8. ThreadOK(t)'
  <2>1. pc'[t] = "clear"
    BY <1>1 DEF HugeUnmap, Goto, RestTypes
  <2> QED BY <1>1, <1>2, <1>3, <1>5, <2>1 DEF ThreadOK, Expanding, Rooting, Rooted
<1> QED BY <1>2, <1>4, <1>6, <1>7, <1>8, TagStays, Assemble

LEMMA SpUnmapStep ==
  ASSUME ConstantsOK, TInv, NEW t \in Thread, SpUnmap(t)
  PROVE  TInv' /\ Grows
<1>1. RestTypes /\ Sound
  BY TypesAre, SoundOfTInv DEF TInv
<1>2. UNCHANGED tagVars /\ blocks' = blocks
  BY DEF SpUnmap
<1>3. Sound' /\ Grows
  BY <1>1, TreeStays DEF SpUnmap, treeVars
<1>4. Types'
  BY <1>1, <1>3, TypesAre DEF SpUnmap, Goto, RestTypes, Sound, tagVars, PcValues
<1>5. \A u \in Thread : u # t => Same(u)
  BY <1>1 DEF SpUnmap, Goto, Same, tagVars, RestTypes
<1>6. ThreadOK(t)'
  <2>1. pc'[t] = "idle"
    BY <1>1 DEF SpUnmap, Goto, RestTypes
  <2> QED BY <2>1 DEF ThreadOK, Expanding, Rooting
<1> QED BY <1>2, <1>3, <1>4, <1>5, <1>6, TagStays, Assemble

(* What is left of a carved block is one too.                              *)
LEMMA LeftIsBlock ==
  ASSUME ConstantsOK, NEW b \in Block, NEW n \in 1 .. b.len, b.len - n > 0
  PROVE  /\ Huge(b.at + n, b.len - n) \in Block
         /\ Extent(Huge(b.at + n, b.len - n)) = Extent(b) \ (b.at .. b.at + n - 1)
         /\ Entries(Huge(b.at + n, b.len - n)) = {b.at + n}
         /\ b.at + n \in Nat
<1> DEFINE left == Huge(b.at + n, b.len - n)
<1>1. b.at \in Nat /\ b.len \in Nat \ {0} /\ Extent(b) \subseteq Page /\ b.len \in 1 .. ROOM
      /\ ROOM \in Nat
  BY EntriesOfBlock, RoomIsNat DEF Block
<1>2. left.at = b.at + n /\ left.len = b.len - n /\ left.kind = "huge"
  BY DEF Huge
<1>3. left.at \in Nat /\ left.len \in 1 .. ROOM /\ left.at \in Extent(b)
  BY <1>1, <1>2 DEF Extent
<1>4. Extent(left) = Extent(b) \ (b.at .. b.at + n - 1)
  BY <1>1, <1>2 DEF Extent
<1>5. left \in [kind : {"huge", "sp"}, at : Page, len : 1 .. ROOM]
  BY <1>1, <1>2, <1>3 DEF Huge
<1>6. left \in Block
  BY <1>1, <1>2, <1>4, <1>5 DEF Block
<1>7. Entries(left) = {b.at + n}
  BY <1>2 DEF Entries
<1> QED BY <1>2, <1>3, <1>4, <1>6, <1>7

LEMMA HugeClearStep ==
  ASSUME ConstantsOK, TInv, NEW t \in Thread, HugeClear(t)
  PROVE  TInv' /\ Grows
<1>1. RestTypes /\ ThreadOK(t) /\ Sound /\ TreeTypes
  BY TypesAre, SoundOfTInv DEF TInv, Sound
<1>2. pc[t] = "clear" /\ UNCHANGED <<blocks, new, interior>>
  BY DEF HugeClear, Goto
<1>3. PICK b \in Block : b = cur[t] /\ Rooted(cur[t])
  BY <1>1, <1>2 DEF ThreadOK, Rooting
<1>4. b.kind = "huge" /\ cut[t] \in 1 .. b.len
  BY <1>1, <1>2, <1>3 DEF ThreadOK
<1>5. PICK n \in 1 .. b.len : n = cut[t]
  BY <1>4
<1>6. b.at \in Page /\ HasLeaf(b.at) /\ b.len \in Nat
  BY <1>3, <1>4, EntriesOfBlock DEF Rooted
<1>7. pagemap_set(t, b.at, NULL)
  BY <1>3 DEF HugeClear
<1>8. Sound' /\ Grows
  BY <1>2, <1>6, <1>7, SetKeeps
<1>9. /\ TagOK(t)'
      /\ l_pagemap_tag' \in [Thread -> Tag \cup {-1}]
      /\ l_pagemap_leaf' \in [Thread -> Obj \cup {NULL}]
      /\ \A u \in Thread : u # t => /\ l_pagemap_tag'[u] = l_pagemap_tag[u]
                                    /\ l_pagemap_leaf'[u] = l_pagemap_leaf[u]
  BY <1>6, <1>7, <1>8, CacheKeeps DEF pagemap_set
<1>10. PICK left : left = Huge(b.at + n, b.len - n)
  OBVIOUS
<1>11. /\ pc' = [pc EXCEPT ![t] = IF left.len > 0 THEN "node" ELSE "idle"]
       /\ cur' = [cur EXCEPT ![t] = IF left.len > 0 THEN left ELSE NULL]
       /\ key' = [key EXCEPT ![t] = IF left.len > 0 THEN left.at ELSE 0]
       /\ cut' = [cut EXCEPT ![t] = 0]
  BY <1>3, <1>5, <1>10 DEF HugeClear, Goto
<1>12. PICK x \in {"node", "idle"}, c \in Block \cup {NULL}, k \in Nat :
         /\ pc' = [pc EXCEPT ![t] = x] /\ cur' = [cur EXCEPT ![t] = c]
         /\ key' = [key EXCEPT ![t] = k]
         /\ x = "node" => c \in Block /\ Entries(c) = {k}
  <2>1. CASE left.len > 0
    <3>1. b.len - n > 0
      BY <1>10, <2>1 DEF Huge
    <3>2. left \in Block /\ Entries(left) = {b.at + n} /\ b.at + n \in Nat /\ left.at = b.at + n
      BY <1>10, <3>1, LeftIsBlock DEF Huge
    <3>3. pc' = [pc EXCEPT ![t] = "node"] /\ cur' = [cur EXCEPT ![t] = left]
          /\ key' = [key EXCEPT ![t] = left.at]
      BY <1>11, <2>1
    <3> QED BY <3>2, <3>3
  <2>2. CASE ~ (left.len > 0)
    BY <1>11, <2>2
  <2> QED BY <2>1, <2>2
<1>13. Types'
  BY <1>1, <1>2, <1>8, <1>9, <1>11, <1>12, TypesAre DEF RestTypes, Sound, PcValues, Expanding
<1>14. \A u \in Thread : u # t => Same(u)
  BY <1>1, <1>2, <1>9, <1>11, <1>12 DEF Same, RestTypes
<1>15. ThreadOK(t)'
  <2>1. pc'[t] = x /\ cur'[t] = c /\ key'[t] = k
    BY <1>1, <1>12 DEF RestTypes
  <2>2. x = "node" => \A p \in Entries(c) : ~ (p \div LEN < k \div LEN)
    <3>1. SUFFICES ASSUME x = "node" PROVE ~ (k \div LEN < k \div LEN)
      BY <1>12
    <3>2. k \div LEN \in Nat
      BY RoomIsNat, DivMod
    <3> QED BY <3>2
  <2> QED BY <1>12, <2>1, <2>2 DEF ThreadOK, Expanding, Rooting
<1> QED BY <1>2, <1>8, <1>9, <1>13, <1>14, <1>15, Assemble

LEMMA TStep ==
  ASSUME ConstantsOK, TInv, [Next]_vars
  PROVE  TInv' /\ Grows
<1>1. CASE Next
  <2>1. PICK t \in Thread :
          \/ \E b \in NewBlocks : Map(t, b)
          \/ TestNode(t) \/ CasNode(t) \/ TestLeaf(t) \/ CasLeaf(t)
          \/ Set(t) \/ Return(t) \/ Carve(t)
          \/ \E b \in blocks : FreeHuge(t, b) \/ FreeSp(t, b)
          \/ \E b \in blocks, page \in Page : page \in Entries(b) /\ Look(t, b, page)
          \/ HugeUnmap(t) \/ HugeClear(t) \/ SpErase(t) \/ SpUnmap(t)
    BY <1>1 DEF Next
  <2> QED BY <2>1, MapStep, TestNodeStep, CasNodeStep, TestLeafStep, CasLeafStep, SetStep,
             ReturnStep, CarveStep, FreeHugeStep, FreeSpStep, LookStep, HugeUnmapStep,
             HugeClearStep, SpUnmapStep
<1>2. CASE UNCHANGED vars
  <2>1. Sound' /\ Grows
    BY <1>2, SoundOfTInv, TreeStays DEF vars, treeVars, thrVars
  <2>2. Types'
    BY <1>2 DEF TInv, Types, vars, treeVars, tagVars, thrVars
  <2>3. \A u \in Thread : Same(u)
    BY <1>2 DEF Same, vars, treeVars, tagVars, thrVars
  <2>4. \A u \in Thread : ThreadOK(u)' /\ TagOK(u)' /\ NewOK(u)'
    BY <2>1, <2>3, SameThread DEF Sound, NewsOK
  <2>5. \A b \in blocks' : Rooted(b)'
    BY <1>2, <2>1, RootedStays DEF TInv, Types, vars
  <2> QED BY <2>1, <2>2, <2>4, <2>5 DEF TInv, Sound
<1> QED BY <1>1, <1>2

LEMMA TInit ==
  ASSUME ConstantsOK, Init
  PROVE  TInv
<1>1. NULL \notin Nat /\ \A i, j \in Slot : node[i] = NULL /\ LeafAt(i, j) = NULL
  BY DEF Init, LeafAt, ConstantsOK
<1>2. Types
  BY DEF Init, Types, PcValues
<1>3. TreeOK
  BY <1>1 DEF TreeOK
<1>4. \A t \in Thread : NewOK(t) /\ ThreadOK(t) /\ TagOK(t)
  BY DEF Init, NewOK, ThreadOK, TagOK, Expanding, Rooting
<1>5. \A b \in blocks : Rooted(b)
  BY DEF Init
<1> QED BY <1>2, <1>3, <1>4, <1>5 DEF TInv

(* Whatever threads race for, the tree is one: each node and leaf is in    *)
(* one place, what a thread has mapped is its own until it is there, and   *)
(* the leaf a thread has cached is the one of its tag.                     *)
THEOREM TreeInvariant == ConstantsOK /\ Spec => []TInv
<1> SUFFICES ASSUME ConstantsOK PROVE Spec => []TInv
  OBVIOUS
<1>1. Init => TInv
  BY TInit
<1>2. TInv /\ [Next]_vars => TInv'
  BY TStep
<1> QED BY <1>1, <1>2, PTL DEF Spec

(* A node or a leaf that is in the tree stays there: pagemap_expand never  *)
(* replaces what another thread's compare-and-swap has entered.            *)
THEOREM Growth == ConstantsOK /\ Spec => TreeGrows
<1> SUFFICES ASSUME ConstantsOK PROVE Spec => TreeGrows
  OBVIOUS
<1>1. TInv /\ [Next]_vars =>
        [/\ \A i \in Slot : node[i] # NULL => node'[i] = node[i]
         /\ \A tag \in Tag : LeafOf(tag) # NULL => LeafOf(tag)' = LeafOf(tag)]_vars
  BY TStep, GrowsKeeps DEF Grows
<1> QED BY <1>1, TreeInvariant, PTL DEF Spec, TreeGrows

----------------------------------------------------------------------------
(* TreeSound                                                               *)

LEMMA AsMany ==
  ASSUME NEW S, IsFiniteSet(S), NEW T, NEW f \in [S -> T],
         \A x, y \in S : f[x] = f[y] => x = y, \A z \in T : \E x \in S : f[x] = z
  PROVE  IsFiniteSet(T) /\ Cardinality(T) = Cardinality(S)
<1>1. f \in Bijection(S, T)
  BY DEF Bijection, Injection, Surjection, IsInjective
<1>2. ExistsBijection(S, T)
  BY <1>1 DEF ExistsBijection
<1> QED BY <1>2, FS_Bijection

LEMMA NodesAreApart ==
  ASSUME ConstantsOK, TInv
  PROVE  /\ IsFiniteSet({node[i] : i \in Slot} \ {NULL})
         /\ Cardinality({node[i] : i \in Slot} \ {NULL})
              = Cardinality({i \in Slot : node[i] # NULL})
<1> DEFINE A == {i \in Slot : node[i] # NULL}
           N == {node[i] : i \in Slot} \ {NULL}
           f == [i \in A |-> node[i]]
<1>1. IsFiniteSet(Slot)
  BY RoomIsNat, FS_Interval DEF Slot
<1>2. IsFiniteSet(A)
  <2>1. A \in SUBSET Slot
    OBVIOUS
  <2> QED BY <1>1, <2>1, FS_Subset
<1>3. f \in [A -> N] /\ (\A i, j \in A : f[i] = f[j] => i = j) /\ \A z \in N : \E i \in A : f[i] = z
  BY DEF TInv, TreeOK
<1> HIDE DEF A, N, f
<1>4. IsFiniteSet(N) /\ Cardinality(N) = Cardinality(A)
  BY <1>2, <1>3, AsMany
<1> QED BY <1>4 DEF A, N

LEMMA LeavesAreApart ==
  ASSUME ConstantsOK, TInv
  PROVE  /\ IsFiniteSet(Leaves)
         /\ Cardinality(Leaves) = Cardinality({tag \in Tag : LeafOf(tag) # NULL})
<1> DEFINE B == {tag \in Tag : LeafOf(tag) # NULL}
           f == [tag \in B |-> LeafOf(tag)]
<1>1. IsFiniteSet(Tag)
  BY RoomIsNat, FS_Interval DEF Tag
<1>2. IsFiniteSet(B)
  <2>1. B \in SUBSET Tag
    OBVIOUS
  <2> QED BY <1>1, <2>1, FS_Subset
<1>3. ASSUME NEW a \in B, NEW b \in B, f[a] = f[b] PROVE a = b
  <2>1. LeafAt(a \div LEN, a % LEN) = LeafAt(b \div LEN, b % LEN)
        /\ LeafAt(a \div LEN, a % LEN) # NULL
    BY <1>3, LeafOfTag
  <2>2. a \div LEN = b \div LEN /\ a % LEN = b % LEN
    BY <2>1, TagSlots DEF TInv, TreeOK
  <2> QED BY <2>2, TagOfSlots
<1>4. f \in [B -> Leaves] /\ \A z \in Leaves : \E a \in B : f[a] = z
  BY DEF Leaves
<1> HIDE DEF B, f
<1>5. IsFiniteSet(Leaves) /\ Cardinality(Leaves) = Cardinality(B)
  BY <1>2, <1>3, <1>4, AsMany
<1> QED BY <1>5 DEF B

LEMMA InvTreeSound ==
  ASSUME ConstantsOK, TInv
  PROVE  TreeSound
<1> DEFINE N == {node[i] : i \in Slot} \ {NULL}
<1>1. Sound
  BY SoundOfTInv
<1>2. ASSUME NEW l \in Leaves
      PROVE  \E i, j \in Slot : l = LeafAt(i, j) /\ LeafAt(i, j) # NULL
  BY TagSlots, LeafOfTag DEF Leaves
<1>3. N \cap Leaves = {}
  BY <1>2 DEF TInv, TreeOK
<1>4. N \subseteq live /\ Leaves \subseteq live
  BY <1>2 DEF TInv, TreeOK
<1>5. Held \subseteq live /\ Held \cap N = {} /\ Held \cap Leaves = {}
  BY <1>2 DEF Held, TInv, NewOK
<1>6. \A t, u \in Thread : t # u => new[t] # new[u] \/ new[t] = NULL
  BY DEF TInv, NewOK
<1>7. ASSUME NEW t \in Thread, l_pagemap_tag[t] >= 0
      PROVE  l_pagemap_leaf[t] \in Leaves /\ l_pagemap_leaf[t] = LeafOf(l_pagemap_tag[t])
  <2>1. l_pagemap_tag[t] \in Tag \cup {-1} /\ TagOK(t) /\ l_pagemap_tag[t] # -1
    BY <1>7 DEF TInv, Types
  <2> QED BY <2>1 DEF TagOK, Leaves
<1>8. /\ Cardinality(N \cup Leaves) = Cardinality(N) + Cardinality(Leaves)
  <2>1. IsFiniteSet(N) /\ IsFiniteSet(Leaves)
    BY NodesAreApart, LeavesAreApart
  <2> HIDE DEF N
  <2>2. Cardinality(N \cup Leaves)
          = Cardinality(N) + Cardinality(Leaves) - Cardinality(N \cap Leaves)
    BY <2>1, FS_Union
  <2>3. Cardinality(N \cap Leaves) = 0
    BY <1>3, FS_EmptySet, Zenon
  <2>4. Cardinality(N) \in Nat /\ Cardinality(Leaves) \in Nat
    BY <2>1, FS_CardinalityType
  <2> QED BY <2>2, <2>3, <2>4
<1>9. Cardinality(TreeObj) = Cardinality({i \in Slot : node[i] # NULL})
        + Cardinality({tag \in Tag : LeafOf(tag) # NULL})
  <2>1. TreeObj = N \cup Leaves
    BY DEF TreeObj
  <2>2. Cardinality(TreeObj) = Cardinality(N) + Cardinality(Leaves)
    BY <1>8, <2>1, Zenon
  <2>3. Cardinality(N) = Cardinality({i \in Slot : node[i] # NULL})
    BY NodesAreApart
  <2> HIDE DEF N
  <2> QED BY <2>2, <2>3, LeavesAreApart, Zenon
<1> QED BY <1>4, <1>5, <1>6, <1>7, <1>9 DEF TreeSound, TreeObj

(* The loser of a race unmaps only what is its own: what is in the tree    *)
(* stays mapped, no two threads hold the same memory, each node and leaf   *)
(* is in one place, and a leaf a thread has cached is the one of its tag.  *)
THEOREM TreeIsSound == ConstantsOK /\ Spec => []TreeSound
<1> SUFFICES ASSUME ConstantsOK PROVE Spec => []TreeSound
  OBVIOUS
<1>1. TInv => TreeSound
  BY InvTreeSound
<1> QED BY <1>1, TreeInvariant, PTL

----------------------------------------------------------------------------
(* The entries                                                             *)

LEMMA EntryAt ==
  ASSUME NEW p
  PROVE  /\ Entry(p) = IF LeafAt((p \div LEN) \div LEN, (p \div LEN) % LEN) = NULL THEN NULL
                       ELSE mem[LeafAt((p \div LEN) \div LEN, (p \div LEN) % LEN)][p % LEN]
         /\ Entry(p)' = IF LeafAt((p \div LEN) \div LEN, (p \div LEN) % LEN)' = NULL THEN NULL
                        ELSE mem'[LeafAt((p \div LEN) \div LEN, (p \div LEN) % LEN)'][p % LEN]
BY DEF Entry, LeafOf, LeafAt

(* Nothing but pagemap_set changes an entry: a new leaf has none.          *)
LEMMA SameEntries ==
  ASSUME ConstantsOK, Sound,
         \A i, j \in Slot : LeafAt(i, j)' = LeafAt(i, j),
         \A o \in live : mem'[o] = mem[o]
  PROVE  \A p \in Page : Entry(p)' = Entry(p)
<1> SUFFICES ASSUME NEW p \in Page PROVE Entry(p)' = Entry(p)
  OBVIOUS
<1>1. PICK i \in Slot, j \in Slot : i = (p \div LEN) \div LEN /\ j = (p \div LEN) % LEN
  BY PageSlots, TagSlots
<1> QED BY <1>1, EntryAt, SlotsOfTree

LEMMA ExpandEntries ==
  ASSUME ConstantsOK, TInv, NEW t \in Thread,
         TestNode(t) \/ CasNode(t) \/ TestLeaf(t) \/ CasLeaf(t)
  PROVE  \A p \in Page : Entry(p)' = Entry(p)
<1>1. Sound /\ RestTypes /\ ThreadOK(t) /\ TreeTypes
  BY TypesAre, SoundOfTInv DEF TInv, Sound
<1>2. \A o \in live : o \in Obj
  BY <1>1 DEF TreeTypes
<1>3. CASE node' = node /\ MapObj(t)
  BY <1>1, <1>3, MapKeeps, SameEntries
<1>4. CASE UNCHANGED <<node, mem>>
  <2>1. \A i, j \in Slot : LeafAt(i, j)' = LeafAt(i, j)
    BY <1>4 DEF LeafAt
  <2> QED BY <1>1, <1>4, <2>1, SameEntries
<1>5. CASE CasNode(t) /\ node[I1(t)] = NULL
  <2>1. I1(t) \in Slot /\ new[t] # NULL
    BY <1>1, <1>5, KeyIsPage DEF CasNode, Goto, ThreadOK, Expanding
  <2>2. PICK k \in Slot : k = I1(t)
    BY <2>1
  <2>3. node[k] = NULL /\ node' = [node EXCEPT ![k] = new[t]] /\ mem' = mem /\ live' = live
        /\ new' = [new EXCEPT ![t] = NULL]
    BY <1>5, <2>2 DEF CasNode
  <2>4. \A i, j \in Slot : LeafAt(i, j)' = LeafAt(i, j)
    BY <1>1, <2>1, <2>3, NodeKeeps
  <2> QED BY <1>1, <2>3, <2>4, SameEntries
<1>6. CASE CasLeaf(t) /\ mem[interior[t]][I2(t)] = NULL
  <2>1. I1(t) \in Slot /\ I2(t) \in Slot /\ new[t] # NULL /\ interior[t] = node[I1(t)]
        /\ node[I1(t)] # NULL
    BY <1>1, <1>6, KeyIsPage DEF CasLeaf, ThreadOK, Expanding
  <2>2. PICK k \in Slot, l \in Slot : k = I1(t) /\ l = I2(t)
    BY <2>1
  <2>3. /\ node[k] # NULL /\ mem[node[k]][l] = NULL
        /\ mem' = [mem EXCEPT ![node[k]][l] = new[t]] /\ node' = node /\ live' = live
        /\ new' = [new EXCEPT ![t] = NULL]
    BY <1>6, <2>1, <2>2 DEF CasLeaf
  <2>4. Sound /\ new[t] # NULL
    BY <1>1, <2>1
  <2>5. LeafAt(k, l)' = new[t] /\ LeafAt(k, l) = NULL
    BY <2>3, <2>4, LeafKeeps
  <2>6. ASSUME NEW i \in Slot, NEW j \in Slot, i # k \/ j # l
        PROVE  LeafAt(i, j)' = LeafAt(i, j)
    <3>1. OthersStay(k, l)
      BY <2>3, <2>4, LeafKeeps
    <3> QED BY <2>6, <3>1 DEF OthersStay
  <2>7. ASSUME NEW o \in Obj, \A i \in Slot : node[i] # o
        PROVE  mem'[o] = mem[o]
    BY <2>3, <2>4, <2>7, LeafKeeps
  <2>8. ASSUME NEW p \in Page PROVE Entry(p)' = Entry(p)
    <3>1. PICK i \in Slot, j \in Slot : i = (p \div LEN) \div LEN /\ j = (p \div LEN) % LEN
      BY PageSlots, TagSlots
    <3>2. NewOK(t) /\ new[t] \in Obj /\ p % LEN \in Slot
      BY <1>1, <2>1, PageSlots DEF TInv, TreeTypes
    <3>3. CASE i = k /\ j = l
      BY <2>1, <2>5, <2>7, <3>1, <3>2, <3>3, EntryAt DEF NewOK
    <3>4. CASE ~ (i = k /\ j = l)
      <4>1. LeafAt(i, j) # NULL => LeafAt(i, j) \in Obj /\ \A m \in Slot : node[m] # LeafAt(i, j)
        BY <1>1, SlotsOfTree DEF Sound, TreeOK
      <4> QED BY <2>6, <2>7, <3>1, <3>4, <4>1, EntryAt
    <3> QED BY <3>3, <3>4
  <2> QED BY <2>8
<1> QED BY <1>3, <1>4, <1>5, <1>6 DEF TestNode, CasNode, TestLeaf, CasLeaf

(* pagemap_set changes the entry of its page and no other.                 *)
LEMMA SetChanges ==
  ASSUME ConstantsOK, TInv, NEW t \in Thread, NEW p \in Page, HasLeaf(p),
         NEW val \in {NULL, "huge", "pbh"}, pagemap_set(t, p, val), new' = new
  PROVE  \A q \in Page : Entry(q)' = IF q = p THEN val ELSE Entry(q)
<1>1. Types /\ TagOK(t) /\ Sound /\ TreeOK
  BY SoundOfTInv DEF TInv
<1>2. Leaf(t, p) = LeafOf(p \div LEN) /\ LeafOf(p \div LEN) # NULL
  BY <1>1, LeafIsThere
<1>3. PICK i \in Slot, j \in Slot : i = (p \div LEN) \div LEN /\ j = (p \div LEN) % LEN
  BY PageSlots, TagSlots
<1>4. LeafOf(p \div LEN) = LeafAt(i, j) /\ LeafAt(i, j) # NULL
  BY <1>2, <1>3, LeafOfTag
<1>5. PICK m \in Slot : m = p % LEN
  BY PageSlots
<1>6. mem' = [mem EXCEPT ![LeafAt(i, j)][m] = val] /\ node' = node /\ live' = live
  BY <1>2, <1>4, <1>5 DEF pagemap_set
<1>7. /\ \A k, l \in Slot : LeafAt(k, l)' = LeafAt(k, l)
      /\ \A o \in Obj : o # LeafAt(i, j) => mem'[o] = mem[o]
      /\ \A n \in Slot : mem'[LeafAt(i, j)][n] = IF n = m THEN val ELSE mem[LeafAt(i, j)][n]
  <2>1. ASSUME NEW k \in Slot, NEW l \in Slot PROVE LeafAt(k, l)' = LeafAt(k, l)
    BY <1>1, <1>4, <1>6, EntryKeeps
  <2>2. ASSUME NEW o \in Obj, o # LeafAt(i, j) PROVE mem'[o] = mem[o]
    BY <1>1, <1>4, <1>6, <2>2, EntryKeeps
  <2>3. ASSUME NEW n \in Slot
        PROVE  mem'[LeafAt(i, j)][n] = IF n = m THEN val ELSE mem[LeafAt(i, j)][n]
    <3>1. PICK o \in Obj : o = LeafAt(i, j)
      BY <1>1, <1>4, SlotsOfTree
    <3> QED BY <1>1, <1>6, <3>1 DEF Types
  <2> QED BY <2>1, <2>2, <2>3
<1>8. ASSUME NEW q \in Page PROVE Entry(q)' = IF q = p THEN val ELSE Entry(q)
  <2>1. PICK k \in Slot, l \in Slot : k = (q \div LEN) \div LEN /\ l = (q \div LEN) % LEN
    BY PageSlots, TagSlots
  <2>2. PICK n \in Slot : n = q % LEN
    BY PageSlots
  <2>3. /\ Entry(q) = IF LeafAt(k, l) = NULL THEN NULL ELSE mem[LeafAt(k, l)][n]
        /\ Entry(q)' = IF LeafAt(k, l)' = NULL THEN NULL ELSE mem'[LeafAt(k, l)'][n]
    BY <2>1, <2>2, EntryAt
  <2>4. CASE k = i /\ l = j
    <3>1. n = m => q = p
      <4>1. q \div LEN = p \div LEN
        BY <1>3, <2>1, <2>4, PageSlots, TagOfSlots
      <4> QED BY <1>5, <2>2, <4>1, PageOfSlots
    <3>2. q = p => n = m
      BY <1>5, <2>2
    <3> QED BY <1>4, <1>7, <2>3, <2>4, <3>1, <3>2
  <2>5. CASE ~ (k = i /\ l = j)
    <3>1. q # p
      BY <1>3, <2>1, <2>5
    <3>2. LeafAt(k, l) # NULL => LeafAt(k, l) # LeafAt(i, j) /\ LeafAt(k, l) \in Obj
      BY <1>1, <1>4, <2>5, SlotsOfTree DEF TreeOK
    <3> QED BY <1>7, <2>3, <3>1, <3>2
  <2> QED BY <2>4, <2>5
<1> QED BY <1>8

(* What free and realloc find.                                             *)
LEMMA Found ==
  ASSUME ConstantsOK, TInv, NEW t \in Thread, NEW p \in Page, HasLeaf(p)
  PROVE  mem[Leaf(t, p)][p % LEN] = Entry(p)
<1>1. Leaf(t, p) = LeafOf(p \div LEN) /\ LeafOf(p \div LEN) # NULL
  BY LeafIsThere DEF TInv
<1> QED BY <1>1 DEF Entry

----------------------------------------------------------------------------
(* Each action keeps EInv                                                  *)

LEMMA KeptIs ==
  ASSUME NEW t \in Thread
  PROVE  /\ cur[t] = NULL /\ pc[t] # "clear" => Kept(t) = {}
         /\ cur[t] # NULL /\ pc[t] # "clear" => Kept(t) = Extent(cur[t])
         /\ cur[t] # NULL /\ pc[t] = "clear" =>
              Kept(t) = (Extent(cur[t]) \ (cur[t].at .. cur[t].at + cut[t] - 1))
                          \cup {cur[t].at}
<1>1. ASSUME cur[t] = NULL, pc[t] # "clear" PROVE Kept(t) = {}
  BY <1>1 DEF Kept, Mapped
<1>2. ASSUME cur[t] # NULL, pc[t] # "clear" PROVE Kept(t) = Extent(cur[t])
  BY <1>2 DEF Kept, Mapped
<1>3. ASSUME cur[t] # NULL, pc[t] = "clear"
      PROVE  Kept(t) = (Extent(cur[t]) \ (cur[t].at .. cur[t].at + cut[t] - 1))
                         \cup {cur[t].at}
  BY <1>3 DEF Kept, Mapped
<1> QED BY <1>1, <1>2, <1>3

LEMMA KeptNext ==
  ASSUME NEW t \in Thread, NEW c, c = cur'[t], NEW n, n = cut'[t]
  PROVE  /\ c = NULL /\ pc'[t] # "clear" => Kept(t)' = {}
         /\ c # NULL /\ pc'[t] # "clear" => Kept(t)' = Extent(c)
         /\ c # NULL /\ pc'[t] = "clear" =>
              Kept(t)' = (Extent(c) \ (c.at .. c.at + n - 1)) \cup {c.at}
<1>1. ASSUME c = NULL, pc'[t] # "clear" PROVE Kept(t)' = {}
  BY <1>1 DEF Kept, Mapped
<1>2. ASSUME c # NULL, pc'[t] # "clear" PROVE Kept(t)' = Extent(c)
  BY <1>2 DEF Kept, Mapped
<1>3. ASSUME c # NULL, pc'[t] = "clear"
      PROVE  Kept(t)' = (Extent(c) \ (c.at .. c.at + n - 1)) \cup {c.at}
  BY <1>3 DEF Kept, Mapped
<1> QED BY <1>1, <1>2, <1>3

LEMMA SameKept ==
  ASSUME NEW u \in Thread, Same(u)
  PROVE  Kept(u)' = Kept(u) /\ \A p \in Page : EntryNow(u, p)' = EntryNow(u, p)
<1>1. Kept(u)' = Kept(u)
  BY DEF Same, Kept, Mapped
<1>2. ASSUME NEW p \in Page PROVE EntryNow(u, p)' = EntryNow(u, p)
  BY DEF Same, EntryNow, EntryOf
<1> QED BY <1>1, <1>2

(* A step of a thread with the pages it has.                               *)
LEMMA WithinKept ==
  ASSUME ConstantsOK, TInv, EInv, NEW t \in Thread, blocks' = blocks,
         \A u \in Thread : u # t => Same(u),
         Kept(t)' \subseteq Kept(t), pc'[t] # "lost", pc'[t] = "idle" => cur'[t] = NULL,
         \A p \in Page : p \notin Kept(t) => Entry(p)' = Entry(p),
         \A p \in Kept(t) : p \in Kept(t)' => Entry(p)' = EntryNow(t, p)',
         \A p \in Kept(t) : p \notin Kept(t)' => Entry(p)' = NULL
  PROVE  EInv'
<1>1. \A u \in Thread : u # t => Kept(u)' = Kept(u)
  BY SameKept
<1>2. SpaceOK'
  <2>1. \A b \in blocks, u \in Thread : Extent(b) \cap Kept(u)' = {}
    BY <1>1 DEF EInv, SpaceOK
  <2>2. \A u, v \in Thread : u # v => Kept(u)' \cap Kept(v)' = {}
    BY <1>1 DEF EInv, SpaceOK
  <2>3. \A u \in Thread : pc'[u] = "idle" => cur'[u] = NULL
    BY DEF EInv, SpaceOK, Same
  <2> QED BY <2>1, <2>2, <2>3 DEF EInv, SpaceOK
<1>3. EntriesOK'
  <2> SUFFICES ASSUME NEW p \in Page
               PROVE  /\ \A b \in blocks : p \in Extent(b) => Entry(p)' = EntryOf(b, p)
                      /\ \A u \in Thread : p \in Kept(u)' => Entry(p)' = EntryNow(u, p)'
                      /\ (\A b \in blocks : p \notin Extent(b))
                         /\ (\A u \in Thread : p \notin Kept(u)') => Entry(p)' = NULL
    BY DEF EntriesOK
  <2>1. ASSUME NEW b \in blocks, p \in Extent(b) PROVE Entry(p)' = EntryOf(b, p)
    <3>1. p \notin Kept(t)
      BY <2>1 DEF EInv, SpaceOK
    <3> QED BY <2>1, <3>1 DEF EInv, EntriesOK
  <2>2. ASSUME NEW u \in Thread, p \in Kept(u)' PROVE Entry(p)' = EntryNow(u, p)'
    <3>1. CASE u = t
      BY <2>2, <3>1
    <3>2. CASE u # t
      <4>1. p \in Kept(u) /\ p \notin Kept(t) /\ EntryNow(u, p)' = EntryNow(u, p)
        BY <1>1, <2>2, <3>2, SameKept DEF EInv, SpaceOK
      <4> QED BY <4>1 DEF EInv, EntriesOK
    <3> QED BY <3>1, <3>2
  <2>3. ASSUME \A b \in blocks : p \notin Extent(b), \A u \in Thread : p \notin Kept(u)'
        PROVE  Entry(p)' = NULL
    <3>1. CASE p \in Kept(t)
      BY <2>3, <3>1
    <3>2. CASE p \notin Kept(t)
      <4>1. \A u \in Thread : p \notin Kept(u)
        BY <1>1, <2>3, <3>2
      <4> QED BY <2>3, <3>2, <4>1 DEF EInv, EntriesOK
    <3> QED BY <3>1, <3>2
  <2> QED BY <2>1, <2>2, <2>3
<1>4. \A u \in Thread : pc'[u] # "lost"
  BY DEF EInv, Same
<1> QED BY <1>2, <1>3, <1>4 DEF EInv

LEMMA NowIs ==
  ASSUME NEW t \in Thread, NEW p
  PROVE  /\ pc[t] = "set" => EntryNow(t, p) = IF p < key[t] THEN EntryOf(cur[t], p) ELSE NULL
         /\ pc[t] = "erase" => EntryNow(t, p) = IF p >= key[t] THEN EntryOf(cur[t], p) ELSE NULL
         /\ pc[t] \in {"made", "unmap"} => EntryNow(t, p) = EntryOf(cur[t], p)
         /\ pc[t] = "clear" => EntryNow(t, p) = IF p = cur[t].at THEN "huge" ELSE NULL
         /\ pc[t] \notin {"set", "erase", "made", "unmap", "clear"} => EntryNow(t, p) = NULL
BY DEF EntryNow

LEMMA NowNext ==
  ASSUME NEW t \in Thread, NEW p, NEW c, c = cur'[t], NEW k, k = key'[t]
  PROVE  /\ pc'[t] = "set" => EntryNow(t, p)' = IF p < k THEN EntryOf(c, p) ELSE NULL
         /\ pc'[t] = "erase" => EntryNow(t, p)' = IF p >= k THEN EntryOf(c, p) ELSE NULL
         /\ pc'[t] \in {"made", "unmap"} => EntryNow(t, p)' = EntryOf(c, p)
         /\ pc'[t] = "clear" => EntryNow(t, p)' = IF p = c.at THEN "huge" ELSE NULL
         /\ pc'[t] \notin {"set", "erase", "made", "unmap", "clear"} => EntryNow(t, p)' = NULL
BY DEF EntryNow, EntryOf

(* The block of a thread that has one.                                     *)
LEMMA CurIs ==
  ASSUME ConstantsOK, TInv, NEW t \in Thread, pc[t] \in Expanding \cup Rooting
  PROVE  cur[t] \in Block /\ cur[t] # NULL
BY NotNull DEF TInv, ThreadOK

LEMMA ExpandExact ==
  ASSUME ConstantsOK, TInv, EInv, NEW t \in Thread,
         TestNode(t) \/ CasNode(t) \/ TestLeaf(t) \/ CasLeaf(t)
  PROVE  EInv'
<1>1. RestTypes
  BY TypesAre DEF TInv
<1>2. pc[t] \in Expanding /\ cur' = cur /\ blocks' = blocks /\ cut' = cut
  BY DEF TestNode, CasNode, TestLeaf, CasLeaf, Goto, Expanding
<1>3. PICK b \in Block : b = cur[t] /\ b # NULL
  BY <1>2, CurIs
<1>4. cur'[t] = b /\ pc'[t] \in Expanding \cup {"set"}
      /\ (pc'[t] = "set" => key'[t] = Min(Entries(b)))
  <2>1. CASE pc'[t] \in Expanding
    BY <1>2, <1>3, <2>1 DEF Expanding
  <2>2. CASE NextKey(t)
    BY <1>1, <1>2, <1>3, <2>2 DEF NextKey, RestTypes, Expanding
  <2> QED BY <1>1, <2>1, <2>2
          DEF TestNode, CasNode, TestLeaf, CasLeaf, Goto, RestTypes, Expanding
<1>5. \A u \in Thread : u # t => Same(u)
  BY <1>1, SoundOfTInv DEF TestNode, CasNode, TestLeaf, CasLeaf, Goto, NextKey, MapObj, Same,
     RestTypes, tagVars, Sound, TreeTypes
<1>6. Kept(t) = Extent(b) /\ Kept(t)' = Extent(b)
  BY <1>2, <1>3, <1>4, KeptIs, KeptNext DEF Expanding
<1>7. ASSUME NEW p \in Kept(t) PROVE Entry(p)' = EntryNow(t, p)'
  <2>1. p \in Page
    BY <1>6, <1>7, EntriesOfBlock
  <2>2. Entry(p) = NULL
    BY <1>2, <1>7, <2>1, NowIs DEF EInv, EntriesOK, Expanding
  <2>3. Entry(p)' = NULL
    BY <2>1, <2>2, ExpandEntries
  <2>4. p < Min(Entries(b)) => EntryOf(b, p) = NULL
    BY <2>1, EntriesOfBlock, PageSlots DEF EntryOf
  <2> QED BY <1>4, <2>3, <2>4, NowNext DEF Expanding
<1>8. pc'[t] # "lost" /\ pc'[t] # "idle"
  BY <1>4 DEF Expanding
<1> QED BY <1>2, <1>5, <1>6, <1>7, <1>8, ExpandEntries, WithinKept

LEMMA SetExact ==
  ASSUME ConstantsOK, TInv, EInv, NEW t \in Thread, NEW val \in {NULL, "huge", "pbh"},
         \/ SetEntry(t, "set", "made", val) /\ val = Mark(cur[t])
         \/ SetEntry(t, "erase", "unmapsp", val) /\ val = NULL
  PROVE  EInv'
<1>1. RestTypes /\ ThreadOK(t)
  BY TypesAre DEF TInv
<1>2. /\ pc[t] \in {"set", "erase"} /\ cur' = cur /\ new' = new /\ interior' = interior
      /\ cut' = cut /\ blocks' = blocks /\ pagemap_set(t, key[t], val)
  BY DEF SetEntry, Goto
<1>3. PICK b \in Block : b = cur[t] /\ b # NULL
  BY <1>2, CurIs DEF Rooting
<1>4. PICK k \in Entries(b) : k = key[t]
  BY <1>1, <1>2, <1>3 DEF ThreadOK
<1>5. Rooted(b) /\ k \in Page /\ HasLeaf(k)
  BY <1>1, <1>2, <1>3, <1>4, EntriesOfBlock DEF ThreadOK, Rooting, Rooted
<1>6. \A q \in Page : Entry(q)' = IF q = k THEN val ELSE Entry(q)
  BY <1>2, <1>4, <1>5, SetChanges
<1>7. cur'[t] = b
  BY <1>2, <1>3
<1>8. \/ /\ pc[t] = "set" /\ val = Mark(b)
         /\ \/ pc'[t] = "set" /\ key'[t] = k + 1 
            \/ pc'[t] = "made" /\ k = Max(Entries(b))
      \/ /\ pc[t] = "erase" /\ val = NULL
         /\ \/ pc'[t] = "erase" /\ key'[t] = k + 1
            \/ pc'[t] = "unmapsp" /\ k = Max(Entries(b))
  BY <1>1, <1>3, <1>4 DEF SetEntry, Goto, RestTypes
<1>9. \A u \in Thread : u # t => Same(u)
  BY <1>1, <1>2 DEF SetEntry, Goto, Same, RestTypes, pagemap_set, Cache
<1>10. Kept(t) = Extent(b) /\ Kept(t)' = Extent(b) /\ k \in Extent(b)
  BY <1>2, <1>3, <1>7, <1>8, KeptIs, KeptNext, EntriesOfBlock
<1>11. ASSUME NEW p \in Kept(t) PROVE Entry(p)' = EntryNow(t, p)'
  <2>1. p \in Page /\ p \in Nat /\ k \in Nat
    BY <1>5, <1>10, <1>11, EntriesOfBlock, PageSlots
  <2>2. Entry(p) = EntryNow(t, p)
    BY <1>11, <2>1 DEF EInv, EntriesOK
  <2>3. EntryOf(b, k) = Mark(b)
    BY DEF EntryOf
  <2>4. p > Max(Entries(b)) => EntryOf(b, p) = NULL
    BY <2>1, EntriesOfBlock DEF EntryOf
  <2>5. CASE pc[t] = "set"
    <3>1. Entry(p) = IF p < k THEN EntryOf(b, p) ELSE NULL
      BY <1>3, <1>4, <2>2, <2>5, NowIs
    <3>2. Entry(p)' = IF p <= k THEN EntryOf(b, p) ELSE NULL
      BY <1>6, <1>8, <2>1, <2>3, <2>5, <3>1
    <3>3. CASE pc'[t] = "set"
      <4>1. EntryNow(t, p)' = IF p < k + 1 THEN EntryOf(b, p) ELSE NULL
        BY <1>7, <1>8, <3>3, NowNext
      <4> QED BY <2>1, <3>2, <4>1
    <3>4. CASE pc'[t] = "made"
      <4>1. EntryNow(t, p)' = EntryOf(b, p) /\ k = Max(Entries(b))
        BY <1>7, <1>8, <3>4, NowNext
      <4> QED BY <2>1, <2>4, <3>2, <4>1
    <3> QED BY <1>8, <2>5, <3>3, <3>4
  <2>6. CASE pc[t] = "erase"
    <3>1. Entry(p) = IF p >= k THEN EntryOf(b, p) ELSE NULL
      BY <1>3, <1>4, <2>2, <2>6, NowIs
    <3>2. Entry(p)' = IF p >= k + 1 THEN EntryOf(b, p) ELSE NULL
      BY <1>6, <1>8, <2>1, <2>6, <3>1
    <3>3. CASE pc'[t] = "erase"
      <4>1. EntryNow(t, p)' = IF p >= k + 1 THEN EntryOf(b, p) ELSE NULL
        BY <1>7, <1>8, <3>3, NowNext
      <4> QED BY <3>2, <4>1
    <3>4. CASE pc'[t] = "unmapsp"
      <4>1. EntryNow(t, p)' = NULL /\ k = Max(Entries(b))
        BY <1>7, <1>8, <3>4, NowNext
      <4> QED BY <2>1, <2>4, <3>2, <4>1
    <3> QED BY <1>8, <2>6, <3>3, <3>4
  <2> QED BY <1>2, <2>5, <2>6
<1>12. pc'[t] # "lost" /\ pc'[t] # "idle"
  BY <1>8
<1>13. ASSUME NEW p \in Page, p \notin Kept(t) PROVE Entry(p)' = Entry(p)
  BY <1>6, <1>10, <1>13
<1> QED BY <1>2, <1>9, <1>10, <1>11, <1>12, <1>13, WithinKept

LEMMA CarveExact ==
  ASSUME ConstantsOK, TInv, EInv, NEW t \in Thread, Carve(t)
  PROVE  EInv'
<1>1. RestTypes
  BY TypesAre DEF TInv
<1>2. pc[t] = "made" /\ pc'[t] = "unmap" /\ cur' = cur /\ blocks' = blocks
      /\ UNCHANGED <<node, mem>>
  BY <1>1 DEF Carve, Goto, RestTypes, treeVars
<1>3. PICK b \in Block : b = cur[t] /\ b # NULL /\ b = cur'[t]
  BY <1>2, CurIs DEF Rooting
<1>4. \A u \in Thread : u # t => Same(u)
  BY <1>1 DEF Carve, Goto, Same, RestTypes, tagVars
<1>5. Kept(t) = Extent(b) /\ Kept(t)' = Extent(b)
  BY <1>2, <1>3, KeptIs, KeptNext
<1>6. \A p \in Page : Entry(p)' = Entry(p)
  BY <1>2 DEF Entry, LeafOf
<1>7. ASSUME NEW p \in Kept(t) PROVE Entry(p)' = EntryNow(t, p)'
  <2>1. p \in Page
    BY <1>5, <1>7, EntriesOfBlock
  <2>2. Entry(p) = EntryOf(b, p)
    BY <1>2, <1>3, <1>7, <2>1, NowIs DEF EInv, EntriesOK
  <2>3. EntryNow(t, p)' = EntryOf(b, p)
    BY <1>2, <1>3, NowNext
  <2> QED BY <1>6, <2>1, <2>2, <2>3
<1> QED BY <1>2, <1>4, <1>5, <1>6, <1>7, WithinKept

LEMMA HugeUnmapExact ==
  ASSUME ConstantsOK, TInv, EInv, NEW t \in Thread, HugeUnmap(t)
  PROVE  EInv'
<1>1. RestTypes /\ ThreadOK(t)
  BY TypesAre DEF TInv
<1>2. pc[t] = "unmap" /\ pc'[t] = "clear" /\ cur' = cur /\ blocks' = blocks /\ cut' = cut
      /\ UNCHANGED <<node, mem>>
  BY <1>1 DEF HugeUnmap, Goto, RestTypes, treeVars, thrVars
<1>3. PICK b \in Block : b = cur[t] /\ b # NULL /\ b = cur'[t]
  BY <1>2, CurIs DEF Rooting
<1>4. \A u \in Thread : u # t => Same(u)
  BY <1>1 DEF HugeUnmap, Goto, Same, RestTypes, tagVars, thrVars
<1>5. b.kind = "huge" /\ b.at \in Extent(b) /\ Entries(b) = {b.at}
  BY <1>1, <1>2, <1>3, EntriesOfBlock DEF ThreadOK
<1>6. Kept(t) = Extent(b) /\ Kept(t)' \subseteq Kept(t) /\ b.at \in Kept(t)'
  <2>1. PICK n : n = cut'[t]
    OBVIOUS
  <2>2. Kept(t)' = (Extent(b) \ (b.at .. b.at + n - 1)) \cup {b.at}
    BY <1>2, <1>3, <2>1, KeptNext
  <2> QED BY <1>2, <1>3, <1>5, <2>2, KeptIs
<1>7. \A p \in Page : Entry(p)' = Entry(p)
  BY <1>2 DEF Entry, LeafOf
<1>8. ASSUME NEW p \in Kept(t)
      PROVE  Entry(p)' = EntryNow(t, p)' /\ (p \notin Kept(t)' => Entry(p)' = NULL)
  <2>1. p \in Page
    BY <1>6, <1>8, EntriesOfBlock
  <2>2. Entry(p) = EntryOf(b, p)
    BY <1>2, <1>3, <1>8, <2>1, NowIs DEF EInv, EntriesOK
  <2>3. EntryOf(b, p) = IF p = b.at THEN "huge" ELSE NULL
    BY <1>5 DEF EntryOf, Mark
  <2>4. EntryNow(t, p)' = IF p = b.at THEN "huge" ELSE NULL
    BY <1>2, <1>3, NowNext
  <2> QED BY <1>6, <1>7, <2>1, <2>2, <2>3, <2>4
<1> QED BY <1>2, <1>4, <1>6, <1>7, <1>8, WithinKept

LEMMA HugeClearExact ==
  ASSUME ConstantsOK, TInv, EInv, NEW t \in Thread, HugeClear(t)
  PROVE  EInv'
<1>1. RestTypes /\ ThreadOK(t)
  BY TypesAre DEF TInv
<1>2. pc[t] = "clear" /\ UNCHANGED <<blocks, new, interior>>
  BY DEF HugeClear, Goto
<1>3. PICK b \in Block : b = cur[t] /\ b # NULL /\ Rooted(cur[t])
  BY <1>1, <1>2, CurIs DEF ThreadOK, Rooting
<1>4. b.kind = "huge" /\ cut[t] \in 1 .. b.len
  BY <1>1, <1>2, <1>3 DEF ThreadOK
<1>5. PICK n \in 1 .. b.len : n = cut[t]
  BY <1>4
<1>6. /\ b.at \in Page /\ HasLeaf(b.at) /\ b.at \in Nat /\ b.len \in Nat \ {0}
      /\ b.at \in Extent(b) /\ Extent(b) \subseteq Page
  BY <1>3, <1>4, EntriesOfBlock DEF Rooted
<1>7. pagemap_set(t, b.at, NULL)
  BY <1>3 DEF HugeClear
<1>8. \A q \in Page : Entry(q)' = IF q = b.at THEN NULL ELSE Entry(q)
  BY <1>2, <1>6, <1>7, SetChanges
<1>9. \A u \in Thread : u # t => Same(u)
  BY <1>1, <1>2 DEF HugeClear, Goto, Same, RestTypes, pagemap_set, Cache
<1>10. PICK left : left = Huge(b.at + n, b.len - n)
  OBVIOUS
<1>11. /\ pc'[t] = IF left.len > 0 THEN "node" ELSE "idle"
       /\ cur'[t] = IF left.len > 0 THEN left ELSE NULL
  BY <1>1, <1>3, <1>5, <1>10 DEF HugeClear, Goto, RestTypes
<1>12. Kept(t) = (Extent(b) \ (b.at .. b.at + n - 1)) \cup {b.at}
  BY <1>2, <1>3, <1>5, KeptIs
<1>13. Kept(t)' \subseteq Kept(t) /\ b.at \notin Kept(t)' /\ (pc'[t] = "idle" => cur'[t] = NULL)
       /\ pc'[t] \in {"node", "idle"}
  <2>1. CASE left.len > 0
    <3>1. b.len - n > 0
      BY <1>10, <2>1 DEF Huge
    <3>2. left \in Block /\ Extent(left) = Extent(b) \ (b.at .. b.at + n - 1)
      BY <1>10, <3>1, LeftIsBlock
    <3>3. pc'[t] = "node" /\ cur'[t] = left /\ left # NULL
      BY <1>11, <2>1, <3>2, NotNull
    <3>4. Kept(t)' = Extent(left)
      BY <3>3, KeptNext
    <3>5. b.at \in b.at .. b.at + n - 1
      BY <1>5, <1>6
    <3> QED BY <1>12, <3>2, <3>3, <3>4, <3>5
  <2>2. CASE ~ (left.len > 0)
    <3>1. pc'[t] = "idle" /\ cur'[t] = NULL
      BY <1>11, <2>2
    <3>2. Kept(t)' = {}
      BY <3>1, KeptNext
    <3> QED BY <3>1, <3>2
  <2> QED BY <2>1, <2>2
<1>14. ASSUME NEW p \in Kept(t) PROVE Entry(p)' = NULL /\ EntryNow(t, p)' = NULL
  <2>1. p \in Page
    BY <1>6, <1>12, <1>14
  <2>2. Entry(p) = IF p = b.at THEN "huge" ELSE NULL
    BY <1>2, <1>3, <1>14, <2>1, NowIs DEF EInv, EntriesOK
  <2>3. EntryNow(t, p)' = NULL
    BY <1>13, NowNext
  <2> QED BY <1>8, <2>1, <2>2, <2>3
<1>15. ASSUME NEW p \in Page, p \notin Kept(t) PROVE Entry(p)' = Entry(p)
  BY <1>8, <1>12, <1>15
<1> QED BY <1>2, <1>9, <1>13, <1>14, <1>15, WithinKept

LEMMA SpUnmapExact ==
  ASSUME ConstantsOK, TInv, EInv, NEW t \in Thread, SpUnmap(t)
  PROVE  EInv'
<1>1. RestTypes
  BY TypesAre DEF TInv
<1>2. pc[t] = "unmapsp" /\ pc'[t] = "idle" /\ cur'[t] = NULL /\ blocks' = blocks
      /\ UNCHANGED <<node, mem>>
  BY <1>1 DEF SpUnmap, Goto, RestTypes, treeVars
<1>3. PICK b \in Block : b = cur[t] /\ b # NULL
  BY <1>2, CurIs DEF Rooting
<1>4. \A u \in Thread : u # t => Same(u)
  BY <1>1 DEF SpUnmap, Goto, Same, RestTypes, tagVars
<1>5. Kept(t) = Extent(b) /\ Kept(t)' = {}
  BY <1>2, <1>3, KeptIs, KeptNext
<1>6. \A p \in Page : Entry(p)' = Entry(p)
  BY <1>2 DEF Entry, LeafOf
<1>7. ASSUME NEW p \in Kept(t) PROVE Entry(p)' = NULL
  <2>1. p \in Page
    BY <1>5, <1>7, EntriesOfBlock
  <2> QED BY <1>2, <1>6, <1>7, <2>1, NowIs DEF EInv, EntriesOK
<1> QED BY <1>2, <1>4, <1>5, <1>6, <1>7, WithinKept

LEMMA LookExact ==
  ASSUME ConstantsOK, TInv, EInv, NEW t \in Thread, NEW b \in blocks, NEW p \in Page,
         p \in Entries(b), Look(t, b, p)
  PROVE  EInv'
<1>1. RestTypes /\ HasLeaf(p) /\ b \in Block
  BY TypesAre DEF TInv, Rooted, RestTypes
<1>2. mem[Leaf(t, p)][p % LEN] = Mark(b)
  <2>1. p \in Extent(b)
    BY <1>1, EntriesOfBlock
  <2> QED BY <1>1, <2>1, Found DEF EInv, EntriesOK, EntryOf
<1>3. pc' = pc /\ pc[t] = "idle" /\ cur' = cur /\ key' = key /\ cut' = cut /\ blocks' = blocks
      /\ new' = new /\ interior' = interior /\ UNCHANGED <<node, mem>>
  BY <1>1, <1>2 DEF Look, Goto, thrVars, treeVars, RestTypes
<1>4. \A u \in Thread : u # t => Same(u)
  BY <1>1, <1>3 DEF Look, Cache, Same, RestTypes
<1>5. cur[t] = NULL /\ Kept(t) = {} /\ Kept(t)' = {}
  BY <1>3, KeptIs, KeptNext DEF EInv, SpaceOK
<1>6. \A q \in Page : Entry(q)' = Entry(q)
  BY <1>3 DEF Entry, LeafOf
<1> QED BY <1>3, <1>4, <1>5, <1>6, WithinKept

(* The kernel maps pages nobody has, nor has yet to clear the entry of.    *)
LEMMA MapExact ==
  ASSUME ConstantsOK, ~REUSE, TInv, EInv, NEW t \in Thread, NEW b \in NewBlocks, Map(t, b)
  PROVE  EInv'
<1>1. RestTypes /\ b \in Block /\ b # NULL
  BY TypesAre, NewBlocksAre, NotNull DEF TInv
<1>2. pc[t] = "idle" /\ pc'[t] = "node" /\ cur'[t] = b /\ blocks' = blocks
      /\ UNCHANGED <<node, mem>>
  BY <1>1 DEF Map, Goto, RestTypes, treeVars
<1>3. \A u \in Thread : u # t => Same(u)
  BY <1>1 DEF Map, Goto, Same, RestTypes, tagVars
<1>4. Kept(t) = {} /\ Kept(t)' = Extent(b)
  BY <1>1, <1>2, KeptIs, KeptNext DEF EInv, SpaceOK
<1>5. \A c \in blocks : Extent(c) \cap Extent(b) = {}
  BY DEF Map, InUse
<1>6. ASSUME NEW u \in Thread PROVE Kept(u) \cap Extent(b) = {}
  <2>1. Mapped(u) \cap Extent(b) = {}
    <3>1. Extent(b) \cap InUse = {}
      BY DEF Map
    <3> QED BY <3>1 DEF InUse
  <2>2. pc[u] = "clear" => cur[u].at \notin Extent(b)
    <3>1. REUSE \/ \A v \in Thread : pc[v] = "clear" => cur[v].at \notin Extent(b)
      BY DEF Map
    <3> QED BY <3>1, Zenon
  <2> QED BY <2>1, <2>2 DEF Kept
<1>7. \A p \in Page : Entry(p)' = Entry(p)
  BY <1>2 DEF Entry, LeafOf
<1>8. \A u \in Thread : u # t => Kept(u)' = Kept(u)
  BY <1>3, SameKept
<1>9. SpaceOK'
  <2>1. \A c \in blocks, u \in Thread : Extent(c) \cap Kept(u)' = {}
    BY <1>4, <1>5, <1>8 DEF EInv, SpaceOK
  <2>2. \A u, v \in Thread : u # v => Kept(u)' \cap Kept(v)' = {}
    BY <1>4, <1>6, <1>8 DEF EInv, SpaceOK
  <2>3. \A u \in Thread : pc'[u] = "idle" => cur'[u] = NULL
    BY <1>2, <1>3 DEF EInv, SpaceOK, Same
  <2> QED BY <1>2, <2>1, <2>2, <2>3 DEF EInv, SpaceOK
<1>10. EntriesOK'
  <2> SUFFICES ASSUME NEW p \in Page
               PROVE  /\ \A c \in blocks : p \in Extent(c) => Entry(p)' = EntryOf(c, p)
                      /\ \A u \in Thread : p \in Kept(u)' => Entry(p)' = EntryNow(u, p)'
                      /\ (\A c \in blocks : p \notin Extent(c))
                         /\ (\A u \in Thread : p \notin Kept(u)') => Entry(p)' = NULL
    BY <1>2 DEF EntriesOK
  <2>1. ASSUME NEW c \in blocks, p \in Extent(c) PROVE Entry(p)' = EntryOf(c, p)
    BY <1>7, <2>1 DEF EInv, EntriesOK
  <2>2. ASSUME NEW u \in Thread, p \in Kept(u)' PROVE Entry(p)' = EntryNow(u, p)'
    <3>1. CASE u = t
      <4>1. p \in Extent(b)
        BY <1>4, <2>2, <3>1
      <4>2. (\A c \in blocks : p \notin Extent(c)) /\ (\A v \in Thread : p \notin Kept(v))
        BY <1>5, <1>6, <4>1
      <4>3. Entry(p)' = NULL
        BY <1>7, <4>2 DEF EInv, EntriesOK
      <4> QED BY <1>2, <3>1, <4>3, NowNext
    <3>2. CASE u # t
      <4>1. p \in Kept(u) /\ EntryNow(u, p)' = EntryNow(u, p)
        BY <1>3, <1>8, <2>2, <3>2, SameKept
      <4> QED BY <1>7, <4>1 DEF EInv, EntriesOK
    <3> QED BY <3>1, <3>2
  <2>3. ASSUME \A c \in blocks : p \notin Extent(c), \A u \in Thread : p \notin Kept(u)'
        PROVE  Entry(p)' = NULL
    <3>1. \A u \in Thread : p \notin Kept(u)
      BY <1>4, <1>8, <2>3
    <3> QED BY <1>7, <2>3, <3>1 DEF EInv, EntriesOK
  <2> QED BY <2>1, <2>2, <2>3
<1>11. \A u \in Thread : pc'[u] # "lost"
  BY <1>2, <1>3 DEF EInv, Same
<1> QED BY <1>9, <1>10, <1>11 DEF EInv

(* A block that is handed to the program has the pages of the thread that  *)
(* made it.                                                                *)
LEMMA ReturnExact ==
  ASSUME ConstantsOK, TInv, EInv, NEW t \in Thread, Return(t)
  PROVE  EInv'
<1>1. RestTypes
  BY TypesAre DEF TInv
<1>2. pc[t] = "made" /\ pc'[t] = "idle" /\ cur'[t] = NULL /\ UNCHANGED <<node, mem>>
  BY <1>1 DEF Return, Goto, RestTypes, treeVars
<1>3. PICK b \in Block : b = cur[t] /\ b # NULL
  BY <1>2, CurIs DEF Rooting
<1>4. blocks' = blocks \cup {b}
  BY <1>3 DEF Return
<1>5. \A u \in Thread : u # t => Same(u)
  BY <1>1 DEF Return, Goto, Same, RestTypes, tagVars
<1>6. Kept(t) = Extent(b) /\ Kept(t)' = {}
  BY <1>2, <1>3, KeptIs, KeptNext
<1>7. \A p \in Page : Entry(p)' = Entry(p)
  BY <1>2 DEF Entry, LeafOf
<1>8. \A u \in Thread : u # t => Kept(u)' = Kept(u)
  BY <1>5, SameKept
<1>9. SpaceOK'
  <2>1. \A c, d \in blocks' : c # d => Extent(c) \cap Extent(d) = {}
    BY <1>4, <1>6 DEF EInv, SpaceOK
  <2>2. \A c \in blocks', u \in Thread : Extent(c) \cap Kept(u)' = {}
    BY <1>4, <1>6, <1>8 DEF EInv, SpaceOK
  <2>3. \A u, v \in Thread : u # v => Kept(u)' \cap Kept(v)' = {}
    BY <1>6, <1>8 DEF EInv, SpaceOK
  <2>4. \A u \in Thread : pc'[u] = "idle" => cur'[u] = NULL
    BY <1>2, <1>5 DEF EInv, SpaceOK, Same
  <2> QED BY <2>1, <2>2, <2>3, <2>4 DEF SpaceOK
<1>10. EntriesOK'
  <2> SUFFICES ASSUME NEW p \in Page
               PROVE  /\ \A c \in blocks' : p \in Extent(c) => Entry(p)' = EntryOf(c, p)
                      /\ \A u \in Thread : p \in Kept(u)' => Entry(p)' = EntryNow(u, p)'
                      /\ (\A c \in blocks' : p \notin Extent(c))
                         /\ (\A u \in Thread : p \notin Kept(u)') => Entry(p)' = NULL
    BY DEF EntriesOK
  <2>1. ASSUME NEW c \in blocks', p \in Extent(c) PROVE Entry(p)' = EntryOf(c, p)
    <3>1. CASE c \in blocks
      BY <1>7, <2>1, <3>1 DEF EInv, EntriesOK
    <3>2. CASE c = b
      <4>1. EntryNow(t, p) = EntryOf(b, p)
        BY <1>2, <1>3, NowIs
      <4> QED BY <1>6, <1>7, <2>1, <3>2, <4>1 DEF EInv, EntriesOK
    <3> QED BY <1>4, <3>1, <3>2
  <2>2. ASSUME NEW u \in Thread, p \in Kept(u)' PROVE Entry(p)' = EntryNow(u, p)'
    <3>1. u # t /\ p \in Kept(u) /\ EntryNow(u, p)' = EntryNow(u, p)
      BY <1>5, <1>6, <1>8, <2>2, SameKept
    <3> QED BY <1>7, <3>1 DEF EInv, EntriesOK
  <2>3. ASSUME \A c \in blocks' : p \notin Extent(c), \A u \in Thread : p \notin Kept(u)'
        PROVE  Entry(p)' = NULL
    <3>1. (\A c \in blocks : p \notin Extent(c)) /\ \A u \in Thread : p \notin Kept(u)
      BY <1>4, <1>6, <1>8, <2>3
    <3> QED BY <1>7, <3>1 DEF EInv, EntriesOK
  <2> QED BY <2>1, <2>2, <2>3
<1>11. \A u \in Thread : pc'[u] # "lost"
  BY <1>2, <1>5 DEF EInv, Same
<1> QED BY <1>9, <1>10, <1>11 DEF EInv

(* A freed block has the pages that were its own.                          *)
LEMMA FreeExact ==
  ASSUME ConstantsOK, TInv, EInv, NEW t \in Thread, NEW b \in blocks,
         FreeHuge(t, b) \/ FreeSp(t, b)
  PROVE  EInv'
<1>1. RestTypes /\ b \in Block /\ b # NULL
  BY TypesAre, NotNull DEF TInv, RestTypes
<1>2. pc[t] = "idle" /\ cur'[t] = b /\ UNCHANGED <<node, mem>> /\ blocks' = blocks \ {b}
  BY <1>1 DEF FreeHuge, FreeSp, Goto, RestTypes, treeVars
<1>3. pc'[t] = "unmap" \/ (pc'[t] = "erase" /\ b.kind = "sp" /\ key'[t] = Min(Entries(b)))
  <2>1. CASE FreeHuge(t, b)
    <3>1. b.at \in Entries(b) /\ b.at \in Extent(b) /\ b.at \in Page
      BY <1>1, <2>1, EntriesOfBlock DEF FreeHuge
    <3>2. HasLeaf(b.at)
      BY <3>1 DEF TInv, Rooted
    <3>3. mem[Leaf(t, b.at)][b.at % LEN] = Mark(b)
      BY <3>1, <3>2, Found DEF EInv, EntriesOK, EntryOf
    <3> QED BY <1>1, <2>1, <3>3 DEF FreeHuge, Goto, RestTypes
  <2>2. CASE FreeSp(t, b)
    BY <1>1, <2>2 DEF FreeSp, Goto, RestTypes
  <2> QED BY <2>1, <2>2
<1>4. \A u \in Thread : u # t => Same(u)
  BY <1>1 DEF FreeHuge, FreeSp, Goto, Cache, Same, RestTypes, tagVars
<1>5. Kept(t) = {} /\ Kept(t)' = Extent(b)
  BY <1>1, <1>2, <1>3, KeptIs, KeptNext DEF EInv, SpaceOK
<1>6. \A p \in Page : Entry(p)' = Entry(p)
  BY <1>2 DEF Entry, LeafOf
<1>7. \A u \in Thread : u # t => Kept(u)' = Kept(u)
  BY <1>4, SameKept
<1>8. SpaceOK'
  <2>1. \A c \in blocks', u \in Thread : Extent(c) \cap Kept(u)' = {}
    BY <1>2, <1>5, <1>7 DEF EInv, SpaceOK
  <2>2. \A u, v \in Thread : u # v => Kept(u)' \cap Kept(v)' = {}
    BY <1>5, <1>7 DEF EInv, SpaceOK
  <2>3. \A u \in Thread : pc'[u] = "idle" => cur'[u] = NULL
    BY <1>3, <1>4 DEF EInv, SpaceOK, Same
  <2> QED BY <1>2, <2>1, <2>2, <2>3 DEF EInv, SpaceOK
<1>9. EntriesOK'
  <2> SUFFICES ASSUME NEW p \in Page
               PROVE  /\ \A c \in blocks' : p \in Extent(c) => Entry(p)' = EntryOf(c, p)
                      /\ \A u \in Thread : p \in Kept(u)' => Entry(p)' = EntryNow(u, p)'
                      /\ (\A c \in blocks' : p \notin Extent(c))
                         /\ (\A u \in Thread : p \notin Kept(u)') => Entry(p)' = NULL
    BY DEF EntriesOK
  <2>1. ASSUME NEW c \in blocks', p \in Extent(c) PROVE Entry(p)' = EntryOf(c, p)
    BY <1>2, <1>6, <2>1 DEF EInv, EntriesOK
  <2>2. ASSUME NEW u \in Thread, p \in Kept(u)' PROVE Entry(p)' = EntryNow(u, p)'
    <3>1. CASE u = t
      <4>1. p \in Extent(b) /\ p \in Nat
        BY <1>5, <2>2, <3>1, PageSlots
      <4>2. Entry(p)' = EntryOf(b, p)
        BY <1>6, <4>1 DEF EInv, EntriesOK
      <4>3. CASE pc'[t] = "unmap"
        BY <1>2, <3>1, <4>2, <4>3, NowNext
      <4>4. CASE pc'[t] = "erase" /\ b.kind = "sp" /\ key'[t] = Min(Entries(b))
        <5>1. EntryNow(t, p)' = IF p >= Min(Entries(b)) THEN EntryOf(b, p) ELSE NULL
          BY <1>2, <4>4, NowNext
        <5>2. ~ (p >= Min(Entries(b))) => EntryOf(b, p) = NULL
          BY <1>1, <4>1, EntriesOfBlock DEF EntryOf
        <5> QED BY <3>1, <4>2, <5>1, <5>2
      <4> QED BY <1>3, <4>3, <4>4
    <3>2. CASE u # t
      <4>1. p \in Kept(u) /\ EntryNow(u, p)' = EntryNow(u, p)
        BY <1>4, <1>7, <2>2, <3>2, SameKept
      <4> QED BY <1>6, <4>1 DEF EInv, EntriesOK
    <3> QED BY <3>1, <3>2
  <2>3. ASSUME \A c \in blocks' : p \notin Extent(c), \A u \in Thread : p \notin Kept(u)'
        PROVE  Entry(p)' = NULL
    <3>1. (\A c \in blocks : p \notin Extent(c)) /\ \A u \in Thread : p \notin Kept(u)
      BY <1>2, <1>5, <1>7, <2>3
    <3> QED BY <1>6, <3>1 DEF EInv, EntriesOK
  <2> QED BY <2>1, <2>2, <2>3
<1>10. \A u \in Thread : pc'[u] # "lost"
  BY <1>3, <1>4 DEF EInv, Same
<1> QED BY <1>8, <1>9, <1>10 DEF EInv

LEMMA EInit ==
  ASSUME ConstantsOK, Init
  PROVE  EInv
<1>1. \A t \in Thread : Kept(t) = {}
  BY KeptIs DEF Init
<1>2. \A p \in Page : Entry(p) = NULL
  BY PageSlots, TagSlots DEF Init, Entry, LeafOf
<1> QED BY <1>1, <1>2 DEF Init, EInv, SpaceOK, EntriesOK

LEMMA EStep ==
  ASSUME ConstantsOK, ~REUSE, TInv, EInv, [Next]_vars
  PROVE  EInv'
<1>1. CASE Next
  <2>1. PICK t \in Thread :
          \/ \E b \in NewBlocks : Map(t, b)
          \/ TestNode(t) \/ CasNode(t) \/ TestLeaf(t) \/ CasLeaf(t)
          \/ Set(t) \/ Return(t) \/ Carve(t)
          \/ \E b \in blocks : FreeHuge(t, b) \/ FreeSp(t, b)
          \/ \E b \in blocks, page \in Page : page \in Entries(b) /\ Look(t, b, page)
          \/ HugeUnmap(t) \/ HugeClear(t) \/ SpErase(t) \/ SpUnmap(t)
    BY <1>1 DEF Next
  <2>2. CASE Set(t) \/ SpErase(t)
    <3>1. CASE Set(t)
      <4>1. Mark(cur[t]) \in {NULL, "huge", "pbh"} /\ SetEntry(t, "set", "made", Mark(cur[t]))
        BY <3>1 DEF Set, Mark
      <4> QED BY <4>1, SetExact
    <3>2. CASE SpErase(t)
      BY <3>2, SetExact DEF SpErase
    <3> QED BY <2>2, <3>1, <3>2
  <2> QED BY <2>1, <2>2, MapExact, ExpandExact, ReturnExact, CarveExact, FreeExact,
             LookExact, HugeUnmapExact, HugeClearExact, SpUnmapExact
<1>2. CASE UNCHANGED vars
  <2>1. \A u \in Thread : Same(u)
    BY <1>2 DEF Same, vars, treeVars, tagVars, thrVars
  <2>2. /\ \A u \in Thread : Kept(u)' = Kept(u)
        /\ \A u \in Thread, p \in Page : EntryNow(u, p)' = EntryNow(u, p)
    BY <2>1, SameKept
  <2>3. /\ \A p \in Page : Entry(p)' = Entry(p)
        /\ blocks' = blocks /\ pc' = pc /\ cur' = cur
    BY <1>2 DEF Entry, LeafOf, vars, treeVars, thrVars
  <2>4. SpaceOK'
    BY <2>2, <2>3 DEF EInv, SpaceOK
  <2>5. EntriesOK'
    BY <2>2, <2>3 DEF EInv, EntriesOK
  <2> QED BY <2>3, <2>4, <2>5 DEF EInv
<1> QED BY <1>1, <1>2

LEMMA InvEntriesExact ==
  ASSUME ConstantsOK, TInv, EInv
  PROVE  EntriesExact
<1> DEFINE moving == {cur[t] : t \in Thread} \ {NULL}
           Of(page) == {b \in blocks : page \in Entries(b)}
<1> SUFFICES ASSUME NEW p \in Page, \A b \in moving : p # b.at /\ p \notin Entries(b)
             PROVE  {Entry(p)} = IF Of(p) = {} THEN {NULL} ELSE {Mark(b) : b \in Of(p)}
  BY DEF EntriesExact
<1>1. \A b \in blocks : b \in Block /\ Entries(b) \subseteq Extent(b)
  BY EntriesOfBlock DEF TInv, Types
<1>2. CASE \E b \in blocks : p \in Extent(b)
  <2>1. PICK b \in blocks : p \in Extent(b)
    BY <1>2
  <2>2. Of(p) \subseteq {b}
    BY <1>1, <2>1 DEF EInv, SpaceOK
  <2>3. Entry(p) = EntryOf(b, p)
    BY <2>1 DEF EInv, EntriesOK
  <2>4. CASE p \in Entries(b)
    <3>1. Of(p) = {b}
      BY <2>2, <2>4
    <3> QED BY <2>3, <2>4, <3>1 DEF EntryOf
  <2>5. CASE p \notin Entries(b)
    <3>1. Of(p) = {}
      BY <2>2, <2>5
    <3> QED BY <2>3, <2>5, <3>1 DEF EntryOf
  <2> QED BY <2>4, <2>5
<1>3. CASE \A b \in blocks : p \notin Extent(b)
  <2>1. Of(p) = {}
    BY <1>1, <1>3
  <2>2. ASSUME NEW t \in Thread, p \in Kept(t) PROVE Entry(p) = NULL
    <3>1. cur[t] # NULL
      <4>1. ThreadOK(t)
        BY DEF TInv
      <4>2. pc[t] = "clear" => cur[t] # NULL
        BY <4>1, CurIs DEF Rooting
      <4> QED BY <2>2, <4>2, KeptIs
    <3>2. cur[t] \in moving
      BY <3>1
    <3>3. p # cur[t].at /\ EntryOf(cur[t], p) = NULL
      BY <3>2 DEF EntryOf
    <3>4. EntryNow(t, p) = NULL
      BY <3>3, NowIs
    <3> QED BY <2>2, <3>4 DEF EInv, EntriesOK
  <2>3. Entry(p) = NULL
    BY <1>3, <2>2 DEF EInv, EntriesOK
  <2> QED BY <2>1, <2>3
<1> QED BY <1>2, <1>3

(* Where the kernel does not map anew what huge_free has unmapped and not  *)
(* yet cleared, the entries are those of the blocks the program has, and   *)
(* free finds what it looks up.                                            *)
THEOREM EntriesInvariant == ConstantsOK /\ ~REUSE /\ Spec => []EInv
<1> SUFFICES ASSUME ConstantsOK, ~REUSE PROVE Spec => []EInv
  OBVIOUS
<1>1. Init => EInv
  BY EInit
<1>2. TInv /\ EInv /\ [Next]_vars => EInv'
  BY EStep
<1>3. Spec => []TInv
  BY TreeInvariant
<1> QED BY <1>1, <1>2, <1>3, PTL DEF Spec

(* No freed, erased or carved block leaves an entry behind, the page       *)
(* before a superpage has none, and each block in use has its own, at      *)
(* whatever point of sph_free, huge_free or pagemap_set_range others are.  *)
THEOREM EntriesAreExact == ConstantsOK /\ ~REUSE /\ Spec => []EntriesExact
<1> SUFFICES ASSUME ConstantsOK, ~REUSE PROVE Spec => []EntriesExact
  OBVIOUS
<1>1. TInv /\ EInv => EntriesExact
  BY InvEntriesExact
<1>2. Spec => []TInv
  BY TreeInvariant
<1>3. Spec => []EInv
  BY EntriesInvariant
<1> QED BY <1>1, <1>2, <1>3, PTL

(* The assertion of free: the entry of a block the program has is there.   *)
THEOREM ValIsFound == ConstantsOK /\ ~REUSE /\ Spec => []ValFound
<1> SUFFICES ASSUME ConstantsOK, ~REUSE PROVE Spec => []ValFound
  OBVIOUS
<1>1. EInv => ValFound
  BY DEF EInv, ValFound
<1>2. Spec => []EInv
  BY EntriesInvariant
<1> QED BY <1>1, <1>2, PTL
=============================================================================
