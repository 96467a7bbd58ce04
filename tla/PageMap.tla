------------------------------ MODULE PageMap ------------------------------
(***************************************************************************)
(* The pagemap and the mappings entered in it (src/sf_malloc.c): the tree  *)
(* grows under threads that race with compare-and-swap, each thread keeps  *)
(* the last leaf it used, and huge blocks and superpages come from mmap    *)
(* and go back to it at addresses the kernel chooses.                      *)
(*                                                                         *)
(* One action is one access to what threads share.  A node or leaf of the  *)
(* tree is a piece of memory, Obj; one that was unmapped may be mapped     *)
(* again.  An entry is NULL, "huge" (a size with HUGE_MALLOC_MARK) or      *)
(* "pbh" (a page block header); PageBlocks tells which header.             *)
(***************************************************************************)
EXTENDS Integers, FiniteSets, FiniteSetsExt

CONSTANTS
  Thread, NULL,
  Page,           \* the pages of the address space that mmap may return
  Obj,            \* memory for nodes and leaves: numbers
  LEN,            \* PMAP_INTERIOR_LEN and PMAP_LEAF_LEN
  HugeLens,       \* the pages of huge blocks
  SUPERPAGE_LEN,
  REUSE           \* may the kernel map anew, between the two statements of
                  \* huge_free, the page whose entry the second one clears?

VARIABLES
  node,           \* g_pagemap.node
  mem,            \* what each Obj holds: leaves, or entries
  live,           \* the Obj mapped
  l_pagemap_tag, l_pagemap_leaf,
  blocks,         \* the huge blocks and superpages in use
  pc,
  cur,            \* the block a thread makes or frees, or NULL
  key,            \* its place in pagemap_expand's or pagemap_set_range's loop
  new,            \* new_node or new_leaf, or NULL
  interior,
  cut             \* the pages it calls huge_free with

treeVars == <<node, mem, live>>
tagVars  == <<l_pagemap_tag, l_pagemap_leaf>>
thrVars  == <<cur, key, new, interior, cut>>
vars     == <<treeVars, tagVars, blocks, pc, thrVars>>

Slot == 0 .. LEN - 1
Tag  == 0 .. LEN * LEN - 1
ROOM == LEN * LEN * LEN  \* 1 << PMAP_BITS

\* A superpage is mapped with the page of its header before it.
Huge(p, len) == [kind |-> "huge", at |-> p, len |-> len]
Sp(p)        == [kind |-> "sp", at |-> p, len |-> 1 + SUPERPAGE_LEN]

Extent(b)  == b.at .. b.at + b.len - 1
Entries(b) == IF b.kind = "huge" THEN {b.at} ELSE Extent(b) \ {b.at}
Mark(b)    == IF b.kind = "huge" THEN "huge" ELSE "pbh"

\* What the program's constants are like: the tree covers the pages, and NULL is
\* no node, block or entry.
ConstantsOK ==
  /\ LEN \in Nat \ {0} /\ SUPERPAGE_LEN \in Nat \ {0}
  /\ HugeLens \subseteq Nat \ {0} /\ Obj \subseteq Nat
  /\ Page \subseteq 0 .. ROOM - 1
  /\ NULL \notin Nat /\ NULL # "huge" /\ NULL # "pbh"
  /\ \A p \in Page, len \in 1 .. ROOM :
       Huge(p, len) # NULL /\ Sp(p) # NULL

NewBlocks ==
  {b \in {Huge(p, len) : p \in Page, len \in HugeLens}
           \cup {Sp(p) : p \in Page} :
     Extent(b) \subseteq Page}

\* The pages a thread has mapped and not, or not yet, handed to the program.
Mapped(t) ==
  CASE cur[t] = NULL  -> {}
    [] pc[t] = "clear" ->
         Extent(cur[t]) \ (cur[t].at .. cur[t].at + cut[t] - 1)
    [] OTHER           -> Extent(cur[t])

InUse == (UNION {Extent(b) : b \in blocks}) \cup (UNION {Mapped(t) : t \in Thread})

Init ==
  /\ node = [i \in Slot |-> NULL]
  /\ mem = [o \in Obj |-> [i \in Slot |-> NULL]]
  /\ live = {}
  /\ l_pagemap_tag = [t \in Thread |-> -1]
  /\ l_pagemap_leaf = [t \in Thread |-> NULL]
  /\ blocks = {}
  /\ pc = [t \in Thread |-> "idle"]
  /\ cur = [t \in Thread |-> NULL] /\ key = [t \in Thread |-> 0]
  /\ new = [t \in Thread |-> NULL] /\ interior = [t \in Thread |-> NULL]
  /\ cut = [t \in Thread |-> 0]

Goto(t, from, to) == pc[t] = from /\ pc' = [pc EXCEPT ![t] = to]

----------------------------------------------------------------------------
(* pagemap_get and pagemap_set, with the leaf cache                        *)

LeafOf(tag) ==
  LET n == node[tag \div LEN] IN IF n = NULL THEN NULL ELSE mem[n][tag % LEN]

\* Mutant of Leaf: the cached leaf serves its whole node.
LeafOfNode(t, page) ==
  IF l_pagemap_tag[t] \div LEN = page \div (LEN * LEN) THEN l_pagemap_leaf[t]
  ELSE LeafOf(page \div LEN)

\* The leaf used for a page: the cached one if the tag is the same.
Leaf(t, page) ==
  IF l_pagemap_tag[t] = page \div LEN THEN l_pagemap_leaf[t]
  ELSE LeafOf(page \div LEN)

Cache(t, page) ==
  /\ l_pagemap_tag' = [l_pagemap_tag EXCEPT ![t] = page \div LEN]
  /\ l_pagemap_leaf' = [l_pagemap_leaf EXCEPT ![t] = Leaf(t, page)]

pagemap_set(t, page, val) ==
  /\ Cache(t, page)
  /\ mem' = [mem EXCEPT ![Leaf(t, page)][page % LEN] = val]
  /\ UNCHANGED <<node, live>>

\* free and realloc look a block up; the assertion on the result fails if it
\* is not there.
Look(t, b, page) ==
  /\ Goto(t, "idle", IF mem[Leaf(t, page)][page % LEN] = Mark(b)
                     THEN "idle" ELSE "lost")
  /\ Cache(t, page)
  /\ UNCHANGED <<treeVars, blocks, thrVars>>

----------------------------------------------------------------------------
(* huge_malloc and sph_alloc: do_mmap, pagemap_expand, pagemap_set         *)

\* The kernel finds room for a block.
Map(t, b) ==
  /\ Goto(t, "idle", "node")
  /\ Extent(b) \cap InUse = {}
  /\ REUSE \/ \A u \in Thread : pc[u] = "clear" => cur[u].at \notin Extent(b)
  /\ cur' = [cur EXCEPT ![t] = b]
  /\ key' = [key EXCEPT ![t] = Min(Entries(b))]
  /\ UNCHANGED <<treeVars, tagVars, blocks, new, interior, cut>>

\* do_mmap for the tree: memory that is not mapped, and reads as zero.  When there
\* is none left, the program ends.
NewObj == Min(Obj \ live)
MapObj(t) ==
  /\ Obj \ live # {}
  /\ new' = [new EXCEPT ![t] = NewObj]
  /\ live' = live \cup {NewObj}
  /\ mem' = [mem EXCEPT ![NewObj] = [i \in Slot |-> NULL]]

I1(t) == key[t] \div (LEN * LEN)
I2(t) == (key[t] \div LEN) % LEN

TestNode(t) ==
  /\ pc[t] = "node"
  /\ \/ /\ node[I1(t)] = NULL
        /\ MapObj(t)
        /\ pc' = [pc EXCEPT ![t] = "casnode"]
     \/ /\ node[I1(t)] # NULL
        /\ pc' = [pc EXCEPT ![t] = "leaf"]
        /\ UNCHANGED <<mem, live, new>>
  /\ UNCHANGED <<node, tagVars, blocks, cur, key, interior, cut>>

\* Mutant of CasNode: the node is stored without a comparison.
StoreNode(t) ==
  /\ Goto(t, "casnode", "leaf")
  /\ node' = [node EXCEPT ![I1(t)] = new[t]]
  /\ new' = [new EXCEPT ![t] = NULL]
  /\ UNCHANGED <<mem, live, tagVars, blocks, cur, key, interior, cut>>

\* The loser of the race unmaps its node.
CasNode(t) ==
  LET won == node[I1(t)] = NULL
  IN /\ Goto(t, "casnode", "leaf")
     /\ node' = IF won THEN [node EXCEPT ![I1(t)] = new[t]] ELSE node
     /\ live' = IF won THEN live ELSE live \ {new[t]}
     /\ new' = [new EXCEPT ![t] = NULL]
     /\ UNCHANGED <<mem, tagVars, blocks, cur, key, interior, cut>>

\* The key moves past what this leaf covers.
NextKey(t) ==
  LET k == (key[t] \div LEN + 1) * LEN
      more == k <= Max(Entries(cur[t]))
  IN /\ key' = [key EXCEPT ![t] = IF more THEN k ELSE Min(Entries(cur[t]))]
     /\ pc' = [pc EXCEPT ![t] = IF more THEN "node" ELSE "set"]

\* Whichever node is in the tree by now is read again.
TestLeaf(t) ==
  LET n == node[I1(t)]
  IN /\ pc[t] = "leaf"
     /\ \/ /\ mem[n][I2(t)] = NULL
           /\ MapObj(t)
           /\ interior' = [interior EXCEPT ![t] = n]
           /\ pc' = [pc EXCEPT ![t] = "casleaf"]
           /\ UNCHANGED key
        \/ /\ mem[n][I2(t)] # NULL
           /\ NextKey(t)
           /\ UNCHANGED <<mem, live, new, interior>>
     /\ UNCHANGED <<node, tagVars, blocks, cur, cut>>

\* Mutant of CasLeaf: the leaf is stored without a comparison.
StoreLeaf(t) ==
  /\ pc[t] = "casleaf"
  /\ mem' = [mem EXCEPT ![interior[t]][I2(t)] = new[t]]
  /\ new' = [new EXCEPT ![t] = NULL]
  /\ interior' = [interior EXCEPT ![t] = NULL]
  /\ NextKey(t)
  /\ UNCHANGED <<node, live, tagVars, blocks, cur, cut>>

CasLeaf(t) ==
  LET won == mem[interior[t]][I2(t)] = NULL
  IN /\ pc[t] = "casleaf"
     /\ mem' = IF won THEN [mem EXCEPT ![interior[t]][I2(t)] = new[t]] ELSE mem
     /\ live' = IF won THEN live ELSE live \ {new[t]}
     /\ new' = [new EXCEPT ![t] = NULL]
     /\ interior' = [interior EXCEPT ![t] = NULL]
     /\ NextKey(t)
     /\ UNCHANGED <<node, tagVars, blocks, cur, cut>>

\* The loop over the entries of the block: the last one ends it.
SetEntry(t, from, to, val) ==
  LET last == key[t] = Max(Entries(cur[t]))
  IN /\ Goto(t, from, IF last THEN to ELSE from)
     /\ pagemap_set(t, key[t], val)
     /\ key' = [key EXCEPT ![t] = IF last THEN Min(Entries(cur[t])) ELSE @ + 1]
     /\ UNCHANGED <<blocks, cur, new, interior, cut>>

Set(t) == cur[t] # NULL /\ SetEntry(t, "set", "made", Mark(cur[t]))

Return(t) ==
  /\ Goto(t, "made", "idle")
  /\ blocks' = blocks \cup {cur[t]}
  /\ cur' = [cur EXCEPT ![t] = NULL] /\ key' = [key EXCEPT ![t] = 0]
  /\ UNCHANGED <<treeVars, tagVars, new, interior, cut>>

\* posix_memalign: the pages before the aligned address go back.
Carve(t) ==
  /\ Goto(t, "made", "unmap")
  /\ cur[t].kind = "huge"
  /\ \E skip \in 1 .. cur[t].len - 1 : cut' = [cut EXCEPT ![t] = skip]
  /\ UNCHANGED <<treeVars, tagVars, blocks, cur, key, new, interior>>

----------------------------------------------------------------------------
(* huge_free and sph_free                                                  *)

\* free finds the mark of a huge block.
FreeHuge(t, b) ==
  LET found == mem[Leaf(t, b.at)][b.at % LEN] = Mark(b)
  IN /\ b.kind = "huge"
     /\ Goto(t, "idle", IF found THEN "unmap" ELSE "lost")
     /\ Cache(t, b.at)
     /\ blocks' = blocks \ {b}
     /\ cur' = [cur EXCEPT ![t] = b]
     /\ cut' = [cut EXCEPT ![t] = b.len]
     /\ UNCHANGED <<treeVars, key, new, interior>>

HugeUnmap(t) ==
  /\ Goto(t, "unmap", "clear")
  /\ UNCHANGED <<treeVars, tagVars, blocks, thrVars>>

\* Of a carved block what is left is entered anew.
HugeClear(t) ==
  LET b == cur[t]
      left == Huge(b.at + cut[t], b.len - cut[t])
      carved == left.len > 0
  IN /\ Goto(t, "clear", IF carved THEN "node" ELSE "idle")
     /\ pagemap_set(t, b.at, NULL)
     /\ cur' = [cur EXCEPT ![t] = IF carved THEN left ELSE NULL]
     /\ key' = [key EXCEPT ![t] = IF carved THEN left.at ELSE 0]
     /\ cut' = [cut EXCEPT ![t] = 0]
     /\ UNCHANGED <<blocks, new, interior>>

\* All page blocks of the superpage are free.
FreeSp(t, b) ==
  /\ b.kind = "sp"
  /\ Goto(t, "idle", "erase")
  /\ blocks' = blocks \ {b}
  /\ cur' = [cur EXCEPT ![t] = b]
  /\ key' = [key EXCEPT ![t] = Min(Entries(b))]
  /\ UNCHANGED <<treeVars, tagVars, new, interior, cut>>

\* Mutant of SpErase: the loop stops before the last page.
SpEraseShort(t) ==
  LET last == key[t] + 1 = Max(Entries(cur[t]))
  IN /\ Goto(t, "erase", IF last THEN "unmapsp" ELSE "erase")
     /\ pagemap_set(t, key[t], NULL)
     /\ key' = [key EXCEPT ![t] = IF last THEN 0 ELSE @ + 1]
     /\ UNCHANGED <<blocks, cur, new, interior, cut>>

SpErase(t) == cur[t] # NULL /\ SetEntry(t, "erase", "unmapsp", NULL)

SpUnmap(t) ==
  /\ Goto(t, "unmapsp", "idle")
  /\ cur' = [cur EXCEPT ![t] = NULL] /\ key' = [key EXCEPT ![t] = 0]
  /\ UNCHANGED <<treeVars, tagVars, blocks, new, interior, cut>>

Next ==
  \E t \in Thread :
    \/ \E b \in NewBlocks : Map(t, b)
    \/ TestNode(t) \/ CasNode(t) \/ TestLeaf(t) \/ CasLeaf(t)
    \/ Set(t) \/ Return(t) \/ Carve(t)
    \/ \E b \in blocks : FreeHuge(t, b) \/ FreeSp(t, b)
    \/ \E b \in blocks, page \in Page : page \in Entries(b) /\ Look(t, b, page)
    \/ HugeUnmap(t) \/ HugeClear(t) \/ SpErase(t) \/ SpUnmap(t)

Spec == Init /\ [][Next]_vars

----------------------------------------------------------------------------
(* Properties                                                              *)

Leaves  == {LeafOf(tag) : tag \in Tag} \ {NULL}
TreeObj == ({node[i] : i \in Slot} \ {NULL}) \cup Leaves
Held    == {new[t] : t \in Thread} \ {NULL}

Entry(page) ==
  LET l == LeafOf(page \div LEN)
  IN IF l = NULL THEN NULL ELSE mem[l][page % LEN]

\* Once in the tree a node or leaf stays, whatever threads make the same one at
\* once: it may be cached, and the tree read without a lock.
TreeGrows ==
  [][/\ \A i \in Slot : node[i] # NULL => node'[i] = node[i]
     /\ \A tag \in Tag :
          LeafOf(tag) # NULL => LeafOf(tag)' = LeafOf(tag)]_vars

\* What the losers of races unmap is theirs alone: every node and leaf is in
\* one place of the tree and mapped, and the leaf a thread has cached is there
\* and is the one for its tag.
TreeSound ==
  /\ TreeObj \cup Held \subseteq live
  /\ TreeObj \cap Held = {}
  /\ \A t, u \in Thread : t # u => new[t] # new[u] \/ new[t] = NULL
  /\ Cardinality(TreeObj) = Cardinality({i \in Slot : node[i] # NULL})
       + Cardinality({tag \in Tag : LeafOf(tag) # NULL})
  /\ \A t \in Thread :
       l_pagemap_tag[t] >= 0 =>
         /\ l_pagemap_leaf[t] \in Leaves
         /\ l_pagemap_leaf[t] = LeafOf(l_pagemap_tag[t])

\* The entries are those of the blocks in use, the page before a superpage has
\* none, which coalescing relies on when it looks at its neighbours, and no
\* freed or carved block has left one behind; but for the blocks being made or
\* freed.
EntriesExact ==
  LET moving == {cur[t] : t \in Thread} \ {NULL}
      Of(page) == {b \in blocks : page \in Entries(b)}
  IN \A page \in Page :
       (\A b \in moving : page # b.at /\ page \notin Entries(b)) =>
         {Entry(page)} = IF Of(page) = {} THEN {NULL}
                         ELSE {Mark(b) : b \in Of(page)}

\* The assertion of free: a pointer the program holds has an entry.
ValFound == \A t \in Thread : pc[t] # "lost"
=============================================================================
