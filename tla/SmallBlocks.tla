---------------------------- MODULE SmallBlocks ----------------------------
(***************************************************************************)
(* Small blocks: the lists of a size class, bump allocation, the counters  *)
(* of a page block and its remote list (small_malloc, small_free,          *)
(* remote_free, the tlh_return_ functions and the pbh_add_ functions of    *)
(* src/sf_malloc.c).                                                       *)
(*                                                                         *)
(* Every block has its link, and the remote list is the packed word of the *)
(* code, so a push reads the word, stores the link of its last block and   *)
(* compares and swaps.  One action is one access to what threads share:    *)
(* owner_id or remote_list; what a thread does to its own heap, and to the *)
(* page blocks it owns, goes with it.  A page block is a slot of a         *)
(* superpage (PageBlocks has their lengths); taking over a superpage and   *)
(* giving it up are one step each (OwnerMark has the protocol).            *)
(***************************************************************************)
EXTENDS Integers, Sequences, FiniteSets, FiniteSetsExt, SequencesExt

CONSTANTS
  Thread, Superpage,
  NULL,
  DEAD_OWNER,
  Pb,             \* page blocks: numbers, in the order of their addresses
  Layouts,        \* functions from page blocks to superpages
  NUM_CLASSES,    \* size classes are 1 .. NUM_CLASSES here
  BLOCKS_PER_PBH, \* by layout and class: get_blocks_for_class
  BlocksPerLine,  \* by class: the blocks bump_alloc takes at once
  Against,        \* classes whose size is no multiple of a cache line
  MAX_BLOCKS      \* bound, by layout: blocks of all page blocks in use

Class == 1 .. NUM_CLASSES

ASSUME ConstantsAssumption ==
  /\ NULL \notin Thread /\ DEAD_OWNER \notin Thread \cup {NULL}
  /\ NULL \notin Nat \X Nat
  /\ Pb \subseteq Nat /\ IsFiniteSet(Pb) /\ Layouts \subseteq [Pb -> Superpage]
  /\ NUM_CLASSES \in Nat \ {0} /\ MAX_BLOCKS \in [Layouts -> Nat]
  /\ Against \subseteq Class
  /\ BLOCKS_PER_PBH \in [Layouts -> [Class -> Nat \ {0}]]
  /\ BlocksPerLine \in [Class -> Nat \ {0}]
  /\ \A f \in Layouts, c \in Class :
       BLOCKS_PER_PBH[f][c] % BlocksPerLine[c] = 0

VARIABLES
  SpOf,   \* the superpage a page block lies in: one of Layouts, for good
  owner,  \* owner_id of each superpage; NULL: in the pool, or unmapped
  pbh,    \* the page block headers
  next,   \* what GET_NEXT reads in a block
  heap,   \* of each thread, by class: its blk_list
  pc,     \* where each thread is
  run,    \* the blocks first .. last that a thread is returning
  top,    \* remote_list as remote_free last read it
  cl,     \* tlh_clear: the class, or 0
  rest,   \* tlh_return_list: what is left of the list
  out     \* blocks in the hands of the program

vars == <<SpOf, owner, pbh, next, heap, pc, run, top, cl, rest, out>>

BlocksPerPbh == BLOCKS_PER_PBH[SpOf]
Blk(c) == 0 .. BlocksPerPbh[c] - 1
Index  == UNION {0 .. BLOCKS_PER_PBH[f][c] - 1 : f \in Layouts, c \in Class}
Block  == Pb \X Index
Ptr    == Block \cup {NULL}
MaxBlocks == MAX_BLOCKS[SpOf]
NoWord == [head |-> 0, cnt |-> 0]
NoRun  == [first |-> NULL, last |-> NULL, num |-> 0, caller |-> "none"]

\* A header on a free page block list: pbh_field_init.
FreePbh == [sizeclass |-> 0, free_list |-> NULL, cnt_free |-> 0,
            unallocated |-> NULL, cnt_unused |-> 0, remote |-> NoWord]

NoList == [free_blk_list |-> NULL, cnt_free |-> 0,
           ptr_to_unused |-> NULL, cnt_unused |-> 0, pbh_list |-> << >>]
NoHeap == [c \in Class |-> NoList]

Init ==
  /\ SpOf \in Layouts
  /\ owner = [s \in Superpage |-> NULL]
  /\ pbh = [p \in Pb |-> FreePbh]
  /\ next = [b \in Block |-> NULL]
  /\ heap = [t \in Thread |-> NoHeap]
  /\ pc = [t \in Thread |-> "idle"]
  /\ run = [t \in Thread |-> NoRun]
  /\ top = [t \in Thread |-> NoWord]
  /\ cl = [t \in Thread |-> 0]
  /\ rest = [t \in Thread |-> NULL]
  /\ out = {}

----------------------------------------------------------------------------
(* Page block headers and the lists they are on                            *)

InUse(p)   == pbh[p].sizeclass # 0
PbsOf(s)   == {p \in Pb : SpOf[p] = s}
OwnerOf(p) == owner[SpOf[p]]

\* The blocks in the counters of header h, seen at one look.
Counted(h) == h.cnt_free + h.cnt_unused + h.remote.cnt

\* Mutant of IsWhole: one block may be missing.
IsWholeButOne(h) ==
  h.sizeclass # 0 /\ Counted(h) + 1 >= BlocksPerPbh[h.sizeclass]

\* Every block is in the counters.
IsWhole(h) == h.sizeclass # 0 /\ Counted(h) = BlocksPerPbh[h.sizeclass]

\* Links of blocks that are in the program's hands, or never were in a list,
\* are never read: they are NULL here.
Forget(links, p) == [b \in Block |-> IF b[1] = p THEN NULL ELSE links[b]]

\* pbh_list_remove: a page block is on a list once, or not at all.
Without(list, p) ==
  IF p \in ToSet(list) THEN RemoveAt(list, CHOOSE i \in DOMAIN list : list[i] = p)
  ELSE list

\* pb_free: the superpage goes with its last page block.
PbFree(p) ==
  /\ pbh' = [pbh EXCEPT ![p] = FreePbh]
  /\ next' = Forget(next, p)
  /\ owner' = IF \E q \in PbsOf(SpOf[p]) \ {p} : InUse(q) THEN owner
              ELSE [owner EXCEPT ![SpOf[p]] = NULL]

\* take_superpage: whole page blocks become free ones, the others come to the
\* front of their class's list, one by one.
Adopted(h, s, c) ==
  LET mine == {p \in PbsOf(s) : pbh[p].sizeclass = c /\ ~IsWhole(pbh[p])}
      Down(k) == Max({p \in mine : Cardinality({q \in mine : q > p}) = k - 1})
  IN [h EXCEPT !.pbh_list = [k \in 1 .. Cardinality(mine) |-> Down(k)] \o @]

TakeSuperpage(t, s) ==
  LET whole == {p \in PbsOf(s) : IsWhole(pbh[p])}
  IN /\ owner' = [owner EXCEPT ![s] = t]
     /\ pbh' = [p \in Pb |-> IF p \in whole THEN FreePbh ELSE pbh[p]]
     /\ next' = [b \in Block |-> IF b[1] \in whole THEN NULL ELSE next[b]]
     /\ heap' = [heap EXCEPT ![t] =
                   [c \in Class |-> Adopted(heap[t][c], s, c)]]

----------------------------------------------------------------------------
(* small_malloc                                                            *)

HandOut(t, b) ==
  /\ out' = out \cup {b}
  /\ UNCHANGED <<pc, run, top, cl, rest>>

\* Mutant of Bumped: one block is taken off the count of the chunk.
BumpedByOne(c, h) == h.cnt_unused - 1

\* What is left of the chunk.
Bumped(c, h) == h.cnt_unused - BlocksPerLine[c]

\* bump_alloc on a list whose chunk starts with block b.  The other blocks of
\* the cache line become the free list.
BumpAlloc(t, c, h, b) ==
  LET line   == BlocksPerLine[c]
      nth(k) == <<b[1], b[2] + k>>
      rem    == Bumped(c, h)
      chunk  == IF rem > 0 THEN nth(line) ELSE NULL
      bumped == [h EXCEPT !.cnt_unused = rem, !.ptr_to_unused = chunk]
  IN /\ heap' = [heap EXCEPT ![t][c] =
           IF line = 1 THEN bumped
           ELSE [bumped EXCEPT !.free_blk_list = nth(1),
                               !.cnt_free = line - 1]]
     /\ next' = [x \in Block |->
           IF \E k \in 1 .. line - 2 : x = nth(k) THEN <<x[1], x[2] + 1>>
           ELSE IF line > 1 /\ x = nth(line - 1) THEN NULL ELSE next[x]]
     /\ HandOut(t, b)

\* Case 1: the thread's own free list.
MallocLocal(t, c) ==
  LET h == heap[t][c]
      b == h.free_blk_list
  IN /\ pc[t] = "idle" /\ b # NULL
     /\ heap' = [heap EXCEPT ![t][c].free_blk_list = next[b],
                             ![t][c].cnt_free = @ - 1]
     /\ next' = [next EXCEPT ![b] = NULL]
     /\ HandOut(t, b)
     /\ UNCHANGED <<owner, pbh>>

\* Case 2: the thread's unallocated chunk.
MallocBump(t, c) ==
  LET h == heap[t][c]
  IN /\ pc[t] = "idle" /\ h.free_blk_list = NULL /\ h.ptr_to_unused # NULL
     /\ BumpAlloc(t, c, h, h.ptr_to_unused)
     /\ UNCHANGED <<owner, pbh>>

\* Cases 3 and 4: the thread has no block of the class.
Starved(t, c) ==
  /\ pc[t] = "idle"
  /\ heap[t][c].free_blk_list = NULL /\ heap[t][c].ptr_to_unused = NULL

Rotated(seq) == Append(Tail(seq), Head(seq))

\* pbh_list steps on, unless remotely freed blocks wait in the first header.
Stepped(h, p) ==
  IF pbh[p].remote.cnt = 0 THEN Rotated(h.pbh_list) ELSE h.pbh_list

\* Mutant of Emptied: the chunk stays in the header.
EmptiedOfList(h) == [h EXCEPT !.free_list = NULL, !.cnt_free = 0]

\* The thread takes what a header holds, except for the remote list.
Emptied(h) == [h EXCEPT !.free_list = NULL,   !.cnt_free = 0,
                        !.unallocated = NULL, !.cnt_unused = 0]

\* Case 3: the free list, and the chunk, of the first page block of the list;
\* ...
MallocPbhList(t, c) ==
  LET h == heap[t][c]
      p == Head(h.pbh_list)
      b == pbh[p].free_list
  IN /\ Starved(t, c) /\ h.pbh_list # << >>
     /\ pbh[p].cnt_free > 0
     /\ heap' = [heap EXCEPT ![t][c] =
           [free_blk_list |-> next[b],      cnt_free   |-> pbh[p].cnt_free - 1,
            ptr_to_unused |-> pbh[p].unallocated,
            cnt_unused    |-> pbh[p].cnt_unused,
            pbh_list      |-> Stepped(h, p)]]
     /\ pbh' = [pbh EXCEPT ![p] = Emptied(@)]
     /\ next' = [next EXCEPT ![b] = NULL]
     /\ HandOut(t, b)
     /\ UNCHANGED owner

\* ... or only its chunk; ...
MallocPbhChunk(t, c) ==
  LET h == heap[t][c]
      p == Head(h.pbh_list)
      h1 == [h EXCEPT !.cnt_unused = pbh[p].cnt_unused,
                      !.pbh_list = Stepped(h, p)]
  IN /\ Starved(t, c) /\ h.pbh_list # << >>
     /\ pbh[p].cnt_free = 0 /\ pbh[p].cnt_unused > 0
     /\ pbh' = [pbh EXCEPT ![p] = Emptied(@)]
     /\ BumpAlloc(t, c, h1, pbh[p].unallocated)
     /\ UNCHANGED owner

\* ... or the blocks others have freed in it.
MallocRemote(t, c) ==
  LET h == heap[t][c]
      p == Head(h.pbh_list)
      b == <<p, pbh[p].remote.head>>
  IN /\ Starved(t, c) /\ h.pbh_list # << >>
     /\ pbh[p].cnt_free = 0 /\ pbh[p].cnt_unused = 0 /\ pbh[p].remote.cnt > 0
     /\ pbh' = [pbh EXCEPT ![p].remote = NoWord]
     /\ heap' = [heap EXCEPT ![t][c].free_blk_list = next[b],
                             ![t][c].cnt_free = pbh[p].remote.cnt - 1,
                             ![t][c].pbh_list = Rotated(@)]
     /\ next' = [next EXCEPT ![b] = NULL]
     /\ HandOut(t, b)
     /\ UNCHANGED owner

\* pb_alloc: a free page block of the thread's superpages, or else a new
\* superpage.  Which of several is taken makes no difference here.
FreePbs(t) == {p \in Pb : ~InUse(p) /\ OwnerOf(p) = t}
NewPbs     == {p \in Pb : OwnerOf(p) = NULL}

Carved == {b \in Block : InUse(b[1]) /\ b[2] \in Blk(pbh[b[1]].sizeclass)}

\* Case 4: a new page block.
MallocNewPbh(t, c) ==
  LET h == heap[t][c]
      from == IF FreePbs(t) # {} THEN FreePbs(t) ELSE NewPbs
      p == Min(from)
      h1 == [h EXCEPT !.cnt_unused = BlocksPerPbh[c],
                      !.pbh_list = Append(@, p)]
  IN /\ Starved(t, c)
     /\ h.pbh_list # << >> => Counted(pbh[Head(h.pbh_list)]) = 0
     /\ from # {}
     /\ Cardinality(Carved) + BlocksPerPbh[c] <= MaxBlocks
     /\ owner' = [owner EXCEPT ![SpOf[p]] = t]
     /\ pbh' = [pbh EXCEPT ![p] = [FreePbh EXCEPT !.sizeclass = c]]
     /\ BumpAlloc(t, c, h1, <<p, 0>>)

----------------------------------------------------------------------------
(* Returning blocks to their page block: pbh_add_blocks and remote_free    *)

\* The blocks that are not in the counters.
CntRef(h) == BlocksPerPbh[h.sizeclass] - Counted(h)

\* Mutant of ToFront: the page block is not taken out of its place.
ToFrontAgain(t, c, p) == heap' = [heap EXCEPT ![t][c].pbh_list = <<p>> \o @]

\* Page block p of class c comes to the front of its list.
ToFront(t, c, p) ==
  heap' = [heap EXCEPT ![t][c].pbh_list = <<p>> \o Without(@, p)]

\* It is whole with the blocks that come back now.
LastOnes(t, c, p) ==
  /\ heap' = [heap EXCEPT ![t][c].pbh_list = Without(@, p)]
  /\ PbFree(p)

\* pbh_add_blocks, the thread being the owner, of the run r.
AddBlocks(t, r) ==
  LET p == r.first[1]
      h == pbh[p]
  IN \/ /\ CntRef(h) = r.num
        /\ LastOnes(t, h.sizeclass, p)
     \/ /\ CntRef(h) # r.num
        /\ ToFront(t, h.sizeclass, p)
        /\ next' = [next EXCEPT ![r.last] = h.free_list]
        /\ pbh' = [pbh EXCEPT ![p].free_list = r.first,
                              ![p].cnt_free = @ + r.num]
        /\ UNCHANGED owner

\* Loop head of remote_free: an orphan is adopted and the blocks are then
\* returned locally.
CheckDead(t) ==
  LET s == SpOf[run[t].first[1]]
  IN /\ pc[t] = "check"
     /\ \/ /\ owner[s] = DEAD_OWNER
           /\ TakeSuperpage(t, s)
           /\ pc' = [pc EXCEPT ![t] = "local"]
        \/ /\ owner[s] # DEAD_OWNER
           /\ pc' = [pc EXCEPT ![t] = "link"]
           /\ UNCHANGED <<owner, pbh, next, heap>>
     /\ UNCHANGED <<run, top, cl, rest, out>>

\* The word is read and the last block linked to the list it describes.
LinkRun(t) ==
  LET r == run[t]
      p == r.first[1]
      w == pbh[p].remote
  IN /\ pc[t] = "link"
     /\ top' = [top EXCEPT ![t] = w]
     /\ next' = [next EXCEPT ![r.last] =
                   IF w.cnt = 0 THEN NULL ELSE <<p, w.head>>]
     /\ pc' = [pc EXCEPT ![t] = "cas"]
     /\ UNCHANGED <<owner, pbh, heap, run, cl, rest, out>>

\* Mutant of NewTop: the count of the list grows by one, not by the run.
NewTopByOne(t) == [head |-> run[t].first[2], cnt |-> top[t].cnt + 1]

\* The block's index, and how many the list has then.
NewTop(t) == [head |-> run[t].first[2], cnt |-> top[t].cnt + run[t].num]

\* The blocks are no longer the thread's; it still knows their page block.
Pushed(r) == [r EXCEPT !.first = <<@[1], 0>>, !.last = NULL, !.num = 0]

\* Mutant of Push: the word is not compared.
PushBlindly(t) ==
  LET p == run[t].first[1]
  IN /\ pc[t] = "cas"
     /\ pbh' = [pbh EXCEPT ![p].remote = NewTop(t)]
     /\ pc' = [pc EXCEPT ![t] = "recheck"]
     /\ top' = [top EXCEPT ![t] = NoWord]
     /\ run' = [run EXCEPT ![t] = Pushed(@)]
     /\ UNCHANGED <<owner, next, heap, cl, rest, out>>

\* cas64, which fails if the word has changed.
Push(t) ==
  LET p == run[t].first[1]
      same == pbh[p].remote = top[t]
  IN /\ pc[t] = "cas"
     /\ pbh' = IF same THEN [pbh EXCEPT ![p].remote = NewTop(t)] ELSE pbh
     /\ pc' = [pc EXCEPT ![t] = IF same THEN "recheck" ELSE "check"]
     /\ run' = IF same THEN [run EXCEPT ![t] = Pushed(@)] ELSE run
     /\ top' = [top EXCEPT ![t] = NoWord]
     /\ UNCHANGED <<owner, next, heap, cl, rest, out>>

\* Back from remote_free, or from pbh_add_blocks: tlh_return_list goes on, or
\* its caller does.
Back(t) ==
  /\ run' = [run EXCEPT ![t] = NoRun]
  /\ pc' = [pc EXCEPT ![t] = IF rest'[t] # NULL THEN "list"
                           ELSE IF cl[t] # 0 THEN "exit" ELSE "idle"]

\* The owner may have died before it could see the blocks.
CheckDeadAgain(t) ==
  LET s == SpOf[run[t].first[1]]
  IN /\ pc[t] = "recheck"
     /\ \/ owner[s] = DEAD_OWNER /\ TakeSuperpage(t, s)
        \/ owner[s] # DEAD_OWNER /\ UNCHANGED <<owner, pbh, next, heap>>
     /\ UNCHANGED <<top, cl, rest, out>>
     /\ Back(t)

----------------------------------------------------------------------------
(* small_free and tlh_return_list                                          *)

ClassOf(b) == pbh[b[1]].sizeclass

\* Block b joins the thread's list; a list as long as a page block's is
\* returned first.  Nothing reads the list while it is being returned, so it
\* leaves the heap, and b starts the new one, at once.
FreeLocally(t, b) ==
  LET c == ClassOf(b)
      h == heap[t][c]
      full == h.cnt_free >= BlocksPerPbh[c]
      list == IF full THEN NULL ELSE h.free_blk_list
  IN /\ heap' = [heap EXCEPT ![t][c].free_blk_list = b,
                             ![t][c].cnt_free = IF full THEN 1 ELSE @ + 1]
     /\ next' = [next EXCEPT ![b] = list]
     /\ rest' = [rest EXCEPT ![t] = IF full THEN h.free_blk_list ELSE NULL]

\* Blocks of some classes go back to a foreign owner at once.
SmallFree(t, b) ==
  /\ pc[t] = "idle"
  /\ out' = out \ {b}
  /\ \/ /\ ClassOf(b) \in Against /\ OwnerOf(b[1]) # t
        /\ run' = [run EXCEPT ![t] = [first |-> b, last |-> b, num |-> 1,
                                     caller |-> "small_free"]]
        /\ pc' = [pc EXCEPT ![t] = "check"]
        /\ UNCHANGED <<heap, next, rest>>
     \/ /\ ClassOf(b) \notin Against \/ OwnerOf(b[1]) = t
        /\ FreeLocally(t, b)
        /\ Back(t)
  /\ UNCHANGED <<owner, pbh, top, cl>>

\* The blocks from b on: at[k] is the k-th after it, or NULL.
After(b) ==
  LET Nxt(x) == IF x = NULL THEN NULL ELSE next[x]
      at[k \in 0 .. MaxBlocks] == IF k = 0 THEN b ELSE Nxt(at[k - 1])
  IN at

\* Mutant of RunLength: a run goes on into the next page block.
RunLengthAll(b) == Min({k \in 1 .. MaxBlocks : After(b)[k] = NULL})

\* How many of them lie in the page block of b without interruption.
RunLength(b) ==
  Min({k \in 1 .. MaxBlocks : After(b)[k] = NULL \/ After(b)[k][1] # b[1]})

\* The next run of blocks of one page block, to the header or to its owner.
ReturnRun(t) ==
  LET b == rest[t]
      n == RunLength(b)
      r == [first |-> b, last |-> After(b)[n - 1], num |-> n,
            caller |-> "tlh_return_list"]
  IN /\ pc[t] = "list"
     /\ rest' = [rest EXCEPT ![t] = After(b)[n]]
     /\ \/ /\ OwnerOf(b[1]) = t
           /\ AddBlocks(t, r)
           /\ Back(t)
        \/ /\ OwnerOf(b[1]) # t
           /\ run' = [run EXCEPT ![t] = r]
           /\ pc' = [pc EXCEPT ![t] = "check"]
           /\ UNCHANGED <<owner, pbh, next, heap>>
     /\ UNCHANGED <<top, cl, out>>

\* remote_free has returned false: the caller goes on as the owner.
GoOnLocally(t) ==
  /\ pc[t] = "local"
  /\ \/ /\ run[t].caller = "small_free"
        /\ FreeLocally(t, run[t].first)
        /\ UNCHANGED <<owner, pbh>>
     \/ /\ run[t].caller = "tlh_return_list"
        /\ AddBlocks(t, run[t])
        /\ UNCHANGED rest
  /\ Back(t)
  /\ UNCHANGED <<top, cl, out>>

----------------------------------------------------------------------------
(* tlh_clear: class by class, then the superpages                          *)

Exit(t) ==
  /\ pc[t] = "idle"
  /\ pc' = [pc EXCEPT ![t] = "exit"]
  /\ cl' = [cl EXCEPT ![t] = 1]
  /\ UNCHANGED <<owner, pbh, next, heap, run, top, rest, out>>

\* Of class c there is something left to give back.
Left(t, c) ==
  \/ heap[t][c].free_blk_list # NULL \/ heap[t][c].ptr_to_unused # NULL
  \/ heap[t][c].pbh_list # << >>

\* The loop comes to class c, the next with something left; the locals of
\* remote_free are not in use.
Clearing(t, c) ==
  /\ pc[t] = "exit"
  /\ c >= cl[t] /\ Left(t, c) /\ \A d \in cl[t] .. c - 1 : ~Left(t, d)
  /\ cl' = [cl EXCEPT ![t] = c]
  /\ UNCHANGED <<run, top, out>>

ExitList(t, c) ==
  /\ Clearing(t, c) /\ heap[t][c].free_blk_list # NULL
  /\ rest' = [rest EXCEPT ![t] = heap[t][c].free_blk_list]
  /\ heap' = [heap EXCEPT ![t][c].free_blk_list = NULL, ![t][c].cnt_free = 0]
  /\ pc' = [pc EXCEPT ![t] = "list"]
  /\ UNCHANGED <<owner, pbh, next>>

\* tlh_return_unused and pbh_add_unused.  No page block has two chunks (see
\* ChunksApart), so what the code does with a second one is not here.
ExitUnused(t, c) ==
  LET h == heap[t][c]
      p == h.ptr_to_unused[1]
      cleared == [heap EXCEPT ![t][c] =
                    [h EXCEPT !.ptr_to_unused = NULL, !.cnt_unused = 0,
                              !.pbh_list = Without(@, p)]]
  IN /\ Clearing(t, c) /\ h.free_blk_list = NULL /\ h.ptr_to_unused # NULL
     /\ \/ /\ CntRef(pbh[p]) = h.cnt_unused
           /\ heap' = cleared
           /\ PbFree(p)
        \/ /\ CntRef(pbh[p]) # h.cnt_unused
           /\ heap' = [cleared EXCEPT ![t][c].pbh_list = <<p>> \o @]
           /\ pbh' = [pbh EXCEPT ![p].unallocated = h.ptr_to_unused,
                                 ![p].cnt_unused = h.cnt_unused]
           /\ UNCHANGED <<owner, next>>
     /\ UNCHANGED <<pc, rest>>

\* tlh_return_pbhs, a turn of its loop.
ExitPbh(t, c) ==
  LET h == heap[t][c]
      p == Head(h.pbh_list)
  IN /\ Clearing(t, c) /\ h.free_blk_list = NULL /\ h.ptr_to_unused = NULL
     /\ heap' = [heap EXCEPT ![t][c].pbh_list = Tail(@)]
     /\ \/ IsWhole(pbh[p]) /\ PbFree(p)
        \/ ~IsWhole(pbh[p]) /\ UNCHANGED <<owner, pbh, next>>
     /\ UNCHANGED <<pc, rest>>

OwnedBy(t) == {s \in Superpage : owner[s] = t}

\* All classes are done.  The class lists may hold page blocks again: those of
\* a superpage that was adopted on the way, of a class already gone through.
Cleared(t) ==
  /\ pc[t] = "exit" /\ \A c \in cl[t] .. NUM_CLASSES : ~Left(t, c)
  /\ UNCHANGED <<run, top, out>>

\* finish_superpages, a turn of its loop: whole page blocks become free, and
\* the superpage is pooled or becomes an orphan.
ExitSuperpage(t, s) ==
  LET whole == {p \in PbsOf(s) : IsWhole(pbh[p])}
      inuse == {p \in PbsOf(s) : InUse(p)} \ whole
  IN /\ Cleared(t) /\ s \in OwnedBy(t)
     /\ owner' = [owner EXCEPT ![s] = IF inuse = {} THEN NULL ELSE DEAD_OWNER]
     /\ pbh' = [p \in Pb |-> IF p \in whole THEN FreePbh ELSE pbh[p]]
     /\ next' = [b \in Block |-> IF b[1] \in whole THEN NULL ELSE next[b]]
     /\ UNCHANGED <<heap, pc, cl, rest>>

\* The thread ends, its heap with it, and a new one may start in its place: no
\* superpage bears its id any more.
ThreadEnd(t) ==
  /\ Cleared(t) /\ OwnedBy(t) = {}
  /\ heap' = [heap EXCEPT ![t] = NoHeap]
  /\ pc' = [pc EXCEPT ![t] = "idle"]
  /\ cl' = [cl EXCEPT ![t] = 0]
  /\ UNCHANGED <<owner, pbh, next, rest>>

Malloc(t, c) ==
  \/ MallocLocal(t, c) \/ MallocBump(t, c) \/ MallocPbhList(t, c)
  \/ MallocPbhChunk(t, c) \/ MallocRemote(t, c) \/ MallocNewPbh(t, c)

RemoteFree(t) ==
  CheckDead(t) \/ LinkRun(t) \/ Push(t) \/ CheckDeadAgain(t)

TlhClear(t) ==
  \/ Exit(t)
  \/ \E c \in Class :
       ExitList(t, c) \/ ExitUnused(t, c) \/ ExitPbh(t, c)
  \/ \E s \in Superpage : ExitSuperpage(t, s)
  \/ ThreadEnd(t)

Next ==
  /\ \E t \in Thread :
       \/ \E c \in Class : Malloc(t, c)
       \/ \E b \in out : SmallFree(t, b)
       \/ RemoteFree(t) \/ ReturnRun(t) \/ GoOnLocally(t)
       \/ TlhClear(t)
  /\ UNCHANGED SpOf

Spec == Init /\ [][Next]_vars

----------------------------------------------------------------------------
(* Properties                                                              *)

PbhTypes ==
  [sizeclass : 0 .. NUM_CLASSES, free_list : Ptr, cnt_free : 0 .. MaxBlocks,
   unallocated : Ptr, cnt_unused : 0 .. MaxBlocks,
   remote : [head : Nat, cnt : 0 .. MaxBlocks]]

ListTypes ==
  [free_blk_list : Ptr, cnt_free : 0 .. MaxBlocks, ptr_to_unused : Ptr,
   cnt_unused : 0 .. MaxBlocks, pbh_list : Seq(Pb)]

\* The types of the variables: above all, no counter wraps below zero or
\* counts more blocks than there are.
TypeOK ==
  /\ SpOf \in Layouts
  /\ owner \in [Superpage -> Thread \cup {NULL, DEAD_OWNER}]
  /\ pbh \in [Pb -> PbhTypes]
  /\ next \in [Block -> Ptr]
  /\ heap \in [Thread -> [Class -> ListTypes]]
  /\ pc \in [Thread -> {"idle", "check", "link", "cas", "recheck", "local",
                        "list", "exit"}]
  /\ run \in [Thread -> [first : Ptr, last : Ptr, num : 0 .. MaxBlocks,
                         caller : {"none", "small_free", "tlh_return_list"}]]
  /\ top \in [Thread -> [head : Nat, cnt : 0 .. MaxBlocks]]
  /\ cl \in [Thread -> 0 .. NUM_CLASSES]
  /\ rest \in [Thread -> Ptr]
  /\ out \subseteq Block

\* The blocks of the list that starts with b.
ListOf(b) ==
  IF b = NULL THEN {} ELSE {After(b)[k] : k \in 0 .. MaxBlocks} \ {NULL}

\* The n blocks of the unallocated chunk that starts with b.
ChunkOf(b, n) == {<<b[1], b[2] + k>> : k \in 0 .. n - 1}

\* t still has the blocks of its run in hand: they are in no list.
InHand(t) == pc[t] \in {"check", "link", "cas", "local"}

\* Where blocks can be, by a name of the place.
Places ==
  {<<"program", 0, 0, out>>}
  \cup {<<"list", t, c, ListOf(heap[t][c].free_blk_list)>> :
          t \in Thread, c \in Class}
  \cup {<<"rest", t, 0, ListOf(rest[t])>> : t \in Thread}
  \cup {<<"chunk", t, c, ChunkOf(heap[t][c].ptr_to_unused,
                                heap[t][c].cnt_unused)>> :
          t \in Thread, c \in Class}
  \cup {<<"run", t, 0, {After(run[t].first)[k] : k \in 0 .. run[t].num - 1}>> :
          t \in {u \in Thread : InHand(u)}}
  \cup {<<"header", p, 0, ListOf(pbh[p].free_list)>> : p \in Pb}
  \cup {<<"unallocated", p, 0,
           ChunkOf(pbh[p].unallocated, pbh[p].cnt_unused)>> : p \in Pb}
  \cup {<<"remote", p, 0, ListOf(<<p, pbh[p].remote.head>>)>> :
          p \in {q \in Pb : pbh[q].remote.cnt > 0}}

\* Whatever the threads are doing, a block of a page block in use is in one
\* place and in no two: the program has it, or one list, chunk or run does.
\* No block is lost when the remote list is pushed to while its owner takes
\* it, when a list is split into runs, or when a thread exits.
BlocksExact ==
  LET places == {pl \in Places : pl[4] # {}}
      carved == Carved
  IN /\ \A b \in carved : Cardinality({pl \in places : b \in pl[4]}) = 1
     /\ UNION {pl[4] : pl \in places} = carved

\* A list of n blocks: it ends after the n-th.
HasLength(b, n) == After(b)[n] = NULL /\ (n > 0 => After(b)[n - 1] # NULL)

\* Each counter is the length of the list it goes with, the count in the packed
\* word of the remote list too, and a chunk is a number of whole cache lines,
\* so bump_alloc never takes more than is there.
CountersExact ==
  /\ \A t \in Thread, c \in Class :
       LET h == heap[t][c]
       IN /\ HasLength(h.free_blk_list, h.cnt_free)
          /\ h.cnt_unused % BlocksPerLine[c] = 0
          /\ (h.ptr_to_unused = NULL) = (h.cnt_unused = 0)
  /\ \A p \in Pb :
       LET h == pbh[p]
       IN /\ HasLength(h.free_list, h.cnt_free)
          /\ HasLength(IF h.remote.cnt = 0 THEN NULL ELSE <<p, h.remote.head>>,
                       h.remote.cnt)
          /\ (h.unallocated = NULL) = (h.cnt_unused = 0)

\* A thread's chunk of a class lies in a page block of that class, in one of
\* its own superpages, and the header has no other chunk of it: the branch of
\* pbh_add_unused that would split one of two chunks is never taken, and
\* pbh_add_unused need not ask, as pbh_add_blocks does, who the owner is.
ChunksApart ==
  \A t \in Thread, c \in Class :
    LET h == heap[t][c]
        p == h.ptr_to_unused[1]
    IN h.cnt_unused > 0 => /\ OwnerOf(p) = t
                           /\ pbh[p].sizeclass = c
                           /\ pbh[p].cnt_unused = 0

\* The list of a class holds, once each, the page blocks of the class in the
\* superpages of the thread: as long as the thread has not exited, and in its
\* exit for the classes it has yet to come to, whatever it adopts on the way.
PbhListExact ==
  \A t \in Thread, c \in Class :
    LET list    == heap[t][c].pbh_list
        all     == {p \in Pb : OwnerOf(p) = t /\ pbh[p].sizeclass = c}
    IN \/ c <= cl[t]
       \/ ToSet(list) = all /\ Len(list) = Cardinality(all)

\* What the program is promised: blocks that are nobody else's.
Promise ==
  INSTANCE BlockPool WITH held <- {<<b[1], b[2], ClassOf(b)>> : b \in out}
KeepsPromise == Promise!Spec
=============================================================================
