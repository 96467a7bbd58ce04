# SFMalloc in TLA+

A verification project for SFMalloc, a lock-free memory allocator for
multi-threaded C programs (`src/sf_malloc.c` and its headers). It models the
parts of the allocator in which threads meet, and the data structures they meet
in, as TLA+ modules; TLC checks them on small instances; TLAPS proves the most
important facts for every number of threads, superpages and blocks.

The models follow the build the Makefile makes: x86-64, with `NDEBUG`, the
pagemap cache and the page block cache as `sf_malloc_ctrl.h` sets them. Asserts
are off, so what they assert is a property here.

## 1. The system

Memory comes from the OS in **superpages** of 127 pages behind two header pages.
A superpage is cut into **page blocks**, runs of pages, each described by a
header (`pbh_t`) in the superpage's header pages. A page block serves one large
request (8 pages < size <= 126 pages) or is cut into the **blocks** of one of 60
size classes. Larger requests are mapped by themselves. A global radix tree, the
**pagemap**, leads from a page to its page block header.

Every thread has a heap of its own (`tlh_t`): lists of blocks and page blocks by
size class, free page blocks by length, its superpages, and a cache of large
blocks. No lock exists. A superpage is **owned** by one thread, and only its
owner touches its page blocks. Other threads return blocks through one remote
list per page block (small blocks) or per superpage (large ones). A thread that
exits frees its empty superpages and leaves the rest as orphans (`DEAD_OWNER`),
which the next thread that frees into them adopts.

| Component | State | Operations | Meets | Correct when |
|---|---|---|---|---|
| Ownership | `sph->omark` (owner id and finish mark, one word), `hazard_mark`, remote lists, hazard pointers | `remote_free`, `pb_remote_free`, `take_superpage`, `finish_superpages`, `try_to_free_superpage` | every thread, at any time, through cas and plain stores | one owner at work; a superpage is released only when empty; no orphan is stranded; exits end |
| Global free superpage list | `g_free_sp_list`, `sph->next`, `g_free_sp_len` | `sph_alloc`, `sph_free`, the end of `try_to_free_superpage` | every thread, through cas | no superpage lost or given twice; length exact; its pagemap is clear |
| Page blocks | headers, their rings, `free_pb_list`, `pbh_list`, `sp_list`, pagemap entries | `pb_alloc`, `pb_split`, `pb_coalesce`, `pb_free`, `sph_coalesce_pbs`, the walks of adoption and exit | the owner alone; hands over at adoption | headers tile the superpage; pagemap exact; lists exact; a run in use intact |
| Small blocks | `blk_list_t`, `cnt_free`, `cnt_unused`, `remote_list`, the links in the blocks | `small_malloc`, `small_free`, `remote_free`, `pbh_add_blocks`, `pbh_add_unused`, `tlh_return_*`, `tlh_clear` | remote pushes on one 64-bit word | a block is in one place; counters count what they say; nothing is handed out twice |
| Page block cache | 8 ways, tags, pseudo-LRU state | `large_malloc`, `large_free`, `pb_cache_return` | one thread | tags unique, at most two blocks per way, all of the tag's length |
| Size map, alignment | constant tables | `get_sizeclass`, `get_alignment`, `malloc`, `posix_memalign`, `memalign`, `valloc` | none | block large enough, aligned, in its page block, of the smallest class |
| Pagemap, huge blocks | three-level tree, a cached leaf per thread | `pagemap_expand/get/set`, `huge_malloc`, `huge_free` | every thread | a page in use leads to its header or size |
| Hazard pointers | global list, `active`, `num_free`, nodes | `hazard_ptr_alloc/free/set/clr/scan_single` | every thread | one owner per pointer; a scan misses none that is set |
| calloc, realloc | none | `calloc`, `realloc` | none | contents kept; nothing copied from or to beyond a block |
| new/delete, initialisation, statistics | none of interest | | | |

What is hard here: the race between a remote free, the owner's exit and the
adoption, three parties on two words, one of them written by a plain store; the
unmapping of memory another thread is about to touch; the pop-all-and-put-back
list; header rings that are changed on a dozen paths and handed to an adopter in
whatever shape the last owner left them; exact counters of blocks that several
threads move; addresses that the kernel gives out again while their entries in
the pagemap are being cleared; numeric edges of the size tables.
`PROJECT.json` lists each hazard at its line with the properties that would
catch it.

## 2. The modules

| Module | What it is | Code |
|---|---|---|
| `Superpages` | abstract: a superpage is free, owned by one thread or an orphan; who may do what | the promise of the two modules below |
| `OwnerMark` | ownership protocol, memory access by memory access, with or without x86 store buffers | 508-566, 614-733, 786-810, 989-1009, 1088-1180, 1235-1324, 1420-1471 |
| `FreeSpList` | global free superpage list, memory access by memory access | 508-566, 717-731 |
| `PageBlocks` | page blocks, their headers, rings and the pagemap, call by call | 502-504, 567-1070, 1168-1180, 1358-1409 |
| `PBCache` | a thread's page block cache, call by call | 1088-1099, 1185-1200, 1358-1409, 1473-1521, `sf_malloc_def.h` 216-251 |
| `SmallBlocks` | small blocks with every link, counter and packed word, access by access to what is shared | 614-669, 786-852, 1088-1180, 1204-1324, 1420-1471 |
| `BlockPool` | abstract: what malloc and free of small blocks promise | the promise of `SmallBlocks` |
| `PageMap` | the tree of the pagemap, the leaf cache, huge blocks and superpages coming and going, access by access | 268-279, 426-504, 533-566, 1410-1419, 1523-1526, 1584-1589, 1742-1759 |
| `HazardPtr` | the list of hazard pointers, access by access, with threads that start and exit | 1075-1087, `sf_malloc_hazard.h` 11-92 |
| `SizeMap` | class tables, alignment, where a block starts and ends, what realloc copies | 296-421, 1545-1677, 1699-1805 |
| `OwnerMark_proof`, `HazardPtr_proof`, `PageBlocks_proof`, `PageMap_proof`, `PBCache_proof`, `SmallBlocks_proof` | theorems about the module of that name | |
| `MCLists_proof` | theorems about `FreeSpList`, and those of `HazardPtr_proof` for the instance that `MCLists` checks | |
| `MCPages_proof` | theorems about `SizeMap`, and those of `PageBlocks_proof` for the two instances that `MCPages` checks | |
| `MCLists`, `MCPages` | instances for TLC of several modules side by side: a behaviour is one of either | |
| other `MC...` | instances for TLC: block and page block sets, bounds, symmetry | |

(Lines of `src/sf_malloc.c`; `PROJECT.json` maps every definition.)

`OwnerMark`, `FreeSpList`, `PageBlocks`, `SmallBlocks` and `PageMap` look at one
superpage from five sides, and each leaves to the others what it abstracts:

* `OwnerMark` has the words `owner_id`, `finish_mark`, `hazard_mark`, the hazard
  pointers and the set of blocks that are outside, inside or on a remote list. A
  page block is a slot that is in use or free; coalescing is the choice whether
  the superpage is released once nothing is in use; the free list is a set.
* `FreeSpList` has the list's pointers and counter and each thread's locals.
  Which superpage a thread may free, and whether a hazard pointer is found, is
  open.
* `PageBlocks` has every header, ring pointer and pagemap entry; a call is one
  action, since only the owner makes it. Whether the last block of a small page
  block came back locally or remotely is `whole`.

* `SmallBlocks` has the blocks inside page blocks. A page block is a slot of a
  superpage; adoption (`TakeSuperpage`) and giving a superpage up
  (`ExitSuperpage`) are one step each, since `OwnerMark` has their races. Which
  free page block `pb_alloc` takes makes no difference to blocks.
* `PageMap` has the entries of a superpage as "a header", and when a mapping comes
  and goes. What keeps page blocks of neighbouring superpages apart, which
  `PageBlocks` relies on, is its `EntriesExact`.

`Superpages` ties the first two together: both implement it, with `holder` as the
owner of a superpage and, in `OwnerMark`, `held` as the blocks outside.

### State and actions

`OwnerMark`. `owner` and `finish_mark` are the two halves of `sph->omark`;
`sb[t][s]` is thread t's buffered store to the mark of s. `pc`, `cur`, `run`,
`todo`, `cnt_inuse` are the place, `sph`, `first..last`, rest of the walk and
`cnt_inuse` of the running call. A return starts at `Return` and goes locally
(`LocalReturn`, then `SphFree`) or through `RF_Check`, `RF_Push`, `RF_Mark`,
`RF_Recheck`, and `Walk` and `WalkDone` if it adopts. An exit is `Exit`,
`FS_Next`, `FS_Clear`, `FS_Scan` once per page block, and `FS_Free` or `FS_Dead`.
A failed round of `remote_free`'s loop changes nothing shared and is a stutter.

`FreeSpList`. `A_*` are the accesses of `sph_alloc` in order, `F_*` those of
`sph_free`, `T_*` those of `try_to_free_superpage` that are not already `F_*`.
`zone` and `by` record who has a superpage, for the properties.

`PageBlocks`. `mem`, `pagemap`, `free_pb_list`, `pbh_list`, `sp_list`,
`remote_pb_list` are the code's; `Insert` and `Unlink` write the ring pointers
the list functions write. `run` records what was handed out, for the
properties. An exiting thread takes one `ReturnPbh` per page block of its class
list and one `FinishSuperpage` per superpage; other threads run in between.

`PBCache`. `data`, `length`, `tag` and `state` are the fields of `pb_cache_t`;
`data` is the list that starts at `block[w].data`, `state` the set of bits that
are 1. A call of `large_malloc` is a hit, a hit in an empty way or a miss, one of
`large_free` a hit or a miss, each with all it evicts. `len` is `pbh->length`, 0
once the page block went back, and `out` is who the program or another thread
may still free; `MallocElsewhere` and `FreeElsewhere` are the other threads'
calls. The model starts below the superpages: which heap takes a page block
back does not matter to the cache.

`SmallBlocks`. `pbh` and `heap` are the fields of `pbh_t` and `blk_list_t`, `next`
is what `GET_NEXT` reads in a block, and a block is a page block and an index, so
that `remote.head` is the code's block index. `Malloc*` are the cases of
`small_malloc`; `SmallFree` and `ReturnRun` (a turn of `tlh_return_list`'s loop)
either finish locally or enter `remote_free`: `CheckDead`, `LinkRun` (reads the
word and links the last block), `Push` (the cas64), `CheckDeadAgain`, and
`GoOnLocally` in the caller if it adopted. An exit is `Exit`, then for each class
`ExitList`, `ExitUnused` and one `ExitPbh` per page block, then `ExitSuperpage`s
and `ThreadEnd`. What a thread does to its own heap between two accesses to
`owner_id` or `remote_list` goes with them. `SpOf`, which page block lies in which
superpage, and with it how many blocks a page block has, is chosen in `Init`.

`PageMap`. `node` and `mem` are the tree: `mem` holds leaves for a node and entries
for a leaf. Making a block is `Map`, the loop of `pagemap_expand` (`TestNode`,
`CasNode`, `TestLeaf`, `CasLeaf`) and of `pagemap_set_range` (`Set`), and `Return`,
or `Carve` if `posix_memalign` gives the front back. `FreeHuge`, `HugeUnmap`,
`HugeClear` and `FreeSp`, `SpErase`, `SpUnmap` are the two ways out, in the order
of the code. `Look` is the lookup of `free` and `realloc`. Memory of nodes and
leaves that lost a race is unmapped and may be mapped again.

`HazardPtr`. `Start` is `tlh_init` up to the test of `num_free`; `Walk`, `Xchg`,
`Take`, or `MapPage`, `LinkPage`, `CasPage`, `AddFree` are `hazard_ptr_alloc`, the
others two steps each for set, clear and free and one per access for the scan. A
thread that ended may start anew, with a new id. The allocator never has more
than one superpage in a hazard pointer, so `node` is one place.

`SizeMap`. One call at a time; `ret` is the block and the pages it lies in, `old`
what the last `realloc` was given.

## 3. What is checked

TLC, two workers; states are distinct states.

| Run | Instance | Shows |
|---|---|---|
| `OwnerMark` | 2 threads, 2 superpages, 1 page block each of 2 blocks, store buffers, pool threshold 1; 211,000 states | `FreedIsEmpty`, `OneOwnerAtWork`, the inductive invariant, and that the protocol implements `Superpages` |
| `OwnerMark_live` | 2 threads, 1 superpage, 2 page blocks of 2 blocks, stores in order, fairness | `NoStranded` and its strengthening `SCInv`, `ExitTerminates`, `OrphanAdopted` |
| `Lists` | `FreeSpList`: 3 threads with 3 superpages, 2 threads with 4, threshold 2; `HazardPtr`: 3 threads that start at most 3 times in all, pages of 2 hazard pointers; 374,000 states | `ListIntact`, `LenExact`, the inductive invariant, implements `Superpages`; `OneThreadEach`, `ListComplete`, `FreeCounted`, `NoneMissed` |
| `SmallBlocks` | 2 threads, 2 classes, 2 page blocks, in one superpage (of 1 or 2 blocks, 3 in use at most) or in two (3 or 2 blocks, 4 at most); class 1 goes back to a foreign owner at once, class 2 has 2 blocks per cache line; 237,000 states | `BlocksExact`, `CountersExact`, `ChunksApart`, `PbhListExact`, implements `BlockPool` |
| `Pages` | `PageBlocks` twice, 2 threads: 1 superpage of 4 pages, small page blocks of 1 page and large of 2, or 2 superpages of 2 pages; `SizeMap`: every entry of `class_array` at both ends, the limits of small, large and huge, alignments 1 to 4 pages and three that are no power of two, 19 sizes to resize between; `PageMap`: 2 threads, 5 pages, huge blocks of 3 pages, superpages of 1 + 2, nodes and leaves of 2; 429,000 states | `LongHeapOK`, `LongRunsIntact`, `BothListsExact`, `BothSuperpagesListed` (`HeapOK`, `RunsIntact`, `ListsExact`, `SuperpagesListed` in one or both instances); `BlockFits`, `ReallocKeeps`, `SmallestClass`, `MemalignAligned`; `TreeGrows`, `TreeSound`, `EntriesExact` |
| `PBCache` | 3 page blocks, at most 2 outside at once, 8 ways, 9 lengths; 431,000 states | `TagsDistinct`, `WaysExact`, `PlacedOnce`, `VictimNotRecent` |

Two runs hold modules side by side: the variable `part` says of which module a
behaviour is, the others' variables never move, and a property of one module holds
trivially in the others' behaviours. The modules in one run share no variable that
moves, so that interleaving their steps would show nothing more.

Why these bounds. The ownership race has three roles (remote freer, exiting
owner, adopter) and two threads can play all of them, since the freer adopts;
two blocks per page block make "some but not all back" possible, two page blocks
make the counting walk race with a push behind and ahead of it, and the second
superpage makes the pool fill up so that `munmap` happens. The theorems hold for
any number. The put-back of the free list needs a thread with a rest of two that it
walks through while another pushes, hence four superpages, and, among three
threads, one that pushes meanwhile and one that pops. Two new threads and one that comes back
are what it takes for `HazardPtr` to push two pages at once, to walk the list
while a hazard pointer is given back, and to scan past one that changes hands.
`SmallBlocks` needs a page block of three blocks for a push on a remote list that
the owner takes meanwhile, two page blocks for lists that go back in several runs,
and two superpages for an adoption in the middle of an exit. In `PageMap` five
pages at leaves of two make a block of three pages, or a superpage, reach over two
leaves and two nodes, and leave room for another beside it. Four pages give a page block with two
neighbours and a fourth block beside, so that every branch of coalescing, in
`pb_coalesce`, `sph_coalesce_pbs` and the exit walk, is taken. The page block
cache evicts only when nine lengths are in play, and turns a page block away when
a third of one length is freed, for which two need not be outside at once
(`MaxOut`); `PBCache`'s `VIEW` makes states one that differ by a
permutation of the lengths, since the code only ever compares two lengths.

`CHECK_DEADLOCK FALSE` is set where the instance may stop: `FreeSpList` and
`PageMap` when no address is left to map, `HazardPtr` when all ids are used up,
`SmallBlocks` when `MAX_BLOCKS` blocks are in use and nobody frees, `PageBlocks` when an exiting thread meets a superpage in
which only large blocks are in use (see the assumptions), `OwnerMark` when a
thread touches unmapped memory. In `OwnerMark_live` deadlock is checked: no
thread gets stuck before all have exited.

**Fairness.** `OwnerMark_live` assumes weak fairness of every thread's code under
way (`Progress`) and of its store buffer: the kernel schedules every thread, and
stores reach memory. No call of the program is assumed to happen: nobody need
free or exit. `ExitTerminates` does not follow from scheduling alone; it holds
because each retry of `finish_superpages` uses up a block that came back.

**Assumption on the kernel** in `Pages` (`PageMap`). `REUSE = FALSE`: between the two
statements of `huge_free` the kernel does not map anew the page whose entry the
second one clears. Without it the code goes wrong, which `PageMap_reuse` shows.

**Assumptions on the program** in `PageBlocks`. `RemotePhases = {"exit"}`: a large
block is freed by its owner thread, or when the owner is exiting or gone; and
`LargeAtExit = FALSE`: a thread does not exit with just large blocks left in a
superpage. Without either the code goes wrong, which two runs show (below). The
other properties are checked, and proved, under both so that they say something
about the rest of the code.

## 4. Where the code does something else than it says

| Run | Violated | What happens |
|---|---|---|
| `OwnerMark_stranded` | `NoStranded` | `remote_free` stores `DO_NOT_FINISH` (1444) and loads `owner_id` (1448) with no fence between. On x86-64 the load may come first: the exiting owner's cas64 (663) still sees `NONE` and succeeds, the freer still sees the owner alive. If that was the last block, no one adopts the orphan (the comment at 1176-1178 says another thread will). |
| `OwnerMark_unmap` | `NoUseAfterUnmap` | `sph_free` scans the hazard pointers only if `hazard_mark` is set, which only `try_to_free_superpage` does. The owner can unmap a superpage between a remote freer's push (1443) and its store to the mark (1444). |
| `FreeSpList_late` | `HeaderFound` | `try_to_free_superpage` pushes the superpage (727) before it clears its pagemap (729): entries made by the thread that popped it are wiped. |
| `PageBlocks_remote` | `PoppedLength` | `sph_get_remote_pbs`, called from `pb_alloc` (937), joins blocks to neighbours that stay on the free list of their old length (587, 607); the assert at 966 fails. |
| `PageBlocks_exit` | `RunsIntact` | `try_to_free_superpage` (680) counts small page blocks only; a superpage with a large block in use is pooled. |
| `PageMap_reuse` | `ValFound` | `huge_free` unmaps the block (1524) and then clears its entry (1525). If another thread maps that address in between, the clear wipes its new entry, and its `free` reads `NULL` (the assert at 1586). |

Met while reading, with no run: `get_alignment` answers 16 for sizes up to 8,
whose blocks are 8 bytes apart, so that the assert at 1716 fails for alignment 16
(`MemalignAligned` starts at size 16); `posix_memalign` does not reject alignments that are no
multiple of `sizeof(void *)` (its comment, 1695-1696, says `EINVAL`); a failing `mmap` ends
the process (271-273) where the comment of `malloc` (1541) promises `NULL`;
`calloc` multiplies without a test for overflow (1617); a thread that allocates
again after its heap was cleared keeps its old `free_pb_list`; the block that
fills its superpage after `sph_coalesce_pbs` is not freed by `pb_alloc` or
`take_superpage` as the comment at 588-589 says.

## 5. What is proved

`tlapm` proves the following for every value of the constants. The named
assumptions on them are evaluated by TLC in the runs, `ConstantsOK` and `SizesOK`
too (`MCLists`, `MCPages`).

| Theorem | Statement |
|---|---|
| `OwnerMark_proof!TypeCorrect` | `Spec => []TypeOK` |
| `OwnerMark_proof!Inductive` | `Spec => []IInv` |
| `OwnerMark_proof!FreedEmpty` | `Spec => []FreedIsEmpty` |
| `OwnerMark_proof!OneOwner` | `Spec => []OneOwnerAtWork` |
| `OwnerMark_proof!SCInductive` | `~StoreBuffers => (Spec => []SCInv)` |
| `OwnerMark_proof!SCNoStranded` | `~StoreBuffers => (Spec => []NoStranded)` |
| `OwnerMark_proof!Implements` | `Spec => KeepsPromise` (`Superpages`) |
| `MCLists_proof!Inductive` | `Spec => []IInv` |
| `MCLists_proof!ListStaysIntact` | `Spec => []ListIntact` |
| `MCLists_proof!LenIsExact` | `Spec => []LenExact` |
| `MCLists_proof!Implements` | `Spec => KeepsPromise` (`Superpages`) |
| `HazardPtr_proof!Invariant` | `ConstantsOK /\ Spec => []IInv` |
| `MCLists_proof!OneEach`, `ListHasAll`, `CountOfFree`, `ScanMissesNone` | `Hazard!ConstantsOK /\ Hazard!Spec => []...` of `OneThreadEach`, `ListComplete`, `FreeCounted`, `NoneMissed` |
| `PageMap_proof!TreeInvariant` | `ConstantsOK /\ Spec => []TInv` |
| `PageMap_proof!Growth` | `ConstantsOK /\ Spec => TreeGrows` (an action property) |
| `PageMap_proof!TreeIsSound` | `ConstantsOK /\ Spec => []TreeSound` |
| `PageMap_proof!EntriesInvariant` | `ConstantsOK /\ ~REUSE /\ Spec => []EInv` |
| `PageMap_proof!EntriesAreExact`, `ValIsFound` | `ConstantsOK /\ ~REUSE /\ Spec => []...` of `EntriesExact`, `ValFound` |
| `PBCache_proof!Inductive` | `Spec => []IInv` |
| `PBCache_proof!TypeCorrect` | `Spec => []TypeOK` |
| `PBCache_proof!OneWayPerLength` | `Spec => []TagsDistinct` |
| `PBCache_proof!RightLength` | `Spec => []WaysExact` |
| `PBCache_proof!NothingLost` | `Spec => []PlacedOnce` |
| `PBCache_proof!RecentStays` | `Spec => []VictimNotRecent` |
| `MCPages_proof!SizeInvariant` | `SizesOK /\ SizeSpec => []IInv` |
| `MCPages_proof!BlocksFit`, `ClassIsSmallest`, `ReallocIsSafe`, `AlignedAsAsked` | `SizesOK /\ SizeSpec => []...` of `BlockFits`, `SmallestClass`, `ReallocKeeps`, `MemalignAligned` |
| `PageBlocks_proof!InvariantHolds` | `Spec => []IInv`, under the assumptions on the heap |
| `PageBlocks_proof!HeapStaysOK`, `RunsStayIntact`, `ListsStayExact`, `SuperpagesStayListed` | under them, `Spec => []...` of `HeapOK`, `RunsIntact`, `ListsExact`, `SuperpagesListed` |
| `MCPages_proof!LongHeapStaysOK`, `LongRunsStayIntact`, `BothListsStayExact`, `BothSuperpagesStayListed` | `MCSpec => []...` of `LongHeapOK`, `LongRunsIntact`, `BothListsExact`, `BothSuperpagesListed` |
| `SmallBlocks_proof!InvariantHolds` | `Spec => []IInv` |
| `SmallBlocks_proof!TypesHold` | `Spec => []TypeOK` |
| `SmallBlocks_proof!EveryBlockInOnePlace` | `Spec => []BlocksExact` |
| `SmallBlocks_proof!CountersAreExact` | `Spec => []CountersExact` |
| `SmallBlocks_proof!ChunksStayApart` | `Spec => []ChunksApart` |
| `SmallBlocks_proof!PbhListsExact` | `Spec => []PbhListExact` |
| `SmallBlocks_proof!PromiseKept` | `Spec => KeepsPromise` (`BlockPool`) |

The assumptions on the heap are `ConstantsOK`, `RemotePhases \subseteq {"exit"}` and
`LargeAtExit = FALSE` (section 3); for `MCPages` they are its `HeapConstants`, which
TLC evaluates.

**OwnerMark.** `FreedIsEmpty` is not inductive: when `try_to_free_superpage`
releases a superpage, the counts it read are old. `IInv` says why they still
count: what came back cannot go out again without the owner (`BlocksOK`), what
a thread is returning is outside in one page block of the superpage it works on
(`RunsOK`), whoever works on a superpage owns it (`WorkOK`), and the page blocks
the walk has passed are free unless one was counted (`PassedOK`). The proof has
one lemma per part and one step per action; the store buffers do not matter to
any of them. `NoStranded` needs stores in order (`DrainedOK`) and `MarkOK`: while
the exiting thread believes that a block is outside, one is, or the mark that
fails its cas64 is set, or the thread that will set it is about to and will then
see the superpage dead; `SCInv` is all of this. `Implements` takes the parts of
`IInv` a step at a time: handouts, releases and adoptions are steps of
`Superpages`, returns give back, and all that moves only marks, hazard pointers
and program counters is a stutter.

**FreeSpList.** `ListIntact` speaks of what can be reached, which an induction
cannot use well. `IInv` is local: list and chains are closed under `next` (but for
the link a thread writes before its cas), nothing is pointed to twice, the head
not at all, and a thread works on what is its own. From it every step is a step
of `Superpages` or a stutter. For `ListIntact` there is a second invariant on top,
`Ranked`: some function numbers what is on the list so that `next` leads from a
number to the one below, and likewise each chain a thread popped. A push gives the
new superpage the number after the highest, a pop leaves all as they are. A path
along falling numbers ends and meets nothing twice, which is `ListIntact`.
`LenExact` is its own invariant, since each access to the list and its access to
the counter move one thread into or out of `Counting`; sets have sizes because
there are finitely many threads and superpages (`FiniteAssumption`).

**HazardPtr.** `IInv` is in five parts. `PagesFit`: a thread maps one page at most,
so there are as many hazard pointers as ids allow. `OwnOK` and `Apart`: who has
one, from the `xchg` that takes it to the one that gives it back, has it alone; an
unlinked page is its thread's. `Ordered`: the list is numbered as in `FreeSpList`,
and its pages never leave it. `Ahead`: a hazard pointer that was set before the
scan began has no higher number than the one the scan is at, and as pages are only
pushed in front, the scan still comes to it: `NoneMissed`. `FreeCounted` is a count
of the inactive ones less what threads have taken and not yet counted.
`MCLists` checks an instance of the module, so its theorems are carried over.

**PageMap.** `TInv` says that each node and leaf has one place in the tree
(`TreeOK`), that what a thread mapped for the tree is empty and its own until its
cas (`NewOK`), and how far a thread has come with the pages of its block
(`ThreadOK`): at `Set` all leaves are there. `TreeGrows` follows from each step:
only a `NULL` slot is ever filled, and what is unmapped is what lost the cas.
`EInv` needs `TInv` and `REUSE = FALSE`: blocks in use and what threads still hold
(`Kept`, which has the page of a huge block until its entry is cleared) do not
overlap, and every entry is what its block or its thread says (`EntriesOK`). The
hypothesis is the assumption on the kernel of section 3; run `PageMap_reuse` shows
that `ValFound` is false without it.

**PBCache.** The three properties and the types are inductive together: a way's
length promise survives an eviction only if no page block is in two ways
(`PlacedOnce`), and a new tag is unique only if the code took the miss branch
because no way had it (`TagsDistinct`). The tables matter only in that a victim
is a way. `VictimNotRecent` is about the tables alone: read as a tree of seven bits
(`VictimChosen`), the first table follows the bits and the second turns those on
the way to the used way elsewhere and leaves the rest (`UsedPoints`). The one assumption is that lengths are 1 to 126: 0 is the tag of an
empty way.

**SizeMap.** Each call starts anew, so the invariant is what a call establishes, and
the work is in the lemmas on the tables: every entry of `class_array` holds the sizes
that index to it and the class below does not (`EntryFits`, `SmallerTooSmall`, a case
per entry), block size and page length of each class leave the last block inside its
page block (`SmallRoom`), and the alignment that `get_alignment` promises divides
every block size of the class (`PromiseDivides`) but for the class of 8 bytes, for
which it does not (section 4), and which `Served` leaves out. The four paths of
`posix_memalign` are one lemma each. `SizesOK` bounds sizes, products and
alignments by 2^30: `get_alignment` takes a `uint32_t`, and what wraps is section 6.

**SmallBlocks.** The properties follow links, count what they meet, and say of two
lists that they share nothing; none of them survives a step on its own. `IInv` says
it with two functions: a place for each block (a thread's list or chunk of a class,
the rest of a list or the run it is returning, a page block's free list, its chunk or
its remote list, the program, or nowhere) and a rank, the blocks from it to the end
of its list. `Placed` says that such functions exist and that each head, link and
counter is what they make it: a list's head has the counter as its rank, each link
leads to the same place and one rank down, and at a place no rank occurs twice. That
is local, so a step has to be followed only at the places it moves blocks between
(`Kept`), with one lemma per kind of move: a block popped (`SegPopped`) or pushed, a run split off
or joined on, a list renamed, a chunk cut or shortened; the actions compose them. For a run that
waits in `remote_free` its last link is what the thread read of the packed word
(`Hands`), so a cas64 that succeeds finds the link right, also after the list was
taken and refilled: the word has the head and the count, and these two describe it
whole. The rest of `IInv` is what the moves need to know: blank headers of free page
blocks (`PbhOK`), program counters and what goes with them (`PhaseOK`, `DoneOK`), the
class lists (`PbhListOK`), and that a chunk is made of whole lines and has its page
block to itself (`ChunkOK`), which is what `bump_alloc` and `pbh_add_unused` take
for granted. From the ranks follow the counters, by counting (`CountersAreExact`),
from the places that nothing is in two (`EveryBlockInOnePlace`), and from both that
every step is one of `BlockPool` or a stutter (`PromiseKept`). TLC cannot check
`Placed`, which would have it try all functions; it checks all that is derived from it.
`ConstantsAssumption` asks that there are finitely many page blocks, that NULL and
`DEAD_OWNER` are no threads, and that a page block's blocks fill its cache lines, as
the tables of the code have it.

**PageBlocks.** `IInv` says of each superpage (`SpInv`) that the headers that the
pagemap knows tile it, each page of a tile leads to its header, and none is as long
as the superpage (`Tiled`, `Short`); that a run handed out is a page block in use of
that length (`Runs`); that its remote list holds different large page blocks that
are still in use but not handed out, and only while its owner exits (`Remotes`); and
that an orphan has a small page block in use and none that is whole (`Orphaned`). Of
each thread it says that its lists are rings: the lists by length of its free page
blocks, the class list of the small ones, exactly these if it is live, and some of
them while it exits (`ListsOK`); and that `sp_list` is its superpages, each once
(`ListedOK`). The last two are what makes an exit safe: a header that leaves a ring
must be in a superpage of the thread that changes it, which the ring's set tells.
What the properties of section 3 need is thereby all in `IInv`, and it is inductive
only as a whole: a coalescing keeps the tiling because free neighbours are found
through the pagemap, and it keeps the rings because what it finds is on one.

The proof goes from pointers to calls. Rings come first: `Insert` and `Unlink` keep
one, and add or remove one header (`Inserted`, `Unlinked`). Then tilings: two
adjacent tiles become one, one becomes two (`Joined`, `Split`). A call is
then a chain of facts on whole heaps (`Coalesced`, `FreedAll`, `FreedSome`,
`GotBlock`, `Handed`), and an action is a heap step at one superpage of one thread
while all others stand `Still`. The loops of the code (the remote list, the walks of
adoption and exit) are recursive functions of the model. The prover has no induction
with an operator as a parameter, so each loop has a lemma that its function exists
(`WalkExists`, `GotExists`, `TakenExists`, `CleanedExists`, `TrackExists`) and one
that an invariant holds along it (`WalkTiles`, `GotAll`, `TakenAll`, `CleanedOK`,
`TrackInRing`), both by a least counterexample in `Nat` (`Least`).

Only model-checked: liveness (`ExitTerminates`, `OrphanAdopted`), since fairness and
`ENABLED` are out of the prover's reach. The runs that expect a violation prove
nothing more than that.

## 6. What is not modelled

The page block cache on top of `PageBlocks` instead of beside it; several size
classes at once in `PageBlocks`, and an adoption by a thread that is itself
exiting there (`SmallBlocks` has both, without coalescing); allocation after a
thread's heap was cleared; calls before a thread has its id, in the shared
library; products in `calloc` and sums in `posix_memalign` that wrap; a failing
`mmap`, which ends the process; more than one superpage in a hazard pointer, which
the allocator never has; page and block coloring, which the build leaves out;
statistics, debug output, the C++ operators and `sf_malloc_init`, which compose
the above or have no state that matters. Thread ids are not reused (`g_id` only
grows), and each thread has one before its first call, as in the static build.
The second unallocated chunk that `pbh_add_unused` provides for (829-850) is not
in `SmallBlocks`: `ChunksApart` shows that it does not come to be.

## 7. What is open

All parts of the allocator that have state of interest are modelled and checked; each
safety property of each module is proved. What could be added, most important first:

1. `PageBlocks`: adoption while exiting, and allocation after `tlh_clear`.
2. The page block cache on top of `PageBlocks`, as a refinement: `PBCache`'s `PbAlloc`
   and `Returned` are its `PbAlloc` and `PbFree`.

Runs are kept few, which is why modules that share no state are checked side by
side.
