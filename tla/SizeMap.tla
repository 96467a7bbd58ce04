------------------------------ MODULE SizeMap ------------------------------
(***************************************************************************)
(* Which size class serves a request, and where in memory its block starts *)
(* and ends: the size map, malloc, calloc, realloc, free, posix_memalign   *)
(* and its callers memalign and valloc (src/sf_malloc.c).  One block at a  *)
(* time; it is any block of a page block of the class.  Addresses are      *)
(* counted from a multiple of the largest alignment.                       *)
(***************************************************************************)
EXTENDS Integers, Sequences, FiniteSets, FiniteSetsExt

CONSTANTS
  Sizes,       \* the sizes asked for: natural numbers
  Alignments,  \* the alignments asked for: powers of two and others, not 0
  Counts,      \* calloc's nmemb; no product nmemb * size wraps
  Resized      \* the sizes calloc is given and realloc goes between

PAGE_SIZE        == 4096
MAX_SIZE         == 8 * PAGE_SIZE
ALIGNMENT        == 16
NUM_CLASSES      == 60
MAX_SMALL_SIZE   == 1024
NUM_PAGE_CLASSES == 126

\* By class, from class 0 on: the last entry of class_array that holds it ...
ClassArrayEnds ==
  <<1, 2, 4, 6, 8, 10, 12, 14, 16, 18, 20, 22, 24, 26, 28, 30, 32, 36, 40, 44,
    48, 56, 64, 72, 80, 88, 96, 104, 128, 129, 130, 131, 132, 133, 136, 138,
    140, 144, 146, 152, 154, 156, 160, 168, 172, 174, 184, 188, 200, 202, 216,
    230, 248, 258, 280, 286, 312, 314, 344, 376>>

\* ... and what info[] holds.
ClassToSize ==
  <<8, 16, 32, 48, 64, 80, 96, 112, 128, 144, 160, 176, 192, 208, 224, 240,
    256, 288, 320, 352, 384, 448, 512, 576, 640, 704, 768, 832, 1024, 1152,
    1280, 1408, 1536, 1664, 2048, 2304, 2560, 3072, 3328, 4096, 4352, 4608,
    5120, 6144, 6656, 6912, 8192, 8704, 10240, 10496, 12288, 14080, 16384,
    17664, 20480, 21248, 24576, 24832, 28672, 32768>>

ClassToPages ==
  <<1, 1, 1, 1, 1, 1, 1, 1, 1, 1, 1, 1, 1, 1, 1, 1, 1, 1, 1, 1, 1, 1, 1, 1, 1,
    2, 1, 2, 1, 2, 1, 3, 2, 3, 1, 3, 2, 3, 5, 1, 6, 5, 4, 3, 5, 7, 2, 7, 5, 8,
    3, 7, 4, 9, 5, 11, 6, 13, 7, 8>>

NumBlocksPerPbh ==
  <<512, 256, 128, 85, 64, 51, 42, 36, 32, 28, 25, 23, 21, 19, 18, 17, 16, 14,
    12, 11, 10, 9, 8, 7, 6, 11, 5, 9, 4, 7, 3, 8, 5, 7, 2, 5, 3, 4, 6, 1, 5, 4,
    3, 2, 3, 4, 1, 3, 2, 3, 1, 2, 1, 2, 1, 2, 1, 2, 1, 1>>

Class == 0 .. NUM_CLASSES - 1
get_size_for_class(cl)   == ClassToSize[cl + 1]
get_pages_for_class(cl)  == ClassToPages[cl + 1]
get_blocks_for_class(cl) == NumBlocksPerPbh[cl + 1]

\* Mutant of get_classindex: the last byte of a granule counts as the next.
ClassIndexRoundsDown(s) ==
  IF s > MAX_SMALL_SIZE THEN (s + 126 + 120 * 128) \div 128 ELSE (s + 6) \div 8

\* Mutant of get_classindex: exact multiples go one granule up.
ClassIndexRoundsUp(s) ==
  IF s > MAX_SMALL_SIZE THEN (s + 128 + 120 * 128) \div 128 ELSE (s + 8) \div 8

get_classindex(s) ==
  IF s > MAX_SMALL_SIZE THEN (s + 127 + 120 * 128) \div 128 ELSE (s + 7) \div 8

get_sizeclass(s) ==
  CHOOSE cl \in Class :
    /\ get_classindex(s) <= ClassArrayEnds[cl + 1]
    /\ cl > 0 => ClassArrayEnds[cl] < get_classindex(s)

Pow2[k \in 0 .. 30] == IF k = 0 THEN 1 ELSE 2 * Pow2[k - 1]

\* Sizes that get_alignment's uint32_t holds, alignments it may promise, and no
\* sum or product that wraps.
SizesOK ==
  /\ Sizes \cup Resized \subseteq 0 .. Pow2[30] /\ Counts \subseteq Nat
  /\ \A nmemb \in Counts, size \in Resized : nmemb * size <= Pow2[30]
  /\ Alignments \subseteq 1 .. Pow2[30]

get_logfloor(n) == Max({k \in 0 .. 30 : Pow2[k] <= n})

\* Mutant of get_alignment: the alignment is not capped.
AlignmentUncapped(size) ==
  CASE size > MAX_SIZE -> PAGE_SIZE
    [] size \in 128 .. MAX_SIZE -> Pow2[get_logfloor(size)] \div 8
    [] OTHER -> ALIGNMENT

get_alignment(size) ==
  CASE size > MAX_SIZE           -> PAGE_SIZE
    [] size \in 2048 .. MAX_SIZE -> 256
    [] size \in 128 .. 2047      -> Pow2[get_logfloor(size)] \div 8
    [] size < 128                -> ALIGNMENT

GET_PAGE_LEN(s) == (s + PAGE_SIZE - 1) \div PAGE_SIZE

----------------------------------------------------------------------------
(* What a call returns: a block [start, end) in the run of pages           *)
(* [first, last) that the allocator keeps for it, all in bytes; or none.   *)

VARIABLES
  req,  \* the size and the alignment asked for; alignment 1 is malloc
  out,  \* "idle", or how the call ended: "block", "null" or "EINVAL"
  ret,  \* the block, if there is one
  old   \* of the block last given to realloc: the size it had been asked with,
        \* old_size, and the bytes of it that the new block starts with

sizeVars == <<req, out, ret, old>>

Block(start, end, first, last) ==
  [start |-> start, end |-> end, first |-> first, last |-> last]

NoBlock == Block(0, 0, 0, 0)
NoOld   == [size |-> 0, old_size |-> 0, kept |-> 0]

\* small_malloc: the k-th block of a page block, which starts on a page.
SmallBlocks(cl) ==
  LET size == get_size_for_class(cl)
      last == get_blocks_for_class(cl) - 1
  IN {Block(k * size, (k + 1) * size, 0, get_pages_for_class(cl) * PAGE_SIZE) :
        k \in {0, 1, last} \cap 0 .. last}

\* large_malloc and huge_malloc without more: whole pages.
PageRun(pages) == {Block(0, pages * PAGE_SIZE, 0, pages * PAGE_SIZE)}

\* The blocks malloc may return.
Malloced(size) ==
  IF size <= MAX_SIZE THEN SmallBlocks(get_sizeclass(size))
  ELSE PageRun(GET_PAGE_LEN(size))

\* The classes from cl on whose blocks are all aligned.
AlignedClasses(size, alignment) ==
  {cl \in get_sizeclass(size) .. NUM_CLASSES - 1 :
     get_size_for_class(cl) % alignment = 0}

\* Extra pages of which an aligned portion is kept; new_blk may be any page.
Carved(size, alignment) ==
  LET end(p) == (p + GET_PAGE_LEN(size + alignment)) * PAGE_SIZE
      ret_blk(p) == ((p * PAGE_SIZE + alignment - 1) \div alignment) * alignment
  IN {Block(ret_blk(p), end(p), ret_blk(p), end(p)) :
        p \in 0 .. alignment \div PAGE_SIZE - 1}

IsPowerOf2(n) == \E k \in 0 .. 30 : n = Pow2[k]

PosixMemalign(alignment, size) ==
  IF alignment <= get_alignment(size) THEN Malloced(size)
  ELSE IF /\ size <= MAX_SIZE /\ alignment < PAGE_SIZE
          /\ AlignedClasses(size, alignment) # {}
  THEN Malloced(get_size_for_class(Min(AlignedClasses(size, alignment))))
  ELSE IF alignment <= PAGE_SIZE THEN PageRun(GET_PAGE_LEN(size))
  ELSE Carved(size, alignment)

SizeInit ==
  /\ req = [size |-> 0, alignment |-> 1]
  /\ out = "idle"
  /\ ret = NoBlock /\ old = NoOld

malloc ==
  /\ out = "idle"
  /\ \E size \in Sizes :
       /\ req' = [size |-> size, alignment |-> 1]
       /\ out' = "block"
       /\ ret' \in Malloced(size)
  /\ UNCHANGED old

calloc ==
  /\ out = "idle"
  /\ \E nmemb \in Counts, size \in Resized :
       /\ req' = [size |-> nmemb * size, alignment |-> 1]
       /\ out' = IF nmemb * size = 0 THEN "null" ELSE "block"
       /\ ret' \in IF out' = "block" THEN Malloced(nmemb * size) ELSE {NoBlock}
  /\ UNCHANGED old

posix_memalign ==
  /\ out = "idle"
  /\ \E size \in Sizes, alignment \in Alignments :
       /\ req' = [size |-> size, alignment |-> alignment]
       /\ out' = CASE size = 0                                -> "null"
                   [] size > 0 /\ ~IsPowerOf2(alignment)      -> "EINVAL"
                   [] size > 0 /\ IsPowerOf2(alignment)       -> "block"
       /\ ret' \in IF out' = "block" THEN PosixMemalign(alignment, size)
                   ELSE {NoBlock}
  /\ UNCHANGED old

\* The size realloc finds: the class's, the pages of a page block, or the size
\* of a huge block, which posix_memalign corrects when it carves one.
OldSize == ret.end - ret.start

\* Mutant of CopiedBytes: the comparison the wrong way round.
CopiedMost(old_size, size) == IF old_size < size THEN size ELSE old_size

CopiedBytes(old_size, size) == IF old_size < size THEN old_size ELSE size

realloc ==
  /\ out = "block" /\ req.size \in Resized
  /\ \E size \in Resized \ {0} :
       IF size > OldSize \/ size < OldSize \div 2
       THEN /\ req' = [size |-> size, alignment |-> 1]
            /\ ret' \in Malloced(size)
            /\ old' = [size |-> req.size, old_size |-> OldSize,
                       kept |-> CopiedBytes(OldSize, size)]
       ELSE /\ req' = [req EXCEPT !.size = size]
            /\ old' = [size |-> req.size, old_size |-> OldSize,
                       kept |-> OldSize]
            /\ UNCHANGED ret
  /\ UNCHANGED out

\* The program is done with what it got: free, or realloc to size 0.
free ==
  /\ out # "idle"
  /\ req' = [size |-> 0, alignment |-> 1]
  /\ out' = "idle"
  /\ ret' = NoBlock /\ old' = NoOld

SizeNext == malloc \/ calloc \/ posix_memalign \/ realloc \/ free

SizeSpec == SizeInit /\ [][SizeNext]_sizeVars

----------------------------------------------------------------------------
(* Properties                                                              *)

IsBlock == out = "block"

\* A block is as large as was asked for and lies in its page block, so two
\* blocks of a page block never overlap and none reaches the next one.
BlockFits ==
  IsBlock =>
    /\ ret.end - ret.start >= req.size
    /\ ret.first <= ret.start /\ ret.end <= ret.last

\* realloc, in place or not, leaves the contents as they were as far as both
\* the old and the new size go, and never copies from beyond the old block or
\* to beyond the new one.
ReallocKeeps ==
  (IsBlock /\ old # NoOld) =>
    /\ old.kept >= Min({old.size, req.size})
    /\ old.kept <= old.old_size /\ old.kept <= OldSize

\* malloc takes the smallest class that fits: no entry of class_array, on
\* either side of its change of scale, points a class too far.
SmallestClass ==
  (IsBlock /\ old = NoOld /\ req.alignment = 1 /\ req.size <= MAX_SIZE) =>
    \A cl \in Class : get_size_for_class(cl) < ret.end - ret.start =>
                        get_size_for_class(cl) < req.size

\* The block is aligned as asked, by whichever path of posix_memalign it was
\* found: what get_alignment promises of malloc, the first class that is a
\* multiple, a page, or the aligned part of a larger mapping.  Blocks of the
\* class of 8 bytes are less aligned than get_alignment says.
MemalignAligned ==
  (IsBlock /\ req.size >= ALIGNMENT) => ret.start % req.alignment = 0
=============================================================================
