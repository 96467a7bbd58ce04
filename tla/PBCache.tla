------------------------------ MODULE PBCache ------------------------------
(***************************************************************************)
(* The page block cache of a thread (large_malloc, large_free, tlh_clear   *)
(* and pb_cache_return of src/sf_malloc.c): one list of large page blocks  *)
(* per way, a tag that says of what length they are, and the bits of a     *)
(* pseudo-LRU tree.                                                        *)
(*                                                                         *)
(* A page block in the cache keeps its header and pagemap entries, so that *)
(* module PageBlocks, below this one, counts it as in use; pb_alloc,       *)
(* pb_free and pb_remote_free are what take it from there and give it      *)
(* back.  Other threads hand page blocks over and take them away.          *)
(***************************************************************************)
EXTENDS Integers, Sequences, FiniteSets

CONSTANTS
  PageBlock,
  PageLen      \* the lengths asked for, in pages

ASSUME PageLenAssumption == PageLen \subseteq 1 .. 126

VARIABLES
  data,     \* block[w].data: the list of page blocks of a way
  length,   \* block[w].length
  tag,      \* tag.e[w]: a length, or 0
  state,    \* the bits of the LRU state that are set
  len,      \* pbh->length of a page block, 0 while it is not in use
  out       \* the page blocks that the program, or another thread, has

vars == <<data, length, tag, state, len, out>>

NUM_PB_CACHE_WAY == 8
Way == 0 .. NUM_PB_CACHE_WAY - 1

\* By LRU state, from 0 on.
g_lru_table ==
  <<0, 4, 2, 4, 0, 6, 2, 6, 1, 4, 2, 4, 1, 6, 2, 6,
    0, 4, 3, 4, 0, 6, 3, 6, 1, 4, 3, 4, 1, 6, 3, 6,
    0, 5, 2, 5, 0, 6, 2, 6, 1, 5, 2, 5, 1, 6, 2, 6,
    0, 5, 3, 5, 0, 6, 3, 6, 1, 5, 3, 5, 1, 6, 3, 6,
    0, 4, 2, 4, 0, 7, 2, 7, 1, 4, 2, 4, 1, 7, 2, 7,
    0, 4, 3, 4, 0, 7, 3, 7, 1, 4, 3, 4, 1, 7, 3, 7,
    0, 5, 2, 5, 0, 7, 2, 7, 1, 5, 2, 5, 1, 7, 2, 7,
    0, 5, 3, 5, 0, 7, 3, 7, 1, 5, 3, 5, 1, 7, 3, 7>>

\* By way: the bits that the mask keeps, and the bits that are set then.
g_way_table ==
  <<[mask |-> {2, 4, 5, 6}, set_bit |-> {0, 1, 3}],
    [mask |-> {2, 4, 5, 6}, set_bit |-> {0, 1}],
    [mask |-> {2, 3, 5, 6}, set_bit |-> {0, 4}],
    [mask |-> {2, 3, 5, 6}, set_bit |-> {0}],
    [mask |-> {1, 3, 4, 6}, set_bit |-> {2, 5}],
    [mask |-> {1, 3, 4, 6}, set_bit |-> {2}],
    [mask |-> {1, 3, 4, 5}, set_bit |-> {6}],
    [mask |-> {1, 3, 4, 5}, set_bit |-> {}]>>

Bits == 0 .. 6
Value(S) == LET bit(i) == IF i \in S THEN 2 ^ i ELSE 0
            IN bit(0) + bit(1) + bit(2) + bit(3) + bit(4) + bit(5) + bit(6)

\* Mutant of Victim: the table is read from its second entry on.
VictimOffByOne(S) == g_lru_table[((Value(S) + 1) % 128) + 1]

Victim(S) == g_lru_table[Value(S) + 1]

\* The LRU state after a use of way w.
Used(S, w) == (S \cap g_way_table[w + 1].mask) \cup g_way_table[w + 1].set_bit

\* Mutant of Hits: a way without page blocks does not count.
HitsFull(l) == {w \in Way : tag[w] = l /\ data[w] # <<>>}

\* The ways whose tag compares equal, and the one get_cache_hit_index takes.
Hits(l) == {w \in Way : tag[w] = l}
HitIndex(l) == LET H == Hits(l) IN CHOOSE w \in H : \A v \in H : w <= v

Elems(s) == {s[i] : i \in 1 .. Len(s)}
NoRepeat(s) == \A i, j \in 1 .. Len(s) : s[i] = s[j] => i = j
InWay(w) == Elems(data[w])

\* Mutant of Returned: only the first page block of the list goes back.
ReturnedHead(w) ==
  [b \in PageBlock |->
     IF data[w] # <<>> /\ b = Head(data[w]) THEN 0 ELSE len[b]]

\* pb_cache_return: every page block of the way goes back, to the thread's own
\* heap or to the owner of its superpage.
Returned(w) == [b \in PageBlock |-> IF b \in InWay(w) THEN 0 ELSE len[b]]

\* pb_alloc: a page block that is not in use, once L are the lengths.
PbAlloc(L, l) ==
  \E b \in PageBlock : /\ L[b] = 0
                       /\ len' = [L EXCEPT ![b] = l]
                       /\ out' = out \cup {b}

TypeOK ==
  /\ data \in [Way -> Seq(PageBlock)]
  /\ length \in [Way -> Nat]
  /\ tag \in [Way -> PageLen \cup {0}]
  /\ state \subseteq Bits
  /\ len \in [PageBlock -> PageLen \cup {0}]
  /\ out \subseteq PageBlock

Init ==
  /\ data = [w \in Way |-> <<>>]
  /\ length = [w \in Way |-> 0]
  /\ tag = [w \in Way |-> 0]
  /\ state = {}
  /\ len = [b \in PageBlock |-> 0]
  /\ out = {}

----------------------------------------------------------------------------
(* large_malloc                                                            *)

\* Mutant of MallocHit: the counter is left alone.
MallocHitUncounted(l) ==
  /\ Hits(l) # {}
  /\ LET w == HitIndex(l)
     IN /\ state' = Used(state, w)
        /\ data[w] # <<>>
        /\ data' = [data EXCEPT ![w] = Tail(data[w])]
        /\ out' = out \cup {Head(data[w])}
  /\ UNCHANGED <<tag, len, length>>

MallocHit(l) ==
  /\ Hits(l) # {}
  /\ LET w == HitIndex(l)
     IN /\ state' = Used(state, w)
        /\ data[w] # <<>>
        /\ data' = [data EXCEPT ![w] = Tail(data[w])]
        /\ length' = [length EXCEPT ![w] = length[w] - 1]
        /\ out' = out \cup {Head(data[w])}
  /\ UNCHANGED <<tag, len>>

\* Mutant of MallocHitEmpty: the counter counts below zero.
MallocHitEmptyCounted(l) ==
  /\ Hits(l) # {}
  /\ data[HitIndex(l)] = <<>>
  /\ state' = Used(state, HitIndex(l))
  /\ PbAlloc(len, l)
  /\ length' = [length EXCEPT ![HitIndex(l)] = length[HitIndex(l)] - 1]
  /\ UNCHANGED <<data, tag>>

\* The way has the right tag, but nothing is left in it.
MallocHitEmpty(l) ==
  /\ Hits(l) # {}
  /\ data[HitIndex(l)] = <<>>
  /\ state' = Used(state, HitIndex(l))
  /\ PbAlloc(len, l)
  /\ UNCHANGED <<data, length, tag>>

\* The victim is emptied, and its tag changed, for page blocks to come.
MallocMiss(l) ==
  /\ Hits(l) = {}
  /\ LET w == Victim(state)
     IN /\ state' = Used(state, w)
        /\ IF data[w] # <<>>
           THEN /\ data' = [data EXCEPT ![w] = <<>>]
                /\ length' = [length EXCEPT ![w] = 0]
           ELSE UNCHANGED <<data, length>>
        /\ tag' = [tag EXCEPT ![w] = l]
        /\ PbAlloc(Returned(w), l)

LargeMalloc(l) == MallocHit(l) \/ MallocHitEmpty(l) \/ MallocMiss(l)

----------------------------------------------------------------------------
(* large_free, and the end of the thread                                   *)

\* Two page blocks of a length are kept; a third one goes back at once.
FreeHit(b) ==
  /\ Hits(len[b]) # {}
  /\ LET w == HitIndex(len[b])
     IN /\ state' = Used(state, w)
        /\ IF length[w] < 2
           THEN /\ data' = [data EXCEPT ![w] = <<b>> \o data[w]]
                /\ length' = [length EXCEPT ![w] = length[w] + 1]
                /\ UNCHANGED len
           ELSE /\ len' = [len EXCEPT ![b] = 0]
                /\ UNCHANGED <<data, length>>
  /\ UNCHANGED tag

FreeMiss(b) ==
  /\ Hits(len[b]) = {}
  /\ LET w == Victim(state)
     IN /\ state' = Used(state, w)
        /\ len' = Returned(w)
        /\ data' = [data EXCEPT ![w] = <<b>>]
        /\ length' = [length EXCEPT ![w] = 1]
        /\ tag' = [tag EXCEPT ![w] = len[b]]

LargeFree(b) ==
  /\ b \in out
  /\ out' = out \ {b}
  /\ FreeHit(b) \/ FreeMiss(b)

\* tlh_clear empties every way; the tags and the LRU state stay, and are used
\* if the thread allocates again.
Clear ==
  /\ \E w \in Way : data[w] # <<>>
  /\ len' = [b \in PageBlock |->
               IF \E w \in Way : b \in InWay(w) THEN 0 ELSE len[b]]
  /\ data' = [w \in Way |-> <<>>]
  /\ length' = [w \in Way |-> 0]
  /\ UNCHANGED <<tag, state, out>>

\* Another thread allocates a page block, which the program may free here ...
MallocElsewhere(l) ==
  /\ PbAlloc(len, l)
  /\ UNCHANGED <<data, length, tag, state>>

\* ... or frees one, which goes back at once or when it leaves that cache.
FreeElsewhere(b) ==
  /\ b \in out
  /\ out' = out \ {b}
  /\ len' = [len EXCEPT ![b] = 0]
  /\ UNCHANGED <<data, length, tag, state>>

Next ==
  \/ \E l \in PageLen : LargeMalloc(l) \/ MallocElsewhere(l)
  \/ \E b \in PageBlock : LargeFree(b) \/ FreeElsewhere(b)
  \/ Clear

Spec == Init /\ [][Next]_vars

----------------------------------------------------------------------------
(* Properties                                                              *)

\* No two ways are for the same length: pcmpeqb finds one way at most, so no
\* page block is out of reach behind a way that compares equal first.
TagsDistinct == \A v, w \in Way : tag[v] = tag[w] /\ tag[v] # 0 => v = w

\* What pcache_check_sanity checks: the page blocks of a way have the length
\* its tag promises, so that large_malloc gives what was asked for, and the
\* counter counts them, so that a way never holds a third.
WaysExact ==
  \A w \in Way :
    /\ length[w] = Len(data[w]) /\ length[w] <= 2
    /\ \A b \in InWay(w) : len[b] = tag[w]

\* No page block is lost or given out twice, whatever is evicted and however
\* the thread ends: one that is in use is outside or in one place of one way.
PlacedOnce ==
  /\ \A b \in PageBlock :
       len[b] # 0 <=> b \in out \/ \E w \in Way : b \in InWay(w)
  /\ \A w \in Way : InWay(w) \cap out = {}
  /\ \A v, w \in Way : v # w => InWay(v) \cap InWay(w) = {}
  /\ \A w \in Way : NoRepeat(data[w])

IInv == TypeOK /\ TagsDistinct /\ WaysExact /\ PlacedOnce

\* The tables are a pseudo-LRU: whatever the last three calls use, none of the
\* ways they used is the one that the next miss empties.
KeepsRecent ==
  {S \in {T : T \in SUBSET Bits} :
     \A u, v, w \in Way :
       Victim(Used(Used(Used(S, u), v), w)) \notin {u, v, w}}

VictimNotRecent == state \in KeepsRecent
=============================================================================
