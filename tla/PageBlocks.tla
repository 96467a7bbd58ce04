---------------------------- MODULE PageBlocks -----------------------------
(***************************************************************************)
(* Page blocks: how superpages are cut into runs of pages and put together *)
(* again (the sph_, pbh_, pb_ and tlh_ functions of src/sf_malloc.c).      *)
(*                                                                         *)
(* The page block headers are the code's, with their ring pointers, as are *)
(* the pagemap and the lists' heads.  A header is named by the page it     *)
(* describes, which is what pbh_alloc computes.  One action is one call,   *)
(* or one iteration of the loops of a thread's exit; how calls of several  *)
(* threads interleave on one superpage is OwnerMark's subject.  The blocks *)
(* of a small page block are not told apart: it is whole when all of them  *)
(* are in its counters.                                                    *)
(***************************************************************************)
EXTENDS Integers, Sequences, FiniteSets, SequencesExt

CONSTANTS
  Thread, Superpage,
  NULL,
  SUPERPAGE_LEN,  \* pages of a superpage
  SmallLen,       \* pages of a small page block
  LargeLens,      \* pages of the large ones
  RemotePhases,   \* in which phases of its superpage's owner another thread
                  \* may free a large block
  LargeAtExit     \* a thread may leave large blocks, and nothing else, in a
                  \* superpage when it exits

\* What the program's constants are like: a page block leaves room for another.
ConstantsOK ==
  /\ NULL \notin Thread /\ "dead" \notin Thread \cup {NULL}
  /\ NULL \notin Superpage \X Nat /\ IsFiniteSet(Superpage)
  /\ SUPERPAGE_LEN \in Nat /\ SUPERPAGE_LEN > 1
  /\ LargeLens \cup {SmallLen} \subseteq 1 .. SUPERPAGE_LEN - 1
  /\ RemotePhases \subseteq {"live", "exit"}

VARIABLES
  owner,           \* of each superpage: a thread, "dead" (DEAD_OWNER), or
                   \* NULL: in the pool of free superpages or unmapped
  mem,             \* the page block headers
  pagemap,         \* the header of each page, or NULL
  free_pb_list,    \* of each thread, by length
  pbh_list,        \* of each thread: its small page blocks
  sp_list,         \* of each thread: its superpages
  remote_pb_list,  \* of each superpage
  phase,           \* of each thread: "live" or "exit"
  run              \* the pages of each page block that is in use, else 0

vars == <<owner, mem, pagemap, free_pb_list, pbh_list, sp_list,
          remote_pb_list, phase, run>>

SpPage == Superpage \X (1 .. SUPERPAGE_LEN)
Ptr  == SpPage \cup {NULL}
Lens == 1 .. SUPERPAGE_LEN

\* The array free_pb_list has SUPERPAGE_LEN - 1 entries.  An access to entry
\* SUPERPAGE_LEN is out of its bounds.
NUM_PAGE_CLASSES == SUPERPAGE_LEN - 1

Header == [length : 0 .. SUPERPAGE_LEN, free : BOOLEAN, large : BOOLEAN,
           whole : BOOLEAN, next : Ptr, prev : Ptr]

\* What memset leaves.
Zeroed == [length |-> 0, free |-> TRUE, large |-> FALSE, whole |-> FALSE,
           next |-> NULL, prev |-> NULL]

\* The types of the variables.
TypeOK ==
  /\ owner \in [Superpage -> Thread \cup {"dead", NULL}]
  /\ mem \in [SpPage -> Header]
  /\ pagemap \in [SpPage -> Ptr]
  /\ free_pb_list \in [Thread -> [Lens -> Ptr]]
  /\ pbh_list \in [Thread -> Ptr]
  /\ sp_list \in [Thread -> Seq(Superpage)]
  /\ remote_pb_list \in [Superpage -> Seq(SpPage)]
  /\ phase \in [Thread -> {"live", "exit"}]
  /\ run \in [SpPage -> 0 .. NUM_PAGE_CLASSES]

NoPb == [c \in Lens |-> NULL]

Init ==
  /\ owner = [s \in Superpage |-> NULL]
  /\ mem = [p \in SpPage |-> Zeroed]
  /\ pagemap = [p \in SpPage |-> NULL]
  /\ free_pb_list = [t \in Thread |-> NoPb]
  /\ pbh_list = [t \in Thread |-> NULL]
  /\ sp_list = [t \in Thread |-> << >>]
  /\ remote_pb_list = [s \in Superpage |-> << >>]
  /\ phase = [t \in Thread |-> "live"]
  /\ run = [p \in SpPage |-> 0]

----------------------------------------------------------------------------
(* The rings of page block headers: m is the memory, top the list's head.  *)

Insert(m, top, h) ==
  IF top = NULL THEN [m EXCEPT ![h].next = h, ![h].prev = h]
  ELSE LET last == m[top].prev
       IN [m EXCEPT ![h].next = top, ![h].prev = last,
                    ![last].next = h, ![top].prev = h]

Unlink(m, h) ==
  LET n == m[h].next
      p == m[h].prev
  IN IF n = h THEN m
     ELSE [m EXCEPT ![p].next = n, ![n].prev = p, ![h].next = h, ![h].prev = h]

\* The list's head once h is unlinked.
HeadWithout(m, top, h) ==
  IF top # h THEN top ELSE IF m[h].next = h THEN NULL ELSE m[h].next

----------------------------------------------------------------------------
(* A heap is what one thread sees: all headers and the pagemap, and its    *)
(* own free and blk lists.                                                 *)

HeapOf(t) == [mem |-> mem, map |-> pagemap, free |-> free_pb_list[t],
              blk |-> pbh_list[t]]

IsHeapOf(t, S) ==
  /\ mem' = S.mem
  /\ pagemap' = S.map
  /\ free_pb_list' = [free_pb_list EXCEPT ![t] = S.free]
  /\ pbh_list' = [pbh_list EXCEPT ![t] = S.blk]

Pages(h, len) == {<<h[1], i>> : i \in h[2] .. h[2] + len - 1}

SetRange(map, h, len, val) ==
  [p \in SpPage |-> IF p \in Pages(h, len) THEN val ELSE map[p]]

Remapped(S, h) == [S EXCEPT !.map = SetRange(@, h, S.mem[h].length, h)]

ListFree(S, h) ==
  LET len == S.mem[h].length
  IN [S EXCEPT !.mem = Insert(@, S.free[len], h), !.free[len] = h]

UnlistFree(S, h) ==
  LET len == S.mem[h].length
  IN [S EXCEPT !.mem = Unlink(@, h),
               !.free[len] = HeadWithout(S.mem, @, h)]

ListSmall(S, h) == [S EXCEPT !.mem = Insert(@, S.blk, h), !.blk = h]
UnlistSmall(S, h) ==
  [S EXCEPT !.mem = Unlink(@, h), !.blk = HeadWithout(S.mem, @, h)]

\* pbh_field_init
FieldInit(S, h) == [S EXCEPT !.mem[h].free = TRUE, !.mem[h].whole = FALSE]

\* A new header for a free run of pages.
NewFree(S, h, len) ==
  LET fresh == [Zeroed EXCEPT !.length = len]
  IN Remapped(ListFree([S EXCEPT !.mem[h] = fresh], h), h)

\* Mutant of FreeAt: the status of the neighbour is not looked at.
FreeAtAny(S, s, i) == IF i \in Lens THEN S.map[<<s, i>>] ELSE NULL

\* The free page block on a page, if there is one.
FreeAt(S, s, i) ==
  LET h == IF i \in Lens THEN S.map[<<s, i>>] ELSE NULL
  IN IF h # NULL /\ S.mem[h].free THEN h ELSE NULL

FreeBefore(S, h) == FreeAt(S, h[1], h[2] - 1)
FreeAfter(S, h)  == FreeAt(S, h[1], h[2] + S.mem[h].length)

LenOf(S, h) == IF h = NULL THEN 0 ELSE S.mem[h].length
First(prev, h) == IF prev = NULL THEN h ELSE prev

\* h and its free neighbours become one page block.
Join(S, prev, h, next) ==
  [S EXCEPT !.mem[First(prev, h)].length =
     LenOf(S, prev) + LenOf(S, h) + LenOf(S, next)]

\* Mutant of Merge: the pagemap is left alone.
MergeUnmapped(S, h) == Join(S, FreeBefore(S, h), h, FreeAfter(S, h))

\* The pagemap of a page block that fills the superpage is not updated.
Merge(S, h) ==
  LET front == First(FreeBefore(S, h), h)
      J == Join(S, FreeBefore(S, h), h, FreeAfter(S, h))
  IN IF J.mem[front].length = SUPERPAGE_LEN THEN J ELSE Remapped(J, front)

\* sph_get_remote_pbs; pbs is the superpage's remote list.
GetRemotePb(S, pb) ==
  LET h == S.map[pb] IN Merge([S EXCEPT !.mem[h].free = TRUE], h)

GetRemotePbs(S, pbs) ==
  LET after[k \in 0 .. Len(pbs)] ==
        IF k = 0 THEN S ELSE GetRemotePb(after[k - 1], pbs[k])
  IN after[Len(pbs)]

\* Where the walk over the superpage's page blocks is after k of them: from
\* its first header on, the lengths are added up.
Walk(m, s) ==
  LET pos[k \in 0 .. SUPERPAGE_LEN] ==
        IF k = 0 THEN 1
        ELSE LET i == pos[k - 1]
             IN IF i \in Lens THEN i + m[<<s, i>>].length ELSE i
  IN pos

\* The headers it meets.
Chain(m, s) == {<<s, Walk(m, s)[k]>> : k \in 0 .. SUPERPAGE_LEN} \cap SpPage

----------------------------------------------------------------------------
(* pb_alloc                                                                *)

Fitting(S, len) == {c \in len .. NUM_PAGE_CLASSES : S.free[c] # NULL}

\* pb_alloc_from_tlh and pb_split
FromTlh(S, len) ==
  LET c   == CHOOSE d \in Fitting(S, len) : \A e \in Fitting(S, len) : d <= e
      h   == S.free[c]
      pop == [S EXCEPT !.mem = [Unlink(@, h) EXCEPT ![h].free = FALSE],
                       !.free[c] = HeadWithout(S.mem, @, h)]
      cut == [pop EXCEPT !.mem[h].length = len]
      rem == <<h[1], h[2] + len>>
  IN [pb |-> h,
      heap |-> IF c = len THEN pop
               ELSE NewFree(cut, rem, S.mem[h].length - len)]

\* A superpage from the pool or the OS: the first pages are the new block.
FromSuperpage(S, s, len) ==
  LET h     == <<s, 1>>
      fresh == [Zeroed EXCEPT !.length = len, !.free = FALSE]
  IN [pb |-> h,
      heap |-> NewFree(Remapped([S EXCEPT !.mem[h] = fresh], h),
                       <<s, 1 + len>>, SUPERPAGE_LEN - len)]

\* The caller's part: large_malloc sets the size class, small_malloc (case 4)
\* also appends the page block to the list of its class.
HandOut(t, got, large, len) ==
  LET h == got.pb
      S == [got.heap EXCEPT !.mem[h].large = large, !.mem[h].whole = FALSE]
      top == IF S.blk = NULL THEN h ELSE S.blk
  IN /\ IsHeapOf(t, IF large THEN S ELSE [ListSmall(S, h) EXCEPT !.blk = top])
     /\ run' = [run EXCEPT ![h] = len]

Rotated(seq) == Append(Tail(seq), Head(seq))

PbAlloc(t, len, large) ==
  LET S     == HeapOf(t)
      drain == /\ Fitting(S, len) = {}
               /\ sp_list[t] # << >>
               /\ remote_pb_list[Head(sp_list[t])] # << >>
      first == Head(sp_list[t])
      S1    == IF drain THEN GetRemotePbs(S, remote_pb_list[first]) ELSE S
      list  == IF drain THEN Rotated(sp_list[t]) ELSE sp_list[t]
  IN /\ phase[t] = "live"
     /\ remote_pb_list' = IF ~drain THEN remote_pb_list
                          ELSE [remote_pb_list EXCEPT ![first] = << >>]
     /\ \/ /\ Fitting(S1, len) # {}
           /\ HandOut(t, FromTlh(S1, len), large, len)
           /\ sp_list' = [sp_list EXCEPT ![t] = list]
           /\ UNCHANGED owner
        \/ /\ Fitting(S1, len) = {}
           /\ \E s \in Superpage :
                /\ owner[s] = NULL
                /\ owner' = [owner EXCEPT ![s] = t]
                /\ sp_list' = [sp_list EXCEPT ![t] = <<s>> \o list]
                /\ HandOut(t, FromSuperpage(S1, s, len), large, len)
     /\ UNCHANGED phase

LargeMalloc(t) == \E len \in LargeLens : PbAlloc(t, len, TRUE)
SmallMalloc(t) == PbAlloc(t, SmallLen, FALSE)

----------------------------------------------------------------------------
(* Freeing and adopting                                                    *)

\* Mutant of Coalesce: the next page block stays on its list.
CoalesceKeepsNext(S, h) ==
  LET prev == FreeBefore(S, h)
      S1 == IF prev = NULL THEN S ELSE UnlistFree(S, prev)
  IN Merge(S1, h)

\* pb_coalesce: the free neighbours leave their lists.
Coalesce(S, h) ==
  LET prev == FreeBefore(S, h)
      next == FreeAfter(S, h)
      S1 == IF prev = NULL THEN S ELSE UnlistFree(S, prev)
      S2 == IF next = NULL THEN S1 ELSE UnlistFree(S1, next)
  IN Merge(S2, h)

WithoutRuns(H) == [h \in SpPage |-> IF h \in H THEN 0 ELSE run[h]]

\* The superpage is on the list once.
Without(list, s) ==
  IF s \in ToSet(list) THEN RemoveAt(list, CHOOSE i \in DOMAIN list : list[i] = s)
  ELSE list

\* pb_free; list is the thread's superpage list, freed what the call frees.
PbFree(t, S, h, list, freed) ==
  LET s     == h[1]
      C     == Coalesce(S, h)
      front == First(FreeBefore(S, h), h)
  IN /\ \/ /\ C.mem[front].length = SUPERPAGE_LEN
           /\ IsHeapOf(t, [C EXCEPT !.map =
                             SetRange(@, <<s, 1>>, SUPERPAGE_LEN, NULL)])
           /\ owner' = [owner EXCEPT ![s] = NULL]
           /\ sp_list' = [sp_list EXCEPT ![t] = Without(list, s)]
        \/ /\ C.mem[front].length # SUPERPAGE_LEN
           /\ IsHeapOf(t, ListFree(FieldInit(C, front), front))
           /\ owner' = [owner EXCEPT ![s] = t]
           /\ sp_list' = [sp_list EXCEPT ![t] = list]
     /\ run' = WithoutRuns(freed)

\* take_superpage, with the remote list pbs: what is free, or whole, goes on
\* the adopter's free lists, other small page blocks on the list of their
\* class.
Adopted(S, h) ==
  IF S.mem[h].free THEN ListFree(S, h)
  ELSE IF S.mem[h].whole THEN ListFree(FieldInit(S, h), h)
  ELSE IF S.mem[h].large THEN S
  ELSE ListSmall(S, h)

Taken(S, s, pbs) ==
  LET S0    == GetRemotePbs(S, pbs)
      chain == Chain(S0.mem, s)
      after[i \in 0 .. SUPERPAGE_LEN] ==
        IF i = 0 THEN S0
        ELSE IF <<s, i>> \in chain THEN Adopted(after[i - 1], <<s, i>>)
        ELSE after[i - 1]
  IN after[SUPERPAGE_LEN]

\* Mutant of TakeSuperpage: the adopted superpage is on no list.
TakeSuperpageUnlisted(t, s, S, pbs) ==
  /\ owner[s] = "dead"
  /\ owner' = [owner EXCEPT ![s] = t]
  /\ IsHeapOf(t, Taken(S, s, pbs))
  /\ UNCHANGED sp_list
  /\ remote_pb_list' = [remote_pb_list EXCEPT ![s] = << >>]

\* cas32 on owner_id, and all of take_superpage when it succeeds.
TakeSuperpage(t, s, S, pbs) ==
  /\ owner[s] = "dead"
  /\ owner' = [owner EXCEPT ![s] = t]
  /\ IsHeapOf(t, Taken(S, s, pbs))
  /\ sp_list' = [sp_list EXCEPT ![t] = <<s>> \o @]
  /\ remote_pb_list' = [remote_pb_list EXCEPT ![s] = << >>]

\* remote_free finds the superpage dead before it pushes its blocks, ...
Adopt(t, s) ==
  /\ phase[t] = "live"
  /\ TakeSuperpage(t, s, HeapOf(t), remote_pb_list[s])
  /\ UNCHANGED <<phase, run>>

InUse(h, large) == run[h] > 0 /\ mem[h].large = large /\ ~mem[h].whole

\* ... or when it has just pushed the last ones of page block h.
AdoptDying(t, h) ==
  /\ phase[t] = "live" /\ InUse(h, FALSE)
  /\ TakeSuperpage(t, h[1], [HeapOf(t) EXCEPT !.mem[h].whole = TRUE],
                   remote_pb_list[h[1]])
  /\ run' = WithoutRuns({h})
  /\ UNCHANGED phase

\* A large block leaves the page block cache, or never was in it.  The
\* superpage is the thread's own ...
LargeFreeOwn(t, h) ==
  /\ phase[t] = "live" /\ InUse(h, TRUE)
  /\ owner[h[1]] = t
  /\ PbFree(t, HeapOf(t), h, sp_list[t], {h})
  /\ UNCHANGED <<remote_pb_list, phase>>

\* ... or an orphan, which pb_remote_free adopts first ...
LargeFreeDead(t, h) ==
  LET s == h[1]
  IN /\ phase[t] = "live" /\ InUse(h, TRUE)
     /\ owner[s] = "dead"
     /\ PbFree(t, Taken(HeapOf(t), s, remote_pb_list[s]), h,
               <<s>> \o sp_list[t], {h})
     /\ remote_pb_list' = [remote_pb_list EXCEPT ![s] = << >>]
     /\ UNCHANGED phase

\* ... or became an orphan when the block was already on the remote list ...
LargeFreeDying(t, h) ==
  LET s == h[1]
  IN /\ phase[t] = "live" /\ InUse(h, TRUE)
     /\ TakeSuperpage(t, s, HeapOf(t), <<h>> \o remote_pb_list[s])
     /\ run' = WithoutRuns({h})
     /\ UNCHANGED phase

\* ... or belongs to another thread, which will find the block there.
LargeFreeRemote(t, h) ==
  LET s == h[1]
  IN /\ phase[t] = "live" /\ InUse(h, TRUE)
     /\ \E u \in Thread \ {t} : owner[s] = u /\ phase[u] \in RemotePhases
     /\ remote_pb_list' = [remote_pb_list EXCEPT ![s] = <<h>> \o @]
     /\ run' = WithoutRuns({h})
     /\ UNCHANGED <<owner, mem, pagemap, free_pb_list, pbh_list, sp_list,
                    phase>>

\* The page block is one of t's with some block outside its counters.
InUseBy(t, h) ==
  /\ phase[t] = "live"
  /\ owner[h[1]] = t
  /\ InUse(h, FALSE)

\* pbh_add_blocks or pbh_add_unused, with the last blocks ...
AddLastBlocks(t, h) ==
  /\ InUseBy(t, h)
  /\ PbFree(t, UnlistSmall(HeapOf(t), h), h, sp_list[t], {h})
  /\ UNCHANGED <<remote_pb_list, phase>>

\* ... or with some: the page block moves to the front of its list.
AddSomeBlocks(t, h) ==
  /\ InUseBy(t, h)
  /\ pbh_list[t] # h
  /\ mem' = Insert(Unlink(mem, h), pbh_list[t], h)
  /\ pbh_list' = [pbh_list EXCEPT ![t] = h]
  /\ UNCHANGED <<owner, pagemap, free_pb_list, sp_list, remote_pb_list, phase,
                 run>>

\* remote_free with the last blocks: the counters tell, and nobody looks.
RemoteLastBlocks(t, h) ==
  /\ phase[t] = "live"
  /\ owner[h[1]] \in Thread \ {t}
  /\ InUse(h, FALSE)
  /\ mem' = [mem EXCEPT ![h].whole = TRUE]
  /\ UNCHANGED <<owner, pagemap, free_pb_list, pbh_list, sp_list,
                 remote_pb_list, phase, run>>

\* small_malloc takes the blocks of its list's first page block (case 3),
\* and steps the list on unless that left remotely freed ones behind.
TakeBlocks(t) ==
  LET h == pbh_list[t]
  IN /\ phase[t] = "live"
     /\ h # NULL
     /\ mem' = [mem EXCEPT ![h].whole = FALSE]
     /\ \E top \in {h, mem[h].next} :
          pbh_list' = [pbh_list EXCEPT ![t] = top]
     /\ UNCHANGED <<owner, pagemap, free_pb_list, sp_list, remote_pb_list,
                    phase, run>>

----------------------------------------------------------------------------
(* Exit of a thread: tlh_clear                                             *)

Exit(t) ==
  /\ phase[t] = "live"
  /\ phase' = [phase EXCEPT ![t] = "exit"]
  /\ UNCHANGED <<owner, mem, pagemap, free_pb_list, pbh_list, sp_list,
                 remote_pb_list, run>>

\* tlh_return_pbhs: drop a page block from the class's list.
ReturnPbh(t) ==
  LET h == pbh_list[t]
      S == UnlistSmall(HeapOf(t), h)
  IN /\ phase[t] = "exit"
     /\ h # NULL
     /\ \/ /\ mem[h].whole
           /\ PbFree(t, S, h, sp_list[t], {h})
        \/ /\ ~mem[h].whole
           /\ IsHeapOf(t, S)
           /\ UNCHANGED <<owner, sp_list, run>>
     /\ UNCHANGED <<remote_pb_list, phase>>

\* The walk of try_to_free_superpage: whole page blocks become free and are
\* joined to their neighbours, the small ones in use are counted.
Visited(acc, h) ==
  LET S     == acc.heap
      end   == h[2] + S.mem[h].length
      prev  == IF acc.prev # NULL /\ S.mem[acc.prev].free
               THEN acc.prev ELSE NULL
      next  == IF end \in Lens /\ S.mem[<<h[1], end>>].free
               THEN <<h[1], end>> ELSE NULL
      J     == Join(FieldInit(S, h), prev, h, next)
      front == First(prev, h)
  IN IF ~S.mem[h].free /\ S.mem[h].whole
     THEN [acc EXCEPT !.heap = Remapped(J, front), !.prev = front,
                      !.pos = end + LenOf(S, next)]
     ELSE [acc EXCEPT !.prev = h, !.pos = end,
                      !.inuse = @ \/ (~S.mem[h].free /\ ~S.mem[h].large)]

Cleaned(S, s) ==
  LET after[i \in 0 .. SUPERPAGE_LEN] ==
        IF i = 0
        THEN [heap |-> S, prev |-> NULL, pos |-> 1, inuse |-> FALSE]
        ELSE IF i = after[i - 1].pos THEN Visited(after[i - 1], <<s, i>>)
        ELSE after[i - 1]
  IN after[SUPERPAGE_LEN]

\* finish_superpages: the superpage is freed or becomes an orphan.
FinishSuperpage(t) ==
  LET s == Head(sp_list[t])
      C == Cleaned(GetRemotePbs(HeapOf(t), remote_pb_list[s]), s)
      L == {h \in SpPage : h[1] = s /\ run[h] > 0 /\ mem[h].large}
  IN /\ phase[t] = "exit" /\ pbh_list[t] = NULL
     /\ sp_list[t] # << >>
     /\ LargeAtExit \/ C.inuse \/ L = {}
     /\ \/ /\ ~C.inuse
           /\ IsHeapOf(t, [C.heap EXCEPT !.map =
                             SetRange(@, <<s, 1>>, SUPERPAGE_LEN, NULL)])
           /\ owner' = [owner EXCEPT ![s] = NULL]
        \/ /\ C.inuse
           /\ IsHeapOf(t, C.heap)
           /\ owner' = [owner EXCEPT ![s] = "dead"]
     /\ sp_list' = [sp_list EXCEPT ![t] = Tail(@)]
     /\ remote_pb_list' = [remote_pb_list EXCEPT ![s] = << >>]
     /\ run' = WithoutRuns({h \in SpPage : h[1] = s /\ mem[h].whole})
     /\ UNCHANGED phase

\* The thread is gone; another one starts, with an empty heap of its own.
ThreadInit(t) ==
  /\ phase[t] = "exit" /\ pbh_list[t] = NULL /\ sp_list[t] = << >>
  /\ phase' = [phase EXCEPT ![t] = "live"]
  /\ free_pb_list' = [free_pb_list EXCEPT ![t] = NoPb]
  /\ UNCHANGED <<owner, mem, pagemap, pbh_list, sp_list, remote_pb_list, run>>

Next ==
  \E t \in Thread :
    \/ LargeMalloc(t) \/ SmallMalloc(t) \/ TakeBlocks(t)
    \/ \E s \in Superpage : Adopt(t, s)
    \/ \E h \in SpPage :
         \/ AdoptDying(t, h)
         \/ LargeFreeOwn(t, h) \/ LargeFreeDead(t, h)
         \/ LargeFreeDying(t, h) \/ LargeFreeRemote(t, h)
         \/ AddLastBlocks(t, h) \/ AddSomeBlocks(t, h)
         \/ RemoteLastBlocks(t, h)
    \/ Exit(t) \/ ReturnPbh(t) \/ FinishSuperpage(t) \/ ThreadInit(t)

Spec == Init /\ [][Next]_vars

----------------------------------------------------------------------------
(* Properties                                                              *)

Used == {s \in Superpage : owner[s] # NULL}
Tiles(s) == Chain(mem, s)

\* The walks of take_superpage and try_to_free_superpage end exactly at the
\* end of the superpage (their asserts on total_len), and the pagemap sends
\* every page to the header whose run it lies in, or to none if the
\* superpage is free: free(ptr) finds the right header.
HeapOK ==
  /\ TypeOK
  /\ \A s \in Used :
       /\ Walk(mem, s)[SUPERPAGE_LEN] = SUPERPAGE_LEN + 1
       /\ \A h \in Tiles(s) : \A p \in Pages(h, mem[h].length) : pagemap[p] = h
  /\ \A s \in Superpage \ Used, i \in Lens : pagemap[<<s, i>>] = NULL

\* A run of pages handed out stays what it was until it is freed: its header
\* keeps its length and is not free, its pages lead to it, its superpage is
\* not given away, and it shares no page with another run.
HandedOut == {h \in SpPage : run[h] > 0}

RunsIntact ==
  \A h \in HandedOut :
    /\ owner[h[1]] # NULL
    /\ mem[h].length = run[h] /\ ~mem[h].free
    /\ \A p \in Pages(h, run[h]) : pagemap[p] = h
    /\ \A g \in HandedOut \ {h} : Pages(h, run[h]) \cap Pages(g, run[g]) = {}

\* The headers of the list: next pointers are followed until they come back
\* to its head, or as long as there are headers.
Ring(top) ==
  LET at[k \in Nat] == IF k = 0 THEN top ELSE mem[at[k - 1]].next
      back == {k \in 1 .. Cardinality(SpPage) : at[k] = top}
      size == IF back = {} THEN Cardinality(SpPage) ELSE Min(back)
  IN IF top = NULL THEN << >> ELSE [k \in 1 .. size |-> at[k - 1]]

WellLinked(top) ==
  \A h \in ToSet(Ring(top)) : mem[mem[h].next].prev = h

TilesOf(t) == UNION {Tiles(s) : s \in {x \in Superpage : owner[x] = t}}

\* A live thread's lists hold exactly the page blocks of its superpages: each
\* free one is on the list of its length (the assert of pb_alloc_from_tlh)
\* and each small one in use on the list of its class, in rings that are
\* linked both ways, and nothing is ever stored behind the array's end.
ListsExact ==
  \A t \in {u \in Thread : phase[u] = "live"} :
    /\ \A c \in Lens :
         /\ WellLinked(free_pb_list[t][c])
         /\ ToSet(Ring(free_pb_list[t][c])) =
              {h \in TilesOf(t) : mem[h].free /\ mem[h].length = c}
    /\ free_pb_list[t][SUPERPAGE_LEN] = NULL
    /\ WellLinked(pbh_list[t])
    /\ ToSet(Ring(pbh_list[t])) =
         {h \in TilesOf(t) : ~mem[h].free /\ ~mem[h].large}

\* What pb_alloc_from_tlh asserts of the page block it pops.
PoppedLength ==
  \A t \in {u \in Thread : phase[u] = "live"}, c \in 1 .. NUM_PAGE_CLASSES :
    LET h == free_pb_list[t][c] IN h # NULL => mem[h].length = c

\* sp_list holds exactly the superpages the thread owns, each once.
SuperpagesListed ==
  \A t \in Thread :
    /\ ToSet(sp_list[t]) = {s \in Superpage : owner[s] = t}
    /\ Cardinality(ToSet(sp_list[t])) = Len(sp_list[t])
=============================================================================
