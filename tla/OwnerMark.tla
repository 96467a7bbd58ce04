----------------------------- MODULE OwnerMark -----------------------------
(***************************************************************************)
(* The ownership protocol of superpages: remote frees of small blocks, the *)
(* exit of a thread and the adoption of the superpages it leaves behind    *)
(* (remote_free, pbh_add_blocks, take_superpage, finish_superpages,        *)
(* try_to_free_superpage, sph_alloc and sph_free of src/sf_malloc.c).      *)
(*                                                                         *)
(* A superpage is owned by one live thread or by DEAD_OWNER.  Only its     *)
(* owner touches the page blocks in it; any other thread that returns      *)
(* blocks pushes them on the remote list of their page block, marks the    *)
(* superpage DO_NOT_FINISH and, if the owner died meanwhile, adopts it.    *)
(*                                                                         *)
(* Data that the properties do not tell apart is abstracted: a page block  *)
(* is a fixed slot of its superpage that is in use or not (PageBlocks has  *)
(* the splitting and coalescing), a block is inside its page block, on its *)
(* remote list or outside (held by the user or by some thread's cache),    *)
(* and the global free list is the set of superpages in state "pool"       *)
(* (FreeSpList has the list).                                              *)
(***************************************************************************)
EXTENDS Naturals, FiniteSets

CONSTANTS
  Thread,        \* thread ids; an id is never used again (g_id only grows)
  Superpage,     \* addresses at which superpages are mapped
  Pb,            \* slots for page blocks
  Block,         \* blocks the page blocks are carved into
  SpOf,          \* the superpage a page block lies in
  PbOf,          \* the page block a block lies in
  DEAD_OWNER,    \* the owner_id of an orphan
  NoSp,          \* the value of an empty hazard pointer
  StoreBuffers,  \* TRUE: x86-TSO, plain stores leave the core later
  FREE_SP_LIST_THRESHOLD  \* 2 * g_thread_num in the code, less the superpages
                          \* that are pooled for good outside the instance

ASSUME ThreadAssumption ==
  DEAD_OWNER \notin Thread /\ "free" \notin Thread /\ "orphan" \notin Thread
ASSUME SuperpageAssumption == NoSp \notin Superpage
ASSUME SpOfAssumption == SpOf \in [Pb -> Superpage]
ASSUME PbOfAssumption == PbOf \in [Block -> Pb]
ASSUME StoreBuffersAssumption == StoreBuffers \in BOOLEAN
ASSUME ThresholdAssumption == FREE_SP_LIST_THRESHOLD \in Nat

NONE          == "NONE"
DO_NOT_FINISH == "DO_NOT_FINISH"
EMPTY         == "EMPTY"     \* no store to this superpage is buffered

VARIABLES
  owner,        \* sph->omark.owner_id
  finish_mark,  \* sph->omark.finish_mark, as memory has it
  hazard_mark,  \* sph->hazard_mark
  where,        \* "unmapped", on the global free list ("pool") or "used"
  in_use,       \* page blocks that are not on a free page block list
  out,          \* blocks outside their page block
  remote,       \* blocks on the remote_list of their page block
  hazard,       \* the node of each thread's hazard pointer
  sb,           \* buffered stores to finish_mark, per thread and superpage
  pc,           \* where each thread is
  cur,          \* the sph the thread works on
  run,          \* the blocks first..last a thread is returning
  todo,         \* page blocks a walk over a superpage has still to visit
  cnt_inuse     \* the walk of try_to_free_superpage met a page block in use

sphVars == <<owner, hazard_mark, where>>
blkVars == <<in_use, out, remote>>
memVars == <<finish_mark, sb>>
thrVars == <<pc, cur, run, todo, cnt_inuse, hazard>>
vars == <<sphVars, blkVars, memVars, thrVars>>

PbsOf(s)    == {p \in Pb : SpOf[p] = s}
BlocksOf(p) == {b \in Block : PbOf[b] = p}
SpOfBlock(b) == SpOf[PbOf[b]]
NoneOut(s)  == \A b \in out : SpOfBlock(b) # s
Pool        == {s \in Superpage : where[s] = "pool"}

\* Mutant of AllBack: the count is compared one short.
AllBackButOne(p) == Cardinality(out \cap BlocksOf(p)) <= 1

(* Every block of page block p is back: cnt_free + cnt_unused +            *)
(* remote_list.cnt = get_blocks_for_class(sizeclass).                      *)
AllBack(p) == out \cap BlocksOf(p) = {}

PushPc == {"rf_mark", "rf_recheck"}
WalkPc == {"walk_local", "walk_idle"}
FinishPc == {"fs_clear", "fs_scan"}
\* The thread works on the page blocks of cur[t] as their owner.
OwningPc == WalkPc \cup FinishPc \cup {"rf_local", "sph_free"}
\* The thread holds blocks it has still to return.
RunPc == {"rf_check", "rf_push", "walk_local", "rf_local"}
HazardPc == {"rf_check", "rf_push"} \cup PushPc \cup WalkPc
PcValues == {"idle", "rf_check", "rf_push", "fs_next", "exited"}
              \cup PushPc \cup OwningPc

VarTypes ==
  /\ owner \in [Superpage -> Thread \cup {DEAD_OWNER}]
  /\ finish_mark \in [Superpage -> {NONE, DO_NOT_FINISH}]
  /\ hazard_mark \in [Superpage -> BOOLEAN]
  /\ where \in [Superpage -> {"unmapped", "pool", "used"}]
  /\ in_use \subseteq Pb
  /\ out \subseteq Block
  /\ remote \subseteq Block
  /\ hazard \in [Thread -> Superpage \cup {NoSp}]
  /\ sb \in [Thread -> [Superpage -> {EMPTY, NONE, DO_NOT_FINISH}]]
  /\ pc \in [Thread -> PcValues]
  /\ cur \in [Thread -> Superpage \cup {NoSp}]
  /\ run \in [Thread -> SUBSET Block]
  /\ todo \in [Thread -> SUBSET Pb]
  /\ cnt_inuse \in [Thread -> BOOLEAN]

LocalOK(t) ==
  /\ pc[t] \in {"idle", "exited"} => cur[t] = NoSp
  /\ pc[t] \in HazardPc \cup OwningPc => cur[t] \in Superpage
  /\ hazard[t] = IF pc[t] \in HazardPc THEN cur[t] ELSE NoSp
  /\ run[t] # {} <=> pc[t] \in RunPc

(* The types of the variables; a thread's local variables fit its place in *)
(* the code: in particular remote_free leaves no hazard pointer behind and *)
(* a thread that is not returning blocks keeps none.                       *)
TypeOK == VarTypes /\ \A t \in Thread : LocalOK(t)

Init ==
  /\ owner = [s \in Superpage |-> DEAD_OWNER]
  /\ finish_mark = [s \in Superpage |-> NONE]
  /\ hazard_mark = [s \in Superpage |-> FALSE]
  /\ where = [s \in Superpage |-> "unmapped"]
  /\ in_use = {} /\ out = {} /\ remote = {}
  /\ hazard = [t \in Thread |-> NoSp]
  /\ sb = [t \in Thread |-> [s \in Superpage |-> EMPTY]]
  /\ pc = [t \in Thread |-> "idle"]
  /\ cur = [t \in Thread |-> NoSp]
  /\ run = [t \in Thread |-> {}]
  /\ todo = [t \in Thread |-> {}]
  /\ cnt_inuse = [t \in Thread |-> FALSE]

----------------------------------------------------------------------------
(***************************************************************************)
(* Memory.  The plain stores to finish_mark may wait in the core's store   *)
(* buffer; a locked instruction (cas32, cas64, xadd) waits for it to be    *)
(* empty.  Stores of one thread to two superpages may leave in any order   *)
(* here, which no property sees: each relates the words of one superpage.  *)
(* The other plain stores of the protocol need no buffer: those of an      *)
(* owner to its page blocks are read by itself only, and the hazard        *)
(* pointer is first needed after the locked push that follows it.          *)
(***************************************************************************)
Store(t, s, mark) ==
  IF StoreBuffers
  THEN /\ sb' = [sb EXCEPT ![t] = [@ EXCEPT ![s] = mark]]
       /\ UNCHANGED finish_mark
  ELSE /\ finish_mark' = [finish_mark EXCEPT ![s] = mark]
       /\ UNCHANGED sb

Drained(t) == \A s \in Superpage : sb[t][s] = EMPTY

Flush(t, s) ==
  /\ sb[t][s] # EMPTY
  /\ finish_mark' = [finish_mark EXCEPT ![s] = sb[t][s]]
  /\ sb' = [sb EXCEPT ![t] = [@ EXCEPT ![s] = EMPTY]]
  /\ UNCHANGED <<sphVars, blkVars, thrVars>>

----------------------------------------------------------------------------
(***************************************************************************)
(* Allocation: a new page block in a superpage the thread owns, or in one  *)
(* from sph_alloc; all its blocks leave it for the thread's cache.         *)
(***************************************************************************)
Carve(p) ==
  /\ in_use' = in_use \cup {p}
  /\ out' = out \cup BlocksOf(p)
  /\ UNCHANGED remote

NewPb(t) ==
  /\ pc[t] = "idle"
  /\ \E p \in Pb :
       /\ where[SpOf[p]] = "used" /\ owner[SpOf[p]] = t
       /\ p \notin in_use
       /\ Carve(p)
  /\ UNCHANGED <<sphVars, memVars, thrVars>>

(* sph_alloc pops a pooled superpage with a cas, or maps a fresh (zeroed)  *)
(* one when the list is empty or the cas fails.                            *)
SphAlloc(t) ==
  /\ pc[t] = "idle"
  /\ Drained(t)
  /\ \E s \in Superpage :
       /\ where[s] # "used"
       /\ where' = [where EXCEPT ![s] = "used"]
       /\ owner' = [owner EXCEPT ![s] = t]
       /\ IF where[s] = "pool"
          THEN UNCHANGED <<finish_mark, hazard_mark>>
          ELSE /\ finish_mark' = [finish_mark EXCEPT ![s] = NONE]
               /\ hazard_mark' = [hazard_mark EXCEPT ![s] = FALSE]
       /\ \E p \in PbsOf(s) : Carve(p)
  /\ UNCHANGED <<sb, thrVars>>

(* Case 3 of small_malloc: take the free list and the unused chunk of a    *)
(* page block, or its whole remote list when it has neither.               *)
ReusePb(t) ==
  /\ pc[t] = "idle"
  /\ \E p \in in_use :
       LET inside == BlocksOf(p) \ (out \cup remote)
           pushed == BlocksOf(p) \cap remote
       IN /\ owner[SpOf[p]] = t
          /\ \/ /\ inside # {}
                /\ out' = out \cup inside
                /\ UNCHANGED remote
             \/ /\ inside = {} /\ pushed # {}
                /\ Drained(t)
                /\ out' = out \cup pushed
                /\ remote' = remote \ pushed
  /\ UNCHANGED <<in_use, sphVars, memVars, thrVars>>

----------------------------------------------------------------------------
(***************************************************************************)
(* Returning blocks to a page block of one's own (the end of               *)
(* pbh_add_blocks, pb_free and sph_free).                                  *)
(***************************************************************************)
Idle(t) ==
  /\ pc' = [pc EXCEPT ![t] = "idle"]
  /\ cur' = [cur EXCEPT ![t] = NoSp]

(* The page block becomes free when the returned blocks R are the last     *)
(* ones outside.  The superpage is released when coalescing then yields    *)
(* its full length: it may, once no other page block is in use, but free   *)
(* page blocks of an adopted superpage are not always coalesced.           *)
LocalReturn(t, s, R) ==
  \E p \in PbsOf(s) :
    /\ R \subseteq BlocksOf(p)
    /\ out' = out \ R
    /\ \/ /\ out \cap BlocksOf(p) # R
          /\ Idle(t)
          /\ UNCHANGED <<in_use, remote>>
       \/ /\ out \cap BlocksOf(p) = R
          /\ in_use' = in_use \ {p}
          /\ remote' = remote \ BlocksOf(p)
          /\ \/ Idle(t)
             \/ /\ in_use \cap PbsOf(s) = {p}
                /\ pc' = [pc EXCEPT ![t] = "sph_free"]
                /\ cur' = [cur EXCEPT ![t] = s]

(* sph_free: pool the superpage if a hazard pointer may still name it or   *)
(* the pool is short, else unmap it.  munmap interrupts the other cores,   *)
(* so no store to the superpage stays buffered.                            *)
SphFree(t) ==
  /\ pc[t] = "sph_free"
  /\ Drained(t)
  /\ LET s == cur[t]
         hazardous == hazard_mark[s] /\ \E u \in Thread : hazard[u] = s
         pooled == hazardous \/ Cardinality(Pool) < FREE_SP_LIST_THRESHOLD
     IN /\ hazard_mark' = [hazard_mark EXCEPT ![s] = hazardous]
        /\ where' = [where EXCEPT ![s] = IF pooled THEN "pool" ELSE "unmapped"]
        /\ sb' = IF pooled THEN sb
                 ELSE [u \in Thread |-> [sb[u] EXCEPT ![s] = EMPTY]]
  /\ Idle(t)
  /\ UNCHANGED <<owner, finish_mark, blkVars, run, todo, cnt_inuse, hazard>>

(* A thread returns a nonempty run of blocks of one page block.  Nobody    *)
(* frees a block twice, so no other thread is returning one of them.       *)
Return(t) ==
  /\ pc[t] = "idle"
  /\ \E p \in in_use : \E R \in SUBSET (out \cap BlocksOf(p)) :
       /\ R # {}
       /\ \A u \in Thread : run[u] \cap R = {}
       /\ IF owner[SpOf[p]] = t
          THEN /\ LocalReturn(t, SpOf[p], R)
               /\ UNCHANGED <<run, hazard>>
          ELSE /\ pc' = [pc EXCEPT ![t] = "rf_check"]
               /\ cur' = [cur EXCEPT ![t] = SpOf[p]]
               /\ run' = [run EXCEPT ![t] = R]
               /\ hazard' = [hazard EXCEPT ![t] = SpOf[p]]
               /\ UNCHANGED blkVars
  /\ UNCHANGED <<todo, cnt_inuse, sphVars, memVars>>

RF_Local(t) ==
  /\ pc[t] = "rf_local"
  /\ LocalReturn(t, cur[t], run[t])
  /\ run' = [run EXCEPT ![t] = {}]
  /\ UNCHANGED <<sphVars, memVars, todo, cnt_inuse, hazard>>

----------------------------------------------------------------------------
(***************************************************************************)
(* remote_free.  Its loop tests the owner and tries the push again when    *)
(* the cas on remote_list fails; a failed round changes nothing, so the    *)
(* actions are those of the last round.                                    *)
(***************************************************************************)
\* Mutant of Take: a plain store of the id instead of the cas32.
TakeWithoutCas(t, s, walk) ==
  /\ owner' = [owner EXCEPT ![s] = t]
  /\ todo' = [todo EXCEPT ![t] = PbsOf(s)]
  /\ pc' = [pc EXCEPT ![t] = walk]

(* take_superpage: the cas32 on owner_id; the walk follows.                *)
Take(t, s, walk) ==
  /\ Drained(t)
  /\ owner[s] = DEAD_OWNER
  /\ owner' = [owner EXCEPT ![s] = t]
  /\ todo' = [todo EXCEPT ![t] = PbsOf(s)]
  /\ pc' = [pc EXCEPT ![t] = walk]

RF_Check(t) ==
  /\ pc[t] = "rf_check"
  /\ \/ /\ Take(t, cur[t], "walk_local")
     \/ /\ owner[cur[t]] # DEAD_OWNER
        /\ pc' = [pc EXCEPT ![t] = "rf_push"]
        /\ UNCHANGED <<owner, todo>>
  /\ UNCHANGED <<hazard_mark, where, blkVars, memVars, cur, run, cnt_inuse,
                 hazard>>

(* The locked push on pbh->remote_list.                                    *)
RF_Push(t) ==
  /\ pc[t] = "rf_push"
  /\ Drained(t)
  /\ out' = out \ run[t]
  /\ remote' = remote \cup run[t]
  /\ pc' = [pc EXCEPT ![t] = "rf_mark"]
  /\ run' = [run EXCEPT ![t] = {}]
  /\ UNCHANGED <<in_use, sphVars, memVars, cur, todo, cnt_inuse, hazard>>

(* From here on the thread has no block in the superpage: only its hazard  *)
(* pointer asks that the memory stays mapped.  If it is not, the access    *)
(* ends the process: the thread takes no step.                             *)
RF_Mark(t) ==
  /\ pc[t] = "rf_mark"
  /\ where[cur[t]] # "unmapped"
  /\ Store(t, cur[t], DO_NOT_FINISH)
  /\ pc' = [pc EXCEPT ![t] = "rf_recheck"]
  /\ UNCHANGED <<sphVars, blkVars, cur, run, todo, cnt_inuse, hazard>>

RF_Recheck(t) ==
  /\ pc[t] = "rf_recheck"
  /\ where[cur[t]] # "unmapped"
  /\ \/ /\ Take(t, cur[t], "walk_idle")
        /\ UNCHANGED <<cur, hazard>>
     \/ /\ owner[cur[t]] # DEAD_OWNER
        /\ Idle(t)
        /\ hazard' = [hazard EXCEPT ![t] = NoSp]
        /\ UNCHANGED <<owner, todo>>
  /\ UNCHANGED <<hazard_mark, where, blkVars, memVars, run, cnt_inuse>>

(* pbh_field_init for a page block all of whose blocks are back, in the    *)
(* walks of take_superpage and of try_to_free_superpage.                   *)
FreePb(p) ==
  /\ in_use' = in_use \ {p}
  /\ remote' = remote \ BlocksOf(p)

(* One page block of the walk of take_superpage.                           *)
Walk(t) ==
  /\ pc[t] \in WalkPc
  /\ \E p \in todo[t] :
       /\ todo' = [todo EXCEPT ![t] = @ \ {p}]
       /\ IF AllBack(p) THEN FreePb(p) ELSE UNCHANGED <<in_use, remote>>
  /\ UNCHANGED <<sphVars, out, memVars, pc, cur, run, cnt_inuse, hazard>>

\* Mutant of WalkDone: the return path forgets hazard_ptr_clr.
WalkDoneKeepsHazard(t) ==
  /\ pc[t] \in WalkPc
  /\ todo[t] = {}
  /\ IF pc[t] = "walk_local"
     THEN /\ pc' = [pc EXCEPT ![t] = "rf_local"]
          /\ UNCHANGED cur
     ELSE Idle(t)
  /\ UNCHANGED <<sphVars, blkVars, memVars, run, todo, cnt_inuse, hazard>>

(* The walk is over: the hazard pointer is cleared and remote_free returns *)
(* false (the blocks are still to be returned, now to an own page block)   *)
(* or true.                                                                *)
WalkDone(t) ==
  /\ pc[t] \in WalkPc
  /\ todo[t] = {}
  /\ hazard' = [hazard EXCEPT ![t] = NoSp]
  /\ IF pc[t] = "walk_local"
     THEN /\ pc' = [pc EXCEPT ![t] = "rf_local"]
          /\ UNCHANGED cur
     ELSE Idle(t)
  /\ UNCHANGED <<sphVars, blkVars, memVars, run, todo, cnt_inuse>>

----------------------------------------------------------------------------
(***************************************************************************)
(* Thread exit: tlh_clear returns what the thread's cache holds (as        *)
(* Return) and then finishes the superpages it owns.                       *)
(***************************************************************************)
Exit(t) ==
  /\ pc[t] = "idle"
  /\ pc' = [pc EXCEPT ![t] = "fs_next"]
  /\ UNCHANGED <<sphVars, blkVars, memVars, cur, run, todo, cnt_inuse, hazard>>

FS_Next(t) ==
  /\ pc[t] = "fs_next"
  /\ \/ \E s \in Superpage :
          /\ where[s] = "used" /\ owner[s] = t
          /\ cur' = [cur EXCEPT ![t] = s]
          /\ pc' = [pc EXCEPT ![t] = "fs_clear"]
     \/ /\ \A s \in Superpage : ~ (where[s] = "used" /\ owner[s] = t)
        /\ cur' = [cur EXCEPT ![t] = NoSp]
        /\ pc' = [pc EXCEPT ![t] = "exited"]
  /\ UNCHANGED <<sphVars, blkVars, memVars, run, todo, cnt_inuse, hazard>>

FS_Clear(t) ==
  /\ pc[t] = "fs_clear"
  /\ Store(t, cur[t], NONE)
  /\ todo' = [todo EXCEPT ![t] = PbsOf(cur[t])]
  /\ cnt_inuse' = [cnt_inuse EXCEPT ![t] = FALSE]
  /\ pc' = [pc EXCEPT ![t] = "fs_scan"]
  /\ UNCHANGED <<sphVars, blkVars, cur, run, hazard>>

(* One page block of the walk of try_to_free_superpage.                    *)
FS_Scan(t) ==
  /\ pc[t] = "fs_scan"
  /\ \E p \in todo[t] :
       /\ todo' = [todo EXCEPT ![t] = @ \ {p}]
       /\ IF AllBack(p)
          THEN FreePb(p) /\ UNCHANGED cnt_inuse
          ELSE /\ cnt_inuse' = [cnt_inuse EXCEPT ![t] = TRUE]
               /\ UNCHANGED <<in_use, remote>>
  /\ UNCHANGED <<sphVars, out, memVars, pc, cur, run, hazard>>

(* Nothing in use: the superpage goes to the pool, marked for the hazard   *)
(* scan of a later sph_free.  Its owner_id is left as it was.              *)
FS_Free(t) ==
  /\ pc[t] = "fs_scan"
  /\ todo[t] = {} /\ ~ cnt_inuse[t]
  /\ Drained(t)
  /\ hazard_mark' = [hazard_mark EXCEPT ![cur[t]] = TRUE]
  /\ where' = [where EXCEPT ![cur[t]] = "pool"]
  /\ pc' = [pc EXCEPT ![t] = "fs_next"]
  /\ UNCHANGED <<owner, blkVars, memVars, cur, run, todo, cnt_inuse, hazard>>

\* Mutant of FS_Dead: a cas32 on owner_id alone.
FS_DeadIgnoresMark(t) ==
  /\ pc[t] = "fs_scan"
  /\ todo[t] = {} /\ cnt_inuse[t]
  /\ Drained(t)
  /\ owner' = [owner EXCEPT ![cur[t]] = DEAD_OWNER]
  /\ pc' = [pc EXCEPT ![t] = "fs_next"]
  /\ UNCHANGED <<hazard_mark, where, blkVars, memVars, cur, run, todo,
                 cnt_inuse, hazard>>

\* Mutant of FS_Dead: the retry does not clear the mark again.
FS_DeadKeepsMark(t) ==
  /\ pc[t] = "fs_scan"
  /\ todo[t] = {} /\ cnt_inuse[t]
  /\ Drained(t)
  /\ finish_mark[cur[t]] = NONE
  /\ owner' = [owner EXCEPT ![cur[t]] = DEAD_OWNER]
  /\ pc' = [pc EXCEPT ![t] = "fs_next"]
  /\ UNCHANGED <<hazard_mark, where, blkVars, memVars, cur, run, todo,
                 cnt_inuse, hazard>>

(* cas64 on the whole ownermark: dead, unless someone set DO_NOT_FINISH    *)
(* since FS_Clear, when the round starts again.                            *)
FS_Dead(t) ==
  /\ pc[t] = "fs_scan"
  /\ todo[t] = {} /\ cnt_inuse[t]
  /\ Drained(t)
  /\ IF finish_mark[cur[t]] = NONE
     THEN /\ owner' = [owner EXCEPT ![cur[t]] = DEAD_OWNER]
          /\ pc' = [pc EXCEPT ![t] = "fs_next"]
     ELSE /\ pc' = [pc EXCEPT ![t] = "fs_clear"]
          /\ UNCHANGED owner
  /\ UNCHANGED <<hazard_mark, where, blkVars, memVars, cur, run, todo,
                 cnt_inuse, hazard>>

----------------------------------------------------------------------------
(* The code of one thread that runs on once started: everything but the    *)
(* program's own calls to malloc and free and its decision to exit.        *)
Progress(t) ==
  \/ RF_Check(t) \/ RF_Push(t) \/ RF_Mark(t) \/ RF_Recheck(t)
  \/ Walk(t) \/ WalkDone(t) \/ RF_Local(t) \/ SphFree(t)
  \/ FS_Next(t) \/ FS_Clear(t) \/ FS_Scan(t) \/ FS_Free(t) \/ FS_Dead(t)

Call(t) == NewPb(t) \/ SphAlloc(t) \/ ReusePb(t) \/ Return(t) \/ Exit(t)

(* Every thread has exited: the process may stop.                          *)
Terminated == (\A t \in Thread : pc[t] = "exited") /\ UNCHANGED vars

Next ==
  \/ \E t \in Thread : Call(t) \/ Progress(t)
  \/ \E t \in Thread, s \in Superpage : Flush(t, s)
  \/ Terminated

Spec == Init /\ [][Next]_vars

(* The kernel schedules every thread, so code under way goes on, and       *)
(* buffered stores reach memory.  Calls are the program's choice.          *)
Fairness ==
  /\ \A t \in Thread : WF_vars(Progress(t))
  /\ \A t \in Thread, s \in Superpage : WF_vars(Flush(t, s))

FairSpec == Spec /\ Fairness

----------------------------------------------------------------------------
(***************************************************************************)
(* Properties.                                                             *)
(***************************************************************************)
(* A superpage in the pool or given back to the OS has no block that the   *)
(* user, a thread's cache or a remote list still holds, and no page block  *)
(* in use: the counts the owner reads while other threads push on the      *)
(* remote lists never let it release a superpage too early (sph_free,      *)
(* try_to_free_superpage).                                                 *)
FreedIsEmpty ==
  \A s \in Superpage : where[s] # "used" =>
    /\ \A p \in in_use : SpOf[p] # s
    /\ \A b \in out \cup remote : SpOfBlock(b) # s

(* At most one thread changes the page block lists of a superpage, and it  *)
(* is its owner: from the adoption in take_superpage, or through           *)
(* finish_superpages, nobody else takes or releases the superpage.         *)
OneOwnerAtWork ==
  \A t \in Thread : pc[t] \in OwningPc =>
    /\ where[cur[t]] = "used" /\ owner[cur[t]] = t
    /\ \A u \in Thread \ {t} : pc[u] \in OwningPc => cur[u] # cur[t]

(* The inductive invariant behind the two properties above.  BlocksOK: a   *)
(* block is outside or on its remote list, never both, and its page block  *)
(* is then in use in a superpage that is used.  RunsOK: what a thread is   *)
(* returning is outside, in one page block of cur, and nobody else returns *)
(* it.  WorkOK: the thread that works on a superpage owns it, and one in   *)
(* the pool keeps the id of the thread that released it.  PassedOK:        *)
(* the page blocks try_to_free_superpage has passed are free unless it     *)
(* counted one in use, and sph_free meets none.                            *)
BlocksOK ==
  /\ out \cap remote = {}
  /\ \A b \in out \cup remote : PbOf[b] \in in_use
  /\ \A p \in in_use : where[SpOf[p]] = "used"

RunsOK ==
  /\ \A t \in Thread : \A b \in run[t] :
       /\ b \in out /\ SpOfBlock(b) = cur[t]
       /\ \A c \in run[t] : PbOf[c] = PbOf[b]
  /\ \A t, u \in Thread : t # u => run[t] \cap run[u] = {}

WorkOK ==
  /\ \A t \in Thread : pc[t] \in OwningPc =>
       where[cur[t]] = "used" /\ owner[cur[t]] = t
  /\ \A s \in Superpage : where[s] = "pool" => owner[s] # DEAD_OWNER

PassedOK ==
  \A t \in Thread :
    /\ pc[t] = "sph_free" => \A p \in in_use : SpOf[p] # cur[t]
    /\ pc[t] = "fs_scan" =>
         /\ \A p \in todo[t] : SpOf[p] = cur[t]
         /\ ~ cnt_inuse[t] =>
              \A p \in in_use : SpOf[p] = cur[t] => p \in todo[t]

IInv == TypeOK /\ BlocksOK /\ RunsOK /\ WorkOK /\ PassedOK

(* The protocol implements the promise of module Superpages.               *)
Promise == INSTANCE Superpages WITH
  Free <- "free", Orphan <- "orphan", held <- out,
  BlockSp <- [b \in Block |-> SpOfBlock(b)],
  holder <- [s \in Superpage |->
               IF where[s] # "used" THEN "free"
               ELSE IF owner[s] = DEAD_OWNER THEN "orphan" ELSE owner[s]]
KeepsPromise == Promise!SSpec

(* An orphan is never stranded: a superpage without a live owner has a     *)
(* block outside, whose return will adopt it, or a remote_free under way   *)
(* that has still to look at its owner ("Another thread will adopt the     *)
(* superpage itself", sf_malloc.c:1178).  Needs StoreBuffers = FALSE.      *)
NoStranded ==
  \A s \in Superpage :
    (where[s] = "used" /\ owner[s] = DEAD_OWNER /\ NoneOut(s)) =>
      \E t \in Thread : pc[t] \in PushPc /\ cur[t] = s

(* What makes NoStranded inductive: while the exiting thread believes that *)
(* a block is outside, one is, or the thread that pushed it has set the    *)
(* mark that fails the cas64 of FS_Dead, or is about to and will then see  *)
(* the superpage dead.                                                     *)
MarkOK ==
  \A t \in Thread : (pc[t] = "fs_scan" /\ cnt_inuse[t]) =>
    \/ ~ NoneOut(cur[t])
    \/ finish_mark[cur[t]] = DO_NOT_FINISH
    \/ \E u \in Thread : pc[u] = "rf_mark" /\ cur[u] = cur[t]

DrainedOK == \A t \in Thread : Drained(t)

SCInv == IInv /\ NoStranded /\ MarkOK /\ DrainedOK

(* remote_free touches the superpage after its push; it is still mapped    *)
(* then.  The code ensures that only for superpages with hazard_mark set.  *)
NoUseAfterUnmap ==
  \A t \in Thread : pc[t] \in PushPc => where[cur[t]] # "unmapped"

(* A thread that starts to exit finishes: the retry loop of                *)
(* finish_superpages (FS_Dead back to FS_Clear) does not go on for ever.   *)
ExitTerminates ==
  \A t \in Thread : (pc[t] = "fs_next") ~> (pc[t] = "exited")

(* Once all its blocks are back, an orphan gets a live owner again.        *)
OrphanAdopted ==
  \A s \in Superpage :
    (where[s] = "used" /\ owner[s] = DEAD_OWNER /\ NoneOut(s))
      ~> (owner[s] # DEAD_OWNER)
=============================================================================
