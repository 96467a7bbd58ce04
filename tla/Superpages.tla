---------------------------- MODULE Superpages -----------------------------
(***************************************************************************)
(* What the allocator promises about superpages, whatever its threads do:  *)
(* a superpage is free, owned by one thread, or an orphan.  Only its owner *)
(* hands out its blocks, gives it up or frees it, a free superpage has no  *)
(* block outside, and an orphan can only be adopted.  OwnerMark and        *)
(* FreeSpList implement this specification.                                *)
(***************************************************************************)
CONSTANTS Thread, Superpage, Block,
          BlockSp,       \* the superpage of each block
          Free, Orphan   \* the states of a superpage without an owner

VARIABLES holder,  \* of each superpage: a thread, Free or Orphan
          held     \* the blocks outside the superpages

svars == <<holder, held>>

BlocksIn(s) == {b \in Block : BlockSp[b] = s}

SInit == holder = [s \in Superpage |-> Free] /\ held = {}

HandOut(t, s) ==
  /\ holder[s] = t
  /\ \E B \in SUBSET BlocksIn(s) : held' = held \cup B
  /\ UNCHANGED holder

\* A superpage is mapped or taken from the pool for the blocks B.
Acquire(t, s) ==
  /\ holder[s] = Free
  /\ holder' = [holder EXCEPT ![s] = t]
  /\ \E B \in SUBSET BlocksIn(s) : held' = held \cup B

\* Anybody returns blocks, wherever they belong.
GiveBack ==
  /\ held' \subseteq held
  /\ UNCHANGED holder

\* Only an empty superpage is freed.
Release(t, s) ==
  /\ holder[s] = t
  /\ held \cap BlocksIn(s) = {}
  /\ holder' = [holder EXCEPT ![s] = Free]
  /\ UNCHANGED held

Abandon(t, s) ==
  /\ holder[s] = t
  /\ holder' = [holder EXCEPT ![s] = Orphan]
  /\ UNCHANGED held

Adopt(t, s) ==
  /\ holder[s] = Orphan
  /\ holder' = [holder EXCEPT ![s] = t]
  /\ UNCHANGED held

SNext ==
  \/ \E t \in Thread, s \in Superpage :
       HandOut(t, s) \/ Acquire(t, s) \/ Release(t, s) \/ Abandon(t, s)
         \/ Adopt(t, s)
  \/ GiveBack

SSpec == SInit /\ [][SNext]_svars
=============================================================================
