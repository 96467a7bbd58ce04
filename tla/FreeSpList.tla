---------------------------- MODULE FreeSpList -----------------------------
(***************************************************************************)
(* The global list of free superpages, g_free_sp_list (sph_alloc, sph_free *)
(* and the end of try_to_free_superpage of src/sf_malloc.c).               *)
(*                                                                         *)
(* The list is a lock-free stack that is only ever popped whole: a thread  *)
(* takes all of it, keeps the first superpage and puts the rest back.  One *)
(* action is one access to shared memory; next pointers and the counter    *)
(* are the code's.  What OwnerMark tells of a superpage (who may free it,  *)
(* and when) is left to that module: here a thread may free any superpage  *)
(* it owns, and hazard_ptr_scan_single may find a hazard pointer or not.   *)
(***************************************************************************)
EXTENDS Integers, FiniteSets

CONSTANTS
  Thread, Superpage,
  NULL,                   \* the null pointer
  FREE_SP_LIST_THRESHOLD

ASSUME NullAssumption == NULL \notin Superpage \cup Thread
ASSUME FiniteAssumption == IsFiniteSet(Thread) /\ IsFiniteSet(Superpage)
ASSUME NoFreeThread == "free" \notin Thread /\ "orphan" \notin Thread

VARIABLES
  g_free_sp_list,  \* the first superpage of the list, or NULL
  next,            \* sph->next
  g_free_sp_len,
  zone,            \* where a superpage is: "unmapped", on the "list", in a
                   \* "chain" a thread popped and will put back, or its "own"
  by,              \* the thread whose own, or whose chain, it is, or NULL
  pagemap,         \* TRUE: the pages of the superpage have a page block header
  pc,
  sph,             \* the superpage the thread allocates or frees
  next_sph,        \* the first of the rest it puts back
  last_sph,        \* the end of its walk along the rest
  cur_sph,         \* the head of the list as the thread last read it
  late             \* try_to_free_superpage: the pagemap is cleared afterwards

listVars == <<g_free_sp_list, next, g_free_sp_len>>
spVars   == <<zone, by, pagemap>>
thrVars  == <<pc, sph, next_sph, last_sph, cur_sph, late>>
vars     == <<listVars, spVars, thrVars>>

Ptr == Superpage \cup {NULL}

\* The thread has popped the list and not yet put back the rest.
RestPc == {"a_rest", "a_walk", "a_link", "a_push"}
\* It has counted the superpage it is going to push.
PushPc == {"f_link", "f_cas"}

PcValues == {"idle", "a_pop", "a_dec", "a_map", "a_set", "f_test", "f_inc",
             "t_clear"} \cup RestPc \cup PushPc

Zones == {"unmapped", "list", "chain", "own"}
Own(t) == {s \in Superpage : zone[s] = "own" /\ by[s] = t}
Chained(t, s) == zone[s] = "chain" /\ by[s] = t

Types ==
  /\ g_free_sp_list \in Ptr
  /\ next \in [Superpage -> Ptr]
  /\ g_free_sp_len \in Int
  /\ zone \in [Superpage -> Zones]
  /\ by \in [Superpage -> Thread \cup {NULL}]
  /\ pagemap \in [Superpage -> BOOLEAN]
  /\ pc \in [Thread -> PcValues]
  /\ sph \in [Thread -> Ptr]
  /\ next_sph \in [Thread -> Ptr]
  /\ last_sph \in [Thread -> Ptr]
  /\ cur_sph \in [Thread -> Ptr]
  /\ late \in [Thread -> BOOLEAN]

Init ==
  /\ g_free_sp_list = NULL
  /\ next = [s \in Superpage |-> NULL]
  /\ g_free_sp_len = 0
  /\ zone = [s \in Superpage |-> "unmapped"]
  /\ by = [s \in Superpage |-> NULL]
  /\ pagemap = [s \in Superpage |-> FALSE]
  /\ pc = [t \in Thread |-> "idle"]
  /\ sph = [t \in Thread |-> NULL]
  /\ next_sph = [t \in Thread |-> NULL]
  /\ last_sph = [t \in Thread |-> NULL]
  /\ cur_sph = [t \in Thread |-> NULL]
  /\ late = [t \in Thread |-> FALSE]

Goto(t, label) == pc' = [pc EXCEPT ![t] = label]

\* cas_ptr(&g_free_sp_list, old, new)
CasOk(old, new) == g_free_sp_list = old /\ g_free_sp_list' = new
CasFails(old)   == g_free_sp_list # old /\ UNCHANGED g_free_sp_list

\* The thread's whole chain is on the list again.
PutBack(t) ==
  /\ zone' = [s \in Superpage |-> IF Chained(t, s) THEN "list" ELSE zone[s]]
  /\ by' = [s \in Superpage |-> IF Chained(t, s) THEN NULL ELSE by[s]]

\* Superpage s leaves its owner.
LetGo(s, z) ==
  /\ zone' = [zone EXCEPT ![s] = z]
  /\ by' = [by EXCEPT ![s] = NULL]

\* The local variables of t end with the call.
Finish(t) ==
  /\ Goto(t, "idle")
  /\ sph' = [sph EXCEPT ![t] = NULL]
  /\ cur_sph' = [cur_sph EXCEPT ![t] = NULL]
  /\ late' = [late EXCEPT ![t] = FALSE]

----------------------------------------------------------------------------
(* sph_alloc                                                               *)

A_Read(t) ==
  /\ pc[t] = "idle"
  /\ sph' = [sph EXCEPT ![t] = g_free_sp_list]
  /\ Goto(t, IF g_free_sp_list = NULL THEN "a_map" ELSE "a_pop")
  /\ UNCHANGED <<listVars, spVars, next_sph, last_sph, cur_sph, late>>

\* Mutant of A_Pop: a plain store of NULL to the head.
A_PopByStore(t) ==
  /\ pc[t] = "a_pop"
  /\ g_free_sp_list' = NULL
  /\ zone' = [s \in Superpage |->
                IF s = sph[t] THEN "own"
                ELSE IF zone[s] = "list" THEN "chain" ELSE zone[s]]
  /\ by' = [s \in Superpage |->
              IF s = sph[t] \/ zone[s] = "list" THEN t ELSE by[s]]
  /\ Goto(t, "a_rest")
  /\ UNCHANGED <<next, g_free_sp_len, pagemap, sph, next_sph, last_sph,
                 cur_sph, late>>

\* Pop the whole list; its first superpage is the thread's.
A_Pop(t) ==
  /\ pc[t] = "a_pop"
  /\ \/ /\ CasOk(sph[t], NULL)
        /\ zone' = [s \in Superpage |->
                      IF s = sph[t] THEN "own"
                      ELSE IF zone[s] = "list" THEN "chain" ELSE zone[s]]
        /\ by' = [s \in Superpage |-> IF zone[s] = "list" THEN t ELSE by[s]]
        /\ Goto(t, "a_rest")
     \/ /\ CasFails(sph[t])
        /\ Goto(t, "a_map")
        /\ UNCHANGED <<zone, by>>
  /\ UNCHANGED <<next, g_free_sp_len, pagemap, sph, next_sph, last_sph,
                 cur_sph, late>>

A_Rest(t) ==
  /\ pc[t] = "a_rest"
  /\ LET rest == next[sph[t]]
     IN \/ /\ rest = NULL
           /\ Goto(t, "a_dec")
           /\ UNCHANGED <<g_free_sp_list, zone, by, next_sph, last_sph>>
        \/ /\ rest # NULL
           /\ CasOk(NULL, rest)
           /\ PutBack(t)
           /\ Goto(t, "a_dec")
           /\ UNCHANGED <<next_sph, last_sph>>
        \/ /\ rest # NULL
           /\ CasFails(NULL)
           /\ next_sph' = [next_sph EXCEPT ![t] = rest]
           /\ last_sph' = [last_sph EXCEPT ![t] = rest]
           /\ Goto(t, "a_walk")
           /\ UNCHANGED <<zone, by>>
  /\ UNCHANGED <<next, g_free_sp_len, pagemap, sph, cur_sph, late>>

\* Find the last superpage of the rest.
A_Walk(t) ==
  /\ pc[t] = "a_walk"
  /\ \/ /\ next[last_sph[t]] # NULL
        /\ last_sph' = [last_sph EXCEPT ![t] = next[@]]
        /\ UNCHANGED pc
     \/ /\ next[last_sph[t]] = NULL
        /\ Goto(t, "a_link")
        /\ UNCHANGED last_sph
  /\ UNCHANGED <<listVars, spVars, sph, next_sph, cur_sph, late>>

A_Link(t) ==
  /\ pc[t] = "a_link"
  /\ cur_sph' = [cur_sph EXCEPT ![t] = g_free_sp_list]
  /\ next' = [next EXCEPT ![last_sph[t]] = g_free_sp_list]
  /\ Goto(t, "a_push")
  /\ UNCHANGED <<g_free_sp_list, g_free_sp_len, spVars, sph, next_sph,
                 last_sph, late>>

\* Mutant of A_Push: a plain store of the head.
A_PushByStore(t) ==
  /\ pc[t] = "a_push"
  /\ g_free_sp_list' = next_sph[t]
  /\ PutBack(t)
  /\ Goto(t, "a_dec")
  /\ UNCHANGED <<next, g_free_sp_len, pagemap, sph, next_sph, last_sph,
                 cur_sph, late>>

A_Push(t) ==
  /\ pc[t] = "a_push"
  /\ \/ /\ CasOk(cur_sph[t], next_sph[t])
        /\ PutBack(t)
        /\ Goto(t, "a_dec")
     \/ /\ CasFails(cur_sph[t])
        /\ Goto(t, "a_link")
        /\ UNCHANGED <<zone, by>>
  /\ UNCHANGED <<next, g_free_sp_len, pagemap, sph, next_sph, last_sph,
                 cur_sph, late>>

A_Dec(t) ==
  /\ pc[t] = "a_dec"
  /\ g_free_sp_len' = g_free_sp_len - 1
  /\ next_sph' = [next_sph EXCEPT ![t] = NULL]
  /\ last_sph' = [last_sph EXCEPT ![t] = NULL]
  /\ Goto(t, "a_set")
  /\ UNCHANGED <<g_free_sp_list, next, spVars, sph, cur_sph, late>>

\* mmap returns memory that is not mapped, at any address.
A_Map(t) ==
  /\ pc[t] = "a_map"
  /\ \E s \in Superpage :
       /\ zone[s] = "unmapped"
       /\ zone' = [zone EXCEPT ![s] = "own"]
       /\ by' = [by EXCEPT ![s] = t]
       /\ sph' = [sph EXCEPT ![t] = s]
  /\ Goto(t, "a_set")
  /\ UNCHANGED <<listVars, pagemap, next_sph, last_sph, cur_sph, late>>

(* sph_list_prepend links the superpage into the thread's own list by the  *)
(* same field (as its only element here), and pb_alloc sets the pagemap.   *)
A_Set(t) ==
  /\ pc[t] = "a_set"
  /\ next' = [next EXCEPT ![sph[t]] = sph[t]]
  /\ pagemap' = [pagemap EXCEPT ![sph[t]] = TRUE]
  /\ Finish(t)
  /\ UNCHANGED <<g_free_sp_list, g_free_sp_len, zone, by, next_sph, last_sph>>

----------------------------------------------------------------------------
(* sph_free and the end of try_to_free_superpage                           *)

F_Start(t) ==
  /\ pc[t] = "idle"
  /\ \E s \in Own(t) :
       /\ sph' = [sph EXCEPT ![t] = s]
       /\ pagemap' = [pagemap EXCEPT ![s] = FALSE]
  /\ Goto(t, "f_test")
  /\ UNCHANGED <<listVars, zone, by, next_sph, last_sph, cur_sph, late>>

F_Test(t) ==
  /\ pc[t] = "f_test"
  /\ \/ /\ Goto(t, "f_inc")     \* hazardous, or the list is short
        /\ UNCHANGED <<zone, by, sph, cur_sph, late>>
     \/ /\ g_free_sp_len >= FREE_SP_LIST_THRESHOLD
        /\ LetGo(sph[t], "unmapped")
        /\ Finish(t)
  /\ UNCHANGED <<listVars, pagemap, next_sph, last_sph>>

T_Start(t) ==
  /\ pc[t] = "idle"
  /\ \E s \in Own(t) : sph' = [sph EXCEPT ![t] = s]
  /\ late' = [late EXCEPT ![t] = TRUE]
  /\ Goto(t, "f_inc")
  /\ UNCHANGED <<listVars, spVars, next_sph, last_sph, cur_sph>>

\* Mutant of F_Inc: the superpage is not counted.
F_IncForgotten(t) ==
  /\ pc[t] = "f_inc"
  /\ Goto(t, "f_link")
  /\ UNCHANGED <<listVars, spVars, sph, next_sph, last_sph, cur_sph, late>>

F_Inc(t) ==
  /\ pc[t] = "f_inc"
  /\ g_free_sp_len' = g_free_sp_len + 1
  /\ Goto(t, "f_link")
  /\ UNCHANGED <<g_free_sp_list, next, spVars, sph, next_sph, last_sph,
                 cur_sph, late>>

F_Link(t) ==
  /\ pc[t] = "f_link"
  /\ cur_sph' = [cur_sph EXCEPT ![t] = g_free_sp_list]
  /\ next' = [next EXCEPT ![sph[t]] = g_free_sp_list]
  /\ Goto(t, "f_cas")
  /\ UNCHANGED <<g_free_sp_list, g_free_sp_len, spVars, sph, next_sph,
                 last_sph, late>>

F_Cas(t) ==
  /\ pc[t] = "f_cas"
  /\ \/ /\ CasOk(cur_sph[t], sph[t])
        /\ LetGo(sph[t], "list")
        /\ IF late[t]
           THEN Goto(t, "t_clear") /\ UNCHANGED <<sph, cur_sph, late>>
           ELSE Finish(t)
     \/ /\ CasFails(cur_sph[t])
        /\ Goto(t, "f_link")
        /\ UNCHANGED <<zone, by, sph, cur_sph, late>>
  /\ UNCHANGED <<next, g_free_sp_len, pagemap, next_sph, last_sph>>

(* try_to_free_superpage clears the pagemap of a superpage that is already *)
(* on the list.  It reads start_page first, which ends the process if the  *)
(* superpage has been unmapped since.                                      *)
T_Clear(t) ==
  /\ pc[t] = "t_clear"
  /\ zone[sph[t]] # "unmapped"
  /\ pagemap' = [pagemap EXCEPT ![sph[t]] = FALSE]
  /\ Finish(t)
  /\ UNCHANGED <<listVars, zone, by, next_sph, last_sph>>

----------------------------------------------------------------------------
Step(t) ==
  \/ A_Read(t) \/ A_Pop(t) \/ A_Rest(t) \/ A_Walk(t) \/ A_Link(t)
  \/ A_Push(t) \/ A_Dec(t) \/ A_Map(t) \/ A_Set(t)
  \/ F_Start(t) \/ F_Test(t) \/ T_Start(t) \/ F_Inc(t) \/ F_Link(t)
  \/ F_Cas(t) \/ T_Clear(t)

Next == \E t \in Thread : Step(t)

Spec == Init /\ [][Next]_vars

----------------------------------------------------------------------------
(* Properties                                                              *)

(* The link a thread writes into the last superpage of its rest is on      *)
(* trial until the cas succeeds.                                           *)
OnTrial(t, s) == pc[t] \in {"a_link", "a_push"} /\ s = last_sph[t]

Link(s) == IF \E t \in Thread : OnTrial(t, s) THEN NULL ELSE next[s]

(* The superpages that can be reached from pointer p.                      *)
ChainFrom(p) ==
  LET reach[n \in 0..Cardinality(Superpage)] ==
        IF n = 0 THEN {p} \ {NULL}
        ELSE reach[n - 1] \cup ({Link(s) : s \in reach[n - 1]} \ {NULL})
  IN reach[Cardinality(Superpage)]

Rest(t) == IF pc[t] = "a_rest" THEN next[sph[t]] ELSE next_sph[t]

(* Pop-all and push lose no superpage and enter none twice: what is on the *)
(* list is what can be reached from its head, what a thread has popped is  *)
(* what can be reached from the rest it keeps, and no chain has a cycle.   *)
(* So the walk of sph_alloc along next ends, and a superpage is handed out *)
(* once.                                                                   *)
ListIntact ==
  /\ ChainFrom(g_free_sp_list) = {s \in Superpage : zone[s] = "list"}
  /\ \A t \in Thread :
       {s \in Superpage : Chained(t, s)} =
         IF pc[t] \in RestPc THEN ChainFrom(Rest(t)) ELSE {}
  /\ \A s \in Superpage :
       zone[s] \in {"list", "chain"} => s \notin ChainFrom(Link(s))

(* g_free_sp_len, which is changed before a push and after a pop, counts   *)
(* the superpages that are free or about to be pushed or just popped: it   *)
(* never drifts, and it is positive where sph_alloc asserts it (line 529). *)
LenExact ==
  /\ g_free_sp_len =
       Cardinality({s \in Superpage : zone[s] \in {"list", "chain"}})
         + Cardinality({t \in Thread :
                          pc[t] \in PushPc \cup RestPc \cup {"a_dec"}})
  /\ \A t \in Thread : pc[t] = "a_dec" => g_free_sp_len > 0

(* The inductive invariant of the refinement: the list and each thread's   *)
(* chain are closed under next (but for a link on trial), no superpage is  *)
(* pointed to twice, the first one of the list or of a rest not at all,    *)
(* and a thread works on superpages of its own.                            *)
HeadOK ==
  g_free_sp_list # NULL =>
    /\ zone[g_free_sp_list] = "list"
    /\ \A s \in Superpage : zone[s] = "list" => next[s] # g_free_sp_list

ListOK ==
  \A s \in Superpage : zone[s] = "list" /\ next[s] # NULL =>
    /\ zone[next[s]] = "list"
    /\ \A r \in Superpage : zone[r] = "list" /\ next[r] = next[s] => r = s

ChainOK ==
  \A t \in Thread, s \in Superpage :
    Chained(t, s) /\ ~ OnTrial(t, s) /\ next[s] # NULL =>
      /\ Chained(t, next[s])
      /\ \A r \in Superpage :
           Chained(t, r) /\ ~ OnTrial(t, r) /\ next[r] = next[s] => r = s

RestOK(t, p) ==
  /\ Chained(t, p)
  /\ \A s \in Superpage : Chained(t, s) /\ ~ OnTrial(t, s) => next[s] # p

ThreadOK(t) ==
  /\ pc[t] \in RestPc \cup PushPc \cup {"a_dec", "a_set", "f_test", "f_inc"} =>
       sph[t] \in Own(t)
  /\ pc[t] \in {"a_pop", "t_clear"} => sph[t] \in Superpage
  /\ pc[t] = "a_rest" => next[sph[t]] = NULL \/ RestOK(t, next[sph[t]])
  /\ pc[t] \in RestPc \ {"a_rest"} =>
       /\ next_sph[t] \in Superpage /\ RestOK(t, next_sph[t])
       /\ last_sph[t] \in Superpage /\ Chained(t, last_sph[t])
  /\ pc[t] = "a_push" => next[last_sph[t]] = cur_sph[t]
  /\ pc[t] = "f_cas" => next[sph[t]] = cur_sph[t]

TypeOK == Types /\ \A t \in Thread : ThreadOK(t)
IInv == TypeOK /\ HeadOK /\ ListOK /\ ChainOK

(* The list implements the pool of module Superpages: a superpage is       *)
(* acquired by the cas that pops it (or by mmap) and released by the cas   *)
(* that pushes it (or by munmap), and nobody acquires one that is owned.   *)
Promise == INSTANCE Superpages WITH
  Free <- "free", Orphan <- "orphan", Block <- {}, BlockSp <- <<>>, held <- {},
  holder <- [s \in Superpage |-> IF zone[s] = "own" THEN by[s] ELSE "free"]
KeepsPromise == Promise!SSpec

(* What free asserts of the pagemap (line 1586): a superpage that a thread *)
(* owns and is not about to free is found there.                           *)
HeaderFound ==
  \A t \in Thread : \A s \in Own(t) :
    (pc[t] = "idle" \/ s # sph[t]) => pagemap[s]
=============================================================================
