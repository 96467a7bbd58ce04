------------------------------ MODULE MCLists ------------------------------
(* The two lists all threads share without a lock, side by side: a         *)
(* behaviour is one of the list of free superpages or of the list of       *)
(* hazard pointers, which share no state.  In the first, all threads act   *)
(* and one superpage is missing, or two threads act on all superpages,     *)
(* which makes a rest of two that a thread has to walk through.            *)
EXTENDS FreeSpList, FiniteSetsExt, TLC

CONSTANTS
  HazardSp,  \* the superpages in hazard pointers
  HPS_PER_PAGE, MAX_NUM_THREADS

VARIABLES
  part,
  crew,      \* the threads that act on the list of free superpages
  heap,      \* the superpages they may map
  head, num_free, mapped, hpnext, active, count, node, g_id, thread_id,
  hazard_ptr, hppc, hp, top, target, set_all_along

hpVars == <<head, num_free, mapped, hpnext, active, count, node, g_id,
            thread_id, hazard_ptr, hppc, hp, top, target, set_all_along>>

Hazard == INSTANCE HazardPtr
          WITH Superpage <- HazardSp, pc <- hppc, sph <- target

\* What the theorems about HazardPtr take for granted of its constants.
ASSUME HazardConstants == Hazard!ConstantsOK

MCInit ==
  /\ Init /\ Hazard!Init
  /\ \/ /\ part = "hazard" /\ crew = {} /\ heap = {}
     \/ /\ part = "list"
        /\ \/ crew = Thread /\ \E s \in Superpage : heap = Superpage \ {s}
           \/ crew \in kSubset(2, Thread) /\ heap = Superpage

\* The threads and superpages left out stay as they were.
LeftOut ==
  /\ \A t \in Thread \ crew : pc'[t] = "idle"
  /\ \A s \in Superpage \ heap : zone'[s] = "unmapped"

mcVars == <<part, crew, heap>>

MCNext ==
  \/ part = "list"   /\ Next /\ LeftOut /\ UNCHANGED <<mcVars, hpVars>>
  \/ part = "hazard" /\ Hazard!Next     /\ UNCHANGED <<mcVars, vars>>

MCSpec == MCInit /\ [][MCNext]_<<mcVars, vars, hpVars>>

\* No hazard pointer and no thread id ever has two owners.
OneThreadEach == Hazard!OneThreadEach

\* Every hazard pointer is on the list of them, which ends.
ListComplete == Hazard!ListComplete

\* num_free is the number of inactive ones, but for the steps in between.
FreeCounted == Hazard!FreeCounted

\* A scan misses no hazard pointer that was set before it.
NoneMissed == Hazard!NoneMissed

\* Threads are interchangeable, and so are superpages.
Symmetry == Permutations(Thread) \cup Permutations(Superpage)
=============================================================================
