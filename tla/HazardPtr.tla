----------------------------- MODULE HazardPtr -----------------------------
(***************************************************************************)
(* The list of hazard pointers (src/sf_malloc_hazard.h), from the start of *)
(* a thread (tlh_init) to its end (sf_malloc_thread_exit).                 *)
(*                                                                         *)
(* A thread takes an inactive hazard pointer off the list, or maps a page  *)
(* of new ones, and keeps it until it exits.  One action is one access to  *)
(* what threads share.  The allocator never has more than one superpage in *)
(* a hazard pointer, so node is one place here, count is 0 or 1, and what  *)
(* hazard_ptr_clr does to move the last node is moving it onto itself.     *)
(* Stores take effect in program order: pushing the block, which comes     *)
(* before anybody can scan for its superpage, is a locked instruction.     *)
(***************************************************************************)
EXTENDS Integers, FiniteSets

CONSTANTS
  Thread, Superpage, NULL,
  HPS_PER_PAGE,     \* PAGE_SIZE / sizeof(hazard_ptr_t)
  MAX_NUM_THREADS   \* the id that the program refuses to give to a thread

\* What the program's constants are like.  A page holds at least one hazard
\* pointer, and NULL is none of them, nor a superpage.
ConstantsOK ==
  /\ IsFiniteSet(Thread)
  /\ HPS_PER_PAGE \in Nat \ {0}
  /\ MAX_NUM_THREADS \in Nat \ {0}
  /\ NULL \notin Nat /\ NULL \notin Superpage

VARIABLES
  head, num_free,   \* g_hazard_list; num_free is an int here, tested with # 0
  mapped,           \* pages of hazard pointers mapped so far
  hpnext, active, count, node,  \* of each hazard pointer
  g_id, thread_id,
  hazard_ptr,       \* tlh->hazard_ptr
  pc,
  hp,               \* where a thread's walk along the list is
  top,              \* the head it has read
  sph,              \* the superpage it sets, clears or scans for
  set_all_along     \* of a scan: threads that have had sph set since its start

listVars == <<head, num_free, mapped, hpnext, active>>
nodeVars == <<count, node>>
thrVars  == <<thread_id, hazard_ptr, pc, hp, top, sph>>
vars     == <<listVars, nodeVars, g_id, thrVars, set_all_along>>

\* Hazard pointers by number: page after page, at most one page per thread.
Hp == 1 .. HPS_PER_PAGE * (MAX_NUM_THREADS - 1)

\* The page whose first hazard pointer is f, and its last one.
Last(f)   == f + HPS_PER_PAGE - 1
PageAt(f) == f .. Last(f)

Init ==
  /\ head = NULL /\ num_free = 0 /\ mapped = 0
  /\ hpnext = [h \in Hp |-> NULL]
  /\ active = [h \in Hp |-> 0]
  /\ count = [h \in Hp |-> 0] /\ node = [h \in Hp |-> NULL]
  /\ g_id = 1 /\ thread_id = [t \in Thread |-> 0]
  /\ hazard_ptr = [t \in Thread |-> NULL]
  /\ pc = [t \in Thread |-> "off"]
  /\ hp = [t \in Thread |-> NULL] /\ top = [t \in Thread |-> NULL]
  /\ sph = [t \in Thread |-> NULL]
  /\ set_all_along = [t \in Thread |-> {}]

Goto(t, from, to) == pc[t] = from /\ pc' = [pc EXCEPT ![t] = to]

----------------------------------------------------------------------------
(* tlh_init and hazard_ptr_alloc                                           *)

\* A thread of the program starts, or one takes the place of one that ended: it
\* takes an id, which no other thread looks at, and then reads num_free.
Start(t) ==
  /\ Goto(t, "off", IF num_free # 0 THEN "walk" ELSE "map")
  /\ g_id < MAX_NUM_THREADS
  /\ g_id' = g_id + 1
  /\ thread_id' = [thread_id EXCEPT ![t] = g_id]
  /\ hp' = [hp EXCEPT ![t] = IF num_free # 0 THEN head ELSE NULL]
  /\ UNCHANGED <<listVars, nodeVars, hazard_ptr, top, sph, set_all_along>>

\* hp->active is read; at the end of the list the walk was in vain.
Walk(t) ==
  /\ pc[t] = "walk"
  /\ \/ /\ hp[t] = NULL
        /\ pc' = [pc EXCEPT ![t] = "map"]
        /\ UNCHANGED hp
     \/ /\ hp[t] # NULL /\ active[hp[t]] = 1
        /\ hp' = [hp EXCEPT ![t] = hpnext[hp[t]]]
        /\ UNCHANGED pc
     \/ /\ hp[t] # NULL /\ active[hp[t]] = 0
        /\ pc' = [pc EXCEPT ![t] = "xchg"]
        /\ UNCHANGED hp
  /\ UNCHANGED <<listVars, nodeVars, g_id, thread_id, hazard_ptr, top, sph,
                 set_all_along>>

\* Mutant of Xchg: what the exchange returns is not looked at.
XchgBlindly(t) ==
  /\ Goto(t, "xchg", "dec")
  /\ active' = [active EXCEPT ![hp[t]] = 1]
  /\ UNCHANGED <<head, num_free, mapped, hpnext, nodeVars, g_id, thread_id,
                 hazard_ptr, hp, top, sph, set_all_along>>

Xchg(t) ==
  /\ Goto(t, "xchg", IF active[hp[t]] = 1 THEN "walk" ELSE "dec")
  /\ active' = [active EXCEPT ![hp[t]] = 1]
  /\ hp' = [hp EXCEPT ![t] = IF active[@] = 1 THEN hpnext[@] ELSE @]
  /\ UNCHANGED <<head, num_free, mapped, hpnext, nodeVars, g_id, thread_id,
                 hazard_ptr, top, sph, set_all_along>>

Take(t) ==
  /\ Goto(t, "dec", "idle")
  /\ num_free' = num_free - 1
  /\ count' = [count EXCEPT ![hp[t]] = 0]
  /\ node' = [node EXCEPT ![hp[t]] = NULL]
  /\ hazard_ptr' = [hazard_ptr EXCEPT ![t] = hp[t]]
  /\ hp' = [hp EXCEPT ![t] = NULL]
  /\ UNCHANGED <<head, mapped, hpnext, active, g_id, thread_id, top, sph,
                 set_all_along>>

\* A new page: the first hazard pointer is the thread's.
MapPage(t) ==
  LET f == mapped * HPS_PER_PAGE + 1
  IN /\ Goto(t, "map", "link")
     /\ mapped' = mapped + 1
     /\ active' = [active EXCEPT ![f] = 1]
     /\ hpnext' = [h \in Hp |-> IF h \in PageAt(f) \ {Last(f)}
                                THEN h + 1 ELSE hpnext[h]]
     /\ hazard_ptr' = [hazard_ptr EXCEPT ![t] = f]
     /\ UNCHANGED <<head, num_free, nodeVars, g_id, thread_id, hp, top, sph,
                    set_all_along>>

LinkPage(t) ==
  /\ Goto(t, "link", "cas")
  /\ top' = [top EXCEPT ![t] = head]
  /\ hpnext' = [hpnext EXCEPT ![Last(hazard_ptr[t])] = head]
  /\ UNCHANGED <<head, num_free, mapped, active, nodeVars, g_id, thread_id,
                 hazard_ptr, hp, sph, set_all_along>>

\* Mutant of CasPage: the head is stored without a comparison.
StorePage(t) ==
  /\ Goto(t, "cas", "add")
  /\ head' = hazard_ptr[t]
  /\ top' = [top EXCEPT ![t] = NULL]
  /\ UNCHANGED <<num_free, mapped, hpnext, active, nodeVars, g_id, thread_id,
                 hazard_ptr, hp, sph, set_all_along>>

CasPage(t) ==
  /\ Goto(t, "cas", IF head = top[t] THEN "add" ELSE "link")
  /\ head' = IF head = top[t] THEN hazard_ptr[t] ELSE head
  /\ top' = [top EXCEPT ![t] = NULL]
  /\ UNCHANGED <<num_free, mapped, hpnext, active, nodeVars, g_id, thread_id,
                 hazard_ptr, hp, sph, set_all_along>>

\* Mutant of AddFree: the first one of the page is counted too.
AddPage(t) ==
  /\ Goto(t, "add", "idle")
  /\ num_free' = num_free + HPS_PER_PAGE
  /\ UNCHANGED <<head, mapped, hpnext, active, nodeVars, g_id, thread_id,
                 hazard_ptr, hp, top, sph, set_all_along>>

AddFree(t) ==
  /\ Goto(t, "add", "idle")
  /\ num_free' = num_free + HPS_PER_PAGE - 1
  /\ UNCHANGED <<head, mapped, hpnext, active, nodeVars, g_id, thread_id,
                 hazard_ptr, hp, top, sph, set_all_along>>

----------------------------------------------------------------------------
(* hazard_ptr_set and hazard_ptr_clr, in remote_free and pb_remote_free    *)

SetCount(t, s) ==
  /\ Goto(t, "idle", "set")
  /\ sph' = [sph EXCEPT ![t] = s]
  /\ count' = [count EXCEPT ![hazard_ptr[t]] = 1]
  /\ UNCHANGED <<listVars, node, g_id, thread_id, hazard_ptr, hp, top,
                 set_all_along>>

\* The target is a local variable of the caller: it never changes.
SetNode(t) ==
  /\ Goto(t, "set", "work")
  /\ node' = [node EXCEPT ![hazard_ptr[t]] = sph[t]]
  /\ UNCHANGED <<listVars, count, g_id, thread_id, hazard_ptr, hp, top, sph,
                 set_all_along>>

\* The thread's work on the superpage is over.
ClrNode(t) ==
  /\ Goto(t, "work", "clr")
  /\ node' = [node EXCEPT ![hazard_ptr[t]] = NULL]
  /\ set_all_along' = [u \in Thread |-> set_all_along[u] \ {t}]
  /\ UNCHANGED <<listVars, count, g_id, thread_id, hazard_ptr, hp, top, sph>>

ClrCount(t) ==
  /\ Goto(t, "clr", "idle")
  /\ count' = [count EXCEPT ![hazard_ptr[t]] = 0]
  /\ sph' = [sph EXCEPT ![t] = NULL]
  /\ UNCHANGED <<listVars, node, g_id, thread_id, hazard_ptr, hp, top,
                 set_all_along>>

----------------------------------------------------------------------------
(* hazard_ptr_scan_single, in sph_free                                     *)

IsSet(t, s) == pc[t] = "work" /\ sph[t] = s

Scan(t, s) ==
  /\ Goto(t, "idle", "scan")
  /\ hp' = [hp EXCEPT ![t] = head]
  /\ sph' = [sph EXCEPT ![t] = s]
  /\ set_all_along' =
       [set_all_along EXCEPT ![t] = {u \in Thread : IsSet(u, s)}]
  /\ UNCHANGED <<listVars, nodeVars, g_id, thread_id, hazard_ptr, top>>

\* Mutant of ScanCount: an inactive one ends the walk.
ScanCountActive(t) ==
  LET h == hp[t]
  IN /\ pc[t] = "scan" /\ h # NULL
     /\ \/ /\ count[h] = 0
           /\ hp' = [hp EXCEPT ![t] =
                       IF active[h] = 1 THEN hpnext[h] ELSE NULL]
           /\ UNCHANGED pc
        \/ /\ count[h] # 0
           /\ pc' = [pc EXCEPT ![t] = "node"]
           /\ UNCHANGED hp
     /\ UNCHANGED <<listVars, nodeVars, g_id, thread_id, hazard_ptr, top, sph,
                    set_all_along>>

ScanCount(t) ==
  LET h == hp[t]
  IN /\ pc[t] = "scan" /\ h # NULL
     /\ \/ /\ count[h] = 0
           /\ hp' = [hp EXCEPT ![t] = hpnext[h]]
           /\ UNCHANGED pc
        \/ /\ count[h] # 0
           /\ pc' = [pc EXCEPT ![t] = "node"]
           /\ UNCHANGED hp
     /\ UNCHANGED <<listVars, nodeVars, g_id, thread_id, hazard_ptr, top, sph,
                    set_all_along>>

\* It was counted: is it the one?
ScanNode(t) ==
  LET found == node[hp[t]] = sph[t]
  IN /\ Goto(t, "node", IF found THEN "idle" ELSE "scan")
     /\ hp' = [hp EXCEPT ![t] = IF found THEN NULL ELSE hpnext[@]]
     /\ sph' = [sph EXCEPT ![t] = IF found THEN NULL ELSE @]
     /\ set_all_along' = [set_all_along EXCEPT ![t] = IF found THEN {} ELSE @]
     /\ UNCHANGED <<listVars, nodeVars, g_id, thread_id, hazard_ptr, top>>

\* The scan returns false.
ScanFalse(t) ==
  /\ Goto(t, "scan", "idle") /\ hp[t] = NULL
  /\ sph' = [sph EXCEPT ![t] = NULL]
  /\ set_all_along' = [set_all_along EXCEPT ![t] = {}]
  /\ UNCHANGED <<listVars, nodeVars, g_id, thread_id, hazard_ptr, hp, top>>

----------------------------------------------------------------------------
(* sf_malloc_thread_exit and hazard_ptr_free                               *)

FreeActive(t) ==
  /\ Goto(t, "idle", "inc")
  /\ count' = [count EXCEPT ![hazard_ptr[t]] = 0]
  /\ active' = [active EXCEPT ![hazard_ptr[t]] = 0]
  /\ UNCHANGED <<head, num_free, mapped, hpnext, node, g_id, thread_id,
                 hazard_ptr, hp, top, sph, set_all_along>>

FreeInc(t) ==
  /\ Goto(t, "inc", "off")
  /\ num_free' = num_free + 1
  /\ hazard_ptr' = [hazard_ptr EXCEPT ![t] = NULL]
  /\ thread_id' = [thread_id EXCEPT ![t] = 0]
  /\ UNCHANGED <<head, mapped, hpnext, active, nodeVars, g_id, hp, top, sph,
                 set_all_along>>

Next ==
  \E t \in Thread :
    \/ Start(t) \/ Walk(t) \/ Xchg(t) \/ Take(t)
    \/ MapPage(t) \/ LinkPage(t) \/ CasPage(t) \/ AddFree(t)
    \/ \E s \in Superpage : SetCount(t, s) \/ Scan(t, s)
    \/ SetNode(t) \/ ClrNode(t) \/ ClrCount(t)
    \/ ScanCount(t) \/ ScanNode(t) \/ ScanFalse(t)
    \/ FreeActive(t) \/ FreeInc(t)

Spec == Init /\ [][Next]_vars

----------------------------------------------------------------------------
(* Properties                                                              *)

Threads(label) == {t \in Thread : pc[t] = label}

\* The hazard pointers a thread has taken, whether it knows it yet or not, and
\* not given back.
Held(t) ==
  (CASE pc[t] = "dec" -> {hazard_ptr[t], hp[t]}
     [] pc[t] = "inc" -> {}
     [] OTHER -> {hazard_ptr[t]}) \ {NULL}

\* Threads that start and exit at once never share a hazard pointer, nor have
\* two, nor an id, which OwnerMark takes for granted of owner_id; and one that
\* is held is active.
OneThreadEach ==
  /\ \A t, u \in Thread : t # u =>
       /\ Held(t) \cap Held(u) = {}
       /\ thread_id[t] # thread_id[u] \/ thread_id[t] = 0
  /\ \A t \in Thread :
       /\ Cardinality(Held(t)) <= 1
       /\ \A h \in Held(t) : active[h] = 1

\* listed[k]: the k-th on the list, or NULL.
Listed ==
  LET Nxt(h) == IF h = NULL THEN NULL ELSE hpnext[h]
      listed[k \in 0 .. Cardinality(Hp)] ==
        IF k = 0 THEN head ELSE Nxt(listed[k - 1])
  IN listed

\* The hazard pointers of the pages mapped, but for those a thread has yet to
\* put on the list.
Known ==
  {h \in 1 .. HPS_PER_PAGE * mapped :
     \A t \in Threads("link") \cup Threads("cas") :
       h \notin PageAt(hazard_ptr[t])}

\* Whatever threads push their pages at once, the list ends, and on it is every
\* hazard pointer there is: a scan comes past all that are in use.
ListComplete ==
  LET n == Cardinality(Known)
  IN Listed[n] = NULL /\ {Listed[k] : k \in 0 .. n} \ {NULL} = Known

\* num_free is what the list has free, but for the threads between an access to
\* active, or to the list, and the one to num_free.  It may be negative, that
\* is, wrap, but comes right again: the allocator neither stops searching the
\* list for good nor searches it in vain for good.
FreeCounted ==
  num_free = Cardinality({h \in Known : active[h] = 0})
             + Cardinality(Threads("dec")) - Cardinality(Threads("inc"))
             - (HPS_PER_PAGE - 1) * Cardinality(Threads("add"))

\* A scan that finds nothing has missed nobody who has had the superpage in a
\* hazard pointer since before it began, however much the list has grown and
\* the hazard pointers have changed hands meanwhile.
NoneMissed ==
  \A t \in Thread : pc[t] = "scan" /\ hp[t] = NULL => set_all_along[t] = {}
=============================================================================
