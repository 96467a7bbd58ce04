-------------------------- MODULE OwnerMark_proof --------------------------
(* Theorems about OwnerMark, for every set of threads, superpages, page    *)
(* blocks and blocks.                                                      *)
EXTENDS OwnerMark, TLAPS

USE DEF NONE, DO_NOT_FINISH, EMPTY

LEMMA StoreType ==
  ASSUME VarTypes, NEW t \in Thread, NEW s \in Superpage,
         NEW m \in {NONE, DO_NOT_FINISH}, Store(t, s, m)
  PROVE  /\ finish_mark' \in [Superpage -> {NONE, DO_NOT_FINISH}]
         /\ sb' \in [Thread -> [Superpage -> {EMPTY, NONE, DO_NOT_FINISH}]]
<1>1. CASE StoreBuffers
  <2>1. sb' = [sb EXCEPT ![t] = [sb[t] EXCEPT ![s] = m]] /\ finish_mark' = finish_mark
    BY <1>1 DEF Store
  <2>2. [sb[t] EXCEPT ![s] = m] \in [Superpage -> {EMPTY, NONE, DO_NOT_FINISH}]
    BY DEF VarTypes
  <2> QED BY <2>1, <2>2 DEF VarTypes
<1>2. CASE ~ StoreBuffers
  BY <1>2 DEF Store, VarTypes
<1> QED BY <1>1, <1>2

(* sph_free moves one superpage to the pool or out of memory.              *)
LEMMA SphFreeType ==
  ASSUME VarTypes, NEW t \in Thread, cur[t] \in Superpage, SphFree(t)
  PROVE  /\ hazard_mark' \in [Superpage -> BOOLEAN]
         /\ where' \in [Superpage -> {"unmapped", "pool", "used"}]
         /\ sb' \in [Thread -> [Superpage -> {EMPTY, NONE, DO_NOT_FINISH}]]
         /\ where'[cur[t]] # "used"
         /\ \A r \in Superpage \ {cur[t]} : where'[r] = where[r]
         /\ \/ sb' = sb
            \/ sb' = [u \in Thread |-> [sb[u] EXCEPT ![cur[t]] = EMPTY]]
<1> DEFINE s == cur[t]
           hz == hazard_mark[s] /\ \E u \in Thread : hazard[u] = s
           po == hz \/ Cardinality(Pool) < FREE_SP_LIST_THRESHOLD
<1>1. /\ hazard_mark' = [hazard_mark EXCEPT ![s] = hz]
      /\ where' = [where EXCEPT ![s] = IF po THEN "pool" ELSE "unmapped"]
      /\ sb' = IF po THEN sb
               ELSE [u \in Thread |-> [sb[u] EXCEPT ![s] = EMPTY]]
  BY DEF SphFree
<1>2. hz \in BOOLEAN /\ po \in BOOLEAN
  BY DEF VarTypes
<1> HIDE DEF hz, po
<1>3. sb' \in [Thread -> [Superpage -> {EMPTY, NONE, DO_NOT_FINISH}]]
  BY <1>1, <1>2 DEF VarTypes
<1> QED BY <1>1, <1>2, <1>3 DEF VarTypes

(* The return ends, or goes on to sph_free.                                *)
LEMMA LocalReturnPc ==
  ASSUME VarTypes, NEW t \in Thread, NEW s \in Superpage, NEW R,
         LocalReturn(t, s, R)
  PROVE  /\ pc' \in [Thread -> PcValues]
         /\ cur' \in [Thread -> Superpage \cup {NoSp}]
         /\ \A u \in Thread \ {t} : pc'[u] = pc[u] /\ cur'[u] = cur[u]
         /\ \/ pc'[t] = "idle" /\ cur'[t] = NoSp
            \/ pc'[t] = "sph_free" /\ cur'[t] = s
<1>1. CASE Idle(t)
  BY <1>1 DEF Idle, VarTypes, PcValues
<1>2. CASE /\ pc' = [pc EXCEPT ![t] = "sph_free"]
           /\ cur' = [cur EXCEPT ![t] = s]
  BY <1>2 DEF VarTypes, PcValues, OwningPc
<1> QED BY <1>1, <1>2 DEF LocalReturn

(* An owner that returns blocks frees at most their page block, once all   *)
(* its blocks are back, and goes on to sph_free only with all page blocks  *)
(* of the superpage free.                                                  *)
LEMMA LocalReturnType ==
  ASSUME VarTypes, NEW t \in Thread, NEW s \in Superpage, NEW R,
         LocalReturn(t, s, R)
  PROVE  /\ in_use' \subseteq in_use /\ out' = out \ R /\ remote' \subseteq remote
         /\ \A b \in R : b \in Block => SpOfBlock(b) = s
         /\ \A p \in in_use \ in_use' : SpOf[p] = s /\
               (out \cup remote') \cap BlocksOf(p) \subseteq R
         /\ pc'[t] = "sph_free" => \A p \in in_use' : SpOf[p] # s
<1> PICK p \in PbsOf(s) :
      /\ R \subseteq BlocksOf(p)
      /\ out' = out \ R
      /\ \/ /\ Idle(t)
            /\ UNCHANGED <<in_use, remote>>
         \/ /\ out \cap BlocksOf(p) = R
            /\ in_use' = in_use \ {p}
            /\ remote' = remote \ BlocksOf(p)
            /\ \/ Idle(t)
               \/ /\ in_use \cap PbsOf(s) = {p}
                  /\ pc' = [pc EXCEPT ![t] = "sph_free"]
                  /\ cur' = [cur EXCEPT ![t] = s]
  BY DEF LocalReturn
<1>1. \A b \in R : b \in Block => SpOfBlock(b) = s
  BY DEF BlocksOf, PbsOf, SpOfBlock
<1>2. CASE Idle(t) /\ UNCHANGED <<in_use, remote>>
  BY <1>1, <1>2 DEF Idle, VarTypes
<1>3. CASE /\ out \cap BlocksOf(p) = R
           /\ in_use' = in_use \ {p}
           /\ remote' = remote \ BlocksOf(p)
           /\ \/ Idle(t)
              \/ /\ in_use \cap PbsOf(s) = {p}
                 /\ pc' = [pc EXCEPT ![t] = "sph_free"]
                 /\ cur' = [cur EXCEPT ![t] = s]
  <2>1. \A q \in in_use \ in_use' : SpOf[q] = s /\
               (out \cup remote') \cap BlocksOf(q) \subseteq R
    BY <1>3 DEF PbsOf, BlocksOf
  <2>2. in_use \cap PbsOf(s) = {p} => \A q \in in_use' : SpOf[q] # s
    BY <1>3 DEF PbsOf, VarTypes
  <2> QED BY <1>1, <1>3, <2>1, <2>2 DEF Idle, VarTypes
<1> QED BY <1>2, <1>3

(* Returning blocks: to a page block of one's own, or the start of         *)
(* remote_free.                                                            *)
LEMMA ReturnCases ==
  ASSUME VarTypes, NEW t \in Thread, Return(t)
  PROVE  \E s \in Superpage, R \in SUBSET out :
    /\ R # {} /\ \A u \in Thread : run[u] \cap R = {}
    /\ pc[t] = "idle"
    /\ UNCHANGED <<todo, cnt_inuse, sphVars, memVars>>
    /\ \/ /\ owner[s] = t
          /\ LocalReturn(t, s, R)
          /\ UNCHANGED <<run, hazard>>
       \/ /\ \E p \in PbsOf(s) : R \subseteq BlocksOf(p)
          /\ pc' = [pc EXCEPT ![t] = "rf_check"]
          /\ cur' = [cur EXCEPT ![t] = s]
          /\ run' = [run EXCEPT ![t] = R]
          /\ hazard' = [hazard EXCEPT ![t] = s]
          /\ UNCHANGED blkVars
<1> PICK p \in in_use : \E R \in SUBSET (out \cap BlocksOf(p)) :
         /\ R # {}
         /\ \A u \in Thread : run[u] \cap R = {}
         /\ IF owner[SpOf[p]] = t
            THEN /\ LocalReturn(t, SpOf[p], R)
                 /\ UNCHANGED <<run, hazard>>
            ELSE /\ pc' = [pc EXCEPT ![t] = "rf_check"]
                 /\ cur' = [cur EXCEPT ![t] = SpOf[p]]
                 /\ run' = [run EXCEPT ![t] = R]
                 /\ hazard' = [hazard EXCEPT ![t] = SpOf[p]]
                 /\ UNCHANGED blkVars
  BY DEF Return
<1> PICK R \in SUBSET (out \cap BlocksOf(p)) :
         /\ R # {}
         /\ \A u \in Thread : run[u] \cap R = {}
         /\ IF owner[SpOf[p]] = t
            THEN /\ LocalReturn(t, SpOf[p], R)
                 /\ UNCHANGED <<run, hazard>>
            ELSE /\ pc' = [pc EXCEPT ![t] = "rf_check"]
                 /\ cur' = [cur EXCEPT ![t] = SpOf[p]]
                 /\ run' = [run EXCEPT ![t] = R]
                 /\ hazard' = [hazard EXCEPT ![t] = SpOf[p]]
                 /\ UNCHANGED blkVars
  OBVIOUS
<1>1. /\ SpOf[p] \in Superpage /\ p \in PbsOf(SpOf[p]) /\ pc[t] = "idle"
      /\ UNCHANGED <<todo, cnt_inuse, sphVars, memVars>>
  BY SpOfAssumption DEF VarTypes, Return, PbsOf
<1>2. R \in SUBSET out /\ R \subseteq BlocksOf(p)
  OBVIOUS
<1>3. CASE owner[SpOf[p]] = t
  BY <1>1, <1>2, <1>3
<1>4. CASE owner[SpOf[p]] # t
  BY <1>1, <1>2, <1>4
<1> QED BY <1>3, <1>4

----------------------------------------------------------------------------
(* Type correctness: first the types of the variables, then what relates a *)
(* thread's local variables.                                               *)
USE DEF PcValues, RunPc, HazardPc, OwningPc, PushPc, WalkPc, FinishPc

LEMMA TypeInit == Init => TypeOK
BY SuperpageAssumption DEF Init, TypeOK, VarTypes, LocalOK

LEMMA VarTypesStep ==
  ASSUME TypeOK, [Next]_vars
  PROVE  VarTypes'
<1> VarTypes /\ \A t \in Thread : LocalOK(t)
  BY DEF TypeOK
<1> USE SpOfAssumption, PbOfAssumption
<1>1. ASSUME NEW t \in Thread, NewPb(t) PROVE VarTypes'
  BY <1>1 DEF NewPb, Carve, BlocksOf, VarTypes, sphVars, memVars, thrVars
<1>2. ASSUME NEW t \in Thread, SphAlloc(t) PROVE VarTypes'
  <2>1. UNCHANGED <<sb, hazard, pc, cur, run, todo, cnt_inuse>>
    BY <1>2 DEF SphAlloc, thrVars
  <2>2. /\ owner' \in [Superpage -> Thread \cup {DEAD_OWNER}]
        /\ where' \in [Superpage -> {"unmapped", "pool", "used"}]
    <3> PICK s \in Superpage : /\ where' = [where EXCEPT ![s] = "used"]
                               /\ owner' = [owner EXCEPT ![s] = t]
      BY <1>2 DEF SphAlloc
    <3> QED BY DEF VarTypes
  <2>3. /\ finish_mark' \in [Superpage -> {NONE, DO_NOT_FINISH}]
        /\ hazard_mark' \in [Superpage -> BOOLEAN]
    <3> PICK s \in Superpage :
          \/ UNCHANGED <<finish_mark, hazard_mark>>
          \/ /\ finish_mark' = [finish_mark EXCEPT ![s] = NONE]
             /\ hazard_mark' = [hazard_mark EXCEPT ![s] = FALSE]
      BY <1>2 DEF SphAlloc
    <3>1. finish_mark' \in [Superpage -> {NONE, DO_NOT_FINISH}]
      BY DEF VarTypes
    <3>2. hazard_mark' \in [Superpage -> BOOLEAN]
      BY DEF VarTypes
    <3> QED BY <3>1, <3>2
  <2>4. in_use' \subseteq Pb /\ out' \subseteq Block /\ remote' \subseteq Block
    BY <1>2 DEF SphAlloc, Carve, BlocksOf, PbsOf, VarTypes
  <2> QED BY <2>1, <2>2, <2>3, <2>4 DEF VarTypes
<1>3. ASSUME NEW t \in Thread, ReusePb(t) PROVE VarTypes'
  BY <1>3 DEF ReusePb, BlocksOf, VarTypes, sphVars, memVars, thrVars
<1>4. ASSUME NEW t \in Thread, Return(t) PROVE VarTypes'
  <2> PICK s \in Superpage, R \in SUBSET out :
         /\ R # {} /\ \A u \in Thread : run[u] \cap R = {}
         /\ pc[t] = "idle"
         /\ UNCHANGED <<todo, cnt_inuse, sphVars, memVars>>
         /\ \/ /\ owner[s] = t
               /\ LocalReturn(t, s, R)
               /\ UNCHANGED <<run, hazard>>
            \/ /\ \E p \in PbsOf(s) : R \subseteq BlocksOf(p)
               /\ pc' = [pc EXCEPT ![t] = "rf_check"]
               /\ cur' = [cur EXCEPT ![t] = s]
               /\ run' = [run EXCEPT ![t] = R]
               /\ hazard' = [hazard EXCEPT ![t] = s]
               /\ UNCHANGED blkVars
    BY <1>4, ReturnCases
  <2>1. CASE /\ owner[s] = t
             /\ LocalReturn(t, s, R)
             /\ UNCHANGED <<run, hazard>>
    <3>1. /\ pc' \in [Thread -> PcValues]
          /\ cur' \in [Thread -> Superpage \cup {NoSp}]
      BY <2>1, LocalReturnPc
    <3>2. in_use' \subseteq Pb /\ out' \subseteq Block /\ remote' \subseteq Block
      BY <2>1, LocalReturnType DEF VarTypes
    <3> QED BY <2>1, <3>1, <3>2 DEF VarTypes, sphVars, memVars
  <2>2. CASE /\ \E p \in PbsOf(s) : R \subseteq BlocksOf(p)
             /\ pc' = [pc EXCEPT ![t] = "rf_check"]
             /\ cur' = [cur EXCEPT ![t] = s]
             /\ run' = [run EXCEPT ![t] = R]
             /\ hazard' = [hazard EXCEPT ![t] = s]
             /\ UNCHANGED blkVars
    <3>1. R \in SUBSET Block
      BY DEF VarTypes
    <3> QED BY <2>2, <3>1 DEF VarTypes, sphVars, memVars, blkVars
  <2> QED BY <2>1, <2>2
<1>5. ASSUME NEW t \in Thread, Exit(t) PROVE VarTypes'
  BY <1>5 DEF Exit, VarTypes, sphVars, blkVars, memVars
<1>6. ASSUME NEW t \in Thread, RF_Check(t) PROVE VarTypes'
  <2> DEFINE ps == PbsOf(cur[t])
  <2>0. ps \in SUBSET Pb
    BY DEF PbsOf
  <2>1. \/ /\ owner' = [owner EXCEPT ![cur[t]] = t]
           /\ todo' = [todo EXCEPT ![t] = ps]
        \/ owner' = owner /\ todo' = todo
    BY <1>6 DEF RF_Check, Take
  <2> HIDE DEF ps
  <2>2. /\ pc' \in [Thread -> PcValues]
        /\ cur' \in [Thread -> Superpage \cup {NoSp}]
        /\ hazard' \in [Thread -> Superpage \cup {NoSp}]
    BY <1>6 DEF RF_Check, Take, VarTypes
  <2>3. UNCHANGED <<hazard_mark, where, blkVars, memVars, run, cnt_inuse>>
    BY <1>6 DEF RF_Check
  <2>4. owner' \in [Superpage -> Thread \cup {DEAD_OWNER}]
    BY <2>1 DEF VarTypes
  <2>5. todo' \in [Thread -> SUBSET Pb]
    BY <2>0, <2>1 DEF VarTypes
  <2> QED BY <2>2, <2>3, <2>4, <2>5 DEF VarTypes, blkVars, memVars
<1>7. ASSUME NEW t \in Thread, RF_Push(t) PROVE VarTypes'
  BY <1>7 DEF RF_Push, VarTypes, sphVars, memVars
<1>8. ASSUME NEW t \in Thread, RF_Mark(t) PROVE VarTypes'
  <2>1. cur[t] \in Superpage
    BY <1>8 DEF RF_Mark, LocalOK
  <2> QED BY <1>8, <2>1, StoreType DEF RF_Mark, VarTypes, sphVars, blkVars
<1>9. ASSUME NEW t \in Thread, RF_Recheck(t) PROVE VarTypes'
  <2> DEFINE ps == PbsOf(cur[t])
  <2>0. ps \in SUBSET Pb
    BY DEF PbsOf
  <2>1. \/ /\ owner' = [owner EXCEPT ![cur[t]] = t]
           /\ todo' = [todo EXCEPT ![t] = ps]
        \/ owner' = owner /\ todo' = todo
    BY <1>9 DEF RF_Recheck, Idle, Take
  <2> HIDE DEF ps
  <2>2. /\ pc' \in [Thread -> PcValues]
        /\ cur' \in [Thread -> Superpage \cup {NoSp}]
        /\ hazard' \in [Thread -> Superpage \cup {NoSp}]
    BY <1>9 DEF RF_Recheck, Idle, Take, VarTypes
  <2>3. UNCHANGED <<hazard_mark, where, blkVars, memVars, run, cnt_inuse>>
    BY <1>9 DEF RF_Recheck
  <2>4. owner' \in [Superpage -> Thread \cup {DEAD_OWNER}]
    BY <2>1 DEF VarTypes
  <2>5. todo' \in [Thread -> SUBSET Pb]
    BY <2>0, <2>1 DEF VarTypes
  <2> QED BY <2>2, <2>3, <2>4, <2>5 DEF VarTypes, blkVars, memVars
<1>10. ASSUME NEW t \in Thread, Walk(t) PROVE VarTypes'
  BY <1>10 DEF Walk, FreePb, VarTypes, sphVars, memVars
<1>11. ASSUME NEW t \in Thread, WalkDone(t) PROVE VarTypes'
  BY <1>11 DEF WalkDone, Idle, VarTypes, sphVars, blkVars, memVars
<1>12. ASSUME NEW t \in Thread, RF_Local(t) PROVE VarTypes'
  <2>1. cur[t] \in Superpage /\ LocalReturn(t, cur[t], run[t])
    BY <1>12 DEF RF_Local, LocalOK
  <2>2. /\ UNCHANGED <<sphVars, memVars, todo, cnt_inuse, hazard>>
        /\ run' \in [Thread -> SUBSET Block]
    BY <1>12 DEF RF_Local, VarTypes
  <2>3. /\ pc' \in [Thread -> PcValues]
        /\ cur' \in [Thread -> Superpage \cup {NoSp}]
    BY <2>1, LocalReturnPc
  <2>4. in_use' \subseteq Pb /\ out' \subseteq Block /\ remote' \subseteq Block
    BY <2>1, LocalReturnType DEF VarTypes
  <2> QED BY <2>2, <2>3, <2>4 DEF VarTypes, sphVars, memVars
<1>13. ASSUME NEW t \in Thread, FS_Next(t) PROVE VarTypes'
  <2>1. \E s \in Superpage \cup {NoSp}, l \in {"fs_clear", "exited"} :
          cur' = [cur EXCEPT ![t] = s] /\ pc' = [pc EXCEPT ![t] = l]
    BY <1>13 DEF FS_Next
  <2>2. UNCHANGED <<sphVars, blkVars, memVars, run, todo, cnt_inuse, hazard>>
    BY <1>13 DEF FS_Next
  <2> QED BY <2>1, <2>2 DEF VarTypes, sphVars, blkVars, memVars
<1>14. ASSUME NEW t \in Thread, FS_Clear(t) PROVE VarTypes'
  <2>1. cur[t] \in Superpage
    BY <1>14 DEF FS_Clear, LocalOK
  <2> QED
    BY <1>14, <2>1, StoreType DEF FS_Clear, PbsOf, VarTypes, sphVars, blkVars
<1>15. ASSUME NEW t \in Thread, FS_Scan(t) PROVE VarTypes'
  <2>1. /\ \E p \in todo[t] : todo' = [todo EXCEPT ![t] = todo[t] \ {p}]
        /\ cnt_inuse' = cnt_inuse \/ cnt_inuse' = [cnt_inuse EXCEPT ![t] = TRUE]
        /\ in_use' \subseteq in_use /\ remote' \subseteq remote
    BY <1>15 DEF FS_Scan, FreePb
  <2>2. UNCHANGED <<sphVars, out, memVars, pc, cur, run, hazard>>
    BY <1>15 DEF FS_Scan
  <2>3. todo' \in [Thread -> SUBSET Pb]
    <3> PICK p \in todo[t] : todo' = [todo EXCEPT ![t] = todo[t] \ {p}]
      BY <2>1
    <3>1. todo[t] \ {p} \in SUBSET Pb
      BY DEF VarTypes
    <3> QED BY <3>1 DEF VarTypes
  <2>4. cnt_inuse' \in [Thread -> BOOLEAN]
    BY <2>1 DEF VarTypes
  <2> QED BY <2>1, <2>2, <2>3, <2>4 DEF VarTypes, sphVars, memVars
<1>16. ASSUME NEW t \in Thread, FS_Free(t) PROVE VarTypes'
  BY <1>16 DEF FS_Free, VarTypes, blkVars, memVars
<1>17. ASSUME NEW t \in Thread, FS_Dead(t) PROVE VarTypes'
  <2>1. /\ \/ owner' = [owner EXCEPT ![cur[t]] = DEAD_OWNER]
           \/ owner' = owner
        /\ \/ pc' = [pc EXCEPT ![t] = "fs_next"]
           \/ pc' = [pc EXCEPT ![t] = "fs_clear"]
    BY <1>17 DEF FS_Dead
  <2>2. UNCHANGED <<hazard_mark, where, blkVars, memVars, cur, run, todo,
                    cnt_inuse, hazard>>
    BY <1>17 DEF FS_Dead
  <2>3. UNCHANGED <<finish_mark, sb>>
    BY <2>2 DEF memVars
  <2>4. owner' \in [Superpage -> Thread \cup {DEAD_OWNER}]
    BY <2>1 DEF VarTypes
  <2>5. pc' \in [Thread -> PcValues]
    BY <2>1 DEF VarTypes
  <2> QED BY <2>2, <2>3, <2>4, <2>5 DEF VarTypes, blkVars
<1>18. ASSUME NEW t \in Thread, NEW s \in Superpage, Flush(t, s)
       PROVE  VarTypes'
  BY <1>18 DEF Flush, VarTypes, sphVars, blkVars, thrVars
<1>19. ASSUME NEW t \in Thread, SphFree(t) PROVE VarTypes'
  <2>1. cur[t] \in Superpage
    BY <1>19 DEF SphFree, LocalOK
  <2>2. /\ pc' \in [Thread -> PcValues]
        /\ cur' \in [Thread -> Superpage \cup {NoSp}]
        /\ UNCHANGED <<owner, finish_mark, blkVars, run, todo, cnt_inuse, hazard>>
    BY <1>19 DEF SphFree, Idle, VarTypes
  <2> QED BY <1>19, <2>1, <2>2, SphFreeType DEF VarTypes, blkVars
<1>20. CASE UNCHANGED vars
  BY <1>20 DEF VarTypes, vars, sphVars, blkVars, memVars, thrVars
<1> QED
  BY <1>1, <1>2, <1>3, <1>4, <1>5, <1>6, <1>7, <1>8, <1>9, <1>10, <1>11,
     <1>12, <1>13, <1>14, <1>15, <1>16, <1>17, <1>18, <1>19, <1>20
     DEF Next, Call, Progress, Terminated


LEMMA LocalStep ==
  ASSUME TypeOK, [Next]_vars, NEW v \in Thread
  PROVE  LocalOK(v)'
<1> VarTypes /\ LocalOK(v) /\ \A t \in Thread : LocalOK(t)
  BY DEF TypeOK
<1> USE SpOfAssumption
<1>1. ASSUME NEW t \in Thread, NewPb(t) PROVE LocalOK(v)'
  BY <1>1 DEF NewPb, LocalOK, thrVars
<1>2. ASSUME NEW t \in Thread, SphAlloc(t) PROVE LocalOK(v)'
  BY <1>2 DEF SphAlloc, LocalOK, thrVars
<1>3. ASSUME NEW t \in Thread, ReusePb(t) PROVE LocalOK(v)'
  BY <1>3 DEF ReusePb, LocalOK, thrVars
<1>4. ASSUME NEW t \in Thread, Return(t) PROVE LocalOK(v)'
  <2> PICK s \in Superpage, R \in SUBSET out :
         /\ R # {} /\ \A u \in Thread : run[u] \cap R = {}
         /\ pc[t] = "idle"
         /\ UNCHANGED <<todo, cnt_inuse, sphVars, memVars>>
         /\ \/ /\ owner[s] = t
               /\ LocalReturn(t, s, R)
               /\ UNCHANGED <<run, hazard>>
            \/ /\ \E p \in PbsOf(s) : R \subseteq BlocksOf(p)
               /\ pc' = [pc EXCEPT ![t] = "rf_check"]
               /\ cur' = [cur EXCEPT ![t] = s]
               /\ run' = [run EXCEPT ![t] = R]
               /\ hazard' = [hazard EXCEPT ![t] = s]
               /\ UNCHANGED blkVars
    BY <1>4, ReturnCases
  <2>1. CASE /\ owner[s] = t
             /\ LocalReturn(t, s, R)
             /\ UNCHANGED <<run, hazard>>
    BY <2>1, LocalReturnPc DEF LocalOK, VarTypes
  <2>2. CASE /\ \E p \in PbsOf(s) : R \subseteq BlocksOf(p)
             /\ pc' = [pc EXCEPT ![t] = "rf_check"]
             /\ cur' = [cur EXCEPT ![t] = s]
             /\ run' = [run EXCEPT ![t] = R]
             /\ hazard' = [hazard EXCEPT ![t] = s]
             /\ UNCHANGED blkVars
    BY <2>2 DEF LocalOK, VarTypes
  <2> QED BY <2>1, <2>2
<1>5. ASSUME NEW t \in Thread, Exit(t) PROVE LocalOK(v)'
  BY <1>5 DEF Exit, VarTypes, LocalOK
<1>6. ASSUME NEW t \in Thread, RF_Check(t) PROVE LocalOK(v)'
  BY <1>6 DEF RF_Check, Take, VarTypes, LocalOK
<1>7. ASSUME NEW t \in Thread, RF_Push(t) PROVE LocalOK(v)'
  BY <1>7 DEF RF_Push, VarTypes, LocalOK
<1>8. ASSUME NEW t \in Thread, RF_Mark(t) PROVE LocalOK(v)'
  BY <1>8 DEF RF_Mark, VarTypes, LocalOK
<1>9. ASSUME NEW t \in Thread, RF_Recheck(t) PROVE LocalOK(v)'
  BY <1>9 DEF RF_Recheck, Idle, Take, VarTypes, LocalOK
<1>10. ASSUME NEW t \in Thread, Walk(t) PROVE LocalOK(v)'
  BY <1>10 DEF Walk, LocalOK
<1>11. ASSUME NEW t \in Thread, WalkDone(t) PROVE LocalOK(v)'
  BY <1>11 DEF WalkDone, Idle, VarTypes, LocalOK
<1>12. ASSUME NEW t \in Thread, RF_Local(t) PROVE LocalOK(v)'
  <2>1. cur[t] \in Superpage /\ LocalReturn(t, cur[t], run[t])
    BY <1>12 DEF RF_Local, LocalOK
  <2>2. pc[t] = "rf_local" /\ run' = [run EXCEPT ![t] = {}] /\ hazard' = hazard
    BY <1>12 DEF RF_Local
  <2> QED BY <2>1, <2>2, LocalReturnPc DEF LocalOK, VarTypes
<1>13. ASSUME NEW t \in Thread, FS_Next(t) PROVE LocalOK(v)'
  BY <1>13 DEF FS_Next, VarTypes, LocalOK
<1>14. ASSUME NEW t \in Thread, FS_Clear(t) PROVE LocalOK(v)'
  BY <1>14 DEF FS_Clear, VarTypes, LocalOK
<1>15. ASSUME NEW t \in Thread, FS_Scan(t) PROVE LocalOK(v)'
  BY <1>15 DEF FS_Scan, LocalOK
<1>16. ASSUME NEW t \in Thread, FS_Free(t) PROVE LocalOK(v)'
  BY <1>16 DEF FS_Free, VarTypes, LocalOK
<1>17. ASSUME NEW t \in Thread, FS_Dead(t) PROVE LocalOK(v)'
  BY <1>17 DEF FS_Dead, VarTypes, LocalOK
<1>18. ASSUME NEW t \in Thread, NEW s \in Superpage, Flush(t, s)
       PROVE  LocalOK(v)'
  BY <1>18 DEF Flush, LocalOK, thrVars
<1>19. ASSUME NEW t \in Thread, SphFree(t) PROVE LocalOK(v)'
  BY <1>19 DEF SphFree, Idle, VarTypes, LocalOK
<1>20. CASE UNCHANGED vars
  BY <1>20 DEF LocalOK, vars, thrVars
<1> QED
  BY <1>1, <1>2, <1>3, <1>4, <1>5, <1>6, <1>7, <1>8, <1>9, <1>10, <1>11,
     <1>12, <1>13, <1>14, <1>15, <1>16, <1>17, <1>18, <1>19, <1>20
     DEF Next, Call, Progress, Terminated


LEMMA TypeStep ==
  ASSUME TypeOK, [Next]_vars
  PROVE  TypeOK'
BY VarTypesStep, LocalStep DEF TypeOK

(* Every variable keeps its type, and remote_free and finish_superpages    *)
(* leave no hazard pointer, run of blocks or superpage behind.             *)
THEOREM TypeCorrect == Spec => []TypeOK
BY TypeInit, TypeStep, PTL DEF Spec

----------------------------------------------------------------------------
(* Safety, in both memory models: IInv is inductive.                       *)

LEMMA BlocksStep ==
  ASSUME IInv, [Next]_vars
  PROVE  BlocksOK'
<1> TypeOK /\ VarTypes /\ BlocksOK /\ RunsOK /\ WorkOK /\ PassedOK
  BY DEF IInv, TypeOK
<1> \A v \in Thread : LocalOK(v)
  BY DEF TypeOK
<1> USE SpOfAssumption, PbOfAssumption, ThreadAssumption
<1>1. ASSUME NEW t \in Thread, NewPb(t) PROVE BlocksOK'
  BY <1>1 DEF NewPb, Carve, sphVars, memVars, thrVars, BlocksOK, VarTypes,
         BlocksOf, AllBack
<1>2. ASSUME NEW t \in Thread, SphAlloc(t) PROVE BlocksOK'
  BY <1>2 DEF SphAlloc, Carve, thrVars, PbsOf, BlocksOK, VarTypes, BlocksOf,
         AllBack
<1>3. ASSUME NEW t \in Thread, ReusePb(t) PROVE BlocksOK'
  BY <1>3 DEF ReusePb, sphVars, memVars, thrVars, BlocksOK, VarTypes,
         BlocksOf, AllBack
<1>4. ASSUME NEW t \in Thread, Return(t) PROVE BlocksOK'
  <2> PICK s \in Superpage, R \in SUBSET out :
         /\ R # {} /\ \A u \in Thread : run[u] \cap R = {}
         /\ pc[t] = "idle"
         /\ UNCHANGED <<todo, cnt_inuse, sphVars, memVars>>
         /\ \/ /\ owner[s] = t
               /\ LocalReturn(t, s, R)
               /\ UNCHANGED <<run, hazard>>
            \/ /\ \E p \in PbsOf(s) : R \subseteq BlocksOf(p)
               /\ pc' = [pc EXCEPT ![t] = "rf_check"]
               /\ cur' = [cur EXCEPT ![t] = s]
               /\ run' = [run EXCEPT ![t] = R]
               /\ hazard' = [hazard EXCEPT ![t] = s]
               /\ UNCHANGED blkVars
    BY <1>4, ReturnCases
  <2>1. CASE /\ owner[s] = t
             /\ LocalReturn(t, s, R)
             /\ UNCHANGED <<run, hazard>>
    BY <2>1, LocalReturnType DEF BlocksOK, VarTypes, BlocksOf, sphVars
  <2>2. CASE /\ \E p \in PbsOf(s) : R \subseteq BlocksOf(p)
             /\ pc' = [pc EXCEPT ![t] = "rf_check"]
             /\ cur' = [cur EXCEPT ![t] = s]
             /\ run' = [run EXCEPT ![t] = R]
             /\ hazard' = [hazard EXCEPT ![t] = s]
             /\ UNCHANGED blkVars
    BY <2>2 DEF BlocksOK, sphVars, blkVars
  <2> QED BY <2>1, <2>2
<1>5. ASSUME NEW t \in Thread, Exit(t) PROVE BlocksOK'
  BY <1>5 DEF Exit, sphVars, blkVars, memVars, BlocksOK, VarTypes, BlocksOf,
         AllBack
<1>6. ASSUME NEW t \in Thread, RF_Check(t) PROVE BlocksOK'
  BY <1>6 DEF RF_Check, Take, blkVars, memVars, BlocksOK, VarTypes, BlocksOf,
         AllBack
<1>7. ASSUME NEW t \in Thread, RF_Push(t) PROVE BlocksOK'
  BY <1>7 DEF RF_Push, sphVars, BlocksOK, RunsOK, VarTypes
<1>8. ASSUME NEW t \in Thread, RF_Mark(t) PROVE BlocksOK'
  BY <1>8 DEF RF_Mark, sphVars, blkVars, BlocksOK, VarTypes, BlocksOf, AllBack
<1>9. ASSUME NEW t \in Thread, RF_Recheck(t) PROVE BlocksOK'
  BY <1>9 DEF RF_Recheck, Take, Idle, blkVars, memVars, BlocksOK, VarTypes,
         BlocksOf, AllBack
<1>10. ASSUME NEW t \in Thread, Walk(t) PROVE BlocksOK'
  BY <1>10 DEF Walk, FreePb, sphVars, memVars, BlocksOK, VarTypes, BlocksOf,
         AllBack
<1>11. ASSUME NEW t \in Thread, WalkDone(t) PROVE BlocksOK'
  BY <1>11 DEF WalkDone, Idle, sphVars, blkVars, memVars, BlocksOK, VarTypes,
         BlocksOf, AllBack
<1>12. ASSUME NEW t \in Thread, RF_Local(t) PROVE BlocksOK'
  <2>1. cur[t] \in Superpage /\ LocalReturn(t, cur[t], run[t])
    BY <1>12 DEF RF_Local, LocalOK
  <2>2. owner[cur[t]] = t
    BY <1>12 DEF RF_Local, WorkOK
  <2>3. run[t] \subseteq out
    BY DEF RunsOK
  <2> QED
    BY <1>12, <2>1, <2>2, <2>3, LocalReturnType DEF RF_Local, BlocksOK,
           VarTypes, BlocksOf, sphVars
<1>13. ASSUME NEW t \in Thread, FS_Next(t) PROVE BlocksOK'
  BY <1>13 DEF FS_Next, sphVars, blkVars, memVars, BlocksOK, VarTypes,
         BlocksOf, AllBack
<1>14. ASSUME NEW t \in Thread, FS_Clear(t) PROVE BlocksOK'
  BY <1>14 DEF FS_Clear, sphVars, blkVars, BlocksOK, VarTypes, BlocksOf,
         AllBack
<1>15. ASSUME NEW t \in Thread, FS_Scan(t) PROVE BlocksOK'
  BY <1>15 DEF FS_Scan, FreePb, sphVars, memVars, BlocksOK, VarTypes,
         BlocksOf, AllBack
<1>16. ASSUME NEW t \in Thread, FS_Free(t) PROVE BlocksOK'
  <2>1. \A p \in in_use : SpOf[p] # cur[t]
    BY <1>16 DEF FS_Free, PassedOK
  <2> QED BY <1>16, <2>1 DEF FS_Free, blkVars, BlocksOK, VarTypes
<1>17. ASSUME NEW t \in Thread, FS_Dead(t) PROVE BlocksOK'
  BY <1>17 DEF FS_Dead, blkVars, memVars, BlocksOK, VarTypes, BlocksOf, AllBack
<1>18. ASSUME NEW t \in Thread, NEW s \in Superpage, Flush(t, s)
       PROVE  BlocksOK'
  BY <1>18 DEF Flush, sphVars, blkVars, thrVars, BlocksOK, VarTypes,
         BlocksOf, AllBack
<1>19. ASSUME NEW t \in Thread, SphFree(t) PROVE BlocksOK'
  <2>1. /\ cur[t] \in Superpage /\ pc[t] = "sph_free"
        /\ UNCHANGED <<owner, blkVars, run, todo, cnt_inuse>>
        /\ pc' = [pc EXCEPT ![t] = "idle"]
        /\ cur' = [cur EXCEPT ![t] = NoSp]
    BY <1>19 DEF SphFree, Idle, LocalOK
  <2>2. \A q \in in_use : SpOf[q] # cur[t]
    BY <2>1 DEF PassedOK
  <2> QED BY <1>19, <2>1, <2>2, SphFreeType DEF BlocksOK, VarTypes, blkVars
<1>20. CASE UNCHANGED vars
  BY <1>20 DEF vars, sphVars, blkVars, memVars, thrVars, BlocksOK, VarTypes,
         BlocksOf, AllBack
<1> QED
  BY <1>1, <1>2, <1>3, <1>4, <1>5, <1>6, <1>7, <1>8, <1>9, <1>10, <1>11,
     <1>12, <1>13, <1>14, <1>15, <1>16, <1>17, <1>18, <1>19, <1>20
     DEF Next, Call, Progress, Terminated

LEMMA RunsStep ==
  ASSUME IInv, [Next]_vars
  PROVE  RunsOK'
<1> TypeOK /\ VarTypes /\ BlocksOK /\ RunsOK /\ WorkOK /\ PassedOK
  BY DEF IInv, TypeOK
<1> \A v \in Thread : LocalOK(v)
  BY DEF TypeOK
<1> USE SpOfAssumption, PbOfAssumption, ThreadAssumption
<1>1. ASSUME NEW t \in Thread, NewPb(t) PROVE RunsOK'
  BY <1>1 DEF NewPb, Carve, sphVars, memVars, thrVars, RunsOK, VarTypes,
         SpOfBlock
<1>2. ASSUME NEW t \in Thread, SphAlloc(t) PROVE RunsOK'
  BY <1>2 DEF SphAlloc, Carve, thrVars, PbsOf, RunsOK, VarTypes, SpOfBlock
<1>3. ASSUME NEW t \in Thread, ReusePb(t) PROVE RunsOK'
  BY <1>3 DEF ReusePb, sphVars, memVars, thrVars, RunsOK, VarTypes, SpOfBlock
<1>4. ASSUME NEW t \in Thread, Return(t) PROVE RunsOK'
  <2> PICK s \in Superpage, R \in SUBSET out :
         /\ R # {} /\ \A u \in Thread : run[u] \cap R = {}
         /\ pc[t] = "idle"
         /\ UNCHANGED <<todo, cnt_inuse, sphVars, memVars>>
         /\ \/ /\ owner[s] = t
               /\ LocalReturn(t, s, R)
               /\ UNCHANGED <<run, hazard>>
            \/ /\ \E p \in PbsOf(s) : R \subseteq BlocksOf(p)
               /\ pc' = [pc EXCEPT ![t] = "rf_check"]
               /\ cur' = [cur EXCEPT ![t] = s]
               /\ run' = [run EXCEPT ![t] = R]
               /\ hazard' = [hazard EXCEPT ![t] = s]
               /\ UNCHANGED blkVars
    BY <1>4, ReturnCases
  <2>1. CASE /\ owner[s] = t
             /\ LocalReturn(t, s, R)
             /\ UNCHANGED <<run, hazard>>
    BY <2>1, LocalReturnType, LocalReturnPc DEF RunsOK, VarTypes, LocalOK,
           SpOfBlock
  <2>2. CASE /\ \E p \in PbsOf(s) : R \subseteq BlocksOf(p)
             /\ pc' = [pc EXCEPT ![t] = "rf_check"]
             /\ cur' = [cur EXCEPT ![t] = s]
             /\ run' = [run EXCEPT ![t] = R]
             /\ hazard' = [hazard EXCEPT ![t] = s]
             /\ UNCHANGED blkVars
    BY <2>2 DEF RunsOK, VarTypes, LocalOK, SpOfBlock, PbsOf, BlocksOf, blkVars
  <2> QED BY <2>1, <2>2
<1>5. ASSUME NEW t \in Thread, Exit(t) PROVE RunsOK'
  BY <1>5 DEF Exit, sphVars, blkVars, memVars, RunsOK, VarTypes, SpOfBlock
<1>6. ASSUME NEW t \in Thread, RF_Check(t) PROVE RunsOK'
  BY <1>6 DEF RF_Check, Take, blkVars, memVars, RunsOK, VarTypes, SpOfBlock
<1>7. ASSUME NEW t \in Thread, RF_Push(t) PROVE RunsOK'
  BY <1>7 DEF RF_Push, sphVars, memVars, RunsOK, VarTypes, SpOfBlock
<1>8. ASSUME NEW t \in Thread, RF_Mark(t) PROVE RunsOK'
  BY <1>8 DEF RF_Mark, sphVars, blkVars, RunsOK, VarTypes, SpOfBlock
<1>9. ASSUME NEW t \in Thread, RF_Recheck(t) PROVE RunsOK'
  <2>1. run[t] = {}
    BY <1>9 DEF RF_Recheck, LocalOK
  <2>2. run' = run /\ out' = out /\ \A u \in Thread \ {t} : cur'[u] = cur[u]
    BY <1>9 DEF RF_Recheck, Take, Idle, blkVars, VarTypes
  <2> QED BY <2>1, <2>2 DEF RunsOK, SpOfBlock
<1>10. ASSUME NEW t \in Thread, Walk(t) PROVE RunsOK'
  BY <1>10 DEF Walk, FreePb, sphVars, memVars, RunsOK, VarTypes, SpOfBlock
<1>11. ASSUME NEW t \in Thread, WalkDone(t) PROVE RunsOK'
  <2>1. run' = run /\ out' = out
    BY <1>11 DEF WalkDone, Idle, blkVars
  <2>2. CASE pc[t] = "walk_local"
    <3>1. cur' = cur
      BY <1>11, <2>2 DEF WalkDone, Idle
    <3> QED BY <2>1, <3>1 DEF RunsOK, SpOfBlock
  <2>3. CASE pc[t] # "walk_local"
    <3>1. run[t] = {} /\ \A u \in Thread \ {t} : cur'[u] = cur[u]
      BY <1>11, <2>3 DEF WalkDone, Idle, LocalOK, VarTypes
    <3> QED BY <2>1, <3>1 DEF RunsOK, SpOfBlock
  <2> QED BY <2>2, <2>3
<1>12. ASSUME NEW t \in Thread, RF_Local(t) PROVE RunsOK'
  <2>1. cur[t] \in Superpage /\ LocalReturn(t, cur[t], run[t])
    BY <1>12 DEF RF_Local, LocalOK
  <2>2. owner[cur[t]] = t
    BY <1>12 DEF RF_Local, WorkOK
  <2> QED
    BY <1>12, <2>1, LocalReturnType, LocalReturnPc DEF RF_Local, RunsOK,
           VarTypes, SpOfBlock
<1>13. ASSUME NEW t \in Thread, FS_Next(t) PROVE RunsOK'
  <2>1. run[t] = {}
    BY <1>13 DEF FS_Next, LocalOK
  <2>2. run' = run /\ out' = out /\ \A u \in Thread \ {t} : cur'[u] = cur[u]
    BY <1>13 DEF FS_Next, blkVars, VarTypes
  <2> QED BY <2>1, <2>2 DEF RunsOK, SpOfBlock
<1>14. ASSUME NEW t \in Thread, FS_Clear(t) PROVE RunsOK'
  BY <1>14 DEF FS_Clear, sphVars, blkVars, RunsOK, VarTypes, SpOfBlock
<1>15. ASSUME NEW t \in Thread, FS_Scan(t) PROVE RunsOK'
  BY <1>15 DEF FS_Scan, FreePb, sphVars, memVars, RunsOK, VarTypes, SpOfBlock
<1>16. ASSUME NEW t \in Thread, FS_Free(t) PROVE RunsOK'
  BY <1>16 DEF FS_Free, blkVars, memVars, RunsOK, VarTypes, SpOfBlock
<1>17. ASSUME NEW t \in Thread, FS_Dead(t) PROVE RunsOK'
  BY <1>17 DEF FS_Dead, blkVars, memVars, RunsOK, VarTypes, SpOfBlock
<1>18. ASSUME NEW t \in Thread, NEW s \in Superpage, Flush(t, s) PROVE RunsOK'
  BY <1>18 DEF Flush, sphVars, blkVars, thrVars, RunsOK, VarTypes, SpOfBlock
<1>19. ASSUME NEW t \in Thread, SphFree(t) PROVE RunsOK'
  <2>1. /\ cur[t] \in Superpage /\ pc[t] = "sph_free"
        /\ UNCHANGED <<owner, blkVars, run, todo, cnt_inuse>>
        /\ pc' = [pc EXCEPT ![t] = "idle"]
        /\ cur' = [cur EXCEPT ![t] = NoSp]
    BY <1>19 DEF SphFree, Idle, LocalOK
  <2>2. run[t] = {}
    BY <2>1 DEF LocalOK
  <2> QED BY <2>1, <2>2 DEF RunsOK, VarTypes, SpOfBlock, blkVars
<1>20. CASE UNCHANGED vars
  BY <1>20 DEF vars, sphVars, blkVars, memVars, thrVars, RunsOK, VarTypes,
         SpOfBlock
<1> QED
  BY <1>1, <1>2, <1>3, <1>4, <1>5, <1>6, <1>7, <1>8, <1>9, <1>10, <1>11,
     <1>12, <1>13, <1>14, <1>15, <1>16, <1>17, <1>18, <1>19, <1>20
     DEF Next, Call, Progress, Terminated

LEMMA WorkStep ==
  ASSUME IInv, [Next]_vars
  PROVE  WorkOK'
<1> TypeOK /\ VarTypes /\ BlocksOK /\ RunsOK /\ WorkOK /\ PassedOK
  BY DEF IInv, TypeOK
<1> \A v \in Thread : LocalOK(v)
  BY DEF TypeOK
<1> USE SpOfAssumption, PbOfAssumption, ThreadAssumption
<1>1. ASSUME NEW t \in Thread, NewPb(t) PROVE WorkOK'
  BY <1>1 DEF NewPb, Carve, sphVars, memVars, thrVars, WorkOK, VarTypes,
         LocalOK
<1>2. ASSUME NEW t \in Thread, SphAlloc(t) PROVE WorkOK'
  BY <1>2 DEF SphAlloc, Carve, thrVars, PbsOf, WorkOK, VarTypes, LocalOK
<1>3. ASSUME NEW t \in Thread, ReusePb(t) PROVE WorkOK'
  BY <1>3 DEF ReusePb, sphVars, memVars, thrVars, WorkOK, VarTypes, LocalOK
<1>4. ASSUME NEW t \in Thread, Return(t) PROVE WorkOK'
  <2> PICK s \in Superpage, R \in SUBSET out :
         /\ R # {} /\ \A u \in Thread : run[u] \cap R = {}
         /\ pc[t] = "idle"
         /\ UNCHANGED <<todo, cnt_inuse, sphVars, memVars>>
         /\ \/ /\ owner[s] = t
               /\ LocalReturn(t, s, R)
               /\ UNCHANGED <<run, hazard>>
            \/ /\ \E p \in PbsOf(s) : R \subseteq BlocksOf(p)
               /\ pc' = [pc EXCEPT ![t] = "rf_check"]
               /\ cur' = [cur EXCEPT ![t] = s]
               /\ run' = [run EXCEPT ![t] = R]
               /\ hazard' = [hazard EXCEPT ![t] = s]
               /\ UNCHANGED blkVars
    BY <1>4, ReturnCases
  <2>1. CASE /\ owner[s] = t
             /\ LocalReturn(t, s, R)
             /\ UNCHANGED <<run, hazard>>
    <3>1. \A v \in Thread \ {t} : pc'[v] = pc[v] /\ cur'[v] = cur[v]
      BY <2>1, LocalReturnPc
    <3>2. pc'[t] \in OwningPc => cur'[t] = s
      BY <2>1, LocalReturnPc DEF OwningPc, WalkPc, FinishPc
    <3>3. where[s] = "used"
      <4>1. PICK b \in R : TRUE
        OBVIOUS
      <4>2. b \in Block /\ SpOfBlock(b) = s
        BY <2>1, LocalReturnType DEF VarTypes
      <4> QED BY <4>2 DEF BlocksOK, SpOfBlock
    <3>4. UNCHANGED <<owner, where>>
      BY DEF sphVars
    <3> QED BY <2>1, <3>1, <3>2, <3>3, <3>4 DEF WorkOK
  <2>2. CASE /\ \E p \in PbsOf(s) : R \subseteq BlocksOf(p)
             /\ pc' = [pc EXCEPT ![t] = "rf_check"]
             /\ cur' = [cur EXCEPT ![t] = s]
             /\ run' = [run EXCEPT ![t] = R]
             /\ hazard' = [hazard EXCEPT ![t] = s]
             /\ UNCHANGED blkVars
    BY <2>2 DEF WorkOK, VarTypes, LocalOK, sphVars
  <2> QED BY <2>1, <2>2
<1>5. ASSUME NEW t \in Thread, Exit(t) PROVE WorkOK'
  BY <1>5 DEF Exit, sphVars, blkVars, memVars, WorkOK, VarTypes, LocalOK
<1>6. ASSUME NEW t \in Thread, RF_Check(t) PROVE WorkOK'
  <2>1. cur[t] \in Superpage
    BY <1>6 DEF RF_Check, LocalOK
  <2>2. where[cur[t]] = "used"
    <3>1. PICK b \in run[t] : TRUE
      BY <1>6 DEF RF_Check, LocalOK
    <3> QED BY <3>1 DEF RunsOK, BlocksOK, SpOfBlock
  <2>3. CASE Take(t, cur[t], "walk_local")
    BY <1>6, <2>1, <2>2, <2>3 DEF RF_Check, Take, WorkOK, VarTypes
  <2>4. CASE pc' = [pc EXCEPT ![t] = "rf_push"] /\ owner' = owner
    BY <1>6, <2>4 DEF RF_Check, WorkOK, VarTypes
  <2> QED BY <1>6, <2>3, <2>4 DEF RF_Check
<1>7. ASSUME NEW t \in Thread, RF_Push(t) PROVE WorkOK'
  BY <1>7 DEF RF_Push, sphVars, memVars, WorkOK, VarTypes, LocalOK
<1>8. ASSUME NEW t \in Thread, RF_Mark(t) PROVE WorkOK'
  BY <1>8 DEF RF_Mark, sphVars, blkVars, WorkOK, VarTypes, LocalOK
<1>9. ASSUME NEW t \in Thread, RF_Recheck(t) PROVE WorkOK'
  <2>1. cur[t] \in Superpage /\ where[cur[t]] # "unmapped"
    BY <1>9 DEF RF_Recheck, LocalOK
  <2>2. CASE Take(t, cur[t], "walk_idle") /\ cur' = cur
    <3>1. where[cur[t]] = "used"
      BY <2>1, <2>2 DEF Take, WorkOK, VarTypes
    <3> QED
      BY <1>9, <2>1, <2>2, <3>1 DEF RF_Recheck, Take, Idle, WorkOK, VarTypes
  <2>3. CASE /\ pc' = [pc EXCEPT ![t] = "idle"]
             /\ cur' = [cur EXCEPT ![t] = NoSp]
             /\ owner' = owner
    BY <1>9, <2>3 DEF RF_Recheck, WorkOK, VarTypes
  <2> QED BY <1>9, <2>2, <2>3 DEF RF_Recheck, Idle
<1>10. ASSUME NEW t \in Thread, Walk(t) PROVE WorkOK'
  BY <1>10 DEF Walk, FreePb, sphVars, memVars, WorkOK, VarTypes, LocalOK
<1>11. ASSUME NEW t \in Thread, WalkDone(t) PROVE WorkOK'
  BY <1>11 DEF WalkDone, Idle, sphVars, blkVars, memVars, WorkOK, VarTypes,
         LocalOK
<1>12. ASSUME NEW t \in Thread, RF_Local(t) PROVE WorkOK'
  <2>1. cur[t] \in Superpage /\ LocalReturn(t, cur[t], run[t])
    BY <1>12 DEF RF_Local, LocalOK
  <2>2. owner[cur[t]] = t
    BY <1>12 DEF RF_Local, WorkOK
  <2>3. \A v \in Thread \ {t} : pc'[v] = pc[v] /\ cur'[v] = cur[v]
    BY <2>1, LocalReturnPc
  <2>4. pc'[t] \in OwningPc => cur'[t] = cur[t]
    BY <2>1, LocalReturnPc DEF OwningPc, WalkPc, FinishPc
  <2>5. where[cur[t]] = "used" /\ UNCHANGED <<owner, where>>
    BY <1>12 DEF RF_Local, WorkOK, OwningPc, sphVars
  <2> QED BY <2>2, <2>3, <2>4, <2>5 DEF WorkOK
<1>13. ASSUME NEW t \in Thread, FS_Next(t) PROVE WorkOK'
  <2>1. \A v \in Thread \ {t} : pc'[v] = pc[v] /\ cur'[v] = cur[v]
    BY <1>13 DEF FS_Next, VarTypes
  <2>2. pc'[t] \in OwningPc => where[cur'[t]] = "used" /\ owner[cur'[t]] = t
    BY <1>13 DEF FS_Next, VarTypes
  <2> QED BY <1>13, <2>1, <2>2 DEF FS_Next, WorkOK, sphVars
<1>14. ASSUME NEW t \in Thread, FS_Clear(t) PROVE WorkOK'
  BY <1>14 DEF FS_Clear, sphVars, blkVars, WorkOK, VarTypes, LocalOK
<1>15. ASSUME NEW t \in Thread, FS_Scan(t) PROVE WorkOK'
  BY <1>15 DEF FS_Scan, FreePb, sphVars, memVars, WorkOK, VarTypes, LocalOK
<1>16. ASSUME NEW t \in Thread, FS_Free(t) PROVE WorkOK'
  BY <1>16 DEF FS_Free, blkVars, memVars, WorkOK, VarTypes, LocalOK
<1>17. ASSUME NEW t \in Thread, FS_Dead(t) PROVE WorkOK'
  BY <1>17 DEF FS_Dead, blkVars, memVars, WorkOK, VarTypes, LocalOK
<1>18. ASSUME NEW t \in Thread, NEW s \in Superpage, Flush(t, s) PROVE WorkOK'
  BY <1>18 DEF Flush, sphVars, blkVars, thrVars, WorkOK, VarTypes, LocalOK
<1>19. ASSUME NEW t \in Thread, SphFree(t) PROVE WorkOK'
  <2>1. /\ cur[t] \in Superpage /\ pc[t] = "sph_free"
        /\ UNCHANGED <<owner, blkVars, run, todo, cnt_inuse>>
        /\ pc' = [pc EXCEPT ![t] = "idle"]
        /\ cur' = [cur EXCEPT ![t] = NoSp]
    BY <1>19 DEF SphFree, Idle, LocalOK
  <2>2. owner[cur[t]] = t
    BY <2>1 DEF WorkOK
  <2> QED BY <1>19, <2>1, <2>2, SphFreeType DEF WorkOK, VarTypes, LocalOK
<1>20. CASE UNCHANGED vars
  BY <1>20 DEF vars, sphVars, blkVars, memVars, thrVars, WorkOK, VarTypes,
         LocalOK
<1> QED
  BY <1>1, <1>2, <1>3, <1>4, <1>5, <1>6, <1>7, <1>8, <1>9, <1>10, <1>11,
     <1>12, <1>13, <1>14, <1>15, <1>16, <1>17, <1>18, <1>19, <1>20
     DEF Next, Call, Progress, Terminated

LEMMA PassedStep ==
  ASSUME IInv, [Next]_vars
  PROVE  PassedOK'
<1> TypeOK /\ VarTypes /\ BlocksOK /\ RunsOK /\ WorkOK /\ PassedOK
  BY DEF IInv, TypeOK
<1> \A v \in Thread : LocalOK(v)
  BY DEF TypeOK
<1> USE SpOfAssumption, PbOfAssumption, ThreadAssumption
<1>1. ASSUME NEW t \in Thread, NewPb(t) PROVE PassedOK'
  BY <1>1 DEF NewPb, Carve, sphVars, memVars, thrVars, PassedOK, WorkOK,
         VarTypes, LocalOK, PbsOf
<1>2. ASSUME NEW t \in Thread, SphAlloc(t) PROVE PassedOK'
  BY <1>2 DEF SphAlloc, Carve, thrVars, PassedOK, WorkOK, VarTypes, LocalOK,
         PbsOf
<1>3. ASSUME NEW t \in Thread, ReusePb(t) PROVE PassedOK'
  BY <1>3 DEF ReusePb, sphVars, memVars, thrVars, PassedOK, WorkOK, VarTypes,
         LocalOK, PbsOf
<1>4. ASSUME NEW t \in Thread, Return(t) PROVE PassedOK'
  <2> PICK s \in Superpage, R \in SUBSET out :
         /\ R # {} /\ \A u \in Thread : run[u] \cap R = {}
         /\ pc[t] = "idle"
         /\ UNCHANGED <<todo, cnt_inuse, sphVars, memVars>>
         /\ \/ /\ owner[s] = t
               /\ LocalReturn(t, s, R)
               /\ UNCHANGED <<run, hazard>>
            \/ /\ \E p \in PbsOf(s) : R \subseteq BlocksOf(p)
               /\ pc' = [pc EXCEPT ![t] = "rf_check"]
               /\ cur' = [cur EXCEPT ![t] = s]
               /\ run' = [run EXCEPT ![t] = R]
               /\ hazard' = [hazard EXCEPT ![t] = s]
               /\ UNCHANGED blkVars
    BY <1>4, ReturnCases
  <2>1. CASE /\ owner[s] = t
             /\ LocalReturn(t, s, R)
             /\ UNCHANGED <<run, hazard>>
    BY <2>1, LocalReturnType, LocalReturnPc DEF WorkOK, LocalOK, PassedOK,
           VarTypes
  <2>2. CASE /\ \E p \in PbsOf(s) : R \subseteq BlocksOf(p)
             /\ pc' = [pc EXCEPT ![t] = "rf_check"]
             /\ cur' = [cur EXCEPT ![t] = s]
             /\ run' = [run EXCEPT ![t] = R]
             /\ hazard' = [hazard EXCEPT ![t] = s]
             /\ UNCHANGED blkVars
    BY <2>2 DEF PassedOK, VarTypes, blkVars
  <2> QED BY <2>1, <2>2
<1>5. ASSUME NEW t \in Thread, Exit(t) PROVE PassedOK'
  BY <1>5 DEF Exit, sphVars, blkVars, memVars, PassedOK, WorkOK, VarTypes,
         LocalOK, PbsOf
<1>6. ASSUME NEW t \in Thread, RF_Check(t) PROVE PassedOK'
  <2>1. \A v \in Thread \ {t} : pc'[v] = pc[v] /\ todo'[v] = todo[v]
    BY <1>6 DEF RF_Check, Take, VarTypes
  <2>2. /\ pc'[t] \notin {"fs_scan", "sph_free"}
        /\ UNCHANGED <<cur, cnt_inuse, in_use>>
    BY <1>6 DEF RF_Check, Take, VarTypes, blkVars
  <2> QED BY <2>1, <2>2 DEF PassedOK
<1>7. ASSUME NEW t \in Thread, RF_Push(t) PROVE PassedOK'
  BY <1>7 DEF RF_Push, sphVars, memVars, PassedOK, WorkOK, VarTypes, LocalOK,
         PbsOf
<1>8. ASSUME NEW t \in Thread, RF_Mark(t) PROVE PassedOK'
  BY <1>8 DEF RF_Mark, sphVars, blkVars, PassedOK, WorkOK, VarTypes, LocalOK,
         PbsOf
<1>9. ASSUME NEW t \in Thread, RF_Recheck(t) PROVE PassedOK'
  <2>1. \A v \in Thread \ {t} : /\ pc'[v] = pc[v] /\ cur'[v] = cur[v]
                                /\ todo'[v] = todo[v]
    BY <1>9 DEF RF_Recheck, Take, Idle, VarTypes
  <2>2. pc'[t] \notin {"fs_scan", "sph_free"} /\ cnt_inuse' = cnt_inuse /\ in_use' = in_use
    BY <1>9 DEF RF_Recheck, Take, Idle, VarTypes, blkVars
  <2> QED BY <2>1, <2>2 DEF PassedOK
<1>10. ASSUME NEW t \in Thread, Walk(t) PROVE PassedOK'
  BY <1>10 DEF Walk, FreePb, sphVars, memVars, PassedOK, WorkOK, VarTypes,
         LocalOK, PbsOf
<1>11. ASSUME NEW t \in Thread, WalkDone(t) PROVE PassedOK'
  BY <1>11 DEF WalkDone, Idle, sphVars, blkVars, memVars, PassedOK, WorkOK,
         VarTypes, LocalOK, PbsOf
<1>12. ASSUME NEW t \in Thread, RF_Local(t) PROVE PassedOK'
  <2>1. cur[t] \in Superpage /\ LocalReturn(t, cur[t], run[t])
    BY <1>12 DEF RF_Local, LocalOK
  <2>2. owner[cur[t]] = t
    BY <1>12 DEF RF_Local, WorkOK
  <2>3. \A v \in Thread \ {t} : pc'[v] = pc[v] /\ cur'[v] = cur[v]
    BY <2>1, LocalReturnPc
  <2>4. /\ pc'[t] # "fs_scan"
        /\ pc'[t] = "sph_free" => cur'[t] = cur[t]
    BY <2>1, LocalReturnPc
  <2>5. /\ in_use' \subseteq in_use
        /\ pc'[t] = "sph_free" => \A p \in in_use' : SpOf[p] # cur[t]
    BY <2>1, LocalReturnType
  <2>6. UNCHANGED <<todo, cnt_inuse>>
    BY <1>12 DEF RF_Local
  <2> QED BY <2>3, <2>4, <2>5, <2>6 DEF PassedOK
<1>13. ASSUME NEW t \in Thread, FS_Next(t) PROVE PassedOK'
  <2>1. /\ pc'[t] \notin {"fs_scan", "sph_free"}
        /\ \A v \in Thread \ {t} : pc'[v] = pc[v] /\ cur'[v] = cur[v]
    BY <1>13 DEF FS_Next, VarTypes
  <2>2. UNCHANGED <<in_use, todo, cnt_inuse>>
    BY <1>13 DEF FS_Next, blkVars
  <2> QED BY <2>1, <2>2 DEF PassedOK
<1>14. ASSUME NEW t \in Thread, FS_Clear(t) PROVE PassedOK'
  BY <1>14 DEF FS_Clear, sphVars, blkVars, PassedOK, WorkOK, VarTypes,
         LocalOK, PbsOf
<1>15. ASSUME NEW t \in Thread, FS_Scan(t) PROVE PassedOK'
  BY <1>15 DEF FS_Scan, FreePb, sphVars, memVars, PassedOK, WorkOK, VarTypes,
         LocalOK, PbsOf
<1>16. ASSUME NEW t \in Thread, FS_Free(t) PROVE PassedOK'
  BY <1>16 DEF FS_Free, blkVars, memVars, PassedOK, WorkOK, VarTypes,
         LocalOK, PbsOf
<1>17. ASSUME NEW t \in Thread, FS_Dead(t) PROVE PassedOK'
  BY <1>17 DEF FS_Dead, blkVars, memVars, PassedOK, WorkOK, VarTypes,
         LocalOK, PbsOf
<1>18. ASSUME NEW t \in Thread, NEW s \in Superpage, Flush(t, s)
       PROVE  PassedOK'
  BY <1>18 DEF Flush, sphVars, blkVars, thrVars, PassedOK, WorkOK, VarTypes,
         LocalOK, PbsOf
<1>19. ASSUME NEW t \in Thread, SphFree(t) PROVE PassedOK'
  <2>1. /\ cur[t] \in Superpage /\ pc[t] = "sph_free"
        /\ UNCHANGED <<owner, blkVars, run, todo, cnt_inuse>>
        /\ pc' = [pc EXCEPT ![t] = "idle"]
        /\ cur' = [cur EXCEPT ![t] = NoSp]
    BY <1>19 DEF SphFree, Idle, LocalOK
  <2> QED BY <2>1 DEF PassedOK, VarTypes, blkVars
<1>20. CASE UNCHANGED vars
  BY <1>20 DEF vars, sphVars, blkVars, memVars, thrVars, PassedOK, WorkOK,
         VarTypes, LocalOK, PbsOf
<1> QED
  BY <1>1, <1>2, <1>3, <1>4, <1>5, <1>6, <1>7, <1>8, <1>9, <1>10, <1>11,
     <1>12, <1>13, <1>14, <1>15, <1>16, <1>17, <1>18, <1>19, <1>20
     DEF Next, Call, Progress, Terminated

LEMMA InvInit == Init => IInv
<1> SUFFICES ASSUME Init PROVE IInv
  OBVIOUS
<1>1. TypeOK
  BY TypeInit
<1> QED BY <1>1 DEF Init, IInv, BlocksOK, RunsOK, WorkOK, PassedOK, OwningPc

LEMMA InvStep == IInv /\ [Next]_vars => IInv'
BY TypeStep, BlocksStep, RunsStep, WorkStep, PassedStep DEF IInv

(* The counts, the hand-over of ownership and the two walks keep the       *)
(* invariant whatever the threads interleave, in both memory models.       *)
THEOREM Inductive == Spec => []IInv
BY InvInit, InvStep, PTL DEF Spec

(* No superpage goes back to the pool or to the OS while a block of it is  *)
(* outside or on a remote list: sph_free and try_to_free_superpage, under  *)
(* any number of concurrent remote frees, adoptions and exits.             *)
THEOREM FreedEmpty == Spec => []FreedIsEmpty
<1>1. IInv => FreedIsEmpty
  BY PbOfAssumption DEF IInv, BlocksOK, FreedIsEmpty, SpOfBlock, TypeOK,
         VarTypes
<1> QED BY Inductive, <1>1, PTL

(* Two threads never work on one superpage's page blocks at a time: the    *)
(* cas32 of take_superpage and the cas64 of finish_superpages are enough.  *)
THEOREM OneOwner == Spec => []OneOwnerAtWork
<1>1. IInv => OneOwnerAtWork
  BY DEF IInv, WorkOK, OneOwnerAtWork
<1> QED BY Inductive, <1>1, PTL

----------------------------------------------------------------------------
(* With stores in program order (StoreBuffers = FALSE) no orphan is        *)
(* stranded.                                                               *)

LEMMA DrainedStep ==
  ASSUME SCInv, ~ StoreBuffers, [Next]_vars
  PROVE  DrainedOK'
<1> TypeOK /\ VarTypes /\ BlocksOK /\ RunsOK /\ WorkOK /\ PassedOK
  BY DEF SCInv, IInv, TypeOK
<1> DrainedOK /\ NoStranded /\ MarkOK
  BY DEF SCInv
<1> \A v \in Thread : LocalOK(v)
  BY DEF TypeOK
<1> USE SpOfAssumption, PbOfAssumption, ThreadAssumption
<1>0. ASSUME NEW t \in Thread, NEW s \in Superpage, NEW m, Store(t, s, m)
      PROVE  sb' = sb /\ finish_mark' = [finish_mark EXCEPT ![s] = m]
  BY <1>0 DEF Store
<1>1. ASSUME NEW t \in Thread, NewPb(t) PROVE DrainedOK'
  BY <1>1 DEF NewPb, Carve, sphVars, memVars, thrVars, DrainedOK, Drained
<1>2. ASSUME NEW t \in Thread, SphAlloc(t) PROVE DrainedOK'
  BY <1>2 DEF SphAlloc, DrainedOK, Drained
<1>3. ASSUME NEW t \in Thread, ReusePb(t) PROVE DrainedOK'
  BY <1>3 DEF ReusePb, sphVars, memVars, thrVars, DrainedOK, Drained
<1>4. ASSUME NEW t \in Thread, Return(t) PROVE DrainedOK'
  BY <1>4, ReturnCases DEF DrainedOK, Drained, memVars
<1>5. ASSUME NEW t \in Thread, Exit(t) PROVE DrainedOK'
  BY <1>5 DEF Exit, sphVars, blkVars, memVars, DrainedOK, Drained
<1>6. ASSUME NEW t \in Thread, RF_Check(t) PROVE DrainedOK'
  BY <1>6 DEF RF_Check, Take, blkVars, memVars, DrainedOK, Drained
<1>7. ASSUME NEW t \in Thread, RF_Push(t) PROVE DrainedOK'
  BY <1>7 DEF RF_Push, sphVars, memVars, DrainedOK, Drained
<1>8. ASSUME NEW t \in Thread, RF_Mark(t) PROVE DrainedOK'
  BY <1>8, <1>0 DEF RF_Mark, LocalOK, DrainedOK, Drained
<1>9. ASSUME NEW t \in Thread, RF_Recheck(t) PROVE DrainedOK'
  BY <1>9 DEF RF_Recheck, Take, Idle, blkVars, memVars, DrainedOK, Drained
<1>10. ASSUME NEW t \in Thread, Walk(t) PROVE DrainedOK'
  BY <1>10 DEF Walk, FreePb, sphVars, memVars, DrainedOK, Drained
<1>11. ASSUME NEW t \in Thread, WalkDone(t) PROVE DrainedOK'
  BY <1>11 DEF WalkDone, Idle, sphVars, blkVars, memVars, DrainedOK, Drained
<1>12. ASSUME NEW t \in Thread, RF_Local(t) PROVE DrainedOK'
  BY <1>12 DEF RF_Local, DrainedOK, Drained, memVars
<1>13. ASSUME NEW t \in Thread, FS_Next(t) PROVE DrainedOK'
  BY <1>13 DEF FS_Next, sphVars, blkVars, memVars, DrainedOK, Drained
<1>14. ASSUME NEW t \in Thread, FS_Clear(t) PROVE DrainedOK'
  BY <1>14, <1>0 DEF FS_Clear, LocalOK, DrainedOK, Drained
<1>15. ASSUME NEW t \in Thread, FS_Scan(t) PROVE DrainedOK'
  BY <1>15 DEF FS_Scan, FreePb, sphVars, memVars, DrainedOK, Drained
<1>16. ASSUME NEW t \in Thread, FS_Free(t) PROVE DrainedOK'
  BY <1>16 DEF FS_Free, blkVars, memVars, DrainedOK, Drained
<1>17. ASSUME NEW t \in Thread, FS_Dead(t) PROVE DrainedOK'
  BY <1>17 DEF FS_Dead, blkVars, memVars, DrainedOK, Drained
<1>18. ASSUME NEW t \in Thread, NEW s \in Superpage, Flush(t, s)
       PROVE  DrainedOK'
  BY <1>18 DEF Flush, DrainedOK, Drained
<1>19. ASSUME NEW t \in Thread, SphFree(t) PROVE DrainedOK'
  <2>1. cur[t] \in Superpage
    BY <1>19 DEF SphFree, LocalOK
  <2>2. CASE sb' = sb
    BY <2>2 DEF DrainedOK, Drained
  <2>3. CASE sb' = [u \in Thread |-> [sb[u] EXCEPT ![cur[t]] = EMPTY]]
    BY <2>3 DEF DrainedOK, Drained, VarTypes
  <2> QED BY <1>19, <2>1, <2>2, <2>3, SphFreeType
<1>20. CASE UNCHANGED vars
  BY <1>20 DEF vars, sphVars, blkVars, memVars, thrVars, DrainedOK, Drained
<1> QED
  BY <1>1, <1>2, <1>3, <1>4, <1>5, <1>6, <1>7, <1>8, <1>9, <1>10, <1>11,
     <1>12, <1>13, <1>14, <1>15, <1>16, <1>17, <1>18, <1>19, <1>20
     DEF Next, Call, Progress, Terminated

(* Nothing changes for an orphan or for the threads about to look at it.   *)
LEMMA StrandedKeep ==
  ASSUME NoStranded,
         \A r \in Superpage : where'[r] = "used" /\ owner'[r] = DEAD_OWNER =>
          /\ where[r] = "used" /\ owner[r] = DEAD_OWNER
          /\ \A u \in Thread : pc[u] \in PushPc /\ cur[u] = r =>
               pc'[u] \in PushPc /\ cur'[u] = r,
         \A s \in Superpage : owner[s] = DEAD_OWNER =>
            (NoneOut(s)' => NoneOut(s))
  PROVE  NoStranded'
BY DEF NoStranded

(* Nothing changes for a thread whose scan met a page block in use.        *)
LEMMA MarkKeep ==
  ASSUME MarkOK,
         \A v \in Thread : pc'[v] = "fs_scan" /\ cnt_inuse'[v] =>
          /\ pc[v] = "fs_scan" /\ cnt_inuse[v] /\ cur'[v] = cur[v]
          /\ finish_mark[cur[v]] = DO_NOT_FINISH
               => finish_mark'[cur[v]] = DO_NOT_FINISH
          /\ \A u \in Thread : pc[u] = "rf_mark" /\ cur[u] = cur[v] =>
               pc'[u] = "rf_mark" /\ cur'[u] = cur[u],
         \A v \in Thread : pc[v] = "fs_scan" =>
            \A s : s = cur[v] => (NoneOut(s)' => NoneOut(s))
  PROVE  MarkOK'
BY DEF MarkOK

(* An owner's return of blocks concerns neither an orphan nor a superpage  *)
(* another thread is finishing.                                            *)
LEMMA LocalNoneOut ==
  ASSUME TypeOK, NEW t \in Thread, NEW s \in Superpage, NEW R,
         LocalReturn(t, s, R), NEW r \in Superpage, r # s, NoneOut(r)'
  PROVE  NoneOut(r)
<1>1. /\ \A b \in R : b \in Block => SpOfBlock(b) = s
      /\ out' = out \ R /\ out \subseteq Block
  BY LocalReturnType DEF TypeOK, VarTypes
<1> QED BY <1>1 DEF NoneOut, SpOfBlock

LEMMA StrandedStep ==
  ASSUME SCInv, ~ StoreBuffers, [Next]_vars
  PROVE  NoStranded'
<1> TypeOK /\ VarTypes /\ BlocksOK /\ RunsOK /\ WorkOK /\ PassedOK
  BY DEF SCInv, IInv, TypeOK
<1> NoStranded /\ MarkOK
  BY DEF SCInv
<1> \A v \in Thread : LocalOK(v)
  BY DEF TypeOK
<1> USE SpOfAssumption, PbOfAssumption, ThreadAssumption
<1>0. ASSUME NEW t \in Thread, NEW s \in Superpage, NEW m, Store(t, s, m)
      PROVE  sb' = sb /\ finish_mark' = [finish_mark EXCEPT ![s] = m]
  BY <1>0 DEF Store
<1>1. ASSUME NEW t \in Thread, NewPb(t) PROVE NoStranded'
  <2>1. \A s : NoneOut(s)' => NoneOut(s)
    BY <1>1 DEF NewPb, Carve, sphVars, memVars, thrVars, NoneOut, SpOfBlock
  <2>2. \A r \in Superpage : where'[r] = "used" /\ owner'[r] = DEAD_OWNER =>
          /\ where[r] = "used" /\ owner[r] = DEAD_OWNER
          /\ \A u \in Thread : pc[u] \in PushPc /\ cur[u] = r =>
               pc'[u] \in PushPc /\ cur'[u] = r
    BY <1>1 DEF NewPb, Carve, sphVars, memVars, thrVars, VarTypes
  <2> QED BY <2>1, <2>2, StrandedKeep
<1>2. ASSUME NEW t \in Thread, SphAlloc(t) PROVE NoStranded'
  <2>1. \A s : NoneOut(s)' => NoneOut(s)
    BY <1>2 DEF SphAlloc, Carve, thrVars, PbsOf, NoneOut, SpOfBlock
  <2>2. \A r \in Superpage : where'[r] = "used" /\ owner'[r] = DEAD_OWNER =>
          /\ where[r] = "used" /\ owner[r] = DEAD_OWNER
          /\ \A u \in Thread : pc[u] \in PushPc /\ cur[u] = r =>
               pc'[u] \in PushPc /\ cur'[u] = r
    BY <1>2 DEF SphAlloc, Carve, thrVars, PbsOf, VarTypes
  <2> QED BY <2>1, <2>2, StrandedKeep
<1>3. ASSUME NEW t \in Thread, ReusePb(t) PROVE NoStranded'
  <2>1. \A s : NoneOut(s)' => NoneOut(s)
    BY <1>3 DEF ReusePb, sphVars, memVars, thrVars, NoneOut, SpOfBlock
  <2>2. \A r \in Superpage : where'[r] = "used" /\ owner'[r] = DEAD_OWNER =>
          /\ where[r] = "used" /\ owner[r] = DEAD_OWNER
          /\ \A u \in Thread : pc[u] \in PushPc /\ cur[u] = r =>
               pc'[u] \in PushPc /\ cur'[u] = r
    BY <1>3 DEF ReusePb, sphVars, memVars, thrVars, VarTypes
  <2> QED BY <2>1, <2>2, StrandedKeep
<1>4. ASSUME NEW t \in Thread, Return(t) PROVE NoStranded'
  <2> PICK s \in Superpage, R \in SUBSET out :
         /\ R # {} /\ \A u \in Thread : run[u] \cap R = {}
         /\ pc[t] = "idle"
         /\ UNCHANGED <<todo, cnt_inuse, sphVars, memVars>>
         /\ \/ /\ owner[s] = t
               /\ LocalReturn(t, s, R)
               /\ UNCHANGED <<run, hazard>>
            \/ /\ \E p \in PbsOf(s) : R \subseteq BlocksOf(p)
               /\ pc' = [pc EXCEPT ![t] = "rf_check"]
               /\ cur' = [cur EXCEPT ![t] = s]
               /\ run' = [run EXCEPT ![t] = R]
               /\ hazard' = [hazard EXCEPT ![t] = s]
               /\ UNCHANGED blkVars
    BY <1>4, ReturnCases
  <2>1. CASE /\ owner[s] = t
             /\ LocalReturn(t, s, R)
             /\ UNCHANGED <<run, hazard>>
    <3>1. \A r \in Superpage \ {s} : NoneOut(r)' => NoneOut(r)
      BY <2>1, LocalNoneOut
    <3>2. \A r \in Superpage : where'[r] = "used" /\ owner'[r] = DEAD_OWNER =>
            /\ where[r] = "used" /\ owner[r] = DEAD_OWNER
            /\ \A u \in Thread : pc[u] \in PushPc /\ cur[u] = r =>
                 pc'[u] \in PushPc /\ cur'[u] = r
      BY <2>1, LocalReturnPc DEF sphVars
    <3>3. s \in Superpage /\ owner[s] = t
      BY <2>1
    <3> QED BY <3>1, <3>2, <3>3, StrandedKeep DEF WorkOK, OwningPc
  <2>2. CASE /\ \E p \in PbsOf(s) : R \subseteq BlocksOf(p)
             /\ pc' = [pc EXCEPT ![t] = "rf_check"]
             /\ cur' = [cur EXCEPT ![t] = s]
             /\ run' = [run EXCEPT ![t] = R]
             /\ hazard' = [hazard EXCEPT ![t] = s]
             /\ UNCHANGED blkVars
    <3>1. \A r : NoneOut(r)' => NoneOut(r)
      BY <2>2 DEF NoneOut, SpOfBlock, blkVars
    <3>2. \A r \in Superpage : where'[r] = "used" /\ owner'[r] = DEAD_OWNER =>
            /\ where[r] = "used" /\ owner[r] = DEAD_OWNER
            /\ \A u \in Thread : pc[u] \in PushPc /\ cur[u] = r =>
                 pc'[u] \in PushPc /\ cur'[u] = r
      BY <2>2 DEF VarTypes, sphVars, memVars
    <3> QED BY <3>1, <3>2, StrandedKeep
  <2> QED BY <2>1, <2>2
<1>5. ASSUME NEW t \in Thread, Exit(t) PROVE NoStranded'
  <2>1. \A s : NoneOut(s)' => NoneOut(s)
    BY <1>5 DEF Exit, sphVars, blkVars, memVars, NoneOut, SpOfBlock
  <2>2. \A r \in Superpage : where'[r] = "used" /\ owner'[r] = DEAD_OWNER =>
          /\ where[r] = "used" /\ owner[r] = DEAD_OWNER
          /\ \A u \in Thread : pc[u] \in PushPc /\ cur[u] = r =>
               pc'[u] \in PushPc /\ cur'[u] = r
    BY <1>5 DEF Exit, sphVars, blkVars, memVars, VarTypes
  <2> QED BY <2>1, <2>2, StrandedKeep
<1>6. ASSUME NEW t \in Thread, RF_Check(t) PROVE NoStranded'
  <2>1. \A s : NoneOut(s)' => NoneOut(s)
    BY <1>6 DEF RF_Check, Take, blkVars, memVars, NoneOut, SpOfBlock
  <2>2. \A r \in Superpage : where'[r] = "used" /\ owner'[r] = DEAD_OWNER =>
          /\ where[r] = "used" /\ owner[r] = DEAD_OWNER
          /\ \A u \in Thread : pc[u] \in PushPc /\ cur[u] = r =>
               pc'[u] \in PushPc /\ cur'[u] = r
    BY <1>6 DEF RF_Check, Take, blkVars, memVars, VarTypes
  <2> QED BY <2>1, <2>2, StrandedKeep
<1>7. ASSUME NEW t \in Thread, RF_Push(t) PROVE NoStranded'
  <2>1. \A s \in Superpage : NoneOut(s)' => NoneOut(s) \/ s = cur[t]
    BY <1>7 DEF RF_Push, NoneOut, SpOfBlock, RunsOK
  <2>2. owner' = owner /\ where' = where /\ cur' = cur /\ pc'[t] = "rf_mark"
        /\ \A u \in Thread \ {t} : pc'[u] = pc[u]
    BY <1>7 DEF RF_Push, sphVars, VarTypes
  <2> QED BY <2>1, <2>2 DEF NoStranded
<1>8. ASSUME NEW t \in Thread, RF_Mark(t) PROVE NoStranded'
  <2>1. \A s : NoneOut(s)' => NoneOut(s)
    BY <1>8 DEF RF_Mark, sphVars, blkVars, NoneOut, SpOfBlock
  <2>2. \A r \in Superpage : where'[r] = "used" /\ owner'[r] = DEAD_OWNER =>
          /\ where[r] = "used" /\ owner[r] = DEAD_OWNER
          /\ \A u \in Thread : pc[u] \in PushPc /\ cur[u] = r =>
               pc'[u] \in PushPc /\ cur'[u] = r
    BY <1>8 DEF RF_Mark, sphVars, blkVars, VarTypes
  <2> QED BY <2>1, <2>2, StrandedKeep
<1>9. ASSUME NEW t \in Thread, RF_Recheck(t) PROVE NoStranded'
  <2>1. \A s \in Superpage : NoneOut(s)' => NoneOut(s)
    BY <1>9 DEF RF_Recheck, NoneOut, SpOfBlock, blkVars
  <2>2. where' = where /\ cur[t] \in Superpage
        /\ \A u \in Thread \ {t} : pc'[u] = pc[u] /\ cur'[u] = cur[u]
    BY <1>9 DEF RF_Recheck, Take, Idle, VarTypes, LocalOK
  <2>3. owner'[cur[t]] # DEAD_OWNER
        /\ \A s \in Superpage \ {cur[t]} : owner'[s] = owner[s]
    BY <1>9, <2>2 DEF RF_Recheck, Take, Idle, VarTypes
  <2>4. \A r \in Superpage : where'[r] = "used" /\ owner'[r] = DEAD_OWNER =>
          /\ where[r] = "used" /\ owner[r] = DEAD_OWNER
          /\ \A u \in Thread : pc[u] \in PushPc /\ cur[u] = r =>
               pc'[u] \in PushPc /\ cur'[u] = r
    BY <2>2, <2>3
  <2> QED BY <2>1, <2>4, StrandedKeep
<1>10. ASSUME NEW t \in Thread, Walk(t) PROVE NoStranded'
  <2>1. \A s : NoneOut(s)' => NoneOut(s)
    BY <1>10 DEF Walk, FreePb, sphVars, memVars, NoneOut, SpOfBlock
  <2>2. \A r \in Superpage : where'[r] = "used" /\ owner'[r] = DEAD_OWNER =>
          /\ where[r] = "used" /\ owner[r] = DEAD_OWNER
          /\ \A u \in Thread : pc[u] \in PushPc /\ cur[u] = r =>
               pc'[u] \in PushPc /\ cur'[u] = r
    BY <1>10 DEF Walk, FreePb, sphVars, memVars, VarTypes
  <2> QED BY <2>1, <2>2, StrandedKeep
<1>11. ASSUME NEW t \in Thread, WalkDone(t) PROVE NoStranded'
  <2>1. \A s : NoneOut(s)' => NoneOut(s)
    BY <1>11 DEF WalkDone, Idle, sphVars, blkVars, memVars, NoneOut, SpOfBlock
  <2>2. \A r \in Superpage : where'[r] = "used" /\ owner'[r] = DEAD_OWNER =>
          /\ where[r] = "used" /\ owner[r] = DEAD_OWNER
          /\ \A u \in Thread : pc[u] \in PushPc /\ cur[u] = r =>
               pc'[u] \in PushPc /\ cur'[u] = r
    BY <1>11 DEF WalkDone, Idle, sphVars, blkVars, memVars, VarTypes
  <2> QED BY <2>1, <2>2, StrandedKeep
<1>12. ASSUME NEW t \in Thread, RF_Local(t) PROVE NoStranded'
  <2>1. cur[t] \in Superpage /\ LocalReturn(t, cur[t], run[t])
    BY <1>12 DEF RF_Local, LocalOK
  <2>2. owner[cur[t]] = t
    BY <1>12 DEF RF_Local, WorkOK
  <2>3. \A r \in Superpage \ {cur[t]} : NoneOut(r)' => NoneOut(r)
    BY <2>1, LocalNoneOut
  <2>4. owner' = owner /\ \A r \in Superpage \ {cur[t]} : where'[r] = where[r]
    BY <1>12, <2>1, LocalReturnType DEF RF_Local, sphVars
  <2>5. \A u \in Thread : pc[u] \in PushPc => pc'[u] = pc[u] /\ cur'[u] = cur[u]
    BY <1>12, <2>1, LocalReturnPc DEF RF_Local, sphVars, memVars
  <2>6. \A r \in Superpage : where'[r] = "used" /\ owner'[r] = DEAD_OWNER =>
          /\ where[r] = "used" /\ owner[r] = DEAD_OWNER
          /\ \A u \in Thread : pc[u] \in PushPc /\ cur[u] = r =>
               pc'[u] \in PushPc /\ cur'[u] = r
    BY <2>1, <2>2, <2>4, <2>5
  <2> QED BY <2>1, <2>2, <2>3, <2>6, StrandedKeep
<1>13. ASSUME NEW t \in Thread, FS_Next(t) PROVE NoStranded'
  <2>1. \A s : NoneOut(s)' => NoneOut(s)
    BY <1>13 DEF FS_Next, sphVars, blkVars, memVars, NoneOut, SpOfBlock
  <2>2. \A r \in Superpage : where'[r] = "used" /\ owner'[r] = DEAD_OWNER =>
          /\ where[r] = "used" /\ owner[r] = DEAD_OWNER
          /\ \A u \in Thread : pc[u] \in PushPc /\ cur[u] = r =>
               pc'[u] \in PushPc /\ cur'[u] = r
    BY <1>13 DEF FS_Next, sphVars, blkVars, memVars, VarTypes
  <2> QED BY <2>1, <2>2, StrandedKeep
<1>14. ASSUME NEW t \in Thread, FS_Clear(t) PROVE NoStranded'
  <2>1. \A s : NoneOut(s)' => NoneOut(s)
    BY <1>14 DEF FS_Clear, sphVars, blkVars, NoneOut, SpOfBlock
  <2>2. \A r \in Superpage : where'[r] = "used" /\ owner'[r] = DEAD_OWNER =>
          /\ where[r] = "used" /\ owner[r] = DEAD_OWNER
          /\ \A u \in Thread : pc[u] \in PushPc /\ cur[u] = r =>
               pc'[u] \in PushPc /\ cur'[u] = r
    BY <1>14 DEF FS_Clear, sphVars, blkVars, VarTypes
  <2> QED BY <2>1, <2>2, StrandedKeep
<1>15. ASSUME NEW t \in Thread, FS_Scan(t) PROVE NoStranded'
  <2>1. \A s : NoneOut(s)' => NoneOut(s)
    BY <1>15 DEF FS_Scan, FreePb, sphVars, memVars, NoneOut, SpOfBlock
  <2>2. \A r \in Superpage : where'[r] = "used" /\ owner'[r] = DEAD_OWNER =>
          /\ where[r] = "used" /\ owner[r] = DEAD_OWNER
          /\ \A u \in Thread : pc[u] \in PushPc /\ cur[u] = r =>
               pc'[u] \in PushPc /\ cur'[u] = r
    BY <1>15 DEF FS_Scan, FreePb, sphVars, memVars, VarTypes
  <2> QED BY <2>1, <2>2, StrandedKeep
<1>16. ASSUME NEW t \in Thread, FS_Free(t) PROVE NoStranded'
  <2>1. \A s : NoneOut(s)' => NoneOut(s)
    BY <1>16 DEF FS_Free, blkVars, memVars, NoneOut, SpOfBlock
  <2>2. \A r \in Superpage : where'[r] = "used" /\ owner'[r] = DEAD_OWNER =>
          /\ where[r] = "used" /\ owner[r] = DEAD_OWNER
          /\ \A u \in Thread : pc[u] \in PushPc /\ cur[u] = r =>
               pc'[u] \in PushPc /\ cur'[u] = r
    BY <1>16 DEF FS_Free, blkVars, memVars, VarTypes
  <2> QED BY <2>1, <2>2, StrandedKeep
<1>17. ASSUME NEW t \in Thread, FS_Dead(t) PROVE NoStranded'
  <2>1. \A s \in Superpage : NoneOut(s)' => NoneOut(s)
    BY <1>17 DEF FS_Dead, NoneOut, SpOfBlock, blkVars
  <2>2. where' = where /\ cur' = cur
        /\ \A u \in Thread : pc[u] \in PushPc => pc'[u] = pc[u]
    BY <1>17 DEF FS_Dead, VarTypes
  <2>3. CASE owner' = owner
    BY <2>1, <2>2, <2>3 DEF NoStranded
  <2>4. CASE /\ finish_mark[cur[t]] = NONE
             /\ owner' = [owner EXCEPT ![cur[t]] = DEAD_OWNER]
    <3>1. \A s \in Superpage \ {cur[t]} : owner'[s] = owner[s]
      BY <2>4 DEF VarTypes
    <3>2. NoneOut(cur[t]) =>
            \E u \in Thread : pc[u] = "rf_mark" /\ cur[u] = cur[t]
      BY <1>17, <2>4 DEF FS_Dead, MarkOK
    <3> QED BY <2>1, <2>2, <3>1, <3>2 DEF NoStranded
  <2> QED BY <1>17, <2>3, <2>4 DEF FS_Dead
<1>18. ASSUME NEW t \in Thread, NEW s \in Superpage, Flush(t, s)
       PROVE  NoStranded'
  <2>1. \A r : NoneOut(r)' => NoneOut(r)
    BY <1>18 DEF Flush, NoneOut, SpOfBlock, blkVars
  <2>2. \A r \in Superpage : where'[r] = "used" /\ owner'[r] = DEAD_OWNER =>
          /\ where[r] = "used" /\ owner[r] = DEAD_OWNER
          /\ \A u \in Thread : pc[u] \in PushPc /\ cur[u] = r =>
               pc'[u] \in PushPc /\ cur'[u] = r
    BY <1>18 DEF Flush, sphVars, thrVars
  <2> QED BY <2>1, <2>2, StrandedKeep
<1>19. ASSUME NEW t \in Thread, SphFree(t) PROVE NoStranded'
  <2>1. /\ cur[t] \in Superpage /\ pc[t] = "sph_free"
        /\ UNCHANGED <<owner, blkVars>>
        /\ pc' = [pc EXCEPT ![t] = "idle"]
        /\ cur' = [cur EXCEPT ![t] = NoSp]
    BY <1>19 DEF SphFree, Idle, LocalOK
  <2>2. owner[cur[t]] = t
    BY <2>1 DEF WorkOK
  <2>3. \A r : NoneOut(r)' => NoneOut(r)
    BY <2>1 DEF NoneOut, SpOfBlock, blkVars
  <2>4. \A r \in Superpage : where'[r] = "used" /\ owner'[r] = DEAD_OWNER =>
          /\ where[r] = "used" /\ owner[r] = DEAD_OWNER
          /\ \A u \in Thread : pc[u] \in PushPc /\ cur[u] = r =>
               pc'[u] \in PushPc /\ cur'[u] = r
    BY <1>19, <2>1, <2>2, SphFreeType DEF VarTypes
  <2> QED BY <2>3, <2>4, StrandedKeep
<1>20. CASE UNCHANGED vars
  BY <1>20 DEF vars, sphVars, blkVars, memVars, thrVars, NoStranded, NoneOut,
         SpOfBlock
<1> QED
  BY <1>1, <1>2, <1>3, <1>4, <1>5, <1>6, <1>7, <1>8, <1>9, <1>10, <1>11,
     <1>12, <1>13, <1>14, <1>15, <1>16, <1>17, <1>18, <1>19, <1>20
     DEF Next, Call, Progress, Terminated

LEMMA MarkStep ==
  ASSUME SCInv, ~ StoreBuffers, [Next]_vars
  PROVE  MarkOK'
<1> TypeOK /\ VarTypes /\ BlocksOK /\ RunsOK /\ WorkOK /\ PassedOK
  BY DEF SCInv, IInv, TypeOK
<1> NoStranded /\ MarkOK /\ DrainedOK
  BY DEF SCInv
<1> \A v \in Thread : LocalOK(v)
  BY DEF TypeOK
<1> USE SpOfAssumption, PbOfAssumption, ThreadAssumption
<1>0. ASSUME NEW t \in Thread, NEW s \in Superpage, NEW m, Store(t, s, m)
      PROVE  sb' = sb /\ finish_mark' = [finish_mark EXCEPT ![s] = m]
  BY <1>0 DEF Store
<1>1. ASSUME NEW t \in Thread, NewPb(t) PROVE MarkOK'
  <2>1. \A s : NoneOut(s)' => NoneOut(s)
    BY <1>1 DEF NewPb, Carve, sphVars, memVars, thrVars, NoneOut, SpOfBlock
  <2>2. \A v \in Thread : pc'[v] = "fs_scan" /\ cnt_inuse'[v] =>
          /\ pc[v] = "fs_scan" /\ cnt_inuse[v] /\ cur'[v] = cur[v]
          /\ finish_mark[cur[v]] = DO_NOT_FINISH
               => finish_mark'[cur[v]] = DO_NOT_FINISH
          /\ \A u \in Thread : pc[u] = "rf_mark" /\ cur[u] = cur[v] =>
               pc'[u] = "rf_mark" /\ cur'[u] = cur[u]
    BY <1>1 DEF NewPb, Carve, sphVars, memVars, thrVars, VarTypes, WorkOK,
           LocalOK
  <2> QED BY <2>1, <2>2, MarkKeep
<1>2. ASSUME NEW t \in Thread, SphAlloc(t) PROVE MarkOK'
  <2>1. \A s : NoneOut(s)' => NoneOut(s)
    BY <1>2 DEF SphAlloc, Carve, thrVars, PbsOf, NoneOut, SpOfBlock
  <2>2. \A v \in Thread : pc'[v] = "fs_scan" /\ cnt_inuse'[v] =>
          /\ pc[v] = "fs_scan" /\ cnt_inuse[v] /\ cur'[v] = cur[v]
          /\ finish_mark[cur[v]] = DO_NOT_FINISH
               => finish_mark'[cur[v]] = DO_NOT_FINISH
          /\ \A u \in Thread : pc[u] = "rf_mark" /\ cur[u] = cur[v] =>
               pc'[u] = "rf_mark" /\ cur'[u] = cur[u]
    BY <1>2 DEF SphAlloc, Carve, thrVars, PbsOf, VarTypes, WorkOK, LocalOK
  <2> QED BY <2>1, <2>2, MarkKeep
<1>3. ASSUME NEW t \in Thread, ReusePb(t) PROVE MarkOK'
  <2>1. \A s : NoneOut(s)' => NoneOut(s)
    BY <1>3 DEF ReusePb, sphVars, memVars, thrVars, NoneOut, SpOfBlock
  <2>2. \A v \in Thread : pc'[v] = "fs_scan" /\ cnt_inuse'[v] =>
          /\ pc[v] = "fs_scan" /\ cnt_inuse[v] /\ cur'[v] = cur[v]
          /\ finish_mark[cur[v]] = DO_NOT_FINISH
               => finish_mark'[cur[v]] = DO_NOT_FINISH
          /\ \A u \in Thread : pc[u] = "rf_mark" /\ cur[u] = cur[v] =>
               pc'[u] = "rf_mark" /\ cur'[u] = cur[u]
    BY <1>3 DEF ReusePb, sphVars, memVars, thrVars, VarTypes, WorkOK, LocalOK
  <2> QED BY <2>1, <2>2, MarkKeep
<1>4. ASSUME NEW t \in Thread, Return(t) PROVE MarkOK'
  <2> PICK s \in Superpage, R \in SUBSET out :
         /\ R # {} /\ \A u \in Thread : run[u] \cap R = {}
         /\ pc[t] = "idle"
         /\ UNCHANGED <<todo, cnt_inuse, sphVars, memVars>>
         /\ \/ /\ owner[s] = t
               /\ LocalReturn(t, s, R)
               /\ UNCHANGED <<run, hazard>>
            \/ /\ \E p \in PbsOf(s) : R \subseteq BlocksOf(p)
               /\ pc' = [pc EXCEPT ![t] = "rf_check"]
               /\ cur' = [cur EXCEPT ![t] = s]
               /\ run' = [run EXCEPT ![t] = R]
               /\ hazard' = [hazard EXCEPT ![t] = s]
               /\ UNCHANGED blkVars
    BY <1>4, ReturnCases
  <2>1. CASE /\ owner[s] = t
             /\ LocalReturn(t, s, R)
             /\ UNCHANGED <<run, hazard>>
    <3>1. \A r \in Superpage \ {s} : NoneOut(r)' => NoneOut(r)
      BY <2>1, LocalNoneOut
    <3>2. \A v \in Thread : pc'[v] = "fs_scan" /\ cnt_inuse'[v] =>
            /\ pc[v] = "fs_scan" /\ cnt_inuse[v] /\ cur'[v] = cur[v]
            /\ finish_mark[cur[v]] = DO_NOT_FINISH
                 => finish_mark'[cur[v]] = DO_NOT_FINISH
            /\ \A u \in Thread : pc[u] = "rf_mark" /\ cur[u] = cur[v] =>
                 pc'[u] = "rf_mark" /\ cur'[u] = cur[u]
      BY <2>1, LocalReturnPc DEF memVars
    <3>3. \A v \in Thread : pc[v] = "fs_scan" => cur[v] \in Superpage \ {s}
      BY <2>1 DEF WorkOK, LocalOK
    <3> QED BY <3>1, <3>2, <3>3, MarkKeep
  <2>2. CASE /\ \E p \in PbsOf(s) : R \subseteq BlocksOf(p)
             /\ pc' = [pc EXCEPT ![t] = "rf_check"]
             /\ cur' = [cur EXCEPT ![t] = s]
             /\ run' = [run EXCEPT ![t] = R]
             /\ hazard' = [hazard EXCEPT ![t] = s]
             /\ UNCHANGED blkVars
    <3>1. \A r : NoneOut(r)' => NoneOut(r)
      BY <2>2 DEF NoneOut, SpOfBlock, blkVars
    <3>2. \A v \in Thread : pc'[v] = "fs_scan" /\ cnt_inuse'[v] =>
            /\ pc[v] = "fs_scan" /\ cnt_inuse[v] /\ cur'[v] = cur[v]
            /\ finish_mark[cur[v]] = DO_NOT_FINISH
                 => finish_mark'[cur[v]] = DO_NOT_FINISH
            /\ \A u \in Thread : pc[u] = "rf_mark" /\ cur[u] = cur[v] =>
                 pc'[u] = "rf_mark" /\ cur'[u] = cur[u]
      BY <2>2 DEF VarTypes, sphVars, memVars
    <3> QED BY <3>1, <3>2, MarkKeep
  <2> QED BY <2>1, <2>2
<1>5. ASSUME NEW t \in Thread, Exit(t) PROVE MarkOK'
  <2>1. \A s : NoneOut(s)' => NoneOut(s)
    BY <1>5 DEF Exit, sphVars, blkVars, memVars, NoneOut, SpOfBlock
  <2>2. \A v \in Thread : pc'[v] = "fs_scan" /\ cnt_inuse'[v] =>
          /\ pc[v] = "fs_scan" /\ cnt_inuse[v] /\ cur'[v] = cur[v]
          /\ finish_mark[cur[v]] = DO_NOT_FINISH
               => finish_mark'[cur[v]] = DO_NOT_FINISH
          /\ \A u \in Thread : pc[u] = "rf_mark" /\ cur[u] = cur[v] =>
               pc'[u] = "rf_mark" /\ cur'[u] = cur[u]
    BY <1>5 DEF Exit, sphVars, blkVars, memVars, VarTypes, WorkOK, LocalOK
  <2> QED BY <2>1, <2>2, MarkKeep
<1>6. ASSUME NEW t \in Thread, RF_Check(t) PROVE MarkOK'
  <2>1. \A s : NoneOut(s)' => NoneOut(s)
    BY <1>6 DEF RF_Check, Take, blkVars, memVars, NoneOut, SpOfBlock
  <2>2. \A v \in Thread : pc'[v] = "fs_scan" /\ cnt_inuse'[v] =>
          /\ pc[v] = "fs_scan" /\ cnt_inuse[v] /\ cur'[v] = cur[v]
          /\ finish_mark[cur[v]] = DO_NOT_FINISH
               => finish_mark'[cur[v]] = DO_NOT_FINISH
          /\ \A u \in Thread : pc[u] = "rf_mark" /\ cur[u] = cur[v] =>
               pc'[u] = "rf_mark" /\ cur'[u] = cur[u]
    BY <1>6 DEF RF_Check, Take, blkVars, memVars, VarTypes, WorkOK, LocalOK
  <2> QED BY <2>1, <2>2, MarkKeep
<1>7. ASSUME NEW t \in Thread, RF_Push(t) PROVE MarkOK'
  <2>1. \A s : NoneOut(s)' => NoneOut(s) \/ s = cur[t]
    BY <1>7 DEF RF_Push, NoneOut, SpOfBlock, RunsOK
  <2>2. /\ cur' = cur /\ pc'[t] = "rf_mark"
        /\ finish_mark' = finish_mark /\ cnt_inuse' = cnt_inuse
        /\ \A u \in Thread \ {t} : pc'[u] = pc[u]
    BY <1>7 DEF RF_Push, memVars, VarTypes
  <2> QED BY <1>7, <2>1, <2>2 DEF RF_Push, MarkOK
<1>8. ASSUME NEW t \in Thread, RF_Mark(t) PROVE MarkOK'
  <2>1. \A s : NoneOut(s)' => NoneOut(s)
    BY <1>8 DEF RF_Mark, NoneOut, SpOfBlock, blkVars
  <2>2. /\ cur' = cur /\ cnt_inuse' = cnt_inuse /\ pc'[t] = "rf_recheck"
        /\ \A u \in Thread \ {t} : pc'[u] = pc[u]
    BY <1>8 DEF RF_Mark, VarTypes
  <2>3. /\ finish_mark'[cur[t]] = DO_NOT_FINISH
        /\ \A s \in Superpage \ {cur[t]} : finish_mark'[s] = finish_mark[s]
    BY <1>8, <1>0 DEF RF_Mark, VarTypes, LocalOK
  <2>4. \A v \in Thread : pc[v] = "fs_scan" => cur[v] \in Superpage
    BY DEF LocalOK
  <2> QED BY <2>1, <2>2, <2>3, <2>4 DEF MarkOK
<1>9. ASSUME NEW t \in Thread, RF_Recheck(t) PROVE MarkOK'
  <2>1. \A s : NoneOut(s)' => NoneOut(s)
    BY <1>9 DEF RF_Recheck, Take, Idle, blkVars, memVars, NoneOut, SpOfBlock
  <2>2. \A v \in Thread : pc'[v] = "fs_scan" /\ cnt_inuse'[v] =>
          /\ pc[v] = "fs_scan" /\ cnt_inuse[v] /\ cur'[v] = cur[v]
          /\ finish_mark[cur[v]] = DO_NOT_FINISH
               => finish_mark'[cur[v]] = DO_NOT_FINISH
          /\ \A u \in Thread : pc[u] = "rf_mark" /\ cur[u] = cur[v] =>
               pc'[u] = "rf_mark" /\ cur'[u] = cur[u]
    BY <1>9 DEF RF_Recheck, Take, Idle, blkVars, memVars, VarTypes, WorkOK,
           LocalOK
  <2> QED BY <2>1, <2>2, MarkKeep
<1>10. ASSUME NEW t \in Thread, Walk(t) PROVE MarkOK'
  <2>1. \A s : NoneOut(s)' => NoneOut(s)
    BY <1>10 DEF Walk, FreePb, sphVars, memVars, NoneOut, SpOfBlock
  <2>2. \A v \in Thread : pc'[v] = "fs_scan" /\ cnt_inuse'[v] =>
          /\ pc[v] = "fs_scan" /\ cnt_inuse[v] /\ cur'[v] = cur[v]
          /\ finish_mark[cur[v]] = DO_NOT_FINISH
               => finish_mark'[cur[v]] = DO_NOT_FINISH
          /\ \A u \in Thread : pc[u] = "rf_mark" /\ cur[u] = cur[v] =>
               pc'[u] = "rf_mark" /\ cur'[u] = cur[u]
    BY <1>10 DEF Walk, FreePb, sphVars, memVars, VarTypes, WorkOK, LocalOK
  <2> QED BY <2>1, <2>2, MarkKeep
<1>11. ASSUME NEW t \in Thread, WalkDone(t) PROVE MarkOK'
  <2>1. \A s : NoneOut(s)' => NoneOut(s)
    BY <1>11 DEF WalkDone, Idle, sphVars, blkVars, memVars, NoneOut, SpOfBlock
  <2>2. \A v \in Thread : pc'[v] = "fs_scan" /\ cnt_inuse'[v] =>
          /\ pc[v] = "fs_scan" /\ cnt_inuse[v] /\ cur'[v] = cur[v]
          /\ finish_mark[cur[v]] = DO_NOT_FINISH
               => finish_mark'[cur[v]] = DO_NOT_FINISH
          /\ \A u \in Thread : pc[u] = "rf_mark" /\ cur[u] = cur[v] =>
               pc'[u] = "rf_mark" /\ cur'[u] = cur[u]
    BY <1>11 DEF WalkDone, Idle, sphVars, blkVars, memVars, VarTypes, WorkOK,
           LocalOK
  <2> QED BY <2>1, <2>2, MarkKeep
<1>12. ASSUME NEW t \in Thread, RF_Local(t) PROVE MarkOK'
  <2>1. cur[t] \in Superpage /\ LocalReturn(t, cur[t], run[t])
    BY <1>12 DEF RF_Local, LocalOK
  <2>2. owner[cur[t]] = t
    BY <1>12 DEF RF_Local, WorkOK
  <2>3. \A r \in Superpage \ {cur[t]} : NoneOut(r)' => NoneOut(r)
    BY <2>1, LocalNoneOut
  <2>4. \A v \in Thread : pc'[v] = "fs_scan" /\ cnt_inuse'[v] =>
          /\ pc[v] = "fs_scan" /\ cnt_inuse[v] /\ cur'[v] = cur[v]
          /\ finish_mark[cur[v]] = DO_NOT_FINISH
               => finish_mark'[cur[v]] = DO_NOT_FINISH
          /\ \A u \in Thread : pc[u] = "rf_mark" /\ cur[u] = cur[v] =>
               pc'[u] = "rf_mark" /\ cur'[u] = cur[u]
    BY <1>12, <2>1, LocalReturnPc DEF RF_Local, sphVars, memVars
  <2>5. \A v \in Thread : pc[v] = "fs_scan" => cur[v] \in Superpage \ {cur[t]}
    BY <1>12, <2>2 DEF RF_Local, WorkOK, LocalOK
  <2> QED BY <2>3, <2>4, <2>5, MarkKeep
<1>13. ASSUME NEW t \in Thread, FS_Next(t) PROVE MarkOK'
  <2>1. \A s : NoneOut(s)' => NoneOut(s)
    BY <1>13 DEF FS_Next, sphVars, blkVars, memVars, NoneOut, SpOfBlock
  <2>2. \A v \in Thread : pc'[v] = "fs_scan" /\ cnt_inuse'[v] =>
          /\ pc[v] = "fs_scan" /\ cnt_inuse[v] /\ cur'[v] = cur[v]
          /\ finish_mark[cur[v]] = DO_NOT_FINISH
               => finish_mark'[cur[v]] = DO_NOT_FINISH
          /\ \A u \in Thread : pc[u] = "rf_mark" /\ cur[u] = cur[v] =>
               pc'[u] = "rf_mark" /\ cur'[u] = cur[u]
    BY <1>13 DEF FS_Next, sphVars, blkVars, memVars, VarTypes, WorkOK, LocalOK
  <2> QED BY <2>1, <2>2, MarkKeep
<1>14. ASSUME NEW t \in Thread, FS_Clear(t) PROVE MarkOK'
  <2>1. \A s : NoneOut(s)' => NoneOut(s)
    BY <1>14 DEF FS_Clear, NoneOut, SpOfBlock, blkVars
  <2>2. /\ cur' = cur /\ ~ cnt_inuse'[t] /\ pc[t] = "fs_clear"
        /\ \A v \in Thread \ {t} : pc'[v] = pc[v] /\ cnt_inuse'[v] = cnt_inuse[v]
    BY <1>14 DEF FS_Clear, VarTypes
  <2>3. \A s \in Superpage \ {cur[t]} : finish_mark'[s] = finish_mark[s]
    BY <1>14, <1>0 DEF FS_Clear, VarTypes, LocalOK
  <2>4. \A v \in Thread \ {t} : pc[v] = "fs_scan" => cur[v] \in Superpage \ {cur[t]}
    BY <2>2 DEF WorkOK, LocalOK
  <2>5. pc'[t] = "fs_scan" /\ \A u \in Thread : pc[u] = "rf_mark" => pc'[u] = "rf_mark"
    BY <1>14 DEF FS_Clear, VarTypes
  <2> QED BY <2>1, <2>2, <2>3, <2>4, <2>5 DEF MarkOK
<1>15. ASSUME NEW t \in Thread, FS_Scan(t) PROVE MarkOK'
  <2>1. /\ cur' = cur /\ pc' = pc /\ finish_mark' = finish_mark /\ out' = out
        /\ \A v \in Thread \ {t} : cnt_inuse'[v] = cnt_inuse[v]
    BY <1>15 DEF FS_Scan, memVars, VarTypes
  <2>2. \A s : NoneOut(s)' <=> NoneOut(s)
    BY <2>1 DEF NoneOut, SpOfBlock
  <2>3. cnt_inuse'[t] => cnt_inuse[t] \/ ~ NoneOut(cur[t])
    BY <1>15, <2>1 DEF FS_Scan, PassedOK, NoneOut, AllBack, BlocksOf,
           SpOfBlock, VarTypes
  <2> QED BY <2>1, <2>2, <2>3 DEF MarkOK
<1>16. ASSUME NEW t \in Thread, FS_Free(t) PROVE MarkOK'
  <2>1. \A s : NoneOut(s)' => NoneOut(s)
    BY <1>16 DEF FS_Free, blkVars, memVars, NoneOut, SpOfBlock
  <2>2. \A v \in Thread : pc'[v] = "fs_scan" /\ cnt_inuse'[v] =>
          /\ pc[v] = "fs_scan" /\ cnt_inuse[v] /\ cur'[v] = cur[v]
          /\ finish_mark[cur[v]] = DO_NOT_FINISH
               => finish_mark'[cur[v]] = DO_NOT_FINISH
          /\ \A u \in Thread : pc[u] = "rf_mark" /\ cur[u] = cur[v] =>
               pc'[u] = "rf_mark" /\ cur'[u] = cur[u]
    BY <1>16 DEF FS_Free, blkVars, memVars, VarTypes, WorkOK, LocalOK
  <2> QED BY <2>1, <2>2, MarkKeep
<1>17. ASSUME NEW t \in Thread, FS_Dead(t) PROVE MarkOK'
  <2>1. \A s : NoneOut(s)' => NoneOut(s)
    BY <1>17 DEF FS_Dead, blkVars, memVars, NoneOut, SpOfBlock
  <2>2. \A v \in Thread : pc'[v] = "fs_scan" /\ cnt_inuse'[v] =>
          /\ pc[v] = "fs_scan" /\ cnt_inuse[v] /\ cur'[v] = cur[v]
          /\ finish_mark[cur[v]] = DO_NOT_FINISH
               => finish_mark'[cur[v]] = DO_NOT_FINISH
          /\ \A u \in Thread : pc[u] = "rf_mark" /\ cur[u] = cur[v] =>
               pc'[u] = "rf_mark" /\ cur'[u] = cur[u]
    BY <1>17 DEF FS_Dead, blkVars, memVars, VarTypes, WorkOK, LocalOK
  <2> QED BY <2>1, <2>2, MarkKeep
<1>18. ASSUME NEW t \in Thread, NEW s \in Superpage, Flush(t, s) PROVE MarkOK'
  <2>1. FALSE
    BY <1>18 DEF Flush, SCInv, DrainedOK, Drained
  <2> QED BY <2>1
<1>19. ASSUME NEW t \in Thread, SphFree(t) PROVE MarkOK'
  <2>1. /\ cur[t] \in Superpage /\ pc[t] = "sph_free"
        /\ UNCHANGED <<finish_mark, blkVars, cnt_inuse>>
        /\ pc' = [pc EXCEPT ![t] = "idle"]
        /\ cur' = [cur EXCEPT ![t] = NoSp]
    BY <1>19 DEF SphFree, Idle, LocalOK
  <2>2. \A r : NoneOut(r)' => NoneOut(r)
    BY <2>1 DEF NoneOut, SpOfBlock, blkVars
  <2>3. \A v \in Thread : pc'[v] = "fs_scan" /\ cnt_inuse'[v] =>
          /\ pc[v] = "fs_scan" /\ cnt_inuse[v] /\ cur'[v] = cur[v]
          /\ finish_mark[cur[v]] = DO_NOT_FINISH
               => finish_mark'[cur[v]] = DO_NOT_FINISH
          /\ \A u \in Thread : pc[u] = "rf_mark" /\ cur[u] = cur[v] =>
               pc'[u] = "rf_mark" /\ cur'[u] = cur[u]
    BY <2>1 DEF VarTypes
  <2> QED BY <2>2, <2>3, MarkKeep
<1>20. CASE UNCHANGED vars
  BY <1>20 DEF vars, sphVars, blkVars, memVars, thrVars, MarkOK, NoneOut,
         SpOfBlock
<1> QED
  BY <1>1, <1>2, <1>3, <1>4, <1>5, <1>6, <1>7, <1>8, <1>9, <1>10, <1>11,
     <1>12, <1>13, <1>14, <1>15, <1>16, <1>17, <1>18, <1>19, <1>20
     DEF Next, Call, Progress, Terminated

LEMMA SCInit == Init => SCInv
BY InvInit DEF Init, SCInv, NoStranded, MarkOK, DrainedOK, Drained

LEMMA SCStep == SCInv /\ ~ StoreBuffers /\ [Next]_vars => SCInv'
<1> SUFFICES ASSUME SCInv, ~ StoreBuffers, [Next]_vars PROVE SCInv'
  OBVIOUS
<1>1. IInv'
  BY InvStep DEF SCInv
<1> QED BY <1>1, StrandedStep, MarkStep, DrainedStep DEF SCInv

(* If stores reach memory in program order, the marks of a superpage, the  *)
(* orphans it leaves and the blocks still to come back stay in step: the   *)
(* inductive invariant behind adoption.                                    *)
THEOREM SCInductive == ~ StoreBuffers /\ Spec => []SCInv
<1>1. ~ StoreBuffers /\ SCInv /\ [Next]_vars => SCInv'
  BY SCStep
<1>2. CASE StoreBuffers
  BY <1>2
<1>3. CASE ~ StoreBuffers
  <2>1. SCInv /\ [Next]_vars => SCInv'
    BY <1>1, <1>3
  <2> QED BY SCInit, <2>1, PTL DEF Spec
<1> QED BY <1>2, <1>3

(* If stores reach memory in program order, every orphan whose blocks are  *)
(* all back is about to be adopted.  The machine the code is written for   *)
(* does not order them: run OwnerMark_stranded has the counterexample.     *)
THEOREM SCNoStranded == ~ StoreBuffers /\ Spec => []NoStranded
<1>1. SCInv => NoStranded
  BY DEF SCInv
<1> QED BY <1>1, SCInductive, PTL

----------------------------------------------------------------------------
(* The ownership protocol implements the promise of module Superpages, for *)
(* every set of threads, superpages, page blocks and blocks, and in both   *)
(* memory models.                                                          *)

(* The steps that the promise does not see, and the blocks that come back. *)
LEMMA Stutter ==
  ASSUME UNCHANGED <<owner, where, out>>
  PROVE  UNCHANGED Promise!svars
BY DEF Promise!svars

LEMMA Back ==
  ASSUME UNCHANGED <<owner, where>>, out' \subseteq out
  PROVE  Promise!GiveBack
BY DEF Promise!GiveBack

(* Blocks of a page block of s are blocks of s.                            *)
LEMMA InSuperpage ==
  ASSUME NEW p \in Pb, NEW B \in SUBSET BlocksOf(p)
  PROVE  B \in SUBSET Promise!BlocksIn(SpOf[p])
BY DEF BlocksOf, SpOfBlock, Promise!BlocksIn

(* The owner of a superpage in use hands out blocks of it.                 *)
LEMMA Handed ==
  ASSUME NEW t \in Thread, NEW p \in Pb, SpOf[p] \in Superpage,
         where[SpOf[p]] = "used", owner[SpOf[p]] = t,
         UNCHANGED <<owner, where>>,
         NEW B \in SUBSET BlocksOf(p), out' = out \cup B
  PROVE  Promise!HandOut(t, SpOf[p])
<1>1. B \in SUBSET Promise!BlocksIn(SpOf[p])
  BY InSuperpage
<1> QED BY <1>1, ThreadAssumption DEF Promise!HandOut

(* No block of a superpage is outside when none of its page blocks is in   *)
(* use.                                                                    *)
LEMMA NothingHeld ==
  ASSUME VarTypes, BlocksOK, NEW s \in Superpage,
         \A p \in in_use : SpOf[p] # s
  PROVE  out \cap Promise!BlocksIn(s) = {}
BY DEF VarTypes, BlocksOK, SpOfBlock, Promise!BlocksIn

(* The owner of an empty superpage releases it.                            *)
LEMMA Released ==
  ASSUME VarTypes, BlocksOK, NEW t \in Thread, NEW s \in Superpage,
         where[s] = "used", owner[s] = t,
         \A p \in in_use : SpOf[p] # s,
         where' \in [Superpage -> {"unmapped", "pool", "used"}],
         where'[s] # "used",
         \A r \in Superpage \ {s} : where'[r] = where[r],
         UNCHANGED <<owner, out>>
  PROVE  Promise!Release(t, s)
<1> DEFINE H == [r \in Superpage |->
                   IF where[r] # "used" THEN "free"
                   ELSE IF owner[r] = DEAD_OWNER THEN "orphan" ELSE owner[r]]
<1>1. H[s] = t /\ H' = [H EXCEPT ![s] = "free"]
  BY ThreadAssumption
<1>2. out \cap Promise!BlocksIn(s) = {}
  BY NothingHeld
<1> QED BY <1>1, <1>2 DEF Promise!Release

(* A thread adopts a dead superpage that is in use.                        *)
LEMMA Adopted ==
  ASSUME VarTypes, NEW t \in Thread, NEW s \in Superpage,
         where[s] = "used", owner[s] = DEAD_OWNER,
         owner' = [owner EXCEPT ![s] = t], UNCHANGED <<where, out>>
  PROVE  Promise!Adopt(t, s)
<1> DEFINE H == [r \in Superpage |->
                   IF where[r] # "used" THEN "free"
                   ELSE IF owner[r] = DEAD_OWNER THEN "orphan" ELSE owner[r]]
<1>1. H[s] = "orphan" /\ H' = [H EXCEPT ![s] = t]
  BY ThreadAssumption DEF VarTypes
<1> QED BY <1>1 DEF Promise!Adopt

(* The owner makes a superpage in use an orphan.                           *)
LEMMA Abandoned ==
  ASSUME VarTypes, NEW t \in Thread, NEW s \in Superpage,
         where[s] = "used", owner[s] = t,
         owner' = [owner EXCEPT ![s] = DEAD_OWNER], UNCHANGED <<where, out>>
  PROVE  Promise!Abandon(t, s)
<1> DEFINE H == [r \in Superpage |->
                   IF where[r] # "used" THEN "free"
                   ELSE IF owner[r] = DEAD_OWNER THEN "orphan" ELSE owner[r]]
<1>1. H[s] = t /\ H' = [H EXCEPT ![s] = "orphan"]
  BY ThreadAssumption DEF VarTypes
<1> QED BY <1>1 DEF Promise!Abandon

----------------------------------------------------------------------------
LEMMA PromiseInit == Init => Promise!SInit
BY DEF Init, Promise!SInit

LEMMA PromiseStep == IInv /\ [Next]_vars => [Promise!SNext]_(Promise!svars)
<1> SUFFICES ASSUME IInv, [Next]_vars PROVE [Promise!SNext]_(Promise!svars)
  OBVIOUS
<1> /\ VarTypes /\ BlocksOK /\ RunsOK /\ WorkOK /\ PassedOK
    /\ \A t \in Thread : LocalOK(t)
  BY DEF IInv, TypeOK
<1> \A p \in Pb : SpOf[p] \in Superpage
  BY SpOfAssumption
<1>1. ASSUME NEW t \in Thread, NewPb(t) PROVE Promise!SNext
  <2> PICK p \in Pb : where[SpOf[p]] = "used" /\ owner[SpOf[p]] = t /\ Carve(p)
    BY <1>1 DEF NewPb
  <2>1. UNCHANGED <<owner, where>> /\ out' = out \cup BlocksOf(p)
    BY <1>1 DEF NewPb, sphVars, Carve
  <2>2. Promise!HandOut(t, SpOf[p])
    BY <2>1, Handed
  <2> QED BY <2>2 DEF Promise!SNext
<1>2. ASSUME NEW t \in Thread, SphAlloc(t) PROVE Promise!SNext
  <2> PICK s \in Superpage : /\ where[s] # "used"
                             /\ where' = [where EXCEPT ![s] = "used"]
                             /\ owner' = [owner EXCEPT ![s] = t]
                             /\ \E p \in PbsOf(s) : Carve(p)
    BY <1>2 DEF SphAlloc
  <2> PICK p \in PbsOf(s) : Carve(p)
    OBVIOUS
  <2> DEFINE H == [r \in Superpage |->
                     IF where[r] # "used" THEN "free"
                     ELSE IF owner[r] = DEAD_OWNER THEN "orphan" ELSE owner[r]]
  <2>1. H[s] = "free" /\ H' = [H EXCEPT ![s] = t]
    BY ThreadAssumption DEF VarTypes
  <2>2. p \in Pb /\ SpOf[p] = s /\ out' = out \cup BlocksOf(p)
    BY DEF PbsOf, Carve
  <2>3. BlocksOf(p) \in SUBSET Promise!BlocksIn(s)
    BY <2>2, InSuperpage
  <2>4. Promise!Acquire(t, s)
    BY <2>1, <2>2, <2>3 DEF Promise!Acquire
  <2> QED BY <2>4 DEF Promise!SNext
<1>3. ASSUME NEW t \in Thread, ReusePb(t) PROVE Promise!SNext
  <2> PICK p \in in_use :
        /\ owner[SpOf[p]] = t
        /\ \/ out' = out \cup (BlocksOf(p) \ (out \cup remote))
           \/ out' = out \cup (BlocksOf(p) \cap remote)
    BY <1>3 DEF ReusePb
  <2>1. p \in Pb /\ where[SpOf[p]] = "used" /\ UNCHANGED <<owner, where>>
    BY <1>3 DEF ReusePb, sphVars, VarTypes, BlocksOK
  <2>2. PICK B \in SUBSET BlocksOf(p) : out' = out \cup B
    OBVIOUS
  <2>3. Promise!HandOut(t, SpOf[p])
    BY <2>1, <2>2, Handed
  <2> QED BY <2>1, <2>3 DEF Promise!SNext
<1>4. ASSUME NEW t \in Thread, Return(t) \/ RF_Local(t) \/ RF_Push(t)
      PROVE  Promise!SNext
  <2>1. UNCHANGED <<owner, where>>
    BY <1>4 DEF Return, RF_Local, RF_Push, sphVars
  <2>2. out' \subseteq out
    BY <1>4 DEF Return, RF_Local, RF_Push, LocalReturn, blkVars
  <2> QED BY <2>1, <2>2, Back DEF Promise!SNext
<1>5. ASSUME NEW t \in Thread, SphFree(t) PROVE Promise!SNext
  <2>1. /\ cur[t] \in Superpage /\ where[cur[t]] = "used" /\ owner[cur[t]] = t
        /\ \A p \in in_use : SpOf[p] # cur[t]
    BY <1>5 DEF SphFree, LocalOK, OwningPc, WorkOK, PassedOK
  <2> PICK s \in Superpage : s = cur[t]
    BY <2>1
  <2>2. /\ where' \in [Superpage -> {"unmapped", "pool", "used"}]
        /\ where'[s] # "used"
        /\ \A r \in Superpage \ {s} : where'[r] = where[r]
    BY <1>5, <2>1, SphFreeType
  <2>3. UNCHANGED <<owner, out>>
    BY <1>5 DEF SphFree, blkVars
  <2>4. Promise!Release(t, s)
    BY <2>1, <2>2, <2>3, Released
  <2> QED BY <2>4 DEF Promise!SNext
<1>6. ASSUME NEW t \in Thread, RF_Check(t) \/ RF_Recheck(t)
      PROVE  [Promise!SNext]_(Promise!svars)
  <2>1. cur[t] \in Superpage /\ UNCHANGED <<where, out>>
    BY <1>6 DEF RF_Check, RF_Recheck, LocalOK, HazardPc, PushPc, blkVars
  <2> PICK s \in Superpage : s = cur[t]
    BY <2>1
  <2>2. CASE owner[s] = DEAD_OWNER /\ owner' = [owner EXCEPT ![s] = t]
    <3>1. where[s] # "unmapped"
      <4>1. CASE RF_Check(t)
        <5>1. PICK b \in run[t] : b \in out /\ SpOfBlock(b) = s
          BY <4>1 DEF RF_Check, LocalOK, RunPc, RunsOK
        <5> QED BY <5>1 DEF BlocksOK, SpOfBlock
      <4>2. CASE RF_Recheck(t)
        BY <4>2 DEF RF_Recheck
      <4> QED BY <1>6, <4>1, <4>2
    <3>2. where[s] = "used"
      BY <2>2, <3>1 DEF WorkOK, VarTypes
    <3>3. Promise!Adopt(t, s)
      BY <2>1, <2>2, <3>2, Adopted
    <3> QED BY <3>3 DEF Promise!SNext
  <2>3. CASE UNCHANGED owner
    BY <2>1, <2>3, Stutter
  <2> QED BY <1>6, <2>2, <2>3 DEF RF_Check, RF_Recheck, Take
<1>7. ASSUME NEW t \in Thread, FS_Free(t) PROVE Promise!SNext
  <2>1. /\ cur[t] \in Superpage /\ where[cur[t]] = "used" /\ owner[cur[t]] = t
        /\ \A p \in in_use : SpOf[p] # cur[t]
    BY <1>7 DEF FS_Free, LocalOK, OwningPc, FinishPc, WorkOK, PassedOK
  <2> PICK s \in Superpage : s = cur[t]
    BY <2>1
  <2>2. where' = [where EXCEPT ![s] = "pool"] /\ UNCHANGED <<owner, out>>
    BY <1>7 DEF FS_Free, blkVars
  <2>3. Promise!Release(t, s)
    BY <2>1, <2>2, Released DEF VarTypes
  <2> QED BY <2>3 DEF Promise!SNext
<1>8. ASSUME NEW t \in Thread, FS_Dead(t)
      PROVE  [Promise!SNext]_(Promise!svars)
  <2>1. /\ cur[t] \in Superpage /\ where[cur[t]] = "used" /\ owner[cur[t]] = t
        /\ UNCHANGED <<where, out>>
    BY <1>8 DEF FS_Dead, LocalOK, OwningPc, FinishPc, WorkOK, blkVars
  <2> PICK s \in Superpage : s = cur[t]
    BY <2>1
  <2>2. CASE owner' = [owner EXCEPT ![s] = DEAD_OWNER]
    <3>1. Promise!Abandon(t, s)
      BY <2>1, <2>2, Abandoned
    <3> QED BY <3>1 DEF Promise!SNext
  <2>3. CASE UNCHANGED owner
    BY <2>1, <2>3, Stutter
  <2> QED BY <1>8, <2>2, <2>3 DEF FS_Dead
<1>9. ASSUME NEW t \in Thread,
             \/ RF_Mark(t) \/ Walk(t) \/ WalkDone(t) \/ Exit(t) \/ FS_Next(t)
             \/ FS_Clear(t) \/ FS_Scan(t)
      PROVE  UNCHANGED Promise!svars
  <2>1. UNCHANGED <<owner, where, out>>
    BY <1>9 DEF RF_Mark, Walk, WalkDone, Exit, FS_Next, FS_Clear, FS_Scan,
                sphVars, blkVars
  <2> QED BY <2>1, Stutter
<1>10. ASSUME NEW t \in Thread, NEW s \in Superpage, Flush(t, s)
       PROVE  UNCHANGED Promise!svars
  BY <1>10, Stutter DEF Flush, sphVars, blkVars
<1>11. CASE UNCHANGED vars
  BY <1>11, Stutter DEF vars, sphVars, blkVars
<1> QED
  BY <1>1, <1>2, <1>3, <1>4, <1>5, <1>6, <1>7, <1>8, <1>9, <1>10, <1>11
     DEF Next, Call, Progress, Terminated

(* Whatever the threads do, a superpage is acquired when free, released by *)
(* its owner when empty, left by its owner and adopted when an orphan: the *)
(* steps of remote_free, take_superpage, finish_superpages, sph_alloc and  *)
(* sph_free are those of module Superpages, or change nothing it sees.     *)
THEOREM Implements == Spec => KeepsPromise
<1>1. Promise!SInit /\ [][Promise!SNext]_(Promise!svars) => Promise!SSpec
  BY DEF Promise!SSpec
<1> QED
  BY PromiseInit, PromiseStep, Inductive, <1>1, PTL DEF Spec, KeepsPromise
=============================================================================
