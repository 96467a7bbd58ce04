--------------------------- MODULE MCLists_proof ---------------------------
(* The two lists of MCLists.  The list of free superpages stays whole, its *)
(* counter exact, and it implements the pool, for every finite set of      *)
(* threads and of superpages; and the theorems of HazardPtr_proof hold for *)
(* the hazard pointers, whose constants are any here.                      *)
EXTENDS MCLists, FiniteSetTheorems, TLAPS

----------------------------------------------------------------------------
(* The list of free superpages                                             *)

LEMMA TypesStep ==
  ASSUME IInv, [Next]_vars
  PROVE  Types'
<1> Types /\ HeadOK /\ ListOK /\ ChainOK /\ \A u \in Thread : ThreadOK(u)
  BY DEF IInv, TypeOK
<1> USE NullAssumption
<1>1. ASSUME NEW t \in Thread, A_Read(t) PROVE Types'
  BY <1>1 DEF A_Read, listVars, spVars, Goto, Types, PcValues
<1>2. ASSUME NEW t \in Thread, A_Pop(t) PROVE Types'
  BY <1>2 DEF A_Pop, Goto, CasOk, CasFails, Types, Ptr, Zones, PcValues, RestPc
<1>3. ASSUME NEW t \in Thread, A_Rest(t) PROVE Types'
  BY <1>3 DEF A_Rest, Goto, CasOk, CasFails, PutBack, Types, Own, Zones,
         PcValues, RestPc, ThreadOK
<1>4. ASSUME NEW t \in Thread, A_Walk(t) PROVE Types'
  BY <1>4 DEF A_Walk, listVars, spVars, Goto, Types, PcValues, RestPc, ThreadOK
<1>5. ASSUME NEW t \in Thread, A_Link(t) PROVE Types'
  BY <1>5 DEF A_Link, spVars, Goto, Types, PcValues, RestPc, ThreadOK
<1>6. ASSUME NEW t \in Thread, A_Push(t) PROVE Types'
  BY <1>6 DEF A_Push, Goto, CasOk, CasFails, PutBack, Types, Zones, PcValues,
         RestPc
<1>7. ASSUME NEW t \in Thread, A_Dec(t) PROVE Types'
  BY <1>7 DEF A_Dec, spVars, Goto, Types, Ptr, PcValues
<1>8. ASSUME NEW t \in Thread, A_Map(t) PROVE Types'
  BY <1>8 DEF A_Map, listVars, Goto, Types, Ptr, Zones, PcValues
<1>9. ASSUME NEW t \in Thread, A_Set(t) PROVE Types'
  BY <1>9 DEF A_Set, Goto, Finish, Types, Ptr, Own, PcValues, ThreadOK
<1>10. ASSUME NEW t \in Thread, F_Start(t) PROVE Types'
  BY <1>10 DEF F_Start, listVars, Goto, Own, Types, Ptr, PcValues
<1>11. ASSUME NEW t \in Thread, F_Test(t) PROVE Types'
  <2>1. sph[t] \in Superpage
    BY <1>11 DEF F_Test, ThreadOK, Own
  <2>2. CASE Goto(t, "f_inc") /\ UNCHANGED <<zone, by, sph, cur_sph, late>>
    BY <1>11, <2>2 DEF F_Test, listVars, Goto, Types, PcValues
  <2>3. CASE LetGo(sph[t], "unmapped") /\ Finish(t)
    <3>1. /\ zone' \in [Superpage -> Zones]
          /\ by' \in [Superpage -> Thread \cup {NULL}]
      BY <2>1, <2>3 DEF LetGo, Types, Zones
    <3>2. /\ pc' \in [Thread -> PcValues]
          /\ sph' \in [Thread -> Ptr] /\ cur_sph' \in [Thread -> Ptr]
          /\ late' \in [Thread -> BOOLEAN]
      BY <2>3 DEF Finish, Goto, Types, PcValues, Ptr
    <3> QED BY <1>11, <3>1, <3>2 DEF F_Test, listVars, Types
  <2> QED BY <1>11, <2>2, <2>3 DEF F_Test
<1>12. ASSUME NEW t \in Thread, T_Start(t) PROVE Types'
  BY <1>12 DEF T_Start, listVars, spVars, Goto, Own, Types, Ptr, PcValues
<1>13. ASSUME NEW t \in Thread, F_Inc(t) PROVE Types'
  BY <1>13 DEF F_Inc, spVars, Goto, Types, PcValues, PushPc
<1>14. ASSUME NEW t \in Thread, F_Link(t) PROVE Types'
  BY <1>14 DEF F_Link, spVars, Goto, Types, Own, PcValues, PushPc, ThreadOK
<1>15. ASSUME NEW t \in Thread, F_Cas(t) PROVE Types'
  <2>1. sph[t] \in Superpage
    BY <1>15 DEF F_Cas, ThreadOK, Own, PushPc
  <2>2. CASE LetGo(sph[t], "list")
    <3>1. /\ zone' \in [Superpage -> Zones]
          /\ by' \in [Superpage -> Thread \cup {NULL}]
      BY <2>1, <2>2 DEF LetGo, Types, Zones
    <3>2. /\ g_free_sp_list' \in Ptr /\ pc' \in [Thread -> PcValues]
          /\ sph' \in [Thread -> Ptr] /\ cur_sph' \in [Thread -> Ptr]
          /\ late' \in [Thread -> BOOLEAN]
      BY <1>15, <2>1 DEF F_Cas, CasOk, CasFails, Finish, Goto, Types,
             PcValues, PushPc, Ptr
    <3> QED BY <1>15, <3>1, <3>2 DEF F_Cas, Types
  <2>3. CASE UNCHANGED <<zone, by>>
    BY <1>15, <2>1, <2>3 DEF F_Cas, CasOk, CasFails, Finish, Goto, Types,
           PcValues, PushPc, Ptr
  <2> QED BY <1>15, <2>2, <2>3 DEF F_Cas
<1>16. ASSUME NEW t \in Thread, T_Clear(t) PROVE Types'
  BY <1>16 DEF T_Clear, listVars, Goto, Finish, Types, Ptr, PcValues, ThreadOK
<1>17. CASE UNCHANGED vars
  BY <1>17 DEF vars, listVars, spVars, thrVars, Types
<1> QED
  BY <1>1, <1>2, <1>3, <1>4, <1>5, <1>6, <1>7, <1>8, <1>9, <1>10, <1>11,
     <1>12, <1>13, <1>14, <1>15, <1>16, <1>17 DEF Next, Step

LEMMA HeadStep ==
  ASSUME IInv, [Next]_vars
  PROVE  HeadOK'
<1> Types /\ HeadOK /\ ListOK /\ ChainOK /\ \A u \in Thread : ThreadOK(u)
  BY DEF IInv, TypeOK
<1> USE NullAssumption
<1>1. ASSUME NEW t \in Thread, A_Read(t) PROVE HeadOK'
  BY <1>1 DEF A_Read, listVars, spVars, HeadOK
<1>2. ASSUME NEW t \in Thread, A_Pop(t) PROVE HeadOK'
  BY <1>2 DEF A_Pop, CasOk, CasFails, HeadOK
<1>3. ASSUME NEW t \in Thread, A_Rest(t) PROVE HeadOK'
  BY <1>3 DEF A_Rest, CasOk, CasFails, PutBack, Chained, Types, Ptr, Own,
         RestPc, OnTrial, RestOK, ThreadOK, HeadOK, ListOK
<1>4. ASSUME NEW t \in Thread, A_Walk(t) PROVE HeadOK'
  BY <1>4 DEF A_Walk, listVars, spVars, HeadOK
<1>5. ASSUME NEW t \in Thread, A_Link(t) PROVE HeadOK'
  BY <1>5 DEF A_Link, spVars, Chained, RestPc, ThreadOK, HeadOK
<1>6. ASSUME NEW t \in Thread, A_Push(t) PROVE HeadOK'
  BY <1>6 DEF A_Push, CasOk, CasFails, PutBack, Chained, RestPc, OnTrial,
         RestOK, ThreadOK, HeadOK, ListOK
<1>7. ASSUME NEW t \in Thread, A_Dec(t) PROVE HeadOK'
  BY <1>7 DEF A_Dec, spVars, HeadOK
<1>8. ASSUME NEW t \in Thread, A_Map(t) PROVE HeadOK'
  BY <1>8 DEF A_Map, listVars, HeadOK
<1>9. ASSUME NEW t \in Thread, A_Set(t) PROVE HeadOK'
  BY <1>9 DEF A_Set, Own, ThreadOK, HeadOK
<1>10. ASSUME NEW t \in Thread, F_Start(t) PROVE HeadOK'
  BY <1>10 DEF F_Start, listVars, HeadOK
<1>11. ASSUME NEW t \in Thread, F_Test(t) PROVE HeadOK'
  BY <1>11 DEF F_Test, listVars, LetGo, Types, Ptr, Own, ThreadOK, HeadOK
<1>12. ASSUME NEW t \in Thread, T_Start(t) PROVE HeadOK'
  BY <1>12 DEF T_Start, listVars, spVars, HeadOK
<1>13. ASSUME NEW t \in Thread, F_Inc(t) PROVE HeadOK'
  BY <1>13 DEF F_Inc, spVars, HeadOK
<1>14. ASSUME NEW t \in Thread, F_Link(t) PROVE HeadOK'
  BY <1>14 DEF F_Link, spVars, Own, PushPc, ThreadOK, HeadOK
<1>15. ASSUME NEW t \in Thread, F_Cas(t) PROVE HeadOK'
  BY <1>15 DEF F_Cas, CasOk, CasFails, LetGo, Types, Own, PushPc, ThreadOK,
         HeadOK, ListOK
<1>16. ASSUME NEW t \in Thread, T_Clear(t) PROVE HeadOK'
  BY <1>16 DEF T_Clear, listVars, HeadOK
<1>17. CASE UNCHANGED vars
  BY <1>17 DEF vars, listVars, spVars, HeadOK
<1> QED
  BY <1>1, <1>2, <1>3, <1>4, <1>5, <1>6, <1>7, <1>8, <1>9, <1>10, <1>11,
     <1>12, <1>13, <1>14, <1>15, <1>16, <1>17 DEF Next, Step

LEMMA ListStep ==
  ASSUME IInv, [Next]_vars
  PROVE  ListOK'
<1> Types /\ HeadOK /\ ListOK /\ ChainOK /\ \A u \in Thread : ThreadOK(u)
  BY DEF IInv, TypeOK
<1> USE NullAssumption
<1>1. ASSUME NEW t \in Thread, A_Read(t) PROVE ListOK'
  BY <1>1 DEF A_Read, listVars, spVars, ListOK
<1>2. ASSUME NEW t \in Thread, A_Pop(t) PROVE ListOK'
  BY <1>2 DEF A_Pop, ListOK
<1>3. ASSUME NEW t \in Thread, A_Rest(t) PROVE ListOK'
  BY <1>3 DEF A_Rest, PutBack, Chained, Types, Ptr, OnTrial, ListOK, ChainOK
<1>4. ASSUME NEW t \in Thread, A_Walk(t) PROVE ListOK'
  BY <1>4 DEF A_Walk, listVars, spVars, ListOK
<1>5. ASSUME NEW t \in Thread, A_Link(t) PROVE ListOK'
  BY <1>5 DEF A_Link, spVars, HeadOK, ListOK
<1>6. ASSUME NEW t \in Thread, A_Push(t) PROVE ListOK'
  BY <1>6 DEF A_Push, CasOk, PutBack, Chained, Types, Ptr, OnTrial, ThreadOK,
         HeadOK, ListOK, ChainOK
<1>7. ASSUME NEW t \in Thread, A_Dec(t) PROVE ListOK'
  BY <1>7 DEF A_Dec, spVars, ListOK
<1>8. ASSUME NEW t \in Thread, A_Map(t) PROVE ListOK'
  BY <1>8 DEF A_Map, listVars, ListOK
<1>9. ASSUME NEW t \in Thread, A_Set(t) PROVE ListOK'
  BY <1>9 DEF A_Set, Own, ThreadOK, ListOK
<1>10. ASSUME NEW t \in Thread, F_Start(t) PROVE ListOK'
  BY <1>10 DEF F_Start, listVars, ListOK
<1>11. ASSUME NEW t \in Thread, F_Test(t) PROVE ListOK'
  BY <1>11 DEF F_Test, listVars, LetGo, Types, Ptr, Own, ThreadOK, ListOK
<1>12. ASSUME NEW t \in Thread, T_Start(t) PROVE ListOK'
  BY <1>12 DEF T_Start, listVars, spVars, ListOK
<1>13. ASSUME NEW t \in Thread, F_Inc(t) PROVE ListOK'
  BY <1>13 DEF F_Inc, spVars, ListOK
<1>14. ASSUME NEW t \in Thread, F_Link(t) PROVE ListOK'
  BY <1>14 DEF F_Link, spVars, HeadOK, ListOK
<1>15. ASSUME NEW t \in Thread, F_Cas(t) PROVE ListOK'
  BY <1>15 DEF F_Cas, CasOk, LetGo, Types, Ptr, ThreadOK, HeadOK, ListOK
<1>16. ASSUME NEW t \in Thread, T_Clear(t) PROVE ListOK'
  BY <1>16 DEF T_Clear, listVars, ListOK
<1>17. CASE UNCHANGED vars
  BY <1>17 DEF vars, listVars, spVars, ListOK
<1> QED
  BY <1>1, <1>2, <1>3, <1>4, <1>5, <1>6, <1>7, <1>8, <1>9, <1>10, <1>11,
     <1>12, <1>13, <1>14, <1>15, <1>16, <1>17 DEF Next, Step

LEMMA ChainStep ==
  ASSUME IInv, [Next]_vars
  PROVE  ChainOK'
<1> Types /\ HeadOK /\ ListOK /\ ChainOK /\ \A u \in Thread : ThreadOK(u)
  BY DEF IInv, TypeOK
<1> USE NullAssumption
<1>1. ASSUME NEW t \in Thread, A_Read(t) PROVE ChainOK'
  BY <1>1 DEF A_Read, listVars, spVars, Goto, Chained, OnTrial, ChainOK
<1>2. ASSUME NEW t \in Thread, A_Pop(t) PROVE ChainOK'
  BY <1>2 DEF A_Pop, Goto, CasOk, Types, Ptr, Chained, OnTrial, HeadOK,
         ListOK, ChainOK
<1>3. ASSUME NEW t \in Thread, A_Rest(t) PROVE ChainOK'
  BY <1>3 DEF A_Rest, Goto, PutBack, Chained, Types, Ptr, OnTrial, ChainOK
<1>4. ASSUME NEW t \in Thread, A_Walk(t) PROVE ChainOK'
  BY <1>4 DEF A_Walk, listVars, spVars, Goto, Types, Chained, OnTrial, ChainOK
<1>5. ASSUME NEW t \in Thread, A_Link(t) PROVE ChainOK'
  BY <1>5 DEF A_Link, spVars, Goto, Chained, RestPc, OnTrial, ThreadOK, ChainOK
<1>6. ASSUME NEW t \in Thread, A_Push(t) PROVE ChainOK'
  BY <1>6 DEF A_Push, Goto, PutBack, Chained, Types, Ptr, OnTrial, ChainOK
<1>7. ASSUME NEW t \in Thread, A_Dec(t) PROVE ChainOK'
  BY <1>7 DEF A_Dec, spVars, Goto, Chained, OnTrial, ChainOK
<1>8. ASSUME NEW t \in Thread, A_Map(t) PROVE ChainOK'
  BY <1>8 DEF A_Map, listVars, Goto, Chained, OnTrial, ChainOK
<1>9. ASSUME NEW t \in Thread, A_Set(t) PROVE ChainOK'
  BY <1>9 DEF A_Set, Goto, Finish, Own, Chained, OnTrial, ThreadOK, ChainOK
<1>10. ASSUME NEW t \in Thread, F_Start(t) PROVE ChainOK'
  BY <1>10 DEF F_Start, listVars, Goto, Chained, OnTrial, ChainOK
<1>11. ASSUME NEW t \in Thread, F_Test(t) PROVE ChainOK'
  BY <1>11 DEF F_Test, listVars, Goto, LetGo, Finish, Types, Ptr, Own,
         Chained, OnTrial, ThreadOK, ChainOK
<1>12. ASSUME NEW t \in Thread, T_Start(t) PROVE ChainOK'
  BY <1>12 DEF T_Start, listVars, spVars, Goto, Chained, OnTrial, ChainOK
<1>13. ASSUME NEW t \in Thread, F_Inc(t) PROVE ChainOK'
  BY <1>13 DEF F_Inc, spVars, Goto, Chained, OnTrial, ChainOK
<1>14. ASSUME NEW t \in Thread, F_Link(t) PROVE ChainOK'
  BY <1>14 DEF F_Link, spVars, Goto, Own, Chained, PushPc, OnTrial, ThreadOK,
         ChainOK
<1>15. ASSUME NEW t \in Thread, F_Cas(t) PROVE ChainOK'
  BY <1>15 DEF F_Cas, Goto, LetGo, Finish, Types, Ptr, Own, Chained, PushPc,
         OnTrial, ThreadOK, ChainOK
<1>16. ASSUME NEW t \in Thread, T_Clear(t) PROVE ChainOK'
  BY <1>16 DEF T_Clear, listVars, Goto, Finish, Chained, OnTrial, ChainOK
<1>17. CASE UNCHANGED vars
  BY <1>17 DEF vars, listVars, spVars, thrVars, Chained, OnTrial, ChainOK
<1> QED
  BY <1>1, <1>2, <1>3, <1>4, <1>5, <1>6, <1>7, <1>8, <1>9, <1>10, <1>11,
     <1>12, <1>13, <1>14, <1>15, <1>16, <1>17 DEF Next, Step

(* The other threads do not notice that t lets go of a superpage it owns.  *)
LEMMA LetGoThread ==
  ASSUME IInv, NEW t \in Thread, NEW s \in Own(t), NEW z, z # "chain",
         LetGo(s, z), UNCHANGED <<next, next_sph, last_sph>>,
         \A u \in Thread \ {t} :
           pc'[u] = pc[u] /\ sph'[u] = sph[u] /\ cur_sph'[u] = cur_sph[u],
         pc'[t] \in {"idle", "t_clear"},
         pc'[t] = "t_clear" => sph'[t] \in Superpage
  PROVE  (\A u \in Thread : ThreadOK(u))'
<1> Types /\ \A u \in Thread : ThreadOK(u)
  BY DEF IInv, TypeOK
<1>1. ThreadOK(t)'
  BY DEF ThreadOK, RestPc, PushPc
<1>2. ASSUME NEW u \in Thread \ {t} PROVE ThreadOK(u)'
  <2>1. /\ Own(u)' = Own(u)
        /\ \A r \in Superpage : Chained(u, r)' <=> Chained(u, r)
        /\ \A r \in Superpage : OnTrial(u, r)' <=> OnTrial(u, r)
    BY NullAssumption DEF LetGo, Own, Chained, OnTrial, Types
  <2>2. \A r \in Superpage : RestOK(u, r) => RestOK(u, r)'
    BY <2>1 DEF RestOK
  <2>3. pc[u] = "a_rest" => sph[u] \in Superpage /\ next[sph[u]] \in Ptr
    BY DEF ThreadOK, RestPc, Own, Types
  <2> QED
    BY <2>1, <2>2, <2>3, NullAssumption DEF ThreadOK, Types, Ptr
<1> QED BY <1>1, <1>2

LEMMA ThreadStep ==
  ASSUME IInv, [Next]_vars
  PROVE  (\A u \in Thread : ThreadOK(u))'
<1> Types /\ HeadOK /\ ListOK /\ ChainOK /\ \A u \in Thread : ThreadOK(u)
  BY DEF IInv, TypeOK
<1> USE NullAssumption
<1>1. ASSUME NEW t \in Thread, A_Read(t) PROVE (\A u \in Thread : ThreadOK(u))'
  BY <1>1 DEF A_Read, listVars, spVars, Goto, Types, Ptr, Own, Chained,
         RestPc, PushPc, OnTrial, RestOK, ThreadOK
<1>2. ASSUME NEW t \in Thread, A_Pop(t) PROVE (\A u \in Thread : ThreadOK(u))'
  BY <1>2 DEF A_Pop, Goto, CasOk, Types, Ptr, Own, Chained, RestPc, PushPc,
         OnTrial, RestOK, ThreadOK, HeadOK, ListOK, ChainOK
<1>3. ASSUME NEW t \in Thread, A_Rest(t) PROVE (\A u \in Thread : ThreadOK(u))'
  BY <1>3 DEF A_Rest, Goto, PutBack, Chained, Types, Ptr, Own, RestPc,
         OnTrial, RestOK, ThreadOK
<1>4. ASSUME NEW t \in Thread, A_Walk(t) PROVE (\A u \in Thread : ThreadOK(u))'
  BY <1>4 DEF A_Walk, listVars, spVars, Goto, Types, Ptr, Own, Chained,
         RestPc, OnTrial, RestOK, ThreadOK, ChainOK
<1>5. ASSUME NEW t \in Thread, A_Link(t) PROVE (\A u \in Thread : ThreadOK(u))'
  BY <1>5 DEF A_Link, spVars, Goto, Types, Own, Chained, RestPc, PushPc,
         OnTrial, RestOK, ThreadOK
<1>6. ASSUME NEW t \in Thread, A_Push(t) PROVE (\A u \in Thread : ThreadOK(u))'
  BY <1>6 DEF A_Push, Goto, PutBack, Chained, Types, Ptr, Own, RestPc,
         OnTrial, RestOK, ThreadOK
<1>7. ASSUME NEW t \in Thread, A_Dec(t) PROVE (\A u \in Thread : ThreadOK(u))'
  BY <1>7 DEF A_Dec, spVars, Goto, Own, Chained, RestPc, OnTrial, RestOK,
         ThreadOK
<1>8. ASSUME NEW t \in Thread, A_Map(t) PROVE (\A u \in Thread : ThreadOK(u))'
  BY <1>8 DEF A_Map, listVars, Goto, Types, Own, Chained, RestPc, OnTrial,
         RestOK, ThreadOK
<1>9. ASSUME NEW t \in Thread, A_Set(t) PROVE (\A u \in Thread : ThreadOK(u))'
  BY <1>9 DEF A_Set, Goto, Finish, Types, Own, Chained, RestPc, PushPc,
         OnTrial, RestOK, ThreadOK
<1>10. ASSUME NEW t \in Thread, F_Start(t)
       PROVE  (\A u \in Thread : ThreadOK(u))'
  BY <1>10 DEF F_Start, listVars, Goto, Own, Types, Chained, RestPc, PushPc,
         OnTrial, RestOK, ThreadOK
<1>11. ASSUME NEW t \in Thread, F_Test(t)
       PROVE  (\A u \in Thread : ThreadOK(u))'
  <2>1. PICK s \in Superpage : s = sph[t] /\ s \in Own(t)
    BY <1>11 DEF F_Test, ThreadOK, Own
  <2>2. CASE LetGo(s, "unmapped") /\ Finish(t)
    <3>1. /\ pc'[t] = "idle"
          /\ \A u \in Thread \ {t} : /\ pc'[u] = pc[u] /\ sph'[u] = sph[u]
                                      /\ cur_sph'[u] = cur_sph[u]
      BY <2>2 DEF Finish, Goto, Types
    <3> QED
      BY <1>11, <2>1, <2>2, <3>1, LetGoThread DEF F_Test, listVars
  <2>3. CASE Goto(t, "f_inc") /\ UNCHANGED <<zone, by, sph, cur_sph, late>>
    BY <1>11, <2>1, <2>3 DEF F_Test, listVars, Goto, Types, Own, Chained,
           RestPc, PushPc, OnTrial, RestOK, ThreadOK
  <2> QED BY <1>11, <2>1, <2>2, <2>3 DEF F_Test
<1>12. ASSUME NEW t \in Thread, T_Start(t)
       PROVE  (\A u \in Thread : ThreadOK(u))'
  BY <1>12 DEF T_Start, listVars, spVars, Goto, Own, Types, Chained, RestPc,
         OnTrial, RestOK, ThreadOK
<1>13. ASSUME NEW t \in Thread, F_Inc(t) PROVE (\A u \in Thread : ThreadOK(u))'
  BY <1>13 DEF F_Inc, spVars, Goto, Own, Chained, RestPc, OnTrial, RestOK,
         ThreadOK
<1>14. ASSUME NEW t \in Thread, F_Link(t)
       PROVE  (\A u \in Thread : ThreadOK(u))'
  BY <1>14 DEF F_Link, spVars, Goto, Types, Own, Chained, RestPc, PushPc,
         OnTrial, RestOK, ThreadOK
<1>15. ASSUME NEW t \in Thread, F_Cas(t)
       PROVE  (\A u \in Thread : ThreadOK(u))'
  <2>1. PICK s \in Superpage : s = sph[t] /\ s \in Own(t)
    BY <1>15 DEF F_Cas, ThreadOK, PushPc, Own
  <2>2. CASE /\ LetGo(s, "list")
             /\ IF late[t]
                THEN Goto(t, "t_clear") /\ UNCHANGED <<sph, cur_sph, late>>
                ELSE Finish(t)
    <3>1. /\ pc'[t] \in {"idle", "t_clear"}
          /\ pc'[t] = "t_clear" => sph'[t] = s
          /\ \A u \in Thread \ {t} : /\ pc'[u] = pc[u] /\ sph'[u] = sph[u]
                                      /\ cur_sph'[u] = cur_sph[u]
      BY <2>1, <2>2 DEF Finish, Goto, Types
    <3> QED BY <1>15, <2>1, <2>2, <3>1, LetGoThread DEF F_Cas
  <2>3. CASE Goto(t, "f_link") /\ UNCHANGED <<zone, by, sph, cur_sph, late>>
    BY <1>15, <2>1, <2>3 DEF F_Cas, Goto, Types, Own, Chained, RestPc,
           PushPc, OnTrial, RestOK, ThreadOK
  <2> QED BY <1>15, <2>1, <2>2, <2>3 DEF F_Cas
<1>16. ASSUME NEW t \in Thread, T_Clear(t)
       PROVE  (\A u \in Thread : ThreadOK(u))'
  BY <1>16 DEF T_Clear, listVars, Goto, Finish, Types, Own, Chained, RestPc,
         PushPc, OnTrial, RestOK, ThreadOK
<1>17. CASE UNCHANGED vars
  BY <1>17 DEF vars, listVars, spVars, thrVars, Own, Chained, OnTrial,
         RestOK, ThreadOK
<1> QED
  BY <1>1, <1>2, <1>3, <1>4, <1>5, <1>6, <1>7, <1>8, <1>9, <1>10, <1>11,
     <1>12, <1>13, <1>14, <1>15, <1>16, <1>17 DEF Next, Step

LEMMA InvInit == Init => IInv
BY NullAssumption DEF Init, IInv, TypeOK, Types, Ptr, Zones, PcValues,
       RestPc, PushPc, ThreadOK, HeadOK, ListOK, ChainOK

LEMMA InvStep == IInv /\ [Next]_vars => IInv'
BY TypesStep, HeadStep, ListStep, ChainStep, ThreadStep DEF IInv, TypeOK

(* The list stays a list: whatever the threads' pops and pushes interleave,*)
(* no superpage is linked twice and none that is owned is on it.           *)
THEOREM Inductive == Spec => []IInv
BY InvInit, InvStep, PTL DEF Spec

----------------------------------------------------------------------------
(* Refinement.                                                             *)

LEMMA PromiseInit == Init => Promise!SInit
BY DEF Init, Promise!SInit

\* The step of t does not change what is owned by whom.
LEMMA SameHolder ==
  ASSUME UNCHANGED <<zone, by>>
  PROVE  UNCHANGED Promise!svars
BY DEF Promise!svars

LEMMA PutBackHolder ==
  ASSUME Types, NEW t \in Thread, PutBack(t)
  PROVE  UNCHANGED Promise!svars
BY DEF PutBack, Chained, Promise!svars

(* A thread that takes superpage s takes a free one.                       *)
LEMMA TakeHolder ==
  ASSUME Types, NEW t \in Thread, NEW s \in Superpage, zone[s] # "own",
         zone'[s] = "own", by'[s] = t,
         \A r \in Superpage \ {s} :
           /\ zone'[r] = "own" <=> zone[r] = "own"
           /\ zone[r] = "own" => by'[r] = by[r]
  PROVE  Promise!Acquire(t, s)
<1> DEFINE H == [r \in Superpage |-> IF zone[r] = "own" THEN by[r] ELSE "free"]
<1>1. H[s] = "free" /\ H' = [H EXCEPT ![s] = t]
  OBVIOUS
<1>2. {} \in SUBSET Promise!BlocksIn(s) /\ {} = {} \cup {}
  OBVIOUS
<1> QED BY <1>1, <1>2 DEF Promise!Acquire

(* A thread that lets go of a superpage owns it and makes it free.         *)
LEMMA LetGoHolder ==
  ASSUME Types, NEW t \in Thread, NEW s \in Own(t), NEW z, z # "own",
         LetGo(s, z)
  PROVE  Promise!Release(t, s)
BY DEF LetGo, Own, Types, Promise!Release, Promise!BlocksIn

LEMMA PromiseStep == IInv /\ [Next]_vars => [Promise!SNext]_(Promise!svars)
<1> SUFFICES ASSUME IInv, [Next]_vars PROVE [Promise!SNext]_(Promise!svars)
  OBVIOUS
<1> Types /\ HeadOK /\ \A u \in Thread : ThreadOK(u)
  BY DEF IInv, TypeOK
<1>1. ASSUME NEW t \in Thread,
             \/ A_Read(t) \/ A_Walk(t) \/ A_Link(t) \/ A_Dec(t) \/ A_Set(t)
             \/ F_Start(t) \/ T_Start(t) \/ F_Inc(t) \/ F_Link(t)
             \/ T_Clear(t)
      PROVE  UNCHANGED Promise!svars
  BY <1>1, SameHolder DEF A_Read, A_Walk, A_Link, A_Dec, A_Set, F_Start,
         T_Start, F_Inc, F_Link, T_Clear, spVars
<1>2. ASSUME NEW t \in Thread, A_Pop(t) PROVE [Promise!SNext]_(Promise!svars)
  <2>1. CASE CasFails(sph[t]) /\ UNCHANGED <<zone, by>>
    BY <2>1, SameHolder
  <2>2. CASE /\ CasOk(sph[t], NULL)
             /\ zone' = [s \in Superpage |->
                           IF s = sph[t] THEN "own"
                           ELSE IF zone[s] = "list" THEN "chain" ELSE zone[s]]
             /\ by' = [s \in Superpage |->
                         IF zone[s] = "list" THEN t ELSE by[s]]
    <3>1. PICK s \in Superpage : s = sph[t] /\ zone[s] = "list"
      BY <1>2, <2>2, NullAssumption DEF A_Pop, CasOk, ThreadOK, HeadOK
    <3>2. zone'[s] = "own" /\ by'[s] = t
      BY <2>2, <3>1
    <3>3. \A r \in Superpage \ {s} :
            /\ zone'[r] = "own" <=> zone[r] = "own"
            /\ zone[r] = "own" => by'[r] = by[r]
      BY <2>2, <3>1
    <3>4. Promise!Acquire(t, s)
      BY <3>1, <3>2, <3>3, TakeHolder
    <3> QED BY <3>4 DEF Promise!SNext
  <2> QED BY <1>2, <2>1, <2>2 DEF A_Pop
<1>3. ASSUME NEW t \in Thread, A_Rest(t) \/ A_Push(t)
      PROVE  UNCHANGED Promise!svars
  BY <1>3, SameHolder, PutBackHolder DEF A_Rest, A_Push
<1>4. ASSUME NEW t \in Thread, A_Map(t) PROVE [Promise!SNext]_(Promise!svars)
  <2> PICK s \in Superpage : /\ zone[s] = "unmapped"
                             /\ zone' = [zone EXCEPT ![s] = "own"]
                             /\ by' = [by EXCEPT ![s] = t]
    BY <1>4 DEF A_Map
  <2>1. Promise!Acquire(t, s)
    BY TakeHolder DEF Types
  <2> QED BY <2>1 DEF Promise!SNext
<1>5. ASSUME NEW t \in Thread, F_Test(t) \/ F_Cas(t)
      PROVE  [Promise!SNext]_(Promise!svars)
  <2>1. PICK s \in Superpage : s = sph[t] /\ s \in Own(t)
    BY <1>5 DEF F_Test, F_Cas, ThreadOK, PushPc, Own
  <2>2. CASE UNCHANGED <<zone, by>>
    BY <2>2, SameHolder
  <2>3. ASSUME NEW z, z # "own", LetGo(s, z)
        PROVE  [Promise!SNext]_(Promise!svars)
    <3>1. Promise!Release(t, s)
      BY <2>1, <2>3, LetGoHolder
    <3> QED BY <3>1 DEF Promise!SNext
  <2> QED BY <1>5, <2>1, <2>2, <2>3 DEF F_Test, F_Cas
<1>6. CASE UNCHANGED vars
  BY <1>6, SameHolder DEF vars, spVars
<1> QED
  BY <1>1, <1>2, <1>3, <1>4, <1>5, <1>6 DEF Next, Step

(* Nobody is ever given a superpage that another thread owns: every step   *)
(* of the lock-free list is a step, or a stutter, of module Superpages.    *)
THEOREM Implements == Spec => KeepsPromise
<1>1. Promise!SInit /\ [][Promise!SNext]_(Promise!svars) => Promise!SSpec
  BY DEF Promise!SSpec
<1> QED
  BY PromiseInit, PromiseStep, Inductive, <1>1, PTL DEF Spec, KeepsPromise

----------------------------------------------------------------------------
(* The counter.                                                            *)

\* What g_free_sp_len counts: the superpages that are free, and the threads
\* that are about to push one or have just popped one.
FreeSet == {s \in Superpage : zone[s] \in {"list", "chain"}}
Counting == {t \in Thread : pc[t] \in PushPc \cup RestPc \cup {"a_dec"}}
CountOK == g_free_sp_len = Cardinality(FreeSet) + Cardinality(Counting)

LEMMA Counts ==
  /\ IsFiniteSet(FreeSet) /\ Cardinality(FreeSet) \in Nat
  /\ IsFiniteSet(Counting) /\ Cardinality(Counting) \in Nat
<1>1. FreeSet \in SUBSET Superpage /\ Counting \in SUBSET Thread
  BY DEF FreeSet, Counting
<1>2. IsFiniteSet(FreeSet) /\ IsFiniteSet(Counting)
  BY <1>1, FS_Subset, FiniteAssumption
<1> QED BY <1>2, FS_CardinalityType

LEMMA OneMore ==
  ASSUME NEW S, NEW T, NEW x, IsFiniteSet(S), x \notin S, T = S \cup {x}
  PROVE  Cardinality(T) = Cardinality(S) + 1
BY FS_AddElement

LEMMA OneLess ==
  ASSUME NEW S, NEW T, NEW x, IsFiniteSet(S), x \in S, T = S \ {x}
  PROVE  Cardinality(T) = Cardinality(S) - 1
BY FS_RemoveElement

\* A step that moves no superpage in or out, and no thread.
LEMMA CountSame ==
  ASSUME CountOK, UNCHANGED g_free_sp_len,
         \A s \in Superpage :
           zone'[s] \in {"list", "chain"} <=> zone[s] \in {"list", "chain"},
         \A t \in Thread : pc'[t] \in PushPc \cup RestPc \cup {"a_dec"} <=>
                           pc[t] \in PushPc \cup RestPc \cup {"a_dec"}
  PROVE  CountOK'
<1>1. FreeSet' = FreeSet
  BY DEF FreeSet
<1>2. Counting' = Counting
  BY DEF Counting
<1> QED BY <1>1, <1>2 DEF CountOK

LEMMA CountStep ==
  ASSUME IInv, CountOK, [Next]_vars
  PROVE  CountOK'
<1> Types /\ HeadOK /\ \A u \in Thread : ThreadOK(u)
  BY DEF IInv, TypeOK
<1> USE NullAssumption
<1>1. ASSUME NEW t \in Thread,
             \/ A_Read(t) \/ A_Walk(t) \/ A_Link(t) \/ A_Set(t)
             \/ F_Start(t) \/ T_Start(t) \/ F_Link(t) \/ T_Clear(t)
      PROVE  CountOK'
  <2>1. UNCHANGED <<g_free_sp_len, zone>>
    BY <1>1 DEF A_Read, A_Walk, A_Link, A_Set, F_Start, T_Start, F_Link,
           T_Clear, listVars, spVars
  <2>2. \A u \in Thread : pc'[u] \in PushPc \cup RestPc \cup {"a_dec"} <=>
                          pc[u] \in PushPc \cup RestPc \cup {"a_dec"}
    BY <1>1 DEF A_Read, A_Walk, A_Link, A_Set, F_Start, T_Start, F_Link,
           T_Clear, Finish, Goto, Types, PushPc, RestPc
  <2> QED BY <2>1, <2>2, CountSame
<1>2. ASSUME NEW t \in Thread, A_Pop(t) PROVE CountOK'
  <2>1. CASE CasFails(sph[t]) /\ Goto(t, "a_map") /\ UNCHANGED <<zone, by>>
    <3>1. \A u \in Thread : pc'[u] \in PushPc \cup RestPc \cup {"a_dec"} <=>
                            pc[u] \in PushPc \cup RestPc \cup {"a_dec"}
      BY <1>2, <2>1 DEF A_Pop, Goto, Types, PushPc, RestPc
    <3> QED BY <1>2, <2>1, <3>1, CountSame DEF A_Pop
  <2>2. CASE /\ CasOk(sph[t], NULL)
             /\ zone' = [s \in Superpage |->
                           IF s = sph[t] THEN "own"
                           ELSE IF zone[s] = "list" THEN "chain" ELSE zone[s]]
             /\ Goto(t, "a_rest")
    <3>1. PICK s \in Superpage : s = sph[t] /\ zone[s] = "list"
      BY <1>2, <2>2 DEF A_Pop, CasOk, ThreadOK, HeadOK
    <3>2. s \in FreeSet /\ FreeSet' = FreeSet \ {s}
      BY <2>2, <3>1 DEF FreeSet
    <3>3. t \notin Counting /\ Counting' = Counting \cup {t}
      BY <1>2, <2>2 DEF A_Pop, Goto, Types, Counting, PushPc, RestPc
    <3>4. Cardinality(FreeSet') = Cardinality(FreeSet) - 1
      BY <3>2, Counts, OneLess
    <3>5. Cardinality(Counting') = Cardinality(Counting) + 1
      BY <3>3, Counts, OneMore
    <3>6. UNCHANGED g_free_sp_len
      BY <1>2 DEF A_Pop
    <3> QED BY <3>4, <3>5, <3>6, Counts DEF CountOK
  <2> QED BY <1>2, <2>1, <2>2 DEF A_Pop
<1>3. ASSUME NEW t \in Thread, A_Rest(t) \/ A_Push(t) PROVE CountOK'
  <2>1. UNCHANGED g_free_sp_len
    BY <1>3 DEF A_Rest, A_Push
  <2>2. \A s \in Superpage :
          zone'[s] \in {"list", "chain"} <=> zone[s] \in {"list", "chain"}
    BY <1>3 DEF A_Rest, A_Push, PutBack, Chained
  <2>3. \A u \in Thread : pc'[u] \in PushPc \cup RestPc \cup {"a_dec"} <=>
                          pc[u] \in PushPc \cup RestPc \cup {"a_dec"}
    BY <1>3 DEF A_Rest, A_Push, Goto, Types, PushPc, RestPc
  <2> QED BY <2>1, <2>2, <2>3, CountSame
<1>4. ASSUME NEW t \in Thread, A_Dec(t) PROVE CountOK'
  <2>1. FreeSet' = FreeSet
    BY <1>4 DEF A_Dec, spVars, FreeSet
  <2>2. t \in Counting /\ Counting' = Counting \ {t}
    BY <1>4 DEF A_Dec, Goto, Types, Counting, PushPc, RestPc
  <2>3. Cardinality(Counting') = Cardinality(Counting) - 1
    BY <2>2, Counts, OneLess
  <2>4. g_free_sp_len' = g_free_sp_len - 1
    BY <1>4 DEF A_Dec
  <2> QED BY <2>1, <2>3, <2>4, Counts DEF CountOK
<1>5. ASSUME NEW t \in Thread, A_Map(t) PROVE CountOK'
  <2>1. UNCHANGED g_free_sp_len
    BY <1>5 DEF A_Map, listVars
  <2>2. \A s \in Superpage :
          zone'[s] \in {"list", "chain"} <=> zone[s] \in {"list", "chain"}
    BY <1>5 DEF A_Map, Types
  <2>3. \A u \in Thread : pc'[u] \in PushPc \cup RestPc \cup {"a_dec"} <=>
                          pc[u] \in PushPc \cup RestPc \cup {"a_dec"}
    BY <1>5 DEF A_Map, Goto, Types, PushPc, RestPc
  <2> QED BY <2>1, <2>2, <2>3, CountSame
<1>6. ASSUME NEW t \in Thread, F_Test(t) PROVE CountOK'
  <2>1. UNCHANGED g_free_sp_len
    BY <1>6 DEF F_Test, listVars
  <2>2. \A s \in Superpage :
          zone'[s] \in {"list", "chain"} <=> zone[s] \in {"list", "chain"}
    BY <1>6 DEF F_Test, LetGo, Types, ThreadOK, Own
  <2>3. \A u \in Thread : pc'[u] \in PushPc \cup RestPc \cup {"a_dec"} <=>
                          pc[u] \in PushPc \cup RestPc \cup {"a_dec"}
    BY <1>6 DEF F_Test, Finish, Goto, Types, PushPc, RestPc
  <2> QED BY <2>1, <2>2, <2>3, CountSame
<1>7. ASSUME NEW t \in Thread, F_Inc(t) PROVE CountOK'
  <2>1. FreeSet' = FreeSet
    BY <1>7 DEF F_Inc, spVars, FreeSet
  <2>2. t \notin Counting /\ Counting' = Counting \cup {t}
    BY <1>7 DEF F_Inc, Goto, Types, Counting, PushPc, RestPc
  <2>3. Cardinality(Counting') = Cardinality(Counting) + 1
    BY <2>2, Counts, OneMore
  <2>4. g_free_sp_len' = g_free_sp_len + 1
    BY <1>7 DEF F_Inc
  <2> QED BY <2>1, <2>3, <2>4, Counts DEF CountOK
<1>8. ASSUME NEW t \in Thread, F_Cas(t) PROVE CountOK'
  <2>1. UNCHANGED g_free_sp_len
    BY <1>8 DEF F_Cas
  <2>2. CASE Goto(t, "f_link") /\ UNCHANGED <<zone, by>>
    <3>1. \A u \in Thread : pc'[u] \in PushPc \cup RestPc \cup {"a_dec"} <=>
                            pc[u] \in PushPc \cup RestPc \cup {"a_dec"}
      BY <1>8, <2>2 DEF F_Cas, Goto, Types, PushPc, RestPc
    <3> QED BY <2>1, <2>2, <3>1, CountSame
  <2>3. CASE LetGo(sph[t], "list") /\ (Goto(t, "t_clear") \/ Finish(t))
    <3>1. PICK s \in Superpage : s = sph[t] /\ s \in Own(t)
      BY <1>8 DEF F_Cas, ThreadOK, PushPc, Own
    <3>2. s \notin FreeSet /\ FreeSet' = FreeSet \cup {s}
      BY <2>3, <3>1 DEF FreeSet, LetGo, Own, Types
    <3>3. t \in Counting /\ Counting' = Counting \ {t}
      BY <1>8, <2>3 DEF F_Cas, Finish, Goto, Types, Counting, PushPc, RestPc
    <3>4. Cardinality(FreeSet') = Cardinality(FreeSet) + 1
      BY <3>2, Counts, OneMore
    <3>5. Cardinality(Counting') = Cardinality(Counting) - 1
      BY <3>3, Counts, OneLess
    <3> QED BY <2>1, <3>4, <3>5, Counts DEF CountOK
  <2> QED BY <1>8, <2>2, <2>3 DEF F_Cas
<1>9. CASE UNCHANGED vars
  BY <1>9, CountSame DEF vars, listVars, spVars, thrVars
<1> QED
  BY <1>1, <1>2, <1>3, <1>4, <1>5, <1>6, <1>7, <1>8, <1>9 DEF Next, Step

LEMMA CountInit == Init => CountOK
<1> SUFFICES ASSUME Init PROVE CountOK
  OBVIOUS
<1>1. FreeSet = {} /\ Counting = {}
  BY DEF Init, FreeSet, Counting, PushPc, RestPc
<1>2. Cardinality({}) = 0
  BY FS_EmptySet
<1> QED BY <1>1, <1>2 DEF Init, CountOK

LEMMA CountSays == CountOK => LenExact
<1> SUFFICES ASSUME CountOK PROVE LenExact
  OBVIOUS
<1>1. ASSUME NEW t \in Thread, pc[t] = "a_dec" PROVE g_free_sp_len > 0
  <2>1. Counting # {}
    BY <1>1 DEF Counting
  <2>2. Cardinality(Counting) # 0
    BY <2>1, Counts, FS_EmptySet
  <2> QED BY <2>2, Counts DEF CountOK
<1> QED BY <1>1 DEF LenExact, CountOK, FreeSet, Counting

(* g_free_sp_len never drifts: it is the number of free superpages and of  *)
(* threads between its update and the cas, and is positive at the assert   *)
(* of line 529, for any number of threads and superpages.                  *)
THEOREM LenIsExact == Spec => []LenExact
<1>1. IInv /\ CountOK /\ [Next]_vars => CountOK'
  BY CountStep
<1> QED
  BY CountInit, <1>1, CountSays, Inductive, PTL DEF Spec

----------------------------------------------------------------------------
(* The shape of the chains.                                                *)

\* The distance of a superpage from the head of its chain: 0 at the head
\* only, one more at each link, and behind each other superpage there is the
\* one that leads to it.
ListRank(r) ==
  \A s \in Superpage : zone[s] = "list" =>
    /\ r[s] = 0 <=> s = g_free_sp_list
    /\ next[s] # NULL => r[next[s]] = r[s] + 1
    /\ r[s] > 0 => \E q \in Superpage : zone[q] = "list" /\ next[q] = s

ChainRank(r) ==
  \A t \in Thread, s \in Superpage : Chained(t, s) =>
    /\ r[s] = 0 <=> s = Rest(t)
    /\ ~ OnTrial(t, s) /\ next[s] # NULL => r[next[s]] = r[s] + 1
    /\ r[s] > 0 => \E q \in Superpage :
                     Chained(t, q) /\ ~ OnTrial(t, q) /\ next[q] = s

\* Only a thread that puts back a rest has a chain.
ChainPc == \A t \in Thread, s \in Superpage : Chained(t, s) => pc[t] \in RestPc

Ranked == \E r \in [Superpage -> Nat] : ListRank(r) /\ ChainRank(r)

LEMMA RankNat ==
  ASSUME NEW r \in [Superpage -> Nat], NEW s \in Superpage
  PROVE  r[s] \in Nat
OBVIOUS

(* There is a smallest number in a set that is not empty.                  *)
LEMMA Smallest ==
  ASSUME NEW S, S \in SUBSET Nat, S # {}
  PROVE  \E m \in S : \A n \in S : m <= n
<1>1. IsWellFoundedOn(OpToRel(<, Nat), Nat)
  BY NatLessThanWellFounded
<1>2. PICK m \in S : \A n \in S : ~ (<<n, m>> \in OpToRel(<, Nat))
  BY <1>1, WFMin
<1>3. \A n \in S : ~ (n < m)
  BY <1>2 DEF OpToRel
<1> QED BY <1>3

(* A chain that has no head is empty.                                      *)
LEMMA NoHead ==
  ASSUME NEW r \in [Superpage -> Nat], ChainRank(r), NEW t \in Thread,
         NEW s \in Superpage, Chained(t, s)
  PROVE  \E h \in Superpage : Chained(t, h) /\ h = Rest(t)
<1> DEFINE R == {r[q] : q \in {v \in Superpage : Chained(t, v)}}
<1>1. R \in SUBSET Nat /\ R # {}
  OBVIOUS
<1>2. PICK m \in R : \A n \in R : m <= n
  <2> HIDE DEF R
  <2> QED BY <1>1, Smallest
<1>3. PICK h \in Superpage : Chained(t, h) /\ r[h] = m
  BY <1>2
<1>4. ASSUME r[h] > 0 PROVE FALSE
  <2>1. PICK q \in Superpage : /\ Chained(t, q) /\ ~ OnTrial(t, q)
                               /\ next[q] = h
    BY <1>3, <1>4 DEF ChainRank
  <2>2. r[h] = r[q] + 1
    BY <2>1, NullAssumption DEF ChainRank
  <2>3. r[q] \in R
    BY <2>1
  <2> QED BY <1>2, <1>3, <2>2, <2>3
<1>5. r[h] = 0
  BY <1>4, RankNat
<1> QED BY <1>3, <1>5 DEF ChainRank

LEMMA ChainPcStep ==
  ASSUME IInv, ChainPc, Ranked, [Next]_vars
  PROVE  ChainPc'
<1> Types /\ HeadOK /\ \A u \in Thread : ThreadOK(u)
  BY DEF IInv, TypeOK
<1> USE NullAssumption
<1>1. ASSUME NEW t \in Thread,
             \/ A_Read(t) \/ A_Walk(t) \/ A_Link(t) \/ A_Set(t) \/ A_Dec(t)
             \/ F_Start(t) \/ T_Start(t) \/ F_Inc(t) \/ F_Link(t)
             \/ T_Clear(t)
      PROVE  ChainPc'
  BY <1>1 DEF A_Read, A_Walk, A_Link, A_Set, A_Dec, F_Start, T_Start, F_Inc,
         F_Link, T_Clear, Finish, Goto, Types, RestPc, PushPc, Chained,
         ChainPc, spVars, listVars
<1>2. ASSUME NEW t \in Thread, A_Pop(t) PROVE ChainPc'
  BY <1>2 DEF A_Pop, Goto, Types, RestPc, Chained, ChainPc
<1>3. ASSUME NEW t \in Thread, A_Rest(t) PROVE ChainPc'
  <2>1. CASE \/ PutBack(t)
             \/ Goto(t, "a_walk") /\ UNCHANGED <<zone, by>>
    BY <1>3, <2>1 DEF A_Rest, PutBack, Goto, Types, RestPc, Chained, ChainPc
  <2>2. CASE /\ next[sph[t]] = NULL /\ Goto(t, "a_dec")
             /\ UNCHANGED <<zone, by>>
    <3>1. PICK r \in [Superpage -> Nat] : ChainRank(r)
      BY DEF Ranked
    <3>2. Rest(t) = NULL
      BY <1>3, <2>2 DEF Rest, A_Rest
    <3>3. \A s \in Superpage : ~ Chained(t, s)
      BY <3>1, <3>2, NoHead
    <3> QED
      BY <2>2, <3>3 DEF Goto, Types, RestPc, Chained, ChainPc
  <2> QED BY <1>3, <2>1, <2>2 DEF A_Rest
<1>4. ASSUME NEW t \in Thread, A_Push(t) PROVE ChainPc'
  BY <1>4 DEF A_Push, PutBack, Goto, Types, RestPc, Chained, ChainPc
<1>5. ASSUME NEW t \in Thread, A_Map(t) PROVE ChainPc'
  BY <1>5 DEF A_Map, Goto, Types, RestPc, Chained, ChainPc
<1>6. ASSUME NEW t \in Thread, F_Test(t) PROVE ChainPc'
  BY <1>6 DEF F_Test, LetGo, Finish, Goto, Types, RestPc, Chained, ChainPc,
         ThreadOK, Own
<1>7. ASSUME NEW t \in Thread, F_Cas(t) PROVE ChainPc'
  BY <1>7 DEF F_Cas, LetGo, Finish, Goto, Types, RestPc, PushPc, Chained,
         ChainPc, ThreadOK, Own
<1>8. CASE UNCHANGED vars
  BY <1>8 DEF vars, spVars, thrVars, Chained, ChainPc
<1> QED
  BY <1>1, <1>2, <1>3, <1>4, <1>5, <1>6, <1>7, <1>8 DEF Next, Step

LEMMA ListRankSame ==
  ASSUME NEW r, ListRank(r), UNCHANGED <<g_free_sp_list, zone>>,
         \A s \in Superpage : zone[s] = "list" => next'[s] = next[s]
  PROVE  ListRank(r)'
BY DEF ListRank

LEMMA ChainRankSame ==
  ASSUME NEW r, ChainRank(r),
         \A t \in Thread, s \in Superpage : Chained(t, s)' <=> Chained(t, s),
         \A t \in Thread, s \in Superpage : Chained(t, s) =>
           /\ (s = Rest(t))' <=> s = Rest(t)
           /\ OnTrial(t, s)' <=> OnTrial(t, s)
           /\ ~ OnTrial(t, s) => next'[s] = next[s]
  PROVE  ChainRank(r)'
BY DEF ChainRank

LEMMA PutBackChains ==
  ASSUME Types, NEW t \in Thread, PutBack(t)
  PROVE  /\ \A s \in Superpage : ~ Chained(t, s)'
         /\ \A u \in Thread \ {t}, s \in Superpage :
              Chained(u, s)' <=> Chained(u, s)
         /\ \A s \in Superpage :
              zone'[s] = "list" <=> zone[s] = "list" \/ Chained(t, s)
BY NullAssumption DEF PutBack, Chained, Types

\* The chains of the threads other than t, when t has none any more and the
\* ranks of theirs have not changed.
LEMMA ChainRankOthers ==
  ASSUME Types, ChainOK, NEW r, NEW r1, ChainRank(r), NEW t \in Thread,
         next' = next,
         \A s \in Superpage : ~ Chained(t, s)',
         \A u \in Thread \ {t}, s \in Superpage :
           Chained(u, s)' <=> Chained(u, s),
         \A u \in Thread \ {t} :
           /\ pc'[u] = pc[u] /\ sph'[u] = sph[u]
           /\ next_sph'[u] = next_sph[u] /\ last_sph'[u] = last_sph[u],
         \A u \in Thread \ {t}, s \in Superpage :
           Chained(u, s) => r1[s] = r[s]
  PROVE  ChainRank(r1)'
<1> SUFFICES ASSUME NEW u \in Thread, NEW s \in Superpage, Chained(u, s)'
             PROVE  /\ (r1[s] = 0 <=> s = Rest(u))'
                    /\ (~ OnTrial(u, s) /\ next[s] # NULL =>
                          r1[next[s]] = r1[s] + 1)'
                    /\ (r1[s] > 0 => \E q \in Superpage :
                          Chained(u, q) /\ ~ OnTrial(u, q) /\ next[q] = s)'
  BY DEF ChainRank
<1>1. u \in Thread \ {t} /\ Chained(u, s)
  OBVIOUS
<1>2. /\ Rest(u)' = Rest(u)
      /\ \A q \in Superpage : OnTrial(u, q)' <=> OnTrial(u, q)
  BY <1>1 DEF Rest, OnTrial
<1>3. ~ OnTrial(u, s) /\ next[s] # NULL =>
        Chained(u, next[s]) /\ next[s] \in Superpage
  BY <1>1 DEF ChainOK, Types, Ptr
<1>4. (r1[s] = 0 <=> s = Rest(u))'
  BY <1>1, <1>2 DEF ChainRank
<1>5. (~ OnTrial(u, s) /\ next[s] # NULL => r1[next[s]] = r1[s] + 1)'
  BY <1>1, <1>2, <1>3 DEF ChainRank
<1>6. (r1[s] > 0 => \E q \in Superpage :
         Chained(u, q) /\ ~ OnTrial(u, q) /\ next[q] = s)'
  BY <1>1, <1>2 DEF ChainRank
<1> QED BY <1>4, <1>5, <1>6

LEMMA RankStep ==
  ASSUME IInv, ChainPc, Ranked, [Next]_vars
  PROVE  Ranked'
<1> Types /\ HeadOK /\ ListOK /\ ChainOK /\ \A u \in Thread : ThreadOK(u)
  BY DEF IInv, TypeOK
<1> USE NullAssumption
<1> PICK r \in [Superpage -> Nat] : ListRank(r) /\ ChainRank(r)
  BY DEF Ranked
<1>1. ASSUME NEW t \in Thread,
             \/ A_Read(t) \/ A_Set(t) \/ F_Start(t) \/ T_Start(t)
             \/ F_Inc(t) \/ F_Link(t) \/ T_Clear(t) \/ A_Dec(t)
      PROVE  Ranked'
  <2>1. UNCHANGED <<g_free_sp_list, zone, by>>
    BY <1>1 DEF A_Read, A_Set, F_Start, T_Start, F_Inc, F_Link, T_Clear,
           A_Dec, listVars, spVars
  <2>2. /\ pc[t] \notin RestPc /\ pc'[t] \notin RestPc
        /\ \A u \in Thread \ {t} :
             /\ pc'[u] = pc[u] /\ sph'[u] = sph[u]
             /\ next_sph'[u] = next_sph[u] /\ last_sph'[u] = last_sph[u]
    BY <1>1 DEF A_Read, A_Set, F_Start, T_Start, F_Inc, F_Link, T_Clear,
           A_Dec, Finish, Goto, Types, RestPc, PushPc
  <2>3. \A s \in Superpage : zone[s] # "own" => next'[s] = next[s]
    <3>1. CASE A_Set(t) \/ F_Link(t)
      BY <3>1 DEF A_Set, F_Link, ThreadOK, Own, PushPc, Types
    <3>2. CASE next' = next
      BY <3>2
    <3> QED
      BY <1>1, <3>1, <3>2 DEF A_Read, F_Start, T_Start, F_Inc, T_Clear, A_Dec,
             listVars
  <2>4. ListRank(r)'
    BY <2>1, <2>3, ListRankSame
  <2>5. \A u \in Thread, s \in Superpage : Chained(u, s) =>
          /\ u # t
          /\ (s = Rest(u))' <=> s = Rest(u)
          /\ OnTrial(u, s)' <=> OnTrial(u, s)
          /\ ~ OnTrial(u, s) => next'[s] = next[s]
    <3> SUFFICES ASSUME NEW u \in Thread, NEW s \in Superpage, Chained(u, s)
                 PROVE  /\ u # t
                        /\ (s = Rest(u))' <=> s = Rest(u)
                        /\ OnTrial(u, s)' <=> OnTrial(u, s)
                        /\ ~ OnTrial(u, s) => next'[s] = next[s]
      OBVIOUS
    <3>1. u # t
      BY <2>2 DEF ChainPc
    <3>2. pc[u] = "a_rest" => next'[sph[u]] = next[sph[u]]
      BY <1>1, <3>1 DEF A_Read, A_Set, F_Start, T_Start, F_Inc, F_Link,
           T_Clear, A_Dec, listVars, ThreadOK, Own, PushPc, RestPc, Types
    <3>3. (s = Rest(u))' <=> s = Rest(u)
      BY <2>2, <3>1, <3>2 DEF Rest
    <3>4. OnTrial(u, s)' <=> OnTrial(u, s)
      BY <2>2, <3>1 DEF OnTrial
    <3> QED BY <2>3, <3>1, <3>3, <3>4 DEF Chained
  <2>6. ChainRank(r)'
    BY <2>1, <2>5, ChainRankSame DEF Chained
  <2> QED BY <2>4, <2>6 DEF Ranked
<1>2. ASSUME NEW t \in Thread, A_Pop(t) PROVE Ranked'
  <2>1. CASE CasFails(sph[t]) /\ Goto(t, "a_map") /\ UNCHANGED <<zone, by>>
    <3>1. ListRank(r)'
      BY <1>2, <2>1, ListRankSame DEF A_Pop, CasFails
    <3>2. ChainRank(r)'
      BY <1>2, <2>1 DEF A_Pop, Goto, Types, Chained, ChainRank, ChainPc,
             OnTrial, Rest, RestPc
    <3> QED BY <3>1, <3>2 DEF Ranked
  <2>2. CASE /\ CasOk(sph[t], NULL)
             /\ zone' = [s \in Superpage |->
                           IF s = sph[t] THEN "own"
                           ELSE IF zone[s] = "list" THEN "chain" ELSE zone[s]]
             /\ by' = [s \in Superpage |->
                         IF zone[s] = "list" THEN t ELSE by[s]]
             /\ Goto(t, "a_rest")
    <3>1. PICK h \in Superpage : h = sph[t] /\ zone[h] = "list"
                                 /\ h = g_free_sp_list
      BY <1>2, <2>2 DEF A_Pop, CasOk, ThreadOK, HeadOK
    <3>2. /\ r[h] = 0
          /\ \A s \in Superpage : zone[s] = "list" /\ s # h => r[s] > 0
      BY <3>1, RankNat DEF ListRank
    <3>3. PICK r1 \in [Superpage -> Nat] : \A s \in Superpage :
            r1[s] = IF zone[s] = "list" /\ s # h THEN r[s] - 1 ELSE r[s]
      <4> DEFINE f == [s \in Superpage |->
                         IF zone[s] = "list" /\ s # h THEN r[s] - 1 ELSE r[s]]
      <4>1. \A s \in Superpage : r[s] > 0 => r[s] - 1 \in Nat
        BY RankNat
      <4>2. f \in [Superpage -> Nat]
        BY <3>2, <4>1
      <4> QED BY <4>2
    <3>4. ListRank(r1)'
      BY <2>2 DEF ListRank
    <3>5. ASSUME NEW u \in Thread \ {t}, NEW s \in Superpage, Chained(u, s)'
          PROVE  /\ (r1[s] = 0 <=> s = Rest(u))'
                 /\ (~ OnTrial(u, s) /\ next[s] # NULL =>
                       r1[next[s]] = r1[s] + 1)'
                 /\ (r1[s] > 0 => \E q \in Superpage :
                       Chained(u, q) /\ ~ OnTrial(u, q) /\ next[q] = s)'
      <4>1. \A q \in Superpage : Chained(u, q)' <=> Chained(u, q)
        BY <2>2, <3>1 DEF Chained
      <4>2. /\ Rest(u)' = Rest(u)
            /\ \A q \in Superpage : OnTrial(u, q)' <=> OnTrial(u, q)
        BY <1>2, <2>2 DEF A_Pop, Goto, Types, Rest, OnTrial
      <4>3. \A q \in Superpage : Chained(u, q) => r1[q] = r[q]
        BY <3>3 DEF Chained
      <4>4. next' = next
        BY <1>2 DEF A_Pop
      <4>5. Chained(u, s)
        BY <3>5, <4>1
      <4>6. ~ OnTrial(u, s) /\ next[s] # NULL =>
              Chained(u, next[s]) /\ next[s] \in Superpage
        BY <4>5 DEF ChainOK, Types, Ptr
      <4>7. (r1[s] = 0 <=> s = Rest(u))'
        BY <4>2, <4>3, <4>5 DEF ChainRank
      <4>8. (~ OnTrial(u, s) /\ next[s] # NULL => r1[next[s]] = r1[s] + 1)'
        BY <4>2, <4>3, <4>4, <4>5, <4>6 DEF ChainRank
      <4>9. (r1[s] > 0 => \E q \in Superpage :
               Chained(u, q) /\ ~ OnTrial(u, q) /\ next[q] = s)'
        BY <4>1, <4>2, <4>3, <4>4, <4>5 DEF ChainRank
      <4> QED BY <4>7, <4>8, <4>9
    <3>6. ASSUME NEW s \in Superpage, Chained(t, s)'
          PROVE  /\ (r1[s] = 0 <=> s = Rest(t))'
                 /\ (~ OnTrial(t, s) /\ next[s] # NULL =>
                       r1[next[s]] = r1[s] + 1)'
                 /\ (r1[s] > 0 => \E q \in Superpage :
                       Chained(t, q) /\ ~ OnTrial(t, q) /\ next[q] = s)'
      <4>1. \A q \in Superpage : ~ Chained(t, q)
        BY <1>2 DEF A_Pop, ChainPc, RestPc
      <4>2. /\ \A q \in Superpage :
                 Chained(t, q)' <=> zone[q] = "list" /\ q # h
        BY <2>2, <3>1, <4>1 DEF Chained
      <4>3. /\ Rest(t)' = next[h]
            /\ \A q \in Superpage : ~ OnTrial(t, q)'
        BY <1>2, <2>2, <3>1 DEF A_Pop, Goto, Types, Rest, OnTrial
      <4>4. next' = next
        BY <1>2 DEF A_Pop
      <4>5. zone[s] = "list" /\ s # h
        BY <3>6, <4>2
      <4>6. PICK q \in Superpage : zone[q] = "list" /\ next[q] = s
        BY <3>2, <4>5 DEF ListRank
      <4>7. r[s] = r[q] + 1
        BY <4>6 DEF ListRank
      <4>8. r1[s] = r[q]
        BY <3>3, <4>5, <4>7, RankNat
      <4>9. (r1[s] = 0 <=> s = Rest(t))'
        <5>1. r[q] = 0 <=> q = h
          BY <3>1, <4>6 DEF ListRank
        <5>2. q = h <=> next[h] = s
          BY <3>1, <4>6 DEF ListOK
        <5> QED BY <4>3, <4>8, <5>1, <5>2
      <4>10. (~ OnTrial(t, s) /\ next[s] # NULL => r1[next[s]] = r1[s] + 1)'
        <5> SUFFICES ASSUME next[s] # NULL
                     PROVE  r1[next[s]] = r1[s] + 1
          BY <4>4
        <5>1. PICK n \in Superpage : n = next[s]
          BY DEF Types, Ptr
        <5>2. zone[n] = "list" /\ r[n] = r[s] + 1
          BY <4>5, <5>1 DEF ListRank, ListOK
        <5>3. n # h
          BY <3>2, <5>2, RankNat
        <5>4. r1[n] = r[s]
          BY <3>3, <5>2, <5>3, RankNat
        <5>5. r1[s] = r[s] - 1
          BY <3>3, <4>5
        <5> QED BY <5>1, <5>4, <5>5, RankNat
      <4>11. (r1[s] > 0 => \E v \in Superpage :
                Chained(t, v) /\ ~ OnTrial(t, v) /\ next[v] = s)'
        <5> SUFFICES ASSUME r1[s] > 0
                     PROVE  \E v \in Superpage :
                              /\ Chained(t, v)' /\ ~ OnTrial(t, v)'
                              /\ next[v] = s
          BY <4>4
        <5>1. q # h
          BY <3>2, <4>8
        <5> QED BY <4>2, <4>3, <4>6, <5>1
      <4> QED BY <4>9, <4>10, <4>11
    <3>7. ChainRank(r1)'
      <4> QED BY <3>5, <3>6 DEF ChainRank
    <3> QED BY <3>4, <3>7 DEF Ranked
  <2> QED BY <1>2, <2>1, <2>2 DEF A_Pop
<1>3. ASSUME NEW t \in Thread, A_Walk(t) PROVE Ranked'
  <2>1. ListRank(r)'
    BY <1>3, ListRankSame DEF A_Walk, listVars, spVars
  <2>2. \A u \in Thread, s \in Superpage : Chained(u, s)' <=> Chained(u, s)
    BY <1>3 DEF A_Walk, spVars, Chained
  <2>3. next' = next /\ \A u \in Thread : Rest(u)' = Rest(u)
    BY <1>3 DEF A_Walk, listVars, Goto, Types, Rest
  <2>4. \A u \in Thread, s \in Superpage :
          ~ OnTrial(u, s) /\ next[s] # NULL => ~ OnTrial(u, s)'
    BY <1>3 DEF A_Walk, Goto, Types, OnTrial
  <2>5. \A u \in Thread, s \in Superpage : ~ OnTrial(u, s)' => ~ OnTrial(u, s)
    BY <1>3 DEF A_Walk, Goto, Types, OnTrial
  <2>6. ChainRank(r)'
    BY <2>2, <2>3, <2>4, <2>5 DEF ChainRank
  <2> QED BY <2>1, <2>6 DEF Ranked
<1>4. ASSUME NEW t \in Thread, A_Link(t) PROVE Ranked'
  <2>1. Chained(t, last_sph[t]) /\ last_sph[t] \in Superpage
    BY <1>4 DEF A_Link, ThreadOK, RestPc
  <2>2. \A s \in Superpage : s # last_sph[t] => next'[s] = next[s]
    BY <1>4, <2>1 DEF A_Link, Types
  <2>3. ListRank(r)'
    BY <1>4, <2>1, <2>2, ListRankSame DEF A_Link, spVars, Chained
  <2>4. \A u \in Thread, s \in Superpage : Chained(u, s)' <=> Chained(u, s)
    BY <1>4 DEF A_Link, spVars, Chained
  <2>5. \A u \in Thread, s \in Superpage : OnTrial(u, s)' <=> OnTrial(u, s)
    BY <1>4 DEF A_Link, Goto, Types, OnTrial
  <2>6. OnTrial(t, last_sph[t])
    BY <1>4 DEF A_Link, OnTrial
  <2>7. \A u \in Thread, s \in Superpage :
          Chained(u, s) /\ ~ OnTrial(u, s) => next'[s] = next[s]
    BY <2>1, <2>2, <2>6 DEF Chained
  <2>8. ASSUME NEW u \in Thread, pc[u] \in RestPc PROVE Rest(u)' = Rest(u)
    <3>1. pc[u] = "a_rest" => sph[u] \in Own(u)
      BY DEF ThreadOK, RestPc
    <3>2. pc[u] = "a_rest" => next'[sph[u]] = next[sph[u]]
      BY <2>1, <2>2, <3>1 DEF Own, Chained
    <3> QED BY <1>4, <3>2 DEF A_Link, Goto, Types, Rest
  <2>9. ChainRank(r)'
    BY <2>4, <2>5, <2>7, <2>8, ChainRankSame DEF ChainPc
  <2> QED BY <2>3, <2>9 DEF Ranked
<1>5. ASSUME NEW t \in Thread, A_Map(t) PROVE Ranked'
  <2>1. /\ next' = next /\ g_free_sp_list' = g_free_sp_list
        /\ pc[t] \notin RestPc /\ pc'[t] \notin RestPc
        /\ \A u \in Thread \ {t} :
             /\ pc'[u] = pc[u] /\ sph'[u] = sph[u]
             /\ next_sph'[u] = next_sph[u] /\ last_sph'[u] = last_sph[u]
    BY <1>5 DEF A_Map, listVars, Goto, Types, RestPc
  <2>2. \A s \in Superpage : zone'[s] = "list" <=> zone[s] = "list"
    BY <1>5 DEF A_Map, Types
  <2>3. \A u \in Thread, s \in Superpage : Chained(u, s)' <=> Chained(u, s)
    BY <1>5 DEF A_Map, Types, Chained
  <2>4. ListRank(r)'
    BY <2>1, <2>2 DEF ListRank
  <2>5. \A u \in Thread, s \in Superpage : Chained(u, s) =>
          /\ (s = Rest(u))' <=> s = Rest(u)
          /\ OnTrial(u, s)' <=> OnTrial(u, s)
    BY <2>1 DEF ChainPc, Rest, OnTrial
  <2>6. ChainRank(r)'
    BY <2>1, <2>3, <2>5, ChainRankSame
  <2> QED BY <2>4, <2>6 DEF Ranked
<1>6. ASSUME NEW t \in Thread, F_Test(t) PROVE Ranked'
  <2>1. sph[t] \in Own(t)
    BY <1>6 DEF F_Test, ThreadOK
  <2>2. /\ next' = next /\ g_free_sp_list' = g_free_sp_list
        /\ pc[t] \notin RestPc /\ pc'[t] \notin RestPc
        /\ \A u \in Thread \ {t} :
             /\ pc'[u] = pc[u] /\ sph'[u] = sph[u]
             /\ next_sph'[u] = next_sph[u] /\ last_sph'[u] = last_sph[u]
    BY <1>6 DEF F_Test, listVars, Goto, Finish, Types, RestPc
  <2>3. \A s \in Superpage : zone'[s] = "list" <=> zone[s] = "list"
    BY <1>6, <2>1 DEF F_Test, LetGo, Types, Own
  <2>4. \A u \in Thread, s \in Superpage : Chained(u, s)' <=> Chained(u, s)
    BY <1>6, <2>1 DEF F_Test, LetGo, Types, Own, Chained
  <2>5. ListRank(r)'
    BY <2>2, <2>3 DEF ListRank
  <2>6. \A u \in Thread, s \in Superpage : Chained(u, s) =>
          /\ (s = Rest(u))' <=> s = Rest(u)
          /\ OnTrial(u, s)' <=> OnTrial(u, s)
    BY <2>2 DEF ChainPc, Rest, OnTrial
  <2>7. ChainRank(r)'
    BY <2>2, <2>4, <2>6, ChainRankSame
  <2> QED BY <2>5, <2>7 DEF Ranked
<1>7. ASSUME NEW t \in Thread, A_Rest(t) PROVE Ranked'
  <2>1. /\ next' = next
        /\ \A u \in Thread \ {t} :
             /\ pc'[u] = pc[u] /\ sph'[u] = sph[u]
             /\ next_sph'[u] = next_sph[u] /\ last_sph'[u] = last_sph[u]
    BY <1>7 DEF A_Rest, Goto, Types
  <2>2. \A s \in Superpage : ~ OnTrial(t, s) /\ ~ OnTrial(t, s)'
    BY <1>7 DEF A_Rest, Goto, Types, OnTrial
  <2>3. Rest(t) = next[sph[t]]
    BY <1>7 DEF A_Rest, Rest
  <2>4. CASE /\ UNCHANGED <<g_free_sp_list, zone, by>>
             /\ \/ next[sph[t]] = NULL
                \/ /\ Goto(t, "a_walk")
                   /\ next_sph' = [next_sph EXCEPT ![t] = next[sph[t]]]
    <3>1. ListRank(r)'
      BY <2>1, <2>4, ListRankSame
    <3>2. \A u \in Thread, s \in Superpage : Chained(u, s)' <=> Chained(u, s)
      BY <2>4 DEF Chained
    <3>3. ASSUME NEW u \in Thread, NEW s \in Superpage, Chained(u, s)
          PROVE  /\ (s = Rest(u))' <=> s = Rest(u)
                 /\ OnTrial(u, s)' <=> OnTrial(u, s)
      <4>1. CASE u # t
        BY <2>1, <4>1 DEF Rest, OnTrial
      <4>2. CASE u = t
        <5>1. next[sph[t]] # NULL
          BY <2>3, <3>3, <4>2, NoHead
        <5>2. Rest(t)' = next[sph[t]]
          BY <2>4, <5>1 DEF Goto, Types, Rest
        <5> QED BY <2>2, <2>3, <4>2, <5>2
      <4> QED BY <4>1, <4>2
    <3>4. ChainRank(r)'
      BY <2>1, <3>2, <3>3, ChainRankSame
    <3> QED BY <3>1, <3>4 DEF Ranked
  <2>5. CASE /\ CasOk(NULL, next[sph[t]]) /\ PutBack(t)
             /\ next[sph[t]] # NULL
    <3>1. /\ \A s \in Superpage : ~ Chained(t, s)'
          /\ \A u \in Thread \ {t}, s \in Superpage :
               Chained(u, s)' <=> Chained(u, s)
          /\ \A s \in Superpage :
               zone'[s] = "list" <=> zone[s] = "list" \/ Chained(t, s)
      BY <2>5, PutBackChains
    <3>2. ChainRank(r)'
      BY <2>1, <3>1, ChainRankOthers
    <3>3. PICK n \in Superpage : n = next[sph[t]] /\ Chained(t, n)
      BY <1>7, <2>5 DEF A_Rest, ThreadOK, RestOK, RestPc, Own, Types, Ptr
    <3>4. g_free_sp_list = NULL /\ g_free_sp_list' = n
      BY <2>5, <3>3 DEF CasOk
    <3>5. ASSUME NEW s \in Superpage, zone'[s] = "list"
          PROVE  /\ r[s] = 0 <=> s = n
                 /\ next[s] # NULL => r[next[s]] = r[s] + 1
                 /\ r[s] > 0 => \E q \in Superpage :
                                  zone'[q] = "list" /\ next[q] = s
      <4>1. CASE zone[s] = "list"
        BY <3>1, <3>3, <3>4, <4>1 DEF ListRank, Chained
      <4>2. CASE Chained(t, s)
        BY <2>2, <2>3, <3>1, <3>3, <4>2 DEF ChainRank
      <4> QED BY <3>1, <3>5, <4>1, <4>2
    <3>6. ListRank(r)'
      BY <2>1, <3>4, <3>5 DEF ListRank
    <3> QED BY <3>2, <3>6 DEF Ranked
  <2> QED BY <1>7, <2>4, <2>5 DEF A_Rest, CasFails
<1>8. ASSUME NEW t \in Thread, A_Push(t) PROVE Ranked'
  <2>1. /\ next' = next
        /\ \A u \in Thread \ {t} :
             /\ pc'[u] = pc[u] /\ sph'[u] = sph[u]
             /\ next_sph'[u] = next_sph[u] /\ last_sph'[u] = last_sph[u]
    BY <1>8 DEF A_Push, Goto, Types
  <2>2. CASE CasFails(cur_sph[t]) /\ Goto(t, "a_link") /\ UNCHANGED <<zone, by>>
    <3>1. ListRank(r)'
      BY <2>1, <2>2, ListRankSame DEF CasFails
    <3>2. ChainRank(r)'
      BY <1>8, <2>1, <2>2, ChainRankSame
      DEF A_Push, Goto, Types, Chained, Rest, OnTrial
    <3> QED BY <3>1, <3>2 DEF Ranked
  <2>3. CASE CasOk(cur_sph[t], next_sph[t]) /\ PutBack(t)
    <3>1. /\ \A s \in Superpage : ~ Chained(t, s)'
          /\ \A u \in Thread \ {t}, s \in Superpage :
               Chained(u, s)' <=> Chained(u, s)
          /\ \A s \in Superpage :
               zone'[s] = "list" <=> zone[s] = "list" \/ Chained(t, s)
      BY <2>3, PutBackChains
    <3>2. PICK l \in Superpage : l = last_sph[t] /\ Chained(t, l)
      BY <1>8 DEF A_Push, ThreadOK, RestPc
    <3>3. PICK n \in Superpage : n = next_sph[t] /\ Chained(t, n)
      BY <1>8 DEF A_Push, ThreadOK, RestPc, RestOK
    <3>4. g_free_sp_list = next[l] /\ g_free_sp_list' = n
      BY <1>8, <2>3, <3>2, <3>3 DEF A_Push, ThreadOK, CasOk
    <3>5. Rest(t) = n /\ \A s \in Superpage : OnTrial(t, s) <=> s = l
      BY <1>8, <3>2, <3>3 DEF A_Push, Rest, OnTrial
    <3>6. PICK r1 \in [Superpage -> Nat] : \A s \in Superpage :
            r1[s] = IF zone[s] = "list" THEN r[s] + r[l] + 1 ELSE r[s]
      <4> DEFINE f == [s \in Superpage |->
                         IF zone[s] = "list" THEN r[s] + r[l] + 1 ELSE r[s]]
      <4>1. \A s \in Superpage : r[s] \in Nat /\ r[s] + r[l] + 1 \in Nat
        BY RankNat
      <4>2. f \in [Superpage -> Nat]
        BY <4>1
      <4> QED BY <4>2
    <3>7. ChainRank(r1)'
      <4>1. \A u \in Thread \ {t}, s \in Superpage :
              Chained(u, s) => r1[s] = r[s]
        BY <3>6 DEF Chained
      <4> QED BY <2>1, <3>1, <4>1, ChainRankOthers
    <3>8. ASSUME NEW s \in Superpage, zone[s] = "list"
          PROVE  /\ r1[s] = 0 <=> s = n
                 /\ next[s] # NULL => r1[next[s]] = r1[s] + 1
                 /\ r1[s] > 0 => \E q \in Superpage :
                                   zone'[q] = "list" /\ next[q] = s
      <4>1. r1[s] = r[s] + r[l] + 1 /\ r1[s] > 0
        BY <3>6, <3>8, RankNat
      <4>2. s # n
        BY <3>3, <3>8 DEF Chained
      <4>3. ASSUME next[s] # NULL PROVE r1[next[s]] = r1[s] + 1
        <5>1. PICK v \in Superpage : v = next[s]
          BY <4>3 DEF Types, Ptr
        <5>2. zone[v] = "list" /\ r[v] = r[s] + 1
          BY <3>8, <5>1 DEF ListRank, ListOK
        <5>3. r1[v] = r[v] + r[l] + 1
          BY <3>6, <5>2
        <5> QED BY <4>1, <5>1, <5>2, <5>3, RankNat
      <4>4. \E q \in Superpage : zone'[q] = "list" /\ next[q] = s
        <5>1. CASE r[s] = 0
          <6>1. s = next[l]
            BY <3>4, <3>8, <5>1 DEF ListRank
          <6> QED BY <3>1, <3>2, <6>1
        <5>2. CASE r[s] > 0
          BY <3>1, <3>8, <5>2 DEF ListRank
        <5> QED BY <5>1, <5>2, RankNat
      <4> QED BY <4>1, <4>2, <4>3, <4>4
    <3>9. ASSUME NEW s \in Superpage, Chained(t, s)
          PROVE  /\ r1[s] = 0 <=> s = n
                 /\ next[s] # NULL => r1[next[s]] = r1[s] + 1
                 /\ r1[s] > 0 => \E q \in Superpage :
                                   zone'[q] = "list" /\ next[q] = s
      <4>1. \A q \in Superpage : Chained(t, q) => r1[q] = r[q]
        BY <3>6 DEF Chained
      <4>2. r1[s] = 0 <=> s = n
        BY <3>5, <3>9, <4>1 DEF ChainRank
      <4>3. r1[s] > 0 => \E q \in Superpage :
                           zone'[q] = "list" /\ next[q] = s
        BY <3>1, <3>9, <4>1 DEF ChainRank
      <4>4. ASSUME next[s] # NULL PROVE r1[next[s]] = r1[s] + 1
        <5>1. PICK v \in Superpage : v = next[s]
          BY <4>4 DEF Types, Ptr
        <5>2. CASE s # l
          <6>1. Chained(t, v) /\ r[v] = r[s] + 1
            BY <3>5, <3>9, <4>4, <5>1, <5>2 DEF ChainRank, ChainOK
          <6> QED BY <3>9, <4>1, <5>1, <6>1
        <5>3. CASE s = l
          <6>1. v = g_free_sp_list
            BY <3>4, <5>1, <5>3
          <6>2. zone[v] = "list" /\ r[v] = 0
            BY <6>1 DEF HeadOK, ListRank
          <6>3. r1[v] = 0 + r[l] + 1
            BY <3>6, <6>2
          <6> QED BY <3>9, <4>1, <5>1, <5>3, <6>3, RankNat
        <5> QED BY <5>2, <5>3
      <4> QED BY <4>2, <4>3, <4>4
    <3>10. ListRank(r1)'
      BY <2>1, <3>1, <3>4, <3>8, <3>9 DEF ListRank
    <3> QED BY <3>7, <3>10 DEF Ranked
  <2> QED BY <1>8, <2>2, <2>3 DEF A_Push
<1>9. ASSUME NEW t \in Thread, F_Cas(t) PROVE Ranked'
  <2>1. PICK h \in Superpage : h = sph[t] /\ h \in Own(t)
    BY <1>9 DEF F_Cas, ThreadOK, PushPc, Own
  <2>2. /\ next' = next
        /\ pc[t] \notin RestPc /\ pc'[t] \notin RestPc
        /\ \A u \in Thread \ {t} :
             /\ pc'[u] = pc[u] /\ sph'[u] = sph[u]
             /\ next_sph'[u] = next_sph[u] /\ last_sph'[u] = last_sph[u]
    BY <1>9 DEF F_Cas, Goto, Finish, Types, RestPc
  <2>3. CASE CasFails(cur_sph[t]) /\ UNCHANGED <<zone, by>>
    <3>1. ListRank(r)'
      BY <2>2, <2>3, ListRankSame DEF CasFails
    <3>2. \A u \in Thread, s \in Superpage : Chained(u, s) =>
            /\ (s = Rest(u))' <=> s = Rest(u)
            /\ OnTrial(u, s)' <=> OnTrial(u, s)
      BY <2>2 DEF ChainPc, Rest, OnTrial
    <3>3. ChainRank(r)'
      BY <2>2, <2>3, <3>2, ChainRankSame DEF Chained
    <3> QED BY <3>1, <3>3 DEF Ranked
  <2>4. CASE CasOk(cur_sph[t], sph[t]) /\ LetGo(sph[t], "list")
    <3>1. g_free_sp_list = next[h] /\ g_free_sp_list' = h
      BY <1>9, <2>1, <2>4 DEF F_Cas, ThreadOK, CasOk
    <3>2. /\ zone[h] = "own"
          /\ \A s \in Superpage : zone'[s] = "list" <=> zone[s] = "list" \/ s = h
      BY <2>1, <2>4 DEF LetGo, Own, Types
    <3>3. PICK r1 \in [Superpage -> Nat] : \A s \in Superpage :
            r1[s] = IF zone[s] = "list" THEN r[s] + 1
                    ELSE IF s = h THEN 0 ELSE r[s]
      <4> DEFINE f == [s \in Superpage |->
                         IF zone[s] = "list" THEN r[s] + 1
                         ELSE IF s = h THEN 0 ELSE r[s]]
      <4>1. \A s \in Superpage : r[s] \in Nat /\ r[s] + 1 \in Nat
        BY RankNat
      <4>2. f \in [Superpage -> Nat]
        BY <4>1
      <4> QED BY <4>2
    <3>4. ChainRank(r1)'
      <4>1. \A u \in Thread, s \in Superpage : Chained(u, s) => r1[s] = r[s]
        BY <3>2, <3>3 DEF Chained
      <4>2. \A u \in Thread, s \in Superpage : Chained(u, s)' <=> Chained(u, s)
        BY <2>1, <2>4 DEF LetGo, Own, Types, Chained
      <4>3. \A s \in Superpage : ~ Chained(t, s)'
        BY <2>2, <4>2 DEF ChainPc
      <4> QED BY <2>2, <4>1, <4>2, <4>3, ChainRankOthers
    <3>5. ASSUME NEW s \in Superpage, zone'[s] = "list"
          PROVE  /\ r1[s] = 0 <=> s = h
                 /\ next[s] # NULL => r1[next[s]] = r1[s] + 1
                 /\ r1[s] > 0 => \E q \in Superpage :
                                   zone'[q] = "list" /\ next[q] = s
      <4>1. r1[s] = 0 <=> s = h
        BY <3>2, <3>3, <3>5, RankNat
      <4>2. ASSUME next[s] # NULL PROVE r1[next[s]] = r1[s] + 1
        <5>1. PICK v \in Superpage : v = next[s]
          BY <4>2 DEF Types, Ptr
        <5>2. CASE s = h
          <6>1. zone[v] = "list" /\ r[v] = 0
            BY <3>1, <5>1, <5>2, NullAssumption DEF HeadOK, ListRank
          <6> QED BY <3>3, <4>1, <5>1, <5>2, <6>1
        <5>3. CASE zone[s] = "list"
          <6>1. zone[v] = "list" /\ r[v] = r[s] + 1
            BY <5>1, <5>3 DEF ListRank, ListOK
          <6>2. r1[v] = r[v] + 1 /\ r1[s] = r[s] + 1
            BY <3>3, <5>3, <6>1
          <6> QED BY <5>1, <6>1, <6>2
        <5> QED BY <3>2, <3>5, <5>2, <5>3
      <4>3. ASSUME r1[s] > 0
            PROVE  \E q \in Superpage : zone'[q] = "list" /\ next[q] = s
        <5>1. zone[s] = "list"
          BY <3>2, <3>5, <4>1, <4>3
        <5>2. CASE r[s] = 0
          <6>1. next[h] = s
            BY <3>1, <5>1, <5>2 DEF ListRank
          <6> QED BY <3>2, <6>1
        <5>3. CASE r[s] > 0
          BY <3>2, <5>1, <5>3 DEF ListRank
        <5> QED BY <5>2, <5>3, RankNat
      <4> QED BY <4>1, <4>2, <4>3
    <3>6. ListRank(r1)'
      BY <2>2, <3>1, <3>5 DEF ListRank
    <3> QED BY <3>4, <3>6 DEF Ranked
  <2> QED BY <1>9, <2>3, <2>4 DEF F_Cas
<1>10. CASE UNCHANGED vars
  BY <1>10 DEF vars, listVars, spVars, thrVars, Chained, OnTrial, Rest,
         ListRank, ChainRank, Ranked
<1> QED
  BY <1>1, <1>2, <1>3, <1>4, <1>5, <1>6, <1>7, <1>8, <1>9, <1>10
  DEF Next, Step

LEMMA RankInit == Init => ChainPc /\ Ranked
<1> SUFFICES ASSUME Init PROVE ChainPc /\ Ranked
  OBVIOUS
<1>1. ChainPc
  BY DEF Init, ChainPc, Chained
<1>2. [s \in Superpage |-> 0] \in [Superpage -> Nat]
  OBVIOUS
<1>3. \A r \in [Superpage -> Nat] : ListRank(r) /\ ChainRank(r)
  BY DEF Init, Chained, ListRank, ChainRank
<1> QED BY <1>1, <1>2, <1>3 DEF Ranked

----------------------------------------------------------------------------
(* What can be reached along the links.                                    *)

SpCount == Cardinality(Superpage)

LEMMA SpCountNat == SpCount \in Nat
BY FiniteAssumption, FS_CardinalityType DEF SpCount

LEMMA LinkPtr ==
  ASSUME Types, NEW s \in Superpage
  PROVE  Link(s) \in Ptr
BY DEF Types, Link, Ptr

\* The first k links from p lead along w.
Path(p, k, w) == w[0] = p /\ \A i \in 0 .. k - 1 : w[i + 1] = Link(w[i])

Reached(p, n) ==
  {u \in Superpage :
     \E k \in 0 .. n, w \in [Nat -> Superpage] : Path(p, k, w) /\ w[k] = u}

Beyond(S) == S \cup ({Link(s) : s \in S} \ {NULL})

LEMMA ReachZero ==
  ASSUME Types, NEW p \in Ptr
  PROVE  Reached(p, 0) = {p} \ {NULL}
<1>1. ASSUME NEW u \in Reached(p, 0) PROVE u \in {p} \ {NULL}
  BY NullAssumption DEF Reached, Path
<1>2. ASSUME NEW u \in {p} \ {NULL} PROVE u \in Reached(p, 0)
  <2>1. u = p /\ u \in Superpage
    BY DEF Ptr
  <2> DEFINE w == [i \in Nat |-> u]
  <2>2. w \in [Nat -> Superpage] /\ w[0] = u
    BY <2>1
  <2>3. Path(p, 0, w)
    BY <2>1, <2>2 DEF Path
  <2> QED BY <2>1, <2>2, <2>3 DEF Reached
<1> QED BY <1>1, <1>2

LEMMA PathOn ==
  ASSUME Types, NEW p \in Ptr, NEW k \in Nat, NEW w \in [Nat -> Superpage],
         Path(p, k, w), Link(w[k]) # NULL
  PROVE  \E v \in [Nat -> Superpage] : Path(p, k + 1, v) /\ v[k + 1] = Link(w[k])
<1>1. Link(w[k]) \in Superpage
  BY LinkPtr DEF Ptr
<1>2. PICK v \in [Nat -> Superpage] :
        /\ v[k + 1] = Link(w[k])
        /\ \A i \in 0 .. k : v[i] = w[i]
  <2> DEFINE v == [w EXCEPT ![k + 1] = Link(w[k])]
  <2>1. v \in [Nat -> Superpage] /\ v[k + 1] = Link(w[k])
    BY <1>1
  <2>2. \A i \in 0 .. k : v[i] = w[i]
    OBVIOUS
  <2> QED BY <2>1, <2>2
<1>3. v[0] = p
  BY <1>2 DEF Path
<1>4. ASSUME NEW i \in 0 .. k PROVE v[i + 1] = Link(v[i])
  <2>1. v[i] = w[i]
    BY <1>2
  <2>2. CASE i = k
    BY <1>2, <2>1, <2>2
  <2>3. CASE i # k
    <3>1. i \in 0 .. k - 1 /\ i + 1 \in 0 .. k
      BY <2>3
    <3>2. w[i + 1] = Link(w[i])
      BY <3>1 DEF Path
    <3> QED BY <1>2, <2>1, <3>1, <3>2
  <2> QED BY <2>2, <2>3
<1>5. (k + 1) - 1 = k
  OBVIOUS
<1> QED BY <1>2, <1>3, <1>4, <1>5 DEF Path

LEMMA ReachMore ==
  ASSUME Types, NEW p \in Ptr, NEW n \in Nat
  PROVE  Reached(p, n + 1) = Beyond(Reached(p, n))
<1>1. ASSUME NEW u \in Reached(p, n + 1) PROVE u \in Beyond(Reached(p, n))
  <2>1. PICK k \in 0 .. n + 1, w \in [Nat -> Superpage] :
          Path(p, k, w) /\ w[k] = u
    BY DEF Reached
  <2>2. CASE k \in 0 .. n
    BY <2>1, <2>2 DEF Reached, Beyond
  <2>3. CASE k \notin 0 .. n
    <3>1. k = n + 1 /\ k - 1 = n /\ n \in 0 .. k - 1
      BY <2>3
    <3>2. u = Link(w[n]) /\ w[n] \in Superpage
      BY <2>1, <3>1 DEF Path
    <3>3. Path(p, n, w)
      BY <2>1, <3>1 DEF Path
    <3>4. w[n] \in Reached(p, n)
      BY <3>2, <3>3 DEF Reached
    <3>5. u # NULL
      BY <2>1, NullAssumption
    <3> QED BY <3>2, <3>4, <3>5 DEF Beyond
  <2> QED BY <2>2, <2>3
<1>2. ASSUME NEW u \in Beyond(Reached(p, n)) PROVE u \in Reached(p, n + 1)
  <2>1. CASE u \in Reached(p, n)
    <3>1. PICK k \in 0 .. n, w \in [Nat -> Superpage] :
            Path(p, k, w) /\ w[k] = u
      BY <2>1 DEF Reached
    <3>2. k \in 0 .. n + 1
      OBVIOUS
    <3> QED BY <3>1, <3>2 DEF Reached
  <2>2. CASE u \notin Reached(p, n)
    <3>1. PICK s \in Reached(p, n) : u = Link(s) /\ u # NULL
      BY <2>2 DEF Beyond
    <3>2. PICK k \in 0 .. n, w \in [Nat -> Superpage] :
            Path(p, k, w) /\ w[k] = s
      BY DEF Reached
    <3>3. PICK v \in [Nat -> Superpage] : Path(p, k + 1, v) /\ v[k + 1] = u
      BY <3>1, <3>2, PathOn
    <3>4. k + 1 \in 0 .. n + 1 /\ u \in Superpage
      BY <3>3
    <3> QED BY <3>3, <3>4 DEF Reached
  <2> QED BY <2>1, <2>2
<1> QED BY <1>1, <1>2

LEMMA ChainFromIs ==
  ASSUME Types, NEW p \in Ptr
  PROVE  ChainFrom(p) = Reached(p, SpCount)
<1> DEFINE D == 0 .. SpCount
           IsReach(g) == g = [n \in D |-> IF n = 0 THEN {p} \ {NULL}
                                          ELSE Beyond(g[n - 1])]
<1>1. SpCount \in Nat
  BY SpCountNat
<1>2. PICK f : f = [n \in D |-> Reached(p, n)]
  OBVIOUS
<1>3. f[0] = {p} \ {NULL}
  BY <1>1, <1>2, ReachZero
<1>4. ASSUME NEW n \in D \ {0} PROVE f[n] = Beyond(f[n - 1])
  <2>1. n - 1 \in Nat /\ n - 1 \in D /\ (n - 1) + 1 = n
    BY <1>1
  <2>2. Reached(p, n) = Beyond(Reached(p, n - 1))
    BY <2>1, ReachMore
  <2> QED BY <1>2, <2>1, <2>2
<1>5. IsReach(f)
  BY <1>2, <1>3, <1>4
<1>6. PICK h : h = CHOOSE g : IsReach(g)
  OBVIOUS
<1>7. IsReach(h)
  BY <1>5, <1>6
<1>8. ChainFrom(p) = h[SpCount]
  BY <1>6 DEF ChainFrom, SpCount, Beyond
<1>9. \A n \in D : h[n] = f[n]
  <2> DEFINE B == {n \in D : h[n] # f[n]}
  <2>1. SUFFICES ASSUME B # {} PROVE FALSE
    OBVIOUS
  <2>2. PICK m \in B : \A n \in B : m <= n
    <3>1. B \in SUBSET Nat
      BY <1>1
    <3> HIDE DEF B
    <3> QED BY <2>1, <3>1, Smallest
  <2>3. m \in D /\ m \in Nat /\ h[m] # f[m]
    BY <1>1
  <2>4. h[0] = {p} \ {NULL}
    BY <1>1, <1>7
  <2>5. m # 0
    BY <1>3, <2>3, <2>4
  <2>6. m - 1 \in D /\ ~ (m <= m - 1)
    BY <1>1, <2>3, <2>5
  <2>7. h[m - 1] = f[m - 1]
    BY <2>2, <2>6
  <2>8. h[m] = Beyond(h[m - 1])
    BY <1>7, <2>3, <2>5
  <2> QED BY <1>4, <2>3, <2>5, <2>7, <2>8
<1>10. SpCount \in D
  BY <1>1
<1> QED BY <1>2, <1>8, <1>9, <1>10

\* Along the links, S is not left and the rank grows by one.
Climbs(S, r) ==
  \A s \in S : Link(s) # NULL => Link(s) \in S /\ r[Link(s)] = r[s] + 1

LEMMA PathRank ==
  ASSUME NEW S \in SUBSET Superpage, NEW r \in [Superpage -> Nat],
         Climbs(S, r), NEW p \in S, NEW k \in Nat,
         NEW w \in [Nat -> Superpage], Path(p, k, w)
  PROVE  \A i \in 0 .. k : w[i] \in S /\ r[w[i]] = r[p] + i
<1> DEFINE B == {i \in 0 .. k : ~ (w[i] \in S /\ r[w[i]] = r[p] + i)}
<1>1. SUFFICES ASSUME B # {} PROVE FALSE
  OBVIOUS
<1>2. PICK m \in B : \A n \in B : m <= n
  <2>1. B \in SUBSET Nat
    OBVIOUS
  <2> HIDE DEF B
  <2> QED BY <1>1, <2>1, Smallest
<1>3. m \in Nat /\ m \in 0 .. k
  OBVIOUS
<1>4. m # 0
  BY RankNat DEF Path
<1>5. m - 1 \in 0 .. k - 1 /\ m - 1 \in 0 .. k /\ ~ (m <= m - 1)
      /\ (m - 1) + 1 = m
  BY <1>3, <1>4
<1>6. w[m - 1] \in S /\ r[w[m - 1]] = r[p] + (m - 1)
  BY <1>2, <1>5
<1>7. w[m] = Link(w[m - 1]) /\ w[m] # NULL
  BY <1>3, <1>5, NullAssumption DEF Path
<1>8. w[m] \in S /\ r[w[m]] = (r[p] + (m - 1)) + 1
  BY <1>6, <1>7 DEF Climbs
<1> QED BY <1>3, <1>8, RankNat

\* A path along which the rank grows is shorter than there are superpages.
LEMMA PathShort ==
  ASSUME NEW r \in [Superpage -> Nat], NEW k \in Nat,
         NEW w \in [Nat -> Superpage], \A i \in 0 .. k : r[w[i]] = i
  PROVE  k < SpCount
<1>1. PICK f : f = [i \in 0 .. k |-> w[i]]
  OBVIOUS
<1>2. f \in Injection(0 .. k, Superpage)
  <2>1. f \in [0 .. k -> Superpage]
    BY <1>1
  <2>2. \A i, j \in 0 .. k : f[i] = f[j] => i = j
    BY <1>1
  <2> QED BY <2>1, <2>2 DEF Injection, IsInjective
<1>3. Cardinality(0 .. k) <= SpCount
  BY <1>2, FiniteAssumption, FS_Injection DEF SpCount
<1>4. Cardinality(0 .. k) = k + 1
  BY FS_Interval
<1> QED BY <1>3, <1>4, SpCountNat

(* A set of superpages with ranks, each but the head led to by another, is *)
(* what can be reached from its head.                                      *)
LEMMA FromHead ==
  ASSUME Types, NEW S \in SUBSET Superpage, NEW r \in [Superpage -> Nat],
         NEW p \in Ptr, p # NULL => p \in S, Climbs(S, r),
         \A s \in S : r[s] = 0 <=> s = p,
         \A s \in S : r[s] > 0 => \E q \in S : Link(q) = s
  PROVE  ChainFrom(p) = S
<1>1. \A k \in Nat, w \in [Nat -> Superpage] : Path(p, k, w) =>
        /\ \A i \in 0 .. k : w[i] \in S /\ r[w[i]] = i
        /\ k < SpCount
  <2> SUFFICES ASSUME NEW k \in Nat, NEW w \in [Nat -> Superpage],
                      Path(p, k, w)
               PROVE  /\ \A i \in 0 .. k : w[i] \in S /\ r[w[i]] = i
                      /\ k < SpCount
    OBVIOUS
  <2>1. p \in Superpage /\ p \in S /\ r[p] = 0
    BY NullAssumption DEF Path
  <2>2. \A i \in 0 .. k : w[i] \in S /\ r[w[i]] = r[p] + i
    BY <2>1, PathRank
  <2>3. \A i \in 0 .. k : r[w[i]] = i
    BY <2>1, <2>2
  <2> QED BY <2>2, <2>3, PathShort
<1>2. ASSUME NEW u \in Reached(p, SpCount) PROVE u \in S
  <2>1. PICK k \in 0 .. SpCount, w \in [Nat -> Superpage] :
          Path(p, k, w) /\ w[k] = u
    BY DEF Reached
  <2>2. k \in Nat /\ k \in 0 .. k
    OBVIOUS
  <2> QED BY <1>1, <2>1, <2>2
<1>3. \A s \in S : \E k \in Nat, w \in [Nat -> Superpage] :
        Path(p, k, w) /\ w[k] = s
  <2> DEFINE OnPath(s) == \E k \in Nat, w \in [Nat -> Superpage] :
                            Path(p, k, w) /\ w[k] = s
             U == {s \in S : ~ OnPath(s)}
             R == {r[s] : s \in U}
  <2>1. SUFFICES ASSUME U # {} PROVE FALSE
    OBVIOUS
  <2>2. PICK m \in R : \A n \in R : m <= n
    <3>1. R \in SUBSET Nat /\ R # {}
      BY <2>1
    <3> HIDE DEF R
    <3> QED BY <3>1, Smallest
  <2>3. PICK s \in S : ~ OnPath(s) /\ r[s] = m
    OBVIOUS
  <2>4. CASE r[s] = 0
    <3>1. s = p /\ s \in Superpage
      BY <2>4
    <3>2. s \in Reached(p, 0)
      BY <3>1, ReachZero, NullAssumption
    <3> QED BY <2>3, <3>2 DEF Reached
  <2>5. CASE r[s] > 0
    <3>1. PICK q \in S : Link(q) = s
      BY <2>5
    <3>2. s # NULL
      BY NullAssumption
    <3>3. r[s] = r[q] + 1
      BY <3>1, <3>2 DEF Climbs
    <3>4. OnPath(q)
      <4>1. SUFFICES ASSUME ~ OnPath(q) PROVE FALSE
        OBVIOUS
      <4>2. r[q] \in R
        BY <4>1
      <4>3. m <= r[q]
        BY <2>2, <4>2
      <4> HIDE DEF R, OnPath
      <4> QED BY <2>3, <3>3, <4>3, RankNat
    <3>5. PICK k \in Nat, w \in [Nat -> Superpage] : Path(p, k, w) /\ w[k] = q
      BY <3>4
    <3>6. OnPath(s)
      BY <3>1, <3>2, <3>5, PathOn
    <3> QED BY <2>3, <3>6
  <2> QED BY <2>4, <2>5, RankNat
<1>4. ASSUME NEW s \in S PROVE s \in Reached(p, SpCount)
  <2>1. PICK k \in Nat, w \in [Nat -> Superpage] : Path(p, k, w) /\ w[k] = s
    BY <1>3
  <2>2. k \in 0 .. SpCount
    BY <1>1, <2>1, SpCountNat
  <2> QED BY <2>1, <2>2 DEF Reached
<1> QED BY <1>2, <1>4, ChainFromIs

(* No superpage of such a set can be reached again from its own link.      *)
LEMMA NotBack ==
  ASSUME Types, NEW S \in SUBSET Superpage, NEW r \in [Superpage -> Nat],
         Climbs(S, r), NEW s \in S
  PROVE  s \notin ChainFrom(Link(s))
<1> SUFFICES ASSUME s \in ChainFrom(Link(s)) PROVE FALSE
  OBVIOUS
<1>1. Link(s) \in Ptr
  BY LinkPtr
<1>2. PICK p : p = Link(s)
  OBVIOUS
<1>3. s \in Reached(p, SpCount)
  BY <1>1, <1>2, ChainFromIs
<1>4. PICK k \in 0 .. SpCount, w \in [Nat -> Superpage] :
        Path(p, k, w) /\ w[k] = s
  BY <1>3 DEF Reached
<1>5. p # NULL
  BY <1>4, NullAssumption DEF Path
<1>6. p \in S /\ r[p] = r[s] + 1
  BY <1>2, <1>5 DEF Climbs
<1>7. k \in Nat /\ k \in 0 .. k
  BY SpCountNat
<1>8. r[w[k]] = r[p] + k
  BY <1>4, <1>6, <1>7, PathRank
<1> QED BY <1>4, <1>6, <1>7, <1>8, RankNat

\* A superpage in a chain is in the chain of some thread.
ChainBy == \A s \in Superpage : zone[s] = "chain" => by[s] \in Thread

LEMMA ChainByStep ==
  ASSUME IInv, ChainBy, [Next]_vars
  PROVE  ChainBy'
<1> Types /\ \A u \in Thread : ThreadOK(u)
  BY DEF IInv, TypeOK
<1>1. ASSUME NEW t \in Thread,
             \/ A_Read(t) \/ A_Walk(t) \/ A_Link(t) \/ A_Set(t) \/ A_Dec(t)
             \/ F_Start(t) \/ T_Start(t) \/ F_Inc(t) \/ F_Link(t)
             \/ T_Clear(t)
      PROVE  ChainBy'
  BY <1>1 DEF A_Read, A_Walk, A_Link, A_Set, A_Dec, F_Start, T_Start, F_Inc,
         F_Link, T_Clear, ChainBy, spVars, listVars
<1>2. ASSUME NEW t \in Thread, A_Pop(t) \/ A_Map(t) PROVE ChainBy'
  BY <1>2 DEF A_Pop, A_Map, Types, ChainBy
<1>3. ASSUME NEW t \in Thread, A_Rest(t) \/ A_Push(t) PROVE ChainBy'
  BY <1>3 DEF A_Rest, A_Push, PutBack, ChainBy
<1>4. ASSUME NEW t \in Thread, F_Test(t) \/ F_Cas(t) PROVE ChainBy'
  BY <1>4 DEF F_Test, F_Cas, LetGo, Types, ChainBy
<1>5. CASE UNCHANGED vars
  BY <1>5 DEF vars, spVars, ChainBy
<1> QED BY <1>1, <1>2, <1>3, <1>4, <1>5 DEF Next, Step

LEMMA RankSays ==
  ASSUME IInv, ChainPc, ChainBy, Ranked
  PROVE  ListIntact
<1> Types /\ HeadOK /\ ListOK /\ ChainOK /\ \A u \in Thread : ThreadOK(u)
  BY DEF IInv, TypeOK
<1> PICK r \in [Superpage -> Nat] : ListRank(r) /\ ChainRank(r)
  BY DEF Ranked
<1> DEFINE L == {s \in Superpage : zone[s] = "list"}
           C(t) == {s \in Superpage : Chained(t, s)}
<1>1. \A u \in Thread, s \in Superpage : OnTrial(u, s) => Chained(u, s)
  BY DEF OnTrial, ThreadOK, RestPc
<1>2. \A s \in L : Link(s) = next[s]
  BY <1>1 DEF Link, Chained
<1>3. \A t \in Thread : \A s \in C(t) :
        Link(s) = IF OnTrial(t, s) THEN NULL ELSE next[s]
  BY <1>1 DEF Link, Chained
<1>4. L \in SUBSET Superpage /\ \A t \in Thread : C(t) \in SUBSET Superpage
  OBVIOUS
<1>5. \A s \in Superpage : next[s] # NULL => next[s] \in Superpage
  BY DEF Types, Ptr
<1>6. Climbs(L, r)
  BY <1>2, <1>5 DEF Climbs, ListRank, ListOK
<1>7. \A t \in Thread : Climbs(C(t), r)
  BY <1>3, <1>5 DEF Climbs, ChainRank, ChainOK
<1>8. ChainFrom(g_free_sp_list) = L
  <2>1. g_free_sp_list \in Ptr /\ (g_free_sp_list # NULL => g_free_sp_list \in L)
    BY DEF Types, HeadOK, Ptr
  <2>2. \A s \in L : r[s] = 0 <=> s = g_free_sp_list
    BY DEF ListRank
  <2>3. \A s \in L : r[s] > 0 => \E q \in L : Link(q) = s
    BY <1>2 DEF ListRank
  <2> HIDE DEF L
  <2> QED BY <1>4, <1>6, <2>1, <2>2, <2>3, FromHead
<1>9. ASSUME NEW t \in Thread, pc[t] \in RestPc
      PROVE  C(t) = ChainFrom(Rest(t))
  <2>1. PICK p : p = Rest(t)
    OBVIOUS
  <2>2. p \in Ptr /\ (p # NULL => p \in C(t))
    <3>1. CASE pc[t] = "a_rest"
      BY <1>5, <2>1, <3>1 DEF Rest, ThreadOK, RestOK, RestPc, Own, Ptr
    <3>2. CASE pc[t] \in RestPc \ {"a_rest"}
      BY <2>1, <3>2 DEF Rest, ThreadOK, RestOK, RestPc, Ptr
    <3> QED BY <1>9, <3>1, <3>2
  <2>3. \A s \in C(t) : r[s] = 0 <=> s = p
    BY <2>1 DEF ChainRank
  <2>4. \A s \in C(t) : r[s] > 0 => \E q \in C(t) : Link(q) = s
    BY <1>3 DEF ChainRank
  <2>5. C(t) \in SUBSET Superpage /\ Climbs(C(t), r)
    BY <1>7
  <2> HIDE DEF C
  <2> QED BY <2>1, <2>2, <2>3, <2>4, <2>5, FromHead
<1>10. ASSUME NEW t \in Thread, pc[t] \notin RestPc PROVE C(t) = {}
  BY <1>10 DEF ChainPc
<1>11. ASSUME NEW s \in Superpage, zone[s] \in {"list", "chain"}
       PROVE  s \notin ChainFrom(Link(s))
  <2>1. CASE zone[s] = "list"
    <3>1. s \in L
      BY <2>1
    <3> HIDE DEF L
    <3> QED BY <1>4, <1>6, <3>1, NotBack
  <2>2. CASE zone[s] = "chain"
    <3>1. PICK t \in Thread : s \in C(t)
      BY <2>2 DEF Chained, ChainBy
    <3>2. C(t) \in SUBSET Superpage /\ Climbs(C(t), r)
      BY <1>7
    <3> HIDE DEF C
    <3> QED BY <3>1, <3>2, NotBack
  <2> QED BY <1>11, <2>1, <2>2
<1> QED BY <1>8, <1>9, <1>10, <1>11 DEF ListIntact

(* Pop-all and push lose no superpage and enter none twice: the list and   *)
(* each popped chain are what their heads lead to, and the walk of         *)
(* sph_alloc along next ends, for any number of threads and superpages.    *)
THEOREM ListStaysIntact == Spec => []ListIntact
<1> DEFINE Inv == ChainPc /\ ChainBy /\ Ranked
<1>1. Init => Inv
  BY RankInit DEF Init, ChainBy
<1>2. IInv /\ Inv /\ [Next]_vars => Inv'
  BY ChainPcStep, ChainByStep, RankStep
<1>3. IInv /\ Inv => ListIntact
  BY RankSays
<1> HIDE DEF Inv
<1> QED
  BY <1>1, <1>2, <1>3, Inductive, PTL DEF Spec

----------------------------------------------------------------------------
(* The hazard pointers, as MCLists puts them beside that list              *)

Proved == INSTANCE HazardPtr_proof
          WITH Superpage <- HazardSp, pc <- hppc, sph <- target

(* No hazard pointer and no thread id ever has two owners, whatever the    *)
(* interleaving of xchg, the linking of pages and the ends of threads.     *)
THEOREM OneEach == Proved!ConstantsOK /\ Proved!Spec => []OneThreadEach
<1>1. Proved!OneThreadEach => OneThreadEach
  BY DEF OneThreadEach, Hazard!OneThreadEach, Proved!OneThreadEach,
         Hazard!Held, Proved!Held, Hazard!Cardinality, Proved!Cardinality
<1> QED BY <1>1, Proved!OneEach, PTL

(* The list that threads push their pages to without a lock ends, and has  *)
(* every hazard pointer on it.                                             *)
THEOREM ListHasAll == Proved!ConstantsOK /\ Proved!Spec => []ListComplete
<1>1. Proved!ListComplete => ListComplete
  BY DEF ListComplete, Hazard!ListComplete, Proved!ListComplete,
         Hazard!Known, Proved!Known, Hazard!Listed, Proved!Listed,
         Hazard!Hp, Proved!Hp, Hazard!PageAt, Proved!PageAt,
         Hazard!Last, Proved!Last,
         Hazard!Threads, Proved!Threads,
         Hazard!Cardinality, Proved!Cardinality
<1> QED BY <1>1, Proved!ListHasAll, PTL

(* num_free comes right: it is the number of inactive hazard pointers, but *)
(* for the threads between an access and the one to num_free.              *)
THEOREM CountOfFree == Proved!ConstantsOK /\ Proved!Spec => []FreeCounted
<1>1. Proved!FreeCounted => FreeCounted
  BY DEF FreeCounted, Hazard!FreeCounted, Proved!FreeCounted,
         Hazard!Known, Proved!Known, Hazard!PageAt, Proved!PageAt,
         Hazard!Last, Proved!Last,
         Hazard!Threads, Proved!Threads,
         Hazard!Cardinality, Proved!Cardinality
<1> QED BY <1>1, Proved!CountOfFree, PTL

(* A scan misses no thread that has the superpage in its hazard pointer    *)
(* since before the scan began.                                            *)
THEOREM ScanMissesNone == Proved!ConstantsOK /\ Proved!Spec => []NoneMissed
<1>1. Proved!NoneMissed => NoneMissed
  BY DEF NoneMissed, Hazard!NoneMissed, Proved!NoneMissed
<1> QED BY <1>1, Proved!ScanMissesNone, PTL
=============================================================================
