------------------------- MODULE SmallBlocks_proof -------------------------
(* Every small block is in one place, for any number of threads, page      *)
(* blocks, classes and blocks of a page block.                             *)
EXTENDS SmallBlocks, FiniteSetTheorems, SequenceTheorems, TLAPS

(* The places a block can be in.                                           *)
Nowhere        == <<"none", 0, 0>>
Program        == <<"program", 0, 0>>
ListAt(t, c)   == <<"list", t, c>>
RestAt(t)      == <<"rest", t, 0>>
RunAt(t)       == <<"run", t, 0>>
ChunkAt(t, c)  == <<"chunk", t, c>>
FreeAt(p)      == <<"header", p, 0>>
UnusedAt(p)    == <<"unallocated", p, 0>>
RemoteAt(p)    == <<"remote", p, 0>>

(* With w[b] the place of block b and r[b] its distance from the end: the  *)
(* blocks at l are n links from h on, and the last one has the link z.     *)
IsSeg(nx, w, r, l, h, n, z) ==
  /\ n \in Nat /\ h \in Ptr /\ (h = NULL <=> n = 0)
  /\ n > 0 => w[h] = l /\ r[h] = n
  /\ \A b \in Block : w[b] = l =>
       /\ r[b] \in 1 .. n
       /\ r[b] = 1 => nx[b] = z
       /\ r[b] > 1 => nx[b] \in Block /\ w[nx[b]] = l /\ r[nx[b]] = r[b] - 1
  /\ \A a, b \in Block : w[a] = l /\ w[b] = l /\ r[a] = r[b] => a = b

IsList(nx, w, r, l, h, n) == IsSeg(nx, w, r, l, h, n, NULL)

(* The n blocks at l are the ones from b on in its page block.             *)
IsChunk(w, l, b, n) ==
  /\ n \in Nat /\ b \in Ptr /\ (b = NULL <=> n = 0)
  /\ \A x \in Block : w[x] = l => n > 0 /\ x[1] = b[1] /\ x[2] - b[2] \in 0 .. n - 1
  /\ \A k \in 0 .. n - 1 : <<b[1], b[2] + k>> \in Block /\ w[<<b[1], b[2] + k>>] = l

(* Only at the places T anything changes.                                  *)
Kept(T, nx, w, r, nx2, w2, r2) ==
  \A b \in Block :
    /\ w[b] \notin T \/ w2[b] \notin T => w2[b] = w[b]
    /\ w[b] \notin T => nx2[b] = nx[b] /\ r2[b] = r[b]

LEMMA Blocks ==
  /\ NULL \notin Block
  /\ \A b \in Block : b = <<b[1], b[2]>> /\ b[1] \in Pb /\ b[2] \in Index /\ b[2] \in Nat
                      /\ b[1] \in Nat
  /\ \A p \in Pb, i \in Index : <<p, i>> \in Block
<1>1. Index \subseteq Nat
  <2>1. \A f \in Layouts, c \in Class : BLOCKS_PER_PBH[f][c] \in Nat
    BY ConstantsAssumption
  <2>2. ASSUME NEW i \in Index PROVE i \in Nat
    <3>1. PICK S \in {0 .. BLOCKS_PER_PBH[f][c] - 1 : f \in Layouts, c \in Class} :
            i \in S
      BY DEF Index
    <3>2. PICK f \in Layouts, c \in Class : S = 0 .. BLOCKS_PER_PBH[f][c] - 1
      BY <3>1
    <3> QED BY <2>1, <3>1, <3>2
  <2> QED BY <2>2
<1>2. Pb \subseteq Nat /\ NULL \notin Nat \X Nat
  BY ConstantsAssumption
<1>3. ASSUME NEW b \in Block
      PROVE  /\ b = <<b[1], b[2]>> /\ b[1] \in Pb /\ b[2] \in Index /\ b[2] \in Nat
             /\ b[1] \in Nat /\ b # NULL
  <2>1. PICK p \in Pb, i \in Index : b = <<p, i>>
    BY DEF Block
  <2> QED BY <1>1, <1>2, <2>1
<1> QED BY <1>1, <1>2, <1>3 DEF Block

LEMMA SegKept ==
  ASSUME NEW T, NEW nx, NEW w, NEW r, NEW nx2, NEW w2, NEW r2,
         Kept(T, nx, w, r, nx2, w2, r2),
         NEW l, l \notin T, NEW h, NEW n, NEW z, IsSeg(nx, w, r, l, h, n, z)
  PROVE  IsSeg(nx2, w2, r2, l, h, n, z)
<1>1. \A b \in Block : (w2[b] = l <=> w[b] = l)
  BY DEF Kept
<1>2. \A b \in Block : w[b] = l => nx2[b] = nx[b] /\ r2[b] = r[b]
  BY DEF Kept
<1>3. h \in Ptr /\ (n > 0 => h \in Block) /\ n \in Nat /\ (h = NULL <=> n = 0)
  BY DEF IsSeg, Ptr
<1>4. n > 0 => w2[h] = l /\ r2[h] = n
  BY <1>1, <1>2, <1>3 DEF IsSeg
<1>5. ASSUME NEW b \in Block, w2[b] = l
      PROVE  /\ r2[b] \in 1 .. n
             /\ r2[b] = 1 => nx2[b] = z
             /\ r2[b] > 1 => nx2[b] \in Block /\ w2[nx2[b]] = l /\ r2[nx2[b]] = r2[b] - 1
  BY <1>1, <1>2, <1>5 DEF IsSeg
<1>6. ASSUME NEW a \in Block, NEW b \in Block, w2[a] = l, w2[b] = l, r2[a] = r2[b]
      PROVE  a = b
  BY <1>1, <1>2, <1>6 DEF IsSeg
<1> QED BY <1>3, <1>4, <1>5, <1>6 DEF IsSeg

LEMMA ChunkKept ==
  ASSUME NEW T, NEW nx, NEW w, NEW r, NEW nx2, NEW w2, NEW r2,
         Kept(T, nx, w, r, nx2, w2, r2),
         NEW l, l \notin T, NEW b, NEW n, IsChunk(w, l, b, n)
  PROVE  IsChunk(w2, l, b, n)
<1>1. \A x \in Block : (w2[x] = l <=> w[x] = l)
  BY DEF Kept
<1> QED BY <1>1 DEF IsChunk

(* The blocks at m are those that were at l, but for those in D.           *)
Moved(nx, w, r, nx2, w2, r2, l, m, D) ==
  /\ \A b \in Block : w2[b] = m <=> w[b] = l /\ b \notin D
  /\ \A b \in Block : w[b] = l /\ b \notin D => nx2[b] = nx[b] /\ r2[b] = r[b]

LEMMA SegMoved ==
  ASSUME NEW nx, NEW w, NEW r, NEW nx2, NEW w2, NEW r2,
         NEW l, NEW m, NEW h, NEW n, NEW z, IsSeg(nx, w, r, l, h, n, z),
         Moved(nx, w, r, nx2, w2, r2, l, m, {})
  PROVE  IsSeg(nx2, w2, r2, m, h, n, z)
<1>1. /\ \A b \in Block : w2[b] = m <=> w[b] = l
      /\ \A b \in Block : w[b] = l => nx2[b] = nx[b] /\ r2[b] = r[b]
  BY DEF Moved
<1>3. h \in Ptr /\ (n > 0 => h \in Block) /\ n \in Nat /\ (h = NULL <=> n = 0)
  BY DEF IsSeg, Ptr
<1>4. n > 0 => w2[h] = m /\ r2[h] = n
  BY <1>1, <1>3 DEF IsSeg
<1>5. ASSUME NEW b \in Block, w2[b] = m
      PROVE  /\ r2[b] \in 1 .. n
             /\ r2[b] = 1 => nx2[b] = z
             /\ r2[b] > 1 => nx2[b] \in Block /\ w2[nx2[b]] = m /\ r2[nx2[b]] = r2[b] - 1
  BY <1>1, <1>5 DEF IsSeg
<1>6. ASSUME NEW a \in Block, NEW b \in Block, w2[a] = m, w2[b] = m, r2[a] = r2[b]
      PROVE  a = b
  BY <1>1, <1>6 DEF IsSeg
<1> QED BY <1>3, <1>4, <1>5, <1>6 DEF IsSeg

(* The first block goes.                                                   *)
LEMMA SegPopped ==
  ASSUME NEW nx, NEW w, NEW r, NEW nx2, NEW w2, NEW r2,
         NEW l, NEW m, NEW h \in Block, NEW n, IsList(nx, w, r, l, h, n),
         Moved(nx, w, r, nx2, w2, r2, l, m, {h})
  PROVE  n \in Nat \ {0} /\ IsList(nx2, w2, r2, m, nx[h], n - 1)
<1>0. /\ \A b \in Block : (w2[b] = m <=> w[b] = l /\ b # h)
      /\ \A b \in Block : w[b] = l /\ b # h => nx2[b] = nx[b] /\ r2[b] = r[b]
  BY DEF Moved
<1>1. n \in Nat \ {0} /\ w[h] = l /\ r[h] = n
  BY Blocks DEF IsList, IsSeg, Ptr
<1>2. \A b \in Block : w[b] = l /\ b # h => r[b] \in 1 .. n - 1
  BY <1>1 DEF IsList, IsSeg
<1>3. CASE n = 1
  <2>1. nx[h] = NULL
    BY <1>1, <1>3 DEF IsList, IsSeg
  <2>2. \A b \in Block : w2[b] # m
    BY <1>0, <1>2, <1>3
  <2> QED BY <1>1, <1>3, <2>1, <2>2 DEF IsList, IsSeg, Ptr
<1>4. CASE n > 1
  <2>1. nx[h] \in Block /\ w[nx[h]] = l /\ r[nx[h]] = n - 1
    BY <1>1, <1>4 DEF IsList, IsSeg
  <2>2. nx[h] # h
    BY <1>1, <2>1
  <2>3. w2[nx[h]] = m /\ r2[nx[h]] = n - 1
    BY <1>0, <2>1, <2>2
  <2>4. ASSUME NEW b \in Block, w2[b] = m
        PROVE  /\ r2[b] \in 1 .. n - 1
               /\ r2[b] = 1 => nx2[b] = NULL
               /\ r2[b] > 1 => nx2[b] \in Block /\ w2[nx2[b]] = m /\ r2[nx2[b]] = r2[b] - 1
    <3>1. w[b] = l /\ b # h /\ nx2[b] = nx[b] /\ r2[b] = r[b]
      BY <1>0, <2>4
    <3>2. r[b] \in 1 .. n - 1
      BY <1>2, <3>1
    <3>3. r[b] = 1 => nx[b] = NULL
      BY <3>1 DEF IsList, IsSeg
    <3>4. r[b] > 1 => nx[b] \in Block /\ w[nx[b]] = l /\ r[nx[b]] = r[b] - 1
      BY <3>1 DEF IsList, IsSeg
    <3>5. r[b] > 1 => nx[b] # h
      BY <1>1, <3>2, <3>4
    <3> QED BY <1>0, <2>4, <3>1, <3>2, <3>3, <3>4, <3>5
  <2>5. ASSUME NEW a \in Block, NEW b \in Block, w2[a] = m, w2[b] = m, r2[a] = r2[b]
        PROVE  a = b
    BY <1>0, <2>5 DEF IsList, IsSeg
  <2>6. n - 1 \in Nat /\ nx[h] # NULL /\ nx[h] \in Ptr
    BY <1>1, <2>1, Blocks DEF Ptr
  <2> QED BY <1>4, <2>3, <2>4, <2>5, <2>6 DEF IsList, IsSeg
<1> QED BY <1>1, <1>3, <1>4

(* Block x comes in front of the n that start with h.                      *)
PushedOn(nx, w, r, nx2, w2, r2, l, x, h, n) ==
  /\ w[x] # l /\ nx2[x] = h /\ r2[x] = n + 1
  /\ \A b \in Block : w2[b] = l <=> w[b] = l \/ b = x
  /\ \A b \in Block : w[b] = l => nx2[b] = nx[b] /\ r2[b] = r[b]

LEMMA SegPushed ==
  ASSUME NEW nx, NEW w, NEW r, NEW nx2, NEW w2, NEW r2,
         NEW l, NEW x \in Block, NEW h, NEW n, IsList(nx, w, r, l, h, n),
         PushedOn(nx, w, r, nx2, w2, r2, l, x, h, n)
  PROVE  IsList(nx2, w2, r2, l, x, n + 1)
<1> USE DEF PushedOn
<1>1. n \in Nat /\ h \in Ptr /\ (h = NULL <=> n = 0)
      /\ (n > 0 => h \in Block /\ w[h] = l /\ r[h] = n)
  BY DEF IsList, IsSeg, Ptr
<1>2. \A b \in Block : w[b] = l => r[b] \in 1 .. n
  BY DEF IsList, IsSeg
<1>3. ASSUME NEW b \in Block, w2[b] = l, b # x
      PROVE  /\ r2[b] \in 1 .. n + 1
             /\ r2[b] = 1 => nx2[b] = NULL
             /\ r2[b] > 1 => nx2[b] \in Block /\ w2[nx2[b]] = l /\ r2[nx2[b]] = r2[b] - 1
  <2>1. w[b] = l /\ nx2[b] = nx[b] /\ r2[b] = r[b]
    BY <1>3
  <2>2. /\ r[b] = 1 => nx[b] = NULL
        /\ r[b] > 1 => nx[b] \in Block /\ w[nx[b]] = l /\ r[nx[b]] = r[b] - 1
    BY <2>1 DEF IsList, IsSeg
  <2> QED BY <1>1, <1>2, <2>1, <2>2
<1>4. /\ r2[x] = 1 => nx2[x] = NULL
      /\ r2[x] > 1 => nx2[x] \in Block /\ w2[nx2[x]] = l /\ r2[nx2[x]] = r2[x] - 1
  BY <1>1
<1>5. ASSUME NEW a \in Block, NEW b \in Block, w2[a] = l, w2[b] = l, r2[a] = r2[b]
      PROVE  a = b
  <2>1. CASE a # x /\ b # x
    BY <1>5, <2>1 DEF IsList, IsSeg
  <2>2. CASE a = x \/ b = x
    BY <1>1, <1>2, <1>5, <2>2
  <2> QED BY <2>1, <2>2
<1>6. x \in Ptr /\ x # NULL /\ w2[x] = l /\ n + 1 \in Nat
  BY <1>1, Blocks DEF Ptr
<1> QED BY <1>1, <1>3, <1>4, <1>5, <1>6 DEF IsList, IsSeg

(* The blocks at k come in front of the n at l.                            *)
JoinedOn(nx, w, r, nx2, w2, r2, k, l, n) ==
  /\ \A b \in Block : w2[b] = l <=> w[b] = l \/ w[b] = k
  /\ \A b \in Block : w[b] = l => nx2[b] = nx[b] /\ r2[b] = r[b]
  /\ \A b \in Block : w[b] = k => r2[b] = r[b] + n

LEMMA SegJoined ==
  ASSUME NEW nx, NEW w, NEW r, NEW nx2, NEW w2, NEW r2,
         NEW k, NEW l, k # l,
         NEW f, NEW m, m # 0,
         NEW h, NEW n, IsList(nx, w, r, l, h, n),
         IsSeg(nx2, w, r, k, f, m, h),
         JoinedOn(nx, w, r, nx2, w2, r2, k, l, n)
  PROVE  IsList(nx2, w2, r2, l, f, m + n)
<1> USE DEF JoinedOn
<1>1. n \in Nat /\ h \in Ptr /\ (h = NULL <=> n = 0)
      /\ (n > 0 => h \in Block /\ w[h] = l /\ r[h] = n)
  BY DEF IsList, IsSeg, Ptr
<1>2. \A b \in Block : w[b] = l => r[b] \in 1 .. n
  BY DEF IsList, IsSeg
<1>3. \A b \in Block : w[b] = k => r[b] \in 1 .. m
  BY DEF IsSeg
<1>4. m \in Nat \ {0} /\ f \in Block /\ f \in Ptr /\ f # NULL /\ w[f] = k /\ r[f] = m
  BY Blocks DEF IsSeg, Ptr
<1>5. ASSUME NEW b \in Block, w[b] = l
      PROVE  /\ r2[b] \in 1 .. m + n
             /\ r2[b] = 1 => nx2[b] = NULL
             /\ r2[b] > 1 => nx2[b] \in Block /\ w2[nx2[b]] = l /\ r2[nx2[b]] = r2[b] - 1
  <2>1. nx2[b] = nx[b] /\ r2[b] = r[b]
    BY <1>5
  <2>2. /\ r[b] = 1 => nx[b] = NULL
        /\ r[b] > 1 => nx[b] \in Block /\ w[nx[b]] = l /\ r[nx[b]] = r[b] - 1
    BY <1>5 DEF IsList, IsSeg
  <2> QED BY <1>1, <1>2, <1>4, <1>5, <2>1, <2>2
<1>6. ASSUME NEW b \in Block, w[b] = k
      PROVE  /\ r2[b] \in 1 .. m + n
             /\ r2[b] = 1 => nx2[b] = NULL
             /\ r2[b] > 1 => nx2[b] \in Block /\ w2[nx2[b]] = l /\ r2[nx2[b]] = r2[b] - 1
  <2>1. r2[b] = r[b] + n /\ r[b] \in 1 .. m
    BY <1>3, <1>6
  <2>2. /\ r[b] = 1 => nx2[b] = h
        /\ r[b] > 1 => nx2[b] \in Block /\ w[nx2[b]] = k /\ r[nx2[b]] = r[b] - 1
    BY <1>6 DEF IsSeg
  <2>3. CASE r[b] = 1
    BY <1>1, <1>4, <2>1, <2>2, <2>3
  <2>4. CASE r[b] > 1
    <3>1. nx2[b] \in Block /\ w[nx2[b]] = k /\ r[nx2[b]] = r[b] - 1
      BY <2>2, <2>4
    <3>2. w2[nx2[b]] = l /\ r2[nx2[b]] = r[b] - 1 + n
      BY <3>1
    <3> QED BY <1>1, <1>4, <2>1, <2>4, <3>1, <3>2
  <2> QED BY <2>1, <2>3, <2>4
<1>7. ASSUME NEW a \in Block, NEW b \in Block, w2[a] = l, w2[b] = l, r2[a] = r2[b]
      PROVE  a = b
  <2>1. CASE w[a] = l /\ w[b] = l
    BY <1>7, <2>1 DEF IsList, IsSeg
  <2>2. CASE w[a] = k /\ w[b] = k
    <3>1. r[a] = r[b]
      BY <1>1, <1>3, <1>7, <2>2
    <3> QED BY <2>2, <3>1 DEF IsSeg
  <2>3. CASE w[a] = k /\ w[b] = l
    BY <1>1, <1>2, <1>3, <1>7, <2>3
  <2>4. CASE w[a] = l /\ w[b] = k
    BY <1>1, <1>2, <1>3, <1>7, <2>4
  <2> QED BY <1>7, <2>1, <2>2, <2>3, <2>4
<1>8. w2[f] = l /\ r2[f] = m + n /\ m + n \in Nat /\ m + n # 0
  BY <1>1, <1>4
<1>9. \A b \in Block : w2[b] = l =>
        /\ r2[b] \in 1 .. m + n
        /\ r2[b] = 1 => nx2[b] = NULL
        /\ r2[b] > 1 => nx2[b] \in Block /\ w2[nx2[b]] = l /\ r2[nx2[b]] = r2[b] - 1
  BY <1>5, <1>6
<1> QED BY <1>4, <1>7, <1>8, <1>9 DEF IsList, IsSeg

(* The first m of n blocks go from l to k.                                 *)
SplitOff(w, r, w2, r2, k, l, m, n) ==
  /\ \A b \in Block : w[b] # k
  /\ \A b \in Block : w2[b] = k <=> w[b] = l /\ r[b] > n - m
  /\ \A b \in Block : w2[b] = l <=> w[b] = l /\ r[b] <= n - m
  /\ \A b \in Block : w2[b] = k => r2[b] = r[b] - (n - m)
  /\ \A b \in Block : w2[b] = l => r2[b] = r[b]

LEMMA SegSplit ==
  ASSUME NEW nx, NEW w, NEW r, NEW w2, NEW r2,
         NEW k, NEW l, k # l, NEW h, NEW n, IsList(nx, w, r, l, h, n),
         NEW m \in 1 .. n,
         SplitOff(w, r, w2, r2, k, l, m, n),
         NEW y \in Block, w[y] = l, r[y] = n - m + 1
  PROVE  /\ IsSeg(nx, w2, r2, k, h, m, nx[y]) /\ w2[y] = k /\ r2[y] = 1
         /\ IsList(nx, w2, r2, l, nx[y], n - m)
<1> USE DEF SplitOff
<1>1. n \in Nat /\ h \in Ptr /\ h # NULL /\ n # 0 /\ h \in Block /\ w[h] = l /\ r[h] = n
      /\ m \in Nat /\ n - m \in Nat
  BY DEF IsList, IsSeg, Ptr
<1>2. \A b \in Block : w[b] = l =>
        /\ r[b] \in 1 .. n
        /\ r[b] = 1 => nx[b] = NULL
        /\ r[b] > 1 => nx[b] \in Block /\ w[nx[b]] = l /\ r[nx[b]] = r[b] - 1
  BY DEF IsList, IsSeg
<1>3. \A a, b \in Block : w[a] = l /\ w[b] = l /\ r[a] = r[b] => a = b
  BY DEF IsList, IsSeg
<1>4. w2[y] = k /\ r2[y] = 1 /\ w2[h] = k /\ r2[h] = m
  BY <1>1
<1>5. ASSUME NEW b \in Block, w2[b] = k
      PROVE  /\ r2[b] \in 1 .. m
             /\ r2[b] = 1 => nx[b] = nx[y]
             /\ r2[b] > 1 => nx[b] \in Block /\ w2[nx[b]] = k /\ r2[nx[b]] = r2[b] - 1
  <2>1. w[b] = l /\ r[b] > n - m /\ r2[b] = r[b] - (n - m) /\ r[b] \in 1 .. n
    BY <1>2, <1>5
  <2>2. r2[b] = 1 => b = y
    BY <1>1, <1>3, <2>1
  <2>3. CASE r2[b] > 1
    <3>1. nx[b] \in Block /\ w[nx[b]] = l /\ r[nx[b]] = r[b] - 1 /\ r[nx[b]] > n - m
      BY <1>1, <1>2, <2>1, <2>3
    <3> QED BY <1>1, <2>1, <2>3, <3>1
  <2> QED BY <1>1, <2>1, <2>2, <2>3
<1>6. ASSUME NEW b \in Block, w2[b] = l
      PROVE  /\ r2[b] \in 1 .. n - m
             /\ r2[b] = 1 => nx[b] = NULL
             /\ r2[b] > 1 => nx[b] \in Block /\ w2[nx[b]] = l /\ r2[nx[b]] = r2[b] - 1
  <2>1. w[b] = l /\ r[b] <= n - m /\ r2[b] = r[b] /\ r[b] \in 1 .. n
    BY <1>2, <1>6
  <2>2. CASE r2[b] > 1
    <3>1. nx[b] \in Block /\ w[nx[b]] = l /\ r[nx[b]] = r[b] - 1 /\ r[nx[b]] <= n - m
      BY <1>1, <1>2, <2>1, <2>2
    <3> QED BY <1>1, <2>1, <2>2, <3>1
  <2> QED BY <1>1, <1>2, <2>1, <2>2
<1>7. \A a, b \in Block : w2[a] = k /\ w2[b] = k /\ r2[a] = r2[b] => a = b
  BY <1>1, <1>2, <1>3
<1>8. \A a, b \in Block : w2[a] = l /\ w2[b] = l /\ r2[a] = r2[b] => a = b
  BY <1>3
<1>9. IsSeg(nx, w2, r2, k, h, m, nx[y])
  BY <1>1, <1>4, <1>5, <1>7 DEF IsSeg
<1>10. IsList(nx, w2, r2, l, nx[y], n - m)
  <2>1. CASE n = m
    <3>1. nx[y] = NULL
      BY <1>1, <1>2, <2>1
    <3>2. \A b \in Block : w2[b] # l
      BY <1>1, <1>2, <2>1
    <3> QED BY <1>1, <2>1, <3>1, <3>2 DEF IsList, IsSeg, Ptr
  <2>2. CASE n # m
    <3>1. nx[y] \in Block /\ w[nx[y]] = l /\ r[nx[y]] = n - m
      BY <1>1, <1>2, <2>2
    <3>2. w2[nx[y]] = l /\ r2[nx[y]] = n - m /\ nx[y] \in Ptr /\ nx[y] # NULL
      BY <1>1, <3>1, Blocks DEF Ptr
    <3>3. n - m # 0 /\ n - m \in Nat
      BY <1>1, <2>2
    <3> HIDE DEF IsList
    <3> QED BY <1>6, <1>8, <3>2, <3>3 DEF IsList, IsSeg
  <2> QED BY <2>1, <2>2
<1> QED BY <1>4, <1>9, <1>10

----------------------------------------------------------------------------
(* All the blocks at once                                                  *)

Spot ==
  {Nowhere, Program}
  \cup {ListAt(t, c) : t \in Thread, c \in Class}
  \cup {ChunkAt(t, c) : t \in Thread, c \in Class}
  \cup {RestAt(t) : t \in Thread} \cup {RunAt(t) : t \in Thread}
  \cup {FreeAt(p) : p \in Pb} \cup {UnusedAt(p) : p \in Pb}
  \cup {RemoteAt(p) : p \in Pb}

\* The link to what a remote list holds.
WordHead(p, v) == IF v.cnt = 0 THEN NULL ELSE <<p, v.head>>

HeapOK(nx, w, r, t, c, h) ==
  /\ IsList(nx, w, r, ListAt(t, c), h.free_blk_list, h.cnt_free)
  /\ IsChunk(w, ChunkAt(t, c), h.ptr_to_unused, h.cnt_unused)

HdrOK(nx, w, r, p, h) ==
  /\ IsList(nx, w, r, FreeAt(p), h.free_list, h.cnt_free)
  /\ IsList(nx, w, r, RemoteAt(p), WordHead(p, h.remote), h.remote.cnt)
  /\ IsChunk(w, UnusedAt(p), h.unallocated, h.cnt_unused)

RestOK(nx, w, r, t, h) == \E n : IsList(nx, w, r, RestAt(t), h, n)

\* The run q of thread t, if it has one in hand.  In q.link is what it has
\* written into the last block, if it has.
HandOK(nx, w, r, t, q) ==
  IF q.num = 0 THEN \A b \in Block : w[b] # RunAt(t)
  ELSE /\ q.last \in Block /\ w[q.last] = RunAt(t) /\ r[q.last] = 1
       /\ IsSeg(nx, w, r, RunAt(t), q.first, q.num, nx[q.last])
       /\ q.link \subseteq {nx[q.last]}

\* With headers hd and bp[c] blocks to a page block of class c.
InCarved(hd, bp, b) ==
  hd[b[1]].sizeclass # 0 /\ b[2] \in 0 .. bp[hd[b[1]].sizeclass] - 1

\* What a place says of a block.
Sited(w, hd, R, o, bp, b) ==
  /\ w[b] = Nowhere <=> ~InCarved(hd, bp, b)
  /\ w[b] = Program <=> b \in o
  /\ \A p \in Pb : w[b] \in {FreeAt(p), UnusedAt(p), RemoteAt(p)} => b[1] = p
  /\ \A t \in Thread : w[b] = RunAt(t) => b[1] = R[t].first[1]
  /\ \A t \in Thread, c \in Class :
       w[b] \in {ListAt(t, c), ChunkAt(t, c)} => hd[b[1]].sizeclass = c

\* Links nx, heaps hp, headers hd, runs R, lists S that are being returned and
\* the blocks o of the program agree on where each block is: at w.
Placing(w, r, nx, hp, hd, R, S, o, bp) ==
  /\ w \in [Block -> Spot] /\ r \in [Block -> Nat]
  /\ \A t \in Thread, c \in Class : HeapOK(nx, w, r, t, c, hp[t][c])
  /\ \A p \in Pb : HdrOK(nx, w, r, p, hd[p])
  /\ \A t \in Thread : RestOK(nx, w, r, t, S[t]) /\ HandOK(nx, w, r, t, R[t])
  /\ \A b \in Block : Sited(w, hd, R, o, bp, b)

Placed(nx, hp, hd, R, S, o, bp) ==
  \E w, r : Placing(w, r, nx, hp, hd, R, S, o, bp)

LEMMA Spots ==
  /\ Nowhere # Program
  /\ \A t \in Thread, c \in Class :
       /\ ListAt(t, c) \notin {Nowhere, Program} /\ ChunkAt(t, c) \notin {Nowhere, Program}
       /\ RestAt(t) \notin {Nowhere, Program} /\ RunAt(t) \notin {Nowhere, Program}
       /\ ListAt(t, c) \in Spot /\ ChunkAt(t, c) \in Spot
  /\ \A p \in Pb : /\ {FreeAt(p), UnusedAt(p), RemoteAt(p)} \cap {Nowhere, Program} = {}
                   /\ {FreeAt(p), UnusedAt(p), RemoteAt(p)} \subseteq Spot
  /\ \A t \in Thread : RestAt(t) \in Spot /\ RunAt(t) \in Spot
  /\ Nowhere \in Spot /\ Program \in Spot
  /\ \A t, u \in Thread, c, d \in Class :
       /\ ListAt(t, c) # ChunkAt(u, d) /\ ListAt(t, c) # RestAt(u) /\ ListAt(t, c) # RunAt(u)
       /\ ChunkAt(t, c) # RestAt(u) /\ ChunkAt(t, c) # RunAt(u) /\ RestAt(t) # RunAt(u)
       /\ ListAt(t, c) = ListAt(u, d) => t = u /\ c = d
       /\ ChunkAt(t, c) = ChunkAt(u, d) => t = u /\ c = d
       /\ RestAt(t) = RestAt(u) => t = u
       /\ RunAt(t) = RunAt(u) => t = u
  /\ \A p, q \in Pb :
       /\ FreeAt(p) # UnusedAt(q) /\ FreeAt(p) # RemoteAt(q) /\ UnusedAt(p) # RemoteAt(q)
       /\ FreeAt(p) = FreeAt(q) => p = q
       /\ UnusedAt(p) = UnusedAt(q) => p = q
       /\ RemoteAt(p) = RemoteAt(q) => p = q
  /\ \A t \in Thread, c \in Class, p \in Pb :
       {ListAt(t, c), ChunkAt(t, c), RestAt(t), RunAt(t)}
         \cap {FreeAt(p), UnusedAt(p), RemoteAt(p)} = {}
<1> USE DEF Nowhere, Program, ListAt, ChunkAt, RestAt, RunAt, FreeAt, UnusedAt, RemoteAt
<1>1. Nowhere # Program
  OBVIOUS
<1>2. \A t \in Thread, c \in Class :
       /\ ListAt(t, c) \notin {Nowhere, Program} /\ ChunkAt(t, c) \notin {Nowhere, Program}
       /\ RestAt(t) \notin {Nowhere, Program} /\ RunAt(t) \notin {Nowhere, Program}
  OBVIOUS
<1>3. \A t \in Thread, c \in Class : ListAt(t, c) \in Spot /\ ChunkAt(t, c) \in Spot
  BY DEF Spot
<1>4. \A p \in Pb : {FreeAt(p), UnusedAt(p), RemoteAt(p)} \cap {Nowhere, Program} = {}
  OBVIOUS
<1>5. \A p \in Pb : {FreeAt(p), UnusedAt(p), RemoteAt(p)} \subseteq Spot
  BY DEF Spot
<1>6. \A t \in Thread : RestAt(t) \in Spot /\ RunAt(t) \in Spot
  BY DEF Spot
<1>7. Nowhere \in Spot /\ Program \in Spot
  BY DEF Spot
<1>8. \A t, u \in Thread, c, d \in Class :
       /\ ListAt(t, c) # ChunkAt(u, d) /\ ListAt(t, c) # RestAt(u) /\ ListAt(t, c) # RunAt(u)
       /\ ChunkAt(t, c) # RestAt(u) /\ ChunkAt(t, c) # RunAt(u) /\ RestAt(t) # RunAt(u)
       /\ ListAt(t, c) = ListAt(u, d) => t = u /\ c = d
       /\ ChunkAt(t, c) = ChunkAt(u, d) => t = u /\ c = d
       /\ RestAt(t) = RestAt(u) => t = u
       /\ RunAt(t) = RunAt(u) => t = u
  OBVIOUS
<1>9. \A p, q \in Pb :
       /\ FreeAt(p) # UnusedAt(q) /\ FreeAt(p) # RemoteAt(q) /\ UnusedAt(p) # RemoteAt(q)
       /\ FreeAt(p) = FreeAt(q) => p = q
       /\ UnusedAt(p) = UnusedAt(q) => p = q
       /\ RemoteAt(p) = RemoteAt(q) => p = q
  OBVIOUS
<1>10. \A t \in Thread, c \in Class, p \in Pb :
       {ListAt(t, c), ChunkAt(t, c), RestAt(t), RunAt(t)}
         \cap {FreeAt(p), UnusedAt(p), RemoteAt(p)} = {}
  OBVIOUS
<1> QED BY ONLY <1>1, <1>2, <1>3, <1>4, <1>5, <1>6, <1>7, <1>8, <1>9, <1>10

\* Two lists of a heap, or two headers, of the same blocks.
SameList(h, k) ==
  /\ h.free_blk_list = k.free_blk_list /\ h.cnt_free = k.cnt_free
  /\ h.ptr_to_unused = k.ptr_to_unused /\ h.cnt_unused = k.cnt_unused

SameHdr(h, k) ==
  /\ h.free_list = k.free_list /\ h.cnt_free = k.cnt_free /\ h.remote = k.remote
  /\ h.unallocated = k.unallocated /\ h.cnt_unused = k.cnt_unused

\* All heaps but the list of class c of thread t are the same.
HeapsBut(t, c, hp, hp2) ==
  \A u \in Thread, d \in Class : u # t \/ d # c => SameList(hp2[u][d], hp[u][d])

LEMMA Frame ==
  ASSUME NEW T, NEW nx, NEW w, NEW r, NEW nx2, NEW w2, NEW r2,
         Kept(T, nx, w, r, nx2, w2, r2),
         NEW hp, NEW hd, NEW R, NEW S, NEW o, NEW bp,
         Placing(w, r, nx, hp, hd, R, S, o, bp)
  PROVE  /\ \A t \in Thread, c \in Class : \A h :
              /\ ListAt(t, c) \notin T /\ ChunkAt(t, c) \notin T
              /\ SameList(h, hp[t][c])
              => HeapOK(nx2, w2, r2, t, c, h)
         /\ \A p \in Pb : \A h :
              /\ FreeAt(p) \notin T /\ RemoteAt(p) \notin T /\ UnusedAt(p) \notin T
              /\ SameHdr(h, hd[p])
              => HdrOK(nx2, w2, r2, p, h)
         /\ \A t \in Thread : \A h :
              RestAt(t) \notin T /\ h = S[t] => RestOK(nx2, w2, r2, t, h)
         /\ \A t \in Thread : \A q :
              RunAt(t) \notin T /\ q = R[t] => HandOK(nx2, w2, r2, t, q)
<1>1. ASSUME NEW t \in Thread, NEW c \in Class, NEW h,
             ListAt(t, c) \notin T, ChunkAt(t, c) \notin T, SameList(h, hp[t][c])
      PROVE  HeapOK(nx2, w2, r2, t, c, h)
  <2>1. /\ IsSeg(nx, w, r, ListAt(t, c), h.free_blk_list, h.cnt_free, NULL)
        /\ IsChunk(w, ChunkAt(t, c), h.ptr_to_unused, h.cnt_unused)
    BY <1>1 DEF Placing, HeapOK, IsList, SameList
  <2>2. IsSeg(nx2, w2, r2, ListAt(t, c), h.free_blk_list, h.cnt_free, NULL)
    BY <1>1, <2>1, SegKept
  <2>3. IsChunk(w2, ChunkAt(t, c), h.ptr_to_unused, h.cnt_unused)
    BY <1>1, <2>1, ChunkKept
  <2> QED BY <2>2, <2>3 DEF HeapOK, IsList
<1>2. ASSUME NEW p \in Pb, NEW h, FreeAt(p) \notin T, RemoteAt(p) \notin T,
             UnusedAt(p) \notin T, SameHdr(h, hd[p])
      PROVE  HdrOK(nx2, w2, r2, p, h)
  <2>1. /\ IsSeg(nx, w, r, FreeAt(p), h.free_list, h.cnt_free, NULL)
        /\ IsSeg(nx, w, r, RemoteAt(p), WordHead(p, h.remote), h.remote.cnt, NULL)
        /\ IsChunk(w, UnusedAt(p), h.unallocated, h.cnt_unused)
    BY <1>2 DEF Placing, HdrOK, IsList, SameHdr
  <2>2. IsSeg(nx2, w2, r2, FreeAt(p), h.free_list, h.cnt_free, NULL)
    BY <1>2, <2>1, SegKept
  <2>3. IsSeg(nx2, w2, r2, RemoteAt(p), WordHead(p, h.remote), h.remote.cnt, NULL)
    BY <1>2, <2>1, SegKept
  <2>4. IsChunk(w2, UnusedAt(p), h.unallocated, h.cnt_unused)
    BY <1>2, <2>1, ChunkKept
  <2> QED BY <2>2, <2>3, <2>4 DEF HdrOK, IsList
<1>3. ASSUME NEW t \in Thread, RestAt(t) \notin T
      PROVE  RestOK(nx2, w2, r2, t, S[t])
  <2>1. PICK n : IsSeg(nx, w, r, RestAt(t), S[t], n, NULL)
    BY DEF Placing, RestOK, IsList
  <2>2. IsSeg(nx2, w2, r2, RestAt(t), S[t], n, NULL)
    BY <1>3, <2>1, SegKept
  <2> QED BY <2>2 DEF RestOK, IsList
<1>4. ASSUME NEW t \in Thread, RunAt(t) \notin T
      PROVE  HandOK(nx2, w2, r2, t, R[t])
  <2>1. HandOK(nx, w, r, t, R[t])
    BY DEF Placing
  <2>2. CASE R[t].num = 0
    BY <1>4, <2>1, <2>2 DEF HandOK, Kept
  <2>3. CASE R[t].num # 0
    <3>1. /\ R[t].last \in Block /\ w[R[t].last] = RunAt(t) /\ r[R[t].last] = 1
          /\ IsSeg(nx, w, r, RunAt(t), R[t].first, R[t].num, nx[R[t].last])
          /\ R[t].link \subseteq {nx[R[t].last]}
      BY <2>1, <2>3 DEF HandOK
    <3>2. w2[R[t].last] = RunAt(t) /\ r2[R[t].last] = 1 /\ nx2[R[t].last] = nx[R[t].last]
      BY <1>4, <3>1 DEF Kept
    <3>3. IsSeg(nx2, w2, r2, RunAt(t), R[t].first, R[t].num, nx[R[t].last])
      BY <1>4, <3>1, SegKept
    <3> QED BY <2>3, <3>1, <3>2, <3>3 DEF HandOK
  <2> QED BY <2>2, <2>3
<1> QED BY <1>1, <1>2, <1>3, <1>4

LEMMA SitedKept ==
  ASSUME NEW w, NEW hd, NEW R, NEW o, NEW bp, NEW b, Sited(w, hd, R, o, bp, b),
         NEW w2, NEW hd2, NEW R2, NEW o2, w2[b] = w[b],
         hd2[b[1]].sizeclass = hd[b[1]].sizeclass, b \in o2 <=> b \in o,
         \A t \in Thread : w[b] = RunAt(t) => R2[t].first[1] = R[t].first[1]
  PROVE  Sited(w2, hd2, R2, o2, bp, b)
BY DEF Sited, InCarved

\* What Placing says, list by list.
LEMMA Sides ==
  ASSUME NEW w, NEW r, NEW nx, NEW hp, NEW hd, NEW R, NEW S, NEW o, NEW bp,
         Placing(w, r, nx, hp, hd, R, S, o, bp)
  PROVE  /\ w \in [Block -> Spot] /\ r \in [Block -> Nat]
         /\ \A t \in Thread, c \in Class :
              IsList(nx, w, r, ListAt(t, c), hp[t][c].free_blk_list, hp[t][c].cnt_free)
              /\ IsChunk(w, ChunkAt(t, c), hp[t][c].ptr_to_unused, hp[t][c].cnt_unused)
         /\ \A p \in Pb :
              /\ IsList(nx, w, r, FreeAt(p), hd[p].free_list, hd[p].cnt_free)
              /\ IsList(nx, w, r, RemoteAt(p), WordHead(p, hd[p].remote), hd[p].remote.cnt)
              /\ IsChunk(w, UnusedAt(p), hd[p].unallocated, hd[p].cnt_unused)
         /\ \A t \in Thread : RestOK(nx, w, r, t, S[t]) /\ HandOK(nx, w, r, t, R[t])
         /\ \A b \in Block : Sited(w, hd, R, o, bp, b)
BY DEF Placing, HeapOK, HdrOK

LEMMA Least ==
  ASSUME NEW S, S \subseteq Nat, S # {}
  PROVE  \E n \in S : \A k \in S : n <= k
<1>1. IsWellFoundedOn(OpToRel(<, Nat), Nat)
  BY NatLessThanWellFounded
<1>2. PICK n \in S : \A k \in S : ~ (<<k, n>> \in OpToRel(<, Nat))
  BY <1>1, WFMin
<1>3. \A k \in S : ~ (k < n)
  BY <1>2 DEF OpToRel
<1> QED BY <1>3

----------------------------------------------------------------------------
(* Along the links                                                         *)

\* a leads from h along the links, N times.
IsWalk(nx, a, N, h) ==
  a[0] = h /\ \A k \in 0 .. N - 1 : a[k + 1] = IF a[k] = NULL THEN NULL ELSE nx[a[k]]

LEMMA WalkSeg ==
  ASSUME NEW nx, NEW w, NEW r, NEW l, NEW h, NEW n, NEW z, IsSeg(nx, w, r, l, h, n, z),
         NEW N \in Nat, NEW a, IsWalk(nx, a, N, h)
  PROVE  \A k \in 0 .. N : k < n => a[k] \in Block /\ w[a[k]] = l /\ r[a[k]] = n - k
<1> DEFINE Good(k) == a[k] \in Block /\ w[a[k]] = l /\ r[a[k]] = n - k
           Bad == {k \in 0 .. N : k < n /\ ~Good(k)}
<1>1. n \in Nat
  BY DEF IsSeg
<1> SUFFICES ASSUME Bad # {} PROVE FALSE
  OBVIOUS
<1>2. Bad \subseteq Nat
  OBVIOUS
<1>3. PICK k \in Bad : \A j \in Bad : k <= j
  BY <1>2, Least
<1>4. k \in 0 .. N /\ k < n /\ ~Good(k)
  OBVIOUS
<1>5. k # 0
  <2>1. n > 0 => h \in Block /\ w[h] = l /\ r[h] = n
    BY DEF IsSeg, Ptr
  <2> QED BY <1>1, <1>4, <2>1 DEF IsWalk
<1>6. k - 1 \in 0 .. N - 1 /\ k - 1 < n
  BY <1>1, <1>4, <1>5
<1>7. Good(k - 1)
  BY <1>3, <1>6
<1> HIDE DEF Bad
<1>8. a[k] = nx[a[k - 1]]
  <2>1. a[(k - 1) + 1] = IF a[k - 1] = NULL THEN NULL ELSE nx[a[k - 1]]
    BY <1>6 DEF IsWalk
  <2>2. a[k - 1] # NULL
    BY <1>7, Blocks
  <2>3. (k - 1) + 1 = k
    BY <1>4
  <2> QED BY <2>1, <2>2, <2>3
<1>9. r[a[k - 1]] > 1
  BY <1>1, <1>4, <1>7
<1>10. Good(k)
  <2>1. nx[a[k - 1]] \in Block /\ w[nx[a[k - 1]]] = l /\ r[nx[a[k - 1]]] = r[a[k - 1]] - 1
    BY <1>7, <1>9 DEF IsSeg
  <2>2. r[a[k - 1]] - 1 = n - k
    BY <1>1, <1>4, <1>7
  <2> QED BY <1>8, <2>1, <2>2
<1> QED BY <1>4, <1>10

LEMMA WalkList ==
  ASSUME NEW nx, NEW w, NEW r, NEW l, NEW h, NEW n, IsList(nx, w, r, l, h, n),
         NEW N \in Nat, NEW a, IsWalk(nx, a, N, h)
  PROVE  /\ \A k \in 0 .. N : k < n => a[k] \in Block /\ w[a[k]] = l /\ r[a[k]] = n - k
         /\ \A k \in 0 .. N : k >= n => a[k] = NULL
<1>1. \A k \in 0 .. N : k < n => a[k] \in Block /\ w[a[k]] = l /\ r[a[k]] = n - k
  BY WalkSeg DEF IsList
<1> DEFINE Bad == {k \in 0 .. N : k >= n /\ a[k] # NULL}
<1>2. n \in Nat
  BY DEF IsList, IsSeg
<1> SUFFICES ASSUME Bad # {} PROVE FALSE
  BY <1>1
<1>3. Bad \subseteq Nat
  OBVIOUS
<1>4. PICK k \in Bad : \A j \in Bad : k <= j
  BY <1>3, Least
<1>5. k \in 0 .. N /\ k >= n /\ a[k] # NULL
  OBVIOUS
<1>6. k # 0
  BY <1>2, <1>5 DEF IsWalk, IsList, IsSeg
<1>7. k - 1 \in 0 .. N - 1 /\ k - 1 \in 0 .. N
  BY <1>5, <1>6
<1>8. a[k] = IF a[k - 1] = NULL THEN NULL ELSE nx[a[k - 1]]
  <2>1. a[(k - 1) + 1] = IF a[k - 1] = NULL THEN NULL ELSE nx[a[k - 1]]
    BY <1>7 DEF IsWalk
  <2>2. (k - 1) + 1 = k
    BY <1>5
  <2> QED BY <2>1, <2>2
<1>9. k - 1 < n
  <2>1. k - 1 \notin Bad
    BY <1>4, <1>5
  <2> QED BY <1>2, <1>5, <1>7, <1>8, <2>1
<1> HIDE DEF Bad
<1>10. k - 1 = n - 1
  BY <1>2, <1>5, <1>9
<1>11. a[k - 1] \in Block /\ w[a[k - 1]] = l /\ r[a[k - 1]] = 1
  <2>1. a[k - 1] \in Block /\ w[a[k - 1]] = l /\ r[a[k - 1]] = n - (k - 1)
    BY <1>1, <1>7, <1>9
  <2> QED BY <1>2, <1>10, <2>1
<1>12. nx[a[k - 1]] = NULL
  BY <1>11 DEF IsList, IsSeg
<1> QED BY <1>1, <1>5, <1>8, <1>12

\* The recursive function of After.
IsPath(nx, h, n, f) ==
  f = [k \in 0 .. n |-> IF k = 0 THEN h
                        ELSE IF f[k - 1] = NULL THEN NULL ELSE nx[f[k - 1]]]

LEMMA PathExists ==
  ASSUME NEW nx, NEW h, NEW N \in Nat
  PROVE  \E f : IsPath(nx, h, N, f)
<1> USE DEF IsPath
<1> DEFINE Path(f, n) == IsPath(nx, h, n, f)
           Bad == {n \in Nat : ~ \E f : Path(f, n)}
<1> SUFFICES ASSUME Bad # {} PROVE FALSE
  OBVIOUS
<1>1. PICK n \in Bad : \A m \in Bad : n <= m
  <2>1. Bad \subseteq Nat
    OBVIOUS
  <2> HIDE DEF Bad
  <2> QED BY <2>1, Least
<1>2. n \in Nat /\ ~ \E f : Path(f, n)
  OBVIOUS
<1>3. n # 0
  <2> DEFINE f == [k \in 0 .. 0 |-> h]
  <2>1. Path(f, 0)
    OBVIOUS
  <2> QED BY <1>2, <2>1
<1>4. n - 1 \in Nat /\ n - 1 \notin Bad
  BY <1>1, <1>2, <1>3
<1>5. PICK f : Path(f, n - 1)
  BY <1>4
<1> DEFINE g == [k \in 0 .. n |-> IF k = n
                   THEN IF f[n - 1] = NULL THEN NULL ELSE nx[f[n - 1]] ELSE f[k]]
<1>6. ASSUME NEW k \in 0 .. n
      PROVE  g[k] = IF k = 0 THEN h ELSE IF g[k - 1] = NULL THEN NULL ELSE nx[g[k - 1]]
  <2>1. CASE k = n
    BY <1>2, <1>3, <1>4, <2>1
  <2>2. CASE k # n
    <3>1. k \in 0 .. n - 1
      BY <1>2, <2>2
    <3>2. f[k] = IF k = 0 THEN h ELSE IF f[k - 1] = NULL THEN NULL ELSE nx[f[k - 1]]
      BY <1>5, <3>1
    <3>3. k # 0 => k - 1 \in 0 .. n /\ k - 1 # n
      BY <1>2, <3>1
    <3> QED BY <2>2, <3>2, <3>3
  <2> QED BY <2>1, <2>2
<1>7. Path(g, n)
  <2> DEFINE e == [k \in 0 .. n |-> IF k = 0 THEN h
                     ELSE IF g[k - 1] = NULL THEN NULL ELSE nx[g[k - 1]]]
  <2>1. DOMAIN g = DOMAIN e /\ \A k \in 0 .. n : g[k] = e[k]
    BY <1>6
  <2>2. g = e
    BY <2>1
  <2> QED BY <2>2
<1> QED BY <1>2, <1>7

LEMMA AfterIsWalk ==
  ASSUME NEW b, MaxBlocks \in Nat
  PROVE  IsWalk(next, After(b), MaxBlocks, b)
<1> DEFINE N == MaxBlocks
           Path(f) == IsPath(next, b, N, f)
<1>1. \E f : Path(f)
  BY PathExists
<1>2. After(b) = CHOOSE f : Path(f)
  BY DEF After, IsPath
<1>3. Path(After(b))
  BY <1>1, <1>2
<1> USE DEF IsPath
<1> HIDE DEF N
<1>4. N \in Nat
  BY DEF N
<1>5. ASSUME NEW k \in 0 .. N - 1
      PROVE  After(b)[k + 1] = IF After(b)[k] = NULL THEN NULL ELSE next[After(b)[k]]
  <2>1. k + 1 \in 0 .. N /\ k + 1 # 0 /\ (k + 1) - 1 = k
    BY <1>4
  <2> QED BY <1>3, <2>1
<1>6. After(b)[0] = b
  BY <1>3, <1>4
<1> QED BY <1>5, <1>6 DEF IsWalk, N

----------------------------------------------------------------------------
(* The ways blocks move.  In each of these lemmas the step is described by *)
(* the links, heaps, headers and runs before and after it.                 *)

\* All links but that of block b are the same, ...
LinksBut(b, nx, nx2) == \A x \in Block : x # b => nx2[x] = nx[x]

\* ... and what all threads but t have.
ButOf(t, F, F2) == \A u \in Thread : u # t => F2[u] = F[u]

\* The first block of a thread's list goes to the program.
Pops(nx, hp, t, c, b, nx2, hp2) ==
  /\ hp[t][c].free_blk_list = b
  /\ LinksBut(b, nx, nx2)
  /\ HeapsBut(t, c, hp, hp2)
  /\ hp2[t][c].free_blk_list = nx[b]
  /\ hp2[t][c].cnt_free = hp[t][c].cnt_free - 1
  /\ hp2[t][c].ptr_to_unused = hp[t][c].ptr_to_unused
  /\ hp2[t][c].cnt_unused = hp[t][c].cnt_unused

LEMMA PopMove ==
  ASSUME NEW nx, NEW hp, NEW hd, NEW R, NEW S, NEW o \in SUBSET Block,
         NEW bp, Placed(nx, hp, hd, R, S, o, bp), NEW t \in Thread,
         NEW c \in Class, NEW b \in Block, NEW nx2, NEW hp2,
         Pops(nx, hp, t, c, b, nx2, hp2)
  PROVE  /\ Placed(nx2, hp2, hd, R, S, o \cup {b}, bp)
         /\ hp[t][c].cnt_free # 0 /\ b \notin o /\ hd[b[1]].sizeclass = c
         /\ InCarved(hd, bp, b)
<1> USE DEF Pops, LinksBut
<1>1. PICK w, r : Placing(w, r, nx, hp, hd, R, S, o, bp)
  BY DEF Placed
<1> DEFINE w2 == [w EXCEPT ![b] = Program]
           T  == {ListAt(t, c), Program}
<1>2. /\ w \in [Block -> Spot] /\ r \in [Block -> Nat]
      /\ \A x \in Block : w2[x] = IF x = b THEN Program ELSE w[x]
  BY <1>1 DEF Placing
<1>3. IsList(nx, w, r, ListAt(t, c), b, hp[t][c].cnt_free)
      /\ IsChunk(w, ChunkAt(t, c), hp[t][c].ptr_to_unused, hp[t][c].cnt_unused)
      /\ \A x \in Block : Sited(w, hd, R, o, bp, x)
  BY <1>1, Sides
<1>4. hp[t][c].cnt_free \in Nat \ {0} /\ w[b] = ListAt(t, c)
  BY <1>3, Blocks DEF IsList, IsSeg
<1>5. Kept(T, nx, w, r, nx2, w2, r)
  BY <1>2, <1>4 DEF Kept
<1>6. /\ \A u \in Thread, d \in Class :
           u # t \/ d # c => ListAt(u, d) \notin T /\ ChunkAt(u, d) \notin T
      /\ \A p \in Pb : FreeAt(p) \notin T /\ UnusedAt(p) \notin T /\ RemoteAt(p) \notin T
      /\ \A u \in Thread : RestAt(u) \notin T /\ RunAt(u) \notin T
      /\ ChunkAt(t, c) \notin T
      /\ ListAt(t, c) \notin {Nowhere, Program} /\ Nowhere # Program
  BY ONLY t \in Thread, c \in Class
     DEF ListAt, ChunkAt, RunAt, RestAt, Nowhere, Program, FreeAt, UnusedAt, RemoteAt
<1> HIDE DEF w2, T
<1>7. HeapOK(nx2, w2, r, t, c, hp2[t][c])
  <2>1. IsList(nx2, w2, r, ListAt(t, c), nx[b], hp[t][c].cnt_free - 1)
    <3>1. Moved(nx, w, r, nx2, w2, r, ListAt(t, c), ListAt(t, c), {b})
      BY <1>2, <1>6 DEF Moved
    <3> QED BY <1>3, <3>1, SegPopped
  <2>2. IsChunk(w2, ChunkAt(t, c), hp[t][c].ptr_to_unused, hp[t][c].cnt_unused)
    BY <1>3, <1>5, <1>6, ChunkKept
  <2> QED BY <2>1, <2>2 DEF HeapOK
<1>8. \A u \in Thread, d \in Class : HeapOK(nx2, w2, r, u, d, hp2[u][d])
  BY <1>1, <1>5, <1>6, <1>7, Frame DEF HeapsBut
<1>9. \A p \in Pb : HdrOK(nx2, w2, r, p, hd[p])
  BY <1>1, <1>5, <1>6, Frame DEF SameHdr
<1>10. \A u \in Thread : RestOK(nx2, w2, r, u, S[u]) /\ HandOK(nx2, w2, r, u, R[u])
  BY <1>1, <1>5, <1>6, Frame
<1>11. Sited(w, hd, R, o, bp, b)
  BY <1>3
<1>12. InCarved(hd, bp, b) /\ b \notin o /\ hd[b[1]].sizeclass = c
  BY <1>4, <1>6, <1>11 DEF Sited
<1> DEFINE o2 == o \cup {b}
<1>13. \A x \in Block : Sited(w2, hd, R, o2, bp, x)
  <2>1. ASSUME NEW x \in Block, x # b
        PROVE  Sited(w2, hd, R, o2, bp, x)
    BY <1>2, <1>3, <2>1, SitedKept
  <2>2. Sited(w2, hd, R, o2, bp, b)
    <3>1. w2[b] = Program /\ b \in o2
      BY <1>2
    <3>2. /\ \A p \in Pb : Program \notin {FreeAt(p), UnusedAt(p), RemoteAt(p)}
          /\ \A u \in Thread : Program # RunAt(u)
          /\ \A u \in Thread, d \in Class : Program \notin {ListAt(u, d), ChunkAt(u, d)}
      BY Spots
    <3> HIDE DEF o2
    <3> QED BY <1>6, <1>12, <3>1, <3>2 DEF Sited
  <2> QED BY <2>1, <2>2
<1>14. w2 \in [Block -> Spot]
  BY <1>2, Spots DEF w2
<1> QED BY <1>2, <1>4, <1>8, <1>9, <1>10, <1>12, <1>13, <1>14 DEF Placed, Placing

\* Nothing is at l.
Empty(w, l) == \A b \in Block : w[b] # l

LEMMA EmptyIs ==
  ASSUME NEW nx, NEW w, NEW r, NEW l, Empty(w, l)
  PROVE  IsList(nx, w, r, l, NULL, 0) /\ IsChunk(w, l, NULL, 0)
BY DEF Empty, IsList, IsSeg, IsChunk, Ptr

LEMMA NullIsEmpty ==
  ASSUME NEW nx, NEW w, NEW r, NEW l, NEW n, NEW h,
         \/ (h = NULL \/ n = 0) /\ IsList(nx, w, r, l, h, n)
         \/ (h = NULL \/ n = 0) /\ IsChunk(w, l, h, n)
  PROVE  Empty(w, l) /\ n = 0 /\ h = NULL
BY DEF Empty, IsList, IsSeg, IsChunk, Ptr

\* The blocks at k are at l from now on.
Renamed(w, k, l) == [b \in Block |-> IF w[b] = k THEN l ELSE w[b]]

LEMMA RenamedBlocks ==
  ASSUME NEW w, NEW k, NEW l, Empty(w, l), k # l, NEW w2, w2 = Renamed(w, k, l)
  PROVE  /\ Empty(w2, k)
         /\ \A b \in Block : w2[b] = IF w[b] = k THEN l ELSE w[b]
         /\ \A b \in Block : w2[b] = l <=> w[b] = k
BY DEF Renamed, Empty

LEMMA RenamedKept ==
  ASSUME NEW nx, NEW w, NEW r, NEW k, NEW l, Empty(w, l), k # l,
         NEW w2, w2 = Renamed(w, k, l)
  PROVE  Kept({k, l}, nx, w, r, nx, w2, r)
<1>1. \A b \in Block : w2[b] = IF w[b] = k THEN l ELSE w[b]
  BY DEF Renamed
<1> QED BY <1>1 DEF Kept, Empty

LEMMA RenamedList ==
  ASSUME NEW nx, NEW w, NEW r, NEW k, NEW h, NEW n, IsList(nx, w, r, k, h, n),
         NEW l, Empty(w, l), k # l, NEW w2, w2 = Renamed(w, k, l)
  PROVE  IsList(nx, w2, r, l, h, n)
<1>1. \A b \in Block : w2[b] = l <=> w[b] = k
  BY RenamedBlocks
<1>2. Moved(nx, w, r, nx, w2, r, k, l, {})
  BY <1>1 DEF Moved
<1> QED BY <1>2, SegMoved DEF IsList

LEMMA RenamedChunk ==
  ASSUME NEW w, NEW k, NEW h, NEW n, IsChunk(w, k, h, n),
         NEW l, Empty(w, l), k # l, NEW w2, w2 = Renamed(w, k, l)
  PROVE  IsChunk(w2, l, h, n)
<1>1. \A b \in Block : w2[b] = l <=> w[b] = k
  BY RenamedBlocks
<1> QED BY <1>1 DEF IsChunk

\* All headers but that of page block p are the same.
HdrsBut(p, hd, hd2) ==
  /\ \A q \in Pb : q # p => SameHdr(hd2[q], hd[q])
  /\ \A q \in Pb : hd2[q].sizeclass = hd[q].sizeclass

\* What is at place k of header p comes to place l of class c of thread t: the
\* lists of both are to be looked at, all others stay.
LEMMA Taken ==
  ASSUME NEW nx, NEW w, NEW r, NEW hp, NEW hd, NEW R, NEW S, NEW o, NEW bp,
         Placing(w, r, nx, hp, hd, R, S, o, bp),
         NEW t \in Thread, NEW c \in Class, NEW p \in Pb, hd[p].sizeclass = c,
         NEW k \in {FreeAt(p), UnusedAt(p), RemoteAt(p)},
         NEW l \in {ListAt(t, c), ChunkAt(t, c)}, Empty(w, l),
         NEW w2, w2 = Renamed(w, k, l),
         NEW hp2, HeapsBut(t, c, hp, hp2), NEW hd2, HdrsBut(p, hd, hd2),
         HeapOK(nx, w2, r, t, c, hp2[t][c]), HdrOK(nx, w2, r, p, hd2[p])
  PROVE  Placed(nx, hp2, hd2, R, S, o, bp)
<1> DEFINE T == {k, l}
<1>4. /\ \A u \in Thread, d \in Class :
           u # t \/ d # c => ListAt(u, d) \notin T /\ ChunkAt(u, d) \notin T
      /\ \A q \in Pb :
           q # p => FreeAt(q) \notin T /\ UnusedAt(q) \notin T /\ RemoteAt(q) \notin T
      /\ \A u \in Thread : RestAt(u) \notin T /\ RunAt(u) \notin T
      /\ k # l
  BY ONLY t \in Thread, c \in Class, p \in Pb, k \in {FreeAt(p), UnusedAt(p), RemoteAt(p)},
          l \in {ListAt(t, c), ChunkAt(t, c)}
     DEF ListAt, ChunkAt, RunAt, RestAt, FreeAt, UnusedAt, RemoteAt
<1>6. Kept(T, nx, w, r, nx, w2, r)
  BY <1>4, RenamedKept
<1> HIDE DEF T
<1>9. \A u \in Thread, d \in Class : HeapOK(nx, w2, r, u, d, hp2[u][d])
  BY <1>4, <1>6, Frame DEF HeapsBut
<1>10. \A q \in Pb : HdrOK(nx, w2, r, q, hd2[q])
  BY <1>4, <1>6, Frame DEF HdrsBut
<1>11. \A u \in Thread : RestOK(nx, w2, r, u, S[u]) /\ HandOK(nx, w2, r, u, R[u])
  BY <1>4, <1>6, Frame
<1>12. ASSUME NEW b \in Block PROVE Sited(w2, hd2, R, o, bp, b)
  <2>1. Sited(w, hd, R, o, bp, b) /\ hd2[b[1]].sizeclass = hd[b[1]].sizeclass
    BY Sides, Blocks DEF HdrsBut
  <2>2. w2[b] = IF w[b] = k THEN l ELSE w[b]
    BY DEF Renamed
  <2>3. CASE w[b] # k
    BY <2>1, <2>2, <2>3, SitedKept
  <2>4. CASE w[b] = k
    <3>1. b[1] = p /\ InCarved(hd, bp, b) /\ b \notin o
      BY <2>1, <2>4, Spots DEF Sited
    <3>2. hd2[b[1]].sizeclass = c /\ InCarved(hd2, bp, b)
      BY <2>1, <3>1 DEF InCarved
    <3>3. /\ l \notin {Nowhere, Program}
          /\ \A q \in Pb : l \notin {FreeAt(q), UnusedAt(q), RemoteAt(q)}
          /\ \A u \in Thread : l # RunAt(u)
          /\ \A u \in Thread, d \in Class : l \in {ListAt(u, d), ChunkAt(u, d)} => d = c
      BY ONLY t \in Thread, c \in Class, l \in {ListAt(t, c), ChunkAt(t, c)}
         DEF ListAt, ChunkAt, RunAt, FreeAt, UnusedAt, RemoteAt, Nowhere, Program
    <3> QED BY <2>2, <2>4, <3>1, <3>2, <3>3 DEF Sited
  <2> QED BY <2>3, <2>4
<1>13. w2 \in [Block -> Spot] /\ r \in [Block -> Nat]
  BY Spots DEF Placing, Renamed
<1> QED BY <1>9, <1>10, <1>11, <1>12, <1>13 DEF Placed, Placing

\* A thread without a list takes the free list of a header.
TakesFree(hp, hd, t, c, p, hp2, hd2) ==
  /\ hd[p].sizeclass = c
  /\ hp[t][c].free_blk_list = NULL
  /\ HeapsBut(t, c, hp, hp2)
  /\ HdrsBut(p, hd, hd2)
  /\ hp2[t][c].free_blk_list = hd[p].free_list
  /\ hp2[t][c].cnt_free = hd[p].cnt_free
  /\ hp2[t][c].ptr_to_unused = hp[t][c].ptr_to_unused
  /\ hp2[t][c].cnt_unused = hp[t][c].cnt_unused
  /\ hd2[p].free_list = NULL
  /\ hd2[p].cnt_free = 0
  /\ hd2[p].remote = hd[p].remote
  /\ hd2[p].unallocated = hd[p].unallocated
  /\ hd2[p].cnt_unused = hd[p].cnt_unused

LEMMA TakeFreeMove ==
  ASSUME NEW nx, NEW hp, NEW hd, NEW R, NEW S, NEW o, NEW bp,
         Placed(nx, hp, hd, R, S, o, bp), NEW t \in Thread, NEW c \in Class,
         NEW p \in Pb, NEW hp2, NEW hd2,
         TakesFree(hp, hd, t, c, p, hp2, hd2)
  PROVE  Placed(nx, hp2, hd2, R, S, o, bp)
<1> USE DEF TakesFree
<1>1. PICK w, r : Placing(w, r, nx, hp, hd, R, S, o, bp)
  BY DEF Placed
<1>2. PICK w2 : w2 = Renamed(w, FreeAt(p), ListAt(t, c))
  OBVIOUS
<1> DEFINE T == {FreeAt(p), ListAt(t, c)}
<1>3. /\ IsList(nx, w, r, ListAt(t, c), NULL, hp[t][c].cnt_free)
      /\ IsChunk(w, ChunkAt(t, c), hp[t][c].ptr_to_unused, hp[t][c].cnt_unused)
      /\ IsList(nx, w, r, FreeAt(p), hd[p].free_list, hd[p].cnt_free)
      /\ IsList(nx, w, r, RemoteAt(p), WordHead(p, hd[p].remote), hd[p].remote.cnt)
      /\ IsChunk(w, UnusedAt(p), hd[p].unallocated, hd[p].cnt_unused)
  BY <1>1, Sides
<1>4. Empty(w, ListAt(t, c))
  BY <1>3, NullIsEmpty
<1>5. FreeAt(p) # ListAt(t, c)
  BY DEF FreeAt, ListAt
<1>9. Kept(T, nx, w, r, nx, w2, r) /\ Empty(w2, FreeAt(p))
  BY <1>2, <1>4, <1>5, RenamedKept, RenamedBlocks
<1>6. RemoteAt(p) \notin T /\ UnusedAt(p) \notin T /\ ChunkAt(t, c) \notin T
  BY DEF RemoteAt, UnusedAt, ChunkAt, FreeAt, ListAt
<1> HIDE DEF T
<1>7. HeapOK(nx, w2, r, t, c, hp2[t][c])
  <2>1. IsList(nx, w2, r, ListAt(t, c), hd[p].free_list, hd[p].cnt_free)
    BY <1>2, <1>3, <1>4, <1>5, RenamedList, RenamedChunk
  <2>2. IsChunk(w2, ChunkAt(t, c), hp[t][c].ptr_to_unused, hp[t][c].cnt_unused)
    BY <1>3, <1>6, <1>9, ChunkKept
  <2> QED BY <2>1, <2>2 DEF HeapOK
<1>8. HdrOK(nx, w2, r, p, hd2[p])
  <2>1. IsSeg(nx, w2, r, RemoteAt(p), WordHead(p, hd[p].remote), hd[p].remote.cnt, NULL)
    BY <1>3, <1>6, <1>9, SegKept DEF IsList
  <2>2. IsChunk(w2, UnusedAt(p), hd[p].unallocated, hd[p].cnt_unused)
    BY <1>3, <1>6, <1>9, ChunkKept
  <2>3. IsList(nx, w2, r, FreeAt(p), NULL, 0)
    BY <1>9, EmptyIs
  <2> QED BY <2>1, <2>2, <2>3 DEF HdrOK, IsList
<1> QED BY <1>1, <1>2, <1>4, <1>7, <1>8, Taken

\* A thread without a list takes the remote list of a header.
TakesRemote(hp, hd, t, c, p, hp2, hd2) ==
  /\ hd[p].sizeclass = c
  /\ hp[t][c].free_blk_list = NULL
  /\ HeapsBut(t, c, hp, hp2)
  /\ HdrsBut(p, hd, hd2)
  /\ hp2[t][c].free_blk_list = WordHead(p, hd[p].remote)
  /\ hp2[t][c].cnt_free = hd[p].remote.cnt
  /\ hp2[t][c].ptr_to_unused = hp[t][c].ptr_to_unused
  /\ hp2[t][c].cnt_unused = hp[t][c].cnt_unused
  /\ hd2[p].free_list = hd[p].free_list
  /\ hd2[p].cnt_free = hd[p].cnt_free
  /\ hd2[p].remote = NoWord
  /\ hd2[p].unallocated = hd[p].unallocated
  /\ hd2[p].cnt_unused = hd[p].cnt_unused

LEMMA TakeRemoteMove ==
  ASSUME NEW nx, NEW hp, NEW hd, NEW R, NEW S, NEW o, NEW bp,
         Placed(nx, hp, hd, R, S, o, bp), NEW t \in Thread, NEW c \in Class,
         NEW p \in Pb, NEW hp2, NEW hd2,
         TakesRemote(hp, hd, t, c, p, hp2, hd2)
  PROVE  Placed(nx, hp2, hd2, R, S, o, bp)
<1> USE DEF TakesRemote
<1>1. PICK w, r : Placing(w, r, nx, hp, hd, R, S, o, bp)
  BY DEF Placed
<1>2. PICK w2 : w2 = Renamed(w, RemoteAt(p), ListAt(t, c))
  OBVIOUS
<1> DEFINE T == {RemoteAt(p), ListAt(t, c)}
<1>3. /\ IsList(nx, w, r, ListAt(t, c), NULL, hp[t][c].cnt_free)
      /\ IsChunk(w, ChunkAt(t, c), hp[t][c].ptr_to_unused, hp[t][c].cnt_unused)
      /\ IsList(nx, w, r, FreeAt(p), hd[p].free_list, hd[p].cnt_free)
      /\ IsList(nx, w, r, RemoteAt(p), WordHead(p, hd[p].remote), hd[p].remote.cnt)
      /\ IsChunk(w, UnusedAt(p), hd[p].unallocated, hd[p].cnt_unused)
  BY <1>1, Sides
<1>4. Empty(w, ListAt(t, c))
  BY <1>3, NullIsEmpty
<1>5. RemoteAt(p) # ListAt(t, c)
  BY DEF RemoteAt, ListAt
<1>9. Kept(T, nx, w, r, nx, w2, r) /\ Empty(w2, RemoteAt(p))
  BY <1>2, <1>4, <1>5, RenamedKept, RenamedBlocks
<1>6. FreeAt(p) \notin T /\ UnusedAt(p) \notin T /\ ChunkAt(t, c) \notin T
  BY DEF RemoteAt, UnusedAt, ChunkAt, FreeAt, ListAt
<1> HIDE DEF T
<1>7. HeapOK(nx, w2, r, t, c, hp2[t][c])
  <2>1. IsList(nx, w2, r, ListAt(t, c), WordHead(p, hd[p].remote), hd[p].remote.cnt)
    BY <1>2, <1>3, <1>4, <1>5, RenamedList, RenamedChunk
  <2>2. IsChunk(w2, ChunkAt(t, c), hp[t][c].ptr_to_unused, hp[t][c].cnt_unused)
    BY <1>3, <1>6, <1>9, ChunkKept
  <2> QED BY <2>1, <2>2 DEF HeapOK
<1>8. HdrOK(nx, w2, r, p, hd2[p])
  <2>1. IsSeg(nx, w2, r, FreeAt(p), hd[p].free_list, hd[p].cnt_free, NULL)
    BY <1>3, <1>6, <1>9, SegKept DEF IsList
  <2>2. IsChunk(w2, UnusedAt(p), hd[p].unallocated, hd[p].cnt_unused)
    BY <1>3, <1>6, <1>9, ChunkKept
  <2>3. IsList(nx, w2, r, RemoteAt(p), NULL, 0)
    BY <1>9, EmptyIs
  <2>4. WordHead(p, NoWord) = NULL /\ NoWord.cnt = 0
    BY DEF WordHead, NoWord
  <2> QED BY <2>1, <2>2, <2>3, <2>4 DEF HdrOK, IsList
<1> QED BY <1>1, <1>2, <1>4, <1>7, <1>8, Taken

\* A thread without a chunk takes the one of a header.
TakesUnused(hp, hd, t, c, p, hp2, hd2) ==
  /\ hd[p].sizeclass = c
  /\ hp[t][c].ptr_to_unused = NULL
  /\ HeapsBut(t, c, hp, hp2)
  /\ HdrsBut(p, hd, hd2)
  /\ hp2[t][c].free_blk_list = hp[t][c].free_blk_list
  /\ hp2[t][c].cnt_free = hp[t][c].cnt_free
  /\ hp2[t][c].ptr_to_unused = hd[p].unallocated
  /\ hp2[t][c].cnt_unused = hd[p].cnt_unused
  /\ hd2[p].free_list = hd[p].free_list
  /\ hd2[p].cnt_free = hd[p].cnt_free
  /\ hd2[p].remote = hd[p].remote
  /\ hd2[p].unallocated = NULL
  /\ hd2[p].cnt_unused = 0

LEMMA TakeUnusedMove ==
  ASSUME NEW nx, NEW hp, NEW hd, NEW R, NEW S, NEW o, NEW bp,
         Placed(nx, hp, hd, R, S, o, bp), NEW t \in Thread, NEW c \in Class,
         NEW p \in Pb, NEW hp2, NEW hd2,
         TakesUnused(hp, hd, t, c, p, hp2, hd2)
  PROVE  Placed(nx, hp2, hd2, R, S, o, bp)
<1> USE DEF TakesUnused
<1>1. PICK w, r : Placing(w, r, nx, hp, hd, R, S, o, bp)
  BY DEF Placed
<1>2. PICK w2 : w2 = Renamed(w, UnusedAt(p), ChunkAt(t, c))
  OBVIOUS
<1> DEFINE T == {UnusedAt(p), ChunkAt(t, c)}
<1>3. /\ IsList(nx, w, r, ListAt(t, c), hp[t][c].free_blk_list, hp[t][c].cnt_free)
      /\ IsChunk(w, ChunkAt(t, c), NULL, hp[t][c].cnt_unused)
      /\ IsList(nx, w, r, FreeAt(p), hd[p].free_list, hd[p].cnt_free)
      /\ IsList(nx, w, r, RemoteAt(p), WordHead(p, hd[p].remote), hd[p].remote.cnt)
      /\ IsChunk(w, UnusedAt(p), hd[p].unallocated, hd[p].cnt_unused)
  BY <1>1, Sides
<1>4. Empty(w, ChunkAt(t, c))
  BY <1>3, NullIsEmpty
<1>5. UnusedAt(p) # ChunkAt(t, c)
  BY DEF UnusedAt, ChunkAt
<1>9. Kept(T, nx, w, r, nx, w2, r) /\ Empty(w2, UnusedAt(p))
  BY <1>2, <1>4, <1>5, RenamedKept, RenamedBlocks
<1>6. FreeAt(p) \notin T /\ RemoteAt(p) \notin T /\ ListAt(t, c) \notin T
  BY DEF RemoteAt, UnusedAt, ChunkAt, FreeAt, ListAt
<1> HIDE DEF T
<1>7. HeapOK(nx, w2, r, t, c, hp2[t][c])
  <2>1. IsChunk(w2, ChunkAt(t, c), hd[p].unallocated, hd[p].cnt_unused)
    BY <1>2, <1>3, <1>4, <1>5, RenamedList, RenamedChunk
  <2>2. IsSeg(nx, w2, r, ListAt(t, c), hp[t][c].free_blk_list, hp[t][c].cnt_free, NULL)
    BY <1>3, <1>6, <1>9, SegKept DEF IsList
  <2> QED BY <2>1, <2>2 DEF HeapOK, IsList
<1>8. HdrOK(nx, w2, r, p, hd2[p])
  <2>1. IsSeg(nx, w2, r, FreeAt(p), hd[p].free_list, hd[p].cnt_free, NULL)
    BY <1>3, <1>6, <1>9, SegKept DEF IsList
  <2>2. IsSeg(nx, w2, r, RemoteAt(p), WordHead(p, hd[p].remote), hd[p].remote.cnt, NULL)
    BY <1>3, <1>6, <1>9, SegKept DEF IsList
  <2>3. IsChunk(w2, UnusedAt(p), NULL, 0)
    BY <1>9, EmptyIs
  <2> QED BY <2>1, <2>2, <2>3 DEF HdrOK, IsList
<1> QED BY <1>1, <1>2, <1>4, <1>7, <1>8, Taken

\* A thread's chunk goes to the header of its page block, which has none.
PutsUnused(hp, hd, t, c, p, hp2, hd2) ==
  /\ hp[t][c].ptr_to_unused # NULL
  /\ hp[t][c].ptr_to_unused[1] = p
  /\ hd[p].cnt_unused = 0
  /\ HeapsBut(t, c, hp, hp2)
  /\ HdrsBut(p, hd, hd2)
  /\ hp2[t][c].free_blk_list = hp[t][c].free_blk_list
  /\ hp2[t][c].cnt_free = hp[t][c].cnt_free
  /\ hp2[t][c].ptr_to_unused = NULL
  /\ hp2[t][c].cnt_unused = 0
  /\ hd2[p].free_list = hd[p].free_list
  /\ hd2[p].cnt_free = hd[p].cnt_free
  /\ hd2[p].remote = hd[p].remote
  /\ hd2[p].unallocated = hp[t][c].ptr_to_unused
  /\ hd2[p].cnt_unused = hp[t][c].cnt_unused

LEMMA PutUnusedMove ==
  ASSUME NEW nx, NEW hp, NEW hd, NEW R, NEW S, NEW o, NEW bp,
         Placed(nx, hp, hd, R, S, o, bp), NEW t \in Thread, NEW c \in Class,
         NEW p \in Pb, NEW hp2, NEW hd2,
         PutsUnused(hp, hd, t, c, p, hp2, hd2)
  PROVE  Placed(nx, hp2, hd2, R, S, o, bp)
<1> USE DEF PutsUnused
<1>1. PICK w, r : Placing(w, r, nx, hp, hd, R, S, o, bp)
  BY DEF Placed
<1>2. PICK w2 : w2 = Renamed(w, ChunkAt(t, c), UnusedAt(p))
  OBVIOUS
<1> DEFINE T == {ChunkAt(t, c), UnusedAt(p)}
<1>3. /\ IsList(nx, w, r, ListAt(t, c), hp[t][c].free_blk_list, hp[t][c].cnt_free)
      /\ IsChunk(w, ChunkAt(t, c), hp[t][c].ptr_to_unused, hp[t][c].cnt_unused)
      /\ IsList(nx, w, r, FreeAt(p), hd[p].free_list, hd[p].cnt_free)
      /\ IsList(nx, w, r, RemoteAt(p), WordHead(p, hd[p].remote), hd[p].remote.cnt)
      /\ IsChunk(w, UnusedAt(p), hd[p].unallocated, hd[p].cnt_unused)
      /\ \A b \in Block : Sited(w, hd, R, o, bp, b)
  BY <1>1, Sides
<1>4. /\ \A u \in Thread, d \in Class : ListAt(u, d) \notin T
      /\ \A u \in Thread, d \in Class : u # t \/ d # c => ChunkAt(u, d) \notin T
      /\ \A q \in Pb : FreeAt(q) \notin T /\ RemoteAt(q) \notin T
      /\ \A q \in Pb : q # p => UnusedAt(q) \notin T
      /\ \A u \in Thread : RestAt(u) \notin T /\ RunAt(u) \notin T
      /\ ChunkAt(t, c) # UnusedAt(p)
  BY ONLY t \in Thread, c \in Class, p \in Pb
     DEF ListAt, ChunkAt, RunAt, RestAt, FreeAt, UnusedAt, RemoteAt
<1>5. Empty(w, UnusedAt(p))
  BY <1>3, NullIsEmpty
<1>6. /\ Kept(T, nx, w, r, nx, w2, r) /\ Empty(w2, ChunkAt(t, c))
      /\ \A b \in Block : w2[b] = IF w[b] = ChunkAt(t, c) THEN UnusedAt(p) ELSE w[b]
  BY <1>2, <1>4, <1>5, RenamedKept, RenamedBlocks
<1> HIDE DEF T
<1>7. HeapOK(nx, w2, r, t, c, hp2[t][c])
  <2>1. IsSeg(nx, w2, r, ListAt(t, c), hp[t][c].free_blk_list, hp[t][c].cnt_free, NULL)
    BY <1>3, <1>4, <1>6, SegKept DEF IsList
  <2>2. IsChunk(w2, ChunkAt(t, c), NULL, 0)
    BY <1>6, EmptyIs
  <2> QED BY <2>1, <2>2 DEF HeapOK, IsList
<1>8. HdrOK(nx, w2, r, p, hd2[p])
  <2>1. IsSeg(nx, w2, r, FreeAt(p), hd[p].free_list, hd[p].cnt_free, NULL)
    BY <1>3, <1>4, <1>6, SegKept DEF IsList
  <2>2. IsSeg(nx, w2, r, RemoteAt(p), WordHead(p, hd[p].remote), hd[p].remote.cnt, NULL)
    BY <1>3, <1>4, <1>6, SegKept DEF IsList
  <2>3. IsChunk(w2, UnusedAt(p), hp[t][c].ptr_to_unused, hp[t][c].cnt_unused)
    BY <1>2, <1>3, <1>4, <1>5, RenamedChunk
  <2> QED BY <2>1, <2>2, <2>3 DEF HdrOK, IsList
<1>9. \A u \in Thread, d \in Class : HeapOK(nx, w2, r, u, d, hp2[u][d])
  BY <1>1, <1>4, <1>6, <1>7, Frame DEF HeapsBut
<1>10. \A q \in Pb : HdrOK(nx, w2, r, q, hd2[q])
  BY <1>1, <1>4, <1>6, <1>8, Frame DEF HdrsBut
<1>11. \A u \in Thread : RestOK(nx, w2, r, u, S[u]) /\ HandOK(nx, w2, r, u, R[u])
  BY <1>1, <1>4, <1>6, Frame
<1>12. ASSUME NEW b \in Block PROVE Sited(w2, hd2, R, o, bp, b)
  <2>1. Sited(w, hd, R, o, bp, b) /\ hd2[b[1]].sizeclass = hd[b[1]].sizeclass
    BY <1>3, Blocks DEF HdrsBut
  <2>2. CASE w[b] # ChunkAt(t, c)
    BY <1>6, <2>1, <2>2, SitedKept
  <2>3. CASE w[b] = ChunkAt(t, c)
    <3>1. b[1] = p
      BY <1>3, <2>3 DEF IsChunk
    <3>2. InCarved(hd2, bp, b) /\ b \notin o
      BY <2>1, <2>3, Spots DEF Sited, InCarved
    <3>3. /\ UnusedAt(p) \notin {Nowhere, Program}
          /\ \A q \in Pb : UnusedAt(p) \in {FreeAt(q), UnusedAt(q), RemoteAt(q)} => p = q
          /\ \A u \in Thread : UnusedAt(p) # RunAt(u)
          /\ \A u \in Thread, d \in Class : UnusedAt(p) \notin {ListAt(u, d), ChunkAt(u, d)}
      BY ONLY p \in Pb
         DEF ListAt, ChunkAt, RunAt, FreeAt, UnusedAt, RemoteAt, Nowhere, Program
    <3> QED BY <1>6, <2>3, <3>1, <3>2, <3>3 DEF Sited
  <2> QED BY <2>2, <2>3
<1>13. w2 \in [Block -> Spot] /\ r \in [Block -> Nat]
  BY <1>1, <1>2, Spots DEF Placing, Renamed
<1> QED BY <1>9, <1>10, <1>11, <1>12, <1>13 DEF Placed, Placing

\* A thread starts to return its list.
ListToRest(hp, S, t, c, hp2, S2) ==
  /\ S[t] = NULL
  /\ HeapsBut(t, c, hp, hp2)
  /\ hp2[t][c].free_blk_list = NULL
  /\ hp2[t][c].cnt_free = 0
  /\ hp2[t][c].ptr_to_unused = hp[t][c].ptr_to_unused
  /\ hp2[t][c].cnt_unused = hp[t][c].cnt_unused
  /\ S2[t] = hp[t][c].free_blk_list
  /\ ButOf(t, S, S2)

LEMMA ListToRestMove ==
  ASSUME NEW nx, NEW hp, NEW hd, NEW R, NEW S, NEW o, NEW bp,
         Placed(nx, hp, hd, R, S, o, bp), NEW t \in Thread, NEW c \in Class,
         NEW hp2, NEW S2, ListToRest(hp, S, t, c, hp2, S2)
  PROVE  Placed(nx, hp2, hd, R, S2, o, bp)
<1> USE DEF ListToRest, ButOf
<1>1. PICK w, r : Placing(w, r, nx, hp, hd, R, S, o, bp)
  BY DEF Placed
<1>2. PICK w2 : w2 = Renamed(w, ListAt(t, c), RestAt(t))
  OBVIOUS
<1> DEFINE T == {ListAt(t, c), RestAt(t)}
<1>3. /\ IsList(nx, w, r, ListAt(t, c), hp[t][c].free_blk_list, hp[t][c].cnt_free)
      /\ IsChunk(w, ChunkAt(t, c), hp[t][c].ptr_to_unused, hp[t][c].cnt_unused)
      /\ RestOK(nx, w, r, t, NULL)
      /\ \A b \in Block : Sited(w, hd, R, o, bp, b)
  BY <1>1, Sides
<1>4. /\ \A u \in Thread, d \in Class : u # t \/ d # c => ListAt(u, d) \notin T
      /\ \A u \in Thread, d \in Class : ChunkAt(u, d) \notin T
      /\ \A q \in Pb : FreeAt(q) \notin T /\ RemoteAt(q) \notin T /\ UnusedAt(q) \notin T
      /\ \A u \in Thread : u # t => RestAt(u) \notin T
      /\ \A u \in Thread : RunAt(u) \notin T
      /\ ListAt(t, c) # RestAt(t)
  BY ONLY t \in Thread, c \in Class
     DEF ListAt, ChunkAt, RunAt, RestAt, FreeAt, UnusedAt, RemoteAt
<1>5. Empty(w, RestAt(t))
  BY <1>3, NullIsEmpty DEF RestOK
<1>6. /\ Kept(T, nx, w, r, nx, w2, r) /\ Empty(w2, ListAt(t, c))
      /\ \A b \in Block : w2[b] = IF w[b] = ListAt(t, c) THEN RestAt(t) ELSE w[b]
  BY <1>2, <1>4, <1>5, RenamedKept, RenamedBlocks
<1> HIDE DEF T
<1>7. HeapOK(nx, w2, r, t, c, hp2[t][c])
  <2>1. IsChunk(w2, ChunkAt(t, c), hp[t][c].ptr_to_unused, hp[t][c].cnt_unused)
    BY <1>3, <1>4, <1>6, ChunkKept
  <2>2. IsList(nx, w2, r, ListAt(t, c), NULL, 0)
    BY <1>6, EmptyIs
  <2> QED BY <2>1, <2>2 DEF HeapOK
<1>8. RestOK(nx, w2, r, t, S2[t])
  <2>1. IsList(nx, w2, r, RestAt(t), hp[t][c].free_blk_list, hp[t][c].cnt_free)
    BY <1>2, <1>3, <1>4, <1>5, RenamedList
  <2> QED BY <2>1 DEF RestOK
<1>9. \A u \in Thread, d \in Class : HeapOK(nx, w2, r, u, d, hp2[u][d])
  BY <1>1, <1>4, <1>6, <1>7, Frame DEF HeapsBut
<1>10. \A q \in Pb : HdrOK(nx, w2, r, q, hd[q])
  BY <1>1, <1>4, <1>6, Frame DEF SameHdr
<1>11. \A u \in Thread : RestOK(nx, w2, r, u, S2[u]) /\ HandOK(nx, w2, r, u, R[u])
  BY <1>1, <1>4, <1>6, <1>8, Frame
<1>12. ASSUME NEW b \in Block PROVE Sited(w2, hd, R, o, bp, b)
  <2>1. Sited(w, hd, R, o, bp, b)
    BY <1>3
  <2>2. CASE w[b] # ListAt(t, c)
    BY <1>6, <2>1, <2>2, SitedKept
  <2>3. CASE w[b] = ListAt(t, c)
    <3>1. InCarved(hd, bp, b) /\ b \notin o
      BY <2>1, <2>3, Spots DEF Sited
    <3>2. /\ RestAt(t) \notin {Nowhere, Program}
          /\ \A q \in Pb : RestAt(t) \notin {FreeAt(q), UnusedAt(q), RemoteAt(q)}
          /\ \A u \in Thread : RestAt(t) # RunAt(u)
          /\ \A u \in Thread, d \in Class : RestAt(t) \notin {ListAt(u, d), ChunkAt(u, d)}
      BY ONLY t \in Thread
         DEF ListAt, ChunkAt, RunAt, RestAt, FreeAt, UnusedAt, RemoteAt, Nowhere, Program
    <3> QED BY <1>6, <2>3, <3>1, <3>2 DEF Sited
  <2> QED BY <2>2, <2>3
<1>13. w2 \in [Block -> Spot] /\ r \in [Block -> Nat]
  BY <1>1, <1>2, Spots DEF Placing, Renamed
<1> QED BY <1>9, <1>10, <1>11, <1>12, <1>13 DEF Placed, Placing

\* Block y gets the link h.
Relinked(nx, nx2, y, h) == nx2[y] = h /\ \A b \in Block : b # y => nx2[b] = nx[b]

LEMMA SegRelinked ==
  ASSUME NEW nx, NEW w, NEW r, NEW l, NEW h, NEW n, NEW z, IsSeg(nx, w, r, l, h, n, z),
         NEW y \in Block, w[y] = l, r[y] = 1,
         NEW nx2, \A b \in Block : b # y => nx2[b] = nx[b]
  PROVE  IsSeg(nx2, w, r, l, h, n, nx2[y])
<1>1. \A b \in Block : w[b] = l /\ r[b] = 1 => b = y
  BY DEF IsSeg
<1>2. \A b \in Block : w[b] = l /\ r[b] > 1 => nx2[b] = nx[b]
  <2>1. \A b \in Block : b = y => ~(r[b] > 1)
    OBVIOUS
  <2> QED BY <2>1
<1>3. ASSUME NEW b \in Block, w[b] = l
      PROVE  /\ r[b] \in 1 .. n
             /\ r[b] = 1 => nx2[b] = nx2[y]
             /\ r[b] > 1 => nx2[b] \in Block /\ w[nx2[b]] = l /\ r[nx2[b]] = r[b] - 1
  BY <1>1, <1>2, <1>3 DEF IsSeg
<1>4. /\ n \in Nat /\ h \in Ptr /\ (h = NULL <=> n = 0) /\ (n > 0 => w[h] = l /\ r[h] = n)
      /\ \A a, b \in Block : w[a] = l /\ w[b] = l /\ r[a] = r[b] => a = b
  BY DEF IsSeg
<1> QED BY <1>3, <1>4 DEF IsSeg

\* A thread links the last block of its run.
Links(nx, R, t, nx2, R2) ==
  /\ R[t].num # 0
  /\ LinksBut(R[t].last, nx, nx2)
  /\ ButOf(t, R, R2)
  /\ R2[t].num = R[t].num
  /\ R2[t].first = R[t].first
  /\ R2[t].last = R[t].last
  /\ R2[t].link \subseteq {nx2[R[t].last]}

LEMMA LinkMove ==
  ASSUME NEW nx, NEW hp, NEW hd, NEW R, NEW S, NEW o, NEW bp,
         Placed(nx, hp, hd, R, S, o, bp), NEW t \in Thread, NEW nx2, NEW R2,
         Links(nx, R, t, nx2, R2)
  PROVE  Placed(nx2, hp, hd, R2, S, o, bp)
<1> USE DEF Links, LinksBut, ButOf
<1>1. PICK w, r : Placing(w, r, nx, hp, hd, R, S, o, bp)
  BY DEF Placed
<1> DEFINE T == {RunAt(t)}
           y == R[t].last
<1>2. /\ y \in Block /\ w[y] = RunAt(t) /\ r[y] = 1
      /\ IsSeg(nx, w, r, RunAt(t), R[t].first, R[t].num, nx[y])
      /\ \A b \in Block : Sited(w, hd, R, o, bp, b)
      /\ w \in [Block -> Spot] /\ r \in [Block -> Nat]
  BY <1>1, Sides DEF HandOK, Placing
<1>3. Kept(T, nx, w, r, nx2, w, r)
  BY <1>2 DEF Kept
<1>4. /\ \A u \in Thread, d \in Class : ListAt(u, d) \notin T /\ ChunkAt(u, d) \notin T
      /\ \A q \in Pb : FreeAt(q) \notin T /\ RemoteAt(q) \notin T /\ UnusedAt(q) \notin T
      /\ \A u \in Thread : RestAt(u) \notin T
      /\ \A u \in Thread : u # t => RunAt(u) \notin T
  BY ONLY t \in Thread
     DEF ListAt, ChunkAt, RunAt, RestAt, FreeAt, UnusedAt, RemoteAt
<1>5. HandOK(nx2, w, r, t, R2[t])
  <2>1. IsSeg(nx2, w, r, RunAt(t), R[t].first, R[t].num, nx2[y])
    BY <1>2, SegRelinked
  <2> QED BY <1>2, <2>1 DEF HandOK
<1> HIDE DEF T
<1>6. \A u \in Thread, d \in Class : HeapOK(nx2, w, r, u, d, hp[u][d])
  BY <1>1, <1>3, <1>4, Frame DEF SameList
<1>7. \A q \in Pb : HdrOK(nx2, w, r, q, hd[q])
  BY <1>1, <1>3, <1>4, Frame DEF SameHdr
<1>8. \A u \in Thread : RestOK(nx2, w, r, u, S[u]) /\ HandOK(nx2, w, r, u, R2[u])
  BY <1>1, <1>3, <1>4, <1>5, Frame
<1>9. \A b \in Block : Sited(w, hd, R2, o, bp, b)
  <2>1. \A u \in Thread : R2[u].first[1] = R[u].first[1]
    OBVIOUS
  <2> QED BY <1>2, <2>1, SitedKept
<1> QED BY <1>2, <1>6, <1>7, <1>8, <1>9 DEF Placed, Placing

\* The run of thread t comes in front of the n blocks at l.
Lengthened(w, r, k, n) == [b \in Block |-> IF w[b] = k THEN r[b] + n ELSE r[b]]

LEMMA RunJoins ==
  ASSUME NEW nx, NEW w, NEW r, NEW t, NEW q, HandOK(nx, w, r, t, q), q.num # 0,
         NEW l, NEW h, NEW n, IsList(nx, w, r, l, h, n), l # RunAt(t),
         NEW nx2, Relinked(nx, nx2, q.last, h),
         NEW w2, w2 = Renamed(w, RunAt(t), l),
         NEW r2, r2 = Lengthened(w, r, RunAt(t), n)
  PROVE  /\ IsList(nx2, w2, r2, l, q.first, q.num + n)
         /\ Kept({RunAt(t), l}, nx, w, r, nx2, w2, r2) /\ Empty(w2, RunAt(t))
         /\ n \in Nat
<1> DEFINE k == RunAt(t)
           y == q.last
<1>1. /\ y \in Block /\ w[y] = k /\ r[y] = 1
      /\ IsSeg(nx, w, r, k, q.first, q.num, nx[y])
  BY DEF HandOK
<1>2. /\ \A b \in Block : w2[b] = IF w[b] = k THEN l ELSE w[b]
      /\ \A b \in Block : r2[b] = IF w[b] = k THEN r[b] + n ELSE r[b]
  BY DEF Renamed, Lengthened
<1>3. IsSeg(nx2, w, r, k, q.first, q.num, h)
  BY <1>1, SegRelinked DEF Relinked
<1> HIDE DEF k, y
<1>4. k # l
  BY DEF k
<1>5. JoinedOn(nx, w, r, nx2, w2, r2, k, l, n)
  BY <1>1, <1>2, <1>4 DEF JoinedOn, y, Relinked
<1>6. IsList(nx2, w2, r2, l, q.first, q.num + n)
  BY <1>3, <1>4, <1>5, SegJoined
<1>7. Kept({k, l}, nx, w, r, nx2, w2, r2)
  BY <1>1, <1>2 DEF Kept, y, Relinked
<1>8. Empty(w2, k) /\ n \in Nat
  BY <1>2, <1>4 DEF Empty, IsList, IsSeg
<1> QED BY <1>6, <1>7, <1>8 DEF k

\* Thread t has no run any more.
Handless(t, R, R2) == R2[t].num = 0 /\ \A u \in Thread : u # t => R2[u] = R[u]

\* ... on a list of its page block.
LEMMA RunReturned ==
  ASSUME NEW nx, NEW w, NEW r, NEW hp, NEW hd, NEW R, NEW S, NEW o, NEW bp,
         Placing(w, r, nx, hp, hd, R, S, o, bp),
         NEW t \in Thread, NEW p \in Pb, R[t].num # 0, R[t].first[1] = p,
         NEW l \in {FreeAt(p), RemoteAt(p)}, NEW h, NEW n, IsList(nx, w, r, l, h, n),
         NEW nx2, Relinked(nx, nx2, R[t].last, h),
         NEW w2, w2 = Renamed(w, RunAt(t), l),
         NEW r2, r2 = Lengthened(w, r, RunAt(t), n),
         NEW hd2, HdrsBut(p, hd, hd2), HdrOK(nx2, w2, r2, p, hd2[p]),
         NEW R2, Handless(t, R, R2)
  PROVE  Placed(nx2, hp, hd2, R2, S, o, bp)
<1> DEFINE T == {RunAt(t), l}
<1>1. /\ HandOK(nx, w, r, t, R[t]) /\ \A b \in Block : Sited(w, hd, R, o, bp, b)
      /\ w \in [Block -> Spot] /\ r \in [Block -> Nat]
  BY Sides DEF Placing
<1>2. /\ \A u \in Thread, d \in Class : ListAt(u, d) \notin T /\ ChunkAt(u, d) \notin T
      /\ \A q \in Pb : q # p => FreeAt(q) \notin T /\ RemoteAt(q) \notin T
      /\ \A q \in Pb : UnusedAt(q) \notin T
      /\ \A u \in Thread : RestAt(u) \notin T
      /\ \A u \in Thread : u # t => RunAt(u) \notin T
      /\ l # RunAt(t)
  BY ONLY t \in Thread, p \in Pb, l \in {FreeAt(p), RemoteAt(p)}
     DEF ListAt, ChunkAt, RunAt, RestAt, FreeAt, UnusedAt, RemoteAt
<1>3. Kept(T, nx, w, r, nx2, w2, r2) /\ Empty(w2, RunAt(t)) /\ n \in Nat
  BY <1>1, <1>2, RunJoins
<1> HIDE DEF T
<1>4. \A u \in Thread, d \in Class : HeapOK(nx2, w2, r2, u, d, hp[u][d])
  BY <1>2, <1>3, Frame DEF SameList
<1>5. \A q \in Pb : HdrOK(nx2, w2, r2, q, hd2[q])
  BY <1>2, <1>3, Frame DEF HdrsBut
<1>6. HandOK(nx2, w2, r2, t, R2[t])
  BY <1>3 DEF HandOK, Empty, Handless
<1>7. \A u \in Thread : RestOK(nx2, w2, r2, u, S[u]) /\ HandOK(nx2, w2, r2, u, R2[u])
  BY <1>2, <1>3, <1>6, Frame DEF Handless
<1>8. ASSUME NEW b \in Block PROVE Sited(w2, hd2, R2, o, bp, b)
  <2>1. Sited(w, hd, R, o, bp, b) /\ hd2[b[1]].sizeclass = hd[b[1]].sizeclass
    BY <1>1, Blocks DEF HdrsBut
  <2>2. w2[b] = IF w[b] = RunAt(t) THEN l ELSE w[b]
    BY DEF Renamed
  <2>3. CASE w[b] # RunAt(t)
    <3>1. \A u \in Thread : w[b] = RunAt(u) => R2[u].first[1] = R[u].first[1]
      BY <2>3 DEF Handless
    <3> QED BY <2>1, <2>2, <2>3, <3>1, SitedKept
  <2>4. CASE w[b] = RunAt(t)
    <3>0. RunAt(t) \notin {Nowhere, Program}
      BY DEF RunAt, Nowhere, Program
    <3>1. b[1] = p /\ InCarved(hd2, bp, b) /\ b \notin o
      BY <2>1, <2>4, <3>0 DEF Sited, InCarved
    <3>2. /\ l \notin {Nowhere, Program}
          /\ \A q \in Pb : l \in {FreeAt(q), UnusedAt(q), RemoteAt(q)} => p = q
          /\ \A u \in Thread : l # RunAt(u)
          /\ \A u \in Thread, d \in Class : l \notin {ListAt(u, d), ChunkAt(u, d)}
      BY ONLY p \in Pb, l \in {FreeAt(p), RemoteAt(p)}
         DEF ListAt, ChunkAt, RunAt, FreeAt, UnusedAt, RemoteAt, Nowhere, Program
    <3> QED BY <2>2, <2>4, <3>1, <3>2 DEF Sited
  <2> QED BY <2>3, <2>4
<1>9. w2 \in [Block -> Spot]
  BY <1>1, Spots DEF Renamed
<1>10. r2 \in [Block -> Nat]
  BY <1>1, <1>3 DEF Lengthened
<1> QED BY <1>4, <1>5, <1>7, <1>8, <1>9, <1>10 DEF Placed, Placing

\* A thread gives its run to the free list of a page block it owns.
AddsFree(nx, hd, R, t, p, nx2, hd2, R2) ==
  /\ R[t].num # 0
  /\ R[t].first[1] = p
  /\ Relinked(nx, nx2, R[t].last, hd[p].free_list)
  /\ HdrsBut(p, hd, hd2)
  /\ hd2[p].free_list = R[t].first
  /\ hd2[p].cnt_free = hd[p].cnt_free + R[t].num
  /\ hd2[p].remote = hd[p].remote
  /\ hd2[p].unallocated = hd[p].unallocated
  /\ hd2[p].cnt_unused = hd[p].cnt_unused
  /\ Handless(t, R, R2)

LEMMA AddFreeMove ==
  ASSUME NEW nx, NEW hp, NEW hd, NEW R, NEW S, NEW o, NEW bp,
         Placed(nx, hp, hd, R, S, o, bp), NEW t \in Thread, NEW p \in Pb,
         NEW nx2, NEW hd2, NEW R2, AddsFree(nx, hd, R, t, p, nx2, hd2, R2)
  PROVE  Placed(nx2, hp, hd2, R2, S, o, bp)
<1> USE DEF AddsFree
<1>1. PICK w, r : Placing(w, r, nx, hp, hd, R, S, o, bp)
  BY DEF Placed
<1> DEFINE l == FreeAt(p)
           n == hd[p].cnt_free
           T == {RunAt(t), l}
<1>2. /\ HandOK(nx, w, r, t, R[t])
      /\ IsList(nx, w, r, l, hd[p].free_list, n)
      /\ IsList(nx, w, r, RemoteAt(p), WordHead(p, hd[p].remote), hd[p].remote.cnt)
      /\ IsChunk(w, UnusedAt(p), hd[p].unallocated, hd[p].cnt_unused)
  BY <1>1, Sides
<1>3. PICK w2 : w2 = Renamed(w, RunAt(t), l)
  OBVIOUS
<1>4. PICK r2 : r2 = Lengthened(w, r, RunAt(t), n)
  OBVIOUS
<1>5. RemoteAt(p) \notin T /\ UnusedAt(p) \notin T /\ l # RunAt(t)
  BY DEF RunAt, FreeAt, UnusedAt, RemoteAt
<1> HIDE DEF l, n
<1>6. /\ IsList(nx2, w2, r2, l, R[t].first, R[t].num + n)
      /\ Kept(T, nx, w, r, nx2, w2, r2) /\ n \in Nat
  BY <1>2, <1>3, <1>4, <1>5, RunJoins DEF n
<1> HIDE DEF T
<1> USE DEF l, n
<1>7. HdrOK(nx2, w2, r2, p, hd2[p])
  <2>1. IsSeg(nx2, w2, r2, RemoteAt(p), WordHead(p, hd[p].remote), hd[p].remote.cnt, NULL)
    BY <1>2, <1>5, <1>6, SegKept DEF IsList
  <2>2. IsChunk(w2, UnusedAt(p), hd[p].unallocated, hd[p].cnt_unused)
    BY <1>2, <1>5, <1>6, ChunkKept
  <2>3. R[t].num \in Nat
    BY <1>2 DEF HandOK, IsSeg
  <2>4. R[t].num + n = hd2[p].cnt_free
    BY <1>6, <2>3
  <2> QED BY <1>6, <2>1, <2>2, <2>4 DEF HdrOK, IsList
<1>8. l \in {FreeAt(p), RemoteAt(p)}
  OBVIOUS
<1>9. /\ R[t].num # 0 /\ R[t].first[1] = p
      /\ Relinked(nx, nx2, R[t].last, hd[p].free_list)
      /\ HdrsBut(p, hd, hd2) /\ Handless(t, R, R2)
  OBVIOUS
<1>10. IsList(nx, w, r, l, hd[p].free_list, n)
  BY <1>2
<1> HIDE DEF l, n, AddsFree
<1> QED BY <1>1, <1>3, <1>4, <1>7, <1>8, <1>9, <1>10, RunReturned

\* A thread pushes its run on the remote list of its page block.
Pushes(nx, hd, R, t, p, hd2, R2) ==
  /\ R[t].num # 0
  /\ R[t].first[1] = p
  /\ nx[R[t].last] = WordHead(p, hd[p].remote)
  /\ HdrsBut(p, hd, hd2)
  /\ hd2[p].remote = [head |-> R[t].first[2], cnt |-> hd[p].remote.cnt + R[t].num]
  /\ hd2[p].free_list = hd[p].free_list
  /\ hd2[p].cnt_free = hd[p].cnt_free
  /\ hd2[p].unallocated = hd[p].unallocated
  /\ hd2[p].cnt_unused = hd[p].cnt_unused
  /\ Handless(t, R, R2)

LEMMA PushMove ==
  ASSUME NEW nx, NEW hp, NEW hd, NEW R, NEW S, NEW o, NEW bp,
         Placed(nx, hp, hd, R, S, o, bp), NEW t \in Thread, NEW p \in Pb,
         NEW hd2, NEW R2, Pushes(nx, hd, R, t, p, hd2, R2)
  PROVE  Placed(nx, hp, hd2, R2, S, o, bp)
<1> USE DEF Pushes
<1>1. PICK w, r : Placing(w, r, nx, hp, hd, R, S, o, bp)
  BY DEF Placed
<1> DEFINE l == RemoteAt(p)
           n == hd[p].remote.cnt
           T == {RunAt(t), l}
<1>2. /\ HandOK(nx, w, r, t, R[t])
      /\ IsList(nx, w, r, l, WordHead(p, hd[p].remote), n)
      /\ IsList(nx, w, r, FreeAt(p), hd[p].free_list, hd[p].cnt_free)
      /\ IsChunk(w, UnusedAt(p), hd[p].unallocated, hd[p].cnt_unused)
  BY <1>1, Sides
<1>3. PICK w2 : w2 = Renamed(w, RunAt(t), l)
  OBVIOUS
<1>4. PICK r2 : r2 = Lengthened(w, r, RunAt(t), n)
  OBVIOUS
<1>5. FreeAt(p) \notin T /\ UnusedAt(p) \notin T /\ l # RunAt(t)
  BY DEF RunAt, FreeAt, UnusedAt, RemoteAt
<1>6. Relinked(nx, nx, R[t].last, WordHead(p, hd[p].remote))
  BY DEF Relinked
<1> HIDE DEF l, n
<1> HIDE DEF Pushes
<1>7. /\ IsList(nx, w2, r2, l, R[t].first, R[t].num + n)
      /\ Kept(T, nx, w, r, nx, w2, r2) /\ n \in Nat
  <2>1. R[t].num # 0
    BY DEF Pushes
  <2> QED BY <1>2, <1>3, <1>4, <1>5, <1>6, <2>1, RunJoins
<1> HIDE DEF T
<1> USE DEF l, n, Pushes
<1>8. HdrOK(nx, w2, r2, p, hd2[p])
  <2>1. IsSeg(nx, w2, r2, FreeAt(p), hd[p].free_list, hd[p].cnt_free, NULL)
    BY <1>2, <1>5, <1>7, SegKept DEF IsList
  <2>2. IsChunk(w2, UnusedAt(p), hd[p].unallocated, hd[p].cnt_unused)
    BY <1>2, <1>5, <1>7, ChunkKept
  <2>3. R[t].num \in Nat /\ R[t].first \in Block
    BY <1>2 DEF HandOK, IsSeg, Ptr
  <2>4. WordHead(p, hd2[p].remote) = R[t].first /\ hd2[p].remote.cnt = R[t].num + n
    <3>1. R[t].first = <<p, R[t].first[2]>>
      BY <2>3, Blocks
    <3> QED BY <1>7, <2>3, <3>1 DEF WordHead
  <2> QED BY <1>7, <2>1, <2>2, <2>4 DEF HdrOK, IsList
<1>9. l \in {FreeAt(p), RemoteAt(p)}
  OBVIOUS
<1>10. /\ R[t].num # 0 /\ R[t].first[1] = p
       /\ HdrsBut(p, hd, hd2) /\ Handless(t, R, R2)
  OBVIOUS
<1>11. IsList(nx, w, r, l, WordHead(p, hd[p].remote), n)
  BY <1>2
<1> HIDE DEF l, n, Pushes
<1> QED BY <1>1, <1>3, <1>4, <1>6, <1>8, <1>9, <1>10, <1>11, RunReturned

\* The run of a thread comes in front of its list of the class.
Keeps(nx, hp, hd, R, t, c, nx2, hp2, R2) ==
  /\ R[t].num # 0
  /\ hd[R[t].first[1]].sizeclass = c
  /\ Relinked(nx, nx2, R[t].last, hp[t][c].free_blk_list)
  /\ HeapsBut(t, c, hp, hp2)
  /\ hp2[t][c].free_blk_list = R[t].first
  /\ hp2[t][c].cnt_free = hp[t][c].cnt_free + R[t].num
  /\ hp2[t][c].ptr_to_unused = hp[t][c].ptr_to_unused
  /\ hp2[t][c].cnt_unused = hp[t][c].cnt_unused
  /\ Handless(t, R, R2)

LEMMA KeepMove ==
  ASSUME NEW nx, NEW hp, NEW hd, NEW R, NEW S, NEW o, NEW bp,
         Placed(nx, hp, hd, R, S, o, bp), NEW t \in Thread, NEW c \in Class,
         NEW nx2, NEW hp2, NEW R2, Keeps(nx, hp, hd, R, t, c, nx2, hp2, R2)
  PROVE  Placed(nx2, hp2, hd, R2, S, o, bp)
<1> USE DEF Keeps
<1>1. PICK w, r : Placing(w, r, nx, hp, hd, R, S, o, bp)
  BY DEF Placed
<1> DEFINE l == ListAt(t, c)
           n == hp[t][c].cnt_free
           T == {RunAt(t), l}
<1>2. /\ HandOK(nx, w, r, t, R[t])
      /\ IsList(nx, w, r, l, hp[t][c].free_blk_list, n)
      /\ IsChunk(w, ChunkAt(t, c), hp[t][c].ptr_to_unused, hp[t][c].cnt_unused)
      /\ \A b \in Block : Sited(w, hd, R, o, bp, b)
      /\ w \in [Block -> Spot] /\ r \in [Block -> Nat]
  BY <1>1, Sides
<1>3. PICK w2 : w2 = Renamed(w, RunAt(t), l)
  OBVIOUS
<1>4. PICK r2 : r2 = Lengthened(w, r, RunAt(t), n)
  OBVIOUS
<1>5. /\ \A u \in Thread, d \in Class : u # t \/ d # c => ListAt(u, d) \notin T
      /\ \A u \in Thread, d \in Class : ChunkAt(u, d) \notin T
      /\ \A q \in Pb : FreeAt(q) \notin T /\ RemoteAt(q) \notin T /\ UnusedAt(q) \notin T
      /\ \A u \in Thread : RestAt(u) \notin T
      /\ \A u \in Thread : u # t => RunAt(u) \notin T
      /\ l # RunAt(t)
  BY ONLY t \in Thread, c \in Class
     DEF ListAt, ChunkAt, RunAt, RestAt, FreeAt, UnusedAt, RemoteAt
<1> HIDE DEF l, n
<1>6. /\ IsList(nx2, w2, r2, l, R[t].first, R[t].num + n)
      /\ Kept(T, nx, w, r, nx2, w2, r2) /\ Empty(w2, RunAt(t)) /\ n \in Nat
  BY <1>2, <1>3, <1>4, <1>5, RunJoins DEF n
<1> HIDE DEF T
<1> USE DEF l, n
<1>7. HeapOK(nx2, w2, r2, t, c, hp2[t][c])
  <2>1. IsChunk(w2, ChunkAt(t, c), hp[t][c].ptr_to_unused, hp[t][c].cnt_unused)
    BY <1>2, <1>5, <1>6, ChunkKept
  <2>2. R[t].num \in Nat
    BY <1>2 DEF HandOK, IsSeg
  <2>3. R[t].num + n = hp2[t][c].cnt_free
    BY <1>6, <2>2
  <2> QED BY <1>6, <2>1, <2>3 DEF HeapOK
<1>8. \A u \in Thread, d \in Class : HeapOK(nx2, w2, r2, u, d, hp2[u][d])
  BY <1>1, <1>5, <1>6, <1>7, Frame DEF HeapsBut
<1>9. \A q \in Pb : HdrOK(nx2, w2, r2, q, hd[q])
  BY <1>1, <1>5, <1>6, Frame DEF SameHdr
<1>10. HandOK(nx2, w2, r2, t, R2[t])
  BY <1>6 DEF HandOK, Empty, Handless
<1>11. \A u \in Thread : RestOK(nx2, w2, r2, u, S[u]) /\ HandOK(nx2, w2, r2, u, R2[u])
  BY <1>1, <1>5, <1>6, <1>10, Frame DEF Handless
<1>12. ASSUME NEW b \in Block PROVE Sited(w2, hd, R2, o, bp, b)
  <2>1. Sited(w, hd, R, o, bp, b)
    BY <1>2
  <2>2. w2[b] = IF w[b] = RunAt(t) THEN l ELSE w[b]
    BY <1>3 DEF Renamed
  <2>3. CASE w[b] # RunAt(t)
    <3>1. \A u \in Thread : w[b] = RunAt(u) => R2[u].first[1] = R[u].first[1]
      BY <2>3 DEF Handless
    <3> QED BY <2>1, <2>2, <2>3, <3>1, SitedKept
  <2>4. CASE w[b] = RunAt(t)
    <3>1. RunAt(t) \notin {Nowhere, Program}
      BY DEF RunAt, Nowhere, Program
    <3>2. b[1] = R[t].first[1] /\ InCarved(hd, bp, b) /\ b \notin o
      BY <2>1, <2>4, <3>1 DEF Sited
    <3>3. /\ l \notin {Nowhere, Program}
          /\ \A q \in Pb : l \notin {FreeAt(q), UnusedAt(q), RemoteAt(q)}
          /\ \A u \in Thread : l # RunAt(u)
          /\ \A u \in Thread, d \in Class : l \in {ListAt(u, d), ChunkAt(u, d)} => d = c
      BY ONLY t \in Thread, c \in Class
         DEF ListAt, ChunkAt, RunAt, FreeAt, UnusedAt, RemoteAt, Nowhere, Program
    <3> HIDE DEF l
    <3> QED BY <2>2, <2>4, <3>2, <3>3 DEF Sited
  <2> QED BY <2>3, <2>4
<1>13. w2 \in [Block -> Spot]
  BY <1>2, <1>3, Spots DEF Renamed
<1>14. r2 \in [Block -> Nat]
  BY <1>2, <1>4, <1>6 DEF Lengthened
<1> QED BY <1>8, <1>9, <1>11, <1>12, <1>13, <1>14 DEF Placed, Placing

\* The program gives back block b.
GetsBack(R, t, b, R2) ==
  /\ R[t].num = 0
  /\ ButOf(t, R, R2)
  /\ R2[t].num = 1
  /\ R2[t].first = b
  /\ R2[t].last = b
  /\ R2[t].link = {}

LEMMA HandMove ==
  ASSUME NEW nx, NEW hp, NEW hd, NEW R, NEW S, NEW o \in SUBSET Block,
         NEW bp, Placed(nx, hp, hd, R, S, o, bp), NEW t \in Thread,
         NEW b \in o, NEW R2, GetsBack(R, t, b, R2)
  PROVE  Placed(nx, hp, hd, R2, S, o \ {b}, bp) /\ InCarved(hd, bp, b)
<1> USE DEF GetsBack, ButOf
<1>1. PICK w, r : Placing(w, r, nx, hp, hd, R, S, o, bp)
  BY DEF Placed
<1>2. /\ HandOK(nx, w, r, t, R[t])
      /\ \A x \in Block : Sited(w, hd, R, o, bp, x)
      /\ w \in [Block -> Spot] /\ r \in [Block -> Nat] /\ b \in Block
  BY <1>1, Sides
<1> DEFINE T == {RunAt(t), Program}
           o2 == o \ {b}
<1>3. PICK w2 : w2 = [w EXCEPT ![b] = RunAt(t)]
  OBVIOUS
<1>4. PICK r2 : r2 = [r EXCEPT ![b] = 1]
  OBVIOUS
<1>5. /\ \A u \in Thread, d \in Class : ListAt(u, d) \notin T /\ ChunkAt(u, d) \notin T
      /\ \A q \in Pb : FreeAt(q) \notin T /\ RemoteAt(q) \notin T /\ UnusedAt(q) \notin T
      /\ \A u \in Thread : RestAt(u) \notin T
      /\ \A u \in Thread : u # t => RunAt(u) \notin T
      /\ RunAt(t) \notin {Program, Nowhere} /\ Program # Nowhere
      /\ \A q \in Pb : RunAt(t) \notin {FreeAt(q), UnusedAt(q), RemoteAt(q)}
      /\ \A u \in Thread : RunAt(u) = RunAt(t) => u = t
      /\ \A u \in Thread, d \in Class : RunAt(t) \notin {ListAt(u, d), ChunkAt(u, d)}
  BY ONLY t \in Thread
     DEF ListAt, ChunkAt, RunAt, RestAt, FreeAt, UnusedAt, RemoteAt, Nowhere, Program
<1>6. /\ \A x \in Block : w2[x] = IF x = b THEN RunAt(t) ELSE w[x]
      /\ \A x \in Block : r2[x] = IF x = b THEN 1 ELSE r[x]
  BY <1>2, <1>3, <1>4
<1>7. w[b] = Program /\ \A x \in Block : w[x] # RunAt(t)
  BY <1>2 DEF Sited, HandOK
<1>8. Kept(T, nx, w, r, nx, w2, r2)
  BY <1>6, <1>7 DEF Kept
<1>9. HandOK(nx, w2, r2, t, R2[t])
  <2>1. \A x \in Block : w2[x] = RunAt(t) <=> x = b
    BY <1>6, <1>7
  <2>2. IsSeg(nx, w2, r2, RunAt(t), b, 1, nx[b])
    BY <1>2, <1>6, <2>1, Blocks DEF IsSeg, Ptr
  <2> QED BY <1>2, <1>6, <2>2 DEF HandOK
<1> HIDE DEF T
<1>10. \A u \in Thread, d \in Class : HeapOK(nx, w2, r2, u, d, hp[u][d])
  BY <1>1, <1>5, <1>8, Frame DEF SameList
<1>11. \A q \in Pb : HdrOK(nx, w2, r2, q, hd[q])
  BY <1>1, <1>5, <1>8, Frame DEF SameHdr
<1>12. \A u \in Thread : RestOK(nx, w2, r2, u, S[u]) /\ HandOK(nx, w2, r2, u, R2[u])
  BY <1>1, <1>5, <1>8, <1>9, Frame
<1>13. InCarved(hd, bp, b)
  BY <1>2, <1>5, <1>7 DEF Sited
<1>14. ASSUME NEW x \in Block PROVE Sited(w2, hd, R2, o2, bp, x)
  <2>1. CASE x # b
    <3>1. Sited(w, hd, R, o, bp, x) /\ w2[x] = w[x]
      BY <1>2, <1>6, <2>1
    <3>2. \A u \in Thread : w[x] = RunAt(u) => R2[u].first[1] = R[u].first[1]
      BY <1>7
    <3> QED BY <2>1, <3>1, <3>2, SitedKept
  <2>2. CASE x = b
    <3>1. w2[x] = RunAt(t) /\ x \notin o2 /\ InCarved(hd, bp, x) /\ x[1] = R2[t].first[1]
      BY <1>6, <1>13, <2>2
    <3> HIDE DEF o2
    <3> QED BY <1>5, <3>1 DEF Sited
  <2> QED BY <2>1, <2>2
<1>15. w2 \in [Block -> Spot] /\ r2 \in [Block -> Nat]
  BY <1>2, <1>3, <1>4, Spots
<1> QED BY <1>10, <1>11, <1>12, <1>13, <1>14, <1>15 DEF Placed, Placing

\* The m blocks from a[0] on lie in page block p.
InOnePage(a, m, p) == \A k \in 0 .. m - 1 : a[k] # NULL /\ a[k][1] = p

\* A thread takes the first m blocks of what it is returning as a run: those
\* of one page block.
SplitsOff(nx, R, S, t, N, a, m, R2, S2) ==
  /\ N \in Nat /\ m \in 1 .. N
  /\ S[t] # NULL
  /\ R[t].num = 0
  /\ IsWalk(nx, a, N, S[t])
  /\ InOnePage(a, m, S[t][1])
  /\ ButOf(t, R, R2)
  /\ R2[t].num = m
  /\ R2[t].first = S[t]
  /\ R2[t].last = a[m - 1]
  /\ R2[t].link = {}
  /\ S2[t] = a[m]
  /\ ButOf(t, S, S2)

LEMMA SplitMove ==
  ASSUME NEW nx, NEW hp, NEW hd, NEW R, NEW S, NEW o, NEW bp,
         Placed(nx, hp, hd, R, S, o, bp), NEW t \in Thread, NEW N,
         NEW a, NEW m, NEW R2, NEW S2,
         SplitsOff(nx, R, S, t, N, a, m, R2, S2)
  PROVE  Placed(nx, hp, hd, R2, S2, o, bp)
<1> USE DEF SplitsOff, ButOf, InOnePage
<1>1. PICK w, r : Placing(w, r, nx, hp, hd, R, S, o, bp)
  BY DEF Placed
<1>2. /\ HandOK(nx, w, r, t, R[t]) /\ RestOK(nx, w, r, t, S[t])
      /\ \A b \in Block : Sited(w, hd, R, o, bp, b)
      /\ w \in [Block -> Spot] /\ r \in [Block -> Nat]
  BY <1>1, Sides
<1>3. PICK n : IsList(nx, w, r, RestAt(t), S[t], n)
  BY <1>2 DEF RestOK
<1>4. n \in Nat /\ m \in Nat \ {0} /\ \A b \in Block : w[b] = RestAt(t) => r[b] \in 1 .. n
  BY <1>3 DEF IsList, IsSeg
<1>5. /\ \A k \in 0 .. N : k < n => a[k] \in Block /\ w[a[k]] = RestAt(t) /\ r[a[k]] = n - k
      /\ \A k \in 0 .. N : k >= n => a[k] = NULL
  BY <1>3, WalkList
<1>6. m - 1 \in 0 .. N /\ m \in 0 .. N /\ m - 1 \in 0 .. m - 1
  BY <1>4
<1>7. m \in 1 .. n
  BY <1>4, <1>5, <1>6
<1> DEFINE k == RunAt(t)
           l == RestAt(t)
           y == a[m - 1]
           T == {RunAt(t), RestAt(t)}
<1>8. y \in Block /\ w[y] = l /\ r[y] = n - m + 1
  BY <1>4, <1>5, <1>6, <1>7
<1>9. nx[y] = a[m]
  <2>1. a[(m - 1) + 1] = IF a[m - 1] = NULL THEN NULL ELSE nx[a[m - 1]]
    BY <1>4 DEF IsWalk
  <2> QED BY <1>4, <1>6, <2>1
<1>10. \A b \in Block : w[b] # k
  BY <1>2 DEF HandOK
<1>11. PICK w2 : w2 = [b \in Block |-> IF w[b] = l /\ r[b] > n - m THEN k ELSE w[b]]
  OBVIOUS
<1>12. PICK r2 : r2 = [b \in Block |-> IF w[b] = l /\ r[b] > n - m THEN r[b] - (n - m) ELSE r[b]]
  OBVIOUS
<1>13. /\ \A u \in Thread, d \in Class : ListAt(u, d) \notin T /\ ChunkAt(u, d) \notin T
       /\ \A q \in Pb : FreeAt(q) \notin T /\ RemoteAt(q) \notin T /\ UnusedAt(q) \notin T
       /\ \A u \in Thread : u # t => RestAt(u) \notin T /\ RunAt(u) \notin T
       /\ k # l /\ k \notin {Nowhere, Program} /\ l \notin {Nowhere, Program}
       /\ \A q \in Pb : k \notin {FreeAt(q), UnusedAt(q), RemoteAt(q)}
       /\ \A u \in Thread : RunAt(u) = k => u = t
       /\ \A u \in Thread, d \in Class : k \notin {ListAt(u, d), ChunkAt(u, d)}
  BY ONLY t \in Thread
     DEF ListAt, ChunkAt, RunAt, RestAt, FreeAt, UnusedAt, RemoteAt, Nowhere, Program
<1> HIDE DEF k, l, y
<1>14. /\ \A b \in Block : w2[b] = IF w[b] = l /\ r[b] > n - m THEN k ELSE w[b]
       /\ \A b \in Block : r2[b] = IF w[b] = l /\ r[b] > n - m THEN r[b] - (n - m) ELSE r[b]
  BY <1>11, <1>12
<1>15. SplitOff(w, r, w2, r2, k, l, m, n)
  <2>1. \A b \in Block : r[b] \in Nat
    BY <1>2
  <2>2. n - m \in Nat
    BY <1>7, <1>4
  <2> QED BY <1>10, <1>13, <1>14, <2>1, <2>2 DEF SplitOff
<1>16. /\ IsSeg(nx, w2, r2, k, S[t], m, nx[y]) /\ w2[y] = k /\ r2[y] = 1
       /\ IsList(nx, w2, r2, l, nx[y], n - m)
  BY <1>3, <1>7, <1>8, <1>13, <1>15, SegSplit DEF l
<1>17. HandOK(nx, w2, r2, t, R2[t]) /\ RestOK(nx, w2, r2, t, S2[t])
  BY <1>4, <1>8, <1>9, <1>16 DEF HandOK, RestOK, k, l, y
<1>18. Kept(T, nx, w, r, nx, w2, r2)
  BY <1>14 DEF Kept, k, l
<1> HIDE DEF T
<1>19. \A u \in Thread, d \in Class : HeapOK(nx, w2, r2, u, d, hp[u][d])
  BY <1>1, <1>13, <1>18, Frame DEF SameList
<1>20. \A q \in Pb : HdrOK(nx, w2, r2, q, hd[q])
  BY <1>1, <1>13, <1>18, Frame DEF SameHdr
<1>21. \A u \in Thread : RestOK(nx, w2, r2, u, S2[u]) /\ HandOK(nx, w2, r2, u, R2[u])
  BY <1>1, <1>13, <1>17, <1>18, Frame
<1>22. ASSUME NEW b \in Block PROVE Sited(w2, hd, R2, o, bp, b)
  <2>1. Sited(w, hd, R, o, bp, b)
    BY <1>2
  <2>2. CASE ~ (w[b] = l /\ r[b] > n - m)
    <3>1. w2[b] = w[b] /\ \A u \in Thread : w[b] = RunAt(u) => R2[u].first[1] = R[u].first[1]
      BY <1>10, <1>14, <2>2 DEF k
    <3> QED BY <2>1, <3>1, SitedKept
  <2>3. CASE w[b] = l /\ r[b] > n - m
    <3>1. InCarved(hd, bp, b) /\ b \notin o /\ w2[b] = k
      BY <1>13, <1>14, <2>1, <2>3 DEF Sited
    <3>2. n - r[b] \in 0 .. N /\ n - r[b] < n /\ n - r[b] \in 0 .. m - 1 /\ n - (n - r[b]) = r[b]
      BY <1>4, <1>6, <1>7, <2>3 DEF l
    <3>3. /\ a[n - r[b]] \in Block /\ w[a[n - r[b]]] = l /\ r[a[n - r[b]]] = r[b]
          /\ a[n - r[b]][1] = S[t][1]
      BY <1>5, <3>2 DEF l
    <3>4. a[n - r[b]] = b
      BY <1>3, <2>3, <3>3 DEF IsList, IsSeg, l
    <3> QED BY <1>13, <3>1, <3>3, <3>4 DEF Sited
  <2> QED BY <2>2, <2>3
<1>23. w2 \in [Block -> Spot] /\ r2 \in [Block -> Nat]
  <2>1. k \in Spot
    BY Spots DEF k
  <2>2. \A b \in Block : r2[b] \in Nat
    BY <1>2, <1>4, <1>7, <1>14
  <2> QED BY <1>2, <1>11, <1>12, <2>1, <2>2
<1> QED BY <1>19, <1>20, <1>21, <1>22, <1>23 DEF Placed, Placing

\* The blocks of a page block have numbers.
Fit(bp) == \A d \in Class : bp[d] \in Nat \ {0} /\ \A i \in 0 .. bp[d] - 1 : i \in Index

\* Page block p comes to be of class c.
Cut(p, c, hd, hd2) ==
  /\ \A q \in Pb : /\ SameHdr(hd2[q], hd[q])
                   /\ q # p => hd2[q].sizeclass = hd[q].sizeclass
  /\ hd2[p].sizeclass = c

\* A free page block is cut for a class: all its blocks are a thread's chunk.
CutsNew(hp, hd, bp, t, c, p, hp2, hd2) ==
  /\ hd[p].sizeclass = 0
  /\ hp[t][c].ptr_to_unused = NULL
  /\ Fit(bp)
  /\ HeapsBut(t, c, hp, hp2)
  /\ hp2[t][c].free_blk_list = hp[t][c].free_blk_list
  /\ hp2[t][c].cnt_free = hp[t][c].cnt_free
  /\ hp2[t][c].ptr_to_unused = <<p, 0>>
  /\ hp2[t][c].cnt_unused = bp[c]
  /\ Cut(p, c, hd, hd2)

LEMMA NewPbhMove ==
  ASSUME NEW nx, NEW hp, NEW hd, NEW R, NEW S, NEW o, NEW bp,
         Placed(nx, hp, hd, R, S, o, bp), NEW t \in Thread, NEW c \in Class,
         NEW p \in Pb, NEW hp2, NEW hd2,
         CutsNew(hp, hd, bp, t, c, p, hp2, hd2)
  PROVE  Placed(nx, hp2, hd2, R, S, o, bp)
<1> USE DEF CutsNew, Cut, Fit
<1>1. PICK w, r : Placing(w, r, nx, hp, hd, R, S, o, bp)
  BY DEF Placed
<1> DEFINE New(b) == b[1] = p /\ b[2] \in 0 .. bp[c] - 1
           l == ChunkAt(t, c)
           T == {Nowhere, ChunkAt(t, c)}
<1>2. /\ IsList(nx, w, r, ListAt(t, c), hp[t][c].free_blk_list, hp[t][c].cnt_free)
      /\ IsChunk(w, l, NULL, hp[t][c].cnt_unused)
      /\ \A b \in Block : Sited(w, hd, R, o, bp, b)
      /\ w \in [Block -> Spot] /\ r \in [Block -> Nat]
  BY <1>1, Sides
<1>3. PICK w2 : w2 = [b \in Block |-> IF New(b) THEN l ELSE w[b]]
  OBVIOUS
<1>4. /\ \A u \in Thread, d \in Class : u # t \/ d # c => ChunkAt(u, d) \notin T
      /\ \A u \in Thread, d \in Class : ListAt(u, d) \notin T
      /\ \A q \in Pb : FreeAt(q) \notin T /\ RemoteAt(q) \notin T /\ UnusedAt(q) \notin T
      /\ \A u \in Thread : RestAt(u) \notin T /\ RunAt(u) \notin T
      /\ l \notin {Nowhere, Program} /\ Nowhere # Program
      /\ \A q \in Pb : l \notin {FreeAt(q), UnusedAt(q), RemoteAt(q)}
      /\ \A q \in Pb : Nowhere \notin {FreeAt(q), UnusedAt(q), RemoteAt(q)}
      /\ \A u \in Thread : RunAt(u) \notin {l, Nowhere}
      /\ \A u \in Thread, d \in Class : l \in {ListAt(u, d), ChunkAt(u, d)} => d = c
      /\ \A u \in Thread, d \in Class : Nowhere \notin {ListAt(u, d), ChunkAt(u, d)}
  BY ONLY t \in Thread, c \in Class
     DEF ListAt, ChunkAt, RunAt, RestAt, FreeAt, UnusedAt, RemoteAt, Nowhere, Program
<1> HIDE DEF l
<1>5. Empty(w, l)
  BY <1>2, NullIsEmpty
<1>6. \A b \in Block : b[1] = p => ~ InCarved(hd, bp, b) /\ w[b] = Nowhere
  BY <1>2 DEF InCarved, Sited
<1>7. Kept(T, nx, w, r, nx, w2, r)
  BY <1>3, <1>6 DEF Kept, l
<1> HIDE DEF T
<1>8. HeapOK(nx, w2, r, t, c, hp2[t][c])
  <2>1. IsSeg(nx, w2, r, ListAt(t, c), hp[t][c].free_blk_list, hp[t][c].cnt_free, NULL)
    BY <1>2, <1>4, <1>7, SegKept DEF IsList
  <2>2. IsChunk(w2, l, <<p, 0>>, bp[c])
    <3>1. \A i \in 0 .. bp[c] - 1 : <<p, i>> \in Block
      BY Blocks
    <3>2. <<p, 0>> \in Ptr /\ <<p, 0>> # NULL
      BY <3>1, Blocks DEF Ptr
    <3>3. ASSUME NEW x \in Block, w2[x] = l PROVE x[1] = p /\ x[2] - 0 \in 0 .. bp[c] - 1
      BY <1>3, <1>5, <3>3, Blocks DEF Empty
    <3>4. ASSUME NEW k \in 0 .. bp[c] - 1 PROVE <<p, 0 + k>> \in Block /\ w2[<<p, 0 + k>>] = l
      BY <1>3, <3>1
    <3> QED BY <3>2, <3>3, <3>4 DEF IsChunk
  <2> QED BY <2>1, <2>2 DEF HeapOK, IsList, l
<1>9. \A u \in Thread, d \in Class : HeapOK(nx, w2, r, u, d, hp2[u][d])
  BY <1>1, <1>4, <1>7, <1>8, Frame DEF HeapsBut
<1>10. \A q \in Pb : HdrOK(nx, w2, r, q, hd2[q])
  BY <1>1, <1>4, <1>7, Frame
<1>11. \A u \in Thread : RestOK(nx, w2, r, u, S[u]) /\ HandOK(nx, w2, r, u, R[u])
  BY <1>1, <1>4, <1>7, Frame
<1>12. ASSUME NEW b \in Block PROVE Sited(w2, hd2, R, o, bp, b)
  <2>1. Sited(w, hd, R, o, bp, b) /\ b[1] \in Pb /\ b[2] \in Nat
    BY <1>2, Blocks
  <2>2. CASE b[1] # p
    BY <1>3, <2>1, <2>2, SitedKept
  <2>3. CASE b[1] = p
    <3>1. b \notin o /\ hd2[b[1]].sizeclass = c /\ c # 0
      BY <1>4, <1>6, <2>1, <2>3 DEF Sited, Class
    <3>2. CASE New(b)
      <4>1. w2[b] = l /\ InCarved(hd2, bp, b)
        BY <1>3, <3>1, <3>2 DEF InCarved
      <4> QED BY <1>4, <3>1, <4>1 DEF Sited
    <3>3. CASE ~New(b)
      <4>1. w2[b] = Nowhere /\ ~InCarved(hd2, bp, b)
        BY <1>3, <1>6, <2>3, <3>1, <3>3 DEF InCarved
      <4> QED BY <1>4, <3>1, <4>1 DEF Sited
    <3> QED BY <3>2, <3>3
  <2> QED BY <2>2, <2>3
<1>13. w2 \in [Block -> Spot]
  BY <1>2, <1>3, Spots DEF l
<1> QED BY <1>2, <1>9, <1>10, <1>11, <1>12, <1>13 DEF Placed, Placing

\* Page blocks W become free.
Freed(W, nx, hd, nx2, hd2) ==
  /\ \A b \in Block : nx2[b] = IF b[1] \in W THEN NULL ELSE nx[b]
  /\ \A p \in Pb : hd2[p] = IF p \in W THEN FreePbh ELSE hd[p]

\* All their blocks are in their headers, or at the places X, ...
OnlyAt(W, X, w, hd, bp) ==
  /\ \A b \in Block : b[1] \in W /\ InCarved(hd, bp, b) =>
       w[b] \in {FreeAt(b[1]), UnusedAt(b[1]), RemoteAt(b[1])} \cup X
  /\ \A b \in Block : w[b] \in X => b[1] \in W

\* ... which are empty then.
Vacated(X, t, c, h, k, R, R2) ==
  /\ k.free_blk_list = h.free_blk_list /\ k.cnt_free = h.cnt_free
  /\ IF ChunkAt(t, c) \in X THEN k.ptr_to_unused = NULL /\ k.cnt_unused = 0
     ELSE k.ptr_to_unused = h.ptr_to_unused /\ k.cnt_unused = h.cnt_unused
  /\ IF RunAt(t) \in X THEN Handless(t, R, R2) ELSE R2 = R

LEMMA FreePagesMove ==
  ASSUME NEW nx, NEW w, NEW r, NEW hp, NEW hd, NEW R, NEW S, NEW o, NEW bp,
         Placing(w, r, nx, hp, hd, R, S, o, bp),
         NEW W, W \subseteq Pb, NEW t \in Thread, NEW c \in Class,
         NEW X, X \subseteq {RunAt(t), ChunkAt(t, c)}, OnlyAt(W, X, w, hd, bp),
         NEW nx2, NEW hd2, Freed(W, nx, hd, nx2, hd2),
         NEW hp2, HeapsBut(t, c, hp, hp2),
         NEW R2, Vacated(X, t, c, hp[t][c], hp2[t][c], R, R2)
  PROVE  Placed(nx2, hp2, hd2, R2, S, o, bp)
<1> USE DEF OnlyAt, Freed, Vacated
<1> DEFINE H == {FreeAt(p) : p \in W} \cup {UnusedAt(p) : p \in W} \cup {RemoteAt(p) : p \in W}
           T == {Nowhere} \cup X \cup H
<1>1. /\ IsList(nx, w, r, ListAt(t, c), hp[t][c].free_blk_list, hp[t][c].cnt_free)
      /\ IsChunk(w, ChunkAt(t, c), hp[t][c].ptr_to_unused, hp[t][c].cnt_unused)
      /\ \A b \in Block : Sited(w, hd, R, o, bp, b)
      /\ w \in [Block -> Spot] /\ r \in [Block -> Nat]
  BY Sides
<1>2. PICK w2 : w2 = [b \in Block |-> IF b[1] \in W THEN Nowhere ELSE w[b]]
  OBVIOUS
<1>3. /\ \A u \in Thread, d \in Class : ListAt(u, d) \notin T
      /\ \A u \in Thread, d \in Class : u # t \/ d # c => ChunkAt(u, d) \notin T
      /\ \A q \in Pb \ W : FreeAt(q) \notin T /\ RemoteAt(q) \notin T /\ UnusedAt(q) \notin T
      /\ \A u \in Thread : RestAt(u) \notin T
      /\ \A u \in Thread : u # t => RunAt(u) \notin T
      /\ ChunkAt(t, c) \in T => ChunkAt(t, c) \in X
      /\ RunAt(t) \in T => RunAt(t) \in X
      /\ Program \notin T /\ Nowhere # Program
      /\ \A q \in Pb : Nowhere \notin {FreeAt(q), UnusedAt(q), RemoteAt(q)}
      /\ \A u \in Thread : RunAt(u) # Nowhere
      /\ \A u \in Thread, d \in Class : Nowhere \notin {ListAt(u, d), ChunkAt(u, d)}
  BY ONLY t \in Thread, c \in Class, X \subseteq {RunAt(t), ChunkAt(t, c)}, W \subseteq Pb
     DEF ListAt, ChunkAt, RunAt, RestAt, FreeAt, UnusedAt, RemoteAt, Nowhere, Program
<1>4. \A b \in Block : b[1] \in W => w[b] \in T
  <2>1. ASSUME NEW b \in Block, b[1] \in W, ~InCarved(hd, bp, b) PROVE w[b] = Nowhere
    BY <1>1, <2>1 DEF Sited
  <2> QED BY <2>1
<1>5. \A b \in Block : w[b] \in T => b[1] \in W \/ w[b] = Nowhere
  <2>1. ASSUME NEW b \in Block, w[b] \in H PROVE b[1] \in W
    <3>1. Sited(w, hd, R, o, bp, b)
      BY <1>1
    <3>2. \E p \in W : w[b] \in {FreeAt(p), UnusedAt(p), RemoteAt(p)}
      BY <2>1
    <3> QED BY <3>1, <3>2 DEF Sited
  <2> QED BY <2>1
<1>6. \A b \in Block : w2[b] = IF b[1] \in W THEN Nowhere ELSE w[b]
  BY <1>2
<1>7. Nowhere \in T /\ X \subseteq T /\ H \subseteq T
  OBVIOUS
<1>8. \A p \in W : {FreeAt(p), UnusedAt(p), RemoteAt(p)} \subseteq T
  OBVIOUS
<1> HIDE DEF T, H
<1>9. Kept(T, nx, w, r, nx2, w2, r)
  BY <1>4, <1>6, <1>7 DEF Kept
<1>10. \A l \in T : l # Nowhere => Empty(w2, l)
  BY <1>5, <1>6 DEF Empty
<1>11. HeapOK(nx2, w2, r, t, c, hp2[t][c])
  <2>1. IsSeg(nx2, w2, r, ListAt(t, c), hp[t][c].free_blk_list, hp[t][c].cnt_free, NULL)
    BY <1>1, <1>3, <1>9, SegKept DEF IsList
  <2>2. CASE ChunkAt(t, c) \in X
    <3>1. Empty(w2, ChunkAt(t, c))
      BY <1>3, <1>7, <1>10, <2>2
    <3>2. IsChunk(w2, ChunkAt(t, c), NULL, 0)
      BY <3>1, EmptyIs
    <3> QED BY <2>1, <2>2, <3>2 DEF HeapOK, IsList
  <2>3. CASE ChunkAt(t, c) \notin X
    <3>1. IsChunk(w2, ChunkAt(t, c), hp[t][c].ptr_to_unused, hp[t][c].cnt_unused)
      BY <1>1, <1>3, <1>9, <2>3, ChunkKept
    <3> QED BY <2>1, <2>3, <3>1 DEF HeapOK, IsList
  <2> QED BY <2>2, <2>3
<1>12. \A u \in Thread, d \in Class : HeapOK(nx2, w2, r, u, d, hp2[u][d])
  BY <1>3, <1>9, <1>11, Frame DEF HeapsBut
<1>13. ASSUME NEW p \in W PROVE HdrOK(nx2, w2, r, p, hd2[p])
  <2>1. Empty(w2, FreeAt(p)) /\ Empty(w2, UnusedAt(p)) /\ Empty(w2, RemoteAt(p))
    BY <1>3, <1>8, <1>10
  <2>2. /\ hd2[p].free_list = NULL /\ hd2[p].cnt_free = 0
        /\ hd2[p].unallocated = NULL /\ hd2[p].cnt_unused = 0
        /\ WordHead(p, hd2[p].remote) = NULL /\ hd2[p].remote.cnt = 0
    BY DEF FreePbh, NoWord, WordHead
  <2> QED BY <2>1, <2>2, EmptyIs DEF HdrOK
<1>14. \A q \in Pb : HdrOK(nx2, w2, r, q, hd2[q])
  <2>1. ASSUME NEW q \in Pb \ W PROVE HdrOK(nx2, w2, r, q, hd2[q])
    <3>1. SameHdr(hd2[q], hd[q])
      BY DEF SameHdr
    <3> QED BY <1>3, <1>9, <3>1, Frame
  <2> QED BY <1>13, <2>1
<1>15. \A u \in Thread : RestOK(nx2, w2, r, u, S[u])
  BY <1>3, <1>9, Frame
<1>16. \A u \in Thread : HandOK(nx2, w2, r, u, R2[u])
  <2>1. CASE RunAt(t) \in X
    <3>1. Empty(w2, RunAt(t)) /\ R2[t].num = 0
      BY <1>3, <1>7, <1>10, <2>1 DEF Handless
    <3>2. HandOK(nx2, w2, r, t, R2[t])
      BY <3>1 DEF Empty, HandOK
    <3> QED BY <1>3, <1>9, <2>1, <3>2, Frame DEF Handless
  <2>2. CASE RunAt(t) \notin X
    BY <1>3, <1>9, <2>2, Frame
  <2> QED BY <2>1, <2>2
<1>17. ASSUME NEW b \in Block PROVE Sited(w2, hd2, R2, o, bp, b)
  <2>1. Sited(w, hd, R, o, bp, b) /\ b[1] \in Pb
    BY <1>1, Blocks
  <2>2. CASE b[1] \notin W
    <3>1. w2[b] = w[b] /\ hd2[b[1]].sizeclass = hd[b[1]].sizeclass
      BY <1>6, <2>1, <2>2
    <3>2. \A u \in Thread : w[b] = RunAt(u) => R2[u].first[1] = R[u].first[1]
      BY <2>2 DEF Handless
    <3> QED BY <2>1, <3>1, <3>2, SitedKept
  <2>3. CASE b[1] \in W
    <3>1. w2[b] = Nowhere /\ b \notin o
      BY <1>3, <1>4, <1>6, <2>1, <2>3 DEF Sited
    <3>2. ~InCarved(hd2, bp, b)
      BY <2>1, <2>3 DEF InCarved, FreePbh
    <3> QED BY <1>3, <3>1, <3>2 DEF Sited
  <2> QED BY <2>2, <2>3
<1>18. w2 \in [Block -> Spot]
  BY <1>1, <1>2, Spots
<1> QED BY <1>1, <1>12, <1>14, <1>15, <1>16, <1>17, <1>18 DEF Placed, Placing

\* Of a chunk of whole lines, one is taken.
LEMMA WholeLines ==
  ASSUME NEW n \in Nat, NEW L \in Nat \ {0}, n % L = 0, n # 0
  PROVE  n >= L /\ (n - L) % L = 0
<1>1. n = (n \div L) * L /\ n \div L \in Int
  OBVIOUS
<1>2. n >= L
  OBVIOUS
<1> DEFINE k == (n \div L) - 1
<1>3. n - L = k * L /\ k \in Int
  BY <1>1
<1> HIDE DEF k
<1>4. (k * L) % L = 0
  BY <1>3
<1> QED BY <1>2, <1>3, <1>4

\* The L - 1 blocks after b are linked.
LineLinked(b, L, nx, nx2) ==
  \A x \in Block : nx2[x] =
    IF \E k \in 1 .. L - 2 : x = <<b[1], b[2] + k>> THEN <<x[1], x[2] + 1>>
    ELSE IF L > 1 /\ x = <<b[1], b[2] + (L - 1)>> THEN NULL ELSE nx[x]

\* The first block of a thread's chunk goes to the program, and the other ones
\* of the L blocks of a line are the thread's list.
Bumps(nx, hp, t, c, b, L, nx2, hp2) ==
  /\ L \in Nat \ {0}
  /\ hp[t][c].free_blk_list = NULL
  /\ hp[t][c].ptr_to_unused = b
  /\ b # NULL
  /\ hp[t][c].cnt_unused >= L
  /\ LineLinked(b, L, nx, nx2)
  /\ HeapsBut(t, c, hp, hp2)
  /\ hp2[t][c].cnt_unused = hp[t][c].cnt_unused - L
  /\ hp2[t][c].ptr_to_unused = IF hp[t][c].cnt_unused - L > 0 THEN <<b[1], b[2] + L>> ELSE NULL
  /\ hp2[t][c].free_blk_list = IF L = 1 THEN NULL ELSE <<b[1], b[2] + 1>>
  /\ hp2[t][c].cnt_free = IF L = 1 THEN hp[t][c].cnt_free ELSE L - 1

LEMMA BumpMove ==
  ASSUME NEW nx, NEW hp, NEW hd, NEW R, NEW S, NEW o \in SUBSET Block,
         NEW bp, Placed(nx, hp, hd, R, S, o, bp), NEW t \in Thread,
         NEW c \in Class, NEW b, NEW L, NEW nx2, NEW hp2,
         Bumps(nx, hp, t, c, b, L, nx2, hp2)
  PROVE  /\ Placed(nx2, hp2, hd, R, S, o \cup {b}, bp)
         /\ b \in Block /\ b \notin o /\ hd[b[1]].sizeclass = c /\ InCarved(hd, bp, b)
<1> USE DEF Bumps, LineLinked
<1>1. PICK w, r : Placing(w, r, nx, hp, hd, R, S, o, bp)
  BY DEF Placed
<1> DEFINE l == ListAt(t, c)
           k == ChunkAt(t, c)
           n == hp[t][c].cnt_unused
           nth(i) == <<b[1], b[2] + i>>
           T == {l, k, Program}
           o2 == o \cup {b}
<1>2. /\ IsList(nx, w, r, l, NULL, hp[t][c].cnt_free) /\ IsChunk(w, k, b, n)
      /\ \A x \in Block : Sited(w, hd, R, o, bp, x)
      /\ w \in [Block -> Spot] /\ r \in [Block -> Nat]
  BY <1>1, Sides
<1>3. /\ \A u \in Thread, d \in Class : u # t \/ d # c => ListAt(u, d) \notin T /\ ChunkAt(u, d) \notin T
      /\ \A q \in Pb : FreeAt(q) \notin T /\ RemoteAt(q) \notin T /\ UnusedAt(q) \notin T
      /\ \A u \in Thread : RestAt(u) \notin T /\ RunAt(u) \notin T
      /\ k # l /\ Nowhere # Program /\ l \notin {Nowhere, Program} /\ k \notin {Nowhere, Program}
      /\ \A q \in Pb : l \notin {FreeAt(q), UnusedAt(q), RemoteAt(q)}
      /\ \A q \in Pb : Program \notin {FreeAt(q), UnusedAt(q), RemoteAt(q)}
      /\ \A u \in Thread : RunAt(u) \notin {l, Program}
      /\ \A u \in Thread, d \in Class : l \in {ListAt(u, d), ChunkAt(u, d)} => d = c
      /\ \A u \in Thread, d \in Class : Program \notin {ListAt(u, d), ChunkAt(u, d)}
  BY ONLY t \in Thread, c \in Class
     DEF ListAt, ChunkAt, RunAt, RestAt, FreeAt, UnusedAt, RemoteAt, Nowhere, Program
<1> HIDE DEF l, k, n
<1>4. n \in Nat /\ n >= L /\ b \in Block /\ b[2] \in Nat
  BY <1>2, Blocks DEF IsChunk, Ptr, n
<1>5. /\ \A i \in 0 .. n - 1 : nth(i) \in Block /\ w[nth(i)] = k
      /\ \A x \in Block : w[x] = k => x[1] = b[1] /\ x[2] - b[2] \in 0 .. n - 1
                                      /\ x = nth(x[2] - b[2])
  <2>1. ASSUME NEW x \in Block, w[x] = k
        PROVE  x[1] = b[1] /\ x[2] - b[2] \in 0 .. n - 1 /\ x = nth(x[2] - b[2])
    <3>1. x[1] = b[1] /\ x[2] - b[2] \in 0 .. n - 1
      BY <1>2, <2>1 DEF IsChunk
    <3>2. x = <<x[1], x[2]>> /\ x[2] \in Nat
      BY Blocks
    <3>3. b[2] + (x[2] - b[2]) = x[2]
      BY <1>4, <3>2
    <3> QED BY <3>1, <3>2, <3>3
  <2> QED BY <1>2, <2>1 DEF IsChunk
<1>6. Empty(w, l) /\ hp[t][c].cnt_free = 0
  BY <1>2, NullIsEmpty
<1> DEFINE off(x) == x[2] - b[2]
<1>7. PICK w2 : w2 = [x \in Block |-> IF w[x] = k /\ off(x) = 0 THEN Program
                                      ELSE IF w[x] = k /\ off(x) < L THEN l ELSE w[x]]
  OBVIOUS
<1>8. PICK r2 : r2 = [x \in Block |-> IF w[x] = k /\ off(x) < L THEN L - off(x) ELSE r[x]]
  OBVIOUS
<1>9. nth(0) = b /\ w[b] = k /\ b[2] - b[2] = 0
  <2>1. b = <<b[1], b[2]>> /\ b[2] + 0 = b[2]
    BY <1>4, Blocks
  <2>2. 0 \in 0 .. n - 1
    BY <1>4
  <2>3. nth(0) \in Block /\ w[nth(0)] = k
    BY ONLY <1>5, <2>2
  <2> QED BY ONLY <1>4, <2>1, <2>3
<1>10. /\ \A x \in Block : w2[x] = Program <=> w[x] = Program \/ x = b
       /\ \A x \in Block : w2[x] = l <=> w[x] = k /\ off(x) \in 1 .. L - 1
       /\ \A x \in Block : w2[x] = k <=> w[x] = k /\ off(x) >= L
       /\ \A x \in Block : w[x] # k => w2[x] = w[x] /\ r2[x] = r[x]
       /\ \A x \in Block : w2[x] = l => r2[x] = L - off(x)
  <2>1. ASSUME NEW x \in Block PROVE w[x] = k => off(x) \in Nat /\ (off(x) = 0 <=> x = b)
    BY <1>5, <1>9
  <2>2. \A x \in Block : w[x] # l
    BY <1>6 DEF Empty
  <2> QED BY <1>3, <1>7, <1>8, <1>9, <2>1, <2>2
<1>11. \A i \in 0 .. n - 1 : off(nth(i)) = i
  BY <1>4
<1>12. \A x \in Block : w[x] # k => nx2[x] = nx[x]
  <2>1. ASSUME NEW x \in Block, w[x] # k
        PROVE  ~(\E i \in 1 .. L - 2 : x = nth(i)) /\ ~(L > 1 /\ x = nth(L - 1))
    <3>1. \A i \in 1 .. L - 2 : i \in 0 .. n - 1
      BY <1>4
    <3>2. L > 1 => L - 1 \in 0 .. n - 1
      BY <1>4
    <3> QED BY <1>5, <2>1, <3>1, <3>2
  <2> QED BY <2>1
<1>13. \A i \in 1 .. L - 1 : nx2[nth(i)] = IF i = L - 1 THEN NULL ELSE nth(i + 1)
  <2>1. ASSUME NEW i \in 1 .. L - 1
        PROVE  nx2[nth(i)] = IF i = L - 1 THEN NULL ELSE nth(i + 1)
    <3>1. i \in 0 .. n - 1 /\ nth(i) \in Block
      BY <1>4, <1>5
    <3>2. CASE i = L - 1
      <4>1. ~ \E j \in 1 .. L - 2 : nth(i) = nth(j)
        BY <1>4, <3>2
      <4>2. L > 1
        BY <3>2
      <4> QED BY <3>1, <3>2, <4>1, <4>2
    <3>3. CASE i # L - 1
      <4>1. i \in 1 .. L - 2
        BY <3>3
      <4>2. <<nth(i)[1], nth(i)[2] + 1>> = nth(i + 1)
        BY <1>4
      <4> QED BY <3>1, <3>3, <4>1, <4>2
    <3> QED BY <3>2, <3>3
  <2> QED BY <2>1
<1>14. \A i \in 1 .. L - 1 : /\ nth(i) \in Block /\ w2[nth(i)] = l /\ r2[nth(i)] = L - i
  <2>1. \A i \in 1 .. L - 1 : i \in 0 .. n - 1
    BY <1>4
  <2> HIDE DEF nth, off
  <2> QED BY <1>5, <1>10, <1>11, <2>1
<1>15. \A x \in Block : w2[x] = l => off(x) \in 1 .. L - 1 /\ x = nth(off(x)) /\ r2[x] = L - off(x)
  BY <1>5, <1>10
<1> HIDE DEF off
<1>16. IsList(nx2, w2, r2, l, hp2[t][c].free_blk_list, hp2[t][c].cnt_free)
  <2>1. CASE L = 1
    <3>1. Empty(w2, l)
      BY <1>10, <2>1 DEF Empty
    <3> QED BY <1>6, <2>1, <3>1, EmptyIs
  <2>2. CASE L # 1
    <3>1. 1 \in 1 .. L - 1 /\ L - 1 \in Nat /\ L - 1 > 0
      BY <2>2
    <3>2. nth(1) \in Block /\ w2[nth(1)] = l /\ r2[nth(1)] = L - 1
      BY <1>14, <3>1
    <3>3. ASSUME NEW x \in Block, w2[x] = l
          PROVE  /\ r2[x] \in 1 .. L - 1
                 /\ r2[x] = 1 => nx2[x] = NULL
                 /\ r2[x] > 1 => nx2[x] \in Block /\ w2[nx2[x]] = l /\ r2[nx2[x]] = r2[x] - 1
      <4>1. PICK i \in 1 .. L - 1 : i = off(x) /\ x = nth(i) /\ r2[x] = L - i
        BY <1>15, <3>3
      <4>2. CASE i = L - 1
        BY <1>13, <4>1, <4>2
      <4>3. CASE i # L - 1
        <5>1. i + 1 \in 1 .. L - 1 /\ L - i > 1 /\ L - (i + 1) = (L - i) - 1
          BY <4>3
        <5>2. nx2[x] = nth(i + 1)
          BY <1>13, <4>1, <4>3
        <5>3. nth(i + 1) \in Block /\ w2[nth(i + 1)] = l /\ r2[nth(i + 1)] = L - (i + 1)
          BY <1>14, <5>1
        <5>4. L - i \in 1 .. L - 1 /\ L - i # 1
          BY <5>1
        <5> HIDE DEF nth
        <5> QED BY <4>1, <5>1, <5>2, <5>3, <5>4
      <4> QED BY <4>2, <4>3
    <3>4. ASSUME NEW x \in Block, NEW y \in Block, w2[x] = l, w2[y] = l, r2[x] = r2[y]
          PROVE  x = y
      <4>1. PICK i \in 1 .. L - 1 : x = nth(i) /\ r2[x] = L - i
        BY <1>15, <3>4
      <4>2. PICK j \in 1 .. L - 1 : y = nth(j) /\ r2[y] = L - j
        BY <1>15, <3>4
      <4> HIDE DEF nth
      <4> QED BY <3>4, <4>1, <4>2
    <3>5. nth(1) \in Ptr /\ nth(1) # NULL
      BY <3>2, Blocks DEF Ptr
    <3>6. hp2[t][c].free_blk_list = nth(1) /\ hp2[t][c].cnt_free = L - 1
      BY <2>2
    <3> HIDE DEF nth
    <3> QED BY <3>1, <3>2, <3>3, <3>4, <3>5, <3>6 DEF IsList, IsSeg
  <2> QED BY <2>1, <2>2
<1>17. IsChunk(w2, k, hp2[t][c].ptr_to_unused, hp2[t][c].cnt_unused)
  <2>0. hp2[t][c].cnt_unused = n - L /\ n - L \in Nat
        /\ hp2[t][c].ptr_to_unused = IF n - L > 0 THEN nth(L) ELSE NULL
    BY <1>4 DEF n
  <2>1. CASE n = L
    <3>1. Empty(w2, k)
      BY <1>5, <1>10, <1>4, <2>1 DEF Empty, off
    <3> QED BY <2>0, <2>1, <3>1, EmptyIs
  <2>2. CASE n # L
    <3>1. L \in 0 .. n - 1 /\ n - L > 0
      BY <1>4, <2>2
    <3>2. nth(L) \in Block /\ nth(L) \in Ptr /\ nth(L) # NULL /\ nth(L)[1] = b[1] /\ nth(L)[2] = b[2] + L
      BY <1>5, <3>1, Blocks DEF Ptr
    <3>3. ASSUME NEW x \in Block, w2[x] = k
          PROVE  n - L > 0 /\ x[1] = nth(L)[1] /\ x[2] - nth(L)[2] \in 0 .. (n - L) - 1
      <4>1. w[x] = k /\ off(x) >= L
        BY <1>10, <3>3
      <4>2. x[1] = b[1] /\ off(x) \in 0 .. n - 1 /\ x[2] \in Nat
        BY <1>5, <4>1, Blocks DEF off
      <4>3. x[2] - (b[2] + L) \in 0 .. (n - L) - 1
        BY <1>4, <4>1, <4>2 DEF off
      <4> QED BY <3>1, <3>2, <4>2, <4>3
    <3>4. ASSUME NEW i \in 0 .. (n - L) - 1
          PROVE  /\ <<nth(L)[1], nth(L)[2] + i>> \in Block
                 /\ w2[<<nth(L)[1], nth(L)[2] + i>>] = k
      <4>1. L + i \in 0 .. n - 1 /\ L + i >= L /\ (b[2] + L) + i = b[2] + (L + i)
        BY <1>4
      <4>2. <<nth(L)[1], nth(L)[2] + i>> = nth(L + i)
        BY <4>1
      <4>3. nth(L + i) \in Block /\ w[nth(L + i)] = k /\ off(nth(L + i)) = L + i
        BY <1>5, <1>11, <4>1
      <4> HIDE DEF nth
      <4> QED BY <1>10, <4>1, <4>2, <4>3
    <3> QED BY <2>0, <3>1, <3>2, <3>3, <3>4 DEF IsChunk
  <2> QED BY <2>1, <2>2
<1>18. Kept(T, nx, w, r, nx2, w2, r2)
  BY <1>3, <1>7, <1>10, <1>12 DEF Kept
<1> HIDE DEF T
<1>19. \A u \in Thread, d \in Class : HeapOK(nx2, w2, r2, u, d, hp2[u][d])
  <2>1. HeapOK(nx2, w2, r2, t, c, hp2[t][c])
    BY <1>16, <1>17 DEF HeapOK, l, k
  <2> QED BY <1>1, <1>3, <1>18, <2>1, Frame DEF HeapsBut
<1>20. \A q \in Pb : HdrOK(nx2, w2, r2, q, hd[q])
  BY <1>1, <1>3, <1>18, Frame DEF SameHdr
<1>21. \A u \in Thread : RestOK(nx2, w2, r2, u, S[u]) /\ HandOK(nx2, w2, r2, u, R[u])
  BY <1>1, <1>3, <1>18, Frame
<1>22. \A x \in Block : w[x] = k => InCarved(hd, bp, x) /\ x \notin o /\ hd[x[1]].sizeclass = c
  BY <1>2, <1>3 DEF Sited, k
<1>23. ASSUME NEW x \in Block PROVE Sited(w2, hd, R, o2, bp, x)
  <2>1. Sited(w, hd, R, o, bp, x)
    BY <1>2
  <2>2. CASE w2[x] = w[x]
    <3>1. x \in o2 <=> x \in o
      BY <1>3, <1>9, <1>10, <2>1, <2>2 DEF Sited
    <3> HIDE DEF o2
    <3> QED BY <2>1, <2>2, <3>1, SitedKept
  <2>3. CASE w2[x] # w[x]
    <3>1. w[x] = k /\ w2[x] \in {l, Program}
      BY <1>7, <2>3
    <3>2. InCarved(hd, bp, x) /\ hd[x[1]].sizeclass = c /\ (w2[x] = Program <=> x \in o2)
      BY <1>3, <1>9, <1>10, <1>22, <3>1
    <3> HIDE DEF o2
    <3>3. CASE w2[x] = l
      BY <1>3, <3>2, <3>3 DEF Sited
    <3>4. CASE w2[x] = Program
      BY <1>3, <3>2, <3>4 DEF Sited
    <3> QED BY <3>1, <3>3, <3>4
  <2> QED BY <2>2, <2>3
<1>24. w2 \in [Block -> Spot] /\ r2 \in [Block -> Nat]
  <2>1. l \in Spot /\ Program \in Spot
    BY Spots DEF l
  <2>2. \A x \in Block : w[x] = k /\ off(x) < L => L - off(x) \in Nat
    BY <1>5 DEF off
  <2> QED BY <1>2, <1>7, <1>8, <2>1, <2>2
<1> QED BY <1>4, <1>9, <1>19, <1>20, <1>21, <1>22, <1>23, <1>24 DEF Placed, Placing

----------------------------------------------------------------------------
(* Counting blocks                                                         *)

Numbers(f, S, n) ==
  /\ f \in [S -> 1 .. n] /\ \A x, y \in S : f[x] = f[y] => x = y
  /\ \A k \in 1 .. n : \E x \in S : f[x] = k

LEMMA Numbered ==
  ASSUME NEW S, NEW n \in Nat, NEW f, Numbers(f, S, n)
  PROVE  IsFiniteSet(S) /\ Cardinality(S) = n
<1>1. f \in Injection(S, 1 .. n) /\ f \in Surjection(S, 1 .. n)
  BY DEF Numbers, Injection, Surjection, IsInjective
<1>2. IsFiniteSet(1 .. n) /\ Cardinality(1 .. n) = n
  BY FS_Interval
<1>3. IsFiniteSet(S) /\ Cardinality(S) = Cardinality(1 .. n)
  BY <1>1, <1>2, FS_Injection
<1> QED BY <1>2, <1>3

At(w, l) == {b \in Block : w[b] = l}

LEMMA SegCount ==
  ASSUME NEW nx, NEW w, NEW r, NEW l, NEW h, NEW n, NEW z, IsSeg(nx, w, r, l, h, n, z)
  PROVE  n \in Nat /\ IsFiniteSet(At(w, l)) /\ Cardinality(At(w, l)) = n
<1> DEFINE Has(k) == \E b \in Block : w[b] = l /\ r[b] = n - k
           Bad == {k \in Nat : k < n /\ ~Has(k)}
<1>1. n \in Nat /\ (n > 0 => h \in Block /\ w[h] = l /\ r[h] = n)
  BY DEF IsSeg, Ptr
<1>2. Bad = {}
  <2> SUFFICES ASSUME Bad # {} PROVE FALSE
    OBVIOUS
  <2>1. PICK k \in Bad : \A j \in Bad : k <= j
    <3>1. Bad \subseteq Nat
      OBVIOUS
    <3> HIDE DEF Bad
    <3> QED BY <3>1, Least
  <2>2. k \in Nat /\ k < n /\ ~Has(k)
    OBVIOUS
  <2>3. k # 0
    BY <1>1, <2>2
  <2>4. k - 1 \in Nat /\ k - 1 < n /\ k - 1 \notin Bad
    BY <1>1, <2>1, <2>2, <2>3
  <2>5. PICK b \in Block : w[b] = l /\ r[b] = n - (k - 1)
    BY <2>4
  <2>6. r[b] > 1 /\ r[b] - 1 = n - k
    BY <1>1, <2>2, <2>5
  <2>7. nx[b] \in Block /\ w[nx[b]] = l /\ r[nx[b]] = r[b] - 1
    BY <2>5, <2>6 DEF IsSeg
  <2> QED BY <2>2, <2>6, <2>7
<1> DEFINE f == [b \in At(w, l) |-> r[b]]
<1>3. Numbers(f, At(w, l), n)
  <2>1. \A b \in At(w, l) : r[b] \in 1 .. n
    BY DEF IsSeg, At
  <2>2. \A a, b \in At(w, l) : r[a] = r[b] => a = b
    BY DEF IsSeg, At
  <2>3. ASSUME NEW k \in 1 .. n PROVE \E b \in At(w, l) : r[b] = k
    <3>1. n - k \in Nat /\ n - k < n /\ n - (n - k) = k
      BY <1>1
    <3>2. Has(n - k)
      BY <1>2, <3>1
    <3> QED BY <3>1, <3>2 DEF At
  <2> QED BY <2>1, <2>2, <2>3 DEF Numbers
<1> QED BY <1>1, <1>3, Numbered

LEMMA ChunkCount ==
  ASSUME NEW w, NEW l, NEW b, NEW n, IsChunk(w, l, b, n)
  PROVE  n \in Nat /\ IsFiniteSet(At(w, l)) /\ Cardinality(At(w, l)) = n
<1>1. n \in Nat /\ (n # 0 => b \in Block)
  BY DEF IsChunk, Ptr
<1>2. CASE n = 0
  <2>1. At(w, l) = {}
    BY <1>2 DEF At, IsChunk
  <2> QED BY <1>1, <1>2, <2>1, FS_EmptySet
<1>3. CASE n # 0
  <2> DEFINE f == [x \in At(w, l) |-> (x[2] - b[2]) + 1]
  <2>0. b[2] \in Nat
    BY <1>1, <1>3, Blocks
  <2>1. \A x \in At(w, l) : x[1] = b[1] /\ x[2] - b[2] \in 0 .. n - 1 /\ x[2] \in Nat /\ x = <<x[1], x[2]>>
    BY Blocks DEF At, IsChunk
  <2>2. ASSUME NEW k \in 1 .. n PROVE \E x \in At(w, l) : f[x] = k
    <3> DEFINE x == <<b[1], b[2] + (k - 1)>>
    <3>1. k - 1 \in 0 .. n - 1
      BY <1>1
    <3>2. x \in At(w, l)
      BY <3>1 DEF IsChunk, At
    <3>3. f[x] = k
      BY <2>0, <3>2
    <3> QED BY <3>2, <3>3
  <2>3. \A x \in At(w, l) : f[x] \in 1 .. n
    BY <1>1, <2>1
  <2>4. ASSUME NEW x \in At(w, l), NEW y \in At(w, l), f[x] = f[y]
        PROVE  x = y
    <3>1. x[2] = y[2]
      BY <2>0, <2>1, <2>4
    <3> QED BY <2>1, <3>1
  <2>5. Numbers(f, At(w, l), n)
    BY <2>2, <2>3, <2>4 DEF Numbers
  <2> QED BY <1>1, <2>5, Numbered
<1> QED BY <1>2, <1>3

\* The first n blocks of page block p.
Part(p, n) == {b \in Block : b[1] = p /\ b[2] \in 0 .. n - 1}

LEMMA PartCount ==
  ASSUME NEW p \in Pb, NEW n \in Nat, \A i \in 0 .. n - 1 : i \in Index
  PROVE  IsFiniteSet(Part(p, n)) /\ Cardinality(Part(p, n)) = n
<1> DEFINE f == [b \in Part(p, n) |-> b[2] + 1]
<1>1. \A b \in Part(p, n) : b = <<p, b[2]>> /\ b[2] \in 0 .. n - 1 /\ b[2] \in Nat
  BY Blocks DEF Part
<1>2. ASSUME NEW k \in 1 .. n PROVE \E b \in Part(p, n) : f[b] = k
  <2>1. k - 1 \in 0 .. n - 1 /\ (k - 1) + 1 = k
    OBVIOUS
  <2>2. <<p, k - 1>> \in Part(p, n)
    BY <2>1, Blocks DEF Part
  <2> QED BY <2>1, <2>2
<1>3. \A b \in Part(p, n) : f[b] \in 1 .. n
  BY <1>1
<1>4. \A a, b \in Part(p, n) : f[a] = f[b] => a = b
  <2>1. ASSUME NEW a \in Part(p, n), NEW b \in Part(p, n), f[a] = f[b] PROVE a = b
    <3>1. a[2] = b[2]
      BY <1>1, <2>1
    <3> QED BY <1>1, <3>1
  <2> QED BY <2>1
<1>5. Numbers(f, Part(p, n), n)
  BY <1>2, <1>3, <1>4 DEF Numbers
<1> QED BY <1>5, Numbered

LEMMA DisjointUnion ==
  ASSUME NEW A, NEW B, IsFiniteSet(A), IsFiniteSet(B), A \cap B = {}
  PROVE  IsFiniteSet(A \cup B) /\ Cardinality(A \cup B) = Cardinality(A) + Cardinality(B)
<1>1. /\ IsFiniteSet(A \cup B)
      /\ Cardinality(A \cup B) = Cardinality(A) + Cardinality(B) - Cardinality(A \cap B)
  BY FS_Union
<1>2. Cardinality(A \cap B) = 0 /\ Cardinality(A) \in Nat /\ Cardinality(B) \in Nat
  BY FS_EmptySet, FS_CardinalityType
<1> QED BY <1>1, <1>2

\* The blocks that are counted in a header, and as many others Z of its page
\* block as are missing in the counters, are all there are.
LEMMA AllAccounted ==
  ASSUME NEW nx, NEW w, NEW r, NEW hp, NEW hd, NEW R, NEW S, NEW o, NEW bp,
         Placing(w, r, nx, hp, hd, R, S, o, bp),
         NEW p \in Pb, NEW c \in Class, hd[p].sizeclass = c,
         bp[c] \in Nat, \A i \in 0 .. bp[c] - 1 : i \in Index,
         NEW Z, IsFiniteSet(Z),
         \A b \in Z : /\ b \in Part(p, bp[c])
                      /\ w[b] \notin {FreeAt(p), UnusedAt(p), RemoteAt(p)},
         Counted(hd[p]) + Cardinality(Z) = bp[c]
  PROVE  \A b \in Block : b[1] = p /\ InCarved(hd, bp, b) =>
           w[b] \in {FreeAt(p), UnusedAt(p), RemoteAt(p)} \/ b \in Z
<1> DEFINE F == At(w, FreeAt(p))
           U == At(w, UnusedAt(p))
           M == At(w, RemoteAt(p))
           n == hd[p].cnt_free
           u == hd[p].cnt_unused
           m == hd[p].remote.cnt
<1>1. /\ IsList(nx, w, r, FreeAt(p), hd[p].free_list, n)
      /\ IsList(nx, w, r, RemoteAt(p), WordHead(p, hd[p].remote), m)
      /\ IsChunk(w, UnusedAt(p), hd[p].unallocated, u)
      /\ \A b \in Block : Sited(w, hd, R, o, bp, b)
  BY Sides
<1> HIDE DEF n, u, m
<1>2. /\ IsFiniteSet(F) /\ Cardinality(F) = n /\ n \in Nat
      /\ IsFiniteSet(U) /\ Cardinality(U) = u /\ u \in Nat
      /\ IsFiniteSet(M) /\ Cardinality(M) = m /\ m \in Nat
  BY <1>1, SegCount, ChunkCount DEF IsList
<1>3. F \subseteq Part(p, bp[c]) /\ U \subseteq Part(p, bp[c]) /\ M \subseteq Part(p, bp[c])
  <2>1. ASSUME NEW b \in Block, w[b] \in {FreeAt(p), UnusedAt(p), RemoteAt(p)}
        PROVE  b \in Part(p, bp[c])
    <3>1. Sited(w, hd, R, o, bp, b) /\ Nowhere \notin {FreeAt(p), UnusedAt(p), RemoteAt(p)}
      BY <1>1, Spots
    <3>2. b[1] = p /\ InCarved(hd, bp, b)
      BY <2>1, <3>1 DEF Sited
    <3> QED BY <3>2 DEF Part, InCarved
  <2> QED BY <2>1 DEF At
<1>4. F \cap U = {} /\ (F \cup U) \cap M = {} /\ ((F \cup U) \cup M) \cap Z = {}
  <2>1. FreeAt(p) # UnusedAt(p) /\ FreeAt(p) # RemoteAt(p) /\ UnusedAt(p) # RemoteAt(p)
    BY Spots
  <2> QED BY <2>1 DEF At
<1>5. Z \subseteq Part(p, bp[c])
  OBVIOUS
<1> HIDE DEF F, U, M
<1>6. IsFiniteSet(F \cup U) /\ Cardinality(F \cup U) = n + u
  BY <1>2, <1>4, DisjointUnion
<1>7. IsFiniteSet((F \cup U) \cup M) /\ Cardinality((F \cup U) \cup M) = (n + u) + m
  <2>1. /\ IsFiniteSet(F \cup U) /\ IsFiniteSet(M) /\ (F \cup U) \cap M = {}
        /\ Cardinality(F \cup U) = n + u /\ Cardinality(M) = m
    BY <1>2, <1>4, <1>6
  <2> QED BY ONLY <2>1, DisjointUnion
<1> DEFINE V == ((F \cup U) \cup M) \cup Z
<1>8. IsFiniteSet(V) /\ Cardinality(V) = ((n + u) + m) + Cardinality(Z)
  BY <1>4, <1>7, DisjointUnion
<1>9. Cardinality(V) = bp[c]
  BY <1>2, <1>8 DEF Counted, n, u, m
<1>10. V \in SUBSET Part(p, bp[c])
  BY <1>3, <1>5
<1> HIDE DEF V
<1>11. V = Part(p, bp[c])
  <2>1. IsFiniteSet(Part(p, bp[c])) /\ Cardinality(Part(p, bp[c])) = bp[c]
    BY PartCount
  <2> QED BY <1>9, <1>10, <2>1, FS_Subset
<1>12. ASSUME NEW b \in Block, b[1] = p, InCarved(hd, bp, b), b \notin Z
       PROVE  w[b] \in {FreeAt(p), UnusedAt(p), RemoteAt(p)}
  <2>1. b \in Part(p, bp[c])
    BY <1>12 DEF Part, InCarved
  <2> QED BY <1>11, <1>12, <2>1 DEF V, F, U, M, At
<1> QED BY <1>12

\* All heaps have the same blocks.
HeapsSame(hp, hp2) == \A u \in Thread, d \in Class : SameList(hp2[u][d], hp[u][d])

\* Page blocks W are whole.
AllWhole(W, hd, bp) ==
  \A p \in W : hd[p].sizeclass \in Class /\ Counted(hd[p]) = bp[hd[p].sizeclass]

\* Page blocks become free which are whole,
FreesWhole(nx, hp, hd, bp, W, nx2, hd2, hp2) ==
  /\ W \subseteq Pb
  /\ AllWhole(W, hd, bp)
  /\ Fit(bp)
  /\ Freed(W, nx, hd, nx2, hd2)
  /\ HeapsSame(hp, hp2)

LEMMA WholeFreed ==
  ASSUME NEW nx, NEW hp, NEW hd, NEW R, NEW S, NEW o, NEW bp,
         Placed(nx, hp, hd, R, S, o, bp), NEW W, NEW t \in Thread,
         NEW c \in Class, NEW nx2, NEW hd2, NEW hp2,
         FreesWhole(nx, hp, hd, bp, W, nx2, hd2, hp2)
  PROVE  Placed(nx2, hp2, hd2, R, S, o, bp)
<1> USE DEF FreesWhole, Fit, AllWhole
<1>1. PICK w, r : Placing(w, r, nx, hp, hd, R, S, o, bp)
  BY DEF Placed
<1>2. ASSUME NEW b \in Block, b[1] \in W, InCarved(hd, bp, b)
      PROVE  w[b] \in {FreeAt(b[1]), UnusedAt(b[1]), RemoteAt(b[1])} \cup {}
  <2> DEFINE Z == {}
  <2>1. IsFiniteSet(Z) /\ Cardinality(Z) = 0
    BY FS_EmptySet
  <2>2. /\ b[1] \in Pb /\ hd[b[1]].sizeclass \in Class
        /\ Counted(hd[b[1]]) + Cardinality(Z) = bp[hd[b[1]].sizeclass]
    BY <1>2, <2>1
  <2>3. \A x \in Z : /\ x \in Part(b[1], bp[hd[b[1]].sizeclass])
                     /\ w[x] \notin {FreeAt(b[1]), UnusedAt(b[1]), RemoteAt(b[1])}
    OBVIOUS
  <2>4. \A x \in Z : FALSE
    OBVIOUS
  <2> HIDE DEF Z
  <2> QED BY <1>1, <1>2, <2>1, <2>2, <2>3, <2>4, AllAccounted
<1> DEFINE X == {}
<1>3. /\ X \subseteq {RunAt(t), ChunkAt(t, c)}
      /\ \A b \in Block : b[1] \in W /\ InCarved(hd, bp, b) =>
           w[b] \in {FreeAt(b[1]), UnusedAt(b[1]), RemoteAt(b[1])} \cup X
      /\ \A b \in Block : w[b] \in X => b[1] \in W
      /\ ChunkAt(t, c) \notin X /\ RunAt(t) \notin X
  BY <1>2
<1>4. HeapsBut(t, c, hp, hp2) /\ SameList(hp2[t][c], hp[t][c])
  BY DEF HeapsSame, HeapsBut
<1>5. OnlyAt(W, X, w, hd, bp) /\ Vacated(X, t, c, hp[t][c], hp2[t][c], R, R)
  BY <1>3, <1>4 DEF SameList, OnlyAt, Vacated
<1> HIDE DEF X
<1> QED BY <1>1, <1>3, <1>4, <1>5, FreePagesMove

\* ... or one that is whole with the run of a thread,
FreesWithRun(nx, hp, hd, R, bp, t, c, p, nx2, hd2, hp2, R2) ==
  /\ hd[p].sizeclass = c
  /\ R[t].num # 0
  /\ R[t].first[1] = p
  /\ Counted(hd[p]) + R[t].num = bp[c]
  /\ Fit(bp)
  /\ Freed({p}, nx, hd, nx2, hd2)
  /\ HeapsSame(hp, hp2)
  /\ Handless(t, R, R2)

LEMMA RunFreed ==
  ASSUME NEW nx, NEW hp, NEW hd, NEW R, NEW S, NEW o, NEW bp,
         Placed(nx, hp, hd, R, S, o, bp), NEW t \in Thread, NEW c \in Class,
         NEW p \in Pb, NEW nx2, NEW hd2, NEW hp2, NEW R2,
         FreesWithRun(nx, hp, hd, R, bp, t, c, p, nx2, hd2, hp2, R2)
  PROVE  Placed(nx2, hp2, hd2, R2, S, o, bp)
<1> USE DEF FreesWithRun, Fit
<1>1. PICK w, r : Placing(w, r, nx, hp, hd, R, S, o, bp)
  BY DEF Placed
<1> DEFINE Z == At(w, RunAt(t))
<1>2. HandOK(nx, w, r, t, R[t]) /\ \A b \in Block : Sited(w, hd, R, o, bp, b)
  BY <1>1, Sides
<1>3. IsFiniteSet(Z) /\ Cardinality(Z) = R[t].num
  BY <1>2, SegCount DEF HandOK
<1>4. ASSUME NEW b \in Z
      PROVE  /\ b \in Part(p, bp[c])
             /\ w[b] \notin {FreeAt(p), UnusedAt(p), RemoteAt(p)}
             /\ b[1] = p
  <2>1. b \in Block /\ w[b] = RunAt(t)
    BY DEF At
  <2>2. RunAt(t) \notin {Nowhere, FreeAt(p), UnusedAt(p), RemoteAt(p)}
    BY DEF RunAt, Nowhere, FreeAt, UnusedAt, RemoteAt
  <2>3. b[1] = p /\ InCarved(hd, bp, b)
    BY <1>2, <2>1, <2>2 DEF Sited
  <2> QED BY <2>1, <2>2, <2>3 DEF Part, InCarved
<1>5. \A b \in Block : b \in Z <=> w[b] = RunAt(t)
  BY DEF At
<1> HIDE DEF Z
<1>6. \A b \in Block : b[1] = p /\ InCarved(hd, bp, b) =>
        w[b] \in {FreeAt(p), UnusedAt(p), RemoteAt(p)} \/ b \in Z
  BY <1>1, <1>3, <1>4, AllAccounted
<1> DEFINE X == {RunAt(t)}
           W == {p}
<1>7. /\ X \subseteq {RunAt(t), ChunkAt(t, c)} /\ RunAt(t) \in X /\ ChunkAt(t, c) \notin X
      /\ \A b \in Block : b[1] \in W /\ InCarved(hd, bp, b) =>
           w[b] \in {FreeAt(b[1]), UnusedAt(b[1]), RemoteAt(b[1])} \cup X
      /\ \A b \in Block : w[b] \in X => b[1] \in W
      /\ W \subseteq Pb
  <2>1. ChunkAt(t, c) # RunAt(t)
    BY DEF ChunkAt, RunAt
  <2>2. \A b \in Block : w[b] \in X => b[1] \in W
    BY <1>4, <1>5
  <2>3. \A b \in Block : b[1] \in W /\ InCarved(hd, bp, b) =>
           w[b] \in {FreeAt(b[1]), UnusedAt(b[1]), RemoteAt(b[1])} \cup X
    BY <1>5, <1>6
  <2> QED BY <2>1, <2>2, <2>3
<1>8. HeapsBut(t, c, hp, hp2) /\ SameList(hp2[t][c], hp[t][c])
  BY DEF HeapsSame, HeapsBut
<1>9. OnlyAt(W, X, w, hd, bp) /\ Vacated(X, t, c, hp[t][c], hp2[t][c], R, R2)
  BY <1>7, <1>8 DEF SameList, OnlyAt, Vacated
<1>10. Freed(W, nx, hd, nx2, hd2)
  OBVIOUS
<1> HIDE DEF X, W
<1> QED BY <1>1, <1>7, <1>8, <1>9, <1>10, FreePagesMove

\* ... or with a thread's chunk.
FreesWithChunk(nx, hp, hd, bp, t, c, p, nx2, hd2, hp2) ==
  /\ hd[p].sizeclass = c
  /\ hp[t][c].ptr_to_unused # NULL
  /\ hp[t][c].ptr_to_unused[1] = p
  /\ Counted(hd[p]) + hp[t][c].cnt_unused = bp[c]
  /\ Fit(bp)
  /\ Freed({p}, nx, hd, nx2, hd2)
  /\ HeapsBut(t, c, hp, hp2)
  /\ hp2[t][c].free_blk_list = hp[t][c].free_blk_list
  /\ hp2[t][c].cnt_free = hp[t][c].cnt_free
  /\ hp2[t][c].ptr_to_unused = NULL
  /\ hp2[t][c].cnt_unused = 0

LEMMA ChunkFreed ==
  ASSUME NEW nx, NEW hp, NEW hd, NEW R, NEW S, NEW o, NEW bp,
         Placed(nx, hp, hd, R, S, o, bp), NEW t \in Thread, NEW c \in Class,
         NEW p \in Pb, NEW nx2, NEW hd2, NEW hp2,
         FreesWithChunk(nx, hp, hd, bp, t, c, p, nx2, hd2, hp2)
  PROVE  Placed(nx2, hp2, hd2, R, S, o, bp)
<1> USE DEF FreesWithChunk, Fit
<1>1. PICK w, r : Placing(w, r, nx, hp, hd, R, S, o, bp)
  BY DEF Placed
<1> DEFINE Z == At(w, ChunkAt(t, c))
<1>2. /\ IsChunk(w, ChunkAt(t, c), hp[t][c].ptr_to_unused, hp[t][c].cnt_unused)
      /\ \A b \in Block : Sited(w, hd, R, o, bp, b)
  BY <1>1, Sides
<1>3. IsFiniteSet(Z) /\ Cardinality(Z) = hp[t][c].cnt_unused
  BY <1>2, ChunkCount
<1>4. ASSUME NEW b \in Z
      PROVE  /\ b \in Part(p, bp[c])
             /\ w[b] \notin {FreeAt(p), UnusedAt(p), RemoteAt(p)}
             /\ b[1] = p
  <2>1. b \in Block /\ w[b] = ChunkAt(t, c)
    BY DEF At
  <2>2. ChunkAt(t, c) \notin {Nowhere, FreeAt(p), UnusedAt(p), RemoteAt(p)}
    BY DEF ChunkAt, Nowhere, FreeAt, UnusedAt, RemoteAt
  <2>3. b[1] = p /\ InCarved(hd, bp, b)
    BY <1>2, <2>1, <2>2 DEF Sited, IsChunk
  <2> QED BY <2>1, <2>2, <2>3 DEF Part, InCarved
<1>5. \A b \in Block : b \in Z <=> w[b] = ChunkAt(t, c)
  BY DEF At
<1> HIDE DEF Z
<1>6. \A b \in Block : b[1] = p /\ InCarved(hd, bp, b) =>
        w[b] \in {FreeAt(p), UnusedAt(p), RemoteAt(p)} \/ b \in Z
  BY <1>1, <1>3, <1>4, AllAccounted
<1> DEFINE X == {ChunkAt(t, c)}
           W == {p}
<1>7. /\ X \subseteq {RunAt(t), ChunkAt(t, c)} /\ RunAt(t) \notin X /\ ChunkAt(t, c) \in X
      /\ \A b \in Block : b[1] \in W /\ InCarved(hd, bp, b) =>
           w[b] \in {FreeAt(b[1]), UnusedAt(b[1]), RemoteAt(b[1])} \cup X
      /\ \A b \in Block : w[b] \in X => b[1] \in W
      /\ W \subseteq Pb
  <2>1. ChunkAt(t, c) # RunAt(t)
    BY DEF ChunkAt, RunAt
  <2>2. \A b \in Block : w[b] \in X => b[1] \in W
    BY <1>4, <1>5
  <2>3. \A b \in Block : b[1] \in W /\ InCarved(hd, bp, b) =>
           w[b] \in {FreeAt(b[1]), UnusedAt(b[1]), RemoteAt(b[1])} \cup X
    BY <1>5, <1>6
  <2> QED BY <2>1, <2>2, <2>3
<1>9. OnlyAt(W, X, w, hd, bp) /\ Vacated(X, t, c, hp[t][c], hp2[t][c], R, R)
  BY <1>7 DEF OnlyAt, Vacated
<1>10. Freed(W, nx, hd, nx2, hd2)
  OBVIOUS
<1> HIDE DEF X, W
<1> QED BY <1>1, <1>7, <1>9, <1>10, FreePagesMove

----------------------------------------------------------------------------
(* Lists of page blocks                                                    *)

Once(l) == \A i, j \in DOMAIN l : l[i] = l[j] => i = j

LEMMA WithoutIs ==
  ASSUME NEW l \in Seq(Pb), NEW p
  PROVE  /\ Without(l, p) \in Seq(Pb)
         /\ Once(l) => Once(Without(l, p)) /\ ToSet(Without(l, p)) = ToSet(l) \ {p}
<1>1. CASE p \notin ToSet(l)
  BY <1>1 DEF Without
<1>2. CASE p \in ToSet(l)
  <2> DEFINE i == CHOOSE j \in DOMAIN l : l[j] = p
             n == Len(l)
             m == SubSeq(l, 1, i - 1)
             k == SubSeq(l, i + 1, n)
  <2>1. n \in Nat /\ DOMAIN l = 1 .. n /\ \A j \in 1 .. n : l[j] \in Pb
    BY LenProperties, ElementOfSeq
  <2>2. i \in 1 .. n /\ l[i] = p
    BY <1>2, <2>1 DEF ToSet
  <2>3. Without(l, p) = m \o k
    BY <1>2 DEF Without, RemoveAt
  <2> HIDE DEF i, n
  <2>4. /\ m \in Seq(Pb) /\ Len(m) = i - 1 /\ \A j \in 1 .. i - 1 : m[j] = l[j]
    <3>1. \A j \in 1 .. i - 1 : l[j] \in Pb /\ (1 + j) - 1 = j
      BY <2>1, <2>2
    <3>2. /\ m \in Seq(Pb) /\ Len(m) = IF 1 <= i - 1 THEN ((i - 1) - 1) + 1 ELSE 0
          /\ \A j \in 1 .. ((i - 1) - 1) + 1 : m[j] = l[(1 + j) - 1]
      BY <2>1, <2>2, <3>1, SubSeqProperties
    <3> QED BY <2>1, <2>2, <3>1, <3>2
  <2>5. /\ k \in Seq(Pb) /\ Len(k) = n - i /\ \A j \in 1 .. n - i : k[j] = l[i + j]
    <3>1. \A j \in i + 1 .. n : l[j] \in Pb
      BY <2>1, <2>2
    <3>2. /\ k \in Seq(Pb) /\ Len(k) = IF i + 1 <= n THEN (n - (i + 1)) + 1 ELSE 0
          /\ \A j \in 1 .. (n - (i + 1)) + 1 : k[j] = l[((i + 1) + j) - 1]
      BY <2>1, <2>2, <3>1, SubSeqProperties
    <3>3. \A j \in 1 .. n - i : ((i + 1) + j) - 1 = i + j
      BY <2>1, <2>2
    <3> QED BY <2>1, <2>2, <3>2, <3>3
  <2> DEFINE l2 == m \o k
  <2> HIDE DEF m, k
  <2>6. /\ l2 \in Seq(Pb) /\ Len(l2) = Len(m) + Len(k)
        /\ \A j \in 1 .. Len(m) + Len(k) : l2[j] = IF j <= Len(m) THEN m[j] ELSE k[j - Len(m)]
    BY <2>4, <2>5, ConcatProperties
  <2> HIDE DEF l2
  <2>7. DOMAIN l2 = 1 .. n - 1 /\ \A j \in 1 .. n - 1 : l2[j] = IF j < i THEN l[j] ELSE l[j + 1]
    <3>1. Len(m) + Len(k) = n - 1
      BY <2>1, <2>2, <2>4, <2>5
    <3>2. ASSUME NEW j \in 1 .. n - 1 PROVE l2[j] = IF j < i THEN l[j] ELSE l[j + 1]
      <4>1. CASE j < i
        <5>1. j \in 1 .. i - 1 /\ j <= Len(m) /\ j \in 1 .. Len(m) + Len(k)
          BY <2>1, <2>2, <2>4, <3>1, <4>1
        <5>2. l2[j] = m[j] /\ m[j] = l[j]
          BY <2>4, <2>6, <5>1
        <5> QED BY <4>1, <5>2
      <4>2. CASE ~(j < i)
        <5>1. j - (i - 1) \in 1 .. n - i /\ i + (j - (i - 1)) = j + 1 /\ ~(j <= i - 1)
          BY <2>1, <2>2, <4>2
        <5> QED BY <2>4, <2>5, <2>6, <3>1, <4>2, <5>1
      <4> QED BY <4>1, <4>2
    <3>3. DOMAIN l2 = 1 .. Len(l2)
      BY <2>6, LenProperties
    <3> QED BY <2>6, <3>1, <3>2, <3>3
  <2>8. ASSUME Once(l)
        PROVE  Once(l2) /\ ToSet(l2) = ToSet(l) \ {p}
    <3>1. Once(l2)
      BY <2>1, <2>2, <2>7, <2>8 DEF Once
    <3>2. ASSUME NEW x \in ToSet(l2) PROVE x \in ToSet(l) \ {p}
      <4>1. PICK j \in 1 .. n - 1 : x = l2[j]
        BY <2>7 DEF ToSet
      <4>2. PICK g \in 1 .. n : x = l[g] /\ g # i
        BY <2>1, <2>2, <2>7, <4>1
      <4> QED BY <2>1, <2>2, <2>8, <4>2 DEF Once, ToSet
    <3>3. ASSUME NEW x \in ToSet(l) \ {p} PROVE x \in ToSet(l2)
      <4>1. PICK g \in 1 .. n : x = l[g]
        BY <2>1 DEF ToSet
      <4>2. g # i
        BY <2>2, <4>1
      <4>3. PICK j \in 1 .. n - 1 : x = l2[j]
        <5>1. CASE g < i
          BY <2>1, <2>2, <2>7, <4>1, <5>1
        <5>2. CASE g > i
          <6>1. g - 1 \in 1 .. n - 1 /\ ~(g - 1 < i) /\ (g - 1) + 1 = g
            BY <2>1, <2>2, <5>2
          <6> QED BY <2>7, <4>1, <6>1
        <5> QED BY <2>1, <2>2, <4>2, <5>1, <5>2
      <4> QED BY <2>7, <4>3 DEF ToSet
    <3> QED BY <3>1, <3>2, <3>3
  <2> QED BY <2>3, <2>6, <2>8 DEF l2
<1> QED BY <1>1, <1>2

LEMMA JoinIs ==
  ASSUME NEW k \in Seq(Pb), NEW l \in Seq(Pb)
  PROVE  /\ k \o l \in Seq(Pb) /\ ToSet(k \o l) = ToSet(k) \cup ToSet(l)
         /\ Once(k) /\ Once(l) /\ ToSet(k) \cap ToSet(l) = {} => Once(k \o l)
<1> DEFINE j == k \o l
           m == Len(k)
           n == Len(l)
<1>1. /\ m \in Nat /\ DOMAIN k = 1 .. m
      /\ n \in Nat /\ DOMAIN l = 1 .. n
  BY LenProperties
<1>2. /\ j \in Seq(Pb) /\ Len(j) = m + n
      /\ \A i \in 1 .. m + n : j[i] = IF i <= m THEN k[i] ELSE l[i - m]
  BY ConcatProperties
<1>3. DOMAIN j = 1 .. m + n
  BY <1>2, LenProperties
<1> HIDE DEF j, m, n
<1>4. ASSUME NEW x \in ToSet(j) PROVE x \in ToSet(k) \cup ToSet(l)
  <2>1. PICK i \in 1 .. m + n : x = j[i]
    BY <1>3 DEF ToSet
  <2>2. CASE i <= m
    <3>1. i \in 1 .. m /\ x = k[i]
      BY <1>1, <1>2, <2>1, <2>2
    <3> QED BY <1>1, <3>1 DEF ToSet
  <2>3. CASE ~(i <= m)
    <3>1. i - m \in 1 .. n
      BY <1>1, <2>3
    <3> QED BY <1>1, <1>2, <2>1, <2>3, <3>1 DEF ToSet
  <2> QED BY <2>2, <2>3
<1>5. ASSUME NEW x \in ToSet(k) PROVE x \in ToSet(j)
  <2>1. PICK i \in 1 .. m : x = k[i]
    BY <1>1 DEF ToSet
  <2>2. i \in 1 .. m + n /\ i <= m
    BY <1>1
  <2> QED BY <1>2, <1>3, <2>1, <2>2 DEF ToSet
<1>6. ASSUME NEW x \in ToSet(l) PROVE x \in ToSet(j)
  <2>1. PICK i \in 1 .. n : x = l[i]
    BY <1>1 DEF ToSet
  <2>2. i + m \in 1 .. m + n /\ ~(i + m <= m) /\ (i + m) - m = i
    BY <1>1
  <2> QED BY <1>2, <1>3, <2>1, <2>2 DEF ToSet
<1>7. ASSUME Once(k), Once(l), ToSet(k) \cap ToSet(l) = {}
      PROVE  Once(j)
  <2> SUFFICES ASSUME NEW a \in 1 .. m + n, NEW b \in 1 .. m + n, j[a] = j[b]
               PROVE  a = b
    BY <1>3 DEF Once
  <2>1. CASE a <= m /\ b <= m
    BY <1>1, <1>2, <1>7, <2>1 DEF Once
  <2>2. CASE ~(a <= m) /\ ~(b <= m)
    <3>1. a - m \in 1 .. n /\ b - m \in 1 .. n /\ l[a - m] = l[b - m]
      BY <1>1, <1>2, <2>2
    <3>2. a - m = b - m
      BY <1>1, <1>7, <3>1 DEF Once
    <3> QED BY <1>1, <3>2
  <2>3. \A i \in 1 .. m + n : (i <= m => j[i] \in ToSet(k)) /\ (~(i <= m) => j[i] \in ToSet(l))
    <3>1. \A i \in 1 .. m + n : (i <= m => i \in 1 .. m) /\ (~(i <= m) => i - m \in 1 .. n)
      BY <1>1
    <3>2. /\ \A i \in 1 .. m : k[i] \in ToSet(k)
          /\ \A i \in 1 .. n : l[i] \in ToSet(l)
      BY <1>1 DEF ToSet
    <3> QED BY <1>2, <3>1, <3>2
  <2>4. ~(a <= m /\ ~(b <= m)) /\ ~(~(a <= m) /\ b <= m)
    BY <1>7, <2>3
  <2> QED BY <2>1, <2>2, <2>4
<1> QED BY <1>2, <1>4, <1>5, <1>6, <1>7 DEF j

LEMMA OneIs ==
  ASSUME NEW p \in Pb
  PROVE  <<p>> \in Seq(Pb) /\ Once(<<p>>) /\ ToSet(<<p>>) = {p}
BY DEF Once, ToSet

LEMMA AppendIs ==
  ASSUME NEW l \in Seq(Pb), NEW p \in Pb
  PROVE  /\ Append(l, p) \in Seq(Pb) /\ ToSet(Append(l, p)) = ToSet(l) \cup {p}
         /\ Once(l) /\ p \notin ToSet(l) => Once(Append(l, p))
<1>1. Append(l, p) = l \o <<p>>
  BY AppendIsConcat
<1>2. <<p>> \in Seq(Pb) /\ Once(<<p>>) /\ ToSet(<<p>>) = {p}
  BY OneIs
<1> DEFINE k == <<p>>
<1> HIDE DEF k
<1>3. /\ l \o k \in Seq(Pb) /\ ToSet(l \o k) = ToSet(l) \cup ToSet(k)
      /\ Once(l) /\ Once(k) /\ ToSet(l) \cap ToSet(k) = {} => Once(l \o k)
  BY <1>2, JoinIs DEF k
<1> QED BY <1>1, <1>2, <1>3 DEF k

LEMMA TailIs ==
  ASSUME NEW l \in Seq(Pb), l # << >>
  PROVE  /\ Head(l) \in Pb /\ Head(l) \in ToSet(l) /\ Tail(l) \in Seq(Pb)
         /\ ToSet(Tail(l)) \cup {Head(l)} = ToSet(l)
         /\ Once(l) => Once(Tail(l)) /\ Head(l) \notin ToSet(Tail(l))
<1> DEFINE n == Len(l)
           k == Tail(l)
<1>1. n \in Nat \ {0} /\ DOMAIN l = 1 .. n
  BY LenProperties, EmptySeq
<1>2. /\ Head(l) \in Pb /\ k \in Seq(Pb) /\ Len(k) = n - 1
      /\ \A i \in 1 .. Len(k) : k[i] = l[i + 1]
  BY HeadTailProperties
<1>3. DOMAIN k = 1 .. n - 1 /\ Head(l) = l[1]
  BY <1>2, LenProperties
<1> HIDE DEF n, k
<1>4. ASSUME NEW x \in ToSet(k) PROVE \E i \in 2 .. n : x = l[i]
  <2>1. PICK i \in 1 .. n - 1 : x = k[i]
    BY <1>3 DEF ToSet
  <2>2. i + 1 \in 2 .. n
    BY <1>1
  <2> QED BY <1>2, <2>1, <2>2
<1>5. ASSUME NEW x \in ToSet(l), x # l[1] PROVE x \in ToSet(k)
  <2>1. PICK i \in 1 .. n : x = l[i] /\ i # 1
    BY <1>1, <1>5 DEF ToSet
  <2>2. i - 1 \in 1 .. n - 1 /\ (i - 1) + 1 = i
    BY <1>1, <2>1
  <2> QED BY <1>2, <1>3, <2>1, <2>2 DEF ToSet
<1>6. 1 \in DOMAIN l /\ 2 .. n \subseteq DOMAIN l
  BY <1>1
<1>7. ASSUME Once(l) PROVE Once(k) /\ l[1] \notin ToSet(k)
  <2>1. Once(k)
    <3> SUFFICES ASSUME NEW a \in 1 .. n - 1, NEW b \in 1 .. n - 1, k[a] = k[b]
                 PROVE  a = b
      BY <1>3 DEF Once
    <3>1. a + 1 \in 1 .. n /\ b + 1 \in 1 .. n /\ l[a + 1] = l[b + 1]
      BY <1>1, <1>2
    <3>2. a + 1 = b + 1
      BY <1>1, <1>7, <3>1 DEF Once
    <3> QED BY <3>2
  <2> QED BY <1>4, <1>6, <1>7, <2>1 DEF Once
<1> QED BY <1>2, <1>3, <1>4, <1>5, <1>6, <1>7 DEF k, ToSet

LEMMA RotatedIs ==
  ASSUME NEW l \in Seq(Pb), l # << >>
  PROVE  /\ Rotated(l) \in Seq(Pb) /\ ToSet(Rotated(l)) = ToSet(l)
         /\ Once(l) => Once(Rotated(l))
<1> DEFINE k == Tail(l)
           p == Head(l)
<1>1. /\ p \in Pb /\ k \in Seq(Pb) /\ ToSet(k) \cup {p} = ToSet(l)
      /\ Once(l) => Once(k) /\ p \notin ToSet(k)
  BY TailIs
<1> HIDE DEF k, p
<1>2. /\ Append(k, p) \in Seq(Pb) /\ ToSet(Append(k, p)) = ToSet(k) \cup {p}
      /\ Once(k) /\ p \notin ToSet(k) => Once(Append(k, p))
  BY <1>1, AppendIs
<1> QED BY <1>1, <1>2 DEF Rotated, k, p

LEMMA ToFrontIs ==
  ASSUME NEW l \in Seq(Pb), NEW p \in Pb
  PROVE  /\ <<p>> \o Without(l, p) \in Seq(Pb)
         /\ Once(l) => /\ Once(<<p>> \o Without(l, p))
                       /\ ToSet(<<p>> \o Without(l, p)) = ToSet(l) \cup {p}
<1> DEFINE k == Without(l, p)
           j == <<p>>
<1>1. k \in Seq(Pb) /\ (Once(l) => Once(k) /\ ToSet(k) = ToSet(l) \ {p})
  BY WithoutIs
<1>2. j \in Seq(Pb) /\ Once(j) /\ ToSet(j) = {p}
  BY OneIs
<1> HIDE DEF k, j
<1>3. /\ j \o k \in Seq(Pb) /\ ToSet(j \o k) = ToSet(j) \cup ToSet(k)
      /\ Once(j) /\ Once(k) /\ ToSet(j) \cap ToSet(k) = {} => Once(j \o k)
  BY <1>1, <1>2, JoinIs
<1>4. Once(l) => Once(j \o k) /\ ToSet(j \o k) = ToSet(l) \cup {p}
  BY <1>1, <1>2, <1>3
<1> QED BY <1>3, <1>4 DEF k, j

LEMMA MinIn ==
  ASSUME NEW S, S \subseteq Pb, S # {}
  PROVE  Min(S) \in S
<1>1. S \subseteq Nat
  BY ConstantsAssumption
<1>2. \E n \in S : \A k \in S : n <= k
  BY <1>1, Least
<1> QED BY <1>2 DEF Min

\* The page blocks that take_superpage puts on a list, from the last one on.
ToTake(mine, h, s, c) ==
  /\ h.pbh_list \in Seq(Pb)
  /\ mine = {p \in PbsOf(s) : pbh[p].sizeclass = c /\ ~IsWhole(pbh[p])}

LEMMA AdoptedIs ==
  ASSUME NEW h, NEW s, NEW c, NEW mine, ToTake(mine, h, s, c)
  PROVE  /\ Adopted(h, s, c) = [h EXCEPT !.pbh_list = Adopted(h, s, c).pbh_list]
         /\ Adopted(h, s, c).pbh_list \in Seq(Pb)
         /\ ToSet(Adopted(h, s, c).pbh_list) = mine \cup ToSet(h.pbh_list)
         /\ Once(h.pbh_list) /\ mine \cap ToSet(h.pbh_list) = {}
            => Once(Adopted(h, s, c).pbh_list)
<1> DEFINE rank(p) == Cardinality({q \in mine : q > p})
           n == Cardinality(mine)
           Down(k) == Max({p \in mine : rank(p) = k - 1})
           d == [k \in 1 .. n |-> Down(k)]
<1>0. /\ h.pbh_list \in Seq(Pb)
      /\ mine = {p \in PbsOf(s) : pbh[p].sizeclass = c /\ ~IsWhole(pbh[p])}
  BY DEF ToTake
<1>1. mine \subseteq Pb /\ mine \subseteq Nat /\ IsFiniteSet(mine) /\ n \in Nat
  <2>1. mine \subseteq Pb /\ Pb \subseteq Nat /\ IsFiniteSet(Pb)
    BY <1>0, ConstantsAssumption DEF PbsOf
  <2> QED BY <2>1, FS_Subset, FS_CardinalityType
<1>2. Adopted(h, s, c) = [h EXCEPT !.pbh_list = d \o @]
  BY <1>0 DEF Adopted
<1> HIDE DEF n
<1>3. \A p \in mine : IsFiniteSet({q \in mine : q > p}) /\ rank(p) \in 0 .. n - 1
  <2>1. ASSUME NEW p \in mine PROVE IsFiniteSet({q \in mine : q > p}) /\ rank(p) \in 0 .. n - 1
    <3> DEFINE Q == {q \in mine : q > p}
    <3>0. IsFiniteSet(mine \ {p}) /\ Cardinality(mine \ {p}) = n - 1
      BY <1>1, FS_RemoveElement DEF n
    <3>1. Q \subseteq mine \ {p}
      BY <1>1
    <3> HIDE DEF Q
    <3>2. IsFiniteSet(Q) /\ Cardinality(Q) <= n - 1 /\ Cardinality(Q) \in Nat
      BY <3>0, <3>1, FS_Subset, FS_CardinalityType
    <3> QED BY <1>1, <3>2 DEF Q
  <2> QED BY <2>1
<1>4. \A p, q \in mine : p < q => rank(p) # rank(q)
  <2>1. ASSUME NEW p \in mine, NEW q \in mine, p < q PROVE rank(p) # rank(q)
    <3> DEFINE P == {x \in mine : x > p}
               Q == {x \in mine : x > q}
    <3>1. Q \in SUBSET P /\ q \in P /\ q \notin Q
      <4>1. mine \subseteq Nat
        BY <1>1
      <4>2. p \in Nat /\ q \in Nat /\ \A x \in mine : x \in Nat
        BY <4>1
      <4>3. \A x \in mine : x > q => x > p
        BY <2>1, <4>2
      <4>4. ~(q > q)
        BY <4>2
      <4> QED BY <2>1, <4>2, <4>3, <4>4
    <3>2. IsFiniteSet(P)
      BY <1>3
    <3> HIDE DEF P, Q
    <3>3. Cardinality(P) # Cardinality(Q)
      BY <3>1, <3>2, FS_Subset
    <3> QED BY <3>3 DEF P, Q
  <2> QED BY <2>1
<1> HIDE DEF rank
<1>5. \A p, q \in mine : rank(p) = rank(q) => p = q
  BY <1>1, <1>4
<1>6. \A k \in 0 .. n - 1 : \E p \in mine : rank(p) = k
  <2> DEFINE f == [p \in mine |-> rank(p)]
  <2>1. f \in Injection(mine, 0 .. n - 1)
    BY <1>3, <1>5 DEF Injection, IsInjective
  <2>2. IsFiniteSet(0 .. n - 1) /\ Cardinality(0 .. n - 1) = n
    BY <1>1, FS_Interval
  <2>3. f \in Surjection(mine, 0 .. n - 1)
    BY <2>1, <2>2, FS_Injection DEF n
  <2> QED BY <2>3 DEF Surjection
<1>7. \A k \in 1 .. n : Down(k) \in mine /\ rank(Down(k)) = k - 1
  <2>1. ASSUME NEW k \in 1 .. n PROVE Down(k) \in mine /\ rank(Down(k)) = k - 1
    <3>1. k - 1 \in 0 .. n - 1
      BY <1>1
    <3>2. PICK p \in mine : rank(p) = k - 1
      BY <1>6, <3>1
    <3>3. {q \in mine : rank(q) = k - 1} = {p}
      BY <1>5, <3>2
    <3>4. p >= p
      BY <1>1
    <3>5. Max({p}) = p
      BY <3>4 DEF Max
    <3> QED BY <3>2, <3>3, <3>5
  <2> QED BY <2>1
<1> HIDE DEF Down
<1>8. d \in Seq(Pb) /\ DOMAIN d = 1 .. n /\ Once(d) /\ ToSet(d) = mine
  <2>1. d \in [1 .. n -> Pb]
    BY <1>1, <1>7
  <2>2. d \in Seq(Pb)
    BY <1>1, <2>1
  <2>3. Once(d)
    <3>1. ASSUME NEW i \in 1 .. n, NEW j \in 1 .. n, Down(i) = Down(j) PROVE i = j
      <4>1. i - 1 = j - 1
        BY <1>7, <3>1
      <4> QED BY <1>1, <4>1
    <3> QED BY <3>1 DEF Once
  <2>4. \A p \in mine : \E k \in 1 .. n : p = Down(k)
    <3>1. ASSUME NEW p \in mine PROVE \E k \in 1 .. n : p = Down(k)
      <4>0. rank(p) \in 0 .. n - 1
        BY <1>3
      <4>1. rank(p) + 1 \in 1 .. n /\ (rank(p) + 1) - 1 = rank(p)
        BY <1>1, <4>0
      <4>2. Down(rank(p) + 1) = p
        BY <1>5, <1>7, <4>1
      <4> QED BY <4>1, <4>2
    <3> QED BY <3>1
  <2>5. ToSet(d) = mine
    BY <1>7, <2>4 DEF ToSet
  <2> QED BY <2>2, <2>3, <2>5
<1> HIDE DEF d
<1>9. Adopted(h, s, c).pbh_list = d \o h.pbh_list
  BY <1>2
<1> QED BY <1>0, <1>2, <1>8, <1>9, JoinIs

(***************************************************************************)
(* The inductive invariant                                                 *)
(***************************************************************************)

\* What a thread holds of a run; before the compare and swap, the link it has
\* written is the word it has read.
Hand(t) == [first |-> run[t].first, last |-> run[t].last, num |-> run[t].num,
            link |-> IF pc[t] = "cas" THEN {WordHead(run[t].first[1], top[t])}
                     ELSE {}]
Hands == [t \in Thread |-> Hand(t)]

\* Every block is in one place.
Here == Placed(next, heap, pbh, Hands, rest, out, BlocksPerPbh)

\* The types, without a bound for the counters: that they are none too large,
\* nor negative, follows from Here.
Headers == [sizeclass : 0 .. NUM_CLASSES, free_list : Ptr, cnt_free : Int,
            unallocated : Ptr, cnt_unused : Int, remote : [head : Nat, cnt : Int]]

HeapLists == [free_blk_list : Ptr, cnt_free : Int, ptr_to_unused : Ptr,
              cnt_unused : Int, pbh_list : Seq(Pb)]

Shapes ==
  /\ SpOf \in Layouts
  /\ owner \in [Superpage -> Thread \cup {NULL, DEAD_OWNER}]
  /\ pbh \in [Pb -> Headers]
  /\ next \in [Block -> Ptr]
  /\ heap \in [Thread -> [Class -> HeapLists]]
  /\ pc \in [Thread -> {"idle", "check", "link", "cas", "recheck", "local",
                        "list", "exit"}]
  /\ run \in [Thread -> [first : Ptr, last : Ptr, num : Int,
                         caller : {"none", "small_free", "tlh_return_list"}]]
  /\ top \in [Thread -> [head : Nat, cnt : 0 .. MaxBlocks]]
  /\ cl \in [Thread -> 0 .. NUM_CLASSES]
  /\ rest \in [Thread -> Ptr]
  /\ out \subseteq Block

\* The blocks there are fit into the bound.
Room == Cardinality(Carved) <= MaxBlocks

\* A header that is not in use is blank; one in use is some thread's or an
\* orphan's, and its chunk a number of whole lines.
PbhOK(p) ==
  IF InUse(p) THEN /\ OwnerOf(p) # NULL
                   /\ pbh[p].cnt_unused % BlocksPerLine[pbh[p].sizeclass] = 0
  ELSE pbh[p] = FreePbh

\* Where a thread is goes with what it has in hand.
PhaseOK(t) ==
  /\ pc[t] \in {"idle", "exit", "list"} => run[t] = NoRun
  /\ pc[t] \in {"idle", "exit"} => rest[t] = NULL
  /\ pc[t] = "list" => rest[t] # NULL
  /\ pc[t] = "idle" => cl[t] = 0
  /\ pc[t] = "exit" => cl[t] # 0
  /\ InHand(t) <=> run[t].num # 0
  /\ InHand(t) \/ pc[t] = "recheck" => run[t].first \in Block
  /\ InHand(t) => run[t].caller # "none"
  /\ InHand(t) /\ run[t].caller = "small_free" =>
       /\ cl[t] = 0 /\ rest[t] = NULL
       /\ run[t].num = 1 /\ run[t].last = run[t].first
  /\ pc[t] = "local" => OwnerOf(run[t].first[1]) = t

\* Of the classes it has gone through in its exit a thread holds no block.
DoneOK(t) ==
  \A c \in Class : c < cl[t] =>
    heap[t][c].free_blk_list = NULL /\ heap[t][c].ptr_to_unused = NULL

\* The lists of page blocks of the classes it has not.
PbhListOK(t, c) ==
  LET list == heap[t][c].pbh_list
  IN /\ c >= cl[t] => /\ Once(list)
                      /\ \A p \in ToSet(list) : OwnerOf(p) = t /\ pbh[p].sizeclass = c
     /\ c > cl[t] => \A p \in Pb : OwnerOf(p) = t /\ pbh[p].sizeclass = c => p \in ToSet(list)

\* A chunk: a number of whole lines of a page block that has no other.
ChunkOK(t, c) ==
  LET h == heap[t][c]
      p == h.ptr_to_unused[1]
  IN /\ h.cnt_unused % BlocksPerLine[c] = 0
     /\ h.cnt_unused # 0 => OwnerOf(p) = t /\ pbh[p].cnt_unused = 0

Mine(t) ==
  /\ PhaseOK(t) /\ DoneOK(t)
  /\ \A c \in Class : PbhListOK(t, c) /\ ChunkOK(t, c)

IInv ==
  /\ Shapes /\ Here /\ Room
  /\ \A p \in Pb : PbhOK(p)
  /\ \A t \in Thread : Mine(t)

(***************************************************************************)
(* What the invariant says of the numbers                                  *)
(***************************************************************************)

LEMMA Layout ==
  ASSUME SpOf \in Layouts
  PROVE  /\ MaxBlocks \in Nat /\ BlocksPerPbh \in [Class -> Nat \ {0}]
         /\ \A c \in Class :
              /\ BlocksPerPbh[c] \in Nat \ {0} /\ BlocksPerLine[c] \in Nat \ {0}
              /\ BlocksPerPbh[c] % BlocksPerLine[c] = 0
              /\ \A i \in 0 .. BlocksPerPbh[c] - 1 : i \in Index
         /\ SpOf \in [Pb -> Superpage]
         /\ 1 \in Class
<1>1. MaxBlocks \in Nat /\ BlocksPerPbh \in [Class -> Nat \ {0}] /\ SpOf \in [Pb -> Superpage]
      /\ 1 \in Class
  BY ConstantsAssumption DEF MaxBlocks, BlocksPerPbh, Class
<1>2. ASSUME NEW c \in Class
      PROVE  /\ BlocksPerPbh[c] \in Nat \ {0} /\ BlocksPerLine[c] \in Nat \ {0}
             /\ BlocksPerPbh[c] % BlocksPerLine[c] = 0
             /\ \A i \in 0 .. BlocksPerPbh[c] - 1 : i \in Index
  <2>1. BlocksPerPbh[c] \in Nat \ {0} /\ BlocksPerLine[c] \in Nat \ {0}
        /\ BlocksPerPbh[c] % BlocksPerLine[c] = 0
    BY ConstantsAssumption DEF BlocksPerPbh
  <2> DEFINE U == {0 .. BLOCKS_PER_PBH[f][d] - 1 : f \in Layouts, d \in Class}
  <2>2. 0 .. BlocksPerPbh[c] - 1 \in U /\ Index = UNION U
    BY DEF BlocksPerPbh, Index
  <2> HIDE DEF U
  <2>3. \A i \in 0 .. BlocksPerPbh[c] - 1 : i \in Index
    BY <2>2
  <2> QED BY <2>1, <2>3
<1> QED BY <1>1, <1>2

LEMMA Fields ==
  ASSUME Shapes
  PROVE  /\ SpOf \in Layouts /\ next \in [Block -> Ptr] /\ out \in SUBSET Block
         /\ \A p \in Pb :
              /\ pbh[p] \in Headers /\ SpOf[p] \in Superpage
              /\ pbh[p].sizeclass = 0 \/ pbh[p].sizeclass \in Class
              /\ pbh[p].free_list \in Ptr /\ pbh[p].cnt_free \in Int
              /\ pbh[p].unallocated \in Ptr /\ pbh[p].cnt_unused \in Int
              /\ pbh[p].remote \in [head : Nat, cnt : Int]
              /\ OwnerOf(p) \in Thread \cup {NULL, DEAD_OWNER}
         /\ \A t \in Thread, c \in Class :
              /\ heap[t][c] \in HeapLists
              /\ heap[t][c].free_blk_list \in Ptr /\ heap[t][c].cnt_free \in Int
              /\ heap[t][c].ptr_to_unused \in Ptr /\ heap[t][c].cnt_unused \in Int
              /\ heap[t][c].pbh_list \in Seq(Pb)
              /\ \A p \in ToSet(heap[t][c].pbh_list) : p \in Pb
         /\ \A t \in Thread : run[t].first \in Ptr /\ run[t].last \in Ptr /\ rest[t] \in Ptr
                              /\ run[t].num \in Int /\ cl[t] \in 0 .. NUM_CLASSES
         /\ NUM_CLASSES \in Nat
<1>1. SpOf \in Layouts /\ SpOf \in [Pb -> Superpage] /\ NUM_CLASSES \in Nat
  BY ConstantsAssumption, Layout DEF Shapes
<1>2. ASSUME NEW p \in Pb
      PROVE  /\ pbh[p] \in Headers /\ SpOf[p] \in Superpage
             /\ OwnerOf(p) \in Thread \cup {NULL, DEAD_OWNER}
  BY <1>1 DEF Shapes, OwnerOf
<1>3. ASSUME NEW p \in Pb
      PROVE  pbh[p].sizeclass = 0 \/ pbh[p].sizeclass \in Class
  BY <1>1, <1>2 DEF Headers, Class
<1>4. ASSUME NEW t \in Thread, NEW c \in Class PROVE heap[t][c] \in HeapLists
  BY DEF Shapes
<1>5. ASSUME NEW t \in Thread, NEW c \in Class
      PROVE  /\ heap[t][c].pbh_list \in Seq(Pb)
             /\ \A p \in ToSet(heap[t][c].pbh_list) : p \in Pb
  BY <1>4 DEF HeapLists, ToSet
<1>6. next \in [Block -> Ptr] /\ out \in SUBSET Block
  BY DEF Shapes
<1>7. \A t \in Thread : run[t].first \in Ptr /\ run[t].last \in Ptr /\ rest[t] \in Ptr
                        /\ run[t].num \in Int /\ cl[t] \in 0 .. NUM_CLASSES
  BY DEF Shapes
<1> QED BY <1>1, <1>2, <1>3, <1>4, <1>5, <1>6, <1>7 DEF Headers, HeapLists

LEMMA NoneOver ==
  \A c \in Class : 0 % BlocksPerLine[c] = 0
<1> SUFFICES ASSUME NEW c \in Class PROVE 0 % BlocksPerLine[c] = 0
  OBVIOUS
<1>1. BlocksPerLine[c] \in Nat \ {0}
  BY ConstantsAssumption
<1> QED BY <1>1

LEMMA CarvedFinite ==
  ASSUME Shapes
  PROVE  IsFiniteSet(Carved)
<1> DEFINE f == [c \in Class |-> Blk(c)]
           F == {Blk(c) : c \in Class}
<1>1. SpOf \in Layouts /\ NUM_CLASSES \in Nat /\ IsFiniteSet(Pb)
  BY ConstantsAssumption DEF Shapes
<1>2. IsFiniteSet(Class)
  BY <1>1, FS_Interval DEF Class
<1>3. f \in Surjection(Class, F)
  BY DEF Surjection
<1>4. IsFiniteSet(F)
  BY <1>2, <1>3, FS_Surjection
<1>5. \A T \in F : IsFiniteSet(T)
  <2> SUFFICES ASSUME NEW c \in Class PROVE IsFiniteSet(Blk(c))
    OBVIOUS
  <2>1. BlocksPerPbh[c] - 1 \in Int
    BY <1>1, Layout
  <2> QED BY <2>1, FS_Interval DEF Blk
<1>6. IsFiniteSet(Pb \X UNION F)
  BY <1>1, <1>4, <1>5, FS_UNION, FS_Product
<1>7. Carved \subseteq Pb \X UNION F
  <2> SUFFICES ASSUME NEW b \in Carved PROVE b \in Pb \X UNION F
    OBVIOUS
  <2>1. b \in Block /\ InUse(b[1]) /\ b[2] \in Blk(pbh[b[1]].sizeclass)
    BY DEF Carved
  <2>2. b = <<b[1], b[2]>> /\ b[1] \in Pb
    BY <2>1, Blocks
  <2>3. pbh[b[1]].sizeclass \in Class
    BY <1>1, <2>1, <2>2 DEF Shapes, Headers, InUse, Class
  <2> HIDE DEF F
  <2>4. Blk(pbh[b[1]].sizeclass) \in F
    BY <2>3 DEF F
  <2>5. b[2] \in UNION F
    BY <2>1, <2>4
  <2> QED BY <2>2, <2>5
<1> QED BY <1>6, <1>7, FS_Subset

\* A pointer is NULL when the count that goes with it is 0.
LEMMA PlacedCounts ==
  ASSUME NEW nx, NEW hp, NEW hd, NEW R, NEW S, NEW o, NEW bp,
         Placed(nx, hp, hd, R, S, o, bp)
  PROVE  /\ \A t \in Thread, c \in Class :
              /\ hp[t][c].cnt_free \in Nat /\ hp[t][c].cnt_unused \in Nat
              /\ hp[t][c].free_blk_list \in Ptr /\ hp[t][c].ptr_to_unused \in Ptr
              /\ hp[t][c].free_blk_list = NULL <=> hp[t][c].cnt_free = 0
              /\ hp[t][c].ptr_to_unused = NULL <=> hp[t][c].cnt_unused = 0
         /\ \A p \in Pb :
              /\ hd[p].cnt_free \in Nat /\ hd[p].cnt_unused \in Nat
              /\ hd[p].remote.cnt \in Nat
              /\ hd[p].free_list = NULL <=> hd[p].cnt_free = 0
              /\ hd[p].unallocated = NULL <=> hd[p].cnt_unused = 0
              /\ hd[p].remote.cnt > 0 => <<p, hd[p].remote.head>> \in Block
<1> PICK w, r : Placing(w, r, nx, hp, hd, R, S, o, bp)
  BY DEF Placed
<1>1. \A t \in Thread, c \in Class :
        /\ IsList(nx, w, r, ListAt(t, c), hp[t][c].free_blk_list, hp[t][c].cnt_free)
        /\ IsChunk(w, ChunkAt(t, c), hp[t][c].ptr_to_unused, hp[t][c].cnt_unused)
  BY Sides
<1>2. \A p \in Pb :
        /\ IsList(nx, w, r, FreeAt(p), hd[p].free_list, hd[p].cnt_free)
        /\ IsList(nx, w, r, RemoteAt(p), WordHead(p, hd[p].remote), hd[p].remote.cnt)
        /\ IsChunk(w, UnusedAt(p), hd[p].unallocated, hd[p].cnt_unused)
  BY Sides
<1>3. ASSUME NEW l, NEW h, NEW n, IsList(nx, w, r, l, h, n)
      PROVE  n \in Nat /\ (h = NULL <=> n = 0) /\ h \in Ptr
  BY <1>3 DEF IsList, IsSeg
<1>4. ASSUME NEW l, NEW h, NEW n, IsChunk(w, l, h, n)
      PROVE  n \in Nat /\ (h = NULL <=> n = 0) /\ h \in Ptr
  BY <1>4 DEF IsChunk
<1>5. ASSUME NEW p \in Pb, hd[p].remote.cnt > 0
      PROVE  <<p, hd[p].remote.head>> \in Block
  <2>1. WordHead(p, hd[p].remote) = <<p, hd[p].remote.head>>
    BY <1>5 DEF WordHead
  <2>2. WordHead(p, hd[p].remote) \in Ptr /\ hd[p].remote.cnt \in Nat
        /\ (WordHead(p, hd[p].remote) = NULL <=> hd[p].remote.cnt = 0)
    BY <1>2, <1>3
  <2> QED BY <1>5, <2>1, <2>2 DEF Ptr
<1> QED BY <1>1, <1>2, <1>3, <1>4, <1>5

LEMMA Counts ==
  ASSUME Here
  PROVE  /\ \A t \in Thread, c \in Class :
              /\ heap[t][c].cnt_free \in Nat /\ heap[t][c].cnt_unused \in Nat
              /\ heap[t][c].free_blk_list = NULL <=> heap[t][c].cnt_free = 0
              /\ heap[t][c].ptr_to_unused = NULL <=> heap[t][c].cnt_unused = 0
         /\ \A p \in Pb :
              /\ pbh[p].cnt_free \in Nat /\ pbh[p].cnt_unused \in Nat
              /\ pbh[p].remote.cnt \in Nat
              /\ pbh[p].free_list = NULL <=> pbh[p].cnt_free = 0
              /\ pbh[p].unallocated = NULL <=> pbh[p].cnt_unused = 0
              /\ pbh[p].remote.cnt > 0 => <<p, pbh[p].remote.head>> \in Block
BY PlacedCounts DEF Here

\* A chunk of a header lies in its page block, one of a thread in one of its
\* class.
LEMMA UnusedIn ==
  ASSUME Here
  PROVE  /\ \A p \in Pb : pbh[p].cnt_unused # 0 => pbh[p].unallocated[1] = p
         /\ \A t \in Thread, c \in Class : heap[t][c].cnt_unused # 0 =>
              heap[t][c].ptr_to_unused \in Block
              /\ pbh[heap[t][c].ptr_to_unused[1]].sizeclass = c
<1> PICK w, r : Placing(w, r, next, heap, pbh, Hands, rest, out, BlocksPerPbh)
  BY DEF Here, Placed
<1>1. ASSUME NEW l, NEW h, NEW n, IsChunk(w, l, h, n), n # 0
      PROVE  h \in Block /\ w[h] = l
  <2>1. h \in Block /\ 0 \in 0 .. n - 1
    BY <1>1 DEF IsChunk, Ptr
  <2>2. h = <<h[1], h[2] + 0>>
    BY <2>1, Blocks
  <2> QED BY <1>1, <2>1, <2>2 DEF IsChunk
<1>2. ASSUME NEW p \in Pb, pbh[p].cnt_unused # 0
      PROVE  pbh[p].unallocated[1] = p
  <2>1. IsChunk(w, UnusedAt(p), pbh[p].unallocated, pbh[p].cnt_unused)
    BY Sides
  <2>2. pbh[p].unallocated \in Block /\ w[pbh[p].unallocated] = UnusedAt(p)
    BY <1>1, <1>2, <2>1
  <2>3. Sited(w, pbh, Hands, out, BlocksPerPbh, pbh[p].unallocated)
    BY <2>2, Sides
  <2> QED BY <2>2, <2>3 DEF Sited
<1>3. ASSUME NEW t \in Thread, NEW c \in Class, heap[t][c].cnt_unused # 0
      PROVE  heap[t][c].ptr_to_unused \in Block
             /\ pbh[heap[t][c].ptr_to_unused[1]].sizeclass = c
  <2> DEFINE b == heap[t][c].ptr_to_unused
  <2>1. IsChunk(w, ChunkAt(t, c), b, heap[t][c].cnt_unused)
    BY Sides
  <2>2. b \in Block /\ w[b] = ChunkAt(t, c)
    BY <1>1, <1>3, <2>1
  <2>3. Sited(w, pbh, Hands, out, BlocksPerPbh, b)
    BY <2>2, Sides
  <2> QED BY <2>2, <2>3 DEF Sited
<1> QED BY <1>2, <1>3

\* No counter exceeds the bound.
LEMMA AtFits ==
  ASSUME Shapes, Room,
         NEW w, NEW R, NEW S,
         \A b \in Block : Sited(w, pbh, R, out, BlocksPerPbh, b),
         NEW l, l # Nowhere, NEW n \in Nat, Cardinality(At(w, l)) = n
  PROVE  n <= MaxBlocks
<1>1. IsFiniteSet(Carved)
  BY CarvedFinite
<1>2. At(w, l) \subseteq Carved
  <2> SUFFICES ASSUME NEW b \in At(w, l) PROVE b \in Carved
    OBVIOUS
  <2>1. b \in Block /\ w[b] # Nowhere
    BY DEF At
  <2>2. InCarved(pbh, BlocksPerPbh, b)
    BY <2>1 DEF Sited
  <2> QED BY <2>1, <2>2 DEF InCarved, Carved, InUse, Blk
<1>3. n <= Cardinality(Carved) /\ Cardinality(Carved) \in Nat
  BY <1>1, <1>2, FS_Subset, FS_CardinalityType
<1>4. MaxBlocks \in Nat
  BY Layout DEF Shapes
<1> QED BY <1>3, <1>4 DEF Room

LEMMA Fits ==
  ASSUME Shapes, Here, Room
  PROVE  /\ \A t \in Thread, c \in Class :
              /\ heap[t][c].cnt_free \in 0 .. MaxBlocks
              /\ heap[t][c].cnt_unused \in 0 .. MaxBlocks
         /\ \A p \in Pb :
              /\ pbh[p].cnt_free \in 0 .. MaxBlocks
              /\ pbh[p].cnt_unused \in 0 .. MaxBlocks
              /\ pbh[p].remote.cnt \in 0 .. MaxBlocks
         /\ \A t \in Thread : run[t].num \in 0 .. MaxBlocks
<1> PICK w, r : Placing(w, r, next, heap, pbh, Hands, rest, out, BlocksPerPbh)
  BY DEF Here, Placed
<1>0. MaxBlocks \in Nat
  BY Layout DEF Shapes
<1>1. \A b \in Block : Sited(w, pbh, Hands, out, BlocksPerPbh, b)
  BY Sides
<1>2. ASSUME NEW l, l # Nowhere, NEW h, NEW n, NEW z, IsSeg(next, w, r, l, h, n, z)
      PROVE  n \in 0 .. MaxBlocks
  <2>1. n \in Nat /\ Cardinality(At(w, l)) = n
    BY <1>2, SegCount
  <2>2. n <= MaxBlocks
    BY <1>1, <1>2, <2>1, AtFits
  <2> QED BY <1>0, <2>1, <2>2
<1>3. ASSUME NEW l, l # Nowhere, NEW h, NEW n, IsChunk(w, l, h, n)
      PROVE  n \in 0 .. MaxBlocks
  <2>1. n \in Nat /\ Cardinality(At(w, l)) = n
    BY <1>3, ChunkCount
  <2>2. n <= MaxBlocks
    BY <1>1, <1>3, <2>1, AtFits
  <2> QED BY <1>0, <2>1, <2>2
<1>4. ASSUME NEW t \in Thread, NEW c \in Class
      PROVE  /\ heap[t][c].cnt_free \in 0 .. MaxBlocks
             /\ heap[t][c].cnt_unused \in 0 .. MaxBlocks
  <2>1. IsSeg(next, w, r, ListAt(t, c), heap[t][c].free_blk_list, heap[t][c].cnt_free, NULL)
        /\ IsChunk(w, ChunkAt(t, c), heap[t][c].ptr_to_unused, heap[t][c].cnt_unused)
    BY Sides DEF IsList
  <2>2. ListAt(t, c) # Nowhere /\ ChunkAt(t, c) # Nowhere
    BY Spots
  <2> QED BY <1>2, <1>3, <2>1, <2>2
<1>5. ASSUME NEW p \in Pb
      PROVE  /\ pbh[p].cnt_free \in 0 .. MaxBlocks
             /\ pbh[p].cnt_unused \in 0 .. MaxBlocks
             /\ pbh[p].remote.cnt \in 0 .. MaxBlocks
  <2>1. IsSeg(next, w, r, FreeAt(p), pbh[p].free_list, pbh[p].cnt_free, NULL)
        /\ IsSeg(next, w, r, RemoteAt(p), WordHead(p, pbh[p].remote), pbh[p].remote.cnt, NULL)
        /\ IsChunk(w, UnusedAt(p), pbh[p].unallocated, pbh[p].cnt_unused)
    BY Sides DEF IsList
  <2>2. FreeAt(p) # Nowhere /\ UnusedAt(p) # Nowhere /\ RemoteAt(p) # Nowhere
    BY DEF FreeAt, UnusedAt, RemoteAt, Nowhere
  <2> QED BY <1>2, <1>3, <2>1, <2>2
<1>6. ASSUME NEW t \in Thread
      PROVE  run[t].num \in 0 .. MaxBlocks
  <2>1. HandOK(next, w, r, t, Hands[t]) /\ Hands[t].num = run[t].num
    BY Sides DEF Hands, Hand
  <2>2. CASE run[t].num = 0
    BY <1>0, <2>2
  <2>3. CASE run[t].num # 0
    <3>1. IsSeg(next, w, r, RunAt(t), Hands[t].first, run[t].num, next[Hands[t].last])
      BY <2>1, <2>3 DEF HandOK
    <3>2. RunAt(t) # Nowhere
      BY DEF RunAt, Nowhere
    <3> QED BY <1>2, <3>1, <3>2
  <2> QED BY <2>2, <2>3
<1> QED BY <1>4, <1>5, <1>6

(***************************************************************************)
(* What a step of one thread leaves alone                                  *)
(***************************************************************************)

\* No page block is cut.
LEMMA RoomKept ==
  ASSUME Shapes, Room, SpOf' = SpOf,
         \A p \in Pb : pbh'[p].sizeclass \in {pbh[p].sizeclass, 0}
  PROVE  Room'
<1>1. IsFiniteSet(Carved)
  BY CarvedFinite
<1>2. Carved' \subseteq Carved
  <2> SUFFICES ASSUME NEW b \in Carved' PROVE b \in Carved
    OBVIOUS
  <2>1. b \in Block /\ pbh'[b[1]].sizeclass # 0
        /\ b[2] \in 0 .. BLOCKS_PER_PBH[SpOf][pbh'[b[1]].sizeclass] - 1
    BY DEF Carved, InUse, Blk, BlocksPerPbh
  <2>2. pbh'[b[1]].sizeclass = pbh[b[1]].sizeclass
    BY <2>1, Blocks
  <2> QED BY <2>1, <2>2 DEF Carved, InUse, Blk, BlocksPerPbh
<1>3. Cardinality(Carved') <= Cardinality(Carved) /\ Cardinality(Carved) \in Nat
      /\ Cardinality(Carved') \in Nat
  BY <1>1, <1>2, FS_Subset, FS_CardinalityType
<1>4. MaxBlocks \in Nat /\ MaxBlocks' = MaxBlocks
  BY Layout DEF Shapes, MaxBlocks
<1> QED BY <1>3, <1>4 DEF Room

\* The other threads, and the page blocks of their superpages, stay.
Others(t) ==
  /\ \A u \in Thread : u # t =>
       /\ heap'[u] = heap[u] /\ pc'[u] = pc[u] /\ run'[u] = run[u]
       /\ top'[u] = top[u] /\ cl'[u] = cl[u] /\ rest'[u] = rest[u]
  /\ \A p \in Pb, u \in Thread : u # t =>
       /\ owner'[SpOf[p]] = u <=> OwnerOf(p) = u
       /\ OwnerOf(p) = u => /\ pbh'[p].sizeclass = pbh[p].sizeclass
                            /\ pbh'[p].cnt_unused = pbh[p].cnt_unused

LEMMA HandKept ==
  ASSUME NEW u \in Thread, pc'[u] = pc[u], run'[u] = run[u], top'[u] = top[u]
  PROVE  Hand(u)' = Hand(u)
BY DEF Hand

LEMMA OthersKept ==
  ASSUME Shapes, Here, SpOf' = SpOf, NEW t \in Thread, Others(t),
         NEW u \in Thread, u # t, Mine(u)
  PROVE  Mine(u)'
<1>1. /\ heap'[u] = heap[u] /\ pc'[u] = pc[u] /\ run'[u] = run[u]
      /\ top'[u] = top[u] /\ cl'[u] = cl[u] /\ rest'[u] = rest[u]
  BY DEF Others
<1>2. \A p \in Pb : /\ owner'[SpOf[p]] = u <=> OwnerOf(p) = u
                    /\ OwnerOf(p) = u => /\ pbh'[p].sizeclass = pbh[p].sizeclass
                                         /\ pbh'[p].cnt_unused = pbh[p].cnt_unused
  BY DEF Others
<1>3. PhaseOK(u)'
  <2>1. pc[u] = "local" => owner'[SpOf[run[u].first[1]]] = u
    <3>1. pc[u] = "local" => run[u].first[1] \in Pb /\ OwnerOf(run[u].first[1]) = u
      BY Blocks DEF Mine, PhaseOK, InHand
    <3> QED BY <1>2, <3>1
  <2>2. pc[u] = "local" => owner'[SpOf'[run'[u].first[1]]] = u
    BY <1>1, <2>1 DEF OwnerOf
  <2>3. PhaseOK(u)
    BY DEF Mine
  <2> QED BY <1>1, <2>2, <2>3 DEF PhaseOK, InHand, OwnerOf
<1>4. DoneOK(u)'
  BY <1>1 DEF Mine, DoneOK
<1>5. ASSUME NEW c \in Class PROVE PbhListOK(u, c)'
  <2> DEFINE list == heap[u][c].pbh_list
  <2>1. list \in Seq(Pb) /\ PbhListOK(u, c)
    BY DEF Shapes, HeapLists, Mine
  <2>2. \A p \in ToSet(list) : p \in Pb
    BY <2>1 DEF ToSet
  <2>3. c >= cl[u] => /\ Once(list)
                      /\ \A p \in ToSet(list) : owner'[SpOf[p]] = u /\ pbh'[p].sizeclass = c
    BY <1>2, <2>1, <2>2 DEF PbhListOK
  <2>4. c > cl[u] => \A p \in Pb : owner'[SpOf[p]] = u /\ pbh'[p].sizeclass = c => p \in ToSet(list)
    BY <1>2, <2>1 DEF PbhListOK
  <2>5. heap'[u][c].pbh_list = list
    BY <1>1
  <2> HIDE DEF list
  <2>6. cl'[u] = cl[u]
    BY <1>1
  <2> QED BY <2>3, <2>4, <2>5, <2>6 DEF PbhListOK, OwnerOf
<1>6. ASSUME NEW c \in Class PROVE ChunkOK(u, c)'
  <2> DEFINE h == heap[u][c]
             p == h.ptr_to_unused[1]
  <2>1. ChunkOK(u, c)
    BY DEF Mine
  <2>2. h.cnt_unused # 0 => p \in Pb
    BY Counts, Blocks DEF Shapes, HeapLists, Ptr
  <2>3. h.cnt_unused % BlocksPerLine[c] = 0
        /\ (h.cnt_unused # 0 => owner'[SpOf[p]] = u /\ pbh'[p].cnt_unused = 0)
    BY <1>2, <2>1, <2>2 DEF ChunkOK
  <2>4. heap'[u][c] = h
    BY <1>1
  <2> QED BY <2>3, <2>4 DEF ChunkOK, OwnerOf
<1> QED BY <1>3, <1>4, <1>5, <1>6 DEF Mine

\* What is left to show of a step of thread t.
LEMMA Finish ==
  ASSUME IInv, SpOf' = SpOf, NEW t \in Thread, Others(t),
         Shapes', Here', Room', \A p \in Pb : PbhOK(p)', Mine(t)'
  PROVE  IInv'
<1>1. ASSUME NEW u \in Thread PROVE Mine(u)'
  <2>1. CASE u = t
    BY <2>1
  <2>2. CASE u # t
    BY <2>2, OthersKept DEF IInv
  <2> QED BY <2>1, <2>2
<1> QED BY <1>1 DEF IInv

(***************************************************************************)
(* small_malloc                                                            *)
(***************************************************************************)

HeapSetTo(t, c, h, hp, hp2) == hp2 = [hp EXCEPT ![t][c] = h]

LEMMA HeapSet ==
  ASSUME NEW hp \in [Thread -> [Class -> HeapLists]], NEW t \in Thread, NEW c \in Class,
         NEW h \in HeapLists, NEW hp2, HeapSetTo(t, c, h, hp, hp2)
  PROVE  /\ hp2 \in [Thread -> [Class -> HeapLists]] /\ hp2[t][c] = h
         /\ \A u \in Thread, d \in Class : u # t \/ d # c => hp2[u][d] = hp[u][d]
         /\ \A u \in Thread : u # t => hp2[u] = hp[u]
BY DEF HeapSetTo

FreeListSetTo(t, c, f, n, hp, hp2) ==
  hp2 = [hp EXCEPT ![t][c].free_blk_list = f, ![t][c].cnt_free = n]

LEMMA FreeListSet ==
  ASSUME NEW hp \in [Thread -> [Class -> HeapLists]], NEW t \in Thread, NEW c \in Class,
         NEW f \in Ptr, NEW n \in Int, NEW hp2, FreeListSetTo(t, c, f, n, hp, hp2)
  PROVE  /\ hp2 \in [Thread -> [Class -> HeapLists]]
         /\ hp2[t][c].free_blk_list = f /\ hp2[t][c].cnt_free = n
         /\ hp2[t][c].ptr_to_unused = hp[t][c].ptr_to_unused
         /\ hp2[t][c].cnt_unused = hp[t][c].cnt_unused
         /\ hp2[t][c].pbh_list = hp[t][c].pbh_list
         /\ \A u \in Thread, d \in Class : u # t \/ d # c => hp2[u][d] = hp[u][d]
         /\ \A u \in Thread : u # t => hp2[u] = hp[u]
<1> DEFINE h2 == [hp[t][c] EXCEPT !.free_blk_list = f, !.cnt_free = n]
<1>1. HeapSetTo(t, c, h2, hp, hp2) /\ hp[t][c] \in HeapLists
  BY DEF HeapLists, HeapSetTo, FreeListSetTo
<1>2. h2 \in HeapLists /\ h2.free_blk_list = f /\ h2.cnt_free = n
      /\ h2.ptr_to_unused = hp[t][c].ptr_to_unused
      /\ h2.cnt_unused = hp[t][c].cnt_unused /\ h2.pbh_list = hp[t][c].pbh_list
  BY <1>1 DEF HeapLists
<1> HIDE DEF h2
<1>3. /\ hp2 \in [Thread -> [Class -> HeapLists]] /\ hp2[t][c] = h2
      /\ \A u \in Thread, d \in Class : u # t \/ d # c => hp2[u][d] = hp[u][d]
      /\ \A u \in Thread : u # t => hp2[u] = hp[u]
  <2>1. h2 \in HeapLists
    BY <1>2
  <2> QED BY ONLY <1>1, <2>1, t \in Thread, c \in Class,
                  hp \in [Thread -> [Class -> HeapLists]], HeapSet
<1> QED BY <1>2, <1>3

LEMMA PbhSet ==
  ASSUME NEW hd \in [Pb -> Headers], NEW p \in Pb, NEW h \in Headers,
         NEW hd2, hd2 = [hd EXCEPT ![p] = h]
  PROVE  /\ hd2 \in [Pb -> Headers] /\ hd2[p] = h
         /\ \A q \in Pb : q # p => hd2[q] = hd[q]
OBVIOUS

\* A block that leaves its list.
Nulled(b, nx, nx2) == nx2 = [nx EXCEPT ![b] = NULL]

LEMMA NulledIs ==
  ASSUME NEW nx \in [Block -> Ptr], NEW b \in Block, NEW nx2, Nulled(b, nx, nx2)
  PROVE  nx2 \in [Block -> Ptr] /\ nx2[b] = NULL /\ LinksBut(b, nx, nx2)
BY DEF Nulled, LinksBut, Ptr

\* A thread that is not in a call uses its list of class c and headers of its
\* own page blocks, which stay of their classes.
QuietRest(t, c) ==
  /\ pc' = pc /\ run' = run /\ top' = top /\ cl' = cl /\ rest' = rest /\ owner' = owner
  /\ \A u \in Thread, d \in Class : u # t \/ d # c => heap'[u][d] = heap[u][d]
  /\ \A u \in Thread : u # t => heap'[u] = heap[u]

QuietHeaders(t) ==
  \A p \in Pb : /\ pbh'[p].sizeclass = pbh[p].sizeclass
                /\ pbh[p].sizeclass = 0 => pbh'[p] = pbh[p]
                /\ \/ pbh'[p].cnt_unused = pbh[p].cnt_unused
                   \/ OwnerOf(p) = t /\ pbh'[p].cnt_unused = 0

QuietList(t, c) ==
  /\ ToSet(heap'[t][c].pbh_list) = ToSet(heap[t][c].pbh_list)
  /\ Once(heap[t][c].pbh_list) => Once(heap'[t][c].pbh_list)

QuietChunk(t, c) ==
  /\ heap'[t][c].cnt_unused % BlocksPerLine[c] = 0
  /\ heap'[t][c].cnt_unused # 0 =>
       /\ OwnerOf(heap'[t][c].ptr_to_unused[1]) = t
       /\ pbh'[heap'[t][c].ptr_to_unused[1]].cnt_unused = 0

Quiet(t, c) ==
  QuietRest(t, c) /\ QuietHeaders(t) /\ QuietList(t, c) /\ QuietChunk(t, c)

LEMMA QuietKept ==
  ASSUME IInv, SpOf' = SpOf, NEW t \in Thread, NEW c \in Class, pc[t] = "idle",
         Quiet(t, c), Shapes', Placed(next', heap', pbh', Hands, rest, out', BlocksPerPbh)
  PROVE  IInv'
<1>0. Shapes /\ Here /\ Room /\ Mine(t)
  BY DEF IInv
<1>1. pc' = pc /\ run' = run /\ top' = top /\ cl' = cl /\ rest' = rest /\ owner' = owner
  BY DEF Quiet, QuietRest
<1>2. \A p \in Pb : owner'[SpOf[p]] = OwnerOf(p)
  BY <1>1 DEF OwnerOf
<1>3. \A p \in Pb : pbh'[p].sizeclass = pbh[p].sizeclass
  BY DEF Quiet, QuietHeaders
<1>4. \A p \in Pb : \/ pbh'[p].cnt_unused = pbh[p].cnt_unused
                    \/ OwnerOf(p) = t /\ pbh'[p].cnt_unused = 0
  BY DEF Quiet, QuietHeaders
<1>5. Others(t)
  BY <1>1, <1>2, <1>3, <1>4 DEF Quiet, QuietRest, Others
<1>6. Here'
  <2>1. Hands' = Hands /\ BlocksPerPbh' = BlocksPerPbh
    BY <1>1 DEF Hands, Hand, BlocksPerPbh
  <2> QED BY <1>1, <2>1 DEF Here
<1>7. Room'
  BY <1>0, <1>3, RoomKept
<1>8. ASSUME NEW p \in Pb PROVE PbhOK(p)'
  <2>0. PbhOK(p)
    BY DEF IInv
  <2>1. CASE pbh[p].sizeclass = 0
    <3>1. pbh'[p] = pbh[p] /\ pbh[p] = FreePbh
      BY <2>0, <2>1 DEF Quiet, QuietHeaders, PbhOK, InUse
    <3> QED BY <2>1, <3>1 DEF PbhOK, InUse, FreePbh
  <2>2. CASE pbh[p].sizeclass # 0
    <3>1. pbh[p].sizeclass \in Class
      BY <1>0, <2>2, Fields
    <3>2. 0 % BlocksPerLine[pbh[p].sizeclass] = 0
      BY <3>1, NoneOver
    <3>3. pbh'[p].cnt_unused % BlocksPerLine[pbh[p].sizeclass] = 0
          /\ OwnerOf(p) # NULL
      BY <1>4, <2>0, <2>2, <3>2 DEF PbhOK, InUse
    <3> QED BY <1>2, <1>3, <2>2, <3>3 DEF PbhOK, InUse, OwnerOf
  <2> QED BY <2>1, <2>2
<1>9. Mine(t)'
  <2>1. PhaseOK(t)'
    <3>1. PhaseOK(t)
      BY <1>0 DEF Mine
    <3> QED BY <1>1, <3>1 DEF PhaseOK, InHand
  <2>2. cl[t] = 0 /\ cl'[t] = 0
    BY <1>0, <1>1 DEF Mine, PhaseOK
  <2>3. DoneOK(t)'
    BY <2>2 DEF DoneOK, Class
  <2>4. ASSUME NEW d \in Class PROVE PbhListOK(t, d)'
    <3>1. PbhListOK(t, d)
      BY <1>0 DEF Mine
    <3>2. ToSet(heap'[t][d].pbh_list) = ToSet(heap[t][d].pbh_list)
          /\ (Once(heap[t][d].pbh_list) => Once(heap'[t][d].pbh_list))
      BY DEF Quiet, QuietRest, QuietList
    <3>3. \A p \in ToSet(heap[t][d].pbh_list) : p \in Pb
      BY <1>0, Fields
    <3> QED BY <1>2, <1>3, <2>2, <3>1, <3>2, <3>3 DEF PbhListOK, OwnerOf
  <2>5. ASSUME NEW d \in Class PROVE ChunkOK(t, d)'
    <3>1. CASE d = c
      BY <1>1, <3>1 DEF Quiet, QuietChunk, ChunkOK, OwnerOf
    <3>2. CASE d # c
      <4>1. ChunkOK(t, d) /\ heap'[t][d] = heap[t][d]
        BY <1>0, <3>2 DEF Mine, Quiet, QuietRest
      <4>2. heap[t][d].cnt_unused # 0 => heap[t][d].ptr_to_unused[1] \in Pb
        BY <1>0, Counts, Blocks, Fields DEF Ptr
      <4> QED BY <1>2, <1>4, <4>1, <4>2 DEF ChunkOK, OwnerOf
    <3> QED BY <3>1, <3>2
  <2> QED BY <2>1, <2>3, <2>4, <2>5 DEF Mine
<1> QED BY <1>5, <1>6, <1>7, <1>8, <1>9, Finish

\* What malloc of class c gives to the program.
Gives(c) ==
  \E b \in Block : b \notin out /\ out' = out \cup {b} /\ pbh'[b[1]].sizeclass = c

LEMMA ShapesQuiet ==
  ASSUME Shapes, SpOf' = SpOf, owner' \in [Superpage -> Thread \cup {NULL, DEAD_OWNER}],
         pbh' \in [Pb -> Headers], next' \in [Block -> Ptr],
         heap' \in [Thread -> [Class -> HeapLists]], out' \subseteq Block,
         pc' = pc, run' = run, top' = top, cl' = cl, rest' = rest
  PROVE  Shapes'
BY DEF Shapes, MaxBlocks

LEMMA MallocLocalStep ==
  ASSUME IInv, SpOf' = SpOf, NEW t \in Thread, NEW c \in Class, MallocLocal(t, c)
  PROVE  IInv' /\ Gives(c)
<1> DEFINE b == heap[t][c].free_blk_list
<1>0. Shapes /\ Here /\ Mine(t)
  BY DEF IInv
<1>1. /\ pc[t] = "idle" /\ b # NULL
      /\ FreeListSetTo(t, c, next[b], heap[t][c].cnt_free - 1, heap, heap')
      /\ Nulled(b, next, next')
      /\ out' = out \cup {b}
      /\ pc' = pc /\ run' = run /\ top' = top /\ cl' = cl /\ rest' = rest
      /\ owner' = owner /\ pbh' = pbh
  BY DEF MallocLocal, HandOut, FreeListSetTo, Nulled
<1>2. b \in Block /\ next \in [Block -> Ptr] /\ out \in SUBSET Block
      /\ next[b] \in Ptr /\ heap[t][c].cnt_free - 1 \in Int
      /\ heap \in [Thread -> [Class -> HeapLists]]
  BY <1>0, <1>1, Fields DEF Ptr, Shapes
<1>7. /\ heap' \in [Thread -> [Class -> HeapLists]]
      /\ heap'[t][c].free_blk_list = next[b]
      /\ heap'[t][c].cnt_free = heap[t][c].cnt_free - 1
      /\ heap'[t][c].ptr_to_unused = heap[t][c].ptr_to_unused
      /\ heap'[t][c].cnt_unused = heap[t][c].cnt_unused
      /\ heap'[t][c].pbh_list = heap[t][c].pbh_list
      /\ \A u \in Thread, d \in Class : u # t \/ d # c => heap'[u][d] = heap[u][d]
      /\ \A u \in Thread : u # t => heap'[u] = heap[u]
  <2> DEFINE f == next[b]
             n == heap[t][c].cnt_free - 1
  <2>1. FreeListSetTo(t, c, f, n, heap, heap')
    BY <1>1
  <2>2. f \in Ptr /\ n \in Int /\ heap \in [Thread -> [Class -> HeapLists]]
    BY <1>2
  <2> HIDE DEF f, n
  <2>3. /\ heap' \in [Thread -> [Class -> HeapLists]]
        /\ heap'[t][c].free_blk_list = f /\ heap'[t][c].cnt_free = n
        /\ heap'[t][c].ptr_to_unused = heap[t][c].ptr_to_unused
        /\ heap'[t][c].cnt_unused = heap[t][c].cnt_unused
        /\ heap'[t][c].pbh_list = heap[t][c].pbh_list
        /\ \A u \in Thread, d \in Class : u # t \/ d # c => heap'[u][d] = heap[u][d]
        /\ \A u \in Thread : u # t => heap'[u] = heap[u]
    BY <2>1, <2>2, FreeListSet
  <2> QED BY <2>3 DEF f, n
<1>8. Shapes'
  <2>1. next' \in [Block -> Ptr] /\ out' \subseteq Block
    BY <1>1, <1>2, NulledIs
  <2>2. pbh' \in [Pb -> Headers] /\ owner' \in [Superpage -> Thread \cup {NULL, DEAD_OWNER}]
    BY <1>0, <1>1 DEF Shapes
  <2> QED BY <1>0, <1>1, <1>7, <2>1, <2>2, ShapesQuiet
<1>9. Quiet(t, c)
  <2>1. ChunkOK(t, c)
    BY <1>0 DEF Mine
  <2>2. QuietRest(t, c)
    BY <1>1, <1>7 DEF QuietRest
  <2>3. QuietHeaders(t)
    BY <1>1 DEF QuietHeaders
  <2>4. QuietList(t, c) /\ QuietChunk(t, c)
    BY <1>1, <1>7, <2>1 DEF QuietList, QuietChunk, ChunkOK
  <2> QED BY <2>2, <2>3, <2>4 DEF Quiet
<1>10. /\ Placed(next', heap', pbh, Hands, rest, out \cup {b}, BlocksPerPbh)
       /\ b \notin out /\ pbh[b[1]].sizeclass = c
  <2>1. Placed(next, heap, pbh, Hands, rest, out, BlocksPerPbh)
    BY <1>0 DEF Here
  <2>2. Pops(next, heap, t, c, b, next', heap')
    <3>1. LinksBut(b, next, next')
      BY <1>1, <1>2, NulledIs
    <3>2. HeapsBut(t, c, heap, heap')
      BY <1>7 DEF HeapsBut, SameList
    <3> QED BY <1>1, <1>7, <3>1, <3>2 DEF Pops
  <2>3. b \in Block /\ out \in SUBSET Block
    BY <1>2
  <2> HIDE DEF b
  <2> QED BY <2>1, <2>2, <2>3, PopMove
<1>11. Gives(c)
  BY <1>1, <1>2, <1>10 DEF Gives
<1> QED BY <1>1, <1>8, <1>9, <1>10, <1>11, QuietKept

\* Before bump_alloc: the thread has no free list, and chunk b.
Ready(t, c, h, b, hp, hp1) ==
  /\ h.free_blk_list = NULL /\ h.cnt_unused % BlocksPerLine[c] = 0
  /\ hp1[t][c].free_blk_list = NULL /\ hp1[t][c].cnt_free = h.cnt_free
  /\ hp1[t][c].ptr_to_unused = b /\ hp1[t][c].cnt_unused = h.cnt_unused
  /\ HeapsBut(t, c, hp, hp1)

\* After it, with headers hd.
BumpDone(t, c, h, b, hd) ==
  /\ heap' \in [Thread -> [Class -> HeapLists]] /\ next' \in [Block -> Ptr]
  /\ heap'[t][c].pbh_list = h.pbh_list
  /\ heap'[t][c].cnt_unused % BlocksPerLine[c] = 0
  /\ heap'[t][c].cnt_unused # 0 => heap'[t][c].ptr_to_unused[1] = b[1]
  /\ \A u \in Thread, d \in Class : u # t \/ d # c => heap'[u][d] = heap[u][d]
  /\ \A u \in Thread : u # t => heap'[u] = heap[u]
  /\ Placed(next', heap', hd, Hands, rest, out', BlocksPerPbh)
  /\ out' = out \cup {b} /\ b \notin out
  /\ hd[b[1]].sizeclass = c /\ InCarved(hd, BlocksPerPbh, b)
  /\ pc' = pc /\ run' = run /\ top' = top /\ cl' = cl /\ rest' = rest

LEMMA BumpAllocIs ==
  ASSUME NEW t \in Thread, NEW c \in Class, NEW h \in HeapLists, NEW b \in Block,
         BumpAlloc(t, c, h, b), SpOf \in Layouts,
         heap \in [Thread -> [Class -> HeapLists]], next \in [Block -> Ptr],
         out \in SUBSET Block,
         NEW hp1, Ready(t, c, h, b, heap, hp1),
         NEW hd, Placed(next, hp1, hd, Hands, rest, out, BlocksPerPbh)
  PROVE  BumpDone(t, c, h, b, hd)
<1> DEFINE L == BlocksPerLine[c]
           n == h.cnt_unused
           k == IF L = 1 THEN [h EXCEPT !.cnt_unused = n - L,
                                        !.ptr_to_unused = IF n - L > 0 THEN <<b[1], b[2] + L>> ELSE NULL]
                ELSE [h EXCEPT !.cnt_unused = n - L,
                               !.ptr_to_unused = IF n - L > 0 THEN <<b[1], b[2] + L>> ELSE NULL,
                               !.free_blk_list = <<b[1], b[2] + 1>>, !.cnt_free = L - 1]
<1>1. L \in Nat \ {0}
  BY Layout
<1>2. n \in Nat /\ n # 0 /\ n % L = 0
  <2>1. hp1[t][c].cnt_unused \in Nat
        /\ (hp1[t][c].ptr_to_unused = NULL <=> hp1[t][c].cnt_unused = 0)
    BY PlacedCounts
  <2> QED BY <2>1, Blocks DEF Ready
<1>3. n >= L /\ (n - L) % L = 0
  <2> HIDE DEF n, L
  <2> QED BY <1>1, <1>2, WholeLines
<1>4. /\ heap' = [heap EXCEPT ![t][c] = k]
      /\ \A x \in Block : next'[x] =
           IF \E i \in 1 .. L - 2 : x = <<b[1], b[2] + i>> THEN <<x[1], x[2] + 1>>
           ELSE IF L > 1 /\ x = <<b[1], b[2] + (L - 1)>> THEN NULL ELSE next[x]
      /\ next' = [x \in Block |-> next'[x]]
      /\ out' = out \cup {b}
      /\ pc' = pc /\ run' = run /\ top' = top /\ cl' = cl /\ rest' = rest
  BY DEF BumpAlloc, HandOut, Bumped
<1>5. /\ k.cnt_unused = n - L
      /\ k.ptr_to_unused = IF n - L > 0 THEN <<b[1], b[2] + L>> ELSE NULL
      /\ k.free_blk_list = IF L = 1 THEN NULL ELSE <<b[1], b[2] + 1>>
      /\ k.cnt_free = IF L = 1 THEN h.cnt_free ELSE L - 1
      /\ k.pbh_list = h.pbh_list
  BY DEF HeapLists, Ready
<1>6. /\ heap'[t][c] = k
      /\ \A u \in Thread, d \in Class : u # t \/ d # c => heap'[u][d] = heap[u][d]
      /\ \A u \in Thread : u # t => heap'[u] = heap[u]
  BY <1>4
<1> HIDE DEF k
<1>7. Bumps(next, hp1, t, c, b, L, next', heap')
  <2>1. LineLinked(b, L, next, next')
    BY <1>4 DEF LineLinked
  <2>2. HeapsBut(t, c, hp1, heap')
    BY <1>6 DEF HeapsBut, Ready, SameList
  <2>3. b # NULL
    BY Blocks
  <2> HIDE DEF L
  <2>4. /\ heap'[t][c].free_blk_list = k.free_blk_list /\ heap'[t][c].cnt_free = k.cnt_free
        /\ heap'[t][c].ptr_to_unused = k.ptr_to_unused
        /\ heap'[t][c].cnt_unused = k.cnt_unused
    BY <1>6
  <2> QED BY <1>1, <1>3, <1>5, <2>1, <2>2, <2>3, <2>4 DEF Bumps, Ready
<1>8. /\ Placed(next', heap', hd, Hands, rest, out', BlocksPerPbh)
      /\ b \notin out /\ hd[b[1]].sizeclass = c /\ InCarved(hd, BlocksPerPbh, b)
  <2> HIDE DEF L
  <2>0. /\ Placed(next, hp1, hd, Hands, rest, out, BlocksPerPbh)
        /\ out \in SUBSET Block /\ t \in Thread /\ c \in Class
    OBVIOUS
  <2>1. Placed(next', heap', hd, Hands, rest, out \cup {b}, BlocksPerPbh)
        /\ b \notin out /\ hd[b[1]].sizeclass = c /\ InCarved(hd, BlocksPerPbh, b)
    BY ONLY <1>7, <2>0, BumpMove
  <2>2. out' = out \cup {b}
    BY <1>4
  <2> QED BY ONLY <2>1, <2>2
<1>9. next' \in [Block -> Ptr]
  <2>1. \A i \in 0 .. n - 1 : <<b[1], b[2] + i>> \in Block
    <3>1. PICK w, r : Placing(w, r, next, hp1, hd, Hands, rest, out, BlocksPerPbh)
      BY DEF Placed
    <3>2. IsChunk(w, ChunkAt(t, c), b, n)
      BY <3>1, Sides DEF Ready
    <3> QED BY <3>2 DEF IsChunk
  <2>2. ASSUME NEW x \in Block, NEW i \in 1 .. L - 2, x = <<b[1], b[2] + i>>
        PROVE  <<x[1], x[2] + 1>> \in Block
    <3>1. i + 1 \in 0 .. n - 1 /\ b[2] \in Nat /\ i \in Int
      BY <1>1, <1>2, <1>3, Blocks
    <3>2. <<b[1], b[2] + (i + 1)>> \in Block
      BY <2>1, <3>1
    <3>3. x[1] = b[1] /\ x[2] = b[2] + i /\ (b[2] + i) + 1 = b[2] + (i + 1)
      BY <2>2, <3>1
    <3> QED BY ONLY <3>2, <3>3
  <2>3. \A x \in Block : next'[x] \in Ptr
    <3> HIDE DEF L
    <3> QED BY <1>4, <2>2 DEF Ptr
  <2> QED BY <1>4, <2>3
<1>10. heap' \in [Thread -> [Class -> HeapLists]]
  <2>1. k.free_blk_list \in Ptr /\ k.ptr_to_unused \in Ptr
        /\ k.cnt_free \in Int /\ k.cnt_unused \in Int
    <3>1. heap'[t][c].free_blk_list \in Ptr /\ heap'[t][c].ptr_to_unused \in Ptr
          /\ heap'[t][c].cnt_free \in Int /\ heap'[t][c].cnt_unused \in Int
      BY <1>8, PlacedCounts
    <3> QED BY <1>6, <3>1
  <2>2. k = [free_blk_list |-> k.free_blk_list, cnt_free |-> k.cnt_free,
             ptr_to_unused |-> k.ptr_to_unused, cnt_unused |-> k.cnt_unused,
             pbh_list |-> k.pbh_list]
    BY DEF k, HeapLists
  <2>3. k.pbh_list \in Seq(Pb)
    BY <1>5 DEF HeapLists
  <2>4. k \in HeapLists
    BY ONLY <2>1, <2>2, <2>3 DEF HeapLists
  <2>5. HeapSetTo(t, c, k, heap, heap')
    BY <1>4 DEF HeapSetTo
  <2> QED BY <2>4, <2>5, HeapSet
<1>11. k.cnt_unused # 0 => k.ptr_to_unused[1] = b[1]
  BY <1>1, <1>2, <1>3, <1>5
<1>12. /\ out' = out \cup {b}
       /\ pc' = pc /\ run' = run /\ top' = top /\ cl' = cl /\ rest' = rest
  BY <1>4
<1> QED BY <1>3, <1>5, <1>6, <1>8, <1>9, <1>10, <1>11, <1>12 DEF BumpDone

LEMMA MallocBumpStep ==
  ASSUME IInv, SpOf' = SpOf, NEW t \in Thread, NEW c \in Class, MallocBump(t, c)
  PROVE  IInv' /\ Gives(c)
<1> DEFINE h == heap[t][c]
           b == h.ptr_to_unused
<1>0. Shapes /\ Here /\ Mine(t)
  BY DEF IInv
<1>1. /\ pc[t] = "idle" /\ h.free_blk_list = NULL /\ b # NULL
      /\ BumpAlloc(t, c, h, b) /\ owner' = owner /\ pbh' = pbh
  BY DEF MallocBump
<1>2. /\ b \in Block /\ h \in HeapLists /\ next \in [Block -> Ptr] /\ out \in SUBSET Block
      /\ SpOf \in Layouts /\ heap \in [Thread -> [Class -> HeapLists]]
  BY <1>0, <1>1, Fields DEF Ptr, Shapes
<1>3. Ready(t, c, h, b, heap, heap)
  <2>1. ChunkOK(t, c)
    BY <1>0 DEF Mine
  <2> QED BY <1>1, <2>1 DEF Ready, ChunkOK, HeapsBut, SameList
<1>4. Placed(next, heap, pbh, Hands, rest, out, BlocksPerPbh)
  BY <1>0 DEF Here
<1>5. /\ heap' \in [Thread -> [Class -> HeapLists]] /\ next' \in [Block -> Ptr]
      /\ heap'[t][c].pbh_list = h.pbh_list
      /\ heap'[t][c].cnt_unused % BlocksPerLine[c] = 0
      /\ heap'[t][c].cnt_unused # 0 => heap'[t][c].ptr_to_unused[1] = b[1]
      /\ \A u \in Thread, d \in Class : u # t \/ d # c => heap'[u][d] = heap[u][d]
      /\ \A u \in Thread : u # t => heap'[u] = heap[u]
      /\ Placed(next', heap', pbh, Hands, rest, out', BlocksPerPbh)
      /\ out' = out \cup {b} /\ b \notin out
      /\ pbh[b[1]].sizeclass = c
      /\ pc' = pc /\ run' = run /\ top' = top /\ cl' = cl /\ rest' = rest
  <2> HIDE DEF h, b
  <2>9. BumpDone(t, c, h, b, pbh)
    BY <1>1, <1>2, <1>3, <1>4, BumpAllocIs
  <2> QED BY <2>9 DEF BumpDone
<1>6. Shapes'
  <2>1. pbh' \in [Pb -> Headers] /\ owner' \in [Superpage -> Thread \cup {NULL, DEAD_OWNER}]
    BY <1>0, <1>1 DEF Shapes
  <2>2. out' \subseteq Block
    BY <1>2, <1>5
  <2> QED BY <1>0, <1>5, <2>1, <2>2, ShapesQuiet
<1>7. Quiet(t, c)
  <2>1. ChunkOK(t, c)
    BY <1>0 DEF Mine
  <2>2. OwnerOf(b[1]) = t /\ pbh[b[1]].cnt_unused = 0
    BY <1>0, <1>1, <2>1, Counts DEF ChunkOK
  <2>3. QuietRest(t, c)
    BY <1>1, <1>5 DEF QuietRest
  <2>4. QuietHeaders(t) /\ QuietList(t, c)
    BY <1>1, <1>5 DEF QuietHeaders, QuietList
  <2>5. QuietChunk(t, c)
    BY <1>1, <1>5, <2>2 DEF QuietChunk
  <2> QED BY <2>3, <2>4, <2>5 DEF Quiet
<1>8. Gives(c)
  BY <1>1, <1>2, <1>5 DEF Gives
<1> QED BY <1>1, <1>5, <1>6, <1>7, <1>8, QuietKept

\* List k is list l in another order.
SameMembers(l, k) == k \in Seq(Pb) /\ ToSet(k) = ToSet(l) /\ (Once(l) => Once(k))

\* Page block p is the first one of a thread's list.
IsFront(t, c, p) == heap[t][c].pbh_list # << >> /\ p = Head(heap[t][c].pbh_list)

LEMMA FirstPbh ==
  ASSUME IInv, NEW t \in Thread, NEW c \in Class, pc[t] = "idle", NEW p, IsFront(t, c, p)
  PROVE  /\ p \in Pb /\ OwnerOf(p) = t /\ pbh[p].sizeclass = c
         /\ SameMembers(heap[t][c].pbh_list, Rotated(heap[t][c].pbh_list))
         /\ SameMembers(heap[t][c].pbh_list, Stepped(heap[t][c], p))
<1> DEFINE list == heap[t][c].pbh_list
<1>1. list \in Seq(Pb) /\ list # << >> /\ p = Head(list)
  BY Fields DEF IInv, IsFront
<1>2. PbhListOK(t, c) /\ cl[t] = 0
  BY DEF IInv, Mine, PhaseOK
<1>3. p \in Pb /\ p \in ToSet(list)
  BY <1>1, TailIs
<1>4. OwnerOf(p) = t /\ pbh[p].sizeclass = c
  BY <1>2, <1>3 DEF PbhListOK, Class
<1>5. SameMembers(list, Rotated(list)) /\ SameMembers(list, list)
  <2> HIDE DEF list
  <2> QED BY <1>1, RotatedIs DEF SameMembers
<1>6. SameMembers(list, Stepped(heap[t][c], p))
  <2>1. CASE pbh[p].remote.cnt = 0
    BY <1>5, <2>1 DEF Stepped
  <2>2. CASE pbh[p].remote.cnt # 0
    BY <1>5, <2>2 DEF Stepped
  <2> QED BY <2>1, <2>2
<1> QED BY <1>3, <1>4, <1>5, <1>6

EmptiedAt(p, hd, hd2) == hd2 = [hd EXCEPT ![p] = Emptied(hd[p])]

LEMMA EmptiedIs ==
  ASSUME NEW hd \in [Pb -> Headers], NEW p \in Pb, NEW hd2, EmptiedAt(p, hd, hd2)
  PROVE  /\ hd2 \in [Pb -> Headers]
         /\ hd2[p].sizeclass = hd[p].sizeclass /\ hd2[p].remote = hd[p].remote
         /\ hd2[p].free_list = NULL /\ hd2[p].cnt_free = 0
         /\ hd2[p].unallocated = NULL /\ hd2[p].cnt_unused = 0
         /\ \A q \in Pb : q # p => hd2[q] = hd[q]
<1>1. ASSUME NEW g \in Headers
      PROVE  /\ Emptied(g) \in Headers
             /\ Emptied(g).sizeclass = g.sizeclass /\ Emptied(g).remote = g.remote
             /\ Emptied(g).free_list = NULL /\ Emptied(g).cnt_free = 0
             /\ Emptied(g).unallocated = NULL /\ Emptied(g).cnt_unused = 0
  <2> DEFINE e == Emptied(g)
  <2>1. NULL \in Ptr /\ 0 \in Int
    BY DEF Ptr
  <2>2. /\ e.sizeclass = g.sizeclass /\ e.remote = g.remote
        /\ e.free_list = NULL /\ e.cnt_free = 0
        /\ e.unallocated = NULL /\ e.cnt_unused = 0
    BY DEF Emptied, Headers
  <2>3. DOMAIN e = DOMAIN g /\ e = [x \in DOMAIN e |-> e[x]]
    BY DEF Emptied, Headers
  <2> HIDE DEF e
  <2>4. e \in Headers
    BY <2>1, <2>2, <2>3 DEF Headers
  <2> QED BY <2>2, <2>4 DEF e
<1>2. hd[p] \in Headers /\ hd2 = [hd EXCEPT ![p] = Emptied(hd[p])]
  BY DEF EmptiedAt
<1> QED BY <1>1, <1>2

\* The chunk of a header is a number of whole lines.
LEMMA LinesOfPbh ==
  ASSUME IInv, NEW p \in Pb, NEW c \in Class, pbh[p].sizeclass = c
  PROVE  pbh[p].cnt_unused % BlocksPerLine[c] = 0
<1>1. PbhOK(p) /\ c # 0
  BY DEF IInv, Class
<1> QED BY <1>1 DEF PbhOK, InUse

\* hp and hd with another list of class c of thread t, another header p.
WithList(hp, t, c, f, n, u, m) ==
  [v \in Thread |-> [d \in Class |->
     IF v = t /\ d = c
     THEN [free_blk_list |-> f, cnt_free |-> n, ptr_to_unused |-> u, cnt_unused |-> m]
     ELSE hp[v][d]]]

WithHdr(hd, p, f, n, u, m) ==
  [q \in Pb |->
     IF q = p
     THEN [sizeclass |-> hd[p].sizeclass, free_list |-> f, cnt_free |-> n,
           unallocated |-> u, cnt_unused |-> m, remote |-> hd[p].remote]
     ELSE hd[q]]

LEMMA WithListIs ==
  ASSUME NEW hp, NEW t \in Thread, NEW c \in Class, NEW f, NEW n, NEW u, NEW m,
         NEW hp2, hp2 = WithList(hp, t, c, f, n, u, m)
  PROVE  /\ HeapsBut(t, c, hp, hp2)
         /\ hp2[t][c].free_blk_list = f /\ hp2[t][c].cnt_free = n
         /\ hp2[t][c].ptr_to_unused = u /\ hp2[t][c].cnt_unused = m
BY DEF WithList, HeapsBut, SameList

LEMMA WithHdrIs ==
  ASSUME NEW hd, NEW p \in Pb, NEW f, NEW n, NEW u, NEW m,
         NEW hd2, hd2 = WithHdr(hd, p, f, n, u, m)
  PROVE  /\ HdrsBut(p, hd, hd2)
         /\ hd2[p].sizeclass = hd[p].sizeclass /\ hd2[p].remote = hd[p].remote
         /\ hd2[p].free_list = f /\ hd2[p].cnt_free = n
         /\ hd2[p].unallocated = u /\ hd2[p].cnt_unused = m
BY DEF WithHdr, HdrsBut, SameHdr

\* Case 3: the thread takes free list and chunk of header p, and their first
\* block b from the list.
TakesAndPops(nx, hp, hd, t, c, p, b, nx2, hp2, hd2) ==
  /\ hd[p].sizeclass = c /\ hd[p].free_list = b /\ b # NULL
  /\ hp[t][c].free_blk_list = NULL /\ hp[t][c].ptr_to_unused = NULL
  /\ HeapsBut(t, c, hp, hp2) /\ HdrsBut(p, hd, hd2) /\ LinksBut(b, nx, nx2)
  /\ hp2[t][c].free_blk_list = nx[b]
  /\ hp2[t][c].cnt_free = hd[p].cnt_free - 1
  /\ hp2[t][c].ptr_to_unused = hd[p].unallocated
  /\ hp2[t][c].cnt_unused = hd[p].cnt_unused
  /\ hd2[p].free_list = NULL /\ hd2[p].cnt_free = 0
  /\ hd2[p].unallocated = NULL /\ hd2[p].cnt_unused = 0
  /\ hd2[p].remote = hd[p].remote

LEMMA TakeAndPopMove ==
  ASSUME NEW nx, NEW hp, NEW hd, NEW R, NEW S, NEW o \in SUBSET Block, NEW bp,
         Placed(nx, hp, hd, R, S, o, bp), NEW t \in Thread, NEW c \in Class,
         NEW p \in Pb, NEW b \in Block, NEW nx2, NEW hp2, NEW hd2,
         TakesAndPops(nx, hp, hd, t, c, p, b, nx2, hp2, hd2)
  PROVE  /\ Placed(nx2, hp2, hd2, R, S, o \cup {b}, bp)
         /\ b \notin o /\ hd2[b[1]].sizeclass = c
<1> DEFINE hp3 == WithList(hp, t, c, b, hd[p].cnt_free, NULL, hp[t][c].cnt_unused)
           hp4 == WithList(hp3, t, c, b, hd[p].cnt_free, hd[p].unallocated, hd[p].cnt_unused)
           hd3 == WithHdr(hd, p, NULL, 0, hd[p].unallocated, hd[p].cnt_unused)
<1>1. /\ HeapsBut(t, c, hp, hp3)
      /\ hp3[t][c].free_blk_list = b /\ hp3[t][c].cnt_free = hd[p].cnt_free
      /\ hp3[t][c].ptr_to_unused = NULL /\ hp3[t][c].cnt_unused = hp[t][c].cnt_unused
  BY WithListIs
<1>2. /\ HdrsBut(p, hd, hd3)
      /\ hd3[p].sizeclass = hd[p].sizeclass /\ hd3[p].remote = hd[p].remote
      /\ hd3[p].free_list = NULL /\ hd3[p].cnt_free = 0
      /\ hd3[p].unallocated = hd[p].unallocated /\ hd3[p].cnt_unused = hd[p].cnt_unused
  BY WithHdrIs
<1> HIDE DEF hp3, hd3
<1>3. /\ HeapsBut(t, c, hp3, hp4)
      /\ hp4[t][c].free_blk_list = b /\ hp4[t][c].cnt_free = hd[p].cnt_free
      /\ hp4[t][c].ptr_to_unused = hd[p].unallocated /\ hp4[t][c].cnt_unused = hd[p].cnt_unused
  BY WithListIs
<1> HIDE DEF hp4
<1>4. Placed(nx, hp3, hd3, R, S, o, bp)
  <2>1. TakesFree(hp, hd, t, c, p, hp3, hd3)
    BY <1>1, <1>2 DEF TakesFree, TakesAndPops
  <2> QED BY <2>1, TakeFreeMove
<1>5. Placed(nx, hp4, hd2, R, S, o, bp)
  <2>1. HdrsBut(p, hd3, hd2)
    BY <1>2 DEF HdrsBut, SameHdr, TakesAndPops
  <2>2. TakesUnused(hp3, hd3, t, c, p, hp4, hd2)
    BY <1>1, <1>2, <1>3, <2>1 DEF TakesUnused, TakesAndPops
  <2> QED BY <1>4, <2>2, TakeUnusedMove
<1>6. Pops(nx, hp4, t, c, b, nx2, hp2)
  <2>1. HeapsBut(t, c, hp4, hp2)
    BY <1>1, <1>3 DEF HeapsBut, SameList, TakesAndPops
  <2> QED BY <1>3, <2>1 DEF Pops, TakesAndPops
<1> QED BY <1>5, <1>6, PopMove

LEMMA MallocPbhListStep ==
  ASSUME IInv, SpOf' = SpOf, NEW t \in Thread, NEW c \in Class, MallocPbhList(t, c)
  PROVE  IInv' /\ Gives(c)
<1> DEFINE h == heap[t][c]
           p == Head(h.pbh_list)
           b == pbh[p].free_list
           k3 == [free_blk_list |-> next[b], cnt_free |-> pbh[p].cnt_free - 1,
                  ptr_to_unused |-> pbh[p].unallocated, cnt_unused |-> pbh[p].cnt_unused,
                  pbh_list |-> Stepped(h, p)]
<1>0. Shapes /\ Here /\ Mine(t)
  BY DEF IInv
<1>1. /\ pc[t] = "idle" /\ h.free_blk_list = NULL /\ h.ptr_to_unused = NULL
      /\ h.pbh_list # << >> /\ pbh[p].cnt_free > 0
      /\ HeapSetTo(t, c, k3, heap, heap')
      /\ EmptiedAt(p, pbh, pbh') /\ Nulled(b, next, next')
      /\ out' = out \cup {b} /\ owner' = owner
      /\ pc' = pc /\ run' = run /\ top' = top /\ cl' = cl /\ rest' = rest
  BY Zenon DEF MallocPbhList, Starved, HandOut, HeapSetTo, EmptiedAt, Nulled
<1>1a. IsFront(t, c, p)
  BY <1>1, Zenon DEF IsFront
<1> HIDE DEF p
<1> HIDE DEF k3
<1>2. /\ p \in Pb /\ OwnerOf(p) = t /\ pbh[p].sizeclass = c
      /\ SameMembers(h.pbh_list, Stepped(h, p))
  BY <1>1, <1>1a, FirstPbh
<1>3. /\ next \in [Block -> Ptr] /\ out \in SUBSET Block
      /\ heap \in [Thread -> [Class -> HeapLists]] /\ pbh \in [Pb -> Headers]
      /\ h \in HeapLists /\ h.pbh_list \in Seq(Pb)
  BY <1>0, Fields DEF Shapes
<1>4. b \in Block /\ b \in Ptr /\ pbh[p].cnt_free \in Nat /\ pbh[p].cnt_unused \in Nat
      /\ pbh[p].unallocated \in Ptr /\ next[b] \in Ptr /\ b # NULL
      /\ h.cnt_free = 0 /\ h.cnt_unused = 0
  <2>1. b \in Ptr /\ pbh[p].unallocated \in Ptr
    BY <1>0, <1>2, Fields
  <2>2. pbh[p].cnt_free \in Nat /\ pbh[p].cnt_unused \in Nat
        /\ (b = NULL <=> pbh[p].cnt_free = 0)
    BY <1>0, <1>2, Counts
  <2>3. h.cnt_free = 0 /\ h.cnt_unused = 0
    BY <1>0, <1>1, Counts
  <2>4. b \in Block
    <3>1. b # NULL
      BY <1>1, <2>2
    <3> QED BY <2>1, <3>1 DEF Ptr
  <2> QED BY <1>3, <2>1, <2>2, <2>3, <2>4, Blocks
<1>5. /\ pbh' \in [Pb -> Headers]
      /\ pbh'[p].sizeclass = c /\ pbh'[p].remote = pbh[p].remote
      /\ pbh'[p].free_list = NULL /\ pbh'[p].cnt_free = 0
      /\ pbh'[p].unallocated = NULL /\ pbh'[p].cnt_unused = 0
      /\ \A q \in Pb : q # p => pbh'[q] = pbh[q]
  <2>1. EmptiedAt(p, pbh, pbh')
    BY <1>1
  <2> QED BY <1>2, <1>3, <2>1, EmptiedIs
<1>6. /\ heap' \in [Thread -> [Class -> HeapLists]] /\ heap'[t][c] = k3
      /\ \A u \in Thread, d \in Class : u # t \/ d # c => heap'[u][d] = heap[u][d]
      /\ \A u \in Thread : u # t => heap'[u] = heap[u]
  <2>1. pbh[p].cnt_free - 1 \in Int
    BY <1>4
  <2>2. Stepped(h, p) \in Seq(Pb) /\ pbh[p].cnt_unused \in Int
    BY <1>2, <1>4 DEF SameMembers
  <2>3. k3 \in HeapLists
    <3> HIDE DEF b, h
    <3> QED BY <1>4, <2>1, <2>2 DEF HeapLists, k3
  <2> DEFINE hp == heap'
  <2>4. HeapSetTo(t, c, k3, heap, hp)
    BY <1>1
  <2> HIDE DEF hp
  <2>5. /\ hp \in [Thread -> [Class -> HeapLists]] /\ hp[t][c] = k3
        /\ \A u \in Thread, d \in Class : u # t \/ d # c => hp[u][d] = heap[u][d]
        /\ \A u \in Thread : u # t => hp[u] = heap[u]
    <3>1. heap \in [Thread -> [Class -> HeapLists]] /\ t \in Thread /\ c \in Class
      BY <1>3
    <3> QED BY ONLY <2>3, <2>4, <3>1, HeapSet
  <2> QED BY <2>5 DEF hp
<1>7. Shapes'
  <2>1. next' \in [Block -> Ptr] /\ out' \subseteq Block
    BY <1>1, <1>3, <1>4, NulledIs
  <2>2. owner' \in [Superpage -> Thread \cup {NULL, DEAD_OWNER}]
    BY <1>0, <1>1 DEF Shapes
  <2> QED BY <1>0, <1>1, <1>5, <1>6, <2>1, <2>2, ShapesQuiet
<1>8. Quiet(t, c)
  <2>1. pbh[p].cnt_unused % BlocksPerLine[c] = 0
    BY <1>2, LinesOfPbh
  <2>2. pbh[p].cnt_unused # 0 => pbh[p].unallocated[1] = p
    BY <1>0, <1>2, UnusedIn
  <2>3. c # 0
    BY DEF Class
  <2>4. /\ heap'[t][c].pbh_list = Stepped(h, p) /\ heap'[t][c].cnt_unused = pbh[p].cnt_unused
        /\ heap'[t][c].ptr_to_unused = pbh[p].unallocated
    BY <1>6 DEF k3
  <2>5. QuietRest(t, c)
    BY <1>1, <1>6 DEF QuietRest
  <2>6. QuietHeaders(t)
    BY <1>2, <1>5, <2>3 DEF QuietHeaders
  <2>7. QuietList(t, c)
    BY <1>2, <2>4 DEF QuietList, SameMembers
  <2>8. QuietChunk(t, c)
    BY <1>2, <1>5, <2>1, <2>2, <2>4 DEF QuietChunk
  <2> QED BY <2>5, <2>6, <2>7, <2>8 DEF Quiet
<1>9. /\ Placed(next', heap', pbh', Hands, rest, out \cup {b}, BlocksPerPbh)
      /\ b \notin out /\ pbh'[b[1]].sizeclass = c
  <2>1. Placed(next, heap, pbh, Hands, rest, out, BlocksPerPbh)
    BY <1>0 DEF Here
  <2>2. HdrsBut(p, pbh, pbh')
    BY <1>2, <1>5 DEF HdrsBut, SameHdr
  <2>3. HeapsBut(t, c, heap, heap')
    BY <1>6 DEF HeapsBut, SameList
  <2>4. LinksBut(b, next, next')
    BY <1>1, <1>3, <1>4, NulledIs
  <2>5. TakesAndPops(next, heap, pbh, t, c, p, b, next', heap', pbh')
    <3>1. /\ heap'[t][c].free_blk_list = next[b] /\ heap'[t][c].cnt_free = pbh[p].cnt_free - 1
          /\ heap'[t][c].ptr_to_unused = pbh[p].unallocated
          /\ heap'[t][c].cnt_unused = pbh[p].cnt_unused
      BY <1>6 DEF k3
    <3> QED BY <1>1, <1>2, <1>4, <1>5, <2>2, <2>3, <2>4, <3>1 DEF TakesAndPops
  <2>6. b \in Block /\ p \in Pb /\ out \in SUBSET Block
    BY <1>2, <1>3, <1>4
  <2> HIDE DEF b
  <2> QED BY <2>1, <2>5, <2>6, TakeAndPopMove
<1>10. Gives(c)
  BY <1>1, <1>4, <1>9 DEF Gives
<1>11. Placed(next', heap', pbh', Hands, rest, out', BlocksPerPbh)
  BY <1>1, <1>9
<1> QED BY <1>1, <1>7, <1>8, <1>10, <1>11, QuietKept

ChunkSetTo(h, n, l, h1) == h1 = [h EXCEPT !.cnt_unused = n, !.pbh_list = l]

LEMMA ChunkSet ==
  ASSUME NEW h \in HeapLists, NEW n \in Int, NEW l \in Seq(Pb), NEW h1,
         ChunkSetTo(h, n, l, h1)
  PROVE  /\ h1 \in HeapLists /\ h1.free_blk_list = h.free_blk_list
         /\ h1.cnt_free = h.cnt_free /\ h1.ptr_to_unused = h.ptr_to_unused
         /\ h1.cnt_unused = n /\ h1.pbh_list = l
<1>1. /\ h1.free_blk_list = h.free_blk_list
      /\ h1.cnt_free = h.cnt_free /\ h1.ptr_to_unused = h.ptr_to_unused
      /\ h1.cnt_unused = n /\ h1.pbh_list = l
  BY DEF HeapLists, ChunkSetTo
<1>2. DOMAIN h1 = DOMAIN h /\ h1 = [x \in DOMAIN h1 |-> h1[x]]
  BY DEF HeapLists, ChunkSetTo
<1>3. h1 \in HeapLists
  BY ONLY h \in HeapLists, n \in Int, l \in Seq(Pb), <1>1, <1>2 DEF HeapLists
<1> QED BY <1>1, <1>3

LEMMA MallocPbhChunkStep ==
  ASSUME IInv, SpOf' = SpOf, NEW t \in Thread, NEW c \in Class, MallocPbhChunk(t, c)
  PROVE  IInv' /\ Gives(c)
<1> DEFINE h == heap[t][c]
           p == Head(h.pbh_list)
           b == pbh[p].unallocated
           n == pbh[p].cnt_unused
           h1 == [h EXCEPT !.cnt_unused = n, !.pbh_list = Stepped(h, p)]
           hp1 == WithList(heap, t, c, NULL, h.cnt_free, b, n)
<1>0. Shapes /\ Here /\ Mine(t)
  BY DEF IInv
<1>1. /\ pc[t] = "idle" /\ h.free_blk_list = NULL /\ h.ptr_to_unused = NULL
      /\ h.pbh_list # << >> /\ pbh[p].cnt_free = 0 /\ n > 0
      /\ BumpAlloc(t, c, h1, b)
      /\ EmptiedAt(p, pbh, pbh') /\ owner' = owner
  BY Zenon DEF MallocPbhChunk, Starved, EmptiedAt
<1>1a. IsFront(t, c, p)
  BY <1>1, Zenon DEF IsFront
<1> HIDE DEF p
<1> HIDE DEF hp1
<1>1b. ChunkSetTo(h, n, Stepped(h, p), h1)
  BY DEF ChunkSetTo
<1> HIDE DEF h1
<1>2. /\ p \in Pb /\ OwnerOf(p) = t /\ pbh[p].sizeclass = c
      /\ SameMembers(h.pbh_list, Stepped(h, p))
  BY <1>1, <1>1a, FirstPbh
<1>3. /\ SpOf \in Layouts /\ next \in [Block -> Ptr] /\ out \in SUBSET Block
      /\ heap \in [Thread -> [Class -> HeapLists]] /\ pbh \in [Pb -> Headers]
      /\ h \in HeapLists /\ h.pbh_list \in Seq(Pb)
  BY <1>0, Fields DEF Shapes
<1>4. b \in Block /\ n \in Nat /\ pbh[p].free_list = NULL
  <2>1. b \in Ptr
    BY <1>0, <1>2, Fields
  <2>2. n \in Nat /\ (b = NULL <=> n = 0) /\ (pbh[p].free_list = NULL <=> pbh[p].cnt_free = 0)
    BY <1>0, <1>2, Counts
  <2>3. n > 0 /\ pbh[p].cnt_free = 0
    BY <1>1
  <2> HIDE DEF b, n
  <2>4. b # NULL
    BY ONLY <2>2, <2>3
  <2> QED BY <2>1, <2>2, <2>3, <2>4 DEF Ptr
<1>5. /\ pbh' \in [Pb -> Headers]
      /\ pbh'[p].sizeclass = c /\ pbh'[p].remote = pbh[p].remote
      /\ pbh'[p].free_list = NULL /\ pbh'[p].cnt_free = 0
      /\ pbh'[p].unallocated = NULL /\ pbh'[p].cnt_unused = 0
      /\ \A q \in Pb : q # p => pbh'[q] = pbh[q]
  <2>1. EmptiedAt(p, pbh, pbh')
    BY <1>1
  <2> QED BY <1>2, <1>3, <2>1, EmptiedIs
<1>6. /\ h1 \in HeapLists /\ h1.free_blk_list = NULL /\ h1.cnt_free = h.cnt_free
      /\ h1.cnt_unused = n /\ h1.pbh_list = Stepped(h, p)
  <2> DEFINE st == Stepped(h, p)
  <2>1. st \in Seq(Pb) /\ n \in Int
    BY <1>2, <1>4 DEF SameMembers
  <2>2. ChunkSetTo(h, n, st, h1) /\ h \in HeapLists
    BY <1>3, <1>1b
  <2> HIDE DEF st, n, h
  <2>3. /\ h1 \in HeapLists /\ h1.free_blk_list = h.free_blk_list
        /\ h1.cnt_free = h.cnt_free /\ h1.cnt_unused = n /\ h1.pbh_list = st
    BY <2>1, <2>2, ChunkSet
  <2> QED BY <1>1, <2>3 DEF st
<1>7. n % BlocksPerLine[c] = 0
  BY <1>2, LinesOfPbh
<1>8. /\ HeapsBut(t, c, heap, hp1)
      /\ hp1[t][c].free_blk_list = NULL /\ hp1[t][c].cnt_free = h.cnt_free
      /\ hp1[t][c].ptr_to_unused = b /\ hp1[t][c].cnt_unused = n
  <2> HIDE DEF b, n
  <2> QED BY WithListIs DEF hp1
<1>9. Ready(t, c, h1, b, heap, hp1)
  BY <1>6, <1>7, <1>8 DEF Ready
<1>10. Placed(next, hp1, pbh', Hands, rest, out, BlocksPerPbh)
  <2>1. Placed(next, heap, pbh, Hands, rest, out, BlocksPerPbh)
    BY <1>0 DEF Here
  <2>2. HdrsBut(p, pbh, pbh')
    BY <1>2, <1>5 DEF HdrsBut, SameHdr
  <2>3. TakesUnused(heap, pbh, t, c, p, hp1, pbh')
    BY <1>1, <1>2, <1>4, <1>5, <1>8, <2>2 DEF TakesUnused
  <2> QED BY <1>2, <2>1, <2>3, TakeUnusedMove
<1>11. /\ heap' \in [Thread -> [Class -> HeapLists]] /\ next' \in [Block -> Ptr]
       /\ heap'[t][c].pbh_list = h1.pbh_list
       /\ heap'[t][c].cnt_unused % BlocksPerLine[c] = 0
       /\ heap'[t][c].cnt_unused # 0 => heap'[t][c].ptr_to_unused[1] = b[1]
       /\ \A u \in Thread, d \in Class : u # t \/ d # c => heap'[u][d] = heap[u][d]
       /\ \A u \in Thread : u # t => heap'[u] = heap[u]
       /\ Placed(next', heap', pbh', Hands, rest, out', BlocksPerPbh)
       /\ out' = out \cup {b} /\ b \notin out
       /\ pbh'[b[1]].sizeclass = c
       /\ pc' = pc /\ run' = run /\ top' = top /\ cl' = cl /\ rest' = rest
  <2>1. BumpAlloc(t, c, h1, b) /\ h1 \in HeapLists /\ b \in Block
    BY <1>1, <1>4, <1>6
  <2>2. /\ SpOf \in Layouts /\ heap \in [Thread -> [Class -> HeapLists]]
        /\ next \in [Block -> Ptr] /\ out \in SUBSET Block
    BY <1>3
  <2> HIDE DEF b, h, n
  <2>9. BumpDone(t, c, h1, b, pbh')
    BY <1>9, <1>10, <2>1, <2>2, BumpAllocIs
  <2> QED BY <2>9 DEF BumpDone
<1>12. Shapes'
  <2>1. owner' \in [Superpage -> Thread \cup {NULL, DEAD_OWNER}]
    BY <1>0, <1>1 DEF Shapes
  <2>2. out' \subseteq Block
    BY <1>3, <1>4, <1>11
  <2> QED BY <1>0, <1>5, <1>11, <2>1, <2>2, ShapesQuiet
<1>13. Quiet(t, c)
  <2>1. b[1] = p
    <3>1. n \in Nat /\ n > 0 /\ p \in Pb
      BY <1>1, <1>2, <1>4
    <3> QED BY <1>0, <3>1, UnusedIn
  <2>2. c # 0
    BY DEF Class
  <2>3. h1.pbh_list = Stepped(h, p)
    BY <1>6
  <2> HIDE DEF b
  <2>4. QuietRest(t, c)
    BY <1>1, <1>11 DEF QuietRest
  <2>5. QuietHeaders(t)
    BY <1>2, <1>5, <2>2 DEF QuietHeaders
  <2>6. QuietList(t, c)
    BY <1>2, <1>11, <2>3 DEF QuietList, SameMembers
  <2>7. QuietChunk(t, c)
    BY <1>2, <1>5, <1>11, <2>1 DEF QuietChunk
  <2> QED BY <2>4, <2>5, <2>6, <2>7 DEF Quiet
<1>14. Gives(c)
  BY <1>4, <1>11 DEF Gives
<1> QED BY <1>1, <1>11, <1>12, <1>13, <1>14, QuietKept

\* Case 3: the thread takes the remote list of header p, and its first block b.
TakesRemoteAndPops(nx, hp, hd, t, c, p, b, nx2, hp2, hd2) ==
  /\ hd[p].sizeclass = c /\ b = WordHead(p, hd[p].remote)
  /\ hp[t][c].free_blk_list = NULL
  /\ HeapsBut(t, c, hp, hp2) /\ HdrsBut(p, hd, hd2) /\ LinksBut(b, nx, nx2)
  /\ hp2[t][c].free_blk_list = nx[b]
  /\ hp2[t][c].cnt_free = hd[p].remote.cnt - 1
  /\ hp2[t][c].ptr_to_unused = hp[t][c].ptr_to_unused
  /\ hp2[t][c].cnt_unused = hp[t][c].cnt_unused
  /\ hd2[p].free_list = hd[p].free_list /\ hd2[p].cnt_free = hd[p].cnt_free
  /\ hd2[p].unallocated = hd[p].unallocated /\ hd2[p].cnt_unused = hd[p].cnt_unused
  /\ hd2[p].remote = NoWord

LEMMA TakeRemoteAndPopMove ==
  ASSUME NEW nx, NEW hp, NEW hd, NEW R, NEW S, NEW o \in SUBSET Block, NEW bp,
         Placed(nx, hp, hd, R, S, o, bp), NEW t \in Thread, NEW c \in Class,
         NEW p \in Pb, NEW b \in Block, NEW nx2, NEW hp2, NEW hd2,
         TakesRemoteAndPops(nx, hp, hd, t, c, p, b, nx2, hp2, hd2)
  PROVE  /\ Placed(nx2, hp2, hd2, R, S, o \cup {b}, bp)
         /\ b \notin o /\ hd2[b[1]].sizeclass = c
<1> DEFINE hp3 == WithList(hp, t, c, b, hd[p].remote.cnt, hp[t][c].ptr_to_unused,
                           hp[t][c].cnt_unused)
<1>1. /\ HeapsBut(t, c, hp, hp3)
      /\ hp3[t][c].free_blk_list = b /\ hp3[t][c].cnt_free = hd[p].remote.cnt
      /\ hp3[t][c].ptr_to_unused = hp[t][c].ptr_to_unused
      /\ hp3[t][c].cnt_unused = hp[t][c].cnt_unused
  BY WithListIs
<1> HIDE DEF hp3
<1>2. Placed(nx, hp3, hd2, R, S, o, bp)
  <2>1. TakesRemote(hp, hd, t, c, p, hp3, hd2)
    BY <1>1 DEF TakesRemote, TakesRemoteAndPops
  <2> QED BY <2>1, TakeRemoteMove
<1>3. Pops(nx, hp3, t, c, b, nx2, hp2)
  <2>1. HeapsBut(t, c, hp3, hp2)
    BY <1>1 DEF HeapsBut, SameList, TakesRemoteAndPops
  <2> QED BY <1>1, <2>1 DEF Pops, TakesRemoteAndPops
<1> QED BY <1>2, <1>3, PopMove

ListsSetTo(t, c, f, n, l, hp, hp2) ==
  hp2 = [hp EXCEPT ![t][c].free_blk_list = f, ![t][c].cnt_free = n, ![t][c].pbh_list = l]

LEMMA ListsSet ==
  ASSUME NEW hp \in [Thread -> [Class -> HeapLists]], NEW t \in Thread, NEW c \in Class,
         NEW f \in Ptr, NEW n \in Int, NEW l \in Seq(Pb), NEW hp2,
         ListsSetTo(t, c, f, n, l, hp, hp2)
  PROVE  /\ hp2 \in [Thread -> [Class -> HeapLists]]
         /\ hp2[t][c].free_blk_list = f /\ hp2[t][c].cnt_free = n
         /\ hp2[t][c].ptr_to_unused = hp[t][c].ptr_to_unused
         /\ hp2[t][c].cnt_unused = hp[t][c].cnt_unused
         /\ hp2[t][c].pbh_list = l
         /\ \A u \in Thread, d \in Class : u # t \/ d # c => hp2[u][d] = hp[u][d]
         /\ \A u \in Thread : u # t => hp2[u] = hp[u]
<1> DEFINE h2 == [hp[t][c] EXCEPT !.free_blk_list = f, !.cnt_free = n, !.pbh_list = l]
<1>1. HeapSetTo(t, c, h2, hp, hp2) /\ hp[t][c] \in HeapLists
  BY DEF HeapLists, HeapSetTo, ListsSetTo
<1>2. h2.free_blk_list = f /\ h2.cnt_free = n
      /\ h2.ptr_to_unused = hp[t][c].ptr_to_unused
      /\ h2.cnt_unused = hp[t][c].cnt_unused /\ h2.pbh_list = l
      /\ DOMAIN h2 = DOMAIN hp[t][c] /\ h2 = [x \in DOMAIN h2 |-> h2[x]]
  BY <1>1 DEF HeapLists
<1> HIDE DEF h2
<1>3. h2 \in HeapLists
  BY <1>1, <1>2 DEF HeapLists
<1>4. /\ hp2 \in [Thread -> [Class -> HeapLists]] /\ hp2[t][c] = h2
      /\ \A u \in Thread, d \in Class : u # t \/ d # c => hp2[u][d] = hp[u][d]
      /\ \A u \in Thread : u # t => hp2[u] = hp[u]
  BY <1>1, <1>3, HeapSet
<1> QED BY <1>2, <1>4

RemoteSetTo(p, v, hd, hd2) == hd2 = [hd EXCEPT ![p].remote = v]

LEMMA RemoteSet ==
  ASSUME NEW hd \in [Pb -> Headers], NEW p \in Pb, NEW v \in [head : Nat, cnt : Int],
         NEW hd2, RemoteSetTo(p, v, hd, hd2)
  PROVE  /\ hd2 \in [Pb -> Headers]
         /\ hd2[p].sizeclass = hd[p].sizeclass /\ hd2[p].remote = v
         /\ hd2[p].free_list = hd[p].free_list /\ hd2[p].cnt_free = hd[p].cnt_free
         /\ hd2[p].unallocated = hd[p].unallocated /\ hd2[p].cnt_unused = hd[p].cnt_unused
         /\ \A q \in Pb : q # p => hd2[q] = hd[q]
<1> DEFINE h2 == [hd[p] EXCEPT !.remote = v]
<1>1. hd2 = [hd EXCEPT ![p] = h2] /\ hd[p] \in Headers
  BY DEF RemoteSetTo
<1>2. /\ h2.sizeclass = hd[p].sizeclass /\ h2.remote = v
      /\ h2.free_list = hd[p].free_list /\ h2.cnt_free = hd[p].cnt_free
      /\ h2.unallocated = hd[p].unallocated /\ h2.cnt_unused = hd[p].cnt_unused
      /\ DOMAIN h2 = DOMAIN hd[p] /\ h2 = [x \in DOMAIN h2 |-> h2[x]]
  BY <1>1 DEF Headers
<1> HIDE DEF h2
<1>3. h2 \in Headers
  BY <1>1, <1>2 DEF Headers
<1> QED BY <1>1, <1>2, <1>3

LEMMA MallocRemoteStep ==
  ASSUME IInv, SpOf' = SpOf, NEW t \in Thread, NEW c \in Class, MallocRemote(t, c)
  PROVE  IInv' /\ Gives(c)
<1> DEFINE h == heap[t][c]
           p == Head(h.pbh_list)
           b == <<p, pbh[p].remote.head>>
           n == pbh[p].remote.cnt - 1
<1>0. Shapes /\ Here /\ Mine(t)
  BY DEF IInv
<1>1. /\ pc[t] = "idle" /\ h.free_blk_list = NULL /\ h.ptr_to_unused = NULL
      /\ h.pbh_list # << >> /\ pbh[p].remote.cnt > 0
      /\ RemoteSetTo(p, NoWord, pbh, pbh') /\ Nulled(b, next, next')
      /\ ListsSetTo(t, c, next[b], n, Rotated(h.pbh_list), heap, heap')
      /\ out' = out \cup {b} /\ owner' = owner
      /\ pc' = pc /\ run' = run /\ top' = top /\ cl' = cl /\ rest' = rest
  BY Zenon DEF MallocRemote, Starved, HandOut, RemoteSetTo, ListsSetTo, Nulled
<1>1a. IsFront(t, c, p)
  BY <1>1, Zenon DEF IsFront
<1> HIDE DEF p
<1>2. /\ p \in Pb /\ OwnerOf(p) = t /\ pbh[p].sizeclass = c
      /\ SameMembers(h.pbh_list, Rotated(h.pbh_list))
  BY <1>1, <1>1a, FirstPbh
<1>3. /\ next \in [Block -> Ptr] /\ out \in SUBSET Block
      /\ heap \in [Thread -> [Class -> HeapLists]] /\ pbh \in [Pb -> Headers]
      /\ h \in HeapLists /\ h.pbh_list \in Seq(Pb)
  BY <1>0, Fields DEF Shapes
<1>4. b \in Block /\ next[b] \in Ptr /\ n \in Int /\ b = WordHead(p, pbh[p].remote)
  <2>1. pbh[p].remote.cnt \in Nat /\ b \in Block
    BY <1>0, <1>1, <1>2, Counts
  <2> DEFINE m == pbh[p].remote.cnt
  <2>2. m \in Nat /\ m > 0 /\ n = m - 1
    BY <1>1, <2>1
  <2> HIDE DEF m, n
  <2>3. m # 0 /\ n \in Int
    BY <2>2
  <2> QED BY <1>3, <2>1, <2>3 DEF WordHead, m
<1>5. /\ pbh' \in [Pb -> Headers]
      /\ pbh'[p].sizeclass = c /\ pbh'[p].remote = NoWord
      /\ pbh'[p].free_list = pbh[p].free_list /\ pbh'[p].cnt_free = pbh[p].cnt_free
      /\ pbh'[p].unallocated = pbh[p].unallocated /\ pbh'[p].cnt_unused = pbh[p].cnt_unused
      /\ \A q \in Pb : q # p => pbh'[q] = pbh[q]
  <2>1. RemoteSetTo(p, NoWord, pbh, pbh')
    BY <1>1
  <2>2. NoWord \in [head : Nat, cnt : Int]
    BY DEF NoWord
  <2> QED BY <1>2, <1>3, <2>1, <2>2, RemoteSet
<1>6. /\ heap' \in [Thread -> [Class -> HeapLists]]
      /\ heap'[t][c].free_blk_list = next[b] /\ heap'[t][c].cnt_free = n
      /\ heap'[t][c].ptr_to_unused = h.ptr_to_unused
      /\ heap'[t][c].cnt_unused = h.cnt_unused
      /\ heap'[t][c].pbh_list = Rotated(h.pbh_list)
      /\ \A u \in Thread, d \in Class : u # t \/ d # c => heap'[u][d] = heap[u][d]
      /\ \A u \in Thread : u # t => heap'[u] = heap[u]
  <2> DEFINE f == next[b]
             l == Rotated(h.pbh_list)
  <2>1. l \in Seq(Pb) /\ f \in Ptr /\ n \in Int
    BY <1>2, <1>4 DEF SameMembers
  <2>2. ListsSetTo(t, c, f, n, l, heap, heap')
    BY <1>1
  <2> HIDE DEF n, f, l
  <2>3. /\ heap' \in [Thread -> [Class -> HeapLists]]
        /\ heap'[t][c].free_blk_list = f /\ heap'[t][c].cnt_free = n
        /\ heap'[t][c].ptr_to_unused = heap[t][c].ptr_to_unused
        /\ heap'[t][c].cnt_unused = heap[t][c].cnt_unused
        /\ heap'[t][c].pbh_list = l
        /\ \A u \in Thread, d \in Class : u # t \/ d # c => heap'[u][d] = heap[u][d]
        /\ \A u \in Thread : u # t => heap'[u] = heap[u]
    BY <1>3, <2>1, <2>2, ListsSet
  <2> QED BY <2>3 DEF f, l
<1>7. Shapes'
  <2>1. next' \in [Block -> Ptr] /\ out' \subseteq Block
    BY <1>1, <1>3, <1>4, NulledIs
  <2>2. owner' \in [Superpage -> Thread \cup {NULL, DEAD_OWNER}]
    BY <1>0, <1>1 DEF Shapes
  <2> QED BY <1>0, <1>1, <1>5, <1>6, <2>1, <2>2, ShapesQuiet
<1>8. Quiet(t, c)
  <2>1. c # 0
    BY DEF Class
  <2>2. ChunkOK(t, c)
    BY <1>0 DEF Mine
  <2>3. h.cnt_unused = 0
    BY <1>0, <1>1, Counts
  <2>4. heap'[t][c].pbh_list = Rotated(h.pbh_list) /\ heap'[t][c].cnt_unused = 0
    BY <1>6, <2>3
  <2>5. QuietRest(t, c)
    BY <1>1, <1>6 DEF QuietRest
  <2>6. QuietHeaders(t)
    BY <1>2, <1>5, <2>1 DEF QuietHeaders
  <2>7. QuietList(t, c)
    BY <1>2, <2>4 DEF QuietList, SameMembers
  <2>8. QuietChunk(t, c)
    BY <2>2, <2>3, <2>4 DEF QuietChunk, ChunkOK
  <2> QED BY <2>5, <2>6, <2>7, <2>8 DEF Quiet
<1>9. /\ Placed(next', heap', pbh', Hands, rest, out \cup {b}, BlocksPerPbh)
      /\ b \notin out /\ pbh'[b[1]].sizeclass = c
  <2>1. Placed(next, heap, pbh, Hands, rest, out, BlocksPerPbh)
    BY <1>0 DEF Here
  <2>2. HdrsBut(p, pbh, pbh')
    BY <1>2, <1>5 DEF HdrsBut, SameHdr
  <2>3. HeapsBut(t, c, heap, heap')
    BY <1>6 DEF HeapsBut, SameList
  <2>4. LinksBut(b, next, next')
    BY <1>1, <1>3, <1>4, NulledIs
  <2>5. TakesRemoteAndPops(next, heap, pbh, t, c, p, b, next', heap', pbh')
    BY <1>1, <1>2, <1>4, <1>5, <1>6, <2>2, <2>3, <2>4 DEF TakesRemoteAndPops
  <2>6. b \in Block /\ p \in Pb /\ out \in SUBSET Block
    BY <1>2, <1>3, <1>4
  <2> HIDE DEF b
  <2> QED BY <2>1, <2>5, <2>6, TakeRemoteAndPopMove
<1>10. Gives(c)
  BY <1>1, <1>4, <1>9 DEF Gives
<1>11. Placed(next', heap', pbh', Hands, rest, out', BlocksPerPbh)
  BY <1>1, <1>9
<1> QED BY <1>1, <1>7, <1>8, <1>10, <1>11, QuietKept

\* A page block of a free superpage, or a free one, comes to be of class c.
LEMMA RoomForOne ==
  ASSUME Shapes, SpOf' = SpOf, NEW p \in Pb, NEW c \in Class, pbh[p].sizeclass = 0,
         Cardinality(Carved) + BlocksPerPbh[c] <= MaxBlocks, Cut(p, c, pbh, pbh')
  PROVE  Room'
<1> DEFINE n == BlocksPerPbh[c]
<1>1. n \in Nat /\ \A i \in 0 .. n - 1 : i \in Index
  BY Layout DEF Shapes
<1>2. IsFiniteSet(Carved) /\ Cardinality(Carved) \in Nat
  BY CarvedFinite, FS_CardinalityType
<1>3. IsFiniteSet(Part(p, n)) /\ Cardinality(Part(p, n)) = n
  <2> HIDE DEF n
  <2> QED BY <1>1, PartCount
<1>4. Carved \cap Part(p, n) = {}
  BY DEF Carved, InUse, Part
<1>5. Carved' \subseteq Carved \cup Part(p, n)
  <2> SUFFICES ASSUME NEW b \in Carved' PROVE b \in Carved \cup Part(p, n)
    OBVIOUS
  <2>1. b \in Block /\ pbh'[b[1]].sizeclass # 0
        /\ b[2] \in 0 .. BLOCKS_PER_PBH[SpOf][pbh'[b[1]].sizeclass] - 1
    BY DEF Carved, InUse, Blk, BlocksPerPbh
  <2>2. CASE b[1] = p
    BY <2>1, <2>2 DEF Cut, Part, BlocksPerPbh
  <2>3. CASE b[1] # p
    <3>1. pbh'[b[1]].sizeclass = pbh[b[1]].sizeclass
      BY <2>1, <2>3, Blocks DEF Cut
    <3> QED BY <2>1, <3>1 DEF Carved, InUse, Blk, BlocksPerPbh
  <2> QED BY <2>2, <2>3
<1> DEFINE X == Part(p, n)
           Y == Carved
<1>6. IsFiniteSet(Y \cup X) /\ Cardinality(Y \cup X) = Cardinality(Y) + Cardinality(X)
  <2>1. IsFiniteSet(X) /\ IsFiniteSet(Y) /\ Y \cap X = {}
    BY <1>2, <1>3, <1>4
  <2> HIDE DEF X, Y
  <2> QED BY <2>1, DisjointUnion
<1>7. Cardinality(Carved') <= Cardinality(Y \cup X)
  BY <1>5, <1>6, FS_Subset
<1>8. MaxBlocks \in Nat /\ MaxBlocks' = MaxBlocks
  BY Layout DEF Shapes, MaxBlocks
<1>9. IsFiniteSet(Carved')
  BY <1>5, <1>6, FS_Subset
<1>10. Cardinality(Carved') \in Nat /\ Cardinality(Y \cup X) \in Nat
  BY <1>6, <1>9, FS_CardinalityType
<1> HIDE DEF n
<1>11. Cardinality(Carved) + n <= MaxBlocks
  BY DEF n
<1> QED BY <1>2, <1>3, <1>6, <1>7, <1>8, <1>10, <1>11 DEF Room

LEMMA MallocNewPbhStep ==
  ASSUME IInv, SpOf' = SpOf, NEW t \in Thread, NEW c \in Class, MallocNewPbh(t, c)
  PROVE  IInv' /\ Gives(c)
<1> DEFINE h == heap[t][c]
           from == IF FreePbs(t) # {} THEN FreePbs(t) ELSE NewPbs
           p == Min(from)
           b == <<p, 0>>
           n == BlocksPerPbh[c]
           g == [FreePbh EXCEPT !.sizeclass = c]
           h1 == [h EXCEPT !.cnt_unused = n, !.pbh_list = Append(h.pbh_list, p)]
           hp1 == WithList(heap, t, c, NULL, h.cnt_free, b, n)
<1>0. Shapes /\ Here /\ Room /\ Mine(t)
  BY DEF IInv
<1>1. /\ pc[t] = "idle" /\ h.free_blk_list = NULL /\ h.ptr_to_unused = NULL
      /\ from # {} /\ Cardinality(Carved) + n <= MaxBlocks
      /\ owner' = [owner EXCEPT ![SpOf[p]] = t]
      /\ pbh' = [pbh EXCEPT ![p] = g]
      /\ BumpAlloc(t, c, h1, b)
  BY DEF MallocNewPbh, Starved
<1> HIDE DEF hp1
<1>1b. ChunkSetTo(h, n, Append(h.pbh_list, p), h1)
  BY DEF ChunkSetTo
<1> HIDE DEF h1
<1>2. p \in Pb /\ p \in from
  <2>1. from \subseteq Pb
    BY DEF FreePbs, NewPbs
  <2> HIDE DEF from
  <2> QED BY <1>1, <2>1, MinIn
<1>3. /\ SpOf \in Layouts /\ next \in [Block -> Ptr] /\ out \in SUBSET Block
      /\ heap \in [Thread -> [Class -> HeapLists]] /\ pbh \in [Pb -> Headers]
      /\ owner \in [Superpage -> Thread \cup {NULL, DEAD_OWNER}]
      /\ h \in HeapLists /\ h.pbh_list \in Seq(Pb) /\ SpOf[p] \in Superpage
  BY <1>0, <1>2, Fields DEF Shapes
<1>4. (OwnerOf(p) = t \/ OwnerOf(p) = NULL) /\ pbh[p] = FreePbh
  <2>1. PbhOK(p)
    BY <1>2 DEF IInv
  <2>2. \/ ~InUse(p) /\ OwnerOf(p) = t
        \/ OwnerOf(p) = NULL
    <3> HIDE DEF p
    <3> QED BY <1>2 DEF FreePbs, NewPbs
  <2> HIDE DEF p
  <2> QED BY <2>1, <2>2 DEF PbhOK
<1>5. n \in Nat \ {0} /\ Fit(BlocksPerPbh) /\ n % BlocksPerLine[c] = 0 /\ b \in Block
  <2>1. n \in Nat \ {0} /\ Fit(BlocksPerPbh) /\ n % BlocksPerLine[c] = 0
    BY <1>3, Layout DEF Fit
  <2>2. 0 \in 0 .. n - 1
    BY <2>1
  <2>3. 0 \in Index
    BY <2>1, <2>2 DEF Fit
  <2> QED BY <1>2, <2>1, <2>3 DEF Block
<1>6. g \in Headers /\ g.sizeclass = c /\ g.cnt_unused = 0 /\ SameHdr(g, FreePbh)
  BY DEF FreePbh, Headers, SameHdr, Ptr, NoWord, Class
<1> HIDE DEF g, p, from
<1>7. pbh' \in [Pb -> Headers] /\ pbh'[p] = g /\ \A q \in Pb : q # p => pbh'[q] = pbh[q]
  BY <1>1, <1>2, <1>3, <1>6
<1>8. /\ owner' \in [Superpage -> Thread \cup {NULL, DEAD_OWNER}]
      /\ owner'[SpOf[p]] = t
      /\ \A q \in Pb : SpOf[q] # SpOf[p] => owner'[SpOf[q]] = OwnerOf(q)
      /\ \A q \in Pb : SpOf[q] = SpOf[p] => owner'[SpOf[q]] = t /\ OwnerOf(q) \in {t, NULL}
  <2>1. owner' \in [Superpage -> Thread \cup {NULL, DEAD_OWNER}] /\ owner'[SpOf[p]] = t
    BY <1>1, <1>3
  <2>2. \A s \in Superpage : s # SpOf[p] => owner'[s] = owner[s]
    BY <1>1, <1>3
  <2>3. \A q \in Pb : SpOf[q] \in Superpage
    BY <1>0, Fields
  <2> QED BY <1>4, <2>1, <2>2, <2>3 DEF OwnerOf
<1>9. \A q \in Pb : InUse(q) => OwnerOf(q) # NULL /\ owner'[SpOf[q]] = OwnerOf(q)
  <2> SUFFICES ASSUME NEW q \in Pb, InUse(q)
               PROVE  OwnerOf(q) # NULL /\ owner'[SpOf[q]] = OwnerOf(q)
    OBVIOUS
  <2>1. PbhOK(q)
    BY DEF IInv
  <2> QED BY <1>8, <2>1 DEF PbhOK
<1>10. Cut(p, c, pbh, pbh')
  BY <1>2, <1>4, <1>6, <1>7 DEF Cut, SameHdr
<1>11. /\ h1 \in HeapLists /\ h1.free_blk_list = NULL /\ h1.cnt_free = h.cnt_free
       /\ h1.cnt_unused = n /\ h1.pbh_list = Append(h.pbh_list, p)
  <2> DEFINE st == Append(h.pbh_list, p)
  <2>1. st \in Seq(Pb) /\ n \in Int
    BY <1>2, <1>3, <1>5
  <2>2. ChunkSetTo(h, n, st, h1) /\ h \in HeapLists
    BY <1>3, <1>1b
  <2> HIDE DEF st, n, h
  <2>3. /\ h1 \in HeapLists /\ h1.free_blk_list = h.free_blk_list
        /\ h1.cnt_free = h.cnt_free /\ h1.cnt_unused = n /\ h1.pbh_list = st
    BY <2>1, <2>2, ChunkSet
  <2> QED BY <1>1, <2>3 DEF st
<1>12. /\ HeapsBut(t, c, heap, hp1)
       /\ hp1[t][c].free_blk_list = NULL /\ hp1[t][c].cnt_free = h.cnt_free
       /\ hp1[t][c].ptr_to_unused = b /\ hp1[t][c].cnt_unused = n
  <2> HIDE DEF b, n
  <2> QED BY WithListIs DEF hp1
<1>13. Ready(t, c, h1, b, heap, hp1)
  BY <1>5, <1>11, <1>12 DEF Ready
<1>14. Placed(next, hp1, pbh', Hands, rest, out, BlocksPerPbh)
  <2>1. Placed(next, heap, pbh, Hands, rest, out, BlocksPerPbh)
    BY <1>0 DEF Here
  <2>2. pbh[p].sizeclass = 0
    BY <1>4 DEF FreePbh
  <2>3. CutsNew(heap, pbh, BlocksPerPbh, t, c, p, hp1, pbh')
    BY <1>1, <1>5, <1>10, <1>12, <2>2 DEF CutsNew
  <2> QED BY <1>2, <2>1, <2>3, NewPbhMove
<1>15. /\ heap' \in [Thread -> [Class -> HeapLists]] /\ next' \in [Block -> Ptr]
       /\ heap'[t][c].pbh_list = h1.pbh_list
       /\ heap'[t][c].cnt_unused % BlocksPerLine[c] = 0
       /\ heap'[t][c].cnt_unused # 0 => heap'[t][c].ptr_to_unused[1] = b[1]
       /\ \A u \in Thread, d \in Class : u # t \/ d # c => heap'[u][d] = heap[u][d]
       /\ \A u \in Thread : u # t => heap'[u] = heap[u]
       /\ Placed(next', heap', pbh', Hands, rest, out', BlocksPerPbh)
       /\ out' = out \cup {b} /\ b \notin out
       /\ pbh'[b[1]].sizeclass = c
       /\ pc' = pc /\ run' = run /\ top' = top /\ cl' = cl /\ rest' = rest
  <2>1. BumpAlloc(t, c, h1, b) /\ h1 \in HeapLists /\ b \in Block
    BY <1>1, <1>5, <1>11
  <2>2. /\ SpOf \in Layouts /\ heap \in [Thread -> [Class -> HeapLists]]
        /\ next \in [Block -> Ptr] /\ out \in SUBSET Block
    BY <1>3
  <2> HIDE DEF b, h, n
  <2>9. BumpDone(t, c, h1, b, pbh')
    BY <1>13, <1>14, <2>1, <2>2, BumpAllocIs
  <2> QED BY <2>9 DEF BumpDone
<1>16. Shapes'
  <2>1. out' \subseteq Block
    BY <1>3, <1>5, <1>15
  <2> QED BY <1>0, <1>7, <1>8, <1>15, <2>1, ShapesQuiet
<1>17. Here'
  <2>1. Hands' = Hands /\ BlocksPerPbh' = BlocksPerPbh
    BY <1>15 DEF Hands, Hand, BlocksPerPbh
  <2> QED BY <1>15, <2>1 DEF Here
<1>18. Room'
  <2>1. pbh[p].sizeclass = 0
    BY <1>4 DEF FreePbh
  <2> QED BY <1>0, <1>1, <1>2, <1>10, <2>1, RoomForOne
<1>19. ASSUME NEW q \in Pb PROVE PbhOK(q)'
  <2>0. PbhOK(q)
    BY DEF IInv
  <2>1. CASE q = p
    <3>1. 0 % BlocksPerLine[c] = 0 /\ c # 0 /\ t # NULL
      BY NoneOver, ConstantsAssumption DEF Class
    <3> QED BY <1>6, <1>7, <1>8, <2>1, <3>1 DEF PbhOK, InUse, OwnerOf
  <2>2. CASE q # p
    <3>1. pbh'[q] = pbh[q]
      BY <1>7, <2>2
    <3>2. InUse(q) => OwnerOf(q) # NULL /\ owner'[SpOf[q]] = OwnerOf(q)
      BY <1>9
    <3> QED BY <2>0, <3>1, <3>2 DEF PbhOK, InUse, OwnerOf
  <2> QED BY <2>1, <2>2
<1>20. Others(t)
  <2>1. NULL \notin Thread
    BY ConstantsAssumption
  <2>2. ASSUME NEW q \in Pb, NEW u \in Thread, u # t
        PROVE  /\ owner'[SpOf[q]] = u <=> OwnerOf(q) = u
               /\ OwnerOf(q) = u => /\ pbh'[q].sizeclass = pbh[q].sizeclass
                                    /\ pbh'[q].cnt_unused = pbh[q].cnt_unused
    <3>1. owner'[SpOf[q]] = u <=> OwnerOf(q) = u
      BY <1>8, <2>1, <2>2
    <3>2. OwnerOf(q) = u => q # p
      BY <1>4, <2>1, <2>2
    <3> QED BY <1>7, <3>1, <3>2
  <2> QED BY <1>15, <2>2 DEF Others
<1>21. Mine(t)'
  <2>1. PhaseOK(t)'
    <3>1. PhaseOK(t)
      BY <1>0 DEF Mine
    <3> QED BY <1>1, <1>15, <3>1 DEF PhaseOK, InHand
  <2>2. cl[t] = 0 /\ cl'[t] = 0
    BY <1>0, <1>1, <1>15 DEF Mine, PhaseOK
  <2>3. DoneOK(t)'
    BY <2>2 DEF DoneOK, Class
  <2>4. ASSUME NEW d \in Class
        PROVE  /\ Once(heap[t][d].pbh_list)
               /\ \A q \in ToSet(heap[t][d].pbh_list) :
                    q \in Pb /\ OwnerOf(q) = t /\ pbh[q].sizeclass = d /\ q # p
                    /\ owner'[SpOf[q]] = t /\ pbh'[q].sizeclass = d
               /\ \A q \in Pb : owner'[SpOf[q]] = t /\ pbh'[q].sizeclass = d /\ q # p =>
                    q \in ToSet(heap[t][d].pbh_list)
    <3>1. PbhListOK(t, d) /\ d # 0 /\ d > cl[t] /\ d >= cl[t]
      BY <1>0, <2>2 DEF Mine, Class
    <3>2. \A q \in ToSet(heap[t][d].pbh_list) : q \in Pb
      BY <1>0, Fields
    <3>3. ASSUME NEW q \in ToSet(heap[t][d].pbh_list)
          PROVE  q \in Pb /\ OwnerOf(q) = t /\ pbh[q].sizeclass = d /\ q # p
                 /\ owner'[SpOf[q]] = t /\ pbh'[q].sizeclass = d
      <4>1. q \in Pb /\ OwnerOf(q) = t /\ pbh[q].sizeclass = d
        BY <3>1, <3>2 DEF PbhListOK
      <4>2. q # p
        BY <1>4, <3>1, <4>1 DEF FreePbh
      <4>3. owner'[SpOf[q]] = t
        BY <1>9, <3>1, <4>1 DEF InUse
      <4> QED BY <1>7, <4>1, <4>2, <4>3
    <3>4. ASSUME NEW q \in Pb, owner'[SpOf[q]] = t, pbh'[q].sizeclass = d, q # p
          PROVE  q \in ToSet(heap[t][d].pbh_list)
      <4>1. pbh[q].sizeclass = d
        BY <1>7, <3>4
      <4>2. OwnerOf(q) = t
        BY <1>9, <3>1, <3>4, <4>1 DEF InUse
      <4> QED BY <3>1, <4>1, <4>2 DEF PbhListOK
    <3> QED BY <3>1, <3>3, <3>4 DEF PbhListOK
  <2>5. ASSUME NEW d \in Class PROVE PbhListOK(t, d)'
    <3> DEFINE l == heap[t][d].pbh_list
               l2 == heap'[t][d].pbh_list
    <3>0. l \in Seq(Pb)
      BY <1>0, Fields
    <3>1. CASE d = c
      <4>1. l2 = Append(l, p) /\ p \notin ToSet(l) /\ Once(l)
        BY <1>11, <1>15, <2>4, <3>1
      <4>2. ToSet(l2) = ToSet(l) \cup {p} /\ Once(l2)
        <5> HIDE DEF l, l2
        <5> QED BY <1>2, <3>0, <4>1, AppendIs
      <4>3. owner'[SpOf[p]] = t /\ pbh'[p].sizeclass = c
        BY <1>6, <1>7, <1>8
      <4>4. \A q \in ToSet(l2) : owner'[SpOf[q]] = t /\ pbh'[q].sizeclass = d
        BY <2>4, <3>1, <4>2, <4>3
      <4>5. \A q \in Pb : owner'[SpOf[q]] = t /\ pbh'[q].sizeclass = d => q \in ToSet(l2)
        BY <2>4, <4>2
      <4> QED BY <4>2, <4>4, <4>5 DEF PbhListOK, OwnerOf
    <3>2. CASE d # c
      <4>1. l2 = l /\ pbh'[p].sizeclass # d
        BY <1>6, <1>7, <1>15, <3>2
      <4> QED BY <2>4, <4>1 DEF PbhListOK, OwnerOf
    <3> QED BY <3>1, <3>2
  <2>6. ASSUME NEW d \in Class PROVE ChunkOK(t, d)'
    <3>0. \A q \in Pb : pbh'[q].cnt_unused = pbh[q].cnt_unused
      BY <1>10 DEF Cut, SameHdr
    <3>1. CASE d = c
      <4>1. heap'[t][c].cnt_unused # 0 => heap'[t][c].ptr_to_unused[1] = p
        BY <1>15
      <4>2. pbh'[p].cnt_unused = 0
        BY <1>6, <1>7
      <4> QED BY <1>8, <1>15, <3>1, <4>1, <4>2 DEF ChunkOK, OwnerOf
    <3>2. CASE d # c
      <4> DEFINE q == heap[t][d].ptr_to_unused[1]
      <4>1. ChunkOK(t, d) /\ heap'[t][d] = heap[t][d]
        BY <1>0, <1>15, <3>2 DEF Mine
      <4>2. heap[t][d].cnt_unused # 0 => q \in Pb /\ pbh[q].sizeclass = d /\ d # 0
        BY <1>0, UnusedIn, Blocks DEF Class
      <4>3. heap[t][d].cnt_unused # 0 => owner'[SpOf[q]] = t /\ pbh'[q].cnt_unused = 0
        BY <1>9, <3>0, <4>1, <4>2 DEF ChunkOK, InUse
      <4> QED BY <4>1, <4>3 DEF ChunkOK, OwnerOf
    <3> QED BY <3>1, <3>2
  <2> QED BY <2>1, <2>3, <2>5, <2>6 DEF Mine
<1>22. Gives(c)
  BY <1>5, <1>15 DEF Gives
<1>23. IInv'
  BY <1>16, <1>17, <1>18, <1>19, <1>20, <1>21, Finish
<1> QED BY <1>22, <1>23

(***************************************************************************)
(* Steps that give blocks back                                             *)
(***************************************************************************)

OthersIdle(t) ==
  \A u \in Thread : u # t =>
    /\ heap'[u] = heap[u] /\ pc'[u] = pc[u] /\ run'[u] = run[u]
    /\ top'[u] = top[u] /\ cl'[u] = cl[u] /\ rest'[u] = rest[u]

\* A step of thread t by which page blocks W become free.
Returns(t, W) ==
  /\ OthersIdle(t)
  /\ \A p \in Pb : p \in W => pbh'[p] = FreePbh
  /\ \A p \in Pb : p \notin W =>
       /\ pbh'[p].sizeclass = pbh[p].sizeclass
       /\ pbh[p].sizeclass = 0 => pbh'[p] = pbh[p]
       /\ \/ pbh'[p].cnt_unused = pbh[p].cnt_unused
          \/ /\ OwnerOf(p) = t
             /\ pbh'[p].cnt_unused % BlocksPerLine[pbh[p].sizeclass] = 0
       /\ pbh[p].sizeclass # 0 => owner'[SpOf[p]] # NULL
  /\ \A p \in Pb, u \in Thread : u # t =>
       /\ owner'[SpOf[p]] = u <=> OwnerOf(p) = u
       /\ OwnerOf(p) = u => p \notin W

LEMMA ReturnsKept ==
  ASSUME IInv, SpOf' = SpOf, NEW t \in Thread, NEW W, Returns(t, W),
         Shapes', Here', Mine(t)'
  PROVE  IInv'
<1>0. Shapes /\ Room
  BY DEF IInv
<1>1. Others(t)
  <2>1. ASSUME NEW p \in Pb, NEW u \in Thread, u # t
        PROVE  /\ owner'[SpOf[p]] = u <=> OwnerOf(p) = u
               /\ OwnerOf(p) = u => /\ pbh'[p].sizeclass = pbh[p].sizeclass
                                    /\ pbh'[p].cnt_unused = pbh[p].cnt_unused
    BY <2>1 DEF Returns
  <2> QED BY <2>1 DEF Others, Returns, OthersIdle
<1>2. Room'
  <2>1. \A p \in Pb : pbh'[p].sizeclass \in {pbh[p].sizeclass, 0}
    BY DEF Returns, FreePbh
  <2> QED BY <1>0, <2>1, RoomKept
<1>3. ASSUME NEW p \in Pb PROVE PbhOK(p)'
  <2>0. PbhOK(p)
    BY DEF IInv
  <2>1. CASE p \in W
    BY <2>1 DEF Returns, PbhOK, InUse, FreePbh
  <2>2. CASE p \notin W /\ pbh[p].sizeclass = 0
    <3>1. pbh'[p] = pbh[p] /\ pbh[p] = FreePbh
      BY <2>0, <2>2 DEF Returns, PbhOK, InUse
    <3> QED BY <2>2, <3>1 DEF PbhOK, InUse, FreePbh
  <2>3. CASE p \notin W /\ pbh[p].sizeclass # 0
    <3>1. /\ pbh'[p].sizeclass = pbh[p].sizeclass
          /\ pbh'[p].cnt_unused % BlocksPerLine[pbh[p].sizeclass] = 0
          /\ owner'[SpOf[p]] # NULL
      BY <2>0, <2>3 DEF Returns, PbhOK, InUse
    <3> QED BY <2>3, <3>1 DEF PbhOK, InUse, OwnerOf
  <2> QED BY <2>1, <2>2, <2>3
<1> QED BY <1>1, <1>2, <1>3, Finish

\* Class c of thread t in a step that frees page blocks W: a list that is to be
\* right loses no others, and wins none but the thread's.
ListFits(t, c, W) ==
  c >= cl'[t] =>
    /\ Once(heap[t][c].pbh_list) => Once(heap'[t][c].pbh_list)
    /\ \A p \in ToSet(heap'[t][c].pbh_list) :
         /\ p \notin W
         /\ \/ p \in ToSet(heap[t][c].pbh_list)
            \/ OwnerOf(p) = t /\ pbh[p].sizeclass = c
    /\ c > cl'[t] => \A p \in ToSet(heap[t][c].pbh_list) :
                       p \in W \/ p \in ToSet(heap'[t][c].pbh_list)

\* No page block changes hands.
Calm(t) ==
  /\ OthersIdle(t) /\ owner' = owner /\ cl'[t] >= cl[t]
  /\ \A p \in Pb :
       /\ pbh'[p].sizeclass = pbh[p].sizeclass
       /\ pbh[p].sizeclass = 0 => pbh'[p] = pbh[p]
       /\ \/ pbh'[p].cnt_unused = pbh[p].cnt_unused
          \/ /\ OwnerOf(p) = t
             /\ pbh'[p].cnt_unused % BlocksPerLine[pbh[p].sizeclass] = 0
             /\ \A c \in Class : heap'[t][c].cnt_unused # 0 =>
                                   heap'[t][c].ptr_to_unused[1] # p
  /\ \A c \in Class :
       /\ \/ heap'[t][c].cnt_unused = 0
          \/ /\ heap'[t][c].ptr_to_unused = heap[t][c].ptr_to_unused
             /\ heap'[t][c].cnt_unused = heap[t][c].cnt_unused
       /\ ListFits(t, c, {})

\* A class whose list of page blocks stays as it is.
LEMMA SameFits ==
  ASSUME NEW t \in Thread, NEW c \in Class,
         heap'[t][c].pbh_list = heap[t][c].pbh_list
  PROVE  ListFits(t, c, {})
<1> DEFINE l == heap[t][c].pbh_list
           k == heap'[t][c].pbh_list
<1>1. k = l
  OBVIOUS
<1> HIDE DEF k, l
<1>2. /\ Once(l) => Once(k)
      /\ \A p \in ToSet(k) : p \notin {} /\ p \in ToSet(l)
      /\ \A p \in ToSet(l) : p \in ToSet(k)
  BY <1>1
<1> QED BY <1>2 DEF ListFits, k, l

LEMMA CalmKept ==
  ASSUME IInv, SpOf' = SpOf, NEW t \in Thread, Calm(t),
         Shapes', Here', PhaseOK(t)', DoneOK(t)'
  PROVE  IInv'
<1>0. Shapes /\ Here /\ Mine(t)
  BY DEF IInv
<1>1. owner' = owner /\ \A p \in Pb : owner'[SpOf[p]] = OwnerOf(p)
  BY DEF Calm, OwnerOf
<1>2. Returns(t, {})
  <2>1. \A p \in Pb : pbh[p].sizeclass # 0 => owner'[SpOf[p]] # NULL
    BY <1>1 DEF IInv, PbhOK, InUse
  <2> QED BY <1>1, <2>1 DEF Calm, Returns
<1>3. cl[t] \in 0 .. NUM_CLASSES /\ cl'[t] \in 0 .. NUM_CLASSES /\ cl'[t] >= cl[t]
  BY <1>0 DEF Shapes, Calm
<1>4. ASSUME NEW c \in Class PROVE PbhListOK(t, c)'
  <2>1. PbhListOK(t, c) /\ ListFits(t, c, {})
    BY <1>0 DEF Mine, Calm
  <2>2. \A p \in ToSet(heap'[t][c].pbh_list) : p \in Pb
    <3>1. heap'[t][c].pbh_list \in Seq(Pb)
      BY DEF Shapes, HeapLists
    <3> QED BY <3>1 DEF ToSet
  <2>3. c \in Int
    BY DEF Class
  <2>4. (c >= cl'[t] => c >= cl[t]) /\ (c > cl'[t] => c > cl[t])
    BY <1>3, <2>3
  <2>5. c >= cl'[t] => /\ Once(heap'[t][c].pbh_list)
                       /\ \A p \in ToSet(heap'[t][c].pbh_list) :
                            OwnerOf(p) = t /\ pbh[p].sizeclass = c
    BY <2>1, <2>4 DEF PbhListOK, ListFits
  <2>6. c > cl'[t] => \A p \in Pb : OwnerOf(p) = t /\ pbh[p].sizeclass = c =>
                        p \in ToSet(heap'[t][c].pbh_list)
    <3>1. c > cl'[t] => c >= cl'[t]
      BY <1>3, <2>3
    <3> QED BY <2>1, <2>4, <3>1 DEF PbhListOK, ListFits
  <2>7. \A p \in Pb : owner'[SpOf[p]] = OwnerOf(p) /\ pbh'[p].sizeclass = pbh[p].sizeclass
    BY <1>1 DEF Calm
  <2> QED BY <2>2, <2>5, <2>6, <2>7 DEF PbhListOK, OwnerOf
<1>5. ASSUME NEW c \in Class PROVE ChunkOK(t, c)'
  <2> DEFINE q == heap[t][c].ptr_to_unused[1]
  <2>0. ChunkOK(t, c)
    BY <1>0 DEF Mine
  <2>1. CASE heap'[t][c].cnt_unused = 0
    BY <2>1, NoneOver DEF ChunkOK
  <2>2. CASE heap'[t][c].cnt_unused # 0
    <3>1. /\ heap'[t][c].ptr_to_unused = heap[t][c].ptr_to_unused
          /\ heap'[t][c].cnt_unused = heap[t][c].cnt_unused
      BY <2>2 DEF Calm
    <3>2. q \in Pb
      BY <1>0, <2>2, <3>1, UnusedIn, Blocks
    <3>3. pbh'[q].cnt_unused = pbh[q].cnt_unused
      BY <2>2, <3>1, <3>2 DEF Calm
    <3>4. owner'[SpOf[q]] = t /\ pbh'[q].cnt_unused = 0
      BY <1>1, <2>0, <2>2, <3>1, <3>2, <3>3 DEF ChunkOK
    <3> QED BY <2>0, <3>1, <3>4 DEF ChunkOK, OwnerOf
  <2> QED BY <2>1, <2>2
<1>6. Mine(t)'
  BY <1>4, <1>5 DEF Mine
<1> QED BY <1>2, <1>6, ReturnsKept

\* Page block p of class c, which is whole, becomes free.
FreesOne(t, p, c) ==
  /\ OthersIdle(t) /\ cl'[t] >= cl[t]
  /\ OwnerOf(p) = t /\ pbh[p].sizeclass = c
  /\ PbFree(p)
  /\ \A d \in Class : d # c => heap'[t][d] = heap[t][d]
  /\ \/ heap'[t][c].cnt_unused = 0
     \/ /\ heap'[t][c].ptr_to_unused = heap[t][c].ptr_to_unused
        /\ heap'[t][c].cnt_unused = heap[t][c].cnt_unused
  /\ ListFits(t, c, {p})

\* The superpage of the last page block is given up, and no other.
LEMMA PbFreeOwner ==
  ASSUME Shapes, NEW p \in Pb, PbFree(p)
  PROVE  /\ \A q \in Pb : q # p /\ InUse(q) => owner'[SpOf[q]] = OwnerOf(q)
         /\ \A q \in Pb : owner'[SpOf[q]] \in {OwnerOf(q), NULL}
         /\ \A q \in Pb : OwnerOf(q) # OwnerOf(p) => owner'[SpOf[q]] = OwnerOf(q)
         /\ owner' \in [Superpage -> Thread \cup {NULL, DEAD_OWNER}]
         /\ pbh' \in [Pb -> Headers] /\ pbh'[p] = FreePbh
         /\ \A q \in Pb : q # p => pbh'[q] = pbh[q]
         /\ next' \in [Block -> Ptr]
         /\ \A b \in Block : next'[b] = IF b[1] = p THEN NULL ELSE next[b]
<1>1. /\ owner \in [Superpage -> Thread \cup {NULL, DEAD_OWNER}]
      /\ pbh \in [Pb -> Headers] /\ next \in [Block -> Ptr]
      /\ \A q \in Pb : SpOf[q] \in Superpage
  BY Fields DEF Shapes
<1>2. owner' = IF \E q \in PbsOf(SpOf[p]) \ {p} : InUse(q) THEN owner
               ELSE [owner EXCEPT ![SpOf[p]] = NULL]
  BY DEF PbFree
<1>3. ASSUME NEW q \in Pb
      PROVE  /\ q # p /\ InUse(q) => owner'[SpOf[q]] = OwnerOf(q)
             /\ owner'[SpOf[q]] \in {OwnerOf(q), NULL}
             /\ OwnerOf(q) # OwnerOf(p) => owner'[SpOf[q]] = OwnerOf(q)
  <2>1. CASE \E x \in PbsOf(SpOf[p]) \ {p} : InUse(x)
    BY <1>2, <2>1 DEF OwnerOf
  <2>2. CASE ~ \E x \in PbsOf(SpOf[p]) \ {p} : InUse(x)
    <3>1. owner' = [owner EXCEPT ![SpOf[p]] = NULL]
      BY <1>2, <2>2
    <3>2. q # p /\ InUse(q) => SpOf[q] # SpOf[p]
      BY <2>2 DEF PbsOf
    <3>3. SpOf[q] # SpOf[p] => owner'[SpOf[q]] = OwnerOf(q)
      BY <1>1, <3>1 DEF OwnerOf
    <3>4. SpOf[q] = SpOf[p] => owner'[SpOf[q]] = NULL /\ OwnerOf(q) = OwnerOf(p)
      BY <1>1, <3>1 DEF OwnerOf
    <3> QED BY <3>2, <3>3, <3>4
  <2> QED BY <2>1, <2>2
<1>4. owner' \in [Superpage -> Thread \cup {NULL, DEAD_OWNER}]
  BY <1>1, <1>2
<1>5. /\ pbh' \in [Pb -> Headers] /\ pbh'[p] = FreePbh
      /\ \A q \in Pb : q # p => pbh'[q] = pbh[q]
  <2>1. FreePbh \in Headers
    BY ConstantsAssumption DEF FreePbh, Headers, Ptr, NoWord
  <2> QED BY <1>1, <2>1 DEF PbFree
<1>6. /\ next' \in [Block -> Ptr]
      /\ \A b \in Block : next'[b] = IF b[1] = p THEN NULL ELSE next[b]
  BY <1>1 DEF PbFree, Forget, Ptr
<1> QED BY <1>3, <1>4, <1>5, <1>6

LEMMA UnusedInNext ==
  (Here => \A t \in Thread, c \in Class : heap[t][c].cnt_unused # 0 =>
             pbh[heap[t][c].ptr_to_unused[1]].sizeclass = c)'
<1>1. Here => \A t \in Thread, c \in Class : heap[t][c].cnt_unused # 0 =>
                pbh[heap[t][c].ptr_to_unused[1]].sizeclass = c
  BY UnusedIn
<1> QED BY <1>1, PTL

LEMMA FreesOneKept ==
  ASSUME IInv, SpOf' = SpOf, NEW t \in Thread, NEW p \in Pb, NEW c \in Class,
         FreesOne(t, p, c), Shapes', Here', PhaseOK(t)', DoneOK(t)'
  PROVE  IInv'
<1>0. Shapes /\ Here /\ Mine(t)
  BY DEF IInv
<1>1. /\ \A q \in Pb : q # p /\ InUse(q) => owner'[SpOf[q]] = OwnerOf(q)
      /\ \A q \in Pb : owner'[SpOf[q]] \in {OwnerOf(q), NULL}
      /\ \A q \in Pb : OwnerOf(q) # OwnerOf(p) => owner'[SpOf[q]] = OwnerOf(q)
      /\ pbh'[p] = FreePbh /\ \A q \in Pb : q # p => pbh'[q] = pbh[q]
  BY <1>0, PbFreeOwner DEF FreesOne
<1>2. OwnerOf(p) = t /\ pbh[p].sizeclass = c /\ NULL \notin Thread
  BY ConstantsAssumption DEF FreesOne
<1>3. Returns(t, {p})
  <2>1. \A q \in Pb : q # p /\ InUse(q) => OwnerOf(q) # NULL
    BY DEF IInv, PbhOK
  <2>2. \A q \in Pb : q # p /\ pbh[q].sizeclass # 0 => owner'[SpOf[q]] # NULL
    BY <1>1, <2>1 DEF InUse
  <2>3. ASSUME NEW q \in Pb, NEW u \in Thread, u # t
        PROVE  /\ owner'[SpOf[q]] = u <=> OwnerOf(q) = u
               /\ OwnerOf(q) = u => q \notin {p}
    BY <1>1, <1>2, <2>3
  <2> QED BY <1>1, <2>2, <2>3 DEF FreesOne, Returns
<1>4. cl[t] \in 0 .. NUM_CLASSES /\ cl'[t] \in 0 .. NUM_CLASSES /\ cl'[t] >= cl[t]
  BY <1>0 DEF Shapes, FreesOne
<1>5. ASSUME NEW d \in Class PROVE PbhListOK(t, d)'
  <2>0. PbhListOK(t, d)
    BY <1>0 DEF Mine
  <2>1. ListFits(t, d, {p}) \/ (d # c /\ heap'[t][d].pbh_list = heap[t][d].pbh_list)
    <3>1. CASE d = c
      BY <3>1 DEF FreesOne
    <3>2. CASE d # c
      BY <3>2 DEF FreesOne
    <3> QED BY <3>1, <3>2
  <2>2. \A q \in ToSet(heap'[t][d].pbh_list) : q \in Pb
    <3>1. heap'[t][d].pbh_list \in Seq(Pb)
      BY DEF Shapes, HeapLists
    <3> QED BY <3>1 DEF ToSet
  <2>3. d \in Int /\ d # 0
    BY DEF Class
  <2>4. (d >= cl'[t] => d >= cl[t]) /\ (d > cl'[t] => d > cl[t] /\ d >= cl'[t])
    BY <1>4, <2>3
  <2>5. d >= cl'[t] => /\ Once(heap'[t][d].pbh_list)
                       /\ \A q \in ToSet(heap'[t][d].pbh_list) :
                            q # p /\ OwnerOf(q) = t /\ pbh[q].sizeclass = d
    BY <1>2, <2>0, <2>1, <2>4 DEF PbhListOK, ListFits
  <2>6. d > cl'[t] => \A q \in Pb : q # p /\ OwnerOf(q) = t /\ pbh[q].sizeclass = d =>
                        q \in ToSet(heap'[t][d].pbh_list)
    BY <2>0, <2>1, <2>4 DEF PbhListOK, ListFits
  <2>7. d >= cl'[t] => /\ Once(heap'[t][d].pbh_list)
                       /\ \A q \in ToSet(heap'[t][d].pbh_list) :
                            owner'[SpOf[q]] = t /\ pbh'[q].sizeclass = d
    BY <1>1, <2>2, <2>3, <2>5 DEF InUse
  <2>8. d > cl'[t] => \A q \in Pb : owner'[SpOf[q]] = t /\ pbh'[q].sizeclass = d =>
                        q \in ToSet(heap'[t][d].pbh_list)
    <3>1. ASSUME NEW q \in Pb, owner'[SpOf[q]] = t, pbh'[q].sizeclass = d
          PROVE  q # p /\ OwnerOf(q) = t /\ pbh[q].sizeclass = d
      <4>1. q # p
        BY <1>1, <2>3, <3>1 DEF FreePbh
      <4> QED BY <1>1, <1>2, <3>1, <4>1
    <3> QED BY <2>6, <3>1
  <2> QED BY <2>7, <2>8 DEF PbhListOK, OwnerOf
<1>6. ASSUME NEW d \in Class PROVE ChunkOK(t, d)'
  <2> DEFINE q == heap[t][d].ptr_to_unused[1]
  <2>1. /\ ChunkOK(t, d)
        /\ \/ heap'[t][d].cnt_unused = 0
           \/ /\ heap'[t][d].ptr_to_unused = heap[t][d].ptr_to_unused
              /\ heap'[t][d].cnt_unused = heap[t][d].cnt_unused
    BY <1>0 DEF Mine, FreesOne
  <2>2. CASE heap'[t][d].cnt_unused = 0
    BY <2>2, NoneOver DEF ChunkOK
  <2>3. CASE heap'[t][d].cnt_unused # 0
    <3>1. /\ heap'[t][d].ptr_to_unused = heap[t][d].ptr_to_unused
          /\ heap'[t][d].cnt_unused = heap[t][d].cnt_unused
      BY <2>1, <2>3
    <3>2. q \in Pb /\ pbh[q].sizeclass = d /\ d # 0
      BY <1>0, <2>3, <3>1, UnusedIn, Blocks DEF Class
    <3>3. pbh'[q].sizeclass = d
      <4>1. pbh'[heap'[t][d].ptr_to_unused[1]].sizeclass = d
        BY <2>3, UnusedInNext
      <4> QED BY <3>1, <4>1
    <3>4. q # p
      BY <1>1, <3>2, <3>3 DEF FreePbh
    <3>5. owner'[SpOf[q]] = t /\ pbh'[q].cnt_unused = 0
      BY <1>1, <2>1, <2>3, <3>1, <3>2, <3>4 DEF ChunkOK, InUse
    <3> QED BY <2>1, <3>1, <3>5 DEF ChunkOK, OwnerOf
  <2> QED BY <2>2, <2>3
<1>7. Mine(t)'
  BY <1>5, <1>6 DEF Mine
<1> QED BY <1>3, <1>7, ReturnsKept

(***************************************************************************)
(* remote_free                                                             *)
(***************************************************************************)

\* Of Hands[t] before and after a step.
HandAs(t) ==
  /\ Hands[t].first = run[t].first /\ Hands'[t].first = run'[t].first
  /\ Hands[t].last = run[t].last /\ Hands'[t].last = run'[t].last
  /\ Hands[t].num = run[t].num /\ Hands'[t].num = run'[t].num
  /\ Hands[t].link = IF pc[t] = "cas" THEN {WordHead(run[t].first[1], top[t])} ELSE {}
  /\ Hands'[t].link = IF pc'[t] = "cas" THEN {WordHead(run'[t].first[1], top'[t])} ELSE {}

LEMMA HandsBut ==
  ASSUME NEW t \in Thread, OthersIdle(t)
  PROVE  (\A u \in Thread : u # t => Hands'[u] = Hands[u]) /\ HandAs(t)
<1>1. \A u \in Thread : u # t => Hand(u)' = Hand(u)
  BY HandKept DEF OthersIdle
<1>2. \A u \in Thread : Hands[u] = Hand(u) /\ Hands'[u] = Hand(u)'
  BY DEF Hands
<1>3. /\ Hand(t).first = run[t].first /\ Hand(t).last = run[t].last
      /\ Hand(t).num = run[t].num
      /\ Hand(t).link = IF pc[t] = "cas" THEN {WordHead(run[t].first[1], top[t])} ELSE {}
  BY DEF Hand
<1>4. /\ Hand(t)'.first = run'[t].first /\ Hand(t)'.last = run'[t].last
      /\ Hand(t)'.num = run'[t].num
      /\ Hand(t)'.link = IF pc'[t] = "cas" THEN {WordHead(run'[t].first[1], top'[t])}
                         ELSE {}
  BY DEF Hand, WordHead
<1>5. \A u \in Thread : u # t => Hands'[u] = Hands[u]
  BY <1>1, <1>2
<1>6. Hands[t] = Hand(t) /\ Hands'[t] = Hand(t)'
  BY <1>2
<1>7. HandAs(t)
  BY <1>3, <1>4, <1>6 DEF HandAs
<1> QED BY <1>5, <1>7

\* What a thread has in hand.
LEMMA HandIs ==
  ASSUME Shapes, Here, NEW t \in Thread, run[t].num # 0
  PROVE  /\ run[t].first \in Block /\ run[t].last \in Block /\ run[t].num \in Nat
         /\ run[t].first[1] \in Pb /\ pbh[run[t].first[1]].sizeclass \in Class
         /\ pc[t] = "cas" => next[run[t].last] = WordHead(run[t].first[1], top[t])
<1> PICK w, r : Placing(w, r, next, heap, pbh, Hands, rest, out, BlocksPerPbh)
  BY DEF Here, Placed
<1>1. /\ Hands[t].first = run[t].first /\ Hands[t].last = run[t].last
      /\ Hands[t].num = run[t].num
      /\ Hands[t].link = IF pc[t] = "cas" THEN {WordHead(run[t].first[1], top[t])} ELSE {}
  BY DEF Hands, Hand
<1>2. HandOK(next, w, r, t, Hands[t])
  BY Sides
<1>3. /\ run[t].last \in Block
      /\ IsSeg(next, w, r, RunAt(t), run[t].first, run[t].num, next[run[t].last])
      /\ Hands[t].link \subseteq {next[run[t].last]}
  BY <1>1, <1>2 DEF HandOK
<1>4. run[t].first \in Block /\ w[run[t].first] = RunAt(t) /\ run[t].num \in Nat
  BY <1>3 DEF IsSeg, Ptr
<1>5. Sited(w, pbh, Hands, out, BlocksPerPbh, run[t].first)
  BY <1>4, Sides
<1>6. InCarved(pbh, BlocksPerPbh, run[t].first)
  <2>1. RunAt(t) # Nowhere
    BY DEF RunAt, Nowhere
  <2> QED BY <1>4, <1>5, <2>1 DEF Sited
<1>7. run[t].first[1] \in Pb
  BY <1>4, Blocks
<1>8. pbh[run[t].first[1]].sizeclass \in Class
  BY <1>6, <1>7, Fields DEF InCarved
<1> QED BY <1>1, <1>3, <1>4, <1>7, <1>8

LEMMA HereNext ==
  ASSUME SpOf' = SpOf, Placed(next', heap', pbh', Hands', rest', out', BlocksPerPbh)
  PROVE  Here'
<1>1. BlocksPerPbh' = BlocksPerPbh
  BY DEF BlocksPerPbh
<1> QED BY <1>1 DEF Here

LEMMA LinkRunStep ==
  ASSUME IInv, SpOf' = SpOf, NEW t \in Thread, LinkRun(t)
  PROVE  IInv'
<1> DEFINE p == run[t].first[1]
           v == pbh[p].remote
           b == run[t].last
<1>0. Shapes /\ Here /\ Room /\ Mine(t) /\ PhaseOK(t)
  BY DEF IInv, Mine
<1>1. /\ pc[t] = "link" /\ top' = [top EXCEPT ![t] = v]
      /\ next' = [next EXCEPT ![b] = WordHead(p, v)]
      /\ pc' = [pc EXCEPT ![t] = "cas"]
      /\ owner' = owner /\ pbh' = pbh /\ heap' = heap /\ run' = run /\ cl' = cl
      /\ rest' = rest /\ out' = out
  BY DEF LinkRun, WordHead
<1>2. /\ pc \in [Thread -> {"idle", "check", "link", "cas", "recheck", "local",
                            "list", "exit"}]
      /\ top \in [Thread -> [head : Nat, cnt : 0 .. MaxBlocks]]
      /\ next \in [Block -> Ptr]
  BY <1>0 DEF Shapes
<1>3. /\ run[t].num # 0 /\ b \in Block /\ p \in Pb
      /\ pbh[p].remote.cnt \in 0 .. MaxBlocks
  <2>1. run[t].num # 0
    BY <1>0, <1>1 DEF PhaseOK, InHand
  <2> QED BY <1>0, <2>1, HandIs, Fits
<1>4. v \in [head : Nat, cnt : 0 .. MaxBlocks]
  <2>1. v \in [head : Nat, cnt : Int]
    BY <1>0, <1>3, Fields
  <2> QED BY <1>3, <2>1
<1>5. WordHead(p, v) \in Ptr
  BY <1>0, <1>3, Counts DEF WordHead, Ptr
<1>6. OthersIdle(t)
  BY <1>1, <1>2 DEF OthersIdle
<1>7. Shapes'
  <2>1. top' \in [Thread -> [head : Nat, cnt : 0 .. MaxBlocks]]
    BY <1>1, <1>2, <1>4
  <2>2. next' \in [Block -> Ptr]
    BY <1>1, <1>2, <1>5
  <2>3. pc' \in [Thread -> {"idle", "check", "link", "cas", "recheck", "local",
                            "list", "exit"}]
    BY <1>1, <1>2
  <2> QED BY <1>0, <1>1, <2>1, <2>2, <2>3 DEF Shapes, MaxBlocks
<1>8. Calm(t)
  <2>1. cl'[t] >= cl[t]
    BY <1>0, <1>1 DEF Shapes
  <2>2. \A c \in Class : ListFits(t, c, {})
    BY <1>1, SameFits
  <2> QED BY <1>1, <1>6, <2>1, <2>2 DEF Calm
<1>9. Here'
  <2>1. Placed(next, heap, pbh, Hands, rest, out, BlocksPerPbh)
    BY <1>0 DEF Here
  <2>2. pc'[t] = "cas" /\ top'[t] = v /\ next'[b] = WordHead(p, v)
        /\ \A x \in Block : x # b => next'[x] = next[x]
    BY <1>1, <1>2, <1>3
  <2>3. ButOf(t, Hands, Hands') /\ LinksBut(b, next, next')
    BY <1>6, <2>2, HandsBut DEF ButOf, LinksBut
  <2>4. /\ Hands[t].last = b /\ Hands[t].num = run[t].num
        /\ Hands'[t].num = Hands[t].num /\ Hands'[t].first = Hands[t].first
        /\ Hands'[t].last = Hands[t].last /\ Hands'[t].link = {next'[b]}
    <3>1. HandAs(t)
      BY <1>6, HandsBut
    <3>2. run'[t] = run[t] /\ b = run[t].last /\ p = run[t].first[1]
      BY <1>1, <1>2
    <3> QED BY <2>2, <3>1, <3>2 DEF HandAs
  <2>5. Links(next, Hands, t, next', Hands')
    BY <1>3, <2>3, <2>4 DEF Links
  <2> DEFINE nx == next'
             R == Hands'
  <2>6. Links(next, Hands, t, nx, R)
    BY <2>5
  <2> HIDE DEF nx, R
  <2>7. Placed(nx, heap, pbh, R, rest, out, BlocksPerPbh)
    BY <2>1, <2>6, LinkMove
  <2> QED BY <1>1, <2>7, HereNext DEF nx, R
<1>10. PhaseOK(t)'
  BY <1>0, <1>1, <1>2 DEF PhaseOK, InHand
<1>11. DoneOK(t)'
  BY <1>0, <1>1 DEF Mine, DoneOK
<1> QED BY <1>7, <1>8, <1>9, <1>10, <1>11, CalmKept

\* A thread that has lost the compare and swap forgets what it had linked.
Unlinks(R, t, R2) ==
  /\ ButOf(t, R, R2)
  /\ R2[t].num = R[t].num /\ R2[t].first = R[t].first /\ R2[t].last = R[t].last
  /\ R2[t].link = {}

LEMMA UnlinkMove ==
  ASSUME NEW nx, NEW hp, NEW hd, NEW R, NEW S, NEW o, NEW bp,
         Placed(nx, hp, hd, R, S, o, bp), NEW t \in Thread, NEW R2, Unlinks(R, t, R2)
  PROVE  Placed(nx, hp, hd, R2, S, o, bp)
<1> PICK w, r : Placing(w, r, nx, hp, hd, R, S, o, bp)
  BY DEF Placed
<1>1. \A u \in Thread : R2[u].num = R[u].num /\ R2[u].first = R[u].first
                        /\ R2[u].last = R[u].last /\ R2[u].link \subseteq R[u].link
  BY DEF Unlinks, ButOf
<1>2. \A u \in Thread : HandOK(nx, w, r, u, R2[u])
  <2> SUFFICES ASSUME NEW u \in Thread PROVE HandOK(nx, w, r, u, R2[u])
    OBVIOUS
  <2>1. HandOK(nx, w, r, u, R[u])
    BY Sides
  <2> QED BY <1>1, <2>1 DEF HandOK
<1>3. \A b \in Block : Sited(w, hd, R2, o, bp, b)
  <2> SUFFICES ASSUME NEW b \in Block PROVE Sited(w, hd, R2, o, bp, b)
    OBVIOUS
  <2>1. Sited(w, hd, R, o, bp, b)
    BY Sides
  <2> QED BY <1>1, <2>1 DEF Sited
<1> QED BY <1>2, <1>3 DEF Placed, Placing

LEMMA PushFails ==
  ASSUME IInv, SpOf' = SpOf, NEW t \in Thread, Push(t),
         pbh[run[t].first[1]].remote # top[t]
  PROVE  IInv'
<1>0. Shapes /\ Here /\ Mine(t) /\ PhaseOK(t)
  BY DEF IInv, Mine
<1>1. /\ pc[t] = "cas" /\ pc' = [pc EXCEPT ![t] = "check"]
      /\ top' = [top EXCEPT ![t] = NoWord]
      /\ pbh' = pbh /\ run' = run /\ owner' = owner /\ next' = next /\ heap' = heap
      /\ cl' = cl /\ rest' = rest /\ out' = out
  BY DEF Push
<1>2. /\ pc \in [Thread -> {"idle", "check", "link", "cas", "recheck", "local",
                            "list", "exit"}]
      /\ top \in [Thread -> [head : Nat, cnt : 0 .. MaxBlocks]]
      /\ MaxBlocks \in Nat
  BY <1>0, Layout DEF Shapes
<1>3. OthersIdle(t)
  BY <1>1, <1>2 DEF OthersIdle
<1>4. Shapes'
  <2>1. top' \in [Thread -> [head : Nat, cnt : 0 .. MaxBlocks]]
    BY <1>1, <1>2 DEF NoWord
  <2>2. pc' \in [Thread -> {"idle", "check", "link", "cas", "recheck", "local",
                            "list", "exit"}]
    BY <1>1, <1>2
  <2> QED BY <1>0, <1>1, <2>1, <2>2 DEF Shapes, MaxBlocks
<1>5. Calm(t)
  <2>1. cl'[t] >= cl[t]
    BY <1>0, <1>1 DEF Shapes
  <2>2. \A c \in Class : ListFits(t, c, {})
    BY <1>1, SameFits
  <2> QED BY <1>1, <1>3, <2>1, <2>2 DEF Calm
<1>6. Here'
  <2>1. Placed(next, heap, pbh, Hands, rest, out, BlocksPerPbh)
    BY <1>0 DEF Here
  <2>2. ButOf(t, Hands, Hands')
    BY <1>3, HandsBut DEF ButOf
  <2>3. pc'[t] = "check" /\ run'[t] = run[t]
    BY <1>1, <1>2
  <2>4. /\ Hands'[t].num = Hands[t].num /\ Hands'[t].first = Hands[t].first
        /\ Hands'[t].last = Hands[t].last /\ Hands'[t].link = {}
    <3>1. HandAs(t)
      BY <1>3, HandsBut
    <3> QED BY <2>3, <3>1 DEF HandAs
  <2> DEFINE R == Hands'
  <2>5. Unlinks(Hands, t, R)
    BY <2>2, <2>4 DEF Unlinks
  <2> HIDE DEF R
  <2>6. Placed(next, heap, pbh, R, rest, out, BlocksPerPbh)
    BY <2>1, <2>5, UnlinkMove
  <2> QED BY <1>1, <2>6, HereNext DEF R
<1>7. PhaseOK(t)'
  BY <1>0, <1>1, <1>2 DEF PhaseOK, InHand
<1>8. DoneOK(t)'
  BY <1>0, <1>1 DEF Mine, DoneOK
<1> QED BY <1>4, <1>5, <1>6, <1>7, <1>8, CalmKept

\* 0 is the number of a block.
LEMMA FirstBlock ==
  ASSUME SpOf \in Layouts, NEW p \in Pb
  PROVE  <<p, 0>> \in Block
<1>1. 0 \in 0 .. BlocksPerPbh[1] - 1 /\ 1 \in Class
  BY Layout
<1>2. 0 \in Index
  BY <1>1, Layout
<1> QED BY <1>2 DEF Block

LEMMA PushSucceeds ==
  ASSUME IInv, SpOf' = SpOf, NEW t \in Thread, Push(t),
         pbh[run[t].first[1]].remote = top[t]
  PROVE  IInv'
<1> DEFINE p == run[t].first[1]
           v == NewTop(t)
           q == Pushed(run[t])
<1>0. Shapes /\ Here /\ Room /\ Mine(t) /\ PhaseOK(t)
  BY DEF IInv, Mine
<1>1. /\ pc[t] = "cas" /\ pc' = [pc EXCEPT ![t] = "recheck"]
      /\ top' = [top EXCEPT ![t] = NoWord]
      /\ pbh' = [pbh EXCEPT ![p].remote = v]
      /\ run' = [run EXCEPT ![t] = q]
      /\ owner' = owner /\ next' = next /\ heap' = heap
      /\ cl' = cl /\ rest' = rest /\ out' = out
  BY DEF Push
<1>2. /\ pc \in [Thread -> {"idle", "check", "link", "cas", "recheck", "local",
                            "list", "exit"}]
      /\ top \in [Thread -> [head : Nat, cnt : 0 .. MaxBlocks]]
      /\ run \in [Thread -> [first : Ptr, last : Ptr, num : Int,
                             caller : {"none", "small_free", "tlh_return_list"}]]
      /\ pbh \in [Pb -> Headers]
      /\ MaxBlocks \in Nat /\ SpOf \in Layouts
  BY <1>0, Layout DEF Shapes
<1>3. /\ run[t].num # 0 /\ run[t].num \in Nat /\ p \in Pb /\ run[t].first \in Block
      /\ pbh[p].sizeclass \in Class /\ pbh[p].sizeclass # 0
      /\ next[run[t].last] = WordHead(p, pbh[p].remote)
  <2>1. run[t].num # 0
    BY <1>0, <1>1 DEF PhaseOK, InHand
  <2>2. \A c \in Class : c # 0
    BY DEF Class
  <2> QED BY <1>0, <1>1, <2>1, <2>2, HandIs
<1>4. v \in [head : Nat, cnt : Int]
      /\ v = [head |-> run[t].first[2], cnt |-> pbh[p].remote.cnt + run[t].num]
  <2>1. run[t].first[2] \in Nat
    BY <1>3, Blocks
  <2>2. top[t].cnt \in Int /\ run[t].num \in Int
    BY <1>2, <1>3
  <2>3. top[t].cnt + run[t].num \in Int
    BY <2>2
  <2> QED BY <2>1, <2>3 DEF NewTop
<1>5. /\ q \in [first : Ptr, last : Ptr, num : Int,
                caller : {"none", "small_free", "tlh_return_list"}]
      /\ q.first = <<p, 0>> /\ q.num = 0 /\ <<p, 0>> \in Block
  <2>1. <<p, 0>> \in Block
    BY <1>2, <1>3, FirstBlock
  <2>2. run[t] \in [first : Ptr, last : Ptr, num : Int,
                    caller : {"none", "small_free", "tlh_return_list"}]
    BY <1>2
  <2>3. /\ q.first = <<p, 0>> /\ q.last = NULL /\ q.num = 0 /\ q.caller = run[t].caller
        /\ DOMAIN q = DOMAIN run[t] /\ q = [x \in DOMAIN q |-> q[x]]
    BY <2>2 DEF Pushed
  <2> HIDE DEF q
  <2> QED BY <2>1, <2>2, <2>3 DEF Ptr
<1> HIDE DEF v, q
<1>6. /\ pbh' \in [Pb -> Headers]
      /\ pbh'[p].sizeclass = pbh[p].sizeclass /\ pbh'[p].remote = v
      /\ pbh'[p].free_list = pbh[p].free_list /\ pbh'[p].cnt_free = pbh[p].cnt_free
      /\ pbh'[p].unallocated = pbh[p].unallocated /\ pbh'[p].cnt_unused = pbh[p].cnt_unused
      /\ \A x \in Pb : x # p => pbh'[x] = pbh[x]
  <2>1. RemoteSetTo(p, v, pbh, pbh')
    BY <1>1 DEF RemoteSetTo
  <2> HIDE DEF p
  <2> QED BY <1>2, <1>3, <1>4, <2>1, RemoteSet
<1>7. OthersIdle(t)
  BY <1>1, <1>2 DEF OthersIdle
<1>8. Shapes'
  <2>1. top' \in [Thread -> [head : Nat, cnt : 0 .. MaxBlocks]]
    BY <1>1, <1>2 DEF NoWord
  <2>2. pc' \in [Thread -> {"idle", "check", "link", "cas", "recheck", "local",
                            "list", "exit"}]
    BY <1>1, <1>2
  <2>3. run' \in [Thread -> [first : Ptr, last : Ptr, num : Int,
                             caller : {"none", "small_free", "tlh_return_list"}]]
    BY <1>1, <1>2, <1>5
  <2> QED BY <1>0, <1>1, <1>6, <2>1, <2>2, <2>3 DEF Shapes, MaxBlocks
<1>9. Calm(t)
  <2>1. cl'[t] >= cl[t]
    BY <1>0, <1>1 DEF Shapes
  <2>2. \A c \in Class : ListFits(t, c, {})
    BY <1>1, SameFits
  <2>3. \A x \in Pb : /\ pbh'[x].sizeclass = pbh[x].sizeclass
                      /\ pbh'[x].cnt_unused = pbh[x].cnt_unused
                      /\ pbh[x].sizeclass = 0 => pbh'[x] = pbh[x]
    BY <1>3, <1>6
  <2> QED BY <1>1, <1>7, <2>1, <2>2, <2>3, Zenon DEF Calm
<1>10. Here'
  <2>1. Placed(next, heap, pbh, Hands, rest, out, BlocksPerPbh)
    BY <1>0 DEF Here
  <2>2. run'[t] = q
    BY <1>1, <1>2
  <2>3. /\ \A u \in Thread : u # t => Hands'[u] = Hands[u]
        /\ Hands[t].num = run[t].num /\ Hands[t].first = run[t].first
        /\ Hands[t].last = run[t].last /\ Hands'[t].num = 0
    BY <1>5, <1>7, <2>2, HandsBut DEF HandAs
  <2>4. HdrsBut(p, pbh, pbh')
    BY <1>6 DEF HdrsBut, SameHdr
  <2> DEFINE R == Hands'
             hd == pbh'
  <2>5. Pushes(next, pbh, Hands, t, p, hd, R)
    BY <1>3, <1>4, <1>6, <2>3, <2>4 DEF Pushes, Handless
  <2> HIDE DEF R, hd, p
  <2>6. Placed(next, heap, hd, R, rest, out, BlocksPerPbh)
    BY <1>3, <2>1, <2>5, PushMove
  <2> QED BY <1>1, <2>6, HereNext DEF R, hd
<1>11. PhaseOK(t)'
  <2>1. run'[t] = q /\ pc'[t] = "recheck" /\ cl'[t] = cl[t] /\ rest'[t] = rest[t]
    BY <1>1, <1>2
  <2> QED BY <1>0, <1>1, <1>5, <2>1 DEF PhaseOK, InHand
<1>12. DoneOK(t)'
  BY <1>0, <1>1 DEF Mine, DoneOK
<1> QED BY <1>8, <1>9, <1>10, <1>11, <1>12, CalmKept

\* The whole page blocks of superpage s.
WholeOf(s) == {p \in PbsOf(s) : IsWhole(pbh[p])}

\* What freeing them means for the blocks.
WholeGone(s) ==
  /\ pbh' = [p \in Pb |-> IF p \in WholeOf(s) THEN FreePbh ELSE pbh[p]]
  /\ next' = [b \in Block |-> IF b[1] \in WholeOf(s) THEN NULL ELSE next[b]]

LEMMA WholeGoneIs ==
  ASSUME Shapes, Here, NEW s, WholeGone(s), NEW t \in Thread, HeapsSame(heap, heap')
  PROVE  /\ pbh' \in [Pb -> Headers] /\ next' \in [Block -> Ptr]
         /\ \A p \in Pb : pbh'[p] = IF p \in WholeOf(s) THEN FreePbh ELSE pbh[p]
         /\ \A p \in WholeOf(s) : p \in Pb /\ SpOf[p] = s /\ pbh[p].sizeclass # 0
         /\ Placed(next', heap', pbh', Hands, rest, out, BlocksPerPbh)
<1> DEFINE W == WholeOf(s)
<1>1. /\ pbh \in [Pb -> Headers] /\ next \in [Block -> Ptr] /\ SpOf \in Layouts
  BY DEF Shapes
<1>2. FreePbh \in Headers
  BY ConstantsAssumption DEF FreePbh, Headers, Ptr, NoWord
<1>3. pbh' \in [Pb -> Headers] /\ \A p \in Pb : pbh'[p] = IF p \in W THEN FreePbh ELSE pbh[p]
  BY <1>1, <1>2 DEF WholeGone
<1>4. /\ next' \in [Block -> Ptr]
      /\ \A b \in Block : next'[b] = IF b[1] \in W THEN NULL ELSE next[b]
  BY <1>1 DEF WholeGone, Ptr
<1>5. \A p \in W : /\ p \in Pb /\ SpOf[p] = s /\ pbh[p].sizeclass # 0
                   /\ Counted(pbh[p]) = BlocksPerPbh[pbh[p].sizeclass]
  BY DEF WholeOf, PbsOf, IsWhole
<1>6. \A p \in W : pbh[p].sizeclass \in Class
  BY <1>5, Fields
<1>7. Placed(next', heap', pbh', Hands, rest, out, BlocksPerPbh)
  <2>1. Fit(BlocksPerPbh)
    BY <1>1, Layout DEF Fit
  <2>2. Freed(W, next, pbh, next', pbh') /\ AllWhole(W, pbh, BlocksPerPbh) /\ W \subseteq Pb
    BY <1>3, <1>4, <1>5, <1>6 DEF Freed, AllWhole
  <2> DEFINE nx == next'
             hd == pbh'
             hp == heap'
  <2> HIDE DEF W
  <2>3. FreesWhole(next, heap, pbh, BlocksPerPbh, W, nx, hd, hp)
    BY <2>1, <2>2 DEF FreesWhole
  <2>4. Placed(next, heap, pbh, Hands, rest, out, BlocksPerPbh) /\ 1 \in Class
    BY <1>1, Layout DEF Here
  <2> HIDE DEF nx, hd, hp
  <2>5. Placed(nx, hp, hd, Hands, rest, out, BlocksPerPbh)
    BY <2>3, <2>4, WholeFreed
  <2> QED BY <2>5 DEF nx, hd, hp
<1> QED BY <1>3, <1>4, <1>5, <1>7

\* Thread t takes over the orphan s.
LEMMA AdoptedKept ==
  ASSUME IInv, SpOf' = SpOf, NEW t \in Thread, NEW s \in Superpage,
         owner[s] = DEAD_OWNER, TakeSuperpage(t, s), cl' = cl
  PROVE  /\ owner' \in [Superpage -> Thread \cup {NULL, DEAD_OWNER}] /\ owner'[s] = t
         /\ pbh' \in [Pb -> Headers] /\ next' \in [Block -> Ptr]
         /\ heap' \in [Thread -> [Class -> HeapLists]]
         /\ \A u \in Thread : u # t => heap'[u] = heap[u]
         /\ \A c \in Class : SameList(heap'[t][c], heap[t][c])
         /\ Placed(next', heap', pbh', Hands, rest, out, BlocksPerPbh)
         /\ OthersIdle(t) => Returns(t, WholeOf(s))
         /\ \A c \in Class : PbhListOK(t, c)' /\ ChunkOK(t, c)'
<1> DEFINE W == WholeOf(s)
           L(c) == Adopted(heap[t][c], s, c).pbh_list
           mine(c) == {p \in PbsOf(s) : pbh[p].sizeclass = c /\ ~IsWhole(pbh[p])}
<1>0. Shapes /\ Here /\ Mine(t) /\ DEAD_OWNER \notin Thread \cup {NULL} /\ NULL \notin Thread
  BY ConstantsAssumption DEF IInv
<1>1. /\ owner' = [owner EXCEPT ![s] = t]
      /\ heap' = [heap EXCEPT ![t] = [c \in Class |-> Adopted(heap[t][c], s, c)]]
      /\ WholeGone(s)
  BY DEF TakeSuperpage, WholeGone, WholeOf
<1>2. /\ owner \in [Superpage -> Thread \cup {NULL, DEAD_OWNER}]
      /\ heap \in [Thread -> [Class -> HeapLists]]
      /\ \A p \in Pb : SpOf[p] \in Superpage
  BY <1>0, Fields DEF Shapes
<1>3. /\ owner' \in [Superpage -> Thread \cup {NULL, DEAD_OWNER}] /\ owner'[s] = t
      /\ \A p \in Pb : SpOf[p] = s => OwnerOf(p) = DEAD_OWNER /\ owner'[SpOf[p]] = t
      /\ \A p \in Pb : SpOf[p] # s => owner'[SpOf[p]] = OwnerOf(p)
  BY <1>1, <1>2 DEF OwnerOf
<1>4. ASSUME NEW c \in Class
      PROVE  /\ Adopted(heap[t][c], s, c) = [heap[t][c] EXCEPT !.pbh_list = L(c)]
             /\ L(c) \in Seq(Pb)
             /\ ToSet(L(c)) = mine(c) \cup ToSet(heap[t][c].pbh_list)
             /\ (Once(heap[t][c].pbh_list) /\ mine(c) \cap ToSet(heap[t][c].pbh_list) = {})
                => Once(L(c))
  <2> DEFINE h == heap[t][c]
             m == mine(c)
  <2>1. h.pbh_list \in Seq(Pb)
    BY <1>0, Fields
  <2>2. ToTake(m, h, s, c)
    BY <2>1 DEF ToTake
  <2> HIDE DEF h, m
  <2>3. /\ Adopted(h, s, c) = [h EXCEPT !.pbh_list = Adopted(h, s, c).pbh_list]
        /\ Adopted(h, s, c).pbh_list \in Seq(Pb)
        /\ ToSet(Adopted(h, s, c).pbh_list) = m \cup ToSet(h.pbh_list)
        /\ (Once(h.pbh_list) /\ m \cap ToSet(h.pbh_list) = {})
           => Once(Adopted(h, s, c).pbh_list)
    BY <2>2, AdoptedIs
  <2> QED BY <2>3 DEF h, m
<1> HIDE DEF L, mine
<1>5. ASSUME NEW c \in Class
      PROVE  /\ heap'[t][c] \in HeapLists /\ heap'[t][c].pbh_list = L(c)
             /\ SameList(heap'[t][c], heap[t][c])
  <2>1. heap'[t][c] = [heap[t][c] EXCEPT !.pbh_list = L(c)]
    BY <1>1, <1>2, <1>4
  <2>2. heap[t][c] \in HeapLists /\ L(c) \in Seq(Pb)
    BY <1>2, <1>4
  <2> QED BY <2>1, <2>2 DEF HeapLists, SameList
<1>6. /\ heap' \in [Thread -> [Class -> HeapLists]]
      /\ \A u \in Thread : u # t => heap'[u] = heap[u]
      /\ HeapsSame(heap, heap')
  <2> DEFINE f == [c \in Class |-> Adopted(heap[t][c], s, c)]
  <2>1. heap' = [heap EXCEPT ![t] = f]
    BY <1>1
  <2>2. f = heap'[t]
    BY <1>2, <2>1
  <2>3. f \in [Class -> HeapLists]
    <3>1. \A c \in Class : f[c] \in HeapLists
      BY <1>5, <2>2
    <3> QED BY <3>1
  <2> HIDE DEF f
  <2>4. heap' \in [Thread -> [Class -> HeapLists]] /\ \A u \in Thread : u # t => heap'[u] = heap[u]
    BY <1>2, <2>1, <2>3
  <2>5. \A u \in Thread, d \in Class : SameList(heap'[u][d], heap[u][d])
    <3> SUFFICES ASSUME NEW u \in Thread, NEW d \in Class
                 PROVE  SameList(heap'[u][d], heap[u][d])
      OBVIOUS
    <3>1. CASE u = t
      BY <1>5, <3>1
    <3>2. CASE u # t
      BY <2>4, <3>2 DEF SameList
    <3> QED BY <3>1, <3>2
  <2> QED BY <2>4, <2>5 DEF HeapsSame
<1>7. /\ pbh' \in [Pb -> Headers] /\ next' \in [Block -> Ptr]
      /\ \A p \in Pb : pbh'[p] = IF p \in W THEN FreePbh ELSE pbh[p]
      /\ \A p \in W : p \in Pb /\ SpOf[p] = s /\ pbh[p].sizeclass # 0
      /\ Placed(next', heap', pbh', Hands, rest, out, BlocksPerPbh)
  BY <1>0, <1>1, <1>6, WholeGoneIs
<1> HIDE DEF W
<1>8. \A p \in Pb : InUse(p) => OwnerOf(p) # NULL
  BY DEF IInv, PbhOK
<1>9. OthersIdle(t) => Returns(t, W)
  <2>1. ASSUME NEW p \in Pb, p \notin W
        PROVE  pbh'[p] = pbh[p] /\ (pbh[p].sizeclass # 0 => owner'[SpOf[p]] # NULL)
    BY <1>0, <1>3, <1>7, <1>8, <2>1 DEF InUse
  <2>2. ASSUME NEW p \in Pb, NEW u \in Thread, u # t
        PROVE  /\ owner'[SpOf[p]] = u <=> OwnerOf(p) = u
               /\ OwnerOf(p) = u => p \notin W
    BY <1>0, <1>3, <1>7, <2>2
  <2>3. \A p \in Pb : p \in W => pbh'[p] = FreePbh
    BY <1>7
  <2> QED BY <2>1, <2>2, <2>3 DEF Returns
<1>10. ASSUME NEW c \in Class PROVE PbhListOK(t, c)'
  <2> DEFINE l == heap[t][c].pbh_list
             k == heap'[t][c].pbh_list
  <2>0. PbhListOK(t, c) /\ c # 0
    BY <1>0 DEF Mine, Class
  <2>1. /\ ToSet(k) = mine(c) \cup ToSet(l)
        /\ (Once(l) /\ mine(c) \cap ToSet(l) = {}) => Once(k)
    BY <1>4, <1>5
  <2>2. \A p \in ToSet(l) : p \in Pb
    BY <1>0, Fields
  <2>3. \A p : p \in mine(c) <=> p \in Pb /\ SpOf[p] = s /\ pbh[p].sizeclass = c /\ p \notin W
    BY DEF mine, PbsOf, W, WholeOf
  <2>4. c >= cl[t] => /\ Once(k)
                      /\ \A p \in ToSet(k) : owner'[SpOf[p]] = t /\ pbh'[p].sizeclass = c
    <3> SUFFICES ASSUME c >= cl[t]
                 PROVE  /\ Once(k)
                        /\ \A p \in ToSet(k) : owner'[SpOf[p]] = t /\ pbh'[p].sizeclass = c
      OBVIOUS
    <3>1. Once(l) /\ \A p \in ToSet(l) : OwnerOf(p) = t /\ pbh[p].sizeclass = c
      BY <2>0 DEF PbhListOK
    <3>2. \A p \in ToSet(l) : SpOf[p] # s /\ p \notin W
      BY <1>0, <1>3, <1>7, <2>2, <3>1
    <3>3. mine(c) \cap ToSet(l) = {}
      BY <2>3, <3>2
    <3>4. \A p \in ToSet(l) : owner'[SpOf[p]] = t /\ pbh'[p].sizeclass = c
      BY <1>3, <1>7, <2>2, <3>1, <3>2
    <3>5. \A p \in mine(c) : owner'[SpOf[p]] = t /\ pbh'[p].sizeclass = c
      BY <1>3, <1>7, <2>3
    <3> HIDE DEF l, k
    <3> QED BY <2>1, <3>1, <3>3, <3>4, <3>5
  <2>5. c > cl[t] => \A p \in Pb : owner'[SpOf[p]] = t /\ pbh'[p].sizeclass = c => p \in ToSet(k)
    <3> SUFFICES ASSUME c > cl[t], NEW p \in Pb, owner'[SpOf[p]] = t, pbh'[p].sizeclass = c
                 PROVE  p \in ToSet(k)
      OBVIOUS
    <3>1. p \notin W /\ pbh[p].sizeclass = c
      BY <1>7, <2>0 DEF FreePbh
    <3>2. CASE SpOf[p] = s
      BY <2>1, <2>3, <3>1, <3>2
    <3>3. CASE SpOf[p] # s
      <4>1. OwnerOf(p) = t
        BY <1>3, <3>3
      <4>2. p \in ToSet(l)
        BY <2>0, <3>1, <4>1 DEF PbhListOK
      <4> QED BY <2>1, <4>2
    <3> QED BY <3>2, <3>3
  <2> QED BY <2>4, <2>5 DEF PbhListOK, OwnerOf
<1>11. ASSUME NEW c \in Class PROVE ChunkOK(t, c)'
  <2> DEFINE q == heap[t][c].ptr_to_unused[1]
  <2>1. /\ ChunkOK(t, c)
        /\ heap'[t][c].ptr_to_unused = heap[t][c].ptr_to_unused
        /\ heap'[t][c].cnt_unused = heap[t][c].cnt_unused
    BY <1>0, <1>5 DEF Mine, SameList
  <2>2. heap[t][c].cnt_unused # 0 => q \in Pb /\ OwnerOf(q) = t /\ pbh[q].cnt_unused = 0
    BY <1>0, <2>1, UnusedIn, Blocks DEF ChunkOK
  <2>3. heap[t][c].cnt_unused # 0 => owner'[SpOf[q]] = t /\ pbh'[q].cnt_unused = 0
    BY <1>0, <1>3, <1>7, <2>2
  <2> QED BY <2>1, <2>3 DEF ChunkOK, OwnerOf
<1> QED BY <1>3, <1>5, <1>6, <1>7, <1>9, <1>10, <1>11 DEF W

\* The types of what a thread has besides its heap.
Locals ==
  /\ pc \in [Thread -> {"idle", "check", "link", "cas", "recheck", "local",
                        "list", "exit"}]
  /\ run \in [Thread -> [first : Ptr, last : Ptr, num : Int,
                         caller : {"none", "small_free", "tlh_return_list"}]]
  /\ top \in [Thread -> [head : Nat, cnt : 0 .. MaxBlocks]]
  /\ cl \in [Thread -> 0 .. NUM_CLASSES]
  /\ rest \in [Thread -> Ptr]

LEMMA HandlessMove ==
  ASSUME NEW nx, NEW hp, NEW hd, NEW R, NEW S, NEW o, NEW bp,
         Placed(nx, hp, hd, R, S, o, bp), NEW t \in Thread, R[t].num = 0,
         NEW R2, Handless(t, R, R2)
  PROVE  Placed(nx, hp, hd, R2, S, o, bp)
<1>1. PICK w, r : Placing(w, r, nx, hp, hd, R, S, o, bp)
  BY DEF Placed
<1>2. /\ w \in [Block -> Spot] /\ r \in [Block -> Nat]
      /\ \A u \in Thread, d \in Class : HeapOK(nx, w, r, u, d, hp[u][d])
      /\ \A p \in Pb : HdrOK(nx, w, r, p, hd[p])
      /\ \A u \in Thread : RestOK(nx, w, r, u, S[u]) /\ HandOK(nx, w, r, u, R[u])
      /\ \A b \in Block : Sited(w, hd, R, o, bp, b)
  BY <1>1 DEF Placing
<1>3. R2[t].num = 0 /\ \A u \in Thread : u # t => R2[u] = R[u]
  BY DEF Handless
<1>4. \A b \in Block : w[b] # RunAt(t)
  BY <1>2 DEF HandOK
<1>5. \A u \in Thread : HandOK(nx, w, r, u, R2[u])
  <2>1. HandOK(nx, w, r, t, R2[t])
    BY <1>3, <1>4 DEF HandOK
  <2>2. \A u \in Thread : u # t => HandOK(nx, w, r, u, R2[u])
    BY <1>2, <1>3
  <2> QED BY <2>1, <2>2
<1>6. \A b \in Block : Sited(w, hd, R2, o, bp, b)
  <2>1. \A b \in Block, u \in Thread : w[b] = RunAt(u) => R2[u].first[1] = R[u].first[1]
    BY <1>3, <1>4
  <2> QED BY <1>2, <2>1, SitedKept
<1> QED BY <1>2, <1>5, <1>6 DEF Placed, Placing

\* A thread that is not about to compare and swap has written no link.
LEMMA HandsSame ==
  ASSUME NEW t \in Thread, OthersIdle(t), run'[t] = run[t], pc[t] # "cas", pc'[t] # "cas"
  PROVE  Hands' = Hands
<1>1. Hand(t)' = Hand(t)
  BY DEF Hand
<1>2. \A u \in Thread : Hand(u)' = Hand(u)
  <2>1. \A u \in Thread : u # t => Hand(u)' = Hand(u)
    BY HandKept DEF OthersIdle
  <2> QED BY <1>1, <2>1
<1>3. Hands' = [u \in Thread |-> Hand(u)']
  BY DEF Hands
<1> QED BY <1>2, <1>3 DEF Hands

LEMMA HandlessIs ==
  ASSUME NEW t \in Thread, OthersIdle(t), run'[t].num = 0
  PROVE  Handless(t, Hands, Hands')
<1>1. /\ \A u \in Thread : u # t => Hands'[u] = Hands[u]
      /\ Hands'[t].num = 0
  BY HandsBut DEF HandAs
<1> QED BY <1>1 DEF Handless

LEMMA AdoptedStep ==
  ASSUME IInv, SpOf' = SpOf, NEW t \in Thread, NEW s \in Superpage,
         owner[s] = DEAD_OWNER, TakeSuperpage(t, s), cl' = cl, rest' = rest, out' = out,
         OthersIdle(t), Locals', PhaseOK(t)',
         \/ Hands' = Hands
         \/ Hands[t].num = 0 /\ Handless(t, Hands, Hands')
  PROVE  IInv'
<1>0. Shapes /\ Here /\ Mine(t)
  BY DEF IInv
<1>1. /\ owner' \in [Superpage -> Thread \cup {NULL, DEAD_OWNER}]
      /\ pbh' \in [Pb -> Headers] /\ next' \in [Block -> Ptr]
      /\ heap' \in [Thread -> [Class -> HeapLists]]
      /\ \A c \in Class : SameList(heap'[t][c], heap[t][c])
      /\ Placed(next', heap', pbh', Hands, rest, out, BlocksPerPbh)
      /\ Returns(t, WholeOf(s))
      /\ \A c \in Class : PbhListOK(t, c)' /\ ChunkOK(t, c)'
  BY AdoptedKept
<1>2. Shapes'
  BY <1>0, <1>1 DEF Shapes, Locals
<1>3. Here'
  <2> DEFINE nx == next'
             hp == heap'
             hd == pbh'
             R == Hands'
  <2>1. Placed(nx, hp, hd, Hands, rest, out, BlocksPerPbh)
    BY <1>1
  <2>2. R = Hands \/ (Hands[t].num = 0 /\ Handless(t, Hands, R))
    OBVIOUS
  <2> HIDE DEF nx, hp, hd, R
  <2>3. R = Hands => Placed(nx, hp, hd, R, rest, out, BlocksPerPbh)
    BY <2>1
  <2>4. Hands[t].num = 0 /\ Handless(t, Hands, R) =>
          Placed(nx, hp, hd, R, rest, out, BlocksPerPbh)
    BY <2>1, HandlessMove
  <2>5. Placed(nx, hp, hd, R, rest, out, BlocksPerPbh)
    BY <2>2, <2>3, <2>4
  <2> QED BY <2>5, HereNext DEF nx, hp, hd, R
<1>4. DoneOK(t)'
  BY <1>0, <1>1 DEF Mine, DoneOK, SameList
<1>5. Mine(t)'
  BY <1>1, <1>4 DEF Mine
<1> QED BY <1>1, <1>2, <1>3, <1>5, ReturnsKept

LEMMA CheckDeadStep ==
  ASSUME IInv, SpOf' = SpOf, NEW t \in Thread, CheckDead(t)
  PROVE  IInv'
<1> DEFINE p == run[t].first[1]
           s == SpOf[p]
<1>0. Shapes /\ Here /\ Mine(t) /\ PhaseOK(t) /\ Locals
  BY DEF IInv, Mine, Shapes, Locals
<1>1. /\ pc[t] = "check" /\ run' = run /\ top' = top /\ cl' = cl /\ rest' = rest
      /\ out' = out
      /\ \/ /\ owner[s] = DEAD_OWNER /\ TakeSuperpage(t, s)
            /\ pc' = [pc EXCEPT ![t] = "local"]
         \/ /\ pc' = [pc EXCEPT ![t] = "link"]
            /\ owner' = owner /\ pbh' = pbh /\ next' = next /\ heap' = heap
  BY DEF CheckDead
<1>2. p \in Pb /\ s \in Superpage
  <2>1. run[t].num # 0
    BY <1>0, <1>1 DEF PhaseOK, InHand
  <2>2. p \in Pb
    BY <1>0, <2>1, HandIs
  <2> QED BY <1>0, <2>2, Fields
<1>3. /\ Locals' /\ pc'[t] \in {"local", "link"} /\ run'[t] = run[t]
      /\ \A u \in Thread : u # t => pc'[u] = pc[u]
  BY <1>0, <1>1 DEF Locals, MaxBlocks
<1>4. CASE owner[s] = DEAD_OWNER /\ TakeSuperpage(t, s)
  <2>1. OthersIdle(t)
    <3>1. \A u \in Thread : u # t => heap'[u] = heap[u]
      BY <1>1, <1>2, <1>4, AdoptedKept
    <3> QED BY <1>1, <1>3, <3>1 DEF OthersIdle
  <2>2. Hands' = Hands
    BY <1>1, <1>3, <2>1, HandsSame
  <2>3. owner'[s] = t
    BY <1>1, <1>2, <1>4, AdoptedKept
  <2>4. PhaseOK(t)'
    BY <1>0, <1>1, <1>3, <2>3 DEF PhaseOK, InHand, OwnerOf
  <2> QED BY <1>1, <1>2, <1>3, <1>4, <2>1, <2>2, <2>4, AdoptedStep
<1>5. CASE /\ pc' = [pc EXCEPT ![t] = "link"]
           /\ owner' = owner /\ pbh' = pbh /\ next' = next /\ heap' = heap
  <2>1. OthersIdle(t)
    BY <1>1, <1>3, <1>5 DEF OthersIdle
  <2>2. Hands' = Hands
    BY <1>1, <1>3, <2>1, HandsSame
  <2>3. Calm(t)
    <3>1. cl'[t] >= cl[t]
      BY <1>0, <1>1 DEF Shapes
    <3>2. \A c \in Class : ListFits(t, c, {})
      BY <1>5, SameFits
    <3> QED BY <1>5, <2>1, <3>1, <3>2 DEF Calm
  <2>4. Shapes'
    BY <1>0, <1>1, <1>3, <1>5 DEF Shapes, Locals
  <2>5. Here'
    BY <1>0, <1>1, <1>5, <2>2, HereNext DEF Here
  <2>6. PhaseOK(t)'
    <3>1. pc'[t] = "link"
      BY <1>0, <1>5 DEF Locals
    <3> QED BY <1>0, <1>1, <1>3, <3>1 DEF PhaseOK, InHand
  <2>7. DoneOK(t)'
    BY <1>0, <1>1, <1>5 DEF Mine, DoneOK
  <2> QED BY <2>3, <2>4, <2>5, <2>6, <2>7, CalmKept
<1> QED BY <1>1, <1>4, <1>5

\* A thread is back in small_free, or in the loop of tlh_return_list.
LEMMA BackIs ==
  ASSUME Locals, NEW t \in Thread, Back(t), cl' = cl,
         rest' \in [Thread -> Ptr]
  PROVE  /\ PhaseOK(t)'
         /\ run'[t].num = 0 /\ pc'[t] \in {"list", "exit", "idle"}
         /\ run' \in [Thread -> [first : Ptr, last : Ptr, num : Int,
                                 caller : {"none", "small_free", "tlh_return_list"}]]
         /\ pc' \in [Thread -> {"idle", "check", "link", "cas", "recheck", "local",
                                "list", "exit"}]
         /\ \A u \in Thread : u # t => run'[u] = run[u] /\ pc'[u] = pc[u]
<1>1. /\ pc \in [Thread -> {"idle", "check", "link", "cas", "recheck", "local",
                            "list", "exit"}]
      /\ run \in [Thread -> [first : Ptr, last : Ptr, num : Int,
                             caller : {"none", "small_free", "tlh_return_list"}]]
  BY DEF Locals
<1>2. NoRun \in [first : Ptr, last : Ptr, num : Int,
                 caller : {"none", "small_free", "tlh_return_list"}]
  BY DEF NoRun, Ptr
<1>3. /\ run' = [run EXCEPT ![t] = NoRun]
      /\ pc' = [pc EXCEPT ![t] = IF rest'[t] # NULL THEN "list"
                                 ELSE IF cl[t] # 0 THEN "exit" ELSE "idle"]
  BY DEF Back
<1>4. /\ run'[t] = NoRun
      /\ pc'[t] = IF rest'[t] # NULL THEN "list" ELSE IF cl[t] # 0 THEN "exit" ELSE "idle"
  BY <1>1, <1>3
<1>5. PhaseOK(t)'
  BY <1>4 DEF PhaseOK, InHand, NoRun
<1> QED BY <1>1, <1>2, <1>3, <1>4, <1>5 DEF NoRun

LEMMA CheckDeadAgainStep ==
  ASSUME IInv, SpOf' = SpOf, NEW t \in Thread, CheckDeadAgain(t)
  PROVE  IInv'
<1> DEFINE p == run[t].first[1]
           s == SpOf[p]
<1>0. Shapes /\ Here /\ Mine(t) /\ PhaseOK(t) /\ Locals
  BY DEF IInv, Mine, Shapes, Locals
<1>1. /\ pc[t] = "recheck" /\ top' = top /\ cl' = cl /\ rest' = rest /\ out' = out
      /\ Back(t)
      /\ \/ owner[s] = DEAD_OWNER /\ TakeSuperpage(t, s)
         \/ owner' = owner /\ pbh' = pbh /\ next' = next /\ heap' = heap
  BY DEF CheckDeadAgain
<1>2. /\ p \in Pb /\ s \in Superpage /\ Hands[t].num = 0
  <2>1. run[t].first \in Block /\ run[t].num = 0
    BY <1>0, <1>1 DEF PhaseOK, InHand
  <2>2. p \in Pb
    BY <2>1, Blocks
  <2>3. Hands[t].num = run[t].num
    BY DEF Hands, Hand
  <2> QED BY <1>0, <2>1, <2>2, <2>3, Fields
<1>3. /\ PhaseOK(t)' /\ run'[t].num = 0
      /\ Locals' /\ \A u \in Thread : u # t => pc'[u] = pc[u] /\ run'[u] = run[u]
  <2>1. rest' \in [Thread -> Ptr]
    BY <1>0, <1>1 DEF Locals
  <2> QED BY <1>0, <1>1, <2>1, BackIs DEF Locals, MaxBlocks
<1>4. CASE owner[s] = DEAD_OWNER /\ TakeSuperpage(t, s)
  <2>1. OthersIdle(t)
    <3>1. \A u \in Thread : u # t => heap'[u] = heap[u]
      BY <1>1, <1>2, <1>4, AdoptedKept
    <3> QED BY <1>1, <1>3, <3>1 DEF OthersIdle
  <2>2. Handless(t, Hands, Hands')
    BY <1>3, <2>1, HandlessIs
  <2> QED BY <1>1, <1>2, <1>3, <1>4, <2>1, <2>2, AdoptedStep
<1>5. CASE owner' = owner /\ pbh' = pbh /\ next' = next /\ heap' = heap
  <2>1. OthersIdle(t)
    BY <1>1, <1>3, <1>5 DEF OthersIdle
  <2>2. Handless(t, Hands, Hands')
    BY <1>3, <2>1, HandlessIs
  <2>3. Calm(t)
    <3>1. cl'[t] >= cl[t]
      BY <1>0, <1>1 DEF Shapes
    <3>2. \A c \in Class : ListFits(t, c, {})
      BY <1>5, SameFits
    <3> QED BY <1>5, <2>1, <3>1, <3>2 DEF Calm
  <2>4. Shapes'
    BY <1>0, <1>1, <1>3, <1>5 DEF Shapes, Locals
  <2>5. Here'
    <3> DEFINE R == Hands'
    <3>1. Handless(t, Hands, R)
      BY <2>2
    <3>2. Placed(next, heap, pbh, Hands, rest, out, BlocksPerPbh)
      BY <1>0 DEF Here
    <3> HIDE DEF R
    <3>3. Placed(next, heap, pbh, R, rest, out, BlocksPerPbh)
      BY <1>2, <3>1, <3>2, HandlessMove
    <3> QED BY <1>1, <1>5, <3>3, HereNext DEF R
  <2>6. DoneOK(t)'
    BY <1>0, <1>1, <1>5 DEF Mine, DoneOK
  <2> QED BY <1>3, <2>3, <2>4, <2>5, <2>6, CalmKept
<1> QED BY <1>1, <1>4, <1>5

(***************************************************************************)
(* tlh_clear                                                               *)
(***************************************************************************)

LEMMA ExitStep ==
  ASSUME IInv, SpOf' = SpOf, NEW t \in Thread, Exit(t)
  PROVE  IInv'
<1>0. Shapes /\ Here /\ Mine(t) /\ PhaseOK(t) /\ Locals /\ NUM_CLASSES \in Nat \ {0}
  BY ConstantsAssumption DEF IInv, Mine, Shapes, Locals
<1>1. /\ pc[t] = "idle" /\ pc' = [pc EXCEPT ![t] = "exit"] /\ cl' = [cl EXCEPT ![t] = 1]
      /\ owner' = owner /\ pbh' = pbh /\ next' = next /\ heap' = heap
      /\ run' = run /\ top' = top /\ rest' = rest /\ out' = out
  BY DEF Exit
<1>2. Locals' /\ pc'[t] = "exit" /\ cl'[t] = 1
  BY <1>0, <1>1 DEF Locals, MaxBlocks
<1>3. OthersIdle(t)
  BY <1>0, <1>1 DEF OthersIdle, Locals
<1>4. Hands' = Hands
  BY <1>1, <1>2, <1>3, HandsSame
<1>5. Calm(t)
  <2>1. cl'[t] >= cl[t]
    BY <1>0, <1>1, <1>2 DEF PhaseOK
  <2>2. \A c \in Class : ListFits(t, c, {})
    BY <1>1, SameFits
  <2> QED BY <1>1, <1>3, <2>1, <2>2 DEF Calm
<1>6. Shapes'
  BY <1>0, <1>1, <1>2 DEF Shapes, Locals
<1>7. Here'
  BY <1>0, <1>1, <1>4, HereNext DEF Here
<1>8. PhaseOK(t)'
  BY <1>0, <1>1, <1>2 DEF PhaseOK, InHand
<1>9. DoneOK(t)'
  <2>1. \A c \in Class : ~(c < 1)
    BY DEF Class
  <2> QED BY <1>2, <2>1 DEF DoneOK
<1> QED BY <1>5, <1>6, <1>7, <1>8, <1>9, CalmKept

\* The loop comes to class c.
LEMMA ClearingIs ==
  ASSUME Shapes, NEW t \in Thread, DoneOK(t), NEW c \in Class, Clearing(t, c)
  PROVE  /\ pc[t] = "exit" /\ cl' \in [Thread -> 0 .. NUM_CLASSES]
         /\ cl'[t] = c /\ c # 0 /\ cl'[t] >= cl[t]
         /\ \A u \in Thread : u # t => cl'[u] = cl[u]
         /\ run' = run /\ top' = top /\ out' = out
         /\ \A d \in Class : d < c => /\ d # c /\ heap[t][d].free_blk_list = NULL
                                      /\ heap[t][d].ptr_to_unused = NULL
<1>1. /\ pc[t] = "exit" /\ c >= cl[t] /\ cl' = [cl EXCEPT ![t] = c]
      /\ \A d \in cl[t] .. c - 1 : ~Left(t, d)
      /\ run' = run /\ top' = top /\ out' = out
  BY DEF Clearing
<1>2. cl \in [Thread -> 0 .. NUM_CLASSES] /\ c \in 1 .. NUM_CLASSES /\ NUM_CLASSES \in Nat
  BY ConstantsAssumption DEF Shapes, Class
<1>3. c \in Nat /\ c # 0 /\ c \in 0 .. NUM_CLASSES /\ cl[t] \in Nat
  BY <1>2
<1>4. /\ cl' \in [Thread -> 0 .. NUM_CLASSES] /\ cl'[t] = c
      /\ \A u \in Thread : u # t => cl'[u] = cl[u]
  BY <1>1, <1>2, <1>3
<1>5. ASSUME NEW d \in Class, d < c
      PROVE  d # c /\ heap[t][d].free_blk_list = NULL /\ heap[t][d].ptr_to_unused = NULL
  <2>1. d \in Nat /\ d # c
    BY <1>3, <1>5 DEF Class
  <2>2. CASE d < cl[t]
    BY <2>1, <2>2 DEF DoneOK
  <2>3. CASE ~(d < cl[t])
    <3>1. d \in cl[t] .. c - 1
      BY <1>3, <1>5, <2>1, <2>3
    <3> QED BY <1>1, <2>1, <3>1 DEF Left
  <2> QED BY <2>2, <2>3
<1> QED BY <1>1, <1>3, <1>4, <1>5

\* ... and nothing but the lists of that class changes, and in the heap of t.
LEMMA ClearingDone ==
  ASSUME Shapes, NEW t \in Thread, DoneOK(t), NEW c \in Class, Clearing(t, c),
         \A d \in Class : d # c => heap'[t][d] = heap[t][d]
  PROVE  DoneOK(t)'
<1>1. cl'[t] = c
  BY ClearingIs
<1>2. \A d \in Class : d < c => /\ heap'[t][d].free_blk_list = NULL
                                /\ heap'[t][d].ptr_to_unused = NULL
  BY ClearingIs
<1> QED BY <1>1, <1>2 DEF DoneOK

LEMMA ExitListStep ==
  ASSUME IInv, SpOf' = SpOf, NEW t \in Thread, NEW c \in Class, ExitList(t, c)
  PROVE  IInv'
<1> DEFINE f == heap[t][c].free_blk_list
<1>0. Shapes /\ Here /\ Mine(t) /\ PhaseOK(t) /\ DoneOK(t) /\ Locals
  BY DEF IInv, Mine, Shapes, Locals
<1>1. /\ Clearing(t, c) /\ f # NULL
      /\ rest' = [rest EXCEPT ![t] = f] /\ pc' = [pc EXCEPT ![t] = "list"]
      /\ heap' = [heap EXCEPT ![t][c].free_blk_list = NULL, ![t][c].cnt_free = 0]
      /\ owner' = owner /\ pbh' = pbh /\ next' = next
  BY DEF ExitList
<1>2. /\ pc[t] = "exit" /\ cl' \in [Thread -> 0 .. NUM_CLASSES]
      /\ cl'[t] = c /\ c # 0 /\ cl'[t] >= cl[t]
      /\ \A u \in Thread : u # t => cl'[u] = cl[u]
      /\ run' = run /\ top' = top /\ out' = out
  BY <1>0, <1>1, ClearingIs
<1>3. /\ heap' \in [Thread -> [Class -> HeapLists]]
      /\ heap'[t][c].free_blk_list = NULL /\ heap'[t][c].cnt_free = 0
      /\ heap'[t][c].ptr_to_unused = heap[t][c].ptr_to_unused
      /\ heap'[t][c].cnt_unused = heap[t][c].cnt_unused
      /\ heap'[t][c].pbh_list = heap[t][c].pbh_list
      /\ \A u \in Thread, d \in Class : u # t \/ d # c => heap'[u][d] = heap[u][d]
      /\ \A u \in Thread : u # t => heap'[u] = heap[u]
  <2>1. FreeListSetTo(t, c, NULL, 0, heap, heap')
    BY <1>1 DEF FreeListSetTo
  <2>2. heap \in [Thread -> [Class -> HeapLists]] /\ NULL \in Ptr /\ 0 \in Int
    BY <1>0 DEF Shapes, Ptr
  <2> DEFINE hp == heap'
             n == 0
  <2>3. FreeListSetTo(t, c, NULL, n, heap, hp) /\ n \in Int
    BY <2>1
  <2> HIDE DEF hp, n
  <2>4. /\ hp \in [Thread -> [Class -> HeapLists]]
        /\ hp[t][c].free_blk_list = NULL /\ hp[t][c].cnt_free = n
        /\ hp[t][c].ptr_to_unused = heap[t][c].ptr_to_unused
        /\ hp[t][c].cnt_unused = heap[t][c].cnt_unused
        /\ hp[t][c].pbh_list = heap[t][c].pbh_list
        /\ \A u \in Thread, d \in Class : u # t \/ d # c => hp[u][d] = heap[u][d]
        /\ \A u \in Thread : u # t => hp[u] = heap[u]
    BY <2>2, <2>3, FreeListSet
  <2> QED BY <2>4 DEF hp, n
<1>4. f \in Ptr
  BY <1>0, Fields
<1>5. Locals' /\ pc'[t] = "list" /\ rest'[t] = f
  BY <1>0, <1>1, <1>2, <1>4 DEF Locals, MaxBlocks
<1>6. OthersIdle(t)
  BY <1>0, <1>1, <1>2, <1>3 DEF OthersIdle, Locals
<1>7. Hands' = Hands
  BY <1>2, <1>5, <1>6, HandsSame
<1>8. Calm(t)
  <2>1. ASSUME NEW d \in Class
        PROVE  /\ heap'[t][d].ptr_to_unused = heap[t][d].ptr_to_unused
               /\ heap'[t][d].cnt_unused = heap[t][d].cnt_unused
               /\ heap'[t][d].pbh_list = heap[t][d].pbh_list
    <3>1. CASE d = c
      BY <1>3, <3>1
    <3>2. CASE d # c
      BY <1>3, <3>2
    <3> QED BY <3>1, <3>2
  <2>2. \A d \in Class : ListFits(t, d, {})
    BY <2>1, SameFits
  <2> QED BY <1>1, <1>2, <1>6, <2>1, <2>2 DEF Calm
<1>9. Shapes'
  BY <1>0, <1>1, <1>2, <1>3, <1>5 DEF Shapes, Locals
<1>10. Here'
  <2> DEFINE hp == heap'
             S == rest'
  <2>1. ListToRest(heap, rest, t, c, hp, S)
    <3>1. rest[t] = NULL
      BY <1>0, <1>2 DEF PhaseOK
    <3>2. HeapsBut(t, c, heap, hp)
      BY <1>3 DEF HeapsBut, SameList
    <3>3. ButOf(t, rest, S)
      BY <1>0, <1>1 DEF ButOf, Locals
    <3> QED BY <1>3, <1>5, <3>1, <3>2, <3>3 DEF ListToRest
  <2>2. Placed(next, heap, pbh, Hands, rest, out, BlocksPerPbh)
    BY <1>0 DEF Here
  <2> HIDE DEF hp, S
  <2>3. Placed(next, hp, pbh, Hands, S, out, BlocksPerPbh)
    BY <2>1, <2>2, ListToRestMove
  <2> QED BY <1>1, <1>2, <1>7, <2>3, HereNext DEF hp, S
<1>11. PhaseOK(t)'
  BY <1>0, <1>1, <1>2, <1>5 DEF PhaseOK, InHand
<1>12. DoneOK(t)'
  BY <1>0, <1>1, <1>3, ClearingDone
<1> QED BY <1>8, <1>9, <1>10, <1>11, <1>12, CalmKept

LEMMA SameHeapsMove ==
  ASSUME NEW nx, NEW hp, NEW hd, NEW R, NEW S, NEW o, NEW bp,
         Placed(nx, hp, hd, R, S, o, bp), NEW hp2, HeapsSame(hp, hp2)
  PROVE  Placed(nx, hp2, hd, R, S, o, bp)
<1>1. PICK w, r : Placing(w, r, nx, hp, hd, R, S, o, bp)
  BY DEF Placed
<1>2. \A u \in Thread, d \in Class : HeapOK(nx, w, r, u, d, hp2[u][d])
  BY <1>1 DEF Placing, HeapOK, HeapsSame, SameList
<1> QED BY <1>1, <1>2 DEF Placed, Placing

PbhListSetTo(t, c, l, hp, hp2) == hp2 = [hp EXCEPT ![t][c].pbh_list = l]

LEMMA PbhListSet ==
  ASSUME NEW hp \in [Thread -> [Class -> HeapLists]], NEW t \in Thread, NEW c \in Class,
         NEW l \in Seq(Pb), NEW hp2, PbhListSetTo(t, c, l, hp, hp2)
  PROVE  /\ hp2 \in [Thread -> [Class -> HeapLists]]
         /\ hp2[t][c].free_blk_list = hp[t][c].free_blk_list
         /\ hp2[t][c].cnt_free = hp[t][c].cnt_free
         /\ hp2[t][c].ptr_to_unused = hp[t][c].ptr_to_unused
         /\ hp2[t][c].cnt_unused = hp[t][c].cnt_unused
         /\ hp2[t][c].pbh_list = l
         /\ \A u \in Thread, d \in Class : u # t \/ d # c => hp2[u][d] = hp[u][d]
         /\ \A u \in Thread : u # t => hp2[u] = hp[u]
<1> DEFINE h2 == [hp[t][c] EXCEPT !.pbh_list = l]
<1>1. HeapSetTo(t, c, h2, hp, hp2) /\ hp[t][c] \in HeapLists
  BY DEF HeapLists, HeapSetTo, PbhListSetTo
<1>2. /\ h2.free_blk_list = hp[t][c].free_blk_list /\ h2.cnt_free = hp[t][c].cnt_free
      /\ h2.ptr_to_unused = hp[t][c].ptr_to_unused
      /\ h2.cnt_unused = hp[t][c].cnt_unused /\ h2.pbh_list = l
      /\ DOMAIN h2 = DOMAIN hp[t][c] /\ h2 = [x \in DOMAIN h2 |-> h2[x]]
  BY <1>1 DEF HeapLists
<1> HIDE DEF h2
<1>3. h2 \in HeapLists
  BY <1>1, <1>2 DEF HeapLists
<1>4. /\ hp2 \in [Thread -> [Class -> HeapLists]] /\ hp2[t][c] = h2
      /\ \A u \in Thread, d \in Class : u # t \/ d # c => hp2[u][d] = hp[u][d]
      /\ \A u \in Thread : u # t => hp2[u] = hp[u]
  BY <1>1, <1>3 DEF HeapSetTo
<1> QED BY <1>2, <1>4

\* Page block p is freed with what is in its header.
LEMMA PbFreeMove ==
  ASSUME Shapes, Here, NEW p \in Pb, IsWhole(pbh[p]), PbFree(p),
         NEW t \in Thread, HeapsSame(heap, heap')
  PROVE  Placed(next', heap', pbh', Hands, rest, out, BlocksPerPbh)
<1>1. /\ SpOf \in Layouts /\ \A b \in Block : next'[b] = IF b[1] = p THEN NULL ELSE next[b]
      /\ pbh'[p] = FreePbh /\ \A q \in Pb : q # p => pbh'[q] = pbh[q]
      /\ pbh[p].sizeclass \in Class /\ 1 \in Class
  BY PbFreeOwner, Fields, Layout DEF IsWhole
<1>2. Fit(BlocksPerPbh)
  BY <1>1, Layout DEF Fit
<1>3. AllWhole({p}, pbh, BlocksPerPbh) /\ {p} \subseteq Pb
  BY <1>1 DEF AllWhole, IsWhole
<1> DEFINE nx == next'
           hd == pbh'
           hp == heap'
           W == {p}
<1>4. Freed(W, next, pbh, nx, hd)
  BY <1>1 DEF Freed
<1>5. FreesWhole(next, heap, pbh, BlocksPerPbh, W, nx, hd, hp)
  BY <1>2, <1>3, <1>4 DEF FreesWhole
<1>6. Placed(next, heap, pbh, Hands, rest, out, BlocksPerPbh)
  BY DEF Here
<1> HIDE DEF nx, hd, hp, W
<1>7. Placed(nx, hp, hd, Hands, rest, out, BlocksPerPbh)
  BY <1>1, <1>5, <1>6, WholeFreed
<1> QED BY <1>7 DEF nx, hd, hp

LEMMA ExitPbhStep ==
  ASSUME IInv, SpOf' = SpOf, NEW t \in Thread, NEW c \in Class, ExitPbh(t, c)
  PROVE  IInv'
<1> DEFINE l == heap[t][c].pbh_list
           p == Head(l)
           k == Tail(l)
<1>0. Shapes /\ Here /\ Mine(t) /\ PhaseOK(t) /\ DoneOK(t) /\ Locals
  BY DEF IInv, Mine, Shapes, Locals
<1>1. /\ Clearing(t, c) /\ heap[t][c].free_blk_list = NULL /\ heap[t][c].ptr_to_unused = NULL
      /\ PbhListSetTo(t, c, k, heap, heap')
      /\ pc' = pc /\ rest' = rest
      /\ \/ IsWhole(pbh[p]) /\ PbFree(p)
         \/ owner' = owner /\ pbh' = pbh /\ next' = next
  BY DEF ExitPbh, PbhListSetTo
<1>2. /\ pc[t] = "exit" /\ cl' \in [Thread -> 0 .. NUM_CLASSES]
      /\ cl'[t] = c /\ c # 0 /\ cl'[t] >= cl[t]
      /\ \A u \in Thread : u # t => cl'[u] = cl[u]
      /\ run' = run /\ top' = top /\ out' = out
  BY <1>0, <1>1, ClearingIs
<1>3. l \in Seq(Pb) /\ l # << >>
  BY <1>0, <1>1, Fields DEF Clearing, Left
<1>4. /\ PbhListOK(t, c) /\ c >= cl[t] /\ ~(c > c) /\ c \in Int
  <2>1. c \in Int
    BY DEF Class
  <2> QED BY <1>0, <1>2, <2>1 DEF Mine
<1>5. Once(l) /\ \A q \in ToSet(l) : OwnerOf(q) = t /\ pbh[q].sizeclass = c
  BY <1>4 DEF PbhListOK
<1> HIDE DEF l
<1>6. /\ p \in Pb /\ k \in Seq(Pb) /\ p \in ToSet(l) /\ Once(k)
      /\ \A q \in ToSet(k) : q \in ToSet(l) /\ q # p
  BY <1>3, <1>5, TailIs
<1>7. OwnerOf(p) = t /\ pbh[p].sizeclass = c
  BY <1>5, <1>6
<1> HIDE DEF p, k
<1>8. /\ heap' \in [Thread -> [Class -> HeapLists]]
      /\ heap'[t][c].free_blk_list = heap[t][c].free_blk_list
      /\ heap'[t][c].cnt_free = heap[t][c].cnt_free
      /\ heap'[t][c].ptr_to_unused = heap[t][c].ptr_to_unused
      /\ heap'[t][c].cnt_unused = heap[t][c].cnt_unused
      /\ heap'[t][c].pbh_list = k
      /\ \A u \in Thread, d \in Class : u # t \/ d # c => heap'[u][d] = heap[u][d]
      /\ \A u \in Thread : u # t => heap'[u] = heap[u]
  <2> DEFINE hp == heap'
  <2>1. PbhListSetTo(t, c, k, heap, hp) /\ heap \in [Thread -> [Class -> HeapLists]]
    BY <1>0, <1>1 DEF Shapes
  <2> HIDE DEF hp
  <2>2. /\ hp \in [Thread -> [Class -> HeapLists]]
        /\ hp[t][c].free_blk_list = heap[t][c].free_blk_list
        /\ hp[t][c].cnt_free = heap[t][c].cnt_free
        /\ hp[t][c].ptr_to_unused = heap[t][c].ptr_to_unused
        /\ hp[t][c].cnt_unused = heap[t][c].cnt_unused
        /\ hp[t][c].pbh_list = k
        /\ \A u \in Thread, d \in Class : u # t \/ d # c => hp[u][d] = heap[u][d]
        /\ \A u \in Thread : u # t => hp[u] = heap[u]
    BY <1>6, <2>1, PbhListSet
  <2> QED BY <2>2 DEF hp
<1>9. OthersIdle(t)
  BY <1>1, <1>2, <1>8 DEF OthersIdle
<1>10. HeapsSame(heap, heap')
  <2>1. \A u \in Thread, d \in Class : u # t \/ d # c => SameList(heap'[u][d], heap[u][d])
    BY <1>8 DEF SameList
  <2>2. SameList(heap'[t][c], heap[t][c])
    BY <1>8 DEF SameList
  <2> QED BY <2>1, <2>2 DEF HeapsSame
<1>11. Hands' = Hands
  BY <1>1, <1>2, <1>9, HandsSame
<1>12. Locals' /\ PhaseOK(t)' /\ DoneOK(t)'
  <2>1. PhaseOK(t)'
    BY <1>0, <1>1, <1>2 DEF PhaseOK, InHand
  <2>2. DoneOK(t)'
    BY <1>0, <1>1, <1>8, ClearingDone
  <2> QED BY <1>0, <1>1, <1>2, <2>1, <2>2 DEF Locals, MaxBlocks
<1>13. CASE IsWhole(pbh[p]) /\ PbFree(p)
  <2>1. /\ owner' \in [Superpage -> Thread \cup {NULL, DEAD_OWNER}]
        /\ pbh' \in [Pb -> Headers] /\ next' \in [Block -> Ptr]
    BY <1>0, <1>6, <1>13, PbFreeOwner
  <2>2. Shapes'
    BY <1>0, <1>2, <1>8, <1>12, <2>1 DEF Shapes, Locals
  <2>3. Here'
    BY <1>0, <1>1, <1>2, <1>6, <1>10, <1>11, <1>13, PbFreeMove, HereNext
  <2>4. ListFits(t, c, {p})
    <3>1. ~(c > cl'[t])
      BY <1>2, <1>4
    <3> QED BY <1>6, <1>8, <3>1 DEF ListFits, l
  <2>5. FreesOne(t, p, c)
    BY <1>2, <1>7, <1>8, <1>9, <1>13, <2>4 DEF FreesOne
  <2> QED BY <1>6, <1>12, <2>2, <2>3, <2>5, FreesOneKept
<1>14. CASE owner' = owner /\ pbh' = pbh /\ next' = next
  <2>1. Shapes'
    BY <1>0, <1>2, <1>8, <1>12, <1>14 DEF Shapes, Locals
  <2>2. Here'
    <3> DEFINE hp == heap'
    <3>1. Placed(next, heap, pbh, Hands, rest, out, BlocksPerPbh) /\ HeapsSame(heap, hp)
      BY <1>0, <1>10 DEF Here
    <3> HIDE DEF hp
    <3>2. Placed(next, hp, pbh, Hands, rest, out, BlocksPerPbh)
      BY <3>1, SameHeapsMove
    <3> QED BY <1>1, <1>2, <1>11, <1>14, <3>2, HereNext DEF hp
  <2>3. \A d \in Class : ListFits(t, d, {})
    <3>1. ~(c > cl'[t])
      BY <1>2, <1>4
    <3>2. ListFits(t, c, {})
      BY <1>6, <1>8, <3>1 DEF ListFits, l
    <3>3. \A d \in Class : d # c => ListFits(t, d, {})
      BY <1>8, SameFits
    <3> QED BY <3>2, <3>3
  <2>4. Calm(t)
    <3>1. \A d \in Class : /\ heap'[t][d].ptr_to_unused = heap[t][d].ptr_to_unused
                           /\ heap'[t][d].cnt_unused = heap[t][d].cnt_unused
      BY <1>10 DEF HeapsSame, SameList
    <3> QED BY <1>2, <1>9, <1>14, <2>3, <3>1 DEF Calm
  <2> QED BY <1>12, <2>1, <2>2, <2>4, CalmKept
<1> QED BY <1>1, <1>13, <1>14

ClearedTo(h, l, h1) ==
  h1 = [h EXCEPT !.ptr_to_unused = NULL, !.cnt_unused = 0, !.pbh_list = l]

LEMMA ClearedSet ==
  ASSUME NEW h \in HeapLists, NEW l \in Seq(Pb), NEW h1, ClearedTo(h, l, h1)
  PROVE  /\ h1 \in HeapLists /\ h1.free_blk_list = h.free_blk_list
         /\ h1.cnt_free = h.cnt_free /\ h1.ptr_to_unused = NULL
         /\ h1.cnt_unused = 0 /\ h1.pbh_list = l
<1>1. /\ h1.free_blk_list = h.free_blk_list /\ h1.cnt_free = h.cnt_free
      /\ h1.ptr_to_unused = NULL /\ h1.cnt_unused = 0 /\ h1.pbh_list = l
      /\ DOMAIN h1 = DOMAIN h /\ h1 = [x \in DOMAIN h1 |-> h1[x]]
  BY DEF ClearedTo, HeapLists
<1>2. NULL \in Ptr
  BY DEF Ptr
<1> QED BY <1>1, <1>2 DEF HeapLists

UnusedSetTo(p, u, n, hd, hd2) ==
  hd2 = [hd EXCEPT ![p].unallocated = u, ![p].cnt_unused = n]

LEMMA UnusedSet ==
  ASSUME NEW hd \in [Pb -> Headers], NEW p \in Pb, NEW u \in Ptr, NEW n \in Int,
         NEW hd2, UnusedSetTo(p, u, n, hd, hd2)
  PROVE  /\ hd2 \in [Pb -> Headers]
         /\ hd2[p].sizeclass = hd[p].sizeclass /\ hd2[p].remote = hd[p].remote
         /\ hd2[p].free_list = hd[p].free_list /\ hd2[p].cnt_free = hd[p].cnt_free
         /\ hd2[p].unallocated = u /\ hd2[p].cnt_unused = n
         /\ \A q \in Pb : q # p => hd2[q] = hd[q]
<1> DEFINE h2 == [hd[p] EXCEPT !.unallocated = u, !.cnt_unused = n]
<1>1. hd2 = [hd EXCEPT ![p] = h2] /\ hd[p] \in Headers
  BY DEF UnusedSetTo
<1>2. /\ h2.sizeclass = hd[p].sizeclass /\ h2.remote = hd[p].remote
      /\ h2.free_list = hd[p].free_list /\ h2.cnt_free = hd[p].cnt_free
      /\ h2.unallocated = u /\ h2.cnt_unused = n
      /\ DOMAIN h2 = DOMAIN hd[p] /\ h2 = [x \in DOMAIN h2 |-> h2[x]]
  BY <1>1 DEF Headers
<1> HIDE DEF h2
<1>3. h2 \in Headers
  BY <1>1, <1>2 DEF Headers
<1>4. hd2 \in [Pb -> Headers] /\ hd2[p] = h2 /\ \A q \in Pb : q # p => hd2[q] = hd[q]
  BY <1>1, <1>3
<1> QED BY <1>2, <1>4

\* The chunk of class c of thread t, and its page block p.
UnusedOf(t, c, p) ==
  heap[t][c].ptr_to_unused # NULL /\ p = heap[t][c].ptr_to_unused[1]

LEMMA UnusedOfIs ==
  ASSUME IInv, NEW t \in Thread, NEW c \in Class, NEW p, UnusedOf(t, c, p)
  PROVE  /\ p \in Pb /\ OwnerOf(p) = t /\ pbh[p].sizeclass = c /\ pbh[p].cnt_unused = 0
         /\ heap[t][c].cnt_unused \in Nat /\ heap[t][c].cnt_unused # 0
         /\ heap[t][c].cnt_unused % BlocksPerLine[c] = 0
         /\ CntRef(pbh[p]) = heap[t][c].cnt_unused =>
              Counted(pbh[p]) + heap[t][c].cnt_unused = BlocksPerPbh[c]
<1> DEFINE n == heap[t][c].cnt_unused
           h == pbh[p]
<1>0. Shapes /\ Here /\ ChunkOK(t, c)
  BY DEF IInv, Mine
<1>1. p = heap[t][c].ptr_to_unused[1] /\ heap[t][c].ptr_to_unused # NULL
  BY DEF UnusedOf
<1>2. n \in Nat /\ n # 0
  BY <1>0, <1>1, Counts
<1>3. heap[t][c].ptr_to_unused \in Block /\ h.sizeclass = c /\ p \in Pb
  BY <1>0, <1>1, <1>2, UnusedIn, Blocks
<1>4. OwnerOf(p) = t /\ h.cnt_unused = 0 /\ n % BlocksPerLine[c] = 0
  BY <1>0, <1>1, <1>2 DEF ChunkOK
<1>5. CntRef(h) = n => Counted(h) + n = BlocksPerPbh[c]
  <2> DEFINE k == Counted(h)
             b == BlocksPerPbh[c]
  <2>1. k \in Int /\ b \in Int /\ n \in Int
    <3>1. h.cnt_free \in Nat /\ h.cnt_unused \in Nat /\ h.remote.cnt \in Nat
      BY <1>0, <1>3, Counts
    <3>2. k \in Int
      BY <3>1 DEF Counted
    <3>3. b \in Int
      BY <1>0, Layout DEF Shapes
    <3> QED BY <1>2, <3>2, <3>3
  <2>2. CntRef(h) = b - k
    BY <1>3 DEF CntRef
  <2> HIDE DEF k, b, n
  <2> QED BY <2>1, <2>2 DEF k, b, n
<1> QED BY <1>2, <1>3, <1>4, <1>5

\* Thread t has no chunk of class c any more, and list m of page blocks.
UnusedGone(t, c, m, hp, hp2) ==
  /\ hp2 \in [Thread -> [Class -> HeapLists]]
  /\ hp2[t][c].free_blk_list = hp[t][c].free_blk_list
  /\ hp2[t][c].cnt_free = hp[t][c].cnt_free
  /\ hp2[t][c].ptr_to_unused = NULL /\ hp2[t][c].cnt_unused = 0
  /\ hp2[t][c].pbh_list = m
  /\ \A u \in Thread, d \in Class : u # t \/ d # c => hp2[u][d] = hp[u][d]
  /\ \A u \in Thread : u # t => hp2[u] = hp[u]

LEMMA UnusedGoneIs ==
  ASSUME NEW hp \in [Thread -> [Class -> HeapLists]], NEW t \in Thread, NEW c \in Class,
         NEW l \in Seq(Pb), NEW h1, ClearedTo(hp[t][c], l, h1),
         NEW hp1, HeapSetTo(t, c, h1, hp, hp1)
  PROVE  /\ UnusedGone(t, c, l, hp, hp1)
         /\ \A m \in Seq(Pb) : \A hp2 :
              PbhListSetTo(t, c, m, hp1, hp2) => UnusedGone(t, c, m, hp, hp2)
<1>1. hp[t][c] \in HeapLists
  OBVIOUS
<1>2. /\ h1 \in HeapLists /\ h1.free_blk_list = hp[t][c].free_blk_list
      /\ h1.cnt_free = hp[t][c].cnt_free /\ h1.ptr_to_unused = NULL
      /\ h1.cnt_unused = 0 /\ h1.pbh_list = l
  BY <1>1, ClearedSet
<1>3. /\ hp1 \in [Thread -> [Class -> HeapLists]] /\ hp1[t][c] = h1
      /\ \A u \in Thread, d \in Class : u # t \/ d # c => hp1[u][d] = hp[u][d]
      /\ \A u \in Thread : u # t => hp1[u] = hp[u]
  BY <1>2 DEF HeapSetTo
<1>4. UnusedGone(t, c, l, hp, hp1)
  BY <1>2, <1>3 DEF UnusedGone
<1>5. ASSUME NEW m \in Seq(Pb), NEW hp2, PbhListSetTo(t, c, m, hp1, hp2)
      PROVE  UnusedGone(t, c, m, hp, hp2)
  <2>1. /\ hp2 \in [Thread -> [Class -> HeapLists]]
        /\ hp2[t][c].free_blk_list = hp1[t][c].free_blk_list
        /\ hp2[t][c].cnt_free = hp1[t][c].cnt_free
        /\ hp2[t][c].ptr_to_unused = hp1[t][c].ptr_to_unused
        /\ hp2[t][c].cnt_unused = hp1[t][c].cnt_unused
        /\ hp2[t][c].pbh_list = m
        /\ \A u \in Thread, d \in Class : u # t \/ d # c => hp2[u][d] = hp1[u][d]
        /\ \A u \in Thread : u # t => hp2[u] = hp1[u]
    BY <1>3, <1>5, PbhListSet
  <2> QED BY <1>2, <1>3, <2>1 DEF UnusedGone
<1> QED BY <1>4, <1>5

\* The two branches: page block p is whole with the chunk, ...
ChunkAndAll(t, c, p, l) ==
  /\ Counted(pbh[p]) + heap[t][c].cnt_unused = BlocksPerPbh[c]
  /\ UnusedGone(t, c, l, heap, heap') /\ PbFree(p)

\* ... or the chunk goes to its header.
ChunkToHeader(t, c, p, l) ==
  /\ UnusedGone(t, c, <<p>> \o l, heap, heap')
  /\ UnusedSetTo(p, heap[t][c].ptr_to_unused, heap[t][c].cnt_unused, pbh, pbh')
  /\ owner' = owner /\ next' = next

LEMMA ExitUnusedIs ==
  ASSUME IInv, NEW t \in Thread, NEW c \in Class, ExitUnused(t, c),
         NEW p, p = heap[t][c].ptr_to_unused[1],
         NEW l, l = Without(heap[t][c].pbh_list, p)
  PROVE  /\ Clearing(t, c) /\ UnusedOf(t, c, p) /\ pc' = pc /\ rest' = rest
         /\ l \in Seq(Pb) /\ <<p>> \o l \in Seq(Pb)
         /\ \/ ChunkAndAll(t, c, p, l)
            \/ ChunkToHeader(t, c, p, l)
<1> DEFINE h == heap[t][c]
           h1 == [h EXCEPT !.ptr_to_unused = NULL, !.cnt_unused = 0, !.pbh_list = l]
           hp1 == [heap EXCEPT ![t][c] = h1]
           m == <<p>> \o l
<1>0. Shapes
  BY DEF IInv
<1>1. /\ Clearing(t, c) /\ h.ptr_to_unused # NULL /\ pc' = pc /\ rest' = rest
      /\ \/ CntRef(pbh[p]) = h.cnt_unused /\ heap' = hp1 /\ PbFree(p)
         \/ /\ heap' = [hp1 EXCEPT ![t][c].pbh_list = <<p>> \o @]
            /\ UnusedSetTo(p, h.ptr_to_unused, h.cnt_unused, pbh, pbh')
            /\ owner' = owner /\ next' = next
  BY Zenon DEF ExitUnused, UnusedSetTo
<1>2. UnusedOf(t, c, p)
  BY <1>1, Zenon DEF UnusedOf
<1>3. p \in Pb /\ heap \in [Thread -> [Class -> HeapLists]] /\ h.pbh_list \in Seq(Pb)
  BY <1>0, <1>2, UnusedOfIs, Fields DEF Shapes
<1>4. l \in Seq(Pb) /\ m \in Seq(Pb)
  <2>1. l \in Seq(Pb)
    BY <1>3, WithoutIs
  <2> QED BY <1>3, <2>1, OneIs, JoinIs
<1>5. ClearedTo(h, l, h1) /\ HeapSetTo(t, c, h1, heap, hp1)
  BY DEF ClearedTo, HeapSetTo
<1>6. hp1[t][c].pbh_list = l
  BY <1>3
<1> HIDE DEF h1
<1>7. [hp1 EXCEPT ![t][c].pbh_list = <<p>> \o @] = [hp1 EXCEPT ![t][c].pbh_list = m]
  BY <1>6
<1> HIDE DEF hp1, m
<1>8. /\ UnusedGone(t, c, l, heap, hp1)
      /\ \A hp2 : PbhListSetTo(t, c, m, hp1, hp2) => UnusedGone(t, c, m, heap, hp2)
  BY <1>3, <1>4, <1>5, UnusedGoneIs
<1>9. CASE CntRef(pbh[p]) = h.cnt_unused /\ heap' = hp1 /\ PbFree(p)
  <2>1. Counted(pbh[p]) + h.cnt_unused = BlocksPerPbh[c]
    BY <1>2, <1>9, UnusedOfIs
  <2> QED BY <1>1, <1>2, <1>4, <1>8, <1>9, <2>1, Zenon DEF ChunkAndAll, m
<1>10. CASE /\ heap' = [hp1 EXCEPT ![t][c].pbh_list = <<p>> \o @]
            /\ UnusedSetTo(p, h.ptr_to_unused, h.cnt_unused, pbh, pbh')
            /\ owner' = owner /\ next' = next
  <2>1. PbhListSetTo(t, c, m, hp1, heap')
    BY <1>7, <1>10 DEF PbhListSetTo
  <2>2. UnusedGone(t, c, m, heap, heap')
    BY <1>8, <2>1
  <2> QED BY <1>1, <1>2, <1>4, <1>10, <2>2, Zenon DEF ChunkToHeader, m
<1> QED BY <1>1, <1>9, <1>10, Zenon

LEMMA ExitUnusedStep ==
  ASSUME IInv, SpOf' = SpOf, NEW t \in Thread, NEW c \in Class, ExitUnused(t, c)
  PROVE  IInv'
<1> DEFINE p == heap[t][c].ptr_to_unused[1]
           l == Without(heap[t][c].pbh_list, p)
<1>0. Shapes /\ Here /\ Mine(t) /\ PhaseOK(t) /\ DoneOK(t) /\ Locals
  BY DEF IInv, Mine, Shapes, Locals
<1>1. /\ Clearing(t, c) /\ UnusedOf(t, c, p) /\ pc' = pc /\ rest' = rest
      /\ l \in Seq(Pb) /\ <<p>> \o l \in Seq(Pb)
      /\ ChunkAndAll(t, c, p, l) \/ ChunkToHeader(t, c, p, l)
  BY ExitUnusedIs
<1>2. /\ pc[t] = "exit" /\ cl' \in [Thread -> 0 .. NUM_CLASSES]
      /\ cl'[t] = c /\ c # 0 /\ cl'[t] >= cl[t]
      /\ \A u \in Thread : u # t => cl'[u] = cl[u]
      /\ run' = run /\ top' = top /\ out' = out
  BY <1>0, <1>1, ClearingIs
<1>3. /\ p \in Pb /\ OwnerOf(p) = t /\ pbh[p].sizeclass = c /\ pbh[p].cnt_unused = 0
      /\ heap[t][c].cnt_unused \in Nat /\ heap[t][c].cnt_unused # 0
      /\ heap[t][c].cnt_unused % BlocksPerLine[c] = 0
      /\ heap[t][c].ptr_to_unused # NULL /\ heap[t][c].ptr_to_unused \in Ptr
      /\ heap[t][c].ptr_to_unused[1] = p
      /\ heap[t][c].pbh_list \in Seq(Pb)
  BY <1>0, <1>1, UnusedOfIs, Fields DEF UnusedOf
<1>4. Once(heap[t][c].pbh_list) /\ ~(c > cl'[t])
      /\ \A q \in ToSet(heap[t][c].pbh_list) : OwnerOf(q) = t /\ pbh[q].sizeclass = c
  <2>1. PbhListOK(t, c) /\ c >= cl[t] /\ ~(c > c)
    BY <1>0, <1>2 DEF Mine, Class
  <2> QED BY <1>2, <2>1 DEF PbhListOK
<1>5. /\ Once(l) /\ ToSet(l) = ToSet(heap[t][c].pbh_list) \ {p}
      /\ Once(<<p>> \o l) /\ ToSet(<<p>> \o l) = ToSet(heap[t][c].pbh_list) \cup {p}
  BY <1>3, <1>4, WithoutIs, ToFrontIs
<1> HIDE DEF p, l
<1>6. ASSUME NEW m, UnusedGone(t, c, m, heap, heap')
      PROVE  /\ heap' \in [Thread -> [Class -> HeapLists]]
             /\ heap'[t][c].cnt_unused = 0 /\ heap'[t][c].pbh_list = m
             /\ \A d \in Class : d # c => heap'[t][d] = heap[t][d]
             /\ OthersIdle(t) /\ Hands' = Hands /\ DoneOK(t)' /\ PhaseOK(t)' /\ Locals'
             /\ HeapsBut(t, c, heap, heap')
             /\ \A d \in Class : d # c => ListFits(t, d, {})
  <2>1. /\ heap' \in [Thread -> [Class -> HeapLists]]
        /\ heap'[t][c].cnt_unused = 0 /\ heap'[t][c].pbh_list = m
        /\ \A u \in Thread, d \in Class : u # t \/ d # c => heap'[u][d] = heap[u][d]
        /\ \A u \in Thread : u # t => heap'[u] = heap[u]
    BY <1>6 DEF UnusedGone
  <2>2. OthersIdle(t)
    BY <1>1, <1>2, <2>1 DEF OthersIdle
  <2>3. Hands' = Hands
    BY <1>1, <1>2, <2>2, HandsSame
  <2>4. \A d \in Class : d # c => heap'[t][d] = heap[t][d]
    BY <2>1
  <2>5. DoneOK(t)'
    BY <1>0, <1>1, <2>4, ClearingDone
  <2>6. PhaseOK(t)' /\ Locals'
    BY <1>0, <1>1, <1>2 DEF PhaseOK, InHand, Locals, MaxBlocks
  <2>7. HeapsBut(t, c, heap, heap')
    BY <2>1 DEF HeapsBut, SameList
  <2>8. \A d \in Class : d # c => ListFits(t, d, {})
    BY <2>4, SameFits
  <2> QED BY <2>1, <2>2, <2>3, <2>4, <2>5, <2>6, <2>7, <2>8
<1>7. CASE ChunkAndAll(t, c, p, l)
  <2>1. /\ Counted(pbh[p]) + heap[t][c].cnt_unused = BlocksPerPbh[c]
        /\ UnusedGone(t, c, l, heap, heap') /\ PbFree(p)
    BY <1>7 DEF ChunkAndAll
  <2>2. /\ heap' \in [Thread -> [Class -> HeapLists]]
        /\ heap'[t][c].cnt_unused = 0 /\ heap'[t][c].pbh_list = l
        /\ \A d \in Class : d # c => heap'[t][d] = heap[t][d]
        /\ OthersIdle(t) /\ Hands' = Hands /\ DoneOK(t)' /\ PhaseOK(t)' /\ Locals'
        /\ HeapsBut(t, c, heap, heap')
    BY <1>6, <2>1
  <2>3. /\ owner' \in [Superpage -> Thread \cup {NULL, DEAD_OWNER}]
        /\ pbh' \in [Pb -> Headers] /\ next' \in [Block -> Ptr]
        /\ pbh'[p] = FreePbh /\ \A q \in Pb : q # p => pbh'[q] = pbh[q]
        /\ \A b \in Block : next'[b] = IF b[1] = p THEN NULL ELSE next[b]
    BY <1>0, <1>3, <2>1, PbFreeOwner
  <2>4. Shapes'
    BY <1>0, <1>2, <2>2, <2>3 DEF Shapes, Locals
  <2>5. Here'
    <3> DEFINE nx == next'
               hd == pbh'
               hp == heap'
    <3>1. Freed({p}, next, pbh, nx, hd)
      BY <2>3 DEF Freed
    <3>2. Fit(BlocksPerPbh)
      BY <1>0, Layout DEF Fit, Shapes
    <3>3. FreesWithChunk(next, heap, pbh, BlocksPerPbh, t, c, p, nx, hd, hp)
      BY <1>3, <2>1, <2>2, <3>1, <3>2 DEF FreesWithChunk, UnusedGone
    <3>4. Placed(next, heap, pbh, Hands, rest, out, BlocksPerPbh)
      BY <1>0 DEF Here
    <3> HIDE DEF nx, hd, hp
    <3>5. Placed(nx, hp, hd, Hands, rest, out, BlocksPerPbh)
      BY <1>3, <3>3, <3>4, ChunkFreed
    <3> QED BY <1>1, <1>2, <2>2, <3>5, HereNext DEF nx, hd, hp
  <2>6. FreesOne(t, p, c)
    <3>1. ListFits(t, c, {p})
      BY <1>4, <1>5, <2>2 DEF ListFits
    <3> QED BY <1>2, <1>3, <2>1, <2>2, <3>1 DEF FreesOne
  <2> QED BY <1>3, <2>2, <2>4, <2>5, <2>6, FreesOneKept
<1>8. CASE ChunkToHeader(t, c, p, l)
  <2> DEFINE m == <<p>> \o l
             u == heap[t][c].ptr_to_unused
             n == heap[t][c].cnt_unused
  <2>1. /\ UnusedGone(t, c, m, heap, heap') /\ UnusedSetTo(p, u, n, pbh, pbh')
        /\ owner' = owner /\ next' = next
    BY <1>8 DEF ChunkToHeader
  <2>2. /\ heap' \in [Thread -> [Class -> HeapLists]]
        /\ heap'[t][c].cnt_unused = 0 /\ heap'[t][c].pbh_list = m
        /\ \A d \in Class : d # c => heap'[t][d] = heap[t][d]
        /\ OthersIdle(t) /\ Hands' = Hands /\ DoneOK(t)' /\ PhaseOK(t)' /\ Locals'
        /\ HeapsBut(t, c, heap, heap')
        /\ \A d \in Class : d # c => ListFits(t, d, {})
    BY <1>6, <2>1
  <2>3. /\ pbh' \in [Pb -> Headers]
        /\ pbh'[p].sizeclass = pbh[p].sizeclass /\ pbh'[p].remote = pbh[p].remote
        /\ pbh'[p].free_list = pbh[p].free_list /\ pbh'[p].cnt_free = pbh[p].cnt_free
        /\ pbh'[p].unallocated = u /\ pbh'[p].cnt_unused = n
        /\ \A q \in Pb : q # p => pbh'[q] = pbh[q]
    <3> DEFINE hd == pbh'
    <3>1. /\ UnusedSetTo(p, u, n, pbh, hd) /\ pbh \in [Pb -> Headers] /\ n \in Int
          /\ u \in Ptr
      BY <1>0, <1>3, <2>1 DEF Shapes
    <3> HIDE DEF hd, u, n
    <3>2. /\ hd \in [Pb -> Headers]
          /\ hd[p].sizeclass = pbh[p].sizeclass /\ hd[p].remote = pbh[p].remote
          /\ hd[p].free_list = pbh[p].free_list /\ hd[p].cnt_free = pbh[p].cnt_free
          /\ hd[p].unallocated = u /\ hd[p].cnt_unused = n
          /\ \A q \in Pb : q # p => hd[q] = pbh[q]
      BY <1>3, <3>1, UnusedSet
    <3> QED BY <3>2 DEF hd
  <2>4. Shapes'
    BY <1>0, <1>2, <2>1, <2>2, <2>3 DEF Shapes, Locals
  <2>5. Here'
    <3> DEFINE hd == pbh'
               hp == heap'
    <3>1. HdrsBut(p, pbh, hd)
      BY <2>3 DEF HdrsBut, SameHdr
    <3>2. PutsUnused(heap, pbh, t, c, p, hp, hd)
      BY <1>3, <2>1, <2>2, <2>3, <3>1 DEF PutsUnused, UnusedGone
    <3>3. Placed(next, heap, pbh, Hands, rest, out, BlocksPerPbh)
      BY <1>0 DEF Here
    <3> HIDE DEF hd, hp
    <3>4. Placed(next, hp, hd, Hands, rest, out, BlocksPerPbh)
      BY <1>3, <3>2, <3>3, PutUnusedMove
    <3> QED BY <1>1, <1>2, <2>1, <2>2, <3>4, HereNext DEF hd, hp
  <2>6. Calm(t)
    <3>1. ListFits(t, c, {})
      BY <1>3, <1>4, <1>5, <2>2 DEF ListFits
    <3>2. \A d \in Class : ListFits(t, d, {})
      BY <2>2, <3>1
    <3>3. \A d \in Class : /\ \/ heap'[t][d].cnt_unused = 0
                              \/ /\ heap'[t][d].ptr_to_unused = heap[t][d].ptr_to_unused
                                 /\ heap'[t][d].cnt_unused = heap[t][d].cnt_unused
                           /\ heap'[t][d].cnt_unused # 0 => heap'[t][d].ptr_to_unused[1] # p
      <4>1. \A d \in Class : heap[t][d].cnt_unused # 0 =>
              pbh[heap[t][d].ptr_to_unused[1]].sizeclass = d
        BY <1>0, UnusedIn
      <4> QED BY <1>3, <2>2, <4>1
    <3>4. \A q \in Pb :
            /\ pbh'[q].sizeclass = pbh[q].sizeclass
            /\ pbh[q].sizeclass = 0 => pbh'[q] = pbh[q]
            /\ q # p => pbh'[q].cnt_unused = pbh[q].cnt_unused
      BY <1>2, <1>3, <2>3
    <3>5. pbh'[p].cnt_unused % BlocksPerLine[pbh[p].sizeclass] = 0
      BY <1>3, <2>3
    <3>6. \A q \in Pb :
            \/ pbh'[q].cnt_unused = pbh[q].cnt_unused
            \/ /\ OwnerOf(q) = t
               /\ pbh'[q].cnt_unused % BlocksPerLine[pbh[q].sizeclass] = 0
               /\ \A d \in Class : heap'[t][d].cnt_unused # 0 =>
                                     heap'[t][d].ptr_to_unused[1] # q
      BY <1>3, <3>3, <3>4, <3>5
    <3> HIDE DEF m, u, n
    <3> QED BY <1>2, <2>1, <2>2, <3>2, <3>3, <3>4, <3>6 DEF Calm
  <2> QED BY <2>2, <2>4, <2>5, <2>6, CalmKept
<1> QED BY <1>1, <1>7, <1>8

\* The thread has no block any more.
LEMMA ClearedIs ==
  ASSUME Shapes, Here, NEW t \in Thread, DoneOK(t), Cleared(t)
  PROVE  /\ pc[t] = "exit" /\ run' = run /\ top' = top /\ out' = out
         /\ \A c \in Class : /\ heap[t][c].free_blk_list = NULL /\ heap[t][c].cnt_free = 0
                             /\ heap[t][c].ptr_to_unused = NULL /\ heap[t][c].cnt_unused = 0
                             /\ c >= cl[t] => heap[t][c].pbh_list = << >>
<1>1. /\ pc[t] = "exit" /\ run' = run /\ top' = top /\ out' = out
      /\ \A c \in cl[t] .. NUM_CLASSES : ~Left(t, c)
  BY DEF Cleared
<1>2. ASSUME NEW c \in Class
      PROVE  /\ heap[t][c].free_blk_list = NULL /\ heap[t][c].ptr_to_unused = NULL
             /\ c >= cl[t] => heap[t][c].pbh_list = << >>
  <2>1. cl[t] \in 0 .. NUM_CLASSES /\ c \in 1 .. NUM_CLASSES /\ NUM_CLASSES \in Nat
    BY ConstantsAssumption DEF Shapes, Class
  <2>2. CASE c < cl[t]
    BY <2>1, <2>2 DEF DoneOK
  <2>3. CASE ~(c < cl[t])
    <3>1. c \in cl[t] .. NUM_CLASSES
      BY <2>1, <2>3
    <3> QED BY <1>1, <3>1 DEF Left
  <2> QED BY <2>2, <2>3
<1> QED BY <1>1, <1>2, Counts

LEMMA NoneListed == Once(<< >>) /\ ToSet(<< >>) = {}
<1>1. DOMAIN << >> = {}
  OBVIOUS
<1> QED BY <1>1 DEF Once, ToSet

LEMMA ExitSuperpageStep ==
  ASSUME IInv, SpOf' = SpOf, NEW t \in Thread, NEW s \in Superpage, ExitSuperpage(t, s)
  PROVE  IInv'
<1> DEFINE W == WholeOf(s)
           inuse == {p \in PbsOf(s) : InUse(p)} \ W
           o == IF inuse = {} THEN NULL ELSE DEAD_OWNER
<1>0. Shapes /\ Here /\ Mine(t) /\ PhaseOK(t) /\ DoneOK(t) /\ Locals
      /\ NULL \notin Thread /\ DEAD_OWNER \notin Thread /\ DEAD_OWNER # NULL
  BY ConstantsAssumption DEF IInv, Mine, Shapes, Locals
<1>1. /\ Cleared(t) /\ owner[s] = t /\ owner' = [owner EXCEPT ![s] = o]
      /\ WholeGone(s) /\ heap' = heap /\ pc' = pc /\ cl' = cl /\ rest' = rest
  BY DEF ExitSuperpage, WholeGone, WholeOf, OwnedBy
<1>2. /\ pc[t] = "exit" /\ run' = run /\ top' = top /\ out' = out
      /\ \A c \in Class : /\ heap[t][c].ptr_to_unused = NULL /\ heap[t][c].cnt_unused = 0
                          /\ c >= cl[t] => heap[t][c].pbh_list = << >>
  BY <1>0, <1>1, ClearedIs
<1>3. /\ owner' \in [Superpage -> Thread \cup {NULL, DEAD_OWNER}]
      /\ \A p \in Pb : SpOf[p] = s => OwnerOf(p) = t /\ owner'[SpOf[p]] = o
      /\ \A p \in Pb : SpOf[p] # s => owner'[SpOf[p]] = OwnerOf(p)
  <2>1. owner \in [Superpage -> Thread \cup {NULL, DEAD_OWNER}]
        /\ \A p \in Pb : SpOf[p] \in Superpage
    BY <1>0, Fields DEF Shapes
  <2> QED BY <1>1, <2>1 DEF OwnerOf
<1>4. /\ pbh' \in [Pb -> Headers] /\ next' \in [Block -> Ptr]
      /\ \A p \in Pb : pbh'[p] = IF p \in W THEN FreePbh ELSE pbh[p]
      /\ \A p \in W : p \in Pb /\ SpOf[p] = s /\ pbh[p].sizeclass # 0
      /\ Placed(next', heap', pbh', Hands, rest, out, BlocksPerPbh)
  <2>1. HeapsSame(heap, heap')
    BY <1>1 DEF HeapsSame, SameList
  <2> QED BY <1>0, <1>1, <2>1, WholeGoneIs
<1>5. OthersIdle(t)
  BY <1>1, <1>2 DEF OthersIdle
<1>6. Hands' = Hands
  BY <1>1, <1>2, <1>5, HandsSame
<1>7. Shapes'
  BY <1>0, <1>1, <1>2, <1>3, <1>4 DEF Shapes, MaxBlocks
<1>8. Here'
  BY <1>1, <1>2, <1>4, <1>6, HereNext
<1>9. \A p \in Pb : p \notin W /\ pbh[p].sizeclass # 0 => owner'[SpOf[p]] # NULL
  <2>1. \A p \in Pb : pbh[p].sizeclass # 0 => OwnerOf(p) # NULL
    BY DEF IInv, PbhOK, InUse
  <2>2. ASSUME NEW p \in Pb, p \notin W, pbh[p].sizeclass # 0, SpOf[p] = s
        PROVE  o # NULL
    <3>1. p \in inuse
      BY <2>2 DEF PbsOf, InUse
    <3> QED BY <1>0, <3>1
  <2> HIDE DEF W, o
  <2> QED BY <1>3, <2>1, <2>2
<1>10. \A p \in Pb, u \in Thread : owner'[SpOf[p]] = u <=> (OwnerOf(p) = u /\ SpOf[p] # s)
  BY <1>0, <1>3
<1> HIDE DEF W, o, inuse
<1>11. Returns(t, W)
  <2>1. ASSUME NEW p \in Pb, p \notin W
        PROVE  pbh'[p] = pbh[p] /\ (pbh[p].sizeclass # 0 => owner'[SpOf[p]] # NULL)
    BY <1>4, <1>9, <2>1
  <2>2. ASSUME NEW p \in Pb, NEW u \in Thread, u # t
        PROVE  /\ owner'[SpOf[p]] = u <=> OwnerOf(p) = u
               /\ OwnerOf(p) = u => p \notin W
    BY <1>3, <1>4, <1>10, <2>2
  <2>3. \A p \in Pb : p \in W => pbh'[p] = FreePbh
    BY <1>4
  <2> QED BY <1>5, <2>1, <2>2, <2>3 DEF Returns
<1>12. PhaseOK(t)'
  BY <1>0, <1>1, <1>2 DEF PhaseOK, InHand
<1>13. DoneOK(t)'
  BY <1>0, <1>1 DEF DoneOK
<1>14. ASSUME NEW c \in Class PROVE PbhListOK(t, c)'
  <2>1. PbhListOK(t, c) /\ c # 0
    BY <1>0 DEF Mine, Class
  <2>2. c > cl[t] => c >= cl[t]
    <3>1. c \in Int /\ cl[t] \in Int
      BY <1>0, Fields DEF Class
    <3> QED BY <3>1
  <2>3. c >= cl[t] => Once(heap'[t][c].pbh_list) /\ ToSet(heap'[t][c].pbh_list) = {}
    BY <1>1, <1>2, NoneListed
  <2>4. c > cl[t] => \A p \in Pb : ~(OwnerOf(p) = t /\ pbh[p].sizeclass = c)
    BY <1>1, <2>1, <2>2, <2>3 DEF PbhListOK
  <2>5. \A p \in Pb : pbh'[p].sizeclass = c => pbh[p].sizeclass = c
    BY <1>4, <2>1 DEF FreePbh
  <2>6. c > cl[t] => \A p \in Pb : ~(owner'[SpOf[p]] = t /\ pbh'[p].sizeclass = c)
    BY <1>10, <2>4, <2>5
  <2> QED BY <1>1, <2>3, <2>6 DEF PbhListOK, OwnerOf
<1>15. \A c \in Class : ChunkOK(t, c)'
  BY <1>1, <1>2, NoneOver DEF ChunkOK
<1>16. Mine(t)'
  BY <1>12, <1>13, <1>14, <1>15 DEF Mine
<1> QED BY <1>7, <1>8, <1>11, <1>16, ReturnsKept

LEMMA ThreadEndStep ==
  ASSUME IInv, SpOf' = SpOf, NEW t \in Thread, ThreadEnd(t)
  PROVE  IInv'
<1>0. Shapes /\ Here /\ Mine(t) /\ PhaseOK(t) /\ DoneOK(t) /\ Locals
      /\ NULL \notin Thread /\ NUM_CLASSES \in Nat
  BY ConstantsAssumption DEF IInv, Mine, Shapes, Locals
<1>1. /\ Cleared(t) /\ OwnedBy(t) = {} /\ heap' = [heap EXCEPT ![t] = NoHeap]
      /\ pc' = [pc EXCEPT ![t] = "idle"] /\ cl' = [cl EXCEPT ![t] = 0]
      /\ owner' = owner /\ pbh' = pbh /\ next' = next /\ rest' = rest
  BY DEF ThreadEnd
<1>2. /\ pc[t] = "exit" /\ run' = run /\ top' = top /\ out' = out
      /\ \A c \in Class : /\ heap[t][c].free_blk_list = NULL /\ heap[t][c].cnt_free = 0
                          /\ heap[t][c].ptr_to_unused = NULL /\ heap[t][c].cnt_unused = 0
  BY <1>0, <1>1, ClearedIs
<1>3. NoList \in HeapLists
  <2>1. << >> \in Seq(Pb) /\ NULL \in Ptr /\ 0 \in Int
    BY DEF Ptr
  <2> QED BY <2>1 DEF NoList, HeapLists
<1>4. /\ heap' \in [Thread -> [Class -> HeapLists]]
      /\ \A c \in Class : heap'[t][c] = NoList
      /\ \A u \in Thread : u # t => heap'[u] = heap[u]
  <2>1. NoHeap \in [Class -> HeapLists] /\ heap \in [Thread -> [Class -> HeapLists]]
    BY <1>0, <1>3 DEF NoHeap, Shapes
  <2>2. heap' \in [Thread -> [Class -> HeapLists]] /\ heap'[t] = NoHeap
        /\ \A u \in Thread : u # t => heap'[u] = heap[u]
    BY <1>1, <2>1
  <2> QED BY <2>2 DEF NoHeap
<1>5. \A c \in Class : /\ heap'[t][c].free_blk_list = NULL /\ heap'[t][c].cnt_free = 0
                       /\ heap'[t][c].ptr_to_unused = NULL /\ heap'[t][c].cnt_unused = 0
                       /\ heap'[t][c].pbh_list = << >>
  BY <1>4 DEF NoList
<1>6. HeapsSame(heap, heap')
  <2>1. \A u \in Thread, d \in Class : u # t => SameList(heap'[u][d], heap[u][d])
    BY <1>4 DEF SameList
  <2>2. \A d \in Class : SameList(heap'[t][d], heap[t][d])
    BY <1>2, <1>5 DEF SameList
  <2> QED BY <2>1, <2>2 DEF HeapsSame
<1>7. Locals' /\ pc'[t] = "idle" /\ cl'[t] = 0
  BY <1>0, <1>1, <1>2 DEF Locals, MaxBlocks
<1>8. OthersIdle(t)
  BY <1>0, <1>1, <1>2, <1>4 DEF OthersIdle, Locals
<1>9. Hands' = Hands
  BY <1>2, <1>7, <1>8, HandsSame
<1>10. Shapes'
  BY <1>0, <1>1, <1>2, <1>4, <1>7 DEF Shapes, Locals
<1>11. Here'
  <2> DEFINE hp == heap'
  <2>1. Placed(next, heap, pbh, Hands, rest, out, BlocksPerPbh) /\ HeapsSame(heap, hp)
    BY <1>0, <1>6 DEF Here
  <2> HIDE DEF hp
  <2>2. Placed(next, hp, pbh, Hands, rest, out, BlocksPerPbh)
    BY <2>1, SameHeapsMove
  <2> QED BY <1>1, <1>2, <1>9, <2>2, HereNext DEF hp
<1>12. Returns(t, {})
  <2>1. \A p \in Pb : owner'[SpOf[p]] = OwnerOf(p)
    BY <1>1 DEF OwnerOf
  <2>2. \A p \in Pb : pbh[p].sizeclass # 0 => owner'[SpOf[p]] # NULL
    BY <2>1 DEF IInv, PbhOK, InUse
  <2> QED BY <1>1, <1>8, <2>1, <2>2 DEF Returns
<1>13. PhaseOK(t)'
  BY <1>0, <1>1, <1>2, <1>7 DEF PhaseOK, InHand
<1>14. DoneOK(t)'
  <2>1. \A c \in Class : ~(c < 0)
    BY DEF Class
  <2> QED BY <1>7, <2>1 DEF DoneOK
<1>15. ASSUME NEW c \in Class PROVE PbhListOK(t, c)'
  <2>1. Once(heap'[t][c].pbh_list) /\ ToSet(heap'[t][c].pbh_list) = {}
    BY <1>5, NoneListed
  <2>2. \A p \in Pb : owner'[SpOf[p]] # t
    <3>1. \A p \in Pb : SpOf[p] \in Superpage
      BY <1>0, Fields
    <3> QED BY <1>1, <3>1 DEF OwnedBy
  <2> QED BY <2>1, <2>2 DEF PbhListOK, OwnerOf
<1>16. \A c \in Class : ChunkOK(t, c)'
  BY <1>5, NoneOver DEF ChunkOK
<1>17. Mine(t)'
  BY <1>13, <1>14, <1>15, <1>16 DEF Mine
<1> QED BY <1>10, <1>11, <1>12, <1>17, ReturnsKept

(***************************************************************************)
(* small_free, tlh_return_list and pbh_add_blocks                          *)
(***************************************************************************)

\* With hands R1, thread t has just block b in hand, ...
HasOne(t, b, R1) ==
  /\ R1[t].num = 1 /\ R1[t].first = b /\ R1[t].last = b
  /\ ButOf(t, Hands, R1)

\* ... or run r.
HasRun(t, r, R1) ==
  /\ R1[t].num = r.num /\ R1[t].first = r.first /\ R1[t].last = r.last
  /\ ButOf(t, Hands, R1)

LEMMA HandGone ==
  ASSUME NEW t \in Thread, OthersIdle(t), run'[t].num = 0,
         NEW R1, ButOf(t, Hands, R1)
  PROVE  Handless(t, R1, Hands')
<1>1. Handless(t, Hands, Hands')
  BY HandlessIs
<1> QED BY <1>1 DEF Handless, ButOf

\* Runs in hand, whatever the hands are.
LEMMA PlacedHand ==
  ASSUME NEW nx, NEW hp, NEW hd, NEW R, NEW S, NEW o, NEW bp,
         Placed(nx, hp, hd, R, S, o, bp), NEW t \in Thread, R[t].num # 0
  PROVE  /\ R[t].first \in Block /\ R[t].last \in Block /\ R[t].num \in Nat
         /\ R[t].first[1] \in Pb /\ hd[R[t].first[1]].sizeclass # 0
<1>1. PICK w, r : Placing(w, r, nx, hp, hd, R, S, o, bp)
  BY DEF Placed
<1>2. HandOK(nx, w, r, t, R[t]) /\ \A b \in Block : Sited(w, hd, R, o, bp, b)
  BY <1>1, Sides
<1>3. /\ R[t].last \in Block
      /\ IsSeg(nx, w, r, RunAt(t), R[t].first, R[t].num, nx[R[t].last])
  BY <1>2 DEF HandOK
<1>4. R[t].first \in Block /\ w[R[t].first] = RunAt(t) /\ R[t].num \in Nat
  BY <1>3 DEF IsSeg, Ptr
<1>5. InCarved(hd, bp, R[t].first)
  <2>1. RunAt(t) # Nowhere
    BY DEF RunAt, Nowhere
  <2> QED BY <1>2, <1>4, <2>1 DEF Sited
<1> QED BY <1>3, <1>4, <1>5, Blocks DEF InCarved

\* The blocks of FreeLocally: a thread that has block b in hand puts it on its
\* list, or starts a new one with it and returns the list it had.
KeepsOne(nx, hp, hd, R, S, t, c, b, nx2, hp2, R2, S2) ==
  /\ R[t].num = 1 /\ R[t].first = b /\ R[t].last = b
  /\ hd[b[1]].sizeclass = c /\ S[t] = NULL
  /\ HeapsBut(t, c, hp, hp2) /\ ButOf(t, S, S2) /\ Handless(t, R, R2)
  /\ hp2[t][c].free_blk_list = b
  /\ hp2[t][c].ptr_to_unused = hp[t][c].ptr_to_unused
  /\ hp2[t][c].cnt_unused = hp[t][c].cnt_unused
  /\ \/ /\ Relinked(nx, nx2, b, hp[t][c].free_blk_list)
        /\ hp2[t][c].cnt_free = hp[t][c].cnt_free + 1 /\ S2 = S
     \/ /\ Relinked(nx, nx2, b, NULL)
        /\ hp2[t][c].cnt_free = 1 /\ S2[t] = hp[t][c].free_blk_list

LEMMA KeepOneMove ==
  ASSUME NEW nx, NEW hp, NEW hd, NEW R, NEW S, NEW o, NEW bp,
         Placed(nx, hp, hd, R, S, o, bp), NEW t \in Thread, NEW c \in Class,
         NEW b, NEW nx2, NEW hp2, NEW R2, NEW S2,
         KeepsOne(nx, hp, hd, R, S, t, c, b, nx2, hp2, R2, S2)
  PROVE  Placed(nx2, hp2, hd, R2, S2, o, bp)
<1> USE DEF KeepsOne
<1>1. CASE /\ Relinked(nx, nx2, b, hp[t][c].free_blk_list)
           /\ hp2[t][c].cnt_free = hp[t][c].cnt_free + 1 /\ S2 = S
  <2>1. Keeps(nx, hp, hd, R, t, c, nx2, hp2, R2)
    BY <1>1 DEF Keeps
  <2>2. Placed(nx2, hp2, hd, R2, S, o, bp)
    BY <2>1, KeepMove
  <2> QED BY <1>1, <2>2
<1>2. CASE /\ Relinked(nx, nx2, b, NULL)
           /\ hp2[t][c].cnt_free = 1 /\ S2[t] = hp[t][c].free_blk_list
  <2> DEFINE hp1 == WithList(hp, t, c, NULL, 0, hp[t][c].ptr_to_unused,
                             hp[t][c].cnt_unused)
  <2>1. /\ HeapsBut(t, c, hp, hp1)
        /\ hp1[t][c].free_blk_list = NULL /\ hp1[t][c].cnt_free = 0
        /\ hp1[t][c].ptr_to_unused = hp[t][c].ptr_to_unused
        /\ hp1[t][c].cnt_unused = hp[t][c].cnt_unused
    BY WithListIs
  <2> HIDE DEF hp1
  <2>2. ListToRest(hp, S, t, c, hp1, S2)
    BY <1>2, <2>1 DEF ListToRest
  <2>3. Placed(nx, hp1, hd, R, S2, o, bp)
    BY <2>2, ListToRestMove
  <2>4. HeapsBut(t, c, hp1, hp2)
    BY <2>1 DEF HeapsBut, SameList
  <2>5. Keeps(nx, hp1, hd, R, t, c, nx2, hp2, R2)
    <3>1. hp2[t][c].cnt_free = hp1[t][c].cnt_free + R[t].num /\ R[t].num # 0
      BY <1>2, <2>1
    <3> QED BY <1>2, <2>1, <2>4, <3>1 DEF Keeps
  <2> QED BY <2>3, <2>5, KeepMove
<1> QED BY <1>1, <1>2

LEMMA FreeLocallyKept ==
  ASSUME IInv, SpOf' = SpOf, NEW t \in Thread, NEW b \in Block, FreeLocally(t, b), Back(t),
         owner' = owner, pbh' = pbh, top' = top, cl' = cl, cl[t] = 0, rest[t] = NULL,
         out' \subseteq Block, NEW R1, HasOne(t, b, R1),
         Placed(next, heap, pbh, R1, rest, out', BlocksPerPbh)
  PROVE  IInv'
<1> DEFINE c == ClassOf(b)
           full == heap[t][c].cnt_free >= BlocksPerPbh[c]
           n == IF full THEN 1 ELSE heap[t][c].cnt_free + 1
           list == IF full THEN NULL ELSE heap[t][c].free_blk_list
           r == IF full THEN heap[t][c].free_blk_list ELSE NULL
<1>0. Shapes /\ Here /\ Mine(t) /\ DoneOK(t) /\ Locals
  BY DEF IInv, Mine, Shapes, Locals
<1>1. /\ FreeListSetTo(t, c, b, n, heap, heap')
      /\ next' = [next EXCEPT ![b] = list]
      /\ rest' = [rest EXCEPT ![t] = r]
  <2>1. /\ heap' = [heap EXCEPT ![t][c].free_blk_list = b,
                               ![t][c].cnt_free = IF full THEN 1 ELSE @ + 1]
        /\ next' = [next EXCEPT ![b] = list]
        /\ rest' = [rest EXCEPT ![t] = r]
    BY DEF FreeLocally
  <2> QED BY <2>1 DEF FreeListSetTo
<1>2. /\ R1[t].num = 1 /\ R1[t].first = b /\ R1[t].last = b /\ ButOf(t, Hands, R1)
  BY DEF HasOne
<1>3. c = pbh[b[1]].sizeclass /\ c \in Class
  <2>1. R1[t].num # 0
    BY <1>2
  <2>2. R1[t].first[1] \in Pb /\ pbh[R1[t].first[1]].sizeclass # 0
    BY <2>1, PlacedHand
  <2> QED BY <1>0, <1>2, <2>2, Fields DEF ClassOf
<1> HIDE DEF c
<1>4. /\ heap[t][c].free_blk_list \in Ptr /\ heap[t][c].cnt_free \in Int
      /\ heap \in [Thread -> [Class -> HeapLists]] /\ next \in [Block -> Ptr]
      /\ rest \in [Thread -> Ptr] /\ b \in Ptr /\ NULL \in Ptr
  BY <1>0, <1>3, Fields DEF Shapes, Ptr
<1>5. n \in Int /\ list \in Ptr /\ r \in Ptr
  BY <1>4
<1>6. /\ heap' \in [Thread -> [Class -> HeapLists]]
      /\ heap'[t][c].free_blk_list = b /\ heap'[t][c].cnt_free = n
      /\ heap'[t][c].ptr_to_unused = heap[t][c].ptr_to_unused
      /\ heap'[t][c].cnt_unused = heap[t][c].cnt_unused
      /\ heap'[t][c].pbh_list = heap[t][c].pbh_list
      /\ \A u \in Thread, d \in Class : u # t \/ d # c => heap'[u][d] = heap[u][d]
      /\ \A u \in Thread : u # t => heap'[u] = heap[u]
  <2> DEFINE hp == heap'
  <2>1. FreeListSetTo(t, c, b, n, heap, hp)
    BY <1>1
  <2> HIDE DEF hp, n
  <2>2. /\ hp \in [Thread -> [Class -> HeapLists]]
        /\ hp[t][c].free_blk_list = b /\ hp[t][c].cnt_free = n
        /\ hp[t][c].ptr_to_unused = heap[t][c].ptr_to_unused
        /\ hp[t][c].cnt_unused = heap[t][c].cnt_unused
        /\ hp[t][c].pbh_list = heap[t][c].pbh_list
        /\ \A u \in Thread, d \in Class : u # t \/ d # c => hp[u][d] = heap[u][d]
        /\ \A u \in Thread : u # t => hp[u] = heap[u]
    BY <1>3, <1>4, <1>5, <2>1, FreeListSet
  <2> QED BY <2>2 DEF hp
<1>7. /\ next' \in [Block -> Ptr] /\ Relinked(next, next', b, list)
      /\ rest' \in [Thread -> Ptr] /\ rest'[t] = r /\ ButOf(t, rest, rest')
  BY <1>1, <1>4, <1>5 DEF Relinked, ButOf
<1>8. /\ PhaseOK(t)' /\ run'[t].num = 0 /\ Locals'
      /\ \A u \in Thread : u # t => run'[u] = run[u] /\ pc'[u] = pc[u]
  BY <1>0, <1>7, BackIs DEF Locals, MaxBlocks
<1>9. OthersIdle(t)
  BY <1>6, <1>7, <1>8 DEF OthersIdle, ButOf
<1>10. Shapes'
  BY <1>0, <1>6, <1>7, <1>8 DEF Shapes, Locals
<1>11. Here'
  <2> DEFINE nx == next'
             hp == heap'
             R2 == Hands'
             S2 == rest'
             o == out'
  <2>1. Handless(t, R1, R2)
    BY <1>2, <1>8, <1>9, HandGone
  <2>2. HeapsBut(t, c, heap, hp)
    BY <1>6 DEF HeapsBut, SameList
  <2>3. \/ /\ Relinked(next, nx, b, heap[t][c].free_blk_list)
           /\ hp[t][c].cnt_free = heap[t][c].cnt_free + 1 /\ S2 = rest
        \/ /\ Relinked(next, nx, b, NULL)
           /\ hp[t][c].cnt_free = 1 /\ S2[t] = heap[t][c].free_blk_list
    <3>1. CASE full
      BY <1>6, <1>7, <3>1
    <3>2. CASE ~full
      <4>1. rest' = rest
        BY <1>1, <1>4, <3>2
      <4> QED BY <1>6, <1>7, <3>2, <4>1
    <3> QED BY <3>1, <3>2
  <2>4. KeepsOne(next, heap, pbh, R1, rest, t, c, b, nx, hp, R2, S2)
    BY <1>2, <1>3, <1>6, <1>7, <2>1, <2>2, <2>3, Zenon DEF KeepsOne
  <2>5. Placed(next, heap, pbh, R1, rest, o, BlocksPerPbh)
    OBVIOUS
  <2> HIDE DEF nx, hp, R2, S2, o
  <2>6. Placed(nx, hp, pbh, R2, S2, o, BlocksPerPbh)
    BY <1>3, <2>4, <2>5, KeepOneMove
  <2> QED BY <2>6, HereNext DEF nx, hp, R2, S2, o
<1>12. Calm(t)
  <2>1. ASSUME NEW d \in Class
        PROVE  /\ heap'[t][d].ptr_to_unused = heap[t][d].ptr_to_unused
               /\ heap'[t][d].cnt_unused = heap[t][d].cnt_unused
               /\ heap'[t][d].pbh_list = heap[t][d].pbh_list
    <3>1. CASE d = c
      BY <1>6, <3>1
    <3>2. CASE d # c
      BY <1>6, <3>2
    <3> QED BY <3>1, <3>2
  <2>2. \A d \in Class : ListFits(t, d, {})
    BY <2>1, SameFits
  <2>3. cl'[t] >= cl[t]
    OBVIOUS
  <2> QED BY <1>9, <2>1, <2>2, <2>3 DEF Calm
<1>13. DoneOK(t)'
  <2>1. \A d \in Class : ~(d < 0)
    BY DEF Class
  <2> QED BY <2>1 DEF DoneOK
<1> QED BY <1>8, <1>10, <1>11, <1>12, <1>13, CalmKept

LEMMA SmallFreeStep ==
  ASSUME IInv, SpOf' = SpOf, NEW t \in Thread, NEW b \in out, SmallFree(t, b)
  PROVE  IInv'
<1>0. Shapes /\ Here /\ Mine(t) /\ PhaseOK(t) /\ DoneOK(t) /\ Locals
  BY DEF IInv, Mine, Shapes, Locals
<1>1. /\ pc[t] = "idle" /\ out' = out \ {b} /\ owner' = owner /\ pbh' = pbh /\ top' = top
      /\ cl' = cl
      /\ \/ /\ run' = [run EXCEPT ![t] = [first |-> b, last |-> b, num |-> 1,
                                          caller |-> "small_free"]]
            /\ pc' = [pc EXCEPT ![t] = "check"]
            /\ heap' = heap /\ next' = next /\ rest' = rest
         \/ FreeLocally(t, b) /\ Back(t)
  BY DEF SmallFree
<1>2. /\ out \in SUBSET Block /\ b \in Block /\ out' \subseteq Block
      /\ run[t].num = 0 /\ cl[t] = 0 /\ rest[t] = NULL
  <2>1. run[t] = NoRun /\ cl[t] = 0 /\ rest[t] = NULL
    BY <1>0, <1>1 DEF PhaseOK
  <2> QED BY <1>0, <1>1, <2>1, Fields DEF NoRun
<1>3. Hands[t].num = 0
  BY <1>2 DEF Hands, Hand
<1>4. ASSUME NEW R, GetsBack(Hands, t, b, R)
      PROVE  Placed(next, heap, pbh, R, rest, out', BlocksPerPbh)
  <2>1. Placed(next, heap, pbh, Hands, rest, out, BlocksPerPbh)
    BY <1>0 DEF Here
  <2>2. Placed(next, heap, pbh, R, rest, out \ {b}, BlocksPerPbh)
    BY <1>2, <1>4, <2>1, HandMove
  <2> QED BY <1>1, <2>2
<1>5. CASE FreeLocally(t, b) /\ Back(t)
  <2> DEFINE R1 == [u \in Thread |->
                      IF u = t THEN [first |-> b, last |-> b, num |-> 1, link |-> {}]
                      ELSE Hands[u]]
  <2>1. GetsBack(Hands, t, b, R1)
    BY <1>3 DEF GetsBack, ButOf
  <2>2. HasOne(t, b, R1)
    BY DEF HasOne, ButOf
  <2> HIDE DEF R1
  <2>3. Placed(next, heap, pbh, R1, rest, out', BlocksPerPbh)
    BY <1>4, <2>1
  <2> QED BY <1>1, <1>2, <1>5, <2>2, <2>3, FreeLocallyKept
<1>6. CASE /\ run' = [run EXCEPT ![t] = [first |-> b, last |-> b, num |-> 1,
                                         caller |-> "small_free"]]
           /\ pc' = [pc EXCEPT ![t] = "check"]
           /\ heap' = heap /\ next' = next /\ rest' = rest
  <2> DEFINE q == [first |-> b, last |-> b, num |-> 1, caller |-> "small_free"]
  <2>1. /\ q \in [first : Ptr, last : Ptr, num : Int,
                  caller : {"none", "small_free", "tlh_return_list"}]
        /\ q.first = b /\ q.last = b /\ q.num = 1 /\ q.caller = "small_free"
    BY <1>2 DEF Ptr
  <2>2. run' = [run EXCEPT ![t] = q]
    BY <1>6
  <2> HIDE DEF q
  <2>3. Locals' /\ pc'[t] = "check" /\ run'[t] = q
        /\ \A u \in Thread : u # t => run'[u] = run[u] /\ pc'[u] = pc[u]
    BY <1>0, <1>1, <1>6, <2>1, <2>2 DEF Locals, MaxBlocks
  <2>4. OthersIdle(t)
    BY <1>1, <1>6, <2>3 DEF OthersIdle
  <2>5. Calm(t)
    <3>1. cl'[t] >= cl[t]
      BY <1>1, <1>2
    <3>2. \A c \in Class : ListFits(t, c, {})
      BY <1>6, SameFits
    <3> QED BY <1>1, <1>6, <2>4, <3>1, <3>2 DEF Calm
  <2>6. Shapes'
    BY <1>0, <1>1, <1>2, <1>6, <2>3 DEF Shapes, Locals
  <2>7. Here'
    <3> DEFINE R == Hands'
    <3>1. GetsBack(Hands, t, b, R)
      BY <1>3, <2>1, <2>3, <2>4, HandsBut DEF HandAs, GetsBack, ButOf
    <3> HIDE DEF R
    <3>2. Placed(next, heap, pbh, R, rest, out', BlocksPerPbh)
      BY <1>4, <3>1
    <3> QED BY <1>1, <1>6, <3>2, HereNext DEF R
  <2>8. PhaseOK(t)'
    BY <1>0, <1>1, <1>2, <1>6, <2>1, <2>3 DEF PhaseOK, InHand
  <2>9. DoneOK(t)'
    BY <1>0, <1>1, <1>6 DEF DoneOK
  <2> QED BY <2>5, <2>6, <2>7, <2>8, <2>9, CalmKept
<1> QED BY <1>1, <1>5, <1>6

FreeSetTo(p, f, n, hd, hd2) ==
  hd2 = [hd EXCEPT ![p].free_list = f, ![p].cnt_free = n]

LEMMA FreeSet ==
  ASSUME NEW hd \in [Pb -> Headers], NEW p \in Pb, NEW f \in Ptr, NEW n \in Int,
         NEW hd2, FreeSetTo(p, f, n, hd, hd2)
  PROVE  /\ hd2 \in [Pb -> Headers]
         /\ hd2[p].sizeclass = hd[p].sizeclass /\ hd2[p].remote = hd[p].remote
         /\ hd2[p].free_list = f /\ hd2[p].cnt_free = n
         /\ hd2[p].unallocated = hd[p].unallocated /\ hd2[p].cnt_unused = hd[p].cnt_unused
         /\ \A q \in Pb : q # p => hd2[q] = hd[q]
<1> DEFINE h2 == [hd[p] EXCEPT !.free_list = f, !.cnt_free = n]
<1>1. hd2 = [hd EXCEPT ![p] = h2] /\ hd[p] \in Headers
  BY DEF FreeSetTo
<1>2. /\ h2.sizeclass = hd[p].sizeclass /\ h2.remote = hd[p].remote
      /\ h2.unallocated = hd[p].unallocated /\ h2.cnt_unused = hd[p].cnt_unused
      /\ h2.free_list = f /\ h2.cnt_free = n
      /\ DOMAIN h2 = DOMAIN hd[p] /\ h2 = [x \in DOMAIN h2 |-> h2[x]]
  BY <1>1 DEF Headers
<1> HIDE DEF h2
<1>3. h2 \in Headers
  BY <1>1, <1>2 DEF Headers
<1>4. hd2 \in [Pb -> Headers] /\ hd2[p] = h2 /\ \A q \in Pb : q # p => hd2[q] = hd[q]
  BY <1>1, <1>3
<1> QED BY <1>2, <1>4

\* The two branches of pbh_add_blocks: page block p is whole, ...
AddsAll(t, r, p, c, l) ==
  /\ Counted(pbh[p]) + r.num = BlocksPerPbh[c]
  /\ PbhListSetTo(t, c, l, heap, heap') /\ PbFree(p)

\* ... or the run goes to its header.
AddsSome(t, r, p, c, l) ==
  /\ PbhListSetTo(t, c, <<p>> \o l, heap, heap')
  /\ next' = [next EXCEPT ![r.last] = pbh[p].free_list]
  /\ FreeSetTo(p, r.first, pbh[p].cnt_free + r.num, pbh, pbh')
  /\ owner' = owner

LEMMA AddBlocksIs ==
  ASSUME Shapes, Here, NEW t \in Thread, NEW r, AddBlocks(t, r), r.num \in Nat,
         NEW p \in Pb, p = r.first[1], NEW c \in Class, pbh[p].sizeclass = c,
         NEW l, l = Without(heap[t][c].pbh_list, p)
  PROVE  AddsAll(t, r, p, c, l) \/ AddsSome(t, r, p, c, l)
<1> DEFINE h == pbh[p]
           n == r.num
           m == <<p>> \o l
<1>1. \/ /\ CntRef(h) = n /\ PbFree(p)
         /\ heap' = [heap EXCEPT ![t][c].pbh_list = Without(@, p)]
      \/ /\ heap' = [heap EXCEPT ![t][c].pbh_list = <<p>> \o Without(@, p)]
         /\ next' = [next EXCEPT ![r.last] = h.free_list]
         /\ pbh' = [pbh EXCEPT ![p].free_list = r.first, ![p].cnt_free = @ + n]
         /\ owner' = owner
  BY Zenon DEF AddBlocks, LastOnes, ToFront
<1>2. heap \in [Thread -> [Class -> HeapLists]] /\ pbh \in [Pb -> Headers]
  BY DEF Shapes
<1>3. CntRef(h) = n => Counted(h) + n = BlocksPerPbh[c]
  <2> DEFINE k == Counted(h)
             b == BlocksPerPbh[c]
  <2>1. k \in Int /\ b \in Int /\ n \in Int
    <3>1. h.cnt_free \in Nat /\ h.cnt_unused \in Nat /\ h.remote.cnt \in Nat
      BY Counts
    <3>2. k \in Int
      BY <3>1 DEF Counted
    <3>3. b \in Int
      BY Layout DEF Shapes
    <3> QED BY <3>2, <3>3
  <2>2. CntRef(h) = b - k
    BY DEF CntRef
  <2> HIDE DEF k, b, n
  <2> QED BY <2>1, <2>2 DEF k, b, n
<1>4. CASE /\ CntRef(h) = n /\ PbFree(p)
           /\ heap' = [heap EXCEPT ![t][c].pbh_list = Without(@, p)]
  <2>1. PbhListSetTo(t, c, l, heap, heap')
    BY <1>2, <1>4 DEF PbhListSetTo
  <2> QED BY <1>3, <1>4, <2>1 DEF AddsAll
<1>5. CASE /\ heap' = [heap EXCEPT ![t][c].pbh_list = <<p>> \o Without(@, p)]
           /\ next' = [next EXCEPT ![r.last] = h.free_list]
           /\ pbh' = [pbh EXCEPT ![p].free_list = r.first, ![p].cnt_free = @ + n]
           /\ owner' = owner
  <2>1. PbhListSetTo(t, c, m, heap, heap')
    BY <1>2, <1>5 DEF PbhListSetTo
  <2>2. FreeSetTo(p, r.first, h.cnt_free + n, pbh, pbh')
    BY <1>2, <1>5 DEF FreeSetTo
  <2> QED BY <1>5, <2>1, <2>2, Zenon DEF AddsSome
<1> QED BY <1>1, <1>4, <1>5, Zenon

LEMMA AddBlocksKept ==
  ASSUME IInv, SpOf' = SpOf, NEW t \in Thread, NEW r, AddBlocks(t, r), Back(t),
         top' = top, cl' = cl, out' = out,
         NEW R1, HasRun(t, r, R1), r.num # 0, OwnerOf(r.first[1]) = t,
         rest' \in [Thread -> Ptr], ButOf(t, rest, rest'),
         Placed(next, heap, pbh, R1, rest', out, BlocksPerPbh)
  PROVE  IInv'
<1> DEFINE p == r.first[1]
           c == pbh[p].sizeclass
           h == heap[t][c]
           l == Without(h.pbh_list, p)
<1>0. Shapes /\ Here /\ Mine(t) /\ DoneOK(t) /\ Locals
  BY DEF IInv, Mine, Shapes, Locals
<1>1. /\ R1[t].num = r.num /\ R1[t].first = r.first /\ R1[t].last = r.last
      /\ ButOf(t, Hands, R1)
  BY DEF HasRun
<1>2. /\ r.first \in Block /\ r.last \in Block /\ r.num \in Nat /\ p \in Pb
      /\ c \in Class
  <2> DEFINE S == rest'
  <2>1. Placed(next, heap, pbh, R1, S, out, BlocksPerPbh) /\ R1[t].num # 0
    BY <1>1
  <2> HIDE DEF S
  <2>2. /\ R1[t].first \in Block /\ R1[t].last \in Block /\ R1[t].num \in Nat
        /\ R1[t].first[1] \in Pb /\ pbh[R1[t].first[1]].sizeclass # 0
    BY <2>1, PlacedHand
  <2> QED BY <1>0, <1>1, <2>2, Fields
<1>3. OwnerOf(p) = t
  OBVIOUS
<1>4. AddsAll(t, r, p, c, l) \/ AddsSome(t, r, p, c, l)
  BY <1>0, <1>2, AddBlocksIs
<1> HIDE DEF p, c
<1>5. /\ h.pbh_list \in Seq(Pb) /\ l \in Seq(Pb) /\ <<p>> \o l \in Seq(Pb)
      /\ Once(h.pbh_list) => /\ Once(l) /\ ToSet(l) = ToSet(h.pbh_list) \ {p}
                             /\ Once(<<p>> \o l)
                             /\ ToSet(<<p>> \o l) = ToSet(h.pbh_list) \cup {p}
  <2>1. h.pbh_list \in Seq(Pb)
    BY <1>0, <1>2, Fields
  <2> QED BY <1>2, <2>1, WithoutIs, ToFrontIs
<1>6. c >= cl[t] => Once(h.pbh_list)
  BY <1>0, <1>2 DEF Mine, PbhListOK
<1>7. c > cl[t] => c >= cl[t]
  <2>1. c \in Int /\ cl[t] \in Int
    BY <1>0, <1>2, Fields DEF Class
  <2> QED BY <2>1
<1>8. pbh[p].sizeclass = c
  BY DEF c
<1> HIDE DEF h, l
<1>9. /\ PhaseOK(t)' /\ run'[t].num = 0 /\ Locals'
      /\ \A u \in Thread : u # t => run'[u] = run[u] /\ pc'[u] = pc[u]
  BY <1>0, BackIs DEF Locals, MaxBlocks
<1>10. ASSUME NEW m \in Seq(Pb), PbhListSetTo(t, c, m, heap, heap')
       PROVE  /\ heap' \in [Thread -> [Class -> HeapLists]]
              /\ heap'[t][c].pbh_list = m
              /\ \A d \in Class : d # c => heap'[t][d] = heap[t][d]
              /\ \A d \in Class : /\ heap'[t][d].ptr_to_unused = heap[t][d].ptr_to_unused
                                  /\ heap'[t][d].cnt_unused = heap[t][d].cnt_unused
              /\ HeapsSame(heap, heap') /\ OthersIdle(t) /\ DoneOK(t)'
              /\ Handless(t, R1, Hands')
  <2>1. /\ heap' \in [Thread -> [Class -> HeapLists]]
        /\ heap'[t][c].free_blk_list = heap[t][c].free_blk_list
        /\ heap'[t][c].cnt_free = heap[t][c].cnt_free
        /\ heap'[t][c].ptr_to_unused = heap[t][c].ptr_to_unused
        /\ heap'[t][c].cnt_unused = heap[t][c].cnt_unused
        /\ heap'[t][c].pbh_list = m
        /\ \A u \in Thread, d \in Class : u # t \/ d # c => heap'[u][d] = heap[u][d]
        /\ \A u \in Thread : u # t => heap'[u] = heap[u]
    <3> DEFINE hp == heap'
    <3>1. PbhListSetTo(t, c, m, heap, hp) /\ heap \in [Thread -> [Class -> HeapLists]]
      BY <1>0, <1>10 DEF Shapes
    <3> HIDE DEF hp
    <3>2. /\ hp \in [Thread -> [Class -> HeapLists]]
          /\ hp[t][c].free_blk_list = heap[t][c].free_blk_list
          /\ hp[t][c].cnt_free = heap[t][c].cnt_free
          /\ hp[t][c].ptr_to_unused = heap[t][c].ptr_to_unused
          /\ hp[t][c].cnt_unused = heap[t][c].cnt_unused
          /\ hp[t][c].pbh_list = m
          /\ \A u \in Thread, d \in Class : u # t \/ d # c => hp[u][d] = heap[u][d]
          /\ \A u \in Thread : u # t => hp[u] = heap[u]
      BY <1>2, <3>1, PbhListSet
    <3> QED BY <3>2 DEF hp
  <2>2. HeapsSame(heap, heap')
    <3>1. \A u \in Thread, d \in Class : u # t \/ d # c => SameList(heap'[u][d], heap[u][d])
      BY <2>1 DEF SameList
    <3>2. SameList(heap'[t][c], heap[t][c])
      BY <2>1 DEF SameList
    <3> QED BY <3>1, <3>2 DEF HeapsSame
  <2>3. OthersIdle(t)
    BY <1>9, <2>1 DEF OthersIdle, ButOf
  <2>4. \A d \in Class : SameList(heap'[t][d], heap[t][d])
    BY <2>2 DEF HeapsSame
  <2>5. DoneOK(t)'
    BY <1>0, <2>4 DEF DoneOK, SameList
  <2>6. Handless(t, R1, Hands')
    BY <1>1, <1>9, <2>3, HandGone
  <2> QED BY <2>1, <2>2, <2>3, <2>4, <2>5, <2>6 DEF SameList
<1>11. CASE AddsAll(t, r, p, c, l)
  <2>1. /\ Counted(pbh[p]) + r.num = BlocksPerPbh[c]
        /\ PbhListSetTo(t, c, l, heap, heap') /\ PbFree(p)
    BY <1>11 DEF AddsAll
  <2>2. /\ heap' \in [Thread -> [Class -> HeapLists]]
        /\ heap'[t][c].pbh_list = l
        /\ \A d \in Class : d # c => heap'[t][d] = heap[t][d]
        /\ heap'[t][c].ptr_to_unused = heap[t][c].ptr_to_unused
        /\ heap'[t][c].cnt_unused = heap[t][c].cnt_unused
        /\ HeapsSame(heap, heap') /\ OthersIdle(t) /\ DoneOK(t)'
        /\ Handless(t, R1, Hands')
    BY <1>2, <1>5, <1>10, <2>1
  <2>3. /\ owner' \in [Superpage -> Thread \cup {NULL, DEAD_OWNER}]
        /\ pbh' \in [Pb -> Headers] /\ next' \in [Block -> Ptr]
        /\ pbh'[p] = FreePbh /\ \A q \in Pb : q # p => pbh'[q] = pbh[q]
        /\ \A b \in Block : next'[b] = IF b[1] = p THEN NULL ELSE next[b]
    BY <1>0, <1>2, <2>1, PbFreeOwner
  <2>4. Shapes'
    BY <1>0, <1>9, <2>2, <2>3 DEF Shapes, Locals
  <2>5. Here'
    <3> DEFINE nx == next'
               hd == pbh'
               hp == heap'
               R2 == Hands'
               S == rest'
    <3>1. Freed({p}, next, pbh, nx, hd)
      BY <2>3 DEF Freed
    <3>2. Fit(BlocksPerPbh)
      BY <1>0, Layout DEF Fit, Shapes
    <3>3. R1[t].first[1] = p
      BY <1>1 DEF p
    <3>4. FreesWithRun(next, heap, pbh, R1, BlocksPerPbh, t, c, p, nx, hd, hp, R2)
      BY <1>1, <1>8, <2>1, <2>2, <3>1, <3>2, <3>3 DEF FreesWithRun
    <3>5. Placed(next, heap, pbh, R1, S, out, BlocksPerPbh)
      OBVIOUS
    <3> HIDE DEF nx, hd, hp, R2, S
    <3>6. Placed(nx, hp, hd, R2, S, out, BlocksPerPbh)
      BY <1>2, <3>4, <3>5, RunFreed
    <3> QED BY <3>6, HereNext DEF nx, hd, hp, R2, S
  <2>6. ListFits(t, c, {p})
    BY <1>5, <1>6, <1>7, <2>2 DEF ListFits, h
  <2>7. FreesOne(t, p, c)
    <3>1. cl'[t] >= cl[t]
      BY <1>0, Fields
    <3> QED BY <1>3, <1>8, <2>1, <2>2, <2>6, <3>1 DEF FreesOne, p
  <2> QED BY <1>2, <1>9, <2>2, <2>4, <2>5, <2>7, FreesOneKept
<1>12. CASE AddsSome(t, r, p, c, l)
  <2> DEFINE m == <<p>> \o l
             f == r.first
             n == pbh[p].cnt_free + r.num
  <2>1. /\ PbhListSetTo(t, c, m, heap, heap')
        /\ next' = [next EXCEPT ![r.last] = pbh[p].free_list]
        /\ FreeSetTo(p, f, n, pbh, pbh')
        /\ owner' = owner
    BY <1>12 DEF AddsSome
  <2>2. /\ heap' \in [Thread -> [Class -> HeapLists]]
        /\ heap'[t][c].pbh_list = m
        /\ \A d \in Class : d # c => heap'[t][d] = heap[t][d]
        /\ \A d \in Class : /\ heap'[t][d].ptr_to_unused = heap[t][d].ptr_to_unused
                            /\ heap'[t][d].cnt_unused = heap[t][d].cnt_unused
        /\ HeapsSame(heap, heap') /\ OthersIdle(t) /\ DoneOK(t)'
        /\ Handless(t, R1, Hands')
    BY <1>5, <1>10, <2>1
  <2>3. /\ pbh' \in [Pb -> Headers]
        /\ pbh'[p].sizeclass = pbh[p].sizeclass /\ pbh'[p].remote = pbh[p].remote
        /\ pbh'[p].free_list = f /\ pbh'[p].cnt_free = n
        /\ pbh'[p].unallocated = pbh[p].unallocated
        /\ pbh'[p].cnt_unused = pbh[p].cnt_unused
        /\ \A q \in Pb : q # p => pbh'[q] = pbh[q]
    <3> DEFINE hd == pbh'
    <3>1. n \in Int
      <4>1. pbh[p].cnt_free \in Int /\ r.num \in Int
        BY <1>0, <1>2, Fields
      <4> QED BY <4>1
    <3>2. /\ FreeSetTo(p, f, n, pbh, hd) /\ pbh \in [Pb -> Headers] /\ f \in Ptr
      BY <1>0, <1>2, <2>1 DEF Shapes, Ptr
    <3> HIDE DEF hd, f, n
    <3>3. /\ hd \in [Pb -> Headers]
          /\ hd[p].sizeclass = pbh[p].sizeclass /\ hd[p].remote = pbh[p].remote
          /\ hd[p].free_list = f /\ hd[p].cnt_free = n
          /\ hd[p].unallocated = pbh[p].unallocated /\ hd[p].cnt_unused = pbh[p].cnt_unused
          /\ \A q \in Pb : q # p => hd[q] = pbh[q]
      BY <1>2, <3>1, <3>2, FreeSet
    <3> QED BY <3>3 DEF hd
  <2>4. next' \in [Block -> Ptr] /\ Relinked(next, next', r.last, pbh[p].free_list)
    <3>1. next \in [Block -> Ptr] /\ pbh[p].free_list \in Ptr
      BY <1>0, <1>2, Fields
    <3> QED BY <1>2, <2>1, <3>1 DEF Relinked
  <2>5. Shapes'
    BY <1>0, <1>9, <2>1, <2>2, <2>3, <2>4 DEF Shapes, Locals
  <2>6. Here'
    <3> DEFINE nx == next'
               hd == pbh'
               hp == heap'
               R2 == Hands'
               S == rest'
    <3>1. HdrsBut(p, pbh, hd)
      BY <2>3 DEF HdrsBut, SameHdr
    <3>2. R1[t].first[1] = p
      BY <1>1 DEF p
    <3>3. AddsFree(next, pbh, R1, t, p, nx, hd, R2)
      BY <1>1, <2>2, <2>3, <2>4, <3>1, <3>2 DEF AddsFree
    <3>4. Placed(next, heap, pbh, R1, S, out, BlocksPerPbh) /\ HeapsSame(heap, hp)
      BY <2>2
    <3> HIDE DEF nx, hd, hp, R2, S
    <3>5. Placed(nx, heap, hd, R2, S, out, BlocksPerPbh)
      BY <1>2, <3>3, <3>4, AddFreeMove
    <3>6. Placed(nx, hp, hd, R2, S, out, BlocksPerPbh)
      BY <3>4, <3>5, SameHeapsMove
    <3> QED BY <3>6, HereNext DEF nx, hd, hp, R2, S
  <2>7. Calm(t)
    <3>1. cl'[t] >= cl[t]
      BY <1>0, Fields
    <3>2. ListFits(t, c, {})
      BY <1>3, <1>5, <1>6, <1>7, <1>8, <2>2 DEF ListFits, h, p
    <3>3. \A d \in Class : ListFits(t, d, {})
      <4>1. \A d \in Class : d # c => ListFits(t, d, {})
        BY <2>2, SameFits
      <4> QED BY <3>2, <4>1
    <3>4. \A q \in Pb : /\ pbh'[q].sizeclass = pbh[q].sizeclass
                        /\ pbh[q].sizeclass = 0 => pbh'[q] = pbh[q]
                        /\ pbh'[q].cnt_unused = pbh[q].cnt_unused
      <4>1. c # 0
        BY <1>2 DEF Class
      <4> QED BY <1>8, <2>3, <4>1
    <3> QED BY <2>1, <2>2, <3>1, <3>3, <3>4 DEF Calm
  <2> QED BY <1>9, <2>2, <2>5, <2>6, <2>7, CalmKept
<1> QED BY <1>4, <1>11, <1>12

LEMMA GoOnLocallyStep ==
  ASSUME IInv, SpOf' = SpOf, NEW t \in Thread, GoOnLocally(t)
  PROVE  IInv'
<1> DEFINE q == run[t]
<1>0. Shapes /\ Here /\ Mine(t) /\ PhaseOK(t) /\ Locals
  BY DEF IInv, Mine, Shapes, Locals
<1>1. /\ pc[t] = "local" /\ Back(t) /\ top' = top /\ cl' = cl /\ out' = out
      /\ \/ /\ q.caller = "small_free" /\ FreeLocally(t, q.first)
            /\ owner' = owner /\ pbh' = pbh
         \/ AddBlocks(t, q) /\ rest' = rest
  BY DEF GoOnLocally
<1>2. /\ q.num # 0 /\ q.first \in Block /\ OwnerOf(q.first[1]) = t
      /\ q.caller = "small_free" => /\ cl[t] = 0 /\ rest[t] = NULL
                                    /\ q.num = 1 /\ q.last = q.first
  BY <1>0, <1>1 DEF PhaseOK, InHand
<1>3. HasRun(t, q, Hands)
  BY DEF HasRun, ButOf, Hands, Hand
<1>4. Placed(next, heap, pbh, Hands, rest, out, BlocksPerPbh)
  BY <1>0 DEF Here
<1>5. CASE /\ q.caller = "small_free" /\ FreeLocally(t, q.first)
           /\ owner' = owner /\ pbh' = pbh
  <2>1. HasOne(t, q.first, Hands)
    BY <1>2, <1>3, <1>5 DEF HasOne, HasRun
  <2>2. out' \subseteq Block /\ Placed(next, heap, pbh, Hands, rest, out', BlocksPerPbh)
    BY <1>0, <1>1, <1>4 DEF Shapes
  <2> QED BY <1>1, <1>2, <1>5, <2>1, <2>2, FreeLocallyKept
<1>6. CASE AddBlocks(t, q) /\ rest' = rest
  <2>1. rest' \in [Thread -> Ptr] /\ ButOf(t, rest, rest')
        /\ Placed(next, heap, pbh, Hands, rest', out, BlocksPerPbh)
    BY <1>0, <1>4, <1>6 DEF Locals, ButOf
  <2> QED BY <1>1, <1>2, <1>3, <1>6, <2>1, AddBlocksKept
<1> QED BY <1>1, <1>5, <1>6

LEMMA MinIs ==
  ASSUME NEW S, S \subseteq Nat, S # {}
  PROVE  Min(S) \in S /\ \A k \in S : Min(S) <= k
<1>1. \E n \in S : \A k \in S : n <= k
  BY Least
<1> QED BY <1>1 DEF Min

\* The places where a run from b on may end.
Ends(b) == {k \in 1 .. MaxBlocks : After(b)[k] = NULL \/ After(b)[k][1] # b[1]}

\* tlh_return_list takes the next run.
LEMMA RunSplit ==
  ASSUME IInv, NEW t \in Thread, pc[t] = "list", NEW b, b = rest[t],
         NEW n, n = RunLength(b)
  PROVE  /\ n \in 1 .. MaxBlocks /\ n # 0 /\ n \in Int
         /\ b \in Block /\ After(b)[n] \in Ptr /\ After(b)[n - 1] \in Block
         /\ run[t].num = 0
         /\ \A R2, S2 :
              /\ ButOf(t, Hands, R2) /\ R2[t].num = n /\ R2[t].first = b
              /\ R2[t].last = After(b)[n - 1] /\ R2[t].link = {}
              /\ S2[t] = After(b)[n] /\ ButOf(t, rest, S2)
              => Placed(next, heap, pbh, R2, S2, out, BlocksPerPbh)
<1> DEFINE N == MaxBlocks
           a == After(b)
<1>0. Shapes /\ Here /\ Room /\ PhaseOK(t)
  BY DEF IInv, Mine
<1>1. N \in Nat /\ b # NULL /\ b \in Block /\ run[t].num = 0
  <2>1. rest[t] # NULL /\ run[t] = NoRun
    BY <1>0 DEF PhaseOK
  <2>2. rest[t] \in Ptr
    BY <1>0, Fields
  <2> QED BY <1>0, <2>1, <2>2, Layout DEF Shapes, NoRun, Ptr
<1>2. IsWalk(next, a, N, b)
  BY <1>1, AfterIsWalk
<1>3. PICK w, r : Placing(w, r, next, heap, pbh, Hands, rest, out, BlocksPerPbh)
  BY <1>0 DEF Here, Placed
<1>4. RestOK(next, w, r, t, b)
      /\ \A x \in Block : Sited(w, pbh, Hands, out, BlocksPerPbh, x)
  BY <1>3, Sides
<1>5. PICK L : IsList(next, w, r, RestAt(t), b, L)
  BY <1>4 DEF RestOK
<1>6. L \in Nat /\ L # 0 /\ L <= N
  <2>1. L \in Nat /\ L # 0
    BY <1>1, <1>5 DEF IsList, IsSeg
  <2>2. Cardinality(At(w, RestAt(t))) = L
    BY <1>5, SegCount DEF IsList
  <2>3. RestAt(t) # Nowhere
    BY DEF RestAt, Nowhere
  <2>4. L <= MaxBlocks
    BY <1>0, <1>4, <2>1, <2>2, <2>3, AtFits
  <2> QED BY <2>1, <2>4
<1> HIDE DEF N, a
<1>7. /\ \A k \in 0 .. N : k < L => a[k] \in Block
      /\ \A k \in 0 .. N : k >= L => a[k] = NULL
  BY <1>1, <1>2, <1>5, WalkList
<1>8. /\ Ends(b) \subseteq Nat /\ L \in Ends(b)
      /\ \A k \in 1 .. N : k \in Ends(b) <=> (a[k] = NULL \/ a[k][1] # b[1])
  <2>1. \A k \in 1 .. N : k \in Ends(b) <=> (a[k] = NULL \/ a[k][1] # b[1])
    BY DEF Ends, N, a
  <2>2. L \in 1 .. N /\ L \in 0 .. N /\ L >= L
    BY <1>1, <1>6
  <2>3. \A k \in Ends(b) : k \in 1 .. N
    BY DEF Ends, N
  <2>4. \A k \in Ends(b) : k \in Nat
    BY <1>1, <2>3
  <2> QED BY <1>7, <2>1, <2>2, <2>4
<1>9. /\ n \in Ends(b) /\ n \in Nat /\ n \in 1 .. N
      /\ \A k \in Ends(b) : n <= k
  <2>1. n = Min(Ends(b))
    BY DEF RunLength, Ends
  <2>2. n \in Ends(b) /\ \A k \in Ends(b) : n <= k
    BY <1>8, <2>1, MinIs
  <2> QED BY <1>8, <2>2 DEF Ends, N
<1>10. n <= L /\ n - 1 \in 0 .. N /\ n - 1 < L /\ n \in 0 .. N /\ a[0] = b
  <2>1. a[0] = b
    BY <1>2 DEF IsWalk
  <2> QED BY <1>1, <1>6, <1>8, <1>9, <2>1
<1>11. a[n - 1] \in Block /\ a[n] \in Ptr
  <2>1. a[n - 1] \in Block
    BY <1>7, <1>10
  <2>2. n < L \/ n >= L
    BY <1>6, <1>9
  <2> QED BY <1>7, <1>10, <2>1, <2>2 DEF Ptr
<1>12. InOnePage(a, n, b[1])
  <2>1. ASSUME NEW k \in 0 .. n - 1 PROVE a[k] # NULL /\ a[k][1] = b[1]
    <3>1. CASE k = 0
      BY <1>1, <1>10, <3>1
    <3>2. CASE k # 0
      <4>1. k \in 1 .. N /\ ~(n <= k)
        BY <1>1, <1>9, <3>2
      <4> QED BY <1>8, <1>9, <4>1
    <3> QED BY <3>1, <3>2
  <2> QED BY <2>1 DEF InOnePage
<1>13. ASSUME NEW R2, NEW S2,
              /\ ButOf(t, Hands, R2) /\ R2[t].num = n /\ R2[t].first = b
              /\ R2[t].last = a[n - 1] /\ R2[t].link = {}
              /\ S2[t] = a[n] /\ ButOf(t, rest, S2)
       PROVE  Placed(next, heap, pbh, R2, S2, out, BlocksPerPbh)
  <2>1. Hands[t].num = 0
    BY <1>1 DEF Hands, Hand
  <2>2. SplitsOff(next, Hands, rest, t, N, a, n, R2, S2)
    BY <1>1, <1>2, <1>9, <1>12, <1>13, <2>1 DEF SplitsOff
  <2>3. Placed(next, heap, pbh, Hands, rest, out, BlocksPerPbh)
    BY <1>0 DEF Here
  <2> QED BY <2>2, <2>3, SplitMove
<1>14. n # 0 /\ n \in Int
  BY <1>1, <1>9
<1> QED BY <1>1, <1>9, <1>11, <1>13, <1>14 DEF N, a

LEMMA ReturnRunStep ==
  ASSUME IInv, SpOf' = SpOf, NEW t \in Thread, ReturnRun(t)
  PROVE  IInv'
<1> DEFINE b == rest[t]
           n == RunLength(b)
           q == [first |-> b, last |-> After(b)[n - 1], num |-> n,
                 caller |-> "tlh_return_list"]
<1>0. Shapes /\ Here /\ Mine(t) /\ PhaseOK(t) /\ DoneOK(t) /\ Locals
  BY DEF IInv, Mine, Shapes, Locals
<1>1. /\ pc[t] = "list" /\ rest' = [rest EXCEPT ![t] = After(b)[n]]
      /\ top' = top /\ cl' = cl /\ out' = out
      /\ \/ OwnerOf(b[1]) = t /\ AddBlocks(t, q) /\ Back(t)
         \/ /\ run' = [run EXCEPT ![t] = q] /\ pc' = [pc EXCEPT ![t] = "check"]
            /\ owner' = owner /\ pbh' = pbh /\ next' = next /\ heap' = heap
  BY DEF ReturnRun
<1> DEFINE x == After(b)[n - 1]
           z == After(b)[n]
<1>2. /\ n \in 1 .. MaxBlocks /\ n # 0 /\ n \in Int
      /\ b \in Block /\ z \in Ptr /\ x \in Block
      /\ run[t].num = 0
      /\ \A R2, S2 :
           /\ ButOf(t, Hands, R2) /\ R2[t].num = n /\ R2[t].first = b
           /\ R2[t].last = x /\ R2[t].link = {}
           /\ S2[t] = z /\ ButOf(t, rest, S2)
           => Placed(next, heap, pbh, R2, S2, out, BlocksPerPbh)
  BY <1>1, RunSplit
<1>3. /\ q.first = b /\ q.last = x /\ q.num = n /\ q.caller = "tlh_return_list"
      /\ rest' = [rest EXCEPT ![t] = z]
  BY <1>1
<1>4. q \in [first : Ptr, last : Ptr, num : Int,
             caller : {"none", "small_free", "tlh_return_list"}]
  BY <1>2 DEF Ptr
<1> HIDE DEF n, q, x, z
<1>5. rest' \in [Thread -> Ptr] /\ rest'[t] = z /\ ButOf(t, rest, rest')
  BY <1>0, <1>2, <1>3 DEF Locals, ButOf
<1>6. CASE OwnerOf(b[1]) = t /\ AddBlocks(t, q) /\ Back(t)
  <2> DEFINE R1 == [u \in Thread |->
                      IF u = t THEN [first |-> b, last |-> x, num |-> n, link |-> {}]
                      ELSE Hands[u]]
             S == rest'
  <2>1. /\ ButOf(t, Hands, R1) /\ R1[t].num = n /\ R1[t].first = b
        /\ R1[t].last = x /\ R1[t].link = {}
    BY DEF ButOf
  <2>2. S[t] = z /\ ButOf(t, rest, S)
    BY <1>5
  <2> HIDE DEF R1, S
  <2>3. Placed(next, heap, pbh, R1, S, out, BlocksPerPbh)
    BY <1>2, <2>1, <2>2
  <2>4. HasRun(t, q, R1)
    BY <1>3, <2>1 DEF HasRun
  <2>5. Placed(next, heap, pbh, R1, rest', out, BlocksPerPbh)
    BY <2>3 DEF S
  <2> QED BY <1>1, <1>2, <1>3, <1>5, <1>6, <2>4, <2>5, AddBlocksKept
<1>7. CASE /\ run' = [run EXCEPT ![t] = q] /\ pc' = [pc EXCEPT ![t] = "check"]
           /\ owner' = owner /\ pbh' = pbh /\ next' = next /\ heap' = heap
  <2>1. Locals' /\ pc'[t] = "check" /\ run'[t] = q
        /\ \A u \in Thread : u # t => run'[u] = run[u] /\ pc'[u] = pc[u]
    BY <1>0, <1>1, <1>4, <1>5, <1>7 DEF Locals, MaxBlocks
  <2>2. OthersIdle(t)
    BY <1>1, <1>5, <1>7, <2>1 DEF OthersIdle, ButOf
  <2>3. Calm(t)
    <3>1. cl'[t] >= cl[t]
      BY <1>0, <1>1, Fields
    <3>2. \A c \in Class : ListFits(t, c, {})
      BY <1>7, SameFits
    <3> QED BY <1>1, <1>7, <2>2, <3>1, <3>2 DEF Calm
  <2>4. Shapes'
    BY <1>0, <1>1, <1>7, <2>1 DEF Shapes, Locals
  <2>5. Here'
    <3> DEFINE R == Hands'
               S == rest'
    <3>1. /\ ButOf(t, Hands, R) /\ R[t].num = n /\ R[t].first = b
          /\ R[t].last = x /\ R[t].link = {}
      BY <1>3, <2>1, <2>2, HandsBut DEF HandAs, ButOf
    <3>2. S[t] = z /\ ButOf(t, rest, S)
      BY <1>5
    <3> HIDE DEF R, S
    <3>3. Placed(next, heap, pbh, R, S, out, BlocksPerPbh)
      BY <1>2, <3>1, <3>2
    <3> QED BY <1>1, <1>7, <3>3, HereNext DEF R, S
  <2>6. PhaseOK(t)'
    BY <1>0, <1>1, <1>2, <1>3, <1>7, <2>1 DEF PhaseOK, InHand
  <2>7. DoneOK(t)'
    BY <1>0, <1>1, <1>7 DEF DoneOK
  <2> QED BY <2>3, <2>4, <2>5, <2>6, <2>7, CalmKept
<1> QED BY <1>1, <1>6, <1>7

(***************************************************************************)
(* The inductive invariant holds                                           *)
(***************************************************************************)
LEMMA InitPlaced ==
  ASSUME Init
  PROVE  Here
<1> DEFINE w == [b \in Block |-> Nowhere]
           r == [b \in Block |-> 0]
<1>1. /\ heap = [t \in Thread |-> NoHeap] /\ pbh = [p \in Pb |-> FreePbh]
      /\ out = {} /\ rest = [t \in Thread |-> NULL]
      /\ run = [t \in Thread |-> NoRun]
  BY DEF Init
<1>2. \A b \in Block : w[b] = Nowhere
  OBVIOUS
<1>3. w \in [Block -> Spot] /\ r \in [Block -> Nat]
  BY Spots
<1> HIDE DEF w, r
<1>4. \A l : l # Nowhere => IsList(next, w, r, l, NULL, 0) /\ IsChunk(w, l, NULL, 0)
  <2> TAKE l
  <2> HAVE l # Nowhere
  <2>1. Empty(w, l)
    BY <1>2 DEF Empty
  <2> QED BY <2>1, EmptyIs
<1>5. \A t \in Thread, c \in Class : HeapOK(next, w, r, t, c, heap[t][c])
  <2> TAKE t \in Thread, c \in Class
  <2>1. heap[t][c] = NoList
    BY <1>1 DEF NoHeap
  <2>2. ListAt(t, c) # Nowhere /\ ChunkAt(t, c) # Nowhere
    BY Spots
  <2> QED BY <1>4, <2>1, <2>2 DEF NoList, HeapOK
<1>6. \A p \in Pb : HdrOK(next, w, r, p, pbh[p])
  <2> TAKE p \in Pb
  <2>1. pbh[p] = FreePbh
    BY <1>1
  <2>2. FreeAt(p) # Nowhere /\ UnusedAt(p) # Nowhere /\ RemoteAt(p) # Nowhere
    BY Spots
  <2>3. WordHead(p, FreePbh.remote) = NULL /\ FreePbh.remote.cnt = 0
    BY DEF WordHead, FreePbh, NoWord
  <2>4. /\ FreePbh.free_list = NULL /\ FreePbh.cnt_free = 0
        /\ FreePbh.unallocated = NULL /\ FreePbh.cnt_unused = 0
    BY DEF FreePbh
  <2> QED BY <1>4, <2>1, <2>2, <2>3, <2>4 DEF HdrOK
<1>7. \A t \in Thread : RestOK(next, w, r, t, rest[t])
  <2> TAKE t \in Thread
  <2>1. RestAt(t) # Nowhere /\ rest[t] = NULL
    BY <1>1, Spots DEF RestAt, Nowhere
  <2> QED BY <1>4, <2>1 DEF RestOK
<1>8. \A t \in Thread : HandOK(next, w, r, t, Hands[t])
  <2> TAKE t \in Thread
  <2>1. Hands[t].num = 0
    BY <1>1 DEF Hands, Hand, NoRun
  <2>2. \A b \in Block : w[b] # RunAt(t)
    BY <1>2 DEF RunAt, Nowhere
  <2> QED BY <2>1, <2>2 DEF HandOK
<1>9. \A b \in Block : Sited(w, pbh, Hands, out, BlocksPerPbh, b)
  <2> TAKE b \in Block
  <2>1. b[1] \in Pb
    BY Blocks
  <2>2. ~InCarved(pbh, BlocksPerPbh, b)
    BY <1>1, <2>1 DEF InCarved, FreePbh
  <2>3. w[b] # Program /\ b \notin out
    BY <1>1, <1>2, Spots
  <2>4. \A p \in Pb : w[b] \notin {FreeAt(p), UnusedAt(p), RemoteAt(p)}
    BY <1>2, Spots
  <2>5. \A t \in Thread : w[b] # RunAt(t)
    BY <1>2 DEF RunAt, Nowhere
  <2>6. \A t \in Thread, c \in Class : w[b] \notin {ListAt(t, c), ChunkAt(t, c)}
    BY <1>2, Spots
  <2> QED BY <1>2, <2>2, <2>3, <2>4, <2>5, <2>6 DEF Sited
<1> QED BY <1>3, <1>5, <1>6, <1>7, <1>8, <1>9 DEF Here, Placed, Placing

LEMMA InitIInv ==
  ASSUME Init
  PROVE  IInv
<1>0. /\ NULL \notin Thread /\ DEAD_OWNER \notin Thread \cup {NULL}
      /\ NUM_CLASSES \in Nat \ {0} /\ SpOf \in Layouts
      /\ owner = [s \in Superpage |-> NULL] /\ pbh = [p \in Pb |-> FreePbh]
      /\ next = [b \in Block |-> NULL] /\ heap = [t \in Thread |-> NoHeap]
      /\ pc = [t \in Thread |-> "idle"] /\ run = [t \in Thread |-> NoRun]
      /\ top = [t \in Thread |-> NoWord] /\ cl = [t \in Thread |-> 0]
      /\ rest = [t \in Thread |-> NULL] /\ out = {}
  BY ConstantsAssumption DEF Init
<1>1. NoList \in HeapLists /\ FreePbh \in Headers /\ NoRun.num = 0
  <2>1. << >> \in Seq(Pb) /\ NULL \in Ptr /\ 0 \in Int /\ 0 \in Nat /\ 0 \in 0 .. NUM_CLASSES
    BY <1>0 DEF Ptr
  <2> QED BY <2>1 DEF NoList, HeapLists, FreePbh, Headers, NoWord, NoRun
<1>2. NoRun \in [first : Ptr, last : Ptr, num : Int,
                 caller : {"none", "small_free", "tlh_return_list"}]
  BY DEF NoRun, Ptr
<1>3. MaxBlocks \in Nat
  BY <1>0, Layout
<1>4. NoWord \in [head : Nat, cnt : 0 .. MaxBlocks]
  BY <1>3 DEF NoWord
<1>5. Shapes
  BY <1>0, <1>1, <1>2, <1>4 DEF Shapes, NoHeap, Ptr
<1>6. Here
  BY InitPlaced
<1>7. Room
  <2>1. \A b \in Block : b[1] \in Pb
    BY Blocks
  <2>2. Carved = {}
    BY <1>0, <2>1 DEF Carved, InUse, FreePbh
  <2> QED BY <1>3, <2>2, FS_EmptySet DEF Room
<1>8. \A p \in Pb : PbhOK(p)
  BY <1>0 DEF PbhOK, InUse, FreePbh
<1>9. ASSUME NEW t \in Thread PROVE Mine(t)
  <2>1. PhaseOK(t)
    BY <1>0, <1>1 DEF PhaseOK, InHand
  <2>2. DoneOK(t)
    BY <1>0 DEF DoneOK, NoHeap, NoList
  <2>3. ASSUME NEW c \in Class PROVE PbhListOK(t, c) /\ ChunkOK(t, c)
    <3>1. heap[t][c] = NoList
      BY <1>0 DEF NoHeap
    <3>2. \A p \in Pb : OwnerOf(p) # t
      BY <1>0, Layout DEF OwnerOf
    <3>3. PbhListOK(t, c)
      BY <3>1, <3>2, NoneListed DEF PbhListOK, NoList
    <3>4. ChunkOK(t, c)
      BY <3>1, NoneOver DEF ChunkOK, NoList
    <3> QED BY <3>3, <3>4
  <2> QED BY <2>1, <2>2, <2>3 DEF Mine
<1> QED BY <1>5, <1>6, <1>7, <1>8, <1>9 DEF IInv

LEMMA StutterIInv ==
  ASSUME IInv, UNCHANGED vars
  PROVE  IInv'
<1>0. /\ SpOf' = SpOf /\ owner' = owner /\ pbh' = pbh /\ next' = next /\ heap' = heap
      /\ pc' = pc /\ run' = run /\ top' = top /\ cl' = cl /\ rest' = rest /\ out' = out
  BY DEF vars
<1>1. Shapes'
  BY <1>0 DEF IInv, Shapes, MaxBlocks
<1>2. Here'
  <2>1. Here
    BY DEF IInv
  <2>2. Hands' = Hands /\ BlocksPerPbh' = BlocksPerPbh
    BY <1>0 DEF Hands, Hand, BlocksPerPbh
  <2> QED BY <1>0, <2>1, <2>2 DEF Here
<1>3. Room'
  BY <1>0 DEF IInv, Room, MaxBlocks, Carved, InUse, Blk, BlocksPerPbh
<1>4. ASSUME NEW p \in Pb PROVE PbhOK(p)'
  <2>1. PbhOK(p)
    BY DEF IInv
  <2> QED BY <1>0, <2>1 DEF PbhOK, InUse, OwnerOf
<1>5. ASSUME NEW t \in Thread PROVE Mine(t)'
  <2>1. Mine(t)
    BY DEF IInv
  <2>2. PhaseOK(t)'
    <3>1. PhaseOK(t) /\ (InHand(t)' <=> InHand(t))
      BY <1>0, <2>1 DEF Mine, InHand
    <3>2. /\ pc'[t] = pc[t] /\ run'[t] = run[t] /\ rest'[t] = rest[t] /\ cl'[t] = cl[t]
          /\ top'[t] = top[t] /\ heap'[t] = heap[t]
      BY <1>0
    <3> QED BY <1>0, <3>1, <3>2 DEF PhaseOK, OwnerOf
  <2>3. DoneOK(t)'
    BY <1>0, <2>1 DEF Mine, DoneOK
  <2>4. ASSUME NEW c \in Class PROVE PbhListOK(t, c)' /\ ChunkOK(t, c)'
    <3>1. PbhListOK(t, c) /\ ChunkOK(t, c)
      BY <2>1 DEF Mine
    <3>2. PbhListOK(t, c)'
      BY <1>0, <3>1 DEF PbhListOK, OwnerOf
    <3>3. ChunkOK(t, c)'
      BY <1>0, <3>1 DEF ChunkOK, OwnerOf
    <3> QED BY <3>2, <3>3
  <2> QED BY <2>2, <2>3, <2>4 DEF Mine
<1> QED BY <1>1, <1>2, <1>3, <1>4, <1>5 DEF IInv

LEMMA MallocStep ==
  ASSUME IInv, SpOf' = SpOf, NEW t \in Thread, NEW c \in Class, Malloc(t, c)
  PROVE  IInv' /\ Gives(c)
<1>1. CASE MallocLocal(t, c)
  BY <1>1, MallocLocalStep
<1>2. CASE MallocBump(t, c)
  BY <1>2, MallocBumpStep
<1>3. CASE MallocPbhList(t, c)
  BY <1>3, MallocPbhListStep
<1>4. CASE MallocPbhChunk(t, c)
  BY <1>4, MallocPbhChunkStep
<1>5. CASE MallocRemote(t, c)
  BY <1>5, MallocRemoteStep
<1>6. CASE MallocNewPbh(t, c)
  BY <1>6, MallocNewPbhStep
<1> QED BY <1>1, <1>2, <1>3, <1>4, <1>5, <1>6 DEF Malloc

LEMMA RemoteFreeStep ==
  ASSUME IInv, SpOf' = SpOf, NEW t \in Thread, RemoteFree(t)
  PROVE  IInv'
<1>1. CASE CheckDead(t)
  BY <1>1, CheckDeadStep
<1>2. CASE LinkRun(t)
  BY <1>2, LinkRunStep
<1>3. CASE Push(t)
  <2>1. CASE pbh[run[t].first[1]].remote = top[t]
    BY <1>3, <2>1, PushSucceeds
  <2>2. CASE pbh[run[t].first[1]].remote # top[t]
    BY <1>3, <2>2, PushFails
  <2> QED BY <2>1, <2>2
<1>4. CASE CheckDeadAgain(t)
  BY <1>4, CheckDeadAgainStep
<1> QED BY <1>1, <1>2, <1>3, <1>4 DEF RemoteFree

LEMMA TlhClearStep ==
  ASSUME IInv, SpOf' = SpOf, NEW t \in Thread, TlhClear(t)
  PROVE  IInv'
<1>1. CASE Exit(t)
  BY <1>1, ExitStep
<1>2. ASSUME NEW c \in Class, ExitList(t, c) PROVE IInv'
  BY <1>2, ExitListStep
<1>3. ASSUME NEW c \in Class, ExitUnused(t, c) PROVE IInv'
  BY <1>3, ExitUnusedStep
<1>4. ASSUME NEW c \in Class, ExitPbh(t, c) PROVE IInv'
  BY <1>4, ExitPbhStep
<1>5. ASSUME NEW s \in Superpage, ExitSuperpage(t, s) PROVE IInv'
  BY <1>5, ExitSuperpageStep
<1>6. CASE ThreadEnd(t)
  BY <1>6, ThreadEndStep
<1> QED BY <1>1, <1>2, <1>3, <1>4, <1>5, <1>6 DEF TlhClear

LEMMA NextIInv ==
  ASSUME IInv, [Next]_vars
  PROVE  IInv'
<1>1. CASE UNCHANGED vars
  BY <1>1, StutterIInv
<1>2. CASE Next
  <2>1. SpOf' = SpOf
    BY <1>2 DEF Next
  <2>2. PICK t \in Thread :
          \/ \E c \in Class : Malloc(t, c)
          \/ \E b \in out : SmallFree(t, b)
          \/ RemoteFree(t) \/ ReturnRun(t) \/ GoOnLocally(t)
          \/ TlhClear(t)
    BY <1>2 DEF Next
  <2>3. ASSUME NEW c \in Class, Malloc(t, c) PROVE IInv'
    BY <2>1, <2>3, MallocStep
  <2>4. ASSUME NEW b \in out, SmallFree(t, b) PROVE IInv'
    BY <2>1, <2>4, SmallFreeStep
  <2>5. CASE RemoteFree(t)
    BY <2>1, <2>5, RemoteFreeStep
  <2>6. CASE ReturnRun(t)
    BY <2>1, <2>6, ReturnRunStep
  <2>7. CASE GoOnLocally(t)
    BY <2>1, <2>7, GoOnLocallyStep
  <2>8. CASE TlhClear(t)
    BY <2>1, <2>8, TlhClearStep
  <2> QED BY <2>2, <2>3, <2>4, <2>5, <2>6, <2>7, <2>8
<1> QED BY <1>1, <1>2

\* Every small block is in one place, whatever the threads do: IInv holds in
\* every state (of the code: of all of small_malloc, small_free, remote_free,
\* the tlh_return_ functions and tlh_clear).
THEOREM InvariantHolds == Spec => []IInv
<1>1. Init => IInv
  BY InitIInv
<1>2. IInv /\ [Next]_vars => IInv'
  BY NextIInv
<1> QED BY <1>1, <1>2, PTL DEF Spec

(***************************************************************************)
(* The properties                                                          *)
(***************************************************************************)

\* The types of the variables: no counter is negative, and none counts more
\* blocks than there are (of the fields of pbh_t, blk_list_t and the packed
\* word of remote_free).
THEOREM TypesHold == Spec => []TypeOK
<1>1. ASSUME IInv PROVE TypeOK
  <2>0. Shapes /\ Here /\ Room
    BY <1>1 DEF IInv
  <2>1. pbh \in [Pb -> PbhTypes]
    <3> SUFFICES ASSUME NEW p \in Pb PROVE pbh[p] \in PbhTypes
      BY <2>0 DEF Shapes
    <3> DEFINE e == pbh[p]
    <3>1. e \in Headers /\ e.remote \in [head : Nat, cnt : Int]
      BY <2>0, Fields
    <3>2. e.cnt_free \in 0 .. MaxBlocks /\ e.cnt_unused \in 0 .. MaxBlocks
          /\ e.remote.cnt \in 0 .. MaxBlocks
      BY <2>0, Fits
    <3> HIDE DEF e
    <3>3. e.remote \in [head : Nat, cnt : 0 .. MaxBlocks]
      BY <3>1, <3>2
    <3>4. e \in PbhTypes
      BY <3>1, <3>2, <3>3 DEF Headers, PbhTypes
    <3> QED BY <3>4 DEF e
  <2>2. heap \in [Thread -> [Class -> ListTypes]]
    <3> SUFFICES ASSUME NEW t \in Thread, NEW c \in Class PROVE heap[t][c] \in ListTypes
      BY <2>0 DEF Shapes
    <3> DEFINE e == heap[t][c]
    <3>1. e \in HeapLists
      BY <2>0, Fields
    <3>2. e.cnt_free \in 0 .. MaxBlocks /\ e.cnt_unused \in 0 .. MaxBlocks
      BY <2>0, Fits
    <3> HIDE DEF e
    <3>3. e \in ListTypes
      BY <3>1, <3>2 DEF HeapLists, ListTypes
    <3> QED BY <3>3 DEF e
  <2>3. run \in [Thread -> [first : Ptr, last : Ptr, num : 0 .. MaxBlocks,
                            caller : {"none", "small_free", "tlh_return_list"}]]
    BY <2>0, Fits DEF Shapes
  <2> QED BY <2>0, <2>1, <2>2, <2>3 DEF TypeOK, Shapes
<1> QED BY <1>1, InvariantHolds, PTL

\* No page block has two chunks, and a thread's chunk lies in a page block of
\* its own (of pbh_add_unused, which relies on both).
THEOREM ChunksStayApart == Spec => []ChunksApart
<1>1. ASSUME IInv PROVE ChunksApart
  <2> SUFFICES ASSUME NEW t \in Thread, NEW c \in Class, heap[t][c].cnt_unused > 0
               PROVE  /\ OwnerOf(heap[t][c].ptr_to_unused[1]) = t
                      /\ pbh[heap[t][c].ptr_to_unused[1]].sizeclass = c
                      /\ pbh[heap[t][c].ptr_to_unused[1]].cnt_unused = 0
    BY DEF ChunksApart
  <2>1. heap[t][c].cnt_unused # 0
    OBVIOUS
  <2>2. Here /\ ChunkOK(t, c)
    BY <1>1 DEF IInv, Mine
  <2> QED BY <2>1, <2>2, UnusedIn DEF ChunkOK
<1> QED BY <1>1, InvariantHolds, PTL

LEMMA OnceCount ==
  ASSUME NEW l \in Seq(Pb), Once(l)
  PROVE  Cardinality(ToSet(l)) = Len(l)
<1> DEFINE f == [p \in ToSet(l) |-> CHOOSE i \in DOMAIN l : l[i] = p]
<1>1. Len(l) \in Nat /\ DOMAIN l = 1 .. Len(l)
  OBVIOUS
<1>2. \A p \in ToSet(l) : \E i \in DOMAIN l : l[i] = p
  BY DEF ToSet
<1>3. \A p \in ToSet(l) : f[p] \in DOMAIN l /\ l[f[p]] = p
  BY <1>2
<1>4. \A i \in DOMAIN l : l[i] \in ToSet(l)
  BY DEF ToSet
<1>5. \A i \in DOMAIN l : f[l[i]] = i
  BY <1>3, <1>4 DEF Once
<1>6. f \in [ToSet(l) -> 1 .. Len(l)]
  BY <1>1, <1>3
<1> HIDE DEF f
<1>7. Numbers(f, ToSet(l), Len(l))
  BY <1>1, <1>3, <1>4, <1>5, <1>6 DEF Numbers
<1> QED BY <1>1, <1>7, Numbered

\* The list of a class has each page block of the class in the thread's
\* superpages, once (of pbh_list_insert, pbh_list_remove and take_superpage).
THEOREM PbhListsExact == Spec => []PbhListExact
<1>1. ASSUME IInv PROVE PbhListExact
  <2> SUFFICES ASSUME NEW t \in Thread, NEW c \in Class, ~(c <= cl[t])
               PROVE  LET list == heap[t][c].pbh_list
                          all  == {p \in Pb : OwnerOf(p) = t /\ pbh[p].sizeclass = c}
                      IN ToSet(list) = all /\ Len(list) = Cardinality(all)
    BY DEF PbhListExact
  <2>1. Shapes /\ PbhListOK(t, c)
    BY <1>1 DEF IInv, Mine
  <2>2. c \in Int /\ cl[t] \in Int /\ heap[t][c].pbh_list \in Seq(Pb)
        /\ \A p \in ToSet(heap[t][c].pbh_list) : p \in Pb
    BY <2>1, Fields DEF Class
  <2>3. c > cl[t] /\ c >= cl[t]
    BY <2>2
  <2>4. ToSet(heap[t][c].pbh_list) = {p \in Pb : OwnerOf(p) = t /\ pbh[p].sizeclass = c}
        /\ Once(heap[t][c].pbh_list)
    BY <2>1, <2>2, <2>3 DEF PbhListOK
  <2>5. Cardinality(ToSet(heap[t][c].pbh_list)) = Len(heap[t][c].pbh_list)
    BY <2>2, <2>4, OnceCount
  <2> QED BY <2>4, <2>5
<1> QED BY <1>1, InvariantHolds, PTL

\* What After says of a list.
LEMMA ListIs ==
  ASSUME MaxBlocks \in Nat, NEW w, NEW r, NEW l, NEW h, NEW n,
         IsList(next, w, r, l, h, n), n <= MaxBlocks
  PROVE  HasLength(h, n) /\ ListOf(h) = At(w, l)
<1>1. IsWalk(next, After(h), MaxBlocks, h)
  BY AfterIsWalk
<1>2. /\ \A k \in 0 .. MaxBlocks : k < n =>
           After(h)[k] \in Block /\ w[After(h)[k]] = l /\ r[After(h)[k]] = n - k
      /\ \A k \in 0 .. MaxBlocks : k >= n => After(h)[k] = NULL
  BY <1>1, WalkList
<1>3. n \in 0 .. MaxBlocks /\ (h = NULL <=> n = 0) /\ h \in Ptr
  BY DEF IsList, IsSeg
<1>4. NULL \notin Block
  BY Blocks
<1>5. HasLength(h, n)
  BY <1>2, <1>3, <1>4 DEF HasLength
<1>6. \A b \in Block : w[b] = l => \E k \in 0 .. MaxBlocks : After(h)[k] = b
  <2> SUFFICES ASSUME NEW b \in Block, w[b] = l
               PROVE  \E k \in 0 .. MaxBlocks : After(h)[k] = b
    OBVIOUS
  <2>1. r[b] \in 1 .. n
    BY DEF IsList, IsSeg
  <2>2. n - r[b] \in 0 .. MaxBlocks /\ n - r[b] < n /\ n - (n - r[b]) = r[b]
    BY <1>3, <2>1
  <2>3. /\ After(h)[n - r[b]] \in Block /\ w[After(h)[n - r[b]]] = l
        /\ r[After(h)[n - r[b]]] = r[b]
    BY <1>2, <2>2
  <2>4. After(h)[n - r[b]] = b
    BY <2>3 DEF IsList, IsSeg
  <2> QED BY <2>2, <2>4
<1>7. \A k \in 0 .. MaxBlocks : After(h)[k] # NULL =>
        After(h)[k] \in Block /\ w[After(h)[k]] = l
  BY <1>2, <1>3
<1>8. {After(h)[k] : k \in 0 .. MaxBlocks} \ {NULL} = At(w, l)
  BY <1>4, <1>6, <1>7 DEF At
<1>9. h = NULL => At(w, l) = {}
  BY <1>3 DEF At, IsList, IsSeg
<1> QED BY <1>5, <1>8, <1>9 DEF ListOf

\* Each counter is the length of its list, that in the word of the remote list
\* too, and a thread's chunk a number of whole lines (of bump_alloc, which
\* relies on it, remote_free and the pbh_add_ functions).
THEOREM CountersAreExact == Spec => []CountersExact
<1>1. ASSUME IInv PROVE CountersExact
  <2>0. Shapes /\ Here /\ Room /\ MaxBlocks \in Nat
    BY <1>1, Layout DEF IInv, Shapes
  <2>1. PICK w, r : Placing(w, r, next, heap, pbh, Hands, rest, out, BlocksPerPbh)
    BY <2>0 DEF Here, Placed
  <2>2. ASSUME NEW t \in Thread, NEW c \in Class
        PROVE  /\ HasLength(heap[t][c].free_blk_list, heap[t][c].cnt_free)
               /\ heap[t][c].cnt_unused % BlocksPerLine[c] = 0
               /\ (heap[t][c].ptr_to_unused = NULL) = (heap[t][c].cnt_unused = 0)
    <3>1. IsList(next, w, r, ListAt(t, c), heap[t][c].free_blk_list, heap[t][c].cnt_free)
      BY <2>1, Sides
    <3>2. heap[t][c].cnt_free <= MaxBlocks
      BY <2>0, Fits
    <3>3. heap[t][c].ptr_to_unused = NULL <=> heap[t][c].cnt_unused = 0
      BY <2>0, Counts
    <3>4. ChunkOK(t, c)
      BY <1>1 DEF IInv, Mine
    <3> QED BY <2>0, <3>1, <3>2, <3>3, <3>4, ListIs DEF ChunkOK
  <2>3. ASSUME NEW p \in Pb
        PROVE  /\ HasLength(pbh[p].free_list, pbh[p].cnt_free)
               /\ HasLength(IF pbh[p].remote.cnt = 0 THEN NULL
                            ELSE <<p, pbh[p].remote.head>>, pbh[p].remote.cnt)
               /\ (pbh[p].unallocated = NULL) = (pbh[p].cnt_unused = 0)
    <3>1. /\ IsList(next, w, r, FreeAt(p), pbh[p].free_list, pbh[p].cnt_free)
          /\ IsList(next, w, r, RemoteAt(p), WordHead(p, pbh[p].remote), pbh[p].remote.cnt)
      BY <2>1, Sides
    <3>2. pbh[p].cnt_free <= MaxBlocks /\ pbh[p].remote.cnt <= MaxBlocks
      BY <2>0, Fits
    <3>3. pbh[p].unallocated = NULL <=> pbh[p].cnt_unused = 0
      BY <2>0, Counts
    <3>4. HasLength(WordHead(p, pbh[p].remote), pbh[p].remote.cnt)
      BY <2>0, <3>1, <3>2, ListIs
    <3>5. HasLength(pbh[p].free_list, pbh[p].cnt_free)
      BY <2>0, <3>1, <3>2, ListIs
    <3> QED BY <3>3, <3>4, <3>5 DEF WordHead
  <2> QED BY <2>2, <2>3 DEF CountersExact
<1> QED BY <1>1, InvariantHolds, PTL

\* A chunk and a run are what is at their places, too.
LEMMA ChunkIs ==
  ASSUME NEW w, NEW l, NEW b, NEW n, IsChunk(w, l, b, n)
  PROVE  ChunkOf(b, n) = At(w, l)
<1>1. n \in Nat /\ \A k \in 0 .. n - 1 :
        <<b[1], b[2] + k>> \in Block /\ w[<<b[1], b[2] + k>>] = l
  BY DEF IsChunk
<1>2. ASSUME NEW x \in Block, w[x] = l
      PROVE  \E k \in 0 .. n - 1 : x = <<b[1], b[2] + k>>
  <2>1. n > 0 /\ x[1] = b[1] /\ x[2] - b[2] \in 0 .. n - 1
    BY <1>2 DEF IsChunk
  <2>2. b \in Block
    BY <1>1, <2>1 DEF IsChunk, Ptr
  <2>3. b[2] \in Nat /\ x[2] \in Nat /\ x = <<x[1], x[2]>>
    BY <2>2, Blocks
  <2>4. b[2] + (x[2] - b[2]) = x[2]
    BY <2>3
  <2> QED BY <2>1, <2>3, <2>4
<1> QED BY <1>1, <1>2 DEF ChunkOf, At

RunOf(t) == {After(run[t].first)[k] : k \in 0 .. run[t].num - 1}

LEMMA RunIs ==
  ASSUME MaxBlocks \in Nat, NEW w, NEW r, NEW t \in Thread,
         HandOK(next, w, r, t, Hands[t]), run[t].num # 0, run[t].num <= MaxBlocks
  PROVE  RunOf(t) = At(w, RunAt(t))
<1> DEFINE h == run[t].first
           n == run[t].num
<1>1. Hands[t].first = h /\ Hands[t].num = n
  BY DEF Hands, Hand
<1>2. PICK z : IsSeg(next, w, r, RunAt(t), h, n, z)
  BY <1>1 DEF HandOK
<1>3. IsWalk(next, After(h), MaxBlocks, h)
  BY AfterIsWalk
<1> HIDE DEF h, n
<1>4. \A k \in 0 .. MaxBlocks : k < n =>
        After(h)[k] \in Block /\ w[After(h)[k]] = RunAt(t) /\ r[After(h)[k]] = n - k
  BY <1>2, <1>3, WalkSeg
<1>5. n \in Nat /\ n <= MaxBlocks
  BY <1>2 DEF IsSeg, n
<1>6. \A k \in 0 .. n - 1 : After(h)[k] \in Block /\ w[After(h)[k]] = RunAt(t)
  BY <1>4, <1>5
<1>7. ASSUME NEW b \in Block, w[b] = RunAt(t)
      PROVE  \E k \in 0 .. n - 1 : After(h)[k] = b
  <2>1. r[b] \in 1 .. n
    BY <1>2, <1>7 DEF IsSeg
  <2>2. n - r[b] \in 0 .. n - 1 /\ n - r[b] \in 0 .. MaxBlocks /\ n - r[b] < n
        /\ n - (n - r[b]) = r[b]
    BY <1>5, <2>1
  <2>3. /\ After(h)[n - r[b]] \in Block /\ w[After(h)[n - r[b]]] = RunAt(t)
        /\ r[After(h)[n - r[b]]] = r[b]
    BY <1>4, <2>2
  <2>4. After(h)[n - r[b]] = b
    BY <1>2, <1>7, <2>3 DEF IsSeg
  <2> QED BY <2>2, <2>4
<1>8. {After(h)[k] : k \in 0 .. n - 1} = At(w, RunAt(t))
  BY <1>6, <1>7 DEF At
<1> QED BY <1>8 DEF RunOf, h, n

\* The place with the blocks at l.
PlaceAt(w, l) == <<l[1], l[2], l[3], At(w, l)>>

LEMMA PlaceParts ==
  ASSUME NEW w
  PROVE  /\ PlaceAt(w, Program) = <<"program", 0, 0, At(w, Program)>>
         /\ \A t \in Thread, c \in Class :
              /\ PlaceAt(w, ListAt(t, c)) = <<"list", t, c, At(w, ListAt(t, c))>>
              /\ PlaceAt(w, ChunkAt(t, c)) = <<"chunk", t, c, At(w, ChunkAt(t, c))>>
         /\ \A t \in Thread :
              /\ PlaceAt(w, RestAt(t)) = <<"rest", t, 0, At(w, RestAt(t))>>
              /\ PlaceAt(w, RunAt(t)) = <<"run", t, 0, At(w, RunAt(t))>>
         /\ \A p \in Pb :
              /\ PlaceAt(w, FreeAt(p)) = <<"header", p, 0, At(w, FreeAt(p))>>
              /\ PlaceAt(w, UnusedAt(p)) = <<"unallocated", p, 0, At(w, UnusedAt(p))>>
              /\ PlaceAt(w, RemoteAt(p)) = <<"remote", p, 0, At(w, RemoteAt(p))>>
  BY DEF PlaceAt, Program, ListAt, ChunkAt, RestAt, RunAt, FreeAt, UnusedAt, RemoteAt

\* The places, seen from w.
LEMMA PlacesAre ==
  ASSUME IInv, NEW w, NEW r,
         Placing(w, r, next, heap, pbh, Hands, rest, out, BlocksPerPbh)
  PROVE  /\ \A pl \in Places : \E l \in Spot : l # Nowhere /\ pl = PlaceAt(w, l)
         /\ \A b \in Block : w[b] # Nowhere => PlaceAt(w, w[b]) \in Places
<1>0. Shapes /\ Here /\ Room /\ MaxBlocks \in Nat
  BY Layout DEF IInv, Shapes
<1>1. out = At(w, Program)
  <2>1. \A b \in Block : w[b] = Program <=> b \in out
    BY Sides DEF Sited
  <2> QED BY <1>0, <2>1, Fields DEF At
<1>2. \A t \in Thread, c \in Class :
        /\ ListOf(heap[t][c].free_blk_list) = At(w, ListAt(t, c))
        /\ ChunkOf(heap[t][c].ptr_to_unused, heap[t][c].cnt_unused) = At(w, ChunkAt(t, c))
  <2> TAKE t \in Thread, c \in Class
  <2>1. /\ IsList(next, w, r, ListAt(t, c), heap[t][c].free_blk_list, heap[t][c].cnt_free)
        /\ IsChunk(w, ChunkAt(t, c), heap[t][c].ptr_to_unused, heap[t][c].cnt_unused)
    BY Sides
  <2>2. heap[t][c].cnt_free <= MaxBlocks
    BY <1>0, Fits
  <2> QED BY <1>0, <2>1, <2>2, ListIs, ChunkIs
<1>3. \A t \in Thread : ListOf(rest[t]) = At(w, RestAt(t))
  <2> TAKE t \in Thread
  <2>1. PICK n : IsList(next, w, r, RestAt(t), rest[t], n)
    BY Sides DEF RestOK
  <2>2. n \in Nat /\ Cardinality(At(w, RestAt(t))) = n
    BY <2>1, SegCount DEF IsList
  <2>3. \A b \in Block : Sited(w, pbh, Hands, out, BlocksPerPbh, b)
    BY Sides
  <2>4. RestAt(t) # Nowhere
    BY DEF RestAt, Nowhere
  <2>5. n <= MaxBlocks
    BY <1>0, <2>2, <2>3, <2>4, AtFits
  <2> QED BY <1>0, <2>1, <2>5, ListIs
<1>4. \A t \in Thread : HandOK(next, w, r, t, Hands[t])
  BY Sides
<1>5. \A t \in Thread : InHand(t) => RunOf(t) = At(w, RunAt(t))
  <2> TAKE t \in Thread
  <2> HAVE InHand(t)
  <2>1. run[t].num # 0
    BY DEF IInv, Mine, PhaseOK
  <2>2. run[t].num <= MaxBlocks
    BY <1>0, Fits
  <2> QED BY <1>0, <1>4, <2>1, <2>2, RunIs
<1>6. \A t \in Thread : ~InHand(t) => At(w, RunAt(t)) = {}
  <2> TAKE t \in Thread
  <2> HAVE ~InHand(t)
  <2>1. Hands[t].num = 0
    BY DEF IInv, Mine, PhaseOK, Hands, Hand
  <2> QED BY <1>4, <2>1 DEF HandOK, At
<1>7. \A p \in Pb :
        /\ ListOf(pbh[p].free_list) = At(w, FreeAt(p))
        /\ ChunkOf(pbh[p].unallocated, pbh[p].cnt_unused) = At(w, UnusedAt(p))
        /\ pbh[p].remote.cnt > 0 => ListOf(<<p, pbh[p].remote.head>>) = At(w, RemoteAt(p))
        /\ ~(pbh[p].remote.cnt > 0) => At(w, RemoteAt(p)) = {}
  <2> TAKE p \in Pb
  <2>1. /\ IsList(next, w, r, FreeAt(p), pbh[p].free_list, pbh[p].cnt_free)
        /\ IsList(next, w, r, RemoteAt(p), WordHead(p, pbh[p].remote), pbh[p].remote.cnt)
        /\ IsChunk(w, UnusedAt(p), pbh[p].unallocated, pbh[p].cnt_unused)
    BY Sides
  <2>2. /\ pbh[p].cnt_free <= MaxBlocks /\ pbh[p].remote.cnt <= MaxBlocks
        /\ pbh[p].remote.cnt \in Nat
    BY <1>0, Fits
  <2>3. ListOf(WordHead(p, pbh[p].remote)) = At(w, RemoteAt(p))
    BY <1>0, <2>1, <2>2, ListIs
  <2>4. pbh[p].remote.cnt > 0 => WordHead(p, pbh[p].remote) = <<p, pbh[p].remote.head>>
    BY <2>2 DEF WordHead
  <2>5. ~(pbh[p].remote.cnt > 0) => WordHead(p, pbh[p].remote) = NULL
    BY <2>2 DEF WordHead
  <2>6. ListOf(NULL) = {}
    BY DEF ListOf
  <2>7. ListOf(pbh[p].free_list) = At(w, FreeAt(p))
    BY <1>0, <2>1, <2>2, ListIs
  <2>8. ChunkOf(pbh[p].unallocated, pbh[p].cnt_unused) = At(w, UnusedAt(p))
    BY <2>1, ChunkIs
  <2> QED BY <2>3, <2>4, <2>5, <2>6, <2>7, <2>8
<1>8. Places =
        {PlaceAt(w, Program)}
        \cup {PlaceAt(w, ListAt(t, c)) : t \in Thread, c \in Class}
        \cup {PlaceAt(w, RestAt(t)) : t \in Thread}
        \cup {PlaceAt(w, ChunkAt(t, c)) : t \in Thread, c \in Class}
        \cup {PlaceAt(w, RunAt(t)) : t \in {u \in Thread : InHand(u)}}
        \cup {PlaceAt(w, FreeAt(p)) : p \in Pb}
        \cup {PlaceAt(w, UnusedAt(p)) : p \in Pb}
        \cup {PlaceAt(w, RemoteAt(p)) : p \in {q \in Pb : pbh[q].remote.cnt > 0}}
  <2>1. {PlaceAt(w, Program)} = {<<"program", 0, 0, out>>}
    BY <1>1, PlaceParts
  <2>2. {PlaceAt(w, ListAt(t, c)) : t \in Thread, c \in Class}
        = {<<"list", t, c, ListOf(heap[t][c].free_blk_list)>> :
             t \in Thread, c \in Class}
    <3>1. ASSUME NEW t \in Thread, NEW c \in Class
          PROVE  PlaceAt(w, ListAt(t, c)) = <<"list", t, c, ListOf(heap[t][c].free_blk_list)>>
      <4>1. PlaceAt(w, ListAt(t, c)) = <<"list", t, c, At(w, ListAt(t, c))>>
        BY PlaceParts
      <4> QED BY <1>2, <4>1
    <3> QED BY <3>1
  <2>3. {PlaceAt(w, RestAt(t)) : t \in Thread}
        = {<<"rest", t, 0, ListOf(rest[t])>> :
             t \in Thread}
    <3>1. ASSUME NEW t \in Thread
          PROVE  PlaceAt(w, RestAt(t)) = <<"rest", t, 0, ListOf(rest[t])>>
      <4>1. PlaceAt(w, RestAt(t)) = <<"rest", t, 0, At(w, RestAt(t))>>
        BY PlaceParts
      <4> QED BY <1>3, <4>1
    <3> QED BY <3>1
  <2>4. {PlaceAt(w, ChunkAt(t, c)) : t \in Thread, c \in Class}
        = {<<"chunk", t, c, ChunkOf(heap[t][c].ptr_to_unused, heap[t][c].cnt_unused)>> :
             t \in Thread, c \in Class}
    <3>1. ASSUME NEW t \in Thread, NEW c \in Class
          PROVE  PlaceAt(w, ChunkAt(t, c)) = <<"chunk", t, c, ChunkOf(heap[t][c].ptr_to_unused, heap[t][c].cnt_unused)>>
      <4>1. PlaceAt(w, ChunkAt(t, c)) = <<"chunk", t, c, At(w, ChunkAt(t, c))>>
        BY PlaceParts
      <4> QED BY <1>2, <4>1
    <3> QED BY <3>1
  <2>5. {PlaceAt(w, RunAt(t)) : t \in {u \in Thread : InHand(u)}}
        = {<<"run", t, 0, RunOf(t)>> :
             t \in {u \in Thread : InHand(u)}}
    <3>1. ASSUME NEW t \in {u \in Thread : InHand(u)}
          PROVE  PlaceAt(w, RunAt(t)) = <<"run", t, 0, RunOf(t)>>
      <4>1. PlaceAt(w, RunAt(t)) = <<"run", t, 0, At(w, RunAt(t))>>
        BY PlaceParts
      <4> QED BY <1>5, <4>1
    <3> QED BY <3>1
  <2>6. {PlaceAt(w, FreeAt(p)) : p \in Pb}
        = {<<"header", p, 0, ListOf(pbh[p].free_list)>> :
             p \in Pb}
    <3>1. ASSUME NEW p \in Pb
          PROVE  PlaceAt(w, FreeAt(p)) = <<"header", p, 0, ListOf(pbh[p].free_list)>>
      <4>1. PlaceAt(w, FreeAt(p)) = <<"header", p, 0, At(w, FreeAt(p))>>
        BY PlaceParts
      <4> QED BY <1>7, <4>1
    <3> QED BY <3>1
  <2>7. {PlaceAt(w, UnusedAt(p)) : p \in Pb}
        = {<<"unallocated", p, 0, ChunkOf(pbh[p].unallocated, pbh[p].cnt_unused)>> :
             p \in Pb}
    <3>1. ASSUME NEW p \in Pb
          PROVE  PlaceAt(w, UnusedAt(p)) = <<"unallocated", p, 0, ChunkOf(pbh[p].unallocated, pbh[p].cnt_unused)>>
      <4>1. PlaceAt(w, UnusedAt(p)) = <<"unallocated", p, 0, At(w, UnusedAt(p))>>
        BY PlaceParts
      <4> QED BY <1>7, <4>1
    <3> QED BY <3>1
  <2>8. {PlaceAt(w, RemoteAt(p)) : p \in {q \in Pb : pbh[q].remote.cnt > 0}}
        = {<<"remote", p, 0, ListOf(<<p, pbh[p].remote.head>>)>> :
             p \in {q \in Pb : pbh[q].remote.cnt > 0}}
    <3>1. ASSUME NEW p \in {q \in Pb : pbh[q].remote.cnt > 0}
          PROVE  PlaceAt(w, RemoteAt(p)) = <<"remote", p, 0, ListOf(<<p, pbh[p].remote.head>>)>>
      <4>1. PlaceAt(w, RemoteAt(p)) = <<"remote", p, 0, At(w, RemoteAt(p))>>
        BY PlaceParts
      <4> QED BY <1>7, <4>1
    <3> QED BY <3>1
  <2> QED BY <2>1, <2>2, <2>3, <2>4, <2>5, <2>6, <2>7, <2>8 DEF Places, RunOf
<1>9. ASSUME NEW pl \in Places PROVE \E l \in Spot : l # Nowhere /\ pl = PlaceAt(w, l)
  <2>1. /\ Program # Nowhere
        /\ \A t \in Thread, c \in Class : ListAt(t, c) # Nowhere /\ ChunkAt(t, c) # Nowhere
        /\ \A t \in Thread : RestAt(t) # Nowhere /\ RunAt(t) # Nowhere
        /\ \A p \in Pb : FreeAt(p) # Nowhere /\ UnusedAt(p) # Nowhere /\ RemoteAt(p) # Nowhere
    BY DEF Program, Nowhere, ListAt, ChunkAt, RestAt, RunAt, FreeAt, UnusedAt, RemoteAt
  <2>2. /\ Program \in Spot
        /\ \A t \in Thread, c \in Class : ListAt(t, c) \in Spot /\ ChunkAt(t, c) \in Spot
        /\ \A t \in Thread : RestAt(t) \in Spot /\ RunAt(t) \in Spot
        /\ \A p \in Pb : FreeAt(p) \in Spot /\ UnusedAt(p) \in Spot /\ RemoteAt(p) \in Spot
    BY Spots
  <2>3. \/ pl = PlaceAt(w, Program)
        \/ \E t \in Thread, c \in Class :
             pl = PlaceAt(w, ListAt(t, c)) \/ pl = PlaceAt(w, ChunkAt(t, c))
        \/ \E t \in Thread : pl = PlaceAt(w, RestAt(t)) \/ pl = PlaceAt(w, RunAt(t))
        \/ \E p \in Pb : \/ pl = PlaceAt(w, FreeAt(p)) \/ pl = PlaceAt(w, UnusedAt(p))
                         \/ pl = PlaceAt(w, RemoteAt(p))
    BY <1>8
  <2> QED BY <2>1, <2>2, <2>3
<1>10. ASSUME NEW b \in Block, w[b] # Nowhere PROVE PlaceAt(w, w[b]) \in Places
  <2>1. w[b] \in Spot /\ b \in At(w, w[b])
    BY <1>10, Sides DEF At
  <2>2. \A t \in Thread : w[b] = RunAt(t) => InHand(t)
    BY <1>6, <2>1
  <2>3. \A p \in Pb : w[b] = RemoteAt(p) => pbh[p].remote.cnt > 0
    BY <1>7, <2>1
  <2> QED BY <1>8, <1>10, <2>1, <2>2, <2>3 DEF Spot
<1> QED BY <1>9, <1>10

\* A block of a page block in use is in one place: in the program's hands, or
\* in one list, chunk or run (of everything that moves blocks).
THEOREM EveryBlockInOnePlace == Spec => []BlocksExact
<1>1. ASSUME IInv PROVE BlocksExact
  <2>1. PICK w, r : Placing(w, r, next, heap, pbh, Hands, rest, out, BlocksPerPbh)
    BY <1>1 DEF IInv, Here, Placed
  <2>2. /\ \A pl \in Places : \E l \in Spot : l # Nowhere /\ pl = PlaceAt(w, l)
        /\ \A b \in Block : w[b] # Nowhere => PlaceAt(w, w[b]) \in Places
    BY <1>1, <2>1, PlacesAre
  <2>3. Carved = {b \in Block : w[b] # Nowhere}
    <3>1. \A b \in Block : w[b] = Nowhere <=> ~InCarved(pbh, BlocksPerPbh, b)
      BY <2>1, Sides DEF Sited
    <3> QED BY <3>1 DEF Carved, InCarved, InUse, Blk
  <2>4. \A l : PlaceAt(w, l)[4] = At(w, l)
    BY DEF PlaceAt
  <2> DEFINE places == {pl \in Places : pl[4] # {}}
  <2>5. ASSUME NEW b \in Carved
        PROVE  /\ {pl \in places : b \in pl[4]} = {PlaceAt(w, w[b])}
               /\ Cardinality({pl \in places : b \in pl[4]}) = 1
    <3>1. b \in Block /\ w[b] # Nowhere /\ b \in At(w, w[b])
      BY <2>3 DEF At
    <3>2. PlaceAt(w, w[b]) \in places /\ b \in PlaceAt(w, w[b])[4]
      BY <2>2, <2>4, <3>1
    <3>3. ASSUME NEW pl \in places, b \in pl[4] PROVE pl = PlaceAt(w, w[b])
      <4>1. PICK l \in Spot : pl = PlaceAt(w, l)
        BY <2>2
      <4>2. b \in At(w, l)
        BY <2>4, <3>3, <4>1
      <4> QED BY <4>1, <4>2 DEF At
    <3>4. {pl \in places : b \in pl[4]} = {PlaceAt(w, w[b])}
      BY <3>2, <3>3
    <3> QED BY <3>4, FS_Singleton
  <2>6. UNION {pl[4] : pl \in places} = Carved
    <3>1. ASSUME NEW pl \in places, NEW b \in pl[4] PROVE b \in Carved
      <4>1. PICK l \in Spot : l # Nowhere /\ pl = PlaceAt(w, l)
        BY <2>2
      <4>2. b \in At(w, l)
        BY <2>4, <3>1, <4>1
      <4> QED BY <2>3, <4>1, <4>2 DEF At
    <3>2. ASSUME NEW b \in Carved PROVE \E pl \in places : b \in pl[4]
      BY <2>5
    <3> QED BY <3>1, <3>2
  <2> QED BY <2>5, <2>6 DEF BlocksExact
<1> QED BY <1>1, InvariantHolds, PTL

(***************************************************************************)
(* The refinement of BlockPool                                             *)
(***************************************************************************)

\* The class of a page block in use only changes when it becomes free.
ClassesStay ==
  \A p \in Pb : pbh[p].sizeclass = 0 \/ pbh'[p].sizeclass \in {0, pbh[p].sizeclass}

LEMMA StayIfSame ==
  ASSUME pbh' = pbh
  PROVE  ClassesStay
  BY DEF ClassesStay

LEMMA StayIfFreed ==
  ASSUME Shapes, NEW W, pbh' = [p \in Pb |-> IF p \in W THEN FreePbh ELSE pbh[p]]
  PROVE  ClassesStay
  BY DEF ClassesStay, FreePbh

LEMMA StayIfOneFreed ==
  ASSUME Shapes, NEW p, PbFree(p)
  PROVE  ClassesStay
  BY DEF ClassesStay, FreePbh, PbFree, Shapes

LEMMA StayIfOneSet ==
  ASSUME Shapes, NEW p, NEW h, pbh' = [pbh EXCEPT ![p] = h],
         p \in Pb => h.sizeclass = pbh[p].sizeclass \/ pbh[p].sizeclass = 0
  PROVE  ClassesStay
  BY DEF ClassesStay, Shapes

LEMMA MallocStays ==
  ASSUME IInv, NEW t \in Thread, NEW c \in Class, Malloc(t, c)
  PROVE  ClassesStay
<1>0. Shapes
  BY DEF IInv
<1>1. ASSUME MallocLocal(t, c) \/ MallocBump(t, c) PROVE ClassesStay
  BY <1>1, StayIfSame DEF MallocLocal, MallocBump
<1>2. ASSUME NEW p, pbh' = [pbh EXCEPT ![p] = Emptied(pbh[p])] PROVE ClassesStay
  <2>1. p \in Pb => Emptied(pbh[p]).sizeclass = pbh[p].sizeclass
    BY <1>0 DEF Emptied, Shapes, Headers
  <2> QED BY <1>0, <1>2, <2>1, StayIfOneSet
<1>3. ASSUME MallocPbhList(t, c) \/ MallocPbhChunk(t, c) PROVE ClassesStay
  BY <1>2, <1>3, Zenon DEF MallocPbhList, MallocPbhChunk
<1>4. ASSUME MallocRemote(t, c) PROVE ClassesStay
  <2>1. pbh' = [pbh EXCEPT ![Head(heap[t][c].pbh_list)].remote = NoWord]
    BY <1>4, Zenon DEF MallocRemote
  <2> QED BY <1>0, <2>1 DEF ClassesStay, Shapes, Headers
<1>5. ASSUME MallocNewPbh(t, c) PROVE ClassesStay
  <2>1. PICK from : /\ from = (IF FreePbs(t) # {} THEN FreePbs(t) ELSE NewPbs) /\ from # {}
                    /\ pbh' = [pbh EXCEPT ![Min(from)] = [FreePbh EXCEPT !.sizeclass = c]]
    BY <1>5 DEF MallocNewPbh
  <2>2. from \subseteq Pb /\ \A p \in from : pbh[p].sizeclass = 0
    BY <2>1 DEF FreePbs, NewPbs, IInv, PbhOK, InUse
  <2>3. pbh[Min(from)].sizeclass = 0
    BY <2>1, <2>2, MinIn
  <2> QED BY <1>0, <2>1, <2>3, StayIfOneSet
<1> QED BY <1>1, <1>3, <1>4, <1>5 DEF Malloc

LEMMA AddBlocksStays ==
  ASSUME Shapes, NEW t \in Thread, NEW r, AddBlocks(t, r)
  PROVE  ClassesStay
<1>1. ASSUME NEW p, NEW f, NEW n, pbh' = [pbh EXCEPT ![p].free_list = f, ![p].cnt_free = n]
      PROVE  ClassesStay
  BY <1>1 DEF ClassesStay, Shapes, Headers
<1>2. \/ PbFree(r.first[1])
      \/ pbh' = [pbh EXCEPT ![r.first[1]].free_list = r.first,
                            ![r.first[1]].cnt_free = @ + r.num]
  BY Zenon DEF AddBlocks, LastOnes
<1> QED BY <1>1, <1>2, StayIfOneFreed

LEMMA TakeStays ==
  ASSUME Shapes, NEW t \in Thread, NEW s, TakeSuperpage(t, s)
  PROVE  ClassesStay
  BY StayIfFreed DEF TakeSuperpage

\* Every other step leaves the blocks of the program alone.
LEMMA RemoteFreeStays ==
  ASSUME Shapes, NEW t \in Thread, RemoteFree(t)
  PROVE  out' = out /\ ClassesStay
<1>1. CASE CheckDead(t)
  BY <1>1, TakeStays, StayIfSame DEF CheckDead
<1>2. CASE LinkRun(t)
  BY <1>2, StayIfSame DEF LinkRun
<1>3. CASE Push(t)
  <2>1. ASSUME NEW p, NEW v, pbh' = [pbh EXCEPT ![p].remote = v] PROVE ClassesStay
    BY <2>1 DEF ClassesStay, Shapes, Headers
  <2>2. out' = out
    BY <1>3 DEF Push
  <2>3. \/ pbh' = pbh
        \/ pbh' = [pbh EXCEPT ![run[t].first[1]].remote = NewTop(t)]
    BY <1>3 DEF Push
  <2> QED BY <2>1, <2>2, <2>3, StayIfSame
<1>4. CASE CheckDeadAgain(t)
  BY <1>4, TakeStays, StayIfSame DEF CheckDeadAgain
<1> QED BY <1>1, <1>2, <1>3, <1>4 DEF RemoteFree

LEMMA TlhClearStays ==
  ASSUME Shapes, NEW t \in Thread, TlhClear(t)
  PROVE  out' = out /\ ClassesStay
<1>1. CASE Exit(t) \/ ThreadEnd(t)
  BY <1>1, StayIfSame DEF Exit, ThreadEnd, Cleared
<1>2. ASSUME NEW c \in Class, ExitList(t, c) PROVE out' = out /\ ClassesStay
  BY <1>2, StayIfSame DEF ExitList, Clearing
<1>3. ASSUME NEW c \in Class, ExitUnused(t, c) PROVE out' = out /\ ClassesStay
  <2>1. ASSUME NEW p, NEW u, NEW n,
               pbh' = [pbh EXCEPT ![p].unallocated = u, ![p].cnt_unused = n]
        PROVE  ClassesStay
    BY <2>1 DEF ClassesStay, Shapes, Headers
  <2>2. out' = out
    BY <1>3, Zenon DEF ExitUnused, Clearing
  <2>3. \/ PbFree(heap[t][c].ptr_to_unused[1])
        \/ pbh' = [pbh EXCEPT
             ![heap[t][c].ptr_to_unused[1]].unallocated = heap[t][c].ptr_to_unused,
             ![heap[t][c].ptr_to_unused[1]].cnt_unused = heap[t][c].cnt_unused]
    BY <1>3, Zenon DEF ExitUnused
  <2> QED BY <2>1, <2>2, <2>3, StayIfOneFreed, Zenon
<1>4. ASSUME NEW c \in Class, ExitPbh(t, c) PROVE out' = out /\ ClassesStay
  BY <1>4, StayIfSame, StayIfOneFreed DEF ExitPbh, Clearing
<1>5. ASSUME NEW s \in Superpage, ExitSuperpage(t, s) PROVE out' = out /\ ClassesStay
  BY <1>5, StayIfFreed DEF ExitSuperpage, Cleared
<1> QED BY <1>1, <1>2, <1>3, <1>4, <1>5 DEF TlhClear

Held == {<<b[1], b[2], ClassOf(b)>> : b \in out}

\* A block of the program lies in a page block that is in use.
LEMMA OutInUse ==
  ASSUME IInv
  PROVE  out \subseteq Block /\ \A b \in out : b[1] \in Pb /\ pbh[b[1]].sizeclass # 0
<1>1. PICK w, r : Placing(w, r, next, heap, pbh, Hands, rest, out, BlocksPerPbh)
  BY DEF IInv, Here, Placed
<1>2. out \subseteq Block
  BY DEF IInv, Shapes
<1>3. \A b \in out : w[b] = Program /\ (w[b] = Nowhere <=> ~InCarved(pbh, BlocksPerPbh, b))
  BY <1>1, <1>2, Sides DEF Sited
<1>4. \A b \in out : InCarved(pbh, BlocksPerPbh, b)
  BY <1>3, Spots
<1> QED BY <1>2, <1>4, Blocks DEF InCarved

LEMMA OutInUseNext ==
  (IInv => out \subseteq Block /\ \A b \in out : b[1] \in Pb /\ pbh[b[1]].sizeclass # 0)'
<1>1. IInv => out \subseteq Block /\ \A b \in out : b[1] \in Pb /\ pbh[b[1]].sizeclass # 0
  BY OutInUse
<1> QED BY <1>1, PTL

\* What the program keeps it has of the same class.
LEMMA OutStays ==
  ASSUME IInv, IInv', ClassesStay
  PROVE  /\ out \subseteq Block /\ out' \subseteq Block
         /\ \A b \in out' : b[1] \in Pb /\ pbh'[b[1]].sizeclass # 0
         /\ \A b \in out' : \A x \in out :
              x[1] = b[1] => pbh'[x[1]].sizeclass = pbh[x[1]].sizeclass
  BY OutInUse, OutInUseNext DEF ClassesStay

LEMMA MallocKeepsPromise ==
  ASSUME IInv, IInv', ClassesStay, NEW c \in Class, Gives(c)
  PROVE  Promise!Next
<1>1. PICK b \in Block : b \notin out /\ out' = out \cup {b} /\ pbh'[b[1]].sizeclass = c
  BY DEF Gives
<1>2. /\ out \subseteq Block /\ \A x \in out : x = <<x[1], x[2]>>
      /\ \A x \in out : x[1] = b[1] => pbh'[x[1]].sizeclass = pbh[x[1]].sizeclass
      /\ \A x \in out : pbh'[x[1]].sizeclass = pbh[x[1]].sizeclass
  BY <1>1, OutStays, Blocks
<1>3. b[1] \in Pb /\ b[2] \in Index /\ b = <<b[1], b[2]>>
  BY Blocks
<1>4. \A y \in Held : y[1] = b[1] => y[3] = c /\ y[2] # b[2]
  <2> SUFFICES ASSUME NEW x \in out, x[1] = b[1]
               PROVE  ClassOf(x) = c /\ x[2] # b[2]
    BY DEF Held
  <2>1. ClassOf(x) = c
    BY <1>1, <1>2 DEF ClassOf
  <2>2. x[2] # b[2]
    BY <1>1, <1>2, <1>3
  <2> QED BY <2>1, <2>2
<1>5. Held' = Held \cup {<<b[1], b[2], c>>}
  <2>1. \A x \in out : ClassOf(x)' = ClassOf(x)
    BY <1>2 DEF ClassOf
  <2>2. ClassOf(b)' = c
    BY <1>1 DEF ClassOf
  <2> QED BY <1>1, <2>1, <2>2 DEF Held
<1>6. Promise!Malloc(b[1], b[2], c)
  BY <1>4, <1>5 DEF Promise!Malloc, Held
<1> QED BY <1>3, <1>6 DEF Promise!Next, Class

LEMMA FreeKeepsPromise ==
  ASSUME IInv, NEW b \in out, out' = out \ {b}, pbh' = pbh
  PROVE  Promise!Next
<1> DEFINE y == <<b[1], b[2], ClassOf(b)>>
<1>1. \A x \in out : x = <<x[1], x[2]>>
  BY OutInUse, Blocks
<1>2. \A x \in out : ClassOf(x)' = ClassOf(x)
  BY DEF ClassOf
<1>3. \A x \in out : <<x[1], x[2], ClassOf(x)>> = y => x = b
  BY <1>1
<1>4. Held' = Held \ {y}
  BY <1>2, <1>3 DEF Held
<1>5. y \in Held
  BY DEF Held
<1> HIDE DEF y
<1>6. \E z \in Held : Promise!Free(z)
  BY <1>4, <1>5 DEF Promise!Free, Held
<1> QED BY <1>6 DEF Promise!Next, Held

LEMMA OthersKeepPromise ==
  ASSUME IInv, IInv', ClassesStay, out' = out
  PROVE  Held' = Held
<1>1. \A x \in out : ClassOf(x)' = ClassOf(x)
  BY OutStays DEF ClassOf
<1> QED BY <1>1 DEF Held

LEMMA NextKeepsPromise ==
  ASSUME IInv, [Next]_vars
  PROVE  Promise!Next \/ Held' = Held
<1>0. IInv' /\ Shapes
  BY NextIInv DEF IInv
<1>1. CASE UNCHANGED vars
  BY <1>1 DEF vars, Held, ClassOf
<1>2. CASE Next
  <2>1. PICK t \in Thread :
          \/ \E c \in Class : Malloc(t, c)
          \/ \E b \in out : SmallFree(t, b)
          \/ RemoteFree(t) \/ ReturnRun(t) \/ GoOnLocally(t)
          \/ TlhClear(t)
    BY <1>2 DEF Next
  <2>2. SpOf' = SpOf
    BY <1>2 DEF Next
  <2>3. ASSUME NEW c \in Class, Malloc(t, c) PROVE Promise!Next
    <3>1. Gives(c) /\ ClassesStay
      BY <2>2, <2>3, MallocStep, MallocStays
    <3> QED BY <1>0, <3>1, MallocKeepsPromise
  <2>4. ASSUME NEW b \in out, SmallFree(t, b) PROVE Promise!Next
    <3>1. out' = out \ {b} /\ pbh' = pbh
      BY <2>4 DEF SmallFree
    <3> QED BY <3>1, FreeKeepsPromise
  <2>5. ASSUME out' = out, ClassesStay PROVE Held' = Held
    BY <1>0, <2>5, OthersKeepPromise
  <2>6. CASE RemoteFree(t)
    BY <1>0, <2>5, <2>6, RemoteFreeStays
  <2>7. CASE ReturnRun(t)
    BY <1>0, <2>5, <2>7, AddBlocksStays, StayIfSame DEF ReturnRun
  <2>8. CASE GoOnLocally(t)
    BY <1>0, <2>5, <2>8, AddBlocksStays, StayIfSame DEF GoOnLocally
  <2>9. CASE TlhClear(t)
    BY <1>0, <2>5, <2>9, TlhClearStays
  <2> QED BY <2>1, <2>3, <2>4, <2>6, <2>7, <2>8, <2>9
<1> QED BY <1>1, <1>2

\* malloc never hands out a small block that is in use or overlaps one that is
\* (of small_malloc, whatever small_free, remote_free and tlh_clear do
\* meanwhile): SmallBlocks implements BlockPool.
THEOREM PromiseKept == Spec => KeepsPromise
<1>1. Init => Promise!Init
  BY DEF Init, Promise!Init
<1>2. IInv /\ [Next]_vars => [Promise!Next]_Held
  BY NextKeepsPromise
<1> QED BY <1>1, <1>2, InvariantHolds, PTL DEF Spec, KeepsPromise, Promise!Spec, Held
=============================================================================
