--------------------------- MODULE MCPages_proof ---------------------------
(* The parts of MCPages: what the size map promises of every size and      *)
(* every alignment, and the theorems of PageBlocks_proof for its instances *)
(* of PageBlocks.  For the tree of the pagemap see PageMap_proof.          *)
EXTENDS MCPages, FiniteSetTheorems, TLAPS

----------------------------------------------------------------------------
(* Powers of two                                                           *)

Powers ==
  <<1, 2, 4, 8, 16, 32, 64, 128, 256, 512, 1024, 2048, 4096, 8192, 16384,
    32768, 65536, 131072, 262144, 524288, 1048576, 2097152, 4194304, 8388608,
    16777216, 33554432, 67108864, 134217728, 268435456, 536870912, 1073741824>>

LEMMA PowersStep ==
  \A k \in 0 .. 30 : Powers[k + 1] = IF k = 0 THEN 1 ELSE 2 * Powers[k]
BY DEF Powers

(* Pow2 is what its recursion says.                                        *)
LEMMA Pow2Step ==
  Pow2 = [k \in 0 .. 30 |-> IF k = 0 THEN 1 ELSE 2 * Pow2[k - 1]]
<1> DEFINE P == [k \in 0 .. 30 |-> Powers[k + 1]]
<1>1. P = [k \in 0 .. 30 |-> IF k = 0 THEN 1 ELSE 2 * P[k - 1]]
  <2>1. \A k \in 0 .. 30 : P[k] = IF k = 0 THEN 1 ELSE 2 * P[k - 1]
    BY PowersStep
  <2> QED BY <2>1
<1> QED BY <1>1 DEF Pow2

LEMMA Pow2Values == \A k \in 0 .. 30 : Pow2[k] = Powers[k + 1]
<1>1. Pow2[0] = 1
  BY Pow2Step
<1>2. \A k \in 1 .. 30 : Pow2[k] = 2 * Pow2[k - 1]
  BY Pow2Step
<1> QED BY <1>1, <1>2 DEF Powers

LEMMA Pow2Range == \A k \in 0 .. 30 : Pow2[k] \in 1 .. Pow2[30]
BY Pow2Values DEF Powers

(* Where the powers up to a limit end.                                     *)
LEMMA Pow2Below ==
  \A k \in 0 .. 30 :
    /\ Pow2[k] < 4096 => Pow2[k] \in {1, 2, 4, 8, 16, 32, 64, 128, 256, 512,
                                      1024, 2048}
    /\ Pow2[k] <= 256 => Pow2[k] \in {1, 2, 4, 8, 16, 32, 64, 128, 256}
    /\ Pow2[k] > 4096 => Pow2[k] % 4096 = 0
BY Pow2Values DEF Powers

LEMMA LogFloor ==
  ASSUME NEW n \in Nat, NEW k \in 0 .. 29, Pow2[k] <= n, n < Pow2[k + 1]
  PROVE  get_logfloor(n) = k
<1> DEFINE S == {j \in 0 .. 30 : Pow2[j] <= n}
<1>1. \A j \in 0 .. 30 : Pow2[j] \in Nat /\ (j > k => Pow2[k + 1] <= Pow2[j])
  <2>1. \A i, j \in 0 .. 30 : i <= j => Powers[i + 1] <= Powers[j + 1]
    BY DEF Powers
  <2> QED BY <2>1, Pow2Values, Pow2Range
<1>2. k \in S /\ \A j \in S : j <= k
  BY <1>1
<1>3. \A m \in S : (\A j \in S : m >= j) => m = k
  BY <1>2
<1> QED BY <1>2, <1>3 DEF get_logfloor, Max

----------------------------------------------------------------------------
(* Remainders, and the smallest of a set                                   *)

LEMMA Multiple == \A a \in Nat \ {0}, x \in Nat : (x * a) % a = 0
OBVIOUS

LEMMA MultipleOf ==
  ASSUME NEW a \in Nat \ {0}, NEW c \in Nat, c % a = 0, NEW k \in Nat
  PROVE  (k * c) % a = 0
<1>1. c = (c \div a) * a /\ c \div a \in Nat
  OBVIOUS
<1>2. PICK q \in Nat : c = q * a
  BY <1>1
<1>3. k * c = (k * q) * a /\ k * q \in Nat
  BY <1>2
<1> QED BY <1>3, Multiple

LEMMA MinOfTwo ==
  ASSUME NEW a \in Nat, NEW b \in Nat
  PROVE  Min({a, b}) = IF a <= b THEN a ELSE b
BY DEF Min

LEMMA Least ==
  ASSUME NEW S, S \subseteq Nat, S # {}
  PROVE  \E m \in S : \A k \in S : m <= k
<1>1. IsWellFoundedOn(OpToRel(<, Nat), Nat)
  BY NatLessThanWellFounded
<1>2. PICK m \in S : \A k \in S : ~ (<<k, m>> \in OpToRel(<, Nat))
  BY <1>1, WFMin
<1>3. \A k \in S : ~ (k < m)
  BY <1>2 DEF OpToRel
<1> QED BY <1>3

LEMMA MinOfClasses ==
  ASSUME NEW S \in SUBSET Class, S # {}
  PROVE  Min(S) \in S
<1>1. S \in SUBSET Nat
  BY DEF Class, NUM_CLASSES
<1>2. PICK m \in S : \A k \in S : m <= k
  BY <1>1, Least
<1> QED BY <1>2 DEF Min

----------------------------------------------------------------------------
(* The classes                                                             *)

(* class_array has an entry for every size up to MAX_SIZE, whose granule   *)
(* the size is in.                                                         *)
LEMMA IndexRange ==
  ASSUME NEW s \in Nat, s <= MAX_SIZE
  PROVE  /\ get_classindex(s) \in 0 .. 376
         /\ IF s <= MAX_SMALL_SIZE
            THEN /\ get_classindex(s) <= 128
                 /\ s <= 8 * get_classindex(s)
                 /\ 8 * get_classindex(s) < s + 8
            ELSE /\ get_classindex(s) > 128
                 /\ s <= 128 * (get_classindex(s) - 120)
                 /\ 128 * (get_classindex(s) - 120) < s + 128
BY DEF get_classindex, MAX_SMALL_SIZE, MAX_SIZE, PAGE_SIZE

(* Every entry belongs to a class.                                         *)
LEMMA EntryHasClass ==
  \A i \in 0 .. 376 :
    \E cl \in Class : /\ i <= ClassArrayEnds[cl + 1]
                      /\ cl > 0 => ClassArrayEnds[cl] < i
BY DEF ClassArrayEnds, Class, NUM_CLASSES

(* The blocks of a class hold every size whose entry it has, and those of  *)
(* a smaller class do not.                                                 *)
LEMMA EntryFits ==
  \A cl \in Class, i \in Nat : i <= ClassArrayEnds[cl + 1] =>
    IF i <= 128 THEN 8 * i <= get_size_for_class(cl)
    ELSE 128 * (i - 120) <= get_size_for_class(cl)
BY DEF get_size_for_class, ClassToSize, ClassArrayEnds, Class, NUM_CLASSES

LEMMA SmallerTooSmall ==
  \A cl \in Class, i \in Nat : (cl > 0 /\ ClassArrayEnds[cl] < i) =>
    IF i <= 128 THEN get_size_for_class(cl - 1) <= 8 * (i - 1)
    ELSE get_size_for_class(cl - 1) <= 128 * (i - 121)
BY DEF get_size_for_class, ClassToSize, ClassArrayEnds, Class, NUM_CLASSES

LEMMA ClassesGrow ==
  \A c, d \in Class : c < d => get_size_for_class(c) < get_size_for_class(d)
BY DEF get_size_for_class, ClassToSize, Class, NUM_CLASSES

LEMMA ClassOf ==
  ASSUME NEW s \in Nat, s <= MAX_SIZE
  PROVE  /\ get_sizeclass(s) \in Class
         /\ s <= get_size_for_class(get_sizeclass(s))
         /\ \A c \in Class :
              get_size_for_class(c) < get_size_for_class(get_sizeclass(s)) =>
                get_size_for_class(c) < s
<1> DEFINE i == get_classindex(s)
           cl == get_sizeclass(s)
<1>1. i \in 0 .. 376
  BY IndexRange
<1>2. /\ cl \in Class /\ i <= ClassArrayEnds[cl + 1]
      /\ cl > 0 => ClassArrayEnds[cl] < i
  BY <1>1, EntryHasClass DEF get_sizeclass
<1> HIDE DEF i, cl
<1>3. IF s <= MAX_SMALL_SIZE
      THEN i <= 128 /\ s <= 8 * i /\ 8 * i < s + 8
      ELSE i > 128 /\ s <= 128 * (i - 120) /\ 128 * (i - 120) < s + 128
  BY IndexRange DEF i
<1>4. get_size_for_class(cl) \in Nat /\ s <= get_size_for_class(cl)
  <2>1. get_size_for_class(cl) \in Nat
    BY <1>2 DEF get_size_for_class, ClassToSize, Class, NUM_CLASSES
  <2> QED BY <1>1, <1>2, <1>3, <2>1, EntryFits
<1>5. ASSUME NEW c \in Class, get_size_for_class(c) < get_size_for_class(cl)
      PROVE  get_size_for_class(c) < s
  <2>1. /\ c \in Int /\ cl \in Int
        /\ get_size_for_class(c) \in Nat /\ cl - 1 \in Int
    BY <1>2 DEF get_size_for_class, ClassToSize, Class, NUM_CLASSES
  <2>2. c < cl
    BY <1>2, <1>4, <1>5, <2>1, ClassesGrow
  <2>3. /\ cl > 0 /\ cl - 1 \in Class /\ (c = cl - 1 \/ c < cl - 1)
        /\ get_size_for_class(cl - 1) \in Nat
    BY <1>2, <2>2
       DEF get_size_for_class, ClassToSize, Class, NUM_CLASSES
  <2>4. get_size_for_class(c) <= get_size_for_class(cl - 1)
    BY <2>1, <2>3, ClassesGrow
  <2>5. get_size_for_class(cl - 1) < s
    BY <1>1, <1>2, <1>3, <2>3, SmallerTooSmall
  <2> QED BY <2>1, <2>3, <2>4, <2>5
<1> QED BY <1>2, <1>4, <1>5 DEF cl

(* What info[] says of every class: the blocks lie one after the other in  *)
(* the page block.                                                         *)
LEMMA Limits ==
  MAX_SIZE \in Nat /\ \A n \in Nat : n <= MAX_SIZE <=> n <= 32768
BY DEF MAX_SIZE, PAGE_SIZE

LEMMA ClassFacts ==
  \A cl \in Class :
    /\ get_size_for_class(cl) \in 8 .. MAX_SIZE
    /\ get_blocks_for_class(cl) \in Nat \ {0}
    /\ get_pages_for_class(cl) \in Nat \ {0}
    /\ get_blocks_for_class(cl) * get_size_for_class(cl)
         <= get_pages_for_class(cl) * PAGE_SIZE
<1>1. \A cl \in Class : get_size_for_class(cl) \in 8 .. MAX_SIZE
  <2>1. \A cl \in Class : /\ get_size_for_class(cl) \in Nat
                          /\ get_size_for_class(cl) >= 8
                          /\ get_size_for_class(cl) <= 32768
    BY DEF get_size_for_class, ClassToSize, Class, NUM_CLASSES
  <2> QED BY <2>1, Limits
<1>2. \A cl \in Class : get_blocks_for_class(cl) \in Nat \ {0}
  BY DEF get_blocks_for_class, NumBlocksPerPbh, Class, NUM_CLASSES
<1>3. \A cl \in Class : get_pages_for_class(cl) \in Nat \ {0}
  BY DEF get_pages_for_class, ClassToPages, Class, NUM_CLASSES
<1>4. \A cl \in Class :
        get_blocks_for_class(cl) * get_size_for_class(cl)
          <= get_pages_for_class(cl) * PAGE_SIZE
  BY DEF get_size_for_class, ClassToSize, Class, NUM_CLASSES, PAGE_SIZE,
         get_blocks_for_class, NumBlocksPerPbh, get_pages_for_class,
         ClassToPages
<1> QED BY <1>1, <1>2, <1>3, <1>4

----------------------------------------------------------------------------
(* What malloc returns                                                     *)

Blocks == [start : Nat, end : Nat, first : Nat, last : Nat]

(* b has room for size bytes, in its pages.                                *)
HasRoom(b, size) ==
  /\ b \in Blocks /\ b.start < b.end /\ b.end - b.start >= size
  /\ b.first <= b.start /\ b.end <= b.last

LEMMA SmallRoom ==
  ASSUME NEW cl \in Class, NEW b \in SmallBlocks(cl)
  PROVE  /\ HasRoom(b, get_size_for_class(cl))
         /\ b.end - b.start = get_size_for_class(cl)
         /\ \E k \in Nat : b.start = k * get_size_for_class(cl)
<1> DEFINE size == get_size_for_class(cl)
           n == get_blocks_for_class(cl)
           top == get_pages_for_class(cl) * PAGE_SIZE
<1>1. size \in Nat \ {0} /\ n \in Nat \ {0} /\ top \in Nat /\ n * size <= top
  <2>1. size \in 8 .. MAX_SIZE /\ n \in Nat \ {0} /\ n * size <= top
    BY ClassFacts
  <2>2. get_pages_for_class(cl) \in Nat
    BY ClassFacts
  <2>3. top \in Nat
    BY <2>2 DEF PAGE_SIZE
  <2> HIDE DEF size, n, top
  <2> QED BY <2>1, <2>3 DEF MAX_SIZE, PAGE_SIZE
<1>2. PICK k \in 0 .. n - 1 : b = Block(k * size, (k + 1) * size, 0, top)
  BY DEF SmallBlocks
<1> HIDE DEF size, n, top
<1>3. /\ k \in Nat /\ k * size \in Nat /\ (k + 1) * size \in Nat
      /\ (k + 1) * size = k * size + size /\ (k + 1) * size <= n * size
  BY <1>1, Z3
<1>4. (k + 1) * size <= top
  BY <1>1, <1>3
<1>5. HasRoom(b, size) /\ b.end - b.start = size /\ b.start = k * size
  BY <1>1, <1>2, <1>3, <1>4 DEF Block, HasRoom, Blocks
<1> QED BY <1>3, <1>5 DEF size

LEMMA PagesRoom ==
  ASSUME NEW s \in Nat \ {0}, NEW b \in PageRun(GET_PAGE_LEN(s))
  PROVE  HasRoom(b, s) /\ b.start = 0
<1>1. GET_PAGE_LEN(s) \in Nat /\ s <= GET_PAGE_LEN(s) * PAGE_SIZE
  BY DEF GET_PAGE_LEN, PAGE_SIZE
<1> HIDE DEF GET_PAGE_LEN
<1>2. b = Block(0, GET_PAGE_LEN(s) * PAGE_SIZE, 0, GET_PAGE_LEN(s) * PAGE_SIZE)
  BY DEF PageRun
<1> QED BY <1>1, <1>2 DEF Block, HasRoom, Blocks, PAGE_SIZE

(* No class smaller than b holds size.                                     *)
NoSmaller(b, size) ==
  \A cl \in Class : get_size_for_class(cl) < b.end - b.start =>
                      get_size_for_class(cl) < size

LEMMA MallocRoom ==
  ASSUME NEW s \in Nat, NEW b \in Malloced(s)
  PROVE  HasRoom(b, s) /\ (s <= MAX_SIZE => NoSmaller(b, s))
<1>1. CASE s <= MAX_SIZE
  <2> DEFINE cl == get_sizeclass(s)
  <2>1. b \in SmallBlocks(cl)
    BY <1>1 DEF Malloced
  <2>2. cl \in Class /\ s <= get_size_for_class(cl)
        /\ \A c \in Class : get_size_for_class(c) < get_size_for_class(cl) =>
                              get_size_for_class(c) < s
    BY <1>1, ClassOf
  <2> HIDE DEF cl
  <2>3. HasRoom(b, get_size_for_class(cl))
        /\ b.end - b.start = get_size_for_class(cl)
        /\ get_size_for_class(cl) \in Nat
    BY <2>1, <2>2, SmallRoom, ClassFacts
  <2> QED BY <2>2, <2>3 DEF HasRoom, NoSmaller
<1>2. CASE s > MAX_SIZE
  <2>1. s \in Nat \ {0} /\ ~ (s <= MAX_SIZE)
    BY <1>2 DEF MAX_SIZE, PAGE_SIZE
  <2>2. b \in PageRun(GET_PAGE_LEN(s))
    BY <2>1 DEF Malloced
  <2> QED BY <2>1, <2>2, PagesRoom
<1> QED BY <1>1, <1>2 DEF MAX_SIZE, PAGE_SIZE

----------------------------------------------------------------------------
(* Alignment                                                               *)

(* What get_alignment promises, every block of the class keeps, but for    *)
(* the class of 8 bytes.                                                   *)
LEMMA ClassAligned ==
  \A cl \in Class :
    LET size == get_size_for_class(cl)
    IN /\ size > 8 => size % 16 = 0
       /\ size \in 256 .. 512 => size % 32 = 0
       /\ size \in 512 .. 1024 => size % 64 = 0
       /\ size >= 1024 => size % 128 = 0
       /\ size >= 2048 => size % 256 = 0
BY DEF get_size_for_class, ClassToSize, Class, NUM_CLASSES

(* The sizes where the promise changes are classes.                        *)
LEMMA Landmarks ==
  \A n \in {512, 1024} : \E cl \in Class : get_size_for_class(cl) = n
BY DEF get_size_for_class, ClassToSize, Class, NUM_CLASSES

LEMMA AlignmentOf ==
  ASSUME NEW s \in Nat, s <= MAX_SIZE
  PROVE  get_alignment(s) = IF s < 256 THEN 16 ELSE IF s < 512 THEN 32
                            ELSE IF s < 1024 THEN 64
                            ELSE IF s < 2048 THEN 128 ELSE 256
<1>1. /\ Pow2[7] = 128 /\ Pow2[8] = 256 /\ Pow2[9] = 512 /\ Pow2[10] = 1024
      /\ Pow2[11] = 2048
  BY Pow2Values DEF Powers
<1>2. /\ s \in 128 .. 255 => get_logfloor(s) = 7
      /\ s \in 256 .. 511 => get_logfloor(s) = 8
      /\ s \in 512 .. 1023 => get_logfloor(s) = 9
      /\ s \in 1024 .. 2047 => get_logfloor(s) = 10
  <2>1. ASSUME NEW k \in {7, 8, 9, 10}, Pow2[k] <= s, s < Pow2[k + 1]
        PROVE  get_logfloor(s) = k
    BY <2>1, LogFloor
  <2> QED BY <1>1, <2>1
<1>3. CASE s < 128
  BY <1>3 DEF get_alignment, ALIGNMENT, MAX_SIZE, PAGE_SIZE
<1>4. CASE s \in 128 .. 2047
  <2>1. get_alignment(s) = Pow2[get_logfloor(s)] \div 8
    BY <1>4 DEF get_alignment, MAX_SIZE, PAGE_SIZE
  <2> QED BY <1>1, <1>2, <1>4, <2>1
<1>5. CASE s \in 2048 .. MAX_SIZE
  <2>1. MAX_SIZE \in Int /\ s >= 2048
    BY <1>5, Limits
  <2>2. get_alignment(s) = 256
    BY <1>5, <2>1 DEF get_alignment
  <2> QED BY <2>1, <2>2
<1> QED BY <1>3, <1>4, <1>5 DEF MAX_SIZE, PAGE_SIZE

LEMMA PromiseKept ==
  ASSUME NEW s \in Nat, s <= MAX_SIZE, get_size_for_class(get_sizeclass(s)) # 8
  PROVE  get_size_for_class(get_sizeclass(s)) % get_alignment(s) = 0
<1> DEFINE size == get_size_for_class(get_sizeclass(s))
<1>1. /\ get_sizeclass(s) \in Class /\ s <= size
      /\ \A n \in {512, 1024} : n < size => n < s
      /\ size \in 8 .. MAX_SIZE
  BY ClassOf, ClassFacts, Landmarks
<1>2. /\ size > 8 => size % 16 = 0
      /\ size \in 256 .. 512 => size % 32 = 0
      /\ size \in 512 .. 1024 => size % 64 = 0
      /\ size >= 1024 => size % 128 = 0
      /\ size >= 2048 => size % 256 = 0
  BY <1>1, ClassAligned
<1>3. size # 8
  OBVIOUS
<1> HIDE DEF size
<1>4. size % get_alignment(s) = 0
  <2>1. CASE s < 256
    BY <1>1, <1>2, <1>3, <2>1, AlignmentOf
  <2>2. CASE s \in 256 .. 511
    BY <1>1, <1>2, <2>2, AlignmentOf
  <2>3. CASE s \in 512 .. 1023
    BY <1>1, <1>2, <2>3, AlignmentOf
  <2>4. CASE s >= 1024
    BY <1>1, <1>2, <2>4, AlignmentOf
  <2> QED BY <2>1, <2>2, <2>3, <2>4
<1> QED BY <1>4 DEF size

(* A power of two that get_alignment does not fall short of divides it.    *)
LEMMA PromiseDivides ==
  ASSUME NEW s \in Nat, s <= MAX_SIZE,
         NEW k \in 0 .. 30, Pow2[k] <= get_alignment(s),
         NEW n \in Nat, n % get_alignment(s) = 0
  PROVE  n % Pow2[k] = 0
<1>1. get_alignment(s) \in {16, 32, 64, 128, 256}
  BY AlignmentOf
<1>2. Pow2[k] \in {1, 2, 4, 8, 16, 32, 64, 128, 256}
  BY <1>1, Pow2Below, Pow2Range
<1> DEFINE g == get_alignment(s)
           a == Pow2[k]
<1>3. n % g = 0 /\ a <= g /\ g \in {16, 32, 64, 128, 256}
      /\ a \in {1, 2, 4, 8, 16, 32, 64, 128, 256}
  BY <1>1, <1>2
<1> HIDE DEF g, a
<1>4. n % a = 0
  <2>1. CASE g = 16
    BY <1>3, <2>1
  <2>2. CASE g = 32
    BY <1>3, <2>2
  <2>3. CASE g = 64
    BY <1>3, <2>3
  <2>4. CASE g = 128
    BY <1>3, <2>4
  <2>5. CASE g = 256
    BY <1>3, <2>5
  <2> QED BY <1>3, <2>1, <2>2, <2>3, <2>4, <2>5
<1> QED BY <1>4 DEF a

(* The blocks of a class that is a multiple of the alignment.              *)
LEMMA SmallAligned ==
  ASSUME NEW cl \in Class, NEW b \in SmallBlocks(cl), NEW a \in Nat \ {0},
         get_size_for_class(cl) % a = 0
  PROVE  b.start % a = 0
<1>1. PICK k \in Nat : b.start = k * get_size_for_class(cl)
  BY SmallRoom
<1>2. get_size_for_class(cl) \in Nat
  BY ClassFacts
<1> QED BY <1>1, <1>2, MultipleOf

(* What posix_memalign returns in place of a block it would have returned  *)
(* to malloc, by each of its four paths.                                   *)
Served(b, a, s) ==
  HasRoom(b, s) /\ (b.end - b.start # 8 => b.start % a = 0)

LEMMA FallBack ==
  ASSUME NEW s \in Nat \ {0}, NEW k \in 0 .. 30, Pow2[k] <= get_alignment(s),
         NEW b \in Malloced(s)
  PROVE  Served(b, Pow2[k], s)
<1>1. Pow2[k] \in Nat \ {0}
  BY Pow2Range, Pow2Values DEF Powers
<1>2. CASE s <= MAX_SIZE
  <2> DEFINE cl == get_sizeclass(s)
  <2>1. cl \in Class /\ b \in SmallBlocks(cl)
    BY <1>2, ClassOf DEF Malloced
  <2>2. b.end - b.start = get_size_for_class(cl) /\ get_size_for_class(cl) \in Nat
    BY <2>1, SmallRoom, ClassFacts
  <2>3. get_size_for_class(cl) # 8 => get_size_for_class(cl) % Pow2[k] = 0
    BY <1>2, <2>2, PromiseKept, PromiseDivides
  <2>4. get_size_for_class(cl) # 8 => b.start % Pow2[k] = 0
    BY <1>1, <2>1, <2>3, SmallAligned
  <2> QED BY <2>2, <2>4, MallocRoom DEF Served
<1>3. CASE ~ (s <= MAX_SIZE)
  <2>1. b \in PageRun(GET_PAGE_LEN(s))
    BY <1>3 DEF Malloced
  <2>2. HasRoom(b, s) /\ b.start = 0
    BY <2>1, PagesRoom
  <2> QED BY <1>1, <2>2 DEF Served
<1> QED BY <1>2, <1>3

LEMMA BiggerClass ==
  ASSUME NEW s \in Nat \ {0}, s <= MAX_SIZE, NEW a \in Nat \ {0},
         AlignedClasses(s, a) # {},
         NEW b \in Malloced(get_size_for_class(Min(AlignedClasses(s, a))))
  PROVE  Served(b, a, s)
<1> DEFINE c == Min(AlignedClasses(s, a))
           size == get_size_for_class(c)
           d == get_sizeclass(size)
<1>1. c \in Class /\ c >= get_sizeclass(s) /\ size % a = 0
      /\ get_sizeclass(s) \in Class
  <2>1. get_sizeclass(s) \in Class
    BY ClassOf
  <2>2. AlignedClasses(s, a) \in SUBSET Class
    BY <2>1 DEF AlignedClasses, Class, NUM_CLASSES
  <2>3. c \in AlignedClasses(s, a)
    BY <2>2, MinOfClasses
  <2> QED BY <2>1, <2>2, <2>3 DEF AlignedClasses, Class, NUM_CLASSES
<1> HIDE DEF c
<1>2. size \in Nat /\ size <= MAX_SIZE /\ s <= size
  <2>1. size \in 8 .. MAX_SIZE /\ get_size_for_class(get_sizeclass(s)) \in Nat
    BY <1>1, ClassFacts
  <2>2. get_size_for_class(get_sizeclass(s)) <= size
    BY <1>1, <2>1, ClassesGrow DEF Class, NUM_CLASSES
  <2> QED BY <2>1, <2>2, ClassOf, Limits
<1>3. b \in SmallBlocks(d)
  BY <1>2 DEF Malloced, c
<1>4. d \in Class /\ get_size_for_class(d) = size
  <2>1. /\ d \in Class /\ size <= get_size_for_class(d)
        /\ size < get_size_for_class(d) => size < size
    BY <1>1, <1>2, ClassOf
  <2>2. get_size_for_class(d) \in Nat
    BY <2>1, ClassFacts
  <2> HIDE DEF d
  <2> QED BY <1>2, <2>1, <2>2
<1> HIDE DEF size, d
<1>5. HasRoom(b, size) /\ b.start % a = 0
  BY <1>1, <1>3, <1>4, SmallRoom, SmallAligned
<1> QED BY <1>2, <1>5 DEF Served, HasRoom, Blocks

LEMMA AlignedPortion ==
  ASSUME NEW s \in Nat \ {0}, NEW a \in Nat \ {0}, NEW b \in Carved(s, a)
  PROVE  Served(b, a, s)
<1> DEFINE len == GET_PAGE_LEN(s + a)
<1>1. len \in Nat /\ s + a <= len * PAGE_SIZE
  BY DEF GET_PAGE_LEN, PAGE_SIZE
<1> HIDE DEF len
<1>2. PICK p \in 0 .. a \div PAGE_SIZE - 1 :
        b = Block(((p * PAGE_SIZE + a - 1) \div a) * a, (p + len) * PAGE_SIZE,
                  ((p * PAGE_SIZE + a - 1) \div a) * a, (p + len) * PAGE_SIZE)
  BY DEF Carved, len
<1> DEFINE x == p * PAGE_SIZE + a - 1
           r == (x \div a) * a
           e == (p + len) * PAGE_SIZE
<1>3. p \in Nat /\ x \in Nat /\ e \in Nat /\ e >= x + 1 + s
  BY <1>1, <1>2 DEF PAGE_SIZE
<1>4. b = Block(r, e, r, e)
  BY <1>2
<1> HIDE DEF x, e
<1>5. r \in Nat /\ r <= x /\ r % a = 0
  BY <1>3, Multiple
<1> HIDE DEF r
<1> QED BY <1>3, <1>4, <1>5 DEF Served, HasRoom, Blocks, Block

LEMMA MemalignServes ==
  ASSUME NEW s \in Nat \ {0}, NEW k \in 0 .. 30,
         NEW b \in PosixMemalign(Pow2[k], s)
  PROVE  Served(b, Pow2[k], s)
<1>1. Pow2[k] \in Nat \ {0}
  BY Pow2Range, Pow2Values DEF Powers
<1>2. CASE Pow2[k] <= get_alignment(s)
  BY <1>2, FallBack DEF PosixMemalign
<1>3. CASE /\ ~ (Pow2[k] <= get_alignment(s))
           /\ s <= MAX_SIZE /\ Pow2[k] < PAGE_SIZE
           /\ AlignedClasses(s, Pow2[k]) # {}
  BY <1>1, <1>3, BiggerClass DEF PosixMemalign
<1>4. CASE b \in PageRun(GET_PAGE_LEN(s))
  BY <1>1, <1>4, PagesRoom DEF Served
<1>5. CASE b \in Carved(s, Pow2[k])
  BY <1>1, <1>5, AlignedPortion
<1> QED BY <1>2, <1>3, <1>4, <1>5 DEF PosixMemalign

(* Alignment 1 is malloc's.                                                *)
LEMMA MemalignOne ==
  ASSUME NEW s \in Nat \ {0}
  PROVE  PosixMemalign(1, s) = Malloced(s)
<1>1. CASE s <= MAX_SIZE
  BY <1>1, AlignmentOf DEF PosixMemalign
<1>2. CASE s > MAX_SIZE
  <2>1. s > 32768 /\ ~ (s <= MAX_SIZE)
    BY <1>2, Limits
  <2>2. get_alignment(s) = PAGE_SIZE
    BY <1>2, <2>1, Limits DEF get_alignment
  <2> QED BY <2>2 DEF PosixMemalign, PAGE_SIZE
<1> QED BY <1>1, <1>2, Limits

----------------------------------------------------------------------------
(* The invariant                                                           *)

Calls ==
  /\ req \in [size : Nat, alignment : Nat \ {0}]
  /\ old \in [size : Nat, old_size : Nat, kept : Nat]
  /\ out \in {"idle", "block", "null", "EINVAL"}
  /\ out # "block" => old = NoOld

(* There is room, and what posix_memalign aligned stays where it is until  *)
(* realloc moves it, whose alignment is then malloc's again.               *)
Given == IsBlock => Served(ret, req.alignment, req.size)

IInv == Calls /\ Given /\ ReallocKeeps /\ SmallestClass

(* A block that is just returned.                                          *)
LEMMA Returned ==
  ASSUME NEW s \in Nat, NEW a \in Nat \ {0},
         req' = [size |-> s, alignment |-> a],
         out' = "block" => Served(ret', a, s),
         out' = "block" /\ a = 1 /\ s <= MAX_SIZE => NoSmaller(ret', s),
         out' \in {"idle", "block", "null", "EINVAL"},
         old' = NoOld
  PROVE  IInv'
<1>1. Calls'
  BY DEF Calls, NoOld
<1>2. Given'
  BY DEF Given, IsBlock
<1>3. ReallocKeeps'
  BY DEF ReallocKeeps
<1>4. SmallestClass'
  BY DEF SmallestClass, IsBlock, NoSmaller
<1> QED BY <1>1, <1>2, <1>3, <1>4 DEF IInv

LEMMA MallocServes ==
  ASSUME NEW s \in Nat, NEW b \in Malloced(s)
  PROVE  Served(b, 1, s) /\ (s <= MAX_SIZE => NoSmaller(b, s))
<1>1. HasRoom(b, s)
  BY MallocRoom
<1> QED BY <1>1, MallocRoom DEF Served, HasRoom, Blocks

LEMMA InitInv == SizeInit => IInv
BY DEF SizeInit, IInv, Calls, Given, IsBlock, ReallocKeeps, SmallestClass, NoOld

LEMMA MallocStep == SizesOK /\ IInv /\ malloc => IInv'
<1> SUFFICES ASSUME SizesOK, IInv, malloc PROVE IInv'
  OBVIOUS
<1>1. PICK s \in Sizes : /\ req' = [size |-> s, alignment |-> 1]
                         /\ out' = "block" /\ ret' \in Malloced(s)
  BY DEF malloc
<1>2. s \in Nat
  BY Pow2Values DEF SizesOK, Powers
<1>3. old' = NoOld
  BY DEF malloc, IInv, Calls
<1> QED BY <1>1, <1>2, <1>3, MallocServes, Returned

LEMMA CallocStep == SizesOK /\ IInv /\ calloc => IInv'
<1> SUFFICES ASSUME SizesOK, IInv, calloc PROVE IInv'
  OBVIOUS
<1>1. PICK n \in Counts, z \in Resized :
        /\ req' = [size |-> n * z, alignment |-> 1]
        /\ out' = IF n * z = 0 THEN "null" ELSE "block"
        /\ ret' \in IF out' = "block" THEN Malloced(n * z) ELSE {NoBlock}
  BY DEF calloc
<1>2. n \in Nat /\ z \in Nat
  BY Pow2Values DEF SizesOK, Powers
<1>3. n * z \in Nat
  BY <1>2
<1>4. old' = NoOld
  BY DEF calloc, IInv, Calls
<1> DEFINE s == n * z
<1>5. s \in Nat /\ req' = [size |-> s, alignment |-> 1]
      /\ out' = (IF s = 0 THEN "null" ELSE "block")
      /\ (out' = "block" => ret' \in Malloced(s))
  BY <1>1, <1>3
<1> HIDE DEF s
<1> QED BY <1>4, <1>5, MallocServes, Returned

LEMMA MemalignStep == SizesOK /\ IInv /\ posix_memalign => IInv'
<1> SUFFICES ASSUME SizesOK, IInv, posix_memalign PROVE IInv'
  OBVIOUS
<1>1. PICK s \in Sizes, a \in Alignments :
        /\ req' = [size |-> s, alignment |-> a]
        /\ out' = CASE s = 0                        -> "null"
                    [] s > 0 /\ ~IsPowerOf2(a)      -> "EINVAL"
                    [] s > 0 /\ IsPowerOf2(a)       -> "block"
        /\ ret' \in IF out' = "block" THEN PosixMemalign(a, s) ELSE {NoBlock}
  BY DEF posix_memalign
<1>2. s \in Nat /\ a \in Nat \ {0}
  BY Pow2Values DEF SizesOK, Powers
<1>3. old' = NoOld
  BY DEF posix_memalign, IInv, Calls
<1>4. /\ out' \in {"null", "EINVAL", "block"}
      /\ out' = "block" => s \in Nat \ {0} /\ IsPowerOf2(a)
                           /\ ret' \in PosixMemalign(a, s)
  BY <1>1, <1>2
<1>5. ASSUME out' = "block" PROVE Served(ret', a, s)
  BY <1>4, <1>5, MemalignServes DEF IsPowerOf2
<1>6. ASSUME out' = "block", a = 1, s <= MAX_SIZE PROVE NoSmaller(ret', s)
  BY <1>4, <1>6, MemalignOne, MallocServes
<1> QED BY <1>1, <1>2, <1>3, <1>4, <1>5, <1>6, Returned

LEMMA ReallocStep == SizesOK /\ IInv /\ realloc => IInv'
<1> SUFFICES ASSUME SizesOK, IInv, realloc PROVE IInv'
  OBVIOUS
<1>1. PICK s \in Resized \ {0} :
        \/ /\ req' = [size |-> s, alignment |-> 1]
           /\ ret' \in Malloced(s)
           /\ old' = [size |-> req.size, old_size |-> OldSize,
                      kept |-> CopiedBytes(OldSize, s)]
        \/ /\ ~ (s > OldSize)
           /\ req' = [req EXCEPT !.size = s]
           /\ old' = [size |-> req.size, old_size |-> OldSize,
                      kept |-> OldSize]
           /\ ret' = ret
  BY DEF realloc
<1>2. s \in Nat
  BY Pow2Values DEF SizesOK, Powers
<1>3. out = "block" /\ out' = "block" /\ HasRoom(ret, req.size)
      /\ Served(ret, req.alignment, req.size)
      /\ req.size \in Nat /\ req.alignment \in Nat \ {0}
      /\ req = [size |-> req.size, alignment |-> req.alignment]
  BY DEF realloc, IInv, Calls, Given, IsBlock, Served
<1>4. OldSize \in Nat \ {0} /\ OldSize >= req.size
  BY <1>3 DEF HasRoom, Blocks, OldSize
<1>5. /\ HasRoom(ret', s) /\ Served(ret', req'.alignment, s)
      /\ req' \in [size : Nat, alignment : Nat \ {0}] /\ req'.size = s
  <2>1. CASE /\ req' = [size |-> s, alignment |-> 1] /\ ret' \in Malloced(s)
    BY <1>2, <2>1, MallocServes DEF Served
  <2>2. CASE ~ (s > OldSize) /\ req' = [req EXCEPT !.size = s] /\ ret' = ret
    <3>1. HasRoom(ret, s)
      BY <1>2, <1>3, <1>4, <2>2 DEF HasRoom, Blocks, OldSize
    <3>2. Served(ret, req.alignment, s)
      BY <1>3, <3>1 DEF Served
    <3>3. req' = [size |-> s, alignment |-> req.alignment]
      BY <1>3, <2>2
    <3> QED BY <1>2, <1>3, <2>2, <3>1, <3>2, <3>3
  <2> QED BY <1>1, <2>1, <2>2
<1>6. OldSize' \in Nat /\ OldSize' >= s
  BY <1>5 DEF HasRoom, Blocks, OldSize
<1>7. /\ old' \in [size : Nat, old_size : Nat, kept : Nat]
      /\ old'.old_size = OldSize /\ old'.size = req.size
      /\ old'.kept = IF ret' = ret /\ old'.kept = OldSize THEN OldSize
                     ELSE CopiedBytes(OldSize, s)
  BY <1>1, <1>2, <1>3, <1>4 DEF CopiedBytes
<1>8. /\ old'.kept <= OldSize /\ old'.kept <= OldSize'
      /\ (req.size <= old'.kept \/ s <= old'.kept)
  BY <1>1, <1>2, <1>4, <1>6, <1>3 DEF CopiedBytes, OldSize
<1>9. old' # NoOld
  BY <1>4, <1>7 DEF NoOld
<1>10. Calls' /\ Given'
  BY <1>3, <1>5, <1>7 DEF Calls, Given, IsBlock
<1>11. ReallocKeeps'
  <2>1. Min({req.size, s}) = IF req.size <= s THEN req.size ELSE s
    BY <1>2, <1>3, MinOfTwo
  <2>2. old'.kept >= Min({old'.size, req'.size})
    BY <1>2, <1>3, <1>5, <1>7, <1>8, <2>1
  <2> QED BY <1>7, <1>8, <2>2 DEF ReallocKeeps
<1>12. SmallestClass'
  BY <1>9 DEF SmallestClass
<1> QED BY <1>10, <1>11, <1>12 DEF IInv

LEMMA FreeStep == IInv /\ free => IInv'
<1> SUFFICES ASSUME IInv, free PROVE IInv'
  OBVIOUS
<1>1. req' = [size |-> 0, alignment |-> 1] /\ out' = "idle" /\ old' = NoOld
  BY DEF free
<1> QED BY <1>1, Returned

LEMMA StepInv == SizesOK /\ IInv /\ [SizeNext]_sizeVars => IInv'
<1> SUFFICES ASSUME SizesOK, IInv, [SizeNext]_sizeVars PROVE IInv'
  OBVIOUS
<1>1. CASE UNCHANGED sizeVars
  BY <1>1 DEF sizeVars, IInv, Calls, Given, IsBlock, ReallocKeeps, SmallestClass,
              OldSize
<1> QED BY <1>1, MallocStep, CallocStep, MemalignStep, ReallocStep, FreeStep
        DEF SizeNext

(* Every block the allocator returns or resizes in place keeps the         *)
(* invariant.                                                              *)
THEOREM SizeInvariant == SizesOK /\ SizeSpec => []IInv
<1> SUFFICES ASSUME SizesOK PROVE SizeSpec => []IInv
  OBVIOUS
<1>1. IInv /\ [SizeNext]_sizeVars => IInv'
  BY StepInv
<1> QED BY InitInv, <1>1, PTL DEF SizeSpec

(* A block is as large as was asked for and lies in its page block: by     *)
(* malloc, calloc, posix_memalign and realloc, for every size.             *)
THEOREM BlocksFit == SizesOK /\ SizeSpec => []BlockFits
<1>1. IInv => BlockFits
  BY DEF IInv, Given, BlockFits, Served, HasRoom
<1> QED BY <1>1, SizeInvariant, PTL

(* realloc keeps the contents and stays within both blocks.                *)
THEOREM ReallocIsSafe == SizesOK /\ SizeSpec => []ReallocKeeps
<1>1. IInv => ReallocKeeps
  BY DEF IInv
<1> QED BY <1>1, SizeInvariant, PTL

(* class_array points no size at a class that is larger than it needs.     *)
THEOREM ClassIsSmallest == SizesOK /\ SizeSpec => []SmallestClass
<1>1. IInv => SmallestClass
  BY DEF IInv
<1> QED BY <1>1, SizeInvariant, PTL

(* Whichever path of posix_memalign a block of 16 bytes or more comes      *)
(* from, it is aligned as was asked.                                       *)
THEOREM AlignedAsAsked == SizesOK /\ SizeSpec => []MemalignAligned
<1>1. IInv => MemalignAligned
  BY DEF IInv, Calls, Given, MemalignAligned, Served, HasRoom, Blocks, ALIGNMENT
<1> QED BY <1>1, SizeInvariant, PTL

----------------------------------------------------------------------------
(* Page blocks, in both instances                                          *)

(* The instance that runs keeps its inductive invariant.                   *)
PartsOK == (part = "long" => Long!IInv) /\ (part = "short" => Short!IInv)

LEMMA PartsInit == MCInit => PartsOK
<1> SUFFICES ASSUME MCInit PROVE PartsOK
  OBVIOUS
<1>1. ASSUME part = "long" PROVE Long!IInv
  BY <1>1, Long!InitOK, HeapConstants DEF MCInit
<1>2. ASSUME part = "short" PROVE Short!IInv
  BY <1>2, Short!InitOK, HeapConstants DEF MCInit
<1> QED BY <1>1, <1>2 DEF PartsOK

LEMMA PartsNext ==
  PartsOK /\ [MCNext]_<<part, vars, sizeVars, heapVars>> => PartsOK'
<1> SUFFICES ASSUME PartsOK, [MCNext]_<<part, vars, sizeVars, heapVars>>
             PROVE  PartsOK'
  OBVIOUS
<1>1. part' = part
  BY DEF MCNext
<1>2. ASSUME part = "long" PROVE Long!IInv'
  <2>1. [Long!Next]_(Long!vars)
    BY <1>2 DEF MCNext, Long!vars, heapVars
  <2>2. Long!IInv
    BY <1>2 DEF PartsOK
  <2> QED BY <2>1, <2>2, Long!NextOK, HeapConstants
<1>3. ASSUME part = "short" PROVE Short!IInv'
  <2>1. [Short!Next]_(Short!vars)
    BY <1>3 DEF MCNext, Short!vars, heapVars
  <2>2. Short!IInv
    BY <1>3 DEF PartsOK
  <2> QED BY <2>1, <2>2, Short!NextOK, HeapConstants
<1> QED BY <1>1, <1>2, <1>3 DEF PartsOK

(* Whatever page blocks are split, joined, freed, left behind and adopted, *)
(* the invariant of PageBlocks_proof stands in the instance that runs.     *)
THEOREM HeapsKept == MCSpec => []PartsOK
BY PartsInit, PartsNext, PTL DEF MCSpec

(* The headers always tile a superpage, and every page of it leads through *)
(* the pagemap to the header of the page block it is in.                   *)
THEOREM LongHeapStaysOK == MCSpec => []LongHeapOK
<1>1. PartsOK => LongHeapOK
  BY Long!HeapOKHolds, HeapConstants DEF PartsOK, LongHeapOK
<1> QED BY <1>1, HeapsKept, PTL

(* The pages a user holds are never given out again, split or joined, not  *)
(* even when their thread has exited and another adopts the superpage.     *)
THEOREM LongRunsStayIntact == MCSpec => []LongRunsIntact
<1>1. PartsOK => LongRunsIntact
  BY Long!RunsIntactHolds, HeapConstants DEF PartsOK, LongRunsIntact
<1> QED BY <1>1, HeapsKept, PTL

(* The free lists of a thread hold exactly the free page blocks of its     *)
(* superpages, each on the ring of its length, and its list of small ones  *)
(* exactly those in use that are not large.                                *)
THEOREM BothListsStayExact == MCSpec => []BothListsExact
<1>1. PartsOK => BothListsExact
  BY Long!ListsExactHolds, Short!ListsExactHolds, HeapConstants
     DEF PartsOK, BothListsExact
<1> QED BY <1>1, HeapsKept, PTL

(* A superpage is on the list of the thread that owns it, once, and on no  *)
(* other.                                                                  *)
THEOREM BothSuperpagesStayListed == MCSpec => []BothSuperpagesListed
<1>1. PartsOK => BothSuperpagesListed
  BY Long!SuperpagesListedHolds, Short!SuperpagesListedHolds, HeapConstants
     DEF PartsOK, BothSuperpagesListed
<1> QED BY <1>1, HeapsKept, PTL
=============================================================================
