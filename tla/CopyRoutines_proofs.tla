-------------------------- MODULE CopyRoutines_proofs --------------------------
(***************************************************************************)
(* What the head/tail groups, masked vectors and tails of the copies and   *)
(* of memset cover, and where their aligned loops start: facts about plain *)
(* numbers, for every register size.                                       *)
(***************************************************************************)
EXTENDS CopyRoutines, Arithmetic_proofs

-----------------------------------------------------------------------------
(***************************************************************************)
(* Head and tail groups of k bytes cover n bytes exactly when they meet:   *)
(* the fact behind every "size <= 2 * VEC" path of the library.            *)
(***************************************************************************)
LEMMA EndsCover ==
  ASSUME NEW k \in Nat, NEW n \in Nat, k <= n, n <= 2 * k
  PROVE  Ends(k, n) = 0 .. n - 1
BY DEF Ends, Block

LEMMA Registers ==
  ZMM_SZ \in Nat /\ ZMM_SZ > 2 /\ YMM_SZ \in Nat /\ YMM_SZ > 0 /\ ZMM_SZ = 2 * YMM_SZ
<1>1. ZMM_SZ \in Nat /\ ZMM_SZ > 2
  BY ZmmAssumption
<1>2. PICK t \in NarrowRegs : ZMM_SZ = 2 * t
  BY ZmmAssumption
<1>3. t \in Nat
  BY <1>1, <1>2, ZmmAssumption
<1>. QED  BY <1>1, <1>2, <1>3 DEF YMM_SZ

\* Of the narrower registers, each twice the next, one fits n bytes once but not twice.
LEMMA SomeRegFits ==
  ASSUME NEW n \in 2 .. ZMM_SZ - 1
  PROVE  \E t \in NarrowRegs : t <= n /\ n < 2 * t
<1> DEFINE T == { s \in NarrowRegs \cup {ZMM_SZ} : n < s }
<1>1. T \subseteq Nat /\ ZMM_SZ \in T
  <2>1. ZMM_SZ \in Nat /\ n < ZMM_SZ /\ NarrowRegs \subseteq Nat
    BY ZmmAssumption
  <2>. QED  BY <2>1
<1>2. PICK s \in T : \A y \in T : s <= y
  BY <1>1, LeastOfNats
<1>3. s # 2
  BY <1>2, ZmmAssumption
<1>4. PICK t \in NarrowRegs : s = 2 * t
  BY <1>2, <1>3, ZmmAssumption
<1>5. t \in Nat /\ t > 0
  BY <1>4, ZmmAssumption
<1>6. t <= n
  BY <1>2, <1>4, <1>5, ZmmAssumption
<1>. QED  BY <1>2, <1>4, <1>5, <1>6

LEMMA NarrowCover ==
  ASSUME NEW n \in Nat, n < ZMM_SZ
  PROVE  NarrowEnds(n) = 0 .. n - 1
<1>1. CASE n <= 1
  BY <1>1 DEF NarrowEnds, Block
<1>2. CASE n > 1
  <2> DEFINE T == { t \in NarrowRegs : t <= n /\ n < 2 * t }
  <2>1. T # {}
    BY <1>2, SomeRegFits, Registers
  <2>2. \A t \in T : Ends(t, n) = 0 .. n - 1
    BY EndsCover, ZmmAssumption
  <2>3. UNION { Ends(t, n) : t \in T } = 0 .. n - 1
    BY <2>1, <2>2, Zenon
  <2>4. ~(n <= 1)
    BY <1>2
  <2>. QED  BY <2>3, <2>4, Zenon DEF NarrowEnds
<1>. QED  BY <1>1, <1>2

LEMMA ZmmCover ==
  ASSUME NEW n \in Nat, ZMM_SZ <= n, n <= 8 * ZMM_SZ
  PROVE  ZmmEnds(n) = 0 .. n - 1
BY Registers, EndsCover DEF ZmmEnds

LEMMA RestCovers ==
  ASSUME NEW n \in Nat, n <= 8 * ZMM_SZ
  PROVE  Rest(n) = 0 .. n - 1
BY ZmmCover, Registers DEF Rest, Block

\* As many vectors as cover the n bytes, and no more than c if c vectors do.
LEMMA RemVecs ==
  ASSUME NEW v \in {YMM_SZ, ZMM_SZ}, NEW c \in 0 .. 8, NEW n \in Nat, n <= c * v
  PROVE  rem_vecs(n, v) \in 0 .. c /\ n <= rem_vecs(n, v) * v
<1> DEFINE q == n \div v
           r == n % v
<1>0. v \in Nat /\ v > 0 /\ v <= ZMM_SZ /\ ZMM_SZ \in Nat /\ c \in Nat
  BY Registers
<1>1. q \in Int /\ n = v * q + r /\ r \in 0 .. v - 1
  BY <1>0, DivMod
<1>2. n % RemSz = n
  <2>1. n <= 8 * ZMM_SZ
    BY <1>0
  <2>. QED  BY <1>0, <2>1, RemSzAssumption
<1>3. rem_vecs(n, v) = q + (IF r # 0 THEN 1 ELSE 0)
  BY <1>2 DEF rem_vecs
<1>. HIDE DEF q, r
<1>4. q <= c
  <2>. SUFFICES ASSUME q - c >= 1  PROVE FALSE
    BY <1>0, <1>1
  <2>1. (q - c) * v >= v
    BY <1>0, <1>1, MultipleAtLeast
  <2>2. (q - c) * v = v * q - c * v
    BY <1>0, <1>1
  <2>. QED  BY <1>0, <1>1, <2>1, <2>2
<1>5. q >= 0
  <2>. SUFFICES ASSUME q <= -1  PROVE FALSE
    BY <1>1
  <2>1. (-q) * v >= v
    BY <1>0, <1>1, MultipleAtLeast
  <2>2. (-q) * v = -(v * q)
    BY <1>0, <1>1
  <2>. QED  BY <1>0, <1>1, <2>1, <2>2
<1>6. CASE r = 0
  <2>1. v * q = q * v
    BY <1>0, <1>1
  <2>. QED  BY <1>0, <1>1, <1>3, <1>4, <1>5, <1>6, <2>1
<1>7. CASE r # 0
  <2>1. (q + 1) * v = v * q + v
    BY <1>0, <1>1
  <2>2. q # c
    <3>1. CASE q = c
      <4>1. v * q = c * v
        BY <1>0, <3>1
      <4>. QED  BY <1>0, <1>1, <1>7, <4>1
    <3>. QED  BY <3>1
  <2>. QED  BY <1>0, <1>1, <1>3, <1>4, <1>5, <1>7, <2>1, <2>2
<1>. QED  BY <1>6, <1>7

-----------------------------------------------------------------------------
\* Where an aligned loop starts: no further than the k vectors filled before it.
LEMMA AlignedUp ==
  ASSUME NEW a \in Int, NEW k \in Int, k >= 1, NEW v \in Nat, v > 0
  PROVE  /\ k * v - (a % v) \in 1 .. k * v
         /\ (a + (k * v - (a % v))) % v = 0
<1>1. PICK r \in Int : r = a % v
  BY DivMod
<1>2. r \in 0 .. v - 1 /\ (a - r) % v = 0
  BY <1>1, DivMod, RoundedDown
<1>3. PICK p \in Int : p = k * v /\ p >= v
  BY MultipleAtLeast
<1>5. PICK y \in Int, z \in Int : y = a - r /\ z = a + (p - r) /\ z = y + p
  OBVIOUS
<1>6. y % v = 0 /\ z = y + k * v
  BY <1>2, <1>3, <1>5
<1>7. z % v = 0
  BY ONLY <1>6, AlignedStep, v > 0, k \in Int, v \in Nat, y \in Int, z \in Int,
          SMTT(30)
<1>. QED  BY <1>1, <1>2, <1>3, <1>5, <1>7

LEMMA LoopStart ==
  ASSUME dst \in Nat, NEW k \in Int, k >= 1, NEW v \in Nat, v > 0
  PROVE  /\ AlignedWithin(k, v) \in 1 .. k * v
         /\ (dst + AlignedWithin(k, v)) % v = 0
<1>1. dst \in Int
  OBVIOUS
<1>. QED  BY <1>1, AlignedUp DEF AlignedWithin

\* Where a backward one starts: less than a vector from the end.
LEMMA AlignedDown ==
  ASSUME NEW a \in Int, NEW n \in Int, NEW v \in Nat, v > 0
  PROVE  /\ n - ((a + n) % v) \in n - v + 1 .. n
         /\ (a + (n - ((a + n) % v))) % v = 0
<1>1. PICK x \in Int, r \in Int : x = a + n /\ r = (a + n) % v
  BY DivMod
<1>2. r \in 0 .. v - 1 /\ (x - r) % v = 0
  BY <1>1, DivMod, RoundedDown
<1>3. a + (n - r) = x - r
  BY <1>1
<1>. QED  BY <1>1, <1>2, <1>3

\* What is aligned for ZMM vectors is for YMM vectors.
LEMMA HalvesAligned ==
  ASSUME NEW z \in Int, z % ZMM_SZ = 0
  PROVE  z % YMM_SZ = 0
<1>1. z = ZMM_SZ * (z \div ZMM_SZ) /\ z \div ZMM_SZ \in Int
  BY Registers, DivMod
<1>2. PICK q \in Int : z = (2 * q) * YMM_SZ
  BY <1>1, Registers
<1>. QED  BY Registers, <1>2, MultipleIsAligned

=============================================================================
