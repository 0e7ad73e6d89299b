--------------------------- MODULE ReadOnly_proofs ---------------------------
(***************************************************************************)
(* The routines that compare or search find the first stop, whatever the   *)
(* call, the register size and the page size, and get there step by step.  *)
(***************************************************************************)
EXTENDS ReadOnly, Arithmetic_proofs

-----------------------------------------------------------------------------
(***************************************************************************)
(* Registers.                                                              *)
(***************************************************************************)
Registers == [at : Int, len : Nat]

EndOf(r) == r.at + r.len

LEMMA RegIs ==
  ASSUME NEW o \in Int, NEW n \in Nat
  PROVE  Reg(o, n) \in Registers /\ Reg(o, n).at = o /\ EndOf(Reg(o, n)) = o + n
BY DEF Reg, Registers, EndOf

\* The registers tested in front of the one that hits hold no stop.
LEMMA FirstHitIsFirst ==
  ASSUME NEW R \in Seq(Registers)
  PROVE  /\ FirstHit(R) \in 0 .. Len(R)
         /\ FirstHit(R) # 0 => HasStop(R[FirstHit(R)])
         /\ \A j \in 1 .. (IF FirstHit(R) = 0 THEN Len(R) ELSE FirstHit(R) - 1) : ~HasStop(R[j])
<1> DEFINE T == { j \in 1 .. Len(R) : HasStop(R[j]) }
           Hit(i) == /\ i # 0 => HasStop(R[i])
                     /\ \A j \in 1 .. (IF i = 0 THEN Len(R) ELSE i - 1) : ~HasStop(R[j])
<1>1. \E i \in 0 .. Len(R) : Hit(i)
  <2>1. CASE T = {}
    <3>1. \A j \in 1 .. Len(R) : ~HasStop(R[j])
      BY <2>1
    <3>2. Hit(0) /\ 0 \in 0 .. Len(R)
      BY <3>1
    <3>. QED  BY <3>2
  <2>2. CASE T # {}
    <3>0. T \subseteq Nat
      OBVIOUS
    <3>1. PICK m \in T : \A y \in T : m <= y
      BY <2>2, <3>0, MinOfNats
    <3>2. m \in 1 .. Len(R) /\ HasStop(R[m])
      OBVIOUS
    <3>3. ASSUME NEW j \in 1 .. m - 1  PROVE ~HasStop(R[j])
      <4>1. j \notin T
        BY <3>1, <3>2
      <4>. QED  BY <3>2, <4>1
    <3>4. Hit(m) /\ m \in 0 .. Len(R)
      BY <3>2, <3>3
    <3>. QED  BY <3>4
  <2>. QED  BY <2>1, <2>2
<1>2. FirstHit(R) = CHOOSE i \in 0 .. Len(R) : Hit(i)
  BY DEF FirstHit
<1>. HIDE DEF Hit
<1>3. FirstHit(R) \in 0 .. Len(R) /\ Hit(FirstHit(R))
  BY <1>1, <1>2
<1>. QED  BY <1>3 DEF Hit

\* Registers R leave no byte out from o to e: each begins at o at the latest, or where
\* one in front of it ends.
Covers(R, o, e) ==
  /\ R \in Seq(Registers) /\ Len(R) > 0
  /\ \A i \in 1 .. Len(R) :
       R[i].at <= o \/ \E j \in 1 .. i - 1 : R[i].at <= EndOf(R[j])
  /\ \E i \in 1 .. Len(R) : e <= EndOf(R[i])

\* What the routines see and remember of a call.
Stops == first \in Nat /\ last \in Nat /\ first <= last /\ size \in Nat

\* The registers in front of the one that holds the first stop end before it, and
\* those that begin behind it are not in front.
LEMMA EarlierEnds ==
  ASSUME Stops, NEW R, NEW o \in Int, NEW e \in Int, Covers(R, o, e), o <= first,
         NEW k \in 0 .. Len(R), \A j \in 1 .. k : ~HasStop(R[j])
  PROVE  \A j \in 1 .. k : EndOf(R[j]) <= first
<1> DEFINE T == { j \in 1 .. k : EndOf(R[j]) > first }
<1>. SUFFICES ASSUME T # {}  PROVE FALSE
  <2>1. ASSUME NEW j \in 1 .. k  PROVE EndOf(R[j]) \in Int
    <3>1. R[j] \in Registers
      BY DEF Covers
    <3>. QED  BY <3>1 DEF Registers, EndOf
  <2>2. \A j \in 1 .. k : ~(EndOf(R[j]) > first)
    BY Zenon
  <2>. QED  BY <2>1, <2>2 DEF Stops
<1>1. T \subseteq Nat
  OBVIOUS
<1>2. PICK m \in T : \A y \in T : m <= y
  BY <1>1, MinOfNats
<1>3. m \in 1 .. k /\ m \in 1 .. Len(R) /\ R[m] \in Registers
  BY DEF Covers
<1>4. R[m].at <= first
  <2>1. CASE R[m].at <= o
    BY <1>3, <2>1 DEF Registers, Stops
  <2>2. CASE \E j \in 1 .. m - 1 : R[m].at <= EndOf(R[j])
    <3>1. PICK j \in 1 .. m - 1 : R[m].at <= EndOf(R[j])
      BY <2>2
    <3>2. j \notin T /\ j \in 1 .. k /\ R[j] \in Registers
      BY <1>2, <1>3 DEF Covers
    <3>. QED  BY <1>3, <3>1, <3>2 DEF EndOf, Registers, Stops
  <2>. QED  BY <1>3, <2>1, <2>2 DEF Covers
<1>5. HasStop(R[m])
  BY <1>3, <1>4 DEF HasStop, EndOf, Registers, Stops
<1>. QED  BY <1>3, <1>5

\* The register that hits holds the first stop; if none does, it is not in front of e.
LEMMA HitIsFirst ==
  ASSUME Stops, NEW R, NEW o \in Int, NEW e \in Int, Covers(R, o, e), o <= first,
         NEW i, i = FirstHit(R)
  PROVE  /\ i \in 0 .. Len(R)
         /\ i # 0 => Tzcnt(R[i]) = first /\ R[i].at <= first /\ first < EndOf(R[i])
         /\ i = 0 => e <= first
         /\ \A j \in 1 .. (IF i = 0 THEN Len(R) ELSE i - 1) : EndOf(R[j]) <= first
         /\ \A j \in 1 .. (IF i = 0 THEN Len(R) ELSE i) : R[j].at <= first
<1> DEFINE k == IF i = 0 THEN Len(R) ELSE i - 1
<1>1. /\ R \in Seq(Registers) /\ Len(R) \in Nat
      /\ i \in 0 .. Len(R) /\ (i # 0 => HasStop(R[i]))
      /\ k \in 0 .. Len(R) /\ \A j \in 1 .. k : ~HasStop(R[j])
  BY FirstHitIsFirst DEF Covers
<1>. HIDE DEF k
<1>2. \A j \in 1 .. k : EndOf(R[j]) <= first
  BY <1>1, EarlierEnds
<1>3. ASSUME NEW j \in 1 .. (IF i = 0 THEN Len(R) ELSE i)  PROVE R[j].at <= first
  <2>1. j \in 1 .. Len(R) /\ R[j] \in Registers
    BY <1>1
  <2>2. CASE R[j].at <= o
    BY <2>1, <2>2 DEF Registers, Stops
  <2>3. CASE \E h \in 1 .. j - 1 : R[j].at <= EndOf(R[h])
    <3>1. PICK h \in 1 .. j - 1 : R[j].at <= EndOf(R[h])
      BY <2>3
    <3>2. h \in 1 .. k /\ R[h] \in Registers
      BY <1>1, <2>1 DEF k
    <3>. QED  BY <1>2, <2>1, <3>1, <3>2 DEF EndOf, Registers, Stops
  <2>. QED  BY <2>1, <2>2, <2>3 DEF Covers
<1>4. ASSUME i # 0
      PROVE  Tzcnt(R[i]) = first /\ R[i].at <= first /\ first < EndOf(R[i])
  <2>1. R[i] \in Registers /\ R[i].at <= first
    BY <1>1, <1>3, <1>4
  <2>2. first < EndOf(R[i])
    BY <1>1, <1>4, <2>1 DEF HasStop, EndOf
  <2>3. Tzcnt(R[i]) = first
    BY <2>1, MaxOfTwo DEF Tzcnt, Registers, Stops
  <2>. QED  BY <2>1, <2>2, <2>3
<1>5. ASSUME i = 0  PROVE e <= first
  <2>1. PICK j \in 1 .. Len(R) : e <= EndOf(R[j])
    BY DEF Covers
  <2>2. EndOf(R[j]) <= first /\ R[j] \in Registers
    BY <1>1, <1>2, <1>5 DEF k
  <2>. QED  BY <2>1, <2>2 DEF EndOf, Registers, Stops
<1>. QED  BY <1>1, <1>2, <1>3, <1>4, <1>5 DEF k

-----------------------------------------------------------------------------
LEMMA VecsAre ==
  ASSUME NEW o \in Int, NEW k \in Nat, NEW v \in Nat
  PROVE  /\ Vecs(o, k, v) \in Seq(Registers) /\ Len(Vecs(o, k, v)) = k
         /\ \A i \in 1 .. k : /\ Vecs(o, k, v)[i].at = o + (i - 1) * v
                              /\ Vecs(o, k, v)[i].len = v
                              /\ EndOf(Vecs(o, k, v)[i]) = o + i * v
<1> DEFINE R == Vecs(o, k, v)
<1>1. R = [i \in 1 .. k |-> [at |-> o + (i - 1) * v, len |-> v]]
  BY DEF Vecs, Reg
<1>2. ASSUME NEW i \in 1 .. k
      PROVE  /\ R[i] \in Registers /\ R[i].at = o + (i - 1) * v /\ R[i].len = v
             /\ EndOf(R[i]) = o + i * v
  <2>1. R[i] = [at |-> o + (i - 1) * v, len |-> v]
    BY <1>1
  <2>2. (i - 1) * v \in Int /\ (i - 1) * v + v = i * v
    OBVIOUS
  <2>. QED  BY <2>1, <2>2 DEF EndOf, Registers
<1>3. R \in [1 .. k -> Registers]
  BY <1>1, <1>2
<1>. HIDE DEF R
<1>4. R \in Seq(Registers) /\ Len(R) = k
  BY <1>3
<1>. QED  BY <1>2, <1>4 DEF R

LEMMA VecsCover ==
  ASSUME NEW o \in Int, NEW b \in Int, NEW k \in Nat, NEW v \in Nat, NEW e \in Int,
         k > 0, b <= o, e <= b + k * v
  PROVE  Covers(Vecs(b, k, v), o, e)
<1> DEFINE R == Vecs(b, k, v)
<1>1. /\ R \in Seq(Registers) /\ Len(R) = k
      /\ \A i \in 1 .. k : R[i].at = b + (i - 1) * v /\ EndOf(R[i]) = b + i * v
  BY VecsAre
<1>. HIDE DEF R
<1>2. ASSUME NEW i \in 1 .. k
      PROVE  R[i].at <= o \/ \E j \in 1 .. i - 1 : R[i].at <= EndOf(R[j])
  <2>1. CASE i = 1
    BY <1>1, <2>1
  <2>2. CASE i # 1
    <3>1. i - 1 \in 1 .. k /\ i - 1 \in 1 .. i - 1
      BY <2>2
    <3>2. R[i].at = b + (i - 1) * v /\ EndOf(R[i - 1]) = b + (i - 1) * v
      BY <1>1, <3>1
    <3>3. b + (i - 1) * v \in Int
      OBVIOUS
    <3>. QED  BY <3>1, <3>2, <3>3
  <2>. QED  BY <2>1, <2>2
<1>3. k \in 1 .. k /\ e <= EndOf(R[k])
  <2>1. k \in 1 .. k /\ EndOf(R[k]) = b + k * v
    BY <1>1
  <2>. QED  BY <2>1
<1>. QED  BY <1>1, <1>2, <1>3 DEF Covers, R

LEMMA CoversSooner ==
  ASSUME NEW R, NEW o \in Int, NEW m \in Int, NEW e \in Int, Covers(R, o, e), o <= m
  PROVE  Covers(R, m, e)
<1>1. ASSUME NEW i \in 1 .. Len(R), R[i].at <= o  PROVE R[i].at <= m
  <2>1. R[i] \in Registers
    BY DEF Covers
  <2>. QED  BY <1>1, <2>1 DEF Registers
<1>. QED  BY <1>1 DEF Covers

\* One half is followed by another.
LEMMA CoverBoth ==
  ASSUME NEW R, NEW S, NEW o \in Int, NEW m \in Int, NEW e \in Int,
         Covers(R, o, m), Covers(S, m, e)
  PROVE  Covers(R \o S, o, e)
<1> DEFINE T == R \o S
           a == Len(R)
           b == Len(S)
<1>1. /\ R \in Seq(Registers) /\ S \in Seq(Registers) /\ a \in Nat /\ b \in Nat
      /\ a > 0 /\ b > 0
  BY DEF Covers
<1>2. /\ T \in Seq(Registers) /\ Len(T) = a + b
      /\ \A i \in 1 .. a : T[i] = R[i]
      /\ \A i \in a + 1 .. a + b : T[i] = S[i - a]
  BY <1>1
<1>. HIDE DEF T, a, b
<1>3. ASSUME NEW i \in 1 .. a + b
      PROVE  T[i].at <= o \/ \E j \in 1 .. i - 1 : T[i].at <= EndOf(T[j])
  <2>1. CASE i \in 1 .. a
    <3>1. R[i].at <= o \/ \E j \in 1 .. i - 1 : R[i].at <= EndOf(R[j])
      BY <2>1 DEF Covers, a
    <3>2. \A j \in 1 .. i - 1 : T[j] = R[j]
      BY <1>1, <1>2, <2>1
    <3>. QED  BY <1>2, <2>1, <3>1, <3>2
  <2>2. CASE i \in a + 1 .. a + b
    <3>1. i - a \in 1 .. b /\ T[i] = S[i - a]
      BY <1>1, <1>2, <2>2
    <3>2. S[i - a].at <= m \/ \E j \in 1 .. (i - a) - 1 : S[i - a].at <= EndOf(S[j])
      BY <3>1 DEF Covers, b
    <3>3. CASE S[i - a].at <= m
      <4>1. PICK h \in 1 .. a : m <= EndOf(R[h])
        BY DEF Covers, a
      <4>2. h \in 1 .. i - 1 /\ T[h] = R[h] /\ R[h] \in Registers /\ S[i - a] \in Registers
        BY <1>1, <1>2, <2>2, <3>1 DEF a, b
      <4>3. T[i].at <= EndOf(T[h])
        BY <3>1, <3>3, <4>1, <4>2 DEF EndOf, Registers
      <4>. QED  BY <4>2, <4>3
    <3>4. CASE \E j \in 1 .. (i - a) - 1 : S[i - a].at <= EndOf(S[j])
      <4>1. PICK j \in 1 .. (i - a) - 1 : S[i - a].at <= EndOf(S[j])
        BY <3>4
      <4>2. a + j \in 1 .. i - 1 /\ a + j \in a + 1 .. a + b /\ (a + j) - a = j
        BY <1>1, <2>2, <4>1
      <4>3. T[a + j] = S[j]
        BY <1>2, <4>2
      <4>. QED  BY <3>1, <4>1, <4>2, <4>3
    <3>. QED  BY <3>2, <3>3, <3>4
  <2>. QED  BY <1>1, <2>1, <2>2
<1>4. \E i \in 1 .. a + b : e <= EndOf(T[i])
  <2>1. PICK j \in 1 .. b : e <= EndOf(S[j])
    BY DEF Covers, b
  <2>2. a + j \in 1 .. a + b /\ a + j \in a + 1 .. a + b /\ (a + j) - a = j
    BY <1>1
  <2>. QED  BY <1>2, <2>1, <2>2
<1>5. Len(T) > 0 /\ 1 .. Len(T) = 1 .. a + b
  BY <1>1, <1>2
<1>6. Covers(T, o, e)
  BY <1>2, <1>3, <1>4, <1>5, Zenon DEF Covers
<1>. QED  BY <1>6 DEF T

\* k vectors at either end cover up to 2 * k of them.
LEMMA EndsCover ==
  ASSUME NEW n \in Nat, NEW k \in Nat, NEW v \in Nat, k > 0, n <= 2 * (k * v)
  PROVE  Covers(EndVecs(n, k, v), 0, n)
<1>1. PICK w \in Nat : w = k * v
  OBVIOUS
<1>2. Covers(Vecs(0, k, v), 0, w)
  BY <1>1, VecsCover
<1>3. Covers(Vecs(n - w, k, v), w, n)
  <2>1. n - w \in Int /\ n - w <= w /\ (n - w) + k * v = n
    BY <1>1
  <2>. QED  BY <2>1, VecsCover
<1>4. EndVecs(n, k, v) = Vecs(0, k, v) \o Vecs(n - w, k, v)
  BY <1>1 DEF EndVecs, LastVecs
<1>. QED  BY <1>2, <1>3, <1>4, CoverBoth

\* The last k vectors cover what is left, if it is not more.
LEMMA LastCover ==
  ASSUME NEW n \in Nat, NEW k \in Nat, NEW v \in Nat, NEW o \in Int, k > 0, n - k * v <= o
  PROVE  Covers(LastVecs(n, k, v), o, n)
<1>1. PICK b \in Int : b = n - k * v
  OBVIOUS
<1>2. b + k * v = n /\ b <= o
  BY <1>1
<1>3. Covers(Vecs(b, k, v), o, n)
  BY <1>2, VecsCover
<1>. QED  BY <1>1, <1>3 DEF LastVecs

\* All of them lie in n bytes.
Within(R, b, e) == \A i \in 1 .. Len(R) : b <= R[i].at /\ EndOf(R[i]) <= e

LEMMA VecsWithin ==
  ASSUME NEW o \in Int, NEW k \in Nat, NEW v \in Nat, NEW e \in Int, o + k * v <= e
  PROVE  Within(Vecs(o, k, v), o, e)
<1> DEFINE R == Vecs(o, k, v)
<1>1. ASSUME NEW i \in 1 .. k
      PROVE  o <= o + (i - 1) * v /\ o + i * v <= e
  <2>1. i - 1 \in Nat /\ k - i \in Nat
    OBVIOUS
  <2>2. (i - 1) * v \in Nat /\ (k - i) * v \in Nat
    BY <2>1
  <2>3. (k - i) * v = k * v - i * v
    OBVIOUS
  <2>. QED  BY <2>2, <2>3
<1>2. /\ Len(R) = k
      /\ \A i \in 1 .. k : R[i].at = o + (i - 1) * v /\ EndOf(R[i]) = o + i * v
  BY VecsAre
<1>. HIDE DEF R
<1>3. Within(R, o, e)
  BY <1>1, <1>2 DEF Within
<1>. QED  BY <1>3 DEF R

LEMMA BothWithin ==
  ASSUME NEW R \in Seq(Registers), NEW S \in Seq(Registers), NEW b, NEW e,
         Within(R, b, e), Within(S, b, e)
  PROVE  Within(R \o S, b, e)
<1> DEFINE T == R \o S
<1>1. ASSUME NEW i \in 1 .. Len(T)  PROVE b <= T[i].at /\ EndOf(T[i]) <= e
  <2>1. CASE i \in 1 .. Len(R)
    BY <2>1 DEF Within
  <2>2. CASE i \notin 1 .. Len(R)
    <3>1. i - Len(R) \in 1 .. Len(S) /\ T[i] = S[i - Len(R)]
      BY <2>2
    <3>. QED  BY <3>1 DEF Within
  <2>. QED  BY <2>1, <2>2
<1>. QED  BY <1>1 DEF Within

LEMMA WithinMore ==
  ASSUME NEW R \in Seq(Registers), NEW b \in Int, NEW e \in Int, NEW c \in Int, NEW f \in Int,
         Within(R, b, e), c <= b, e <= f
  PROVE  Within(R, c, f)
<1>1. ASSUME NEW i \in 1 .. Len(R)  PROVE c <= R[i].at /\ EndOf(R[i]) <= f
  <2>1. R[i] \in Registers
    OBVIOUS
  <2>. QED  BY <2>1 DEF Within, Registers, EndOf
<1>. QED  BY <1>1 DEF Within

LEMMA EndsWithin ==
  ASSUME NEW n \in Nat, NEW k \in Nat, NEW v \in Nat, k * v <= n
  PROVE  Within(EndVecs(n, k, v), 0, n) /\ EndVecs(n, k, v) \in Seq(Registers)
<1>1. PICK w \in Nat : w = k * v
  OBVIOUS
<1>2. Within(Vecs(0, k, v), 0, w) /\ Within(Vecs(n - w, k, v), n - w, n)
  <2>1. n - w \in Int /\ (n - w) + k * v = n /\ 0 + k * v = w
    BY <1>1
  <2>2. Within(Vecs(0, k, v), 0, w)
    BY <2>1, VecsWithin
  <2>3. Within(Vecs(n - w, k, v), n - w, n)
    BY <2>1, VecsWithin
  <2>. QED  BY <2>2, <2>3
<1>3. Vecs(0, k, v) \in Seq(Registers) /\ Vecs(n - w, k, v) \in Seq(Registers)
  BY VecsAre
<1>4. Within(Vecs(0, k, v), 0, n)
  BY <1>1, <1>2, <1>3, WithinMore
<1>5. Within(Vecs(n - w, k, v), 0, n)
  BY <1>1, <1>2, <1>3, WithinMore
<1>6. EndVecs(n, k, v) = Vecs(0, k, v) \o Vecs(n - w, k, v)
  BY <1>1 DEF EndVecs, LastVecs
<1>7. Vecs(0, k, v) \o Vecs(n - w, k, v) \in Seq(Registers)
  BY <1>3
<1>. QED  BY <1>3, <1>4, <1>5, <1>6, <1>7, BothWithin

LEMMA LastWithin ==
  ASSUME NEW n \in Nat, NEW k \in Nat, NEW v \in Nat, k * v <= n
  PROVE  Within(LastVecs(n, k, v), 0, n) /\ LastVecs(n, k, v) \in Seq(Registers)
<1>1. PICK b \in Nat : b = n - k * v
  OBVIOUS
<1>3. b + k * v <= n
  BY <1>1
<1>4. Within(Vecs(b, k, v), b, n) /\ Vecs(b, k, v) \in Seq(Registers)
  <2>1. b \in Int /\ n \in Int
    OBVIOUS
  <2>2. Within(Vecs(b, k, v), b, n)
    BY <1>3, <2>1, VecsWithin
  <2>3. Vecs(b, k, v) \in Seq(Registers)
    BY <2>1, VecsAre
  <2>. QED  BY <2>2, <2>3
<1>5. Within(Vecs(b, k, v), 0, n)
  BY <1>4, WithinMore
<1>. QED  BY <1>1, <1>4, <1>5 DEF LastVecs

-----------------------------------------------------------------------------
(***************************************************************************)
(* The inductive invariant.                                                *)
(***************************************************************************)

\* The routines that hold a size or an offset in an int somewhere, and the sizes they
\* are made for.
IntSized == IntTails \cup ErmsMemcmps \cup {"memcmp_threshold"}

IntSizes ==
  /\ IntSpan \in Nat
  /\ \A c \in CallSets : c.routines \cap IntSized # {} =>
       c.sizes \subseteq 0 .. (IntSpan \div 2) - 1

\* What every call is made with.
CallInv ==
  /\ routine \in Memcmps \cup Strcmps \cup Scans \cup Strspns \cup Strstrs
  /\ str1 \in Nat /\ str2 \in Nat /\ size \in Nat /\ size < SizeSpan
  /\ first \in Nat /\ last \in Nat /\ first <= last
  /\ first + 2 * PAGE_SZ <= SizeSpan
  /\ routine \in Scans \cup Strstrs => str1 = str2
  /\ routine \in AlignedMemcmps => str1 % ZMM_SZ = 0 /\ str2 % ZMM_SZ = 0
  /\ routine \in NoSizes => first + 8 * ZMM_SZ <= size
  /\ routine \in Strspns \cup Strstrs => size + 2 * PAGE_SZ <= SizeSpan
  /\ routine \in Strspns /\ size = 0 => first = 0
  /\ IntSizes /\ routine \in IntSized => size < IntSpan \div 2

HayInv ==
  /\ hay.heads \subseteq Nat /\ hay.found \subseteq hay.heads
  /\ hay.found \subseteq hay.seconds \cap hay.lasts
  /\ \A o \in hay.found : o + size <= first \/ first < o

\* The string whose vectors at o are not known to be aligned, and what is known of both.
Unaligned(o) == IF (str1 + o) % Vec = 0 THEN str2 ELSE str1

SomeAligned(o) == (str1 + o) % Vec = 0 \/ (str2 + o) % Vec = 0
BothAligned(o) == (str1 + o) % Vec = 0 /\ (str2 + o) % Vec = 0

\* v vectors at s + o do not leave the page.
VecsInPage(s, o, v) == v * Vec <= LeftInPage(s + o)

\* The last byte that zen4's strcmp may look at.
Bound == IF first < size THEN first ELSE size - 1

\* Offset o of loop p, in which v vectors are left in the page, by routine.
OfMemcmp(p, o) ==
  /\ p = "memcmp_avx2_loop" =>
       routine = "memcmp_avx2" /\ 8 * YMM_SZ < size /\ o % (4 * YMM_SZ) = 0 /\ o <= size
  /\ p = "memcmp_avx2_tail" =>
       /\ routine = "memcmp_avx2" /\ 4 * YMM_SZ < size /\ size <= 8 * YMM_SZ
       /\ o = 0 /\ 4 * YMM_SZ <= first
  /\ p \in {"memcmp_avx512_direct", "memcmp_avx512_xor"} =>
       routine = "memcmp_avx512" /\ 4 * ZMM_SZ < size /\ ZMM_SZ <= o /\ o <= size
  /\ p = "memcmp_zen4_loop" =>
       routine = "memcmp_zen4" /\ 4 * ZMM_SZ < size /\ o <= size
  /\ p = "tunable_loop" =>
       routine \in Tunable /\ 4 * Vector < size /\ o <= size /\ o % Vector = 0

OfStrcmp(p, o, v) ==
  /\ p \in {"lockstep", "lockstep_1"} =>
       routine \in Avx2Strcmps \cup Avx512Strcmps /\ BothAligned(o)
  /\ p \in {"chunk", "chunk_4", "chunk_1"} =>
       routine \in Avx2Strcmps \cup Avx512Strcmps /\ SomeAligned(o)
  /\ p \in {"chunk_4", "chunk_1"} => VecsInPage(Unaligned(o), o, v)
  /\ p \in {"zen4_ramp", "zen4_page", "zen4_vecs"} =>
       routine \in Zen4Strcmps /\ 0 < size /\ (SameAlignment => BothAligned(o))
  /\ p = "zen4_ramp" => SameAlignment
  /\ p = "zen4_vecs" /\ 0 < v =>
       \A s \in Both : VecsInPage(s, o, v) /\ PageOf(s + o) <= PageOf(s + Bound)

OfScan(p, o) ==
  /\ p = "scan_line" => routine \in Avx2Scans /\ o = Trailing /\ YMM_SZ < size
  /\ p = "scan_pair" => routine \in Avx2Scans /\ o = 2 * YMM_SZ - (str1 % (2 * YMM_SZ))
  /\ p = "scan_vecs" => routine \in Avx512Scans /\ o <= CountEnd
  /\ p = "scan_groups" =>
       /\ routine \in Avx2Scans \cup Avx512Scans
       /\ (str1 + o) % (4 * ScanVec) = 0 \/ size < o + 4 * ScanVec
  /\ p \in {"scan_vecs", "scan_groups", "memchr_loop"} => (str1 + o) % ScanVec = 0
  /\ p = "memchr_rest" =>
       routine \in Avx2Memchrs /\ o = 0 /\ YMM_SZ <= first /\ YMM_SZ < size
  /\ p = "memchr_loop" => routine \in Memchrs /\ 8 * ScanVec < size /\ o <= size
  /\ p = "memchr_tail" =>
       /\ routine \in Memchrs /\ o = 0 /\ 4 * ScanVec < size /\ size <= 8 * ScanVec
       /\ 4 * ScanVec <= first

OfStrspn(p, o) ==
  /\ p \in {"span_index", "span_table", "span_pairs", "span_vecs"} => routine \in Strspns
  /\ p = "span_index" => o = 0
  /\ p = "span_table" /\ routine = "strspn_avx512" => o = 0
  /\ p = "span_pairs" => (str1 + o) % XMM_SZ = 0
  /\ p = "span_vecs" => (str1 + o) % SpanVec = 0

\* strstr has passed no occurrence of the needle.
OfStrstr(p, o) ==
  /\ p = "search" =>
       routine \in Strstrs /\ 1 < size /\ 0 < first /\ (str1 + o) % HayVec = 0
  /\ routine \in Strstrs => \A c \in hay.found : o <= c

Reached(p, o, v) ==
  /\ p \in {"start"} \cup Loops
  /\ o \in Nat /\ o <= first
  /\ v \in Nat /\ v <= PAGE_SZ \div YMM_SZ
  /\ p = "start" => o = 0
  /\ OfMemcmp(p, o) /\ OfStrcmp(p, o, v) /\ OfScan(p, o) /\ OfStrspn(p, o)
  /\ OfStrstr(p, o)

\* The first stop is never behind the bytes that a routine has left.
IInv ==
  /\ CallInv
  /\ routine \in Strstrs => HayInv
  /\ pc # "done" => ret = NONE /\ Reached(pc, offset, vecs)
  /\ offset \in Nat /\ offset <= first + PAGE_SZ
  /\ vecs \in Nat /\ vecs <= PAGE_SZ \div YMM_SZ
  /\ pc = "done" /\ IntSizes => ComparesCorrectly

-----------------------------------------------------------------------------
LEMMA Sizes ==
  /\ ZMM_SZ \in Nat /\ ZMM_SZ >= 4
  /\ YMM_SZ \in Nat /\ YMM_SZ >= 2 /\ 2 * YMM_SZ = ZMM_SZ
  /\ XMM_SZ \in Nat /\ XMM_SZ >= 1 /\ 2 * XMM_SZ = YMM_SZ
  /\ Vec \in Nat /\ Vec \in {YMM_SZ, ZMM_SZ}
  /\ Vector \in Nat /\ Vector \in {YMM_SZ, ZMM_SZ}
  /\ ScanVec \in Nat /\ ScanVec \in {YMM_SZ, ZMM_SZ}
  /\ SpanVec \in Nat /\ SpanVec \in {YMM_SZ, ZMM_SZ}
  /\ HayVec \in Nat /\ HayVec \in {YMM_SZ, ZMM_SZ}
  /\ PAGE_SZ \in Nat /\ PAGE_SZ >= 4 * ZMM_SZ
  /\ SizeSpan \in Nat
<1>1. /\ ZMM_SZ \in Nat /\ ZMM_SZ >= 4
      /\ YMM_SZ \in Nat /\ YMM_SZ >= 2 /\ 2 * YMM_SZ = ZMM_SZ
      /\ XMM_SZ \in Nat /\ XMM_SZ >= 1 /\ 2 * XMM_SZ = YMM_SZ
  BY SpanAssumption, PageAssumption DEF YMM_SZ, XMM_SZ
<1>2. PAGE_SZ \in Nat /\ PAGE_SZ >= 4 * ZMM_SZ
  <2>1. PICK f \in Nat : f = 4 * ZMM_SZ
    BY <1>1
  <2>2. PAGE_SZ \in Nat /\ PAGE_SZ > 0 /\ PAGE_SZ % f = 0 /\ f > 0
    BY <1>1, <2>1, SpanAssumption, PageAssumption
  <2>3. PAGE_SZ >= f
    BY <2>2
  <2>. QED  BY <2>1, <2>2, <2>3
<1>. QED
  BY <1>1, <1>2, SpanAssumption DEF Vec, Vector, ScanVec, SpanVec, HayVec

LEMMA StopsOf ==
  ASSUME CallInv
  PROVE  Stops
BY DEF CallInv, Stops

\* What a step does to a call that goes on, and to one that is over.
Goes(p, o, v) == call' = call /\ pc' = p /\ offset' = o /\ vecs' = v /\ ret' = ret

Passed(p, o) == Goes(p, o, vecs)

Ends(o, v) == call' = call /\ pc' = "done" /\ offset' = o /\ vecs' = v

Found == Ends(offset, vecs) /\ ret' = AtStop(first)

\* The first stop is what an int holds of it.
IntFound == Ends(offset, vecs) /\ (IntSizes => ret' = AtStop(first))

SpanFound == Ends(offset, vecs) /\ ret' = first

Advances ==
  pc' # "done" =>
    /\ offset' <= first
    /\ offset < offset' \/ (offset = offset' /\ Rank' < Rank)

LEMMA CallKept ==
  ASSUME CallInv, call' = call
  PROVE  /\ CallInv'
         /\ routine' = routine /\ str1' = str1 /\ str2' = str2 /\ size' = size
         /\ first' = first /\ last' = last
BY DEF call, CallInv

LEMMA ReachedKept ==
  ASSUME call' = call, hay' = hay, NEW p, NEW o, NEW v, Reached(p, o, v),
         pc' = p, offset' = o, vecs' = v
  PROVE  Reached(pc, offset, vecs)'
<1>1. /\ routine' = routine /\ str1' = str1 /\ str2' = str2 /\ size' = size
      /\ first' = first
  BY DEF call
<1>2. OfMemcmp(pc, offset)'
  BY <1>1 DEF OfMemcmp, Reached, Vector
<1>3. OfStrcmp(pc, offset, vecs)'
  BY <1>1 DEF OfStrcmp, Reached, Vec, BothAligned, SomeAligned, VecsInPage, Unaligned, LeftInPage,
     InPage, PageOf, Bound, SameAlignment, Offset1, Offset2, Both
<1>4. OfScan(pc, offset)'
  BY <1>1 DEF OfScan, Reached, ScanVec, Trailing, Leading, CountEnd
<1>5. OfStrspn(pc, offset)'
  BY <1>1 DEF OfStrspn, Reached, SpanVec
<1>6. OfStrstr(pc, offset)'
  BY <1>1 DEF OfStrstr, Reached, HayVec
<1>. QED
  BY <1>1, <1>2, <1>3, <1>4, <1>5, <1>6 DEF Reached

LEMMA GoesHolds ==
  ASSUME IInv, hay' = hay, pc # "done", NEW p, NEW o, NEW v, Goes(p, o, v), Reached(p, o, v),
         offset < o \/ (offset = o /\ Rank' < Rank)
  PROVE  IInv' /\ Advances
<1>1. /\ CallInv' /\ (routine \in Strstrs => HayInv)' /\ ret' = NONE /\ first' = first
      /\ offset' = o /\ vecs' = v
  BY CallKept DEF IInv, Goes, HayInv, NONE
<1>2. Reached(pc, offset, vecs)'
  BY ReachedKept, Zenon DEF Goes
<1>3. pc' # "done"
  BY DEF Goes, Reached, Loops
<1>4. IInv'
  <2>1. o \in Nat /\ o <= first + PAGE_SZ /\ v \in Nat /\ v <= PAGE_SZ \div YMM_SZ
    BY Sizes DEF Reached, IInv, CallInv
  <2>. QED  BY <1>1, <1>2, <1>3, <2>1 DEF IInv
<1>5. Advances
  BY DEF Advances, Goes, Reached
<1>. QED  BY <1>4, <1>5

LEMMA EndsHolds ==
  ASSUME IInv, hay' = hay, routine \notin Strstrs, NEW o \in Nat, NEW v \in Nat,
         o <= first + PAGE_SZ, v <= PAGE_SZ \div YMM_SZ, Ends(o, v),
         IntSizes => ret' = IF routine \in Strspns THEN first ELSE AtStop(first)
  PROVE  IInv' /\ Advances
<1>1. /\ CallInv' /\ (routine \in Strstrs => HayInv)' /\ first' = first /\ size' = size
      /\ routine' = routine /\ pc' = "done" /\ offset' = o /\ vecs' = v
  BY CallKept DEF IInv, Ends, HayInv
<1>2. ASSUME IntSizes  PROVE ComparesCorrectly'
  BY <1>1, <1>2 DEF ComparesCorrectly, ResultIsRight, Expected, AtStop, NONE
<1>. QED  BY <1>1, <1>2 DEF IInv, Advances

LEMMA FoundHolds ==
  ASSUME IInv, hay' = hay, routine \notin Strstrs,
         IF routine \in Strspns THEN SpanFound ELSE IntFound
  PROVE  IInv' /\ Advances
<1>1. offset \in Nat /\ offset <= first + PAGE_SZ /\ vecs \in Nat /\ vecs <= PAGE_SZ \div YMM_SZ
  BY DEF IInv
<1>2. /\ Ends(offset, vecs)
      /\ IntSizes => ret' = IF routine \in Strspns THEN first ELSE AtStop(first)
  BY DEF SpanFound, IntFound
<1>. QED  BY <1>1, <1>2, EndsHolds

LEMMA FoundIsInt ==
  ASSUME Found
  PROVE  IntFound
BY DEF Found, IntFound

-----------------------------------------------------------------------------
(***************************************************************************)
(* What a look at registers leads to.                                      *)
(***************************************************************************)
\* No hit is behind the size bytes.
HitsCount(R) ==
  \/ first < size
  \/ R \in Seq(Registers) /\ Within(R, 0, size)

LEMMA VecsHit ==
  ASSUME size \in Nat, NEW o \in Nat, NEW k \in Nat, NEW v \in Nat, o + k * v <= size
  PROVE  HitsCount(Vecs(o, k, v))
<1>1. Within(Vecs(o, k, v), o, size)
  BY VecsWithin
<1>2. Vecs(o, k, v) \in Seq(Registers)
  BY VecsAre
<1>3. Within(Vecs(o, k, v), 0, size)
  BY <1>1, <1>2, WithinMore
<1>. QED  BY <1>2, <1>3 DEF HitsCount

\* What a look at registers tells.
LEMMA HitTells ==
  ASSUME Stops, NEW R, NEW o \in Int, NEW e \in Int, Covers(R, o, e), o <= first,
         NEW i, i = FirstHit(R)
  PROVE  /\ i # 0 => Tzcnt(R[i]) = first
         /\ i = 0 => e <= first
BY HitIsFirst

LEMMA HitIsAnswer ==
  ASSUME Stops, NEW R, NEW o \in Int, NEW e \in Int, Covers(R, o, e), o <= first,
         NEW i, i = FirstHit(R), i # 0, HitsCount(R)
  PROVE  Tzcnt(R[i]) = AtStop(first) /\ Tzcnt(R[i]) = first /\ first < size
<1>1. i \in 1 .. Len(R) /\ Tzcnt(R[i]) = first /\ first < EndOf(R[i])
  BY HitIsFirst DEF Covers
<1>2. first < size
  <2>1. CASE R \in Seq(Registers) /\ Within(R, 0, size)
    <3>1. EndOf(R[i]) <= size /\ R[i] \in Registers
      BY <1>1, <2>1 DEF Within
    <3>2. EndOf(R[i]) \in Int
      BY <3>1 DEF EndOf, Registers
    <3>. QED  BY <1>1, <3>1, <3>2 DEF Stops
  <2>. QED  BY <2>1 DEF HitsCount
<1>. QED  BY <1>1, <1>2 DEF AtStop

LEMMA CompareOutcome ==
  ASSUME Stops, NEW R, NEW o \in Int, NEW e \in Int, Covers(R, o, e), o <= first,
         NEW al, NEW cov \in Int, size <= cov => size <= e, NEW path, NEW next,
         CompareOrGoOn(R, al, cov, path, next)
  PROVE  Found \/ (e <= first /\ cov < size /\ Passed(path, next))
<1>1. PICK i : i = FirstHit(R)
  OBVIOUS
<1>2. /\ i # 0 => Tzcnt(R[i]) = first
      /\ i = 0 => e <= first
  BY <1>1, HitTells
<1>3. CASE i # 0
  BY <1>1, <1>2, <1>3 DEF CompareOrGoOn, Compared, Found, Ends
<1>4. CASE i = 0 /\ size <= cov
  BY <1>1, <1>2, <1>4 DEF CompareOrGoOn, Compared, Found, Ends, AtStop, Stops
<1>5. CASE i = 0 /\ ~(size <= cov)
  BY <1>1, <1>2, <1>5 DEF CompareOrGoOn, GoOn, Passed, Goes, Stops
<1>. QED  BY <1>3, <1>4, <1>5

LEMMA FindOutcome ==
  ASSUME Stops, NEW R, NEW o \in Int, NEW e \in Int, Covers(R, o, e), o <= first,
         NEW al, NEW path, NEW next, FindOrGoOn(R, al, path, next),
         routine = "strnlen_avx2" \/ HitsCount(R)
  PROVE  Found \/ (e <= first /\ Passed(path, next))
<1>1. PICK i : i = FirstHit(R)
  OBVIOUS
<1>2. /\ i # 0 => Tzcnt(R[i]) = first
      /\ i = 0 => e <= first
      /\ i # 0 /\ HitsCount(R) => Tzcnt(R[i]) = AtStop(first)
  BY <1>1, HitTells, HitIsAnswer
<1>3. CASE i # 0
  <2>1. Position(Tzcnt(R[i])) = AtStop(first)
    BY <1>2, <1>3 DEF Position
  <2>. QED  BY <1>1, <1>3, <2>1 DEF FindOrGoOn, Compared, Found, Ends
<1>4. CASE i = 0
  BY <1>1, <1>2, <1>4 DEF FindOrGoOn, GoOn, Passed, Goes
<1>. QED  BY <1>3, <1>4

\* The last registers reach up to size.
LEMMA ReturnOutcome ==
  ASSUME Stops, NEW R, NEW o \in Int, Covers(R, o, size), o <= first, HitsCount(R),
         (\E al : CompareAndReturn(R, al)) \/ FindAndReturn(R)
  PROVE  Found
<1>1. PICK i : i = FirstHit(R)
  OBVIOUS
<1>2. size \in Int
  BY DEF Stops
<1>3. /\ i # 0 => Tzcnt(R[i]) = AtStop(first)
      /\ i = 0 => size <= first
  BY <1>1, <1>2, HitTells, HitIsAnswer
<1>4. i = 0 => AtStop(first) = NONE
  BY <1>3 DEF AtStop, Stops
<1>. QED  BY <1>1, <1>3, <1>4 DEF CompareAndReturn, FindAndReturn, Compared, Found, Ends

LEMMA SpanOutcome ==
  ASSUME Stops, NEW R, NEW o \in Int, NEW e \in Int, Covers(R, o, e), o <= first,
         NEW al, NEW path, NEW next, SpanOrGoOn(R, al, path, next)
  PROVE  \/ SpanFound
         \/ e <= first /\ Passed(path, next)
<1>1. PICK i : i = FirstHit(R)
  OBVIOUS
<1>2. /\ i # 0 => Tzcnt(R[i]) = first
      /\ i = 0 => e <= first
  BY <1>1, HitTells
<1>. QED  BY <1>1, <1>2 DEF SpanFound, Ends, SpanOrGoOn, Compared, GoOn, Passed, Goes

LEMMA GoOnOutcome ==
  ASSUME Stops, NEW R, NEW o \in Int, NEW e \in Int, Covers(R, o, e), o <= first,
         HitsCount(R), NEW path, NEW next, CompareAndGoOn(R, path, next)
  PROVE  Found \/ (e <= first /\ Passed(path, next))
<1>1. PICK i : i = FirstHit(R)
  OBVIOUS
<1>2. /\ i # 0 => Tzcnt(R[i]) = AtStop(first)
      /\ i = 0 => e <= first
  BY <1>1, HitTells, HitIsAnswer
<1>. QED  BY <1>1, <1>2 DEF CompareAndGoOn, Compared, GoOn, Passed, Goes, Found, Ends

-----------------------------------------------------------------------------
\* An int holds the offset of a byte of a call that is made for ints.
LEMMA ToIntIs ==
  ASSUME IntSizes, NEW x \in Nat, x < IntSpan \div 2
  PROVE  ToInt(x) = x
<1>1. IntSpan \in Nat
  BY DEF IntSizes
<1>2. PICK h \in Int : h = IntSpan \div 2
  BY <1>1
<1>3. 2 * h <= IntSpan /\ x < h
  BY <1>1, <1>2
<1>4. x + h \in 0 .. IntSpan - 1
  BY <1>1, <1>3
<1>5. (x + h) % IntSpan = x + h
  BY <1>1, <1>4
<1>. QED  BY <1>2, <1>3, <1>5 DEF ToInt

LEMMA OffsetIs ==
  ASSUME CallInv, NEW R, NEW o \in Int, NEW e \in Int, Covers(R, o, e), o <= first,
         HitsCount(R), NEW i, i = FirstHit(R), i # 0, NEW narrow, narrow \subseteq IntSized,
         IntSizes
  PROVE  OffsetOf(R, i, narrow) = AtStop(first)
<1>1. Tzcnt(R[i]) = AtStop(first) /\ Tzcnt(R[i]) = first /\ first < size
  BY HitIsAnswer, StopsOf
<1>2. CASE routine \in narrow
  <2>1. first < IntSpan \div 2 /\ first \in Nat
    <3>1. size < IntSpan \div 2 /\ size \in Nat /\ first \in Nat /\ IntSpan \in Nat
      BY <1>2 DEF CallInv, IntSizes
    <3>2. IntSpan \div 2 \in Int
      BY <3>1
    <3>. QED  BY <1>1, <3>1, <3>2
  <2>2. ToInt(first) = first
    BY <2>1, ToIntIs
  <2>. QED  BY <1>1, <1>2, <2>2 DEF OffsetOf
<1>3. CASE routine \notin narrow
  BY <1>1, <1>3 DEF OffsetOf
<1>. QED  BY <1>2, <1>3

LEMMA GroupOutcome ==
  ASSUME CallInv, offset \in Nat, offset <= first, NEW v \in Nat, offset + 4 * v <= size,
         NEW path, CompareGroup(path, v) \/ CompareReduced(path, v)
  PROVE  IntFound \/ (offset + 4 * v <= first /\ Passed(path, offset + 4 * v))
<1> DEFINE R == Vecs(offset, 4, v)
<1>1. PICK i : i = FirstHit(R)
  OBVIOUS
<1>0. PICK e \in Nat : e = offset + 4 * v /\ size \in Nat
  BY DEF CallInv
<1>2. Covers(R, offset, e)
  BY <1>0, VecsCover
<1>3. HitsCount(R)
  BY <1>0, VecsHit
<1>. HIDE DEF R
<1>4. i # 0 => Tzcnt(R[i]) = AtStop(first)
  BY <1>0, <1>1, <1>2, <1>3, HitIsAnswer, StopsOf
<1>5. i = 0 => offset + 4 * v <= first
  <2>1. Stops
    BY StopsOf
  <2>2. offset \in Int /\ e \in Int
    BY <1>0
  <2>3. i = 0 => e <= first
    BY <1>1, <1>2, <2>1, <2>2, HitTells
  <2>. QED  BY <1>0, <2>3
<1>6. i # 0 /\ IntSizes => OffsetOf(R, i, TunableAvx2) = AtStop(first)
  <2>1. TunableAvx2 \subseteq IntSized
    BY DEF IntSized, IntTails
  <2>. QED  BY <1>1, <1>2, <1>3, <2>1, OffsetIs
<1>7. CASE CompareGroup(path, v)
  BY <1>1, <1>5, <1>6, <1>7 DEF CompareGroup, Compared, GoOn, Passed, Goes, IntFound, Ends, R
<1>8. CASE CompareReduced(path, v)
  BY <1>1, <1>4, <1>5, <1>8 DEF CompareReduced, Compared, GoOn, Passed, Goes, IntFound, Ends, R
<1>. QED  BY <1>7, <1>8

LEMMA TailOutcome ==
  ASSUME CallInv, offset \in Nat, offset <= first, NEW R,
         offset < size => Covers(R, first, size) /\ HitsCount(R),
         offset <= size, CompareTail(R)
  PROVE  IntFound
<1>1. CASE offset = size
  <2>1. AtStop(first) = NONE
    BY <1>1 DEF AtStop, CallInv
  <2>. QED  BY <1>1, <2>1 DEF CompareTail, Compared, IntFound, Ends
<1>2. CASE offset < size
  <2>1. PICK i : i = FirstHit(R)
    OBVIOUS
  <2>2. Covers(R, first, size) /\ HitsCount(R) /\ first \in Int /\ size \in Int
    BY <1>2 DEF CallInv
  <2>3. i = 0 => AtStop(first) = NONE
    <3>0. Stops /\ first <= first
      BY <2>2, StopsOf
    <3>1. i = 0 => size <= first
      BY <2>1, <2>2, <3>0, HitTells
    <3>. QED  BY <2>2, <3>1 DEF AtStop
  <2>4. IntSizes => OffsetOf(R, i, IntTails) = AtStop(first)
    <3>1. CASE i = 0
      BY <2>3, <3>1 DEF OffsetOf
    <3>2. CASE i # 0
      BY <2>1, <2>2, <3>2, OffsetIs DEF IntSized
    <3>. QED  BY <3>1, <3>2
  <2>5. ret' = OffsetOf(R, i, IntTails) /\ Ends(offset, vecs)
    BY <1>2, <2>1 DEF CompareTail, Compared, CallInv, Ends
  <2>. QED  BY <2>4, <2>5 DEF IntFound
<1>. QED  BY <1>1, <1>2 DEF CallInv

-----------------------------------------------------------------------------
(***************************************************************************)
(* The registers of a few bytes.                                           *)
(***************************************************************************)
LEMMA WidestCover ==
  ASSUME NEW n \in Nat, n <= ZMM_SZ
  PROVE  Covers(WidestEnds(n), 0, n) /\ Within(WidestEnds(n), 0, n)
<1>1. CASE n <= 1
  BY <1>1, VecsCover, VecsWithin DEF WidestEnds
<1>2. CASE n > 1
  <2> DEFINE T == { s \in NarrowRegs : s <= n }
             r == Max(T)
  <2>1. PICK s \in NarrowRegs : s <= n /\ n <= 2 * s
    BY <1>2, RegsAssumption, Sizes
  <2>2. T \subseteq 0 .. n /\ s \in T
    <3>1. NarrowRegs \subseteq Nat
      BY SpanAssumption
    <3>2. \A t \in T : t \in 0 .. n
      BY <3>1
    <3>. QED  BY <2>1, <3>2
  <2>3. r \in T /\ s <= r
    BY <2>2, MaxOfNats
  <2>4. r \in Nat /\ r <= n /\ n <= 2 * r
    BY <2>1, <2>2, <2>3
  <2>5. WidestEnds(n) = EndVecs(n, 1, r)
    BY <1>2 DEF WidestEnds
  <2>. HIDE DEF r
  <2>6. 1 * r = r
    BY <2>4
  <2>. QED  BY <2>4, <2>5, <2>6, EndsCover, EndsWithin
<1>. QED  BY <1>1, <1>2

LEMMA NarrowestCover ==
  ASSUME NEW n \in Nat, n <= 2 * ZMM_SZ
  PROVE  Covers(NarrowestEnds(n), 0, n) /\ Within(NarrowestEnds(n), 0, n)
<1>1. CASE n <= 1
  BY <1>1, VecsCover, VecsWithin, Sizes DEF NarrowestEnds
<1>2. CASE n > 1
  <2> DEFINE T == { s \in NarrowRegs \cup {ZMM_SZ} : n <= 2 * s }
             r == Min(T)
  <2>1. PICK s \in NarrowRegs \cup {ZMM_SZ} : s <= n /\ n <= 2 * s
    <3>1. CASE n <= ZMM_SZ
      BY <1>2, <3>1, RegsAssumption, Sizes
    <3>2. CASE n > ZMM_SZ
      BY <3>2, Sizes
    <3>. QED  BY <3>1, <3>2, Sizes
  <2>2. T \subseteq Nat /\ s \in T
    <3>1. NarrowRegs \subseteq Nat
      BY SpanAssumption
    <3>. QED  BY <2>1, <3>1, Sizes
  <2>3. r \in T /\ r <= s
    BY <2>2, MinOfNats
  <2>4. r \in Nat /\ r <= n /\ n <= 2 * r
    BY <1>2, <2>1, <2>2, <2>3, Sizes
  <2>5. NarrowestEnds(n) = EndVecs(n, 1, r)
    BY <1>2 DEF NarrowestEnds
  <2>. HIDE DEF r
  <2>6. 1 * r = r
    BY <2>4
  <2>. QED  BY <2>4, <2>5, <2>6, EndsCover, EndsWithin
<1>. QED  BY <1>1, <1>2

-----------------------------------------------------------------------------
(***************************************************************************)
(* memcmp.                                                                 *)
(***************************************************************************)
LEMMA Families ==
  /\ Memcmps \cap (Strcmps \cup Scans \cup Strspns \cup Strstrs \cup NoSizes) = {}
  /\ Strcmps \cap (Scans \cup Strspns \cup Strstrs) = {}
  /\ Scans \cap (Strspns \cup Strstrs) = {}
  /\ Strspns \cap Strstrs = {}
BY DEF Memcmps, OptimizedMemcmps, TunableAvx2, TunableAvx512, ErmsMemcmps, WideRepCmps,
   Strcmps, Avx2Strcmps, Avx512Strcmps, Zen4Strcmps, Scans, Avx2Scans, Avx512Scans, Memchrs,
   Avx2Memchrs, Avx512Memchrs, Strspns, Strstrs, NoSizes

MemcmpLoops ==
  {"memcmp_avx2_loop", "memcmp_avx2_tail", "memcmp_avx512_direct",
   "memcmp_avx512_xor", "memcmp_zen4_loop", "tunable_loop"}

LEMMA MemcmpGoesOn ==
  ASSUME IInv, hay' = hay, pc # "done", routine \in Memcmps,
         NEW p \in MemcmpLoops, NEW o \in Nat, o <= first, Passed(p, o), OfMemcmp(p, o),
         offset < o \/ (offset = o /\ Rank' < Rank)
  PROVE  IInv' /\ Advances
<1>1. Reached(p, o, vecs)
  BY Families
  DEF Reached, OfStrcmp, OfScan, OfStrspn, OfStrstr, Loops, MemcmpLoops, IInv
<1>. QED  BY <1>1, GoesHolds DEF Passed

LEMMA MemcmpFound ==
  ASSUME IInv, hay' = hay, routine \in Memcmps, IntFound
  PROVE  IInv' /\ Advances
BY FoundHolds, Families

\* What the lemmas of the steps start from.
LEMMA Started ==
  ASSUME IInv, NEW S, Called(S)
  PROVE  /\ CallInv /\ Stops /\ routine \in S /\ pc = "start" /\ offset = 0
         /\ offset \in Nat /\ offset <= first /\ size \in Nat /\ first \in Nat
BY StopsOf DEF IInv, Called, Reached, CallInv

LEMMA Looping ==
  ASSUME IInv, pc # "done"
  PROVE  /\ CallInv /\ Stops /\ offset \in Nat /\ offset <= first
         /\ size \in Nat /\ first \in Nat /\ ret = NONE
         /\ OfMemcmp(pc, offset) /\ OfStrcmp(pc, offset, vecs) /\ OfScan(pc, offset)
         /\ OfStrspn(pc, offset) /\ OfStrstr(pc, offset)
         /\ vecs \in Nat /\ vecs <= PAGE_SZ \div YMM_SZ
BY StopsOf DEF IInv, Reached, CallInv

LEMMA HitsWithin ==
  ASSUME NEW R, R \in Seq(Registers), Within(R, 0, size)
  PROVE  HitsCount(R)
BY DEF HitsCount

LEMMA EndsDecide ==
  ASSUME NEW k \in Nat, NEW v \in Nat, size \in Nat, k > 0, k * v <= size, size <= 2 * (k * v)
  PROVE  Covers(EndVecs(size, k, v), 0, size) /\ HitsCount(EndVecs(size, k, v))
BY EndsCover, EndsWithin, HitsWithin

LEMMA SmallAvx2Holds ==
  ASSUME IInv, hay' = hay, SmallAvx2
  PROVE  IInv' /\ Advances
<1> DEFINE R == IF size < YMM_SZ THEN WidestEnds(size)
                ELSE IF size <= 2 * YMM_SZ THEN EndVecs(size, 1, YMM_SZ)
                ELSE EndVecs(size, 2, YMM_SZ)
<1>1. Stops /\ offset = 0 /\ size \in Nat /\ first \in Nat /\ size <= 4 * YMM_SZ
  BY Started DEF SmallAvx2
<1>2. Covers(R, 0, size) /\ HitsCount(R)
  <2>1. CASE size < YMM_SZ
    <3>1. size <= ZMM_SZ
      BY <1>1, <2>1, Sizes
    <3>2. Covers(WidestEnds(size), 0, size) /\ Within(WidestEnds(size), 0, size)
      BY <1>1, <3>1, WidestCover
    <3>3. HitsCount(WidestEnds(size))
      BY <3>2, HitsWithin DEF Covers
    <3>. QED  BY <2>1, <3>2, <3>3
  <2>2. CASE ~(size < YMM_SZ) /\ size <= 2 * YMM_SZ
    <3>1. 1 * YMM_SZ <= size /\ size <= 2 * (1 * YMM_SZ)
      BY <1>1, <2>2, Sizes
    <3>. QED  BY <1>1, <2>2, <3>1, Sizes, EndsDecide
  <2>3. CASE ~(size < YMM_SZ) /\ ~(size <= 2 * YMM_SZ)
    <3>1. 2 * YMM_SZ <= size /\ size <= 2 * (2 * YMM_SZ)
      BY <1>1, <2>3, Sizes
    <3>. QED  BY <1>1, <2>3, <3>1, Sizes, EndsDecide
  <2>. QED  BY <2>1, <2>2, <2>3
<1>3. CompareAndReturn(R, {})
  BY DEF SmallAvx2
<1>. HIDE DEF R
<1>4. Found
  BY <1>1, <1>2, <1>3, ReturnOutcome
<1>5. routine \in Memcmps
  BY DEF SmallAvx2, Called, Memcmps, OptimizedMemcmps
<1>. QED  BY <1>4, <1>5, FoundIsInt, MemcmpFound

LEMMA LargeAvx2Holds ==
  ASSUME IInv, hay' = hay, LargeAvx2
  PROVE  IInv' /\ Advances
<1> DEFINE p == IF 8 * YMM_SZ < size THEN "memcmp_avx2_loop" ELSE "memcmp_avx2_tail"
           o == IF 8 * YMM_SZ < size THEN 4 * YMM_SZ ELSE 0
<1>1. /\ Stops /\ offset = 0 /\ size \in Nat /\ first \in Nat /\ 4 * YMM_SZ < size
      /\ pc = "start" /\ routine = "memcmp_avx2"
      /\ CompareAndGoOn(Vecs(0, 4, YMM_SZ), p, o)
  BY Started DEF LargeAvx2
<1>2. Covers(Vecs(0, 4, YMM_SZ), 0, 4 * YMM_SZ)
  BY VecsCover, Sizes
<1>3. HitsCount(Vecs(0, 4, YMM_SZ))
  BY <1>1, VecsHit, Sizes
<1>4. o \in Nat /\ 4 * YMM_SZ \in Nat
  BY Sizes
<1>. HIDE DEF p, o
<1>5. Found \/ (4 * YMM_SZ <= first /\ Passed(p, o))
  BY <1>1, <1>2, <1>3, <1>4, GoOnOutcome
<1>6. routine \in Memcmps
  BY <1>1 DEF Memcmps, OptimizedMemcmps
<1>7. CASE 4 * YMM_SZ <= first /\ Passed(p, o)
  <2>1. p \in MemcmpLoops /\ o <= first
    BY <1>1, <1>7 DEF p, o, MemcmpLoops
  <2>2. OfMemcmp(p, o)
    <3>1. (4 * YMM_SZ) % (4 * YMM_SZ) = 0
      BY Sizes
    <3>. QED  BY <1>1, <1>7, <3>1, Sizes DEF OfMemcmp, p, o
  <2>3. offset < o \/ (offset = o /\ Rank' < Rank)
    BY <1>1, <1>7, Sizes DEF p, o, Rank, Passed, Goes, call
  <2>. QED  BY <1>1, <1>4, <1>6, <1>7, <2>1, <2>2, <2>3, MemcmpGoesOn
<1>. QED  BY <1>5, <1>6, <1>7, FoundIsInt, MemcmpFound

\* An iteration of any of the loops.
LEMMA IterationHolds ==
  ASSUME IInv, hay' = hay, pc \in MemcmpLoops, routine \in Memcmps,
         NEW v \in Nat, v > 0, offset + 4 * v <= size, OfMemcmp(pc, offset + 4 * v),
         CompareGroup(pc, v) \/ CompareReduced(pc, v)
  PROVE  IInv' /\ Advances
<1>1. pc # "done" /\ CallInv /\ offset \in Nat /\ offset <= first /\ first \in Nat
  BY Looping DEF MemcmpLoops
<1>2. PICK o \in Nat : o = offset + 4 * v
  BY <1>1
<1>3. IntFound \/ (o <= first /\ Passed(pc, o))
  BY <1>1, <1>2, GroupOutcome
<1>4. CASE o <= first /\ Passed(pc, o)
  BY <1>1, <1>2, <1>4, MemcmpGoesOn
<1>. QED  BY <1>3, <1>4, MemcmpFound

LEMMA IterateAvx2Holds ==
  ASSUME IInv, hay' = hay, IterateAvx2
  PROVE  IInv' /\ Advances
<1>1. PICK w \in Nat : w = 4 * YMM_SZ /\ w > 0
  BY Sizes
<1>2. /\ pc = "memcmp_avx2_loop" /\ routine = "memcmp_avx2"
      /\ offset \in Nat /\ size \in Nat /\ offset % w = 0 /\ 8 * YMM_SZ < size
      /\ CompareGroup(pc, YMM_SZ)
  BY <1>1, Looping DEF IterateAvx2, OfMemcmp
<1>3. WholeGroups \in Int /\ WholeGroups % w = 0 /\ WholeGroups <= size
  BY <1>1, <1>2, RoundedDown, DivMod DEF WholeGroups
<1>4. offset + w <= WholeGroups
  BY <1>1, <1>2, <1>3, AlignedGap DEF IterateAvx2
<1>5. (offset + w) % w = 0
  BY <1>1, <1>2, AlignedNext
<1>6. offset + w <= size
  BY <1>1, <1>2, <1>3, <1>4
<1>7. OfMemcmp(pc, offset + 4 * YMM_SZ)
  BY <1>1, <1>2, <1>5, <1>6 DEF OfMemcmp
<1>8. pc \in MemcmpLoops /\ routine \in Memcmps
  BY <1>2 DEF MemcmpLoops, Memcmps, OptimizedMemcmps
<1>. QED  BY <1>1, <1>2, <1>6, <1>7, <1>8, Sizes, IterationHolds

\* The last registers, which begin where the first stop can still be.
LEMMA TailHolds ==
  ASSUME IInv, hay' = hay, pc # "done", routine \in Memcmps, offset <= size, NEW R,
         offset < size => Covers(R, first, size) /\ HitsCount(R), CompareTail(R)
  PROVE  IInv' /\ Advances
<1>1. CallInv /\ offset \in Nat /\ offset <= first
  BY Looping
<1>. QED  BY <1>1, TailOutcome, MemcmpFound

LEMMA LastDecide ==
  ASSUME NEW k \in Nat, NEW v \in Nat, size \in Nat, first \in Nat, k > 0, k * v <= size,
         size - k * v <= first
  PROVE  Covers(LastVecs(size, k, v), first, size) /\ HitsCount(LastVecs(size, k, v))
BY LastCover, LastWithin, HitsWithin

LEMMA TailAvx2Holds ==
  ASSUME IInv, hay' = hay, TailAvx2
  PROVE  IInv' /\ Advances
<1>1. /\ pc # "done" /\ OfMemcmp(pc, offset) /\ offset \in Nat /\ offset <= first
      /\ size \in Nat /\ first \in Nat /\ CompareTail(LastVecs(size, 4, YMM_SZ))
      /\ pc \in {"memcmp_avx2_loop", "memcmp_avx2_tail"}
  BY Looping DEF TailAvx2
<1>2. /\ routine \in Memcmps /\ 4 * YMM_SZ < size
  BY <1>1, Sizes DEF OfMemcmp, Memcmps, OptimizedMemcmps
<1>3. offset <= size /\ size - 4 * YMM_SZ <= first
  <2>1. CASE pc = "memcmp_avx2_loop"
    <3>1. PICK w \in Nat : w = 4 * YMM_SZ /\ w > 0
      BY Sizes
    <3>2. size % w \in 0 .. w - 1
      BY <1>1, <3>1, DivMod
    <3>3. WholeGroups = size - (size % w)
      BY <3>1 DEF WholeGroups
    <3>. QED  BY <1>1, <2>1, <3>1, <3>2, <3>3 DEF TailAvx2, OfMemcmp
  <2>2. CASE pc = "memcmp_avx2_tail"
    BY <1>1, <2>2, Sizes DEF OfMemcmp
  <2>. QED  BY <1>1, <2>1, <2>2
<1>. QED  BY <1>1, <1>2, <1>3, LastDecide, TailHolds, Sizes

-----------------------------------------------------------------------------
LEMMA SmallAvx512Holds ==
  ASSUME IInv, hay' = hay, SmallAvx512
  PROVE  IInv' /\ Advances
<1> DEFINE R == IF size <= ZMM_SZ THEN Vecs(0, 1, size)
                ELSE IF size <= 2 * ZMM_SZ THEN EndVecs(size, 1, ZMM_SZ)
                ELSE EndVecs(size, 2, ZMM_SZ)
<1>1. Stops /\ offset = 0 /\ size \in Nat /\ first \in Nat /\ size <= 4 * ZMM_SZ
  BY Started DEF SmallAvx512
<1>2. Covers(R, 0, size) /\ HitsCount(R)
  <2>1. CASE size <= ZMM_SZ
    <3>1. Covers(Vecs(0, 1, size), 0, size) /\ HitsCount(Vecs(0, 1, size))
      BY <1>1, VecsCover, VecsHit
    <3>. QED  BY <2>1, <3>1
  <2>2. CASE ~(size <= ZMM_SZ) /\ size <= 2 * ZMM_SZ
    <3>1. 1 * ZMM_SZ <= size /\ size <= 2 * (1 * ZMM_SZ)
      BY <1>1, <2>2, Sizes
    <3>. QED  BY <1>1, <2>2, <3>1, Sizes, EndsDecide
  <2>3. CASE ~(size <= ZMM_SZ) /\ ~(size <= 2 * ZMM_SZ)
    <3>1. 2 * ZMM_SZ <= size /\ size <= 2 * (2 * ZMM_SZ)
      BY <1>1, <2>3, Sizes
    <3>. QED  BY <1>1, <2>3, <3>1, Sizes, EndsDecide
  <2>. QED  BY <2>1, <2>2, <2>3
<1>3. CompareAndReturn(R, {})
  BY DEF SmallAvx512
<1>. HIDE DEF R
<1>4. Found
  BY <1>1, <1>2, <1>3, ReturnOutcome
<1>5. routine \in Memcmps
  BY DEF SmallAvx512, Called, Memcmps, OptimizedMemcmps
<1>. QED  BY <1>4, <1>5, FoundIsInt, MemcmpFound

LEMMA LargeAvx512Holds ==
  ASSUME IInv, hay' = hay, LargeAvx512
  PROVE  IInv' /\ Advances
<1> DEFINE p == IF 2 * (L1D \div 3) <= size THEN "memcmp_avx512_direct" ELSE "memcmp_avx512_xor"
<1>1. /\ Stops /\ offset = 0 /\ size \in Nat /\ first \in Nat /\ 4 * ZMM_SZ < size
      /\ pc = "start" /\ routine = "memcmp_avx512"
      /\ CompareAndGoOn(Vecs(0, 1, ZMM_SZ), p, ZMM_SZ)
  BY Started DEF LargeAvx512
<1>2. Covers(Vecs(0, 1, ZMM_SZ), 0, ZMM_SZ)
  BY VecsCover, Sizes
<1>3. HitsCount(Vecs(0, 1, ZMM_SZ))
  <2>1. 0 + 1 * ZMM_SZ <= size
    BY <1>1, Sizes
  <2>. QED  BY <1>1, <2>1, VecsHit, Sizes
<1>4. p \in {"memcmp_avx512_direct", "memcmp_avx512_xor"}
  OBVIOUS
<1>. HIDE DEF p
<1>5. Found \/ (ZMM_SZ <= first /\ Passed(p, ZMM_SZ))
  BY <1>1, <1>2, <1>3, Sizes, GoOnOutcome
<1>6. routine \in Memcmps
  BY <1>1 DEF Memcmps, OptimizedMemcmps
<1>7. CASE ZMM_SZ <= first /\ Passed(p, ZMM_SZ)
  <2>1. p \in MemcmpLoops /\ offset < ZMM_SZ
    BY <1>1, <1>4, Sizes DEF MemcmpLoops
  <2>2. OfMemcmp(p, ZMM_SZ)
    BY <1>1, <1>4, Sizes DEF OfMemcmp
  <2>. QED  BY <1>1, <1>6, <1>7, <2>1, <2>2, Sizes, MemcmpGoesOn
<1>. QED  BY <1>5, <1>6, <1>7, FoundIsInt, MemcmpFound

LEMMA IterateAvx512Holds ==
  ASSUME IInv, hay' = hay, IterateAvx512
  PROVE  IInv' /\ Advances
<1>1. /\ pc \in {"memcmp_avx512_direct", "memcmp_avx512_xor"} /\ pc # "done"
      /\ CompareGroup(pc, ZMM_SZ) \/ CompareReduced(pc, ZMM_SZ)
  BY DEF IterateAvx512
<1>2. /\ routine = "memcmp_avx512" /\ 4 * ZMM_SZ < size /\ ZMM_SZ <= offset
      /\ offset \in Nat /\ size \in Nat
  BY <1>1, Looping DEF OfMemcmp
<1>3. offset + 4 * ZMM_SZ <= size
  BY <1>2, Sizes DEF IterateAvx512
<1>4. OfMemcmp(pc, offset + 4 * ZMM_SZ)
  BY <1>1, <1>2, <1>3, Sizes DEF OfMemcmp
<1>5. pc \in MemcmpLoops /\ routine \in Memcmps
  BY <1>1, <1>2 DEF MemcmpLoops, Memcmps, OptimizedMemcmps
<1>. QED  BY <1>1, <1>3, <1>4, <1>5, Sizes, IterationHolds

\* rem_vecs vectors reach back to the offset, and not a whole vector further.
LEMMA RemVecs ==
  ASSUME NEW v \in Nat, v > 0, size \in Nat, offset \in Nat, offset < size
  PROVE  /\ rem_vecs(v) \in Nat /\ rem_vecs(v) > 0
         /\ size - rem_vecs(v) * v <= offset
         /\ offset - v < size - rem_vecs(v) * v
<1> DEFINE x == size - offset
           q == x \div v
           r == x % v
<1>1. x \in Int /\ q \in Int /\ x = v * q + r /\ r \in 0 .. v - 1 /\ x > 0
  BY DivMod
<1>2. rem_vecs(v) = q + (IF r # 0 THEN 1 ELSE 0)
  BY DEF rem_vecs
<1>3. x = size - offset
  OBVIOUS
<1>. HIDE DEF x, q, r
<1>4. q >= 0
  <2>. SUFFICES ASSUME q <= -1  PROVE FALSE
    BY <1>1
  <2>1. (-q) * v >= v
    BY <1>1, MultipleAtLeast
  <2>. QED  BY <1>1, <2>1
<1>5. CASE r = 0
  <2>1. rem_vecs(v) = q /\ q * v = x
    BY <1>1, <1>2, <1>5
  <2>2. q # 0
    BY <1>1, <1>5
  <2>. QED  BY <1>1, <1>3, <1>4, <2>1, <2>2
<1>6. CASE r # 0
  <2>1. rem_vecs(v) = q + 1
    BY <1>1, <1>2, <1>6
  <2>2. (q + 1) * v = x - r + v
    BY <1>1
  <2>. QED  BY <1>1, <1>3, <1>4, <1>6, <2>1, <2>2
<1>. QED  BY <1>5, <1>6

LEMMA TailRemHolds ==
  ASSUME IInv, hay' = hay, pc # "done", routine \in Memcmps, offset <= size,
         NEW v \in Nat, v > 0, v <= offset \/ 8 * v < size, size - 4 * v <= offset,
         CompareTail(LastVecs(size, rem_vecs(v), v))
  PROVE  IInv' /\ Advances
<1>1. offset \in Nat /\ size \in Nat /\ first \in Nat /\ offset <= first
  BY Looping
<1>2. ASSUME offset < size
      PROVE  /\ Covers(LastVecs(size, rem_vecs(v), v), first, size)
             /\ HitsCount(LastVecs(size, rem_vecs(v), v))
  <2>1. /\ rem_vecs(v) \in Nat /\ rem_vecs(v) > 0
        /\ size - rem_vecs(v) * v <= offset /\ offset - v < size - rem_vecs(v) * v
    BY <1>1, <1>2, RemVecs
  <2>2. PICK x \in Int : x = rem_vecs(v) * v
    BY <2>1
  <2>3. x <= size /\ size - x <= first
    BY <1>1, <2>1, <2>2
  <2>. QED  BY <1>1, <2>1, <2>2, <2>3, LastDecide
<1>. QED  BY <1>2, TailHolds

LEMMA TailAvx512Holds ==
  ASSUME IInv, hay' = hay, TailAvx512
  PROVE  IInv' /\ Advances
<1>1. pc \in {"memcmp_avx512_direct", "memcmp_avx512_xor"} /\ pc # "done"
  BY DEF TailAvx512
<1>2. routine = "memcmp_avx512" /\ ZMM_SZ <= offset /\ offset <= size
  BY <1>1, Looping DEF OfMemcmp
<1>3. routine \in Memcmps
  BY <1>2 DEF Memcmps, OptimizedMemcmps
<1>. QED  BY <1>1, <1>2, <1>3, Sizes, TailRemHolds DEF TailAvx512

-----------------------------------------------------------------------------
LEMMA LargeZen4Holds ==
  ASSUME IInv, hay' = hay, LargeZen4
  PROVE  IInv' /\ Advances
<1>1. /\ routine = "memcmp_zen4" /\ 4 * ZMM_SZ < size /\ pc = "start" /\ offset = 0
      /\ size \in Nat /\ first \in Nat /\ Passed("memcmp_zen4_loop", 0)
  BY Started DEF LargeZen4, GoOn, Passed, Goes
<1>2. "memcmp_zen4_loop" \in MemcmpLoops /\ routine \in Memcmps
  BY <1>1 DEF MemcmpLoops, Memcmps, OptimizedMemcmps
<1>3. OfMemcmp("memcmp_zen4_loop", 0)
  BY <1>1 DEF OfMemcmp
<1>4. Rank' < Rank
  BY <1>1 DEF Rank, Passed, Goes, call
<1>. QED  BY <1>1, <1>2, <1>3, <1>4, MemcmpGoesOn

LEMMA IterateZen4Holds ==
  ASSUME IInv, hay' = hay, IterateZen4
  PROVE  IInv' /\ Advances
<1>1. pc = "memcmp_zen4_loop" /\ pc # "done" /\ CompareGroup(pc, YMM_SZ)
  BY DEF IterateZen4
<1>2. /\ routine = "memcmp_zen4" /\ 4 * ZMM_SZ < size
      /\ offset \in Nat /\ size \in Nat
  BY <1>1, Looping DEF OfMemcmp
<1>3. offset + 4 * YMM_SZ <= size
  BY <1>2, Sizes DEF IterateZen4
<1>4. OfMemcmp(pc, offset + 4 * YMM_SZ)
  BY <1>1, <1>2, <1>3, Sizes DEF OfMemcmp
<1>5. pc \in MemcmpLoops /\ routine \in Memcmps
  BY <1>1, <1>2 DEF MemcmpLoops, Memcmps, OptimizedMemcmps
<1>. QED  BY <1>1, <1>3, <1>4, <1>5, Sizes, IterationHolds

LEMMA TailZen4Holds ==
  ASSUME IInv, hay' = hay, TailZen4
  PROVE  IInv' /\ Advances
<1>1. pc = "memcmp_zen4_loop" /\ pc # "done"
  BY DEF TailZen4
<1>2. routine = "memcmp_zen4" /\ 8 * YMM_SZ < size /\ offset <= size
  BY <1>1, Looping, Sizes DEF OfMemcmp
<1>3. routine \in Memcmps
  BY <1>2 DEF Memcmps, OptimizedMemcmps
<1>. QED  BY <1>1, <1>2, <1>3, Sizes, TailRemHolds DEF TailZen4

-----------------------------------------------------------------------------
LEMMA SmallTunableHolds ==
  ASSUME IInv, hay' = hay, SmallTunable
  PROVE  IInv' /\ Advances
<1> DEFINE R == IF routine \in TunableAvx2 THEN WidestEnds(size) ELSE NarrowestEnds(size)
<1>1. Stops /\ routine \in Tunable /\ size \in Nat /\ first \in Nat
  BY Started DEF SmallTunable
<1>2. Covers(R, 0, size) /\ Within(R, 0, size)
  <2>1. CASE routine \in TunableAvx2
    <3>1. size <= ZMM_SZ
      BY <2>1, Sizes DEF SmallTunable, Vector
    <3>. QED  BY <1>1, <2>1, <3>1, WidestCover
  <2>2. CASE routine \notin TunableAvx2
    <3>1. size <= 2 * ZMM_SZ
      BY <2>2 DEF SmallTunable, Vector
    <3>. QED  BY <1>1, <2>2, <3>1, NarrowestCover
  <2>. QED  BY <2>1, <2>2
<1>3. CompareAndReturn(R, {})
  BY DEF SmallTunable
<1>. HIDE DEF R
<1>4. HitsCount(R)
  BY <1>2, HitsWithin DEF Covers
<1>5. Found
  BY <1>1, <1>2, <1>3, <1>4, ReturnOutcome
<1>6. routine \in Memcmps
  BY <1>1 DEF Memcmps, Tunable
<1>. QED  BY <1>5, <1>6, FoundIsInt, MemcmpFound

LEMMA MediumTunableHolds ==
  ASSUME IInv, hay' = hay, MediumTunable
  PROVE  IInv' /\ Advances
<1>1. /\ Stops /\ routine \in Tunable /\ size \in Nat /\ first \in Nat
      /\ 2 * Vector < size /\ size <= 4 * Vector
      /\ CompareAndReturn(EndVecs(size, 2, Vector), Aligned)
  BY Started DEF MediumTunable
<1>2. 2 * Vector <= size /\ size <= 2 * (2 * Vector)
  BY <1>1, Sizes
<1>3. Covers(EndVecs(size, 2, Vector), 0, size) /\ HitsCount(EndVecs(size, 2, Vector))
  BY <1>1, <1>2, Sizes, EndsDecide
<1>4. Found
  BY <1>1, <1>3, ReturnOutcome
<1>5. routine \in Memcmps
  BY <1>1 DEF Memcmps, Tunable
<1>. QED  BY <1>4, <1>5, FoundIsInt, MemcmpFound

LEMMA LargeTunableHolds ==
  ASSUME IInv, hay' = hay, LargeTunable
  PROVE  IInv' /\ Advances
<1>1. /\ routine \in Tunable /\ 4 * Vector < size /\ pc = "start" /\ offset = 0
      /\ size \in Nat /\ first \in Nat /\ Passed("tunable_loop", 0)
  BY Started DEF LargeTunable, GoOn, Passed, Goes
<1>2. "tunable_loop" \in MemcmpLoops /\ routine \in Memcmps
  BY <1>1 DEF MemcmpLoops, Memcmps, Tunable
<1>3. OfMemcmp("tunable_loop", 0)
  BY <1>1, Sizes DEF OfMemcmp
<1>4. Rank' < Rank
  BY <1>1 DEF Rank, Passed, Goes, call, Tunable, TunableAvx2, TunableAvx512
<1>. QED  BY <1>1, <1>2, <1>3, <1>4, MemcmpGoesOn

LEMMA IterateTunableHolds ==
  ASSUME IInv, hay' = hay, IterateTunable
  PROVE  IInv' /\ Advances
<1>1. pc = "tunable_loop" /\ pc # "done" /\ CompareGroup(pc, Vector)
  BY DEF IterateTunable
<1>2. /\ routine \in Tunable /\ 4 * Vector < size /\ offset % Vector = 0
      /\ offset \in Nat /\ size \in Nat
  BY <1>1, Looping DEF OfMemcmp
<1>3. offset + 4 * Vector <= size
  BY <1>2, Sizes DEF IterateTunable, MoreGroups
<1>4. (offset + 4 * Vector) % Vector = 0
  BY <1>2, Sizes, AlignedFourOn
<1>5. OfMemcmp(pc, offset + 4 * Vector)
  BY <1>1, <1>2, <1>3, <1>4, Sizes DEF OfMemcmp
<1>6. pc \in MemcmpLoops /\ routine \in Memcmps
  BY <1>1, <1>2 DEF MemcmpLoops, Memcmps, Tunable
<1>. QED  BY <1>1, <1>3, <1>5, <1>6, Sizes, IterationHolds

LEMMA TailTunableHolds ==
  ASSUME IInv, hay' = hay, TailTunable
  PROVE  IInv' /\ Advances
<1>1. pc = "tunable_loop" /\ pc # "done" /\ CompareTail(LastVecs(size, 4, Vector))
  BY DEF TailTunable
<1>2. /\ routine \in Tunable /\ 4 * Vector < size /\ offset <= size
      /\ offset \in Nat /\ size \in Nat /\ first \in Nat /\ offset <= first
  BY <1>1, Looping DEF OfMemcmp
<1>3. size - 4 * Vector <= first
  BY <1>2, Sizes DEF TailTunable, MoreGroups
<1>4. routine \in Memcmps
  BY <1>2 DEF Memcmps, Tunable
<1>. QED  BY <1>1, <1>2, <1>3, <1>4, Sizes, LastDecide, TailHolds

-----------------------------------------------------------------------------
\* Of the units, single bytes are said something about.
LEMMA RepCmpsHolds ==
  ASSUME IInv, hay' = hay, RepCmps
  PROVE  IInv' /\ Advances
<1>1. /\ routine \in ErmsMemcmps /\ CallInv /\ size \in Nat /\ first \in Nat
      /\ pc' = "done" /\ call' = call /\ offset' = offset /\ vecs' = vecs
  BY Started DEF RepCmps, Compared
<1>2. /\ CallInv' /\ routine \notin Strstrs \cup Strspns
      /\ routine' = routine /\ size' = size /\ first' = first
  BY <1>1, CallKept, Families DEF Memcmps
<1>3. ASSUME IntSizes, Unit = 1, size > 0
      PROVE  ret' = IF first < size THEN first ELSE size - 1
  <2>1. ToInt(size) = size
    <3>1. size < IntSpan \div 2
      BY <1>1, <1>3 DEF CallInv, IntSized
    <3>. QED  BY <1>1, <1>3, <3>1, ToIntIs
  <2>2. ToInt(size) \div Unit = size /\ first \div Unit = first
    BY <1>1, <1>3, <2>1
  <2>3. Min({size, first + 1}) = IF first < size THEN first + 1 ELSE size
    BY <1>1 DEF Min
  <2>4. ret' = 1 * Min({size, first + 1}) - 1
    BY <1>3, <2>2 DEF RepCmps, Compared
  <2>. QED  BY <1>1, <2>3, <2>4
<1>4. ASSUME IntSizes  PROVE ComparesCorrectly'
  <2>1. CASE Unit = 1 /\ size > 0
    BY <1>1, <1>2, <1>3, <1>4, <2>1
    DEF ComparesCorrectly, ResultIsRight, Expected, AtStop, NONE
  <2>2. CASE ~(Unit = 1 /\ size > 0)
    <3>1. ~OutsideRepCmps'
      BY <1>1, <1>2, <2>2 DEF OutsideRepCmps, Unit, ErmsMemcmps, WideRepCmps
    <3>. QED  BY <3>1 DEF ComparesCorrectly
  <2>. QED  BY <2>1, <2>2
<1>. QED  BY <1>1, <1>2, <1>4 DEF IInv, Advances

LEMMA ChooseHolds ==
  ASSUME IInv, hay' = hay, ChooseByThreshold
  PROVE  IInv' /\ Advances
<1>1. /\ routine = "memcmp_threshold" /\ CallInv /\ pc = "start" /\ offset = 0
      /\ Reached(pc, offset, vecs) /\ ret = NONE
      /\ routine' \in {"memcmp_erms_b", "memcmp_avx512_unaligned", "memcmp_avx2_unaligned"}
      /\ str1' = str1 /\ str2' = str2 /\ size' = size /\ first' = first /\ last' = last
      /\ pc' = pc /\ offset' = offset /\ vecs' = vecs /\ ret' = ret
  BY DEF ChooseByThreshold, Called, IInv, Reached
<1>2. routine' \in Memcmps /\ routine' \notin AlignedMemcmps
  BY <1>1 DEF Memcmps, TunableAvx2, TunableAvx512, ErmsMemcmps, AlignedMemcmps
<1>3. /\ routine' \notin Strcmps \cup Scans \cup Strspns \cup Strstrs
      /\ routine' \notin NoSizes
  BY <1>2, Families
<1>4. CallInv'
  BY <1>1, <1>2, <1>3 DEF CallInv, IntSized
<1>5. Reached(pc, offset, vecs)'
  BY <1>1, <1>3
  DEF Reached, Loops, OfMemcmp, OfStrcmp, OfScan, OfStrspn, OfStrstr
<1>6. offset' <= first /\ Rank' < Rank
  BY <1>1 DEF Rank, CallInv
<1>. QED  BY <1>1, <1>3, <1>4, <1>5, <1>6 DEF IInv, Advances, NONE

LEMMA StepMemcmpHolds ==
  ASSUME IInv, hay' = hay, StepMemcmp
  PROVE  IInv' /\ Advances
BY SmallAvx2Holds, LargeAvx2Holds, IterateAvx2Holds, TailAvx2Holds, SmallAvx512Holds,
   LargeAvx512Holds, IterateAvx512Holds, TailAvx512Holds, LargeZen4Holds, IterateZen4Holds,
   TailZen4Holds, SmallTunableHolds, MediumTunableHolds, LargeTunableHolds,
   IterateTunableHolds, TailTunableHolds, RepCmpsHolds, ChooseHolds
DEF StepMemcmp

-----------------------------------------------------------------------------
(***************************************************************************)
(* Pages.                                                                  *)
(***************************************************************************)
LEMMA SizesDivide ==
  /\ ZMM_SZ % YMM_SZ = 0 /\ ZMM_SZ % XMM_SZ = 0 /\ YMM_SZ % XMM_SZ = 0
  /\ PAGE_SZ % ZMM_SZ = 0 /\ PAGE_SZ % YMM_SZ = 0 /\ PAGE_SZ % XMM_SZ = 0
<1>1. PICK x \in Nat : x = XMM_SZ /\ x > 0 /\ YMM_SZ = 2 * x /\ ZMM_SZ = 4 * x
  BY Sizes
<1>2. (4 * x) % (2 * x) = 0 /\ (4 * x) % x = 0 /\ (2 * x) % x = 0
  <2>1. PICK y \in Nat : y = 2 * x /\ y > 0
    BY <1>1
  <2>2. (2 * y) % y = 0 /\ (4 * x) % x = 0 /\ (2 * x) % x = 0
    BY <1>1, <2>1, MultipleIsAligned
  <2>. QED  BY <2>1, <2>2
<1>3. /\ ZMM_SZ % YMM_SZ = 0 /\ ZMM_SZ % XMM_SZ = 0 /\ YMM_SZ % XMM_SZ = 0
  BY <1>1, <1>2
<1>4. PAGE_SZ % ZMM_SZ = 0
  BY SpanAssumption
<1>5. PAGE_SZ % YMM_SZ = 0 /\ PAGE_SZ % XMM_SZ = 0
  BY <1>3, <1>4, Sizes, AlignedTwice
<1>. QED  BY <1>3, <1>4, <1>5

LEMMA LeftInPageIs ==
  ASSUME NEW a \in Int
  PROVE  /\ LeftInPage(a) \in 1 .. PAGE_SZ /\ InPage(a) \in 0 .. PAGE_SZ - 1
         /\ (a + LeftInPage(a)) % PAGE_SZ = 0
<1>1. PAGE_SZ \in Nat /\ PAGE_SZ > 0
  BY Sizes
<1>2. a % PAGE_SZ \in 0 .. PAGE_SZ - 1
  BY <1>1, DivMod
<1>3. (a + (PAGE_SZ - (a % PAGE_SZ))) % PAGE_SZ = 0
  BY <1>1, RoundedUp
<1>. QED  BY <1>1, <1>2, <1>3 DEF LeftInPage, InPage

\* A page ends where a register ends.
LEMMA LeftForRegister ==
  ASSUME NEW a \in Int, NEW v \in Nat, v > 0, PAGE_SZ % v = 0
  PROVE  v - (a % v) <= LeftInPage(a)
<1>1. PICK e \in Int : e = a + LeftInPage(a) /\ a < e
  BY LeftInPageIs
<1>2. e % v = 0
  <2>1. e % PAGE_SZ = 0
    BY <1>1, LeftInPageIs
  <2>. QED  BY <2>1, Sizes, AlignedTwice
<1>3. PICK b \in Int : b = a - (a % v) /\ b <= a
  BY DivMod
<1>4. b % v = 0
  BY <1>3, RoundedDown
<1>5. b + v <= e
  BY <1>1, <1>2, <1>3, <1>4, AlignedGap
<1>6. a % v \in Int /\ LeftInPage(a) \in Int
  BY DivMod, LeftInPageIs
<1>. QED  BY <1>1, <1>3, <1>5, <1>6

\* Further on in the same page.
LEMMA FurtherInPage ==
  ASSUME NEW a \in Int, NEW n \in Nat, n < LeftInPage(a)
  PROVE  LeftInPage(a + n) = LeftInPage(a) - n /\ PageOf(a + n) = PageOf(a)
<1> DEFINE q == a \div PAGE_SZ
           r == a % PAGE_SZ
<1>1. q \in Int /\ a = PAGE_SZ * q + r /\ r \in 0 .. PAGE_SZ - 1 /\ PAGE_SZ \in Nat /\ PAGE_SZ > 0
  BY Sizes, DivMod
<1>2. r + n \in 0 .. PAGE_SZ - 1
  BY <1>1 DEF LeftInPage, InPage
<1>. HIDE DEF q, r
<1>3. PICK y \in Int, s \in 0 .. PAGE_SZ - 1 : y = a + n /\ s = r + n /\ y = PAGE_SZ * q + s
  BY <1>1, <1>2
<1>4. y \div PAGE_SZ = q
  BY <1>1, <1>3, DivUnique
<1>5. y % PAGE_SZ = s
  <2>1. y = PAGE_SZ * (y \div PAGE_SZ) + (y % PAGE_SZ) /\ y % PAGE_SZ \in Int
    BY <1>1, DivMod
  <2>. QED  BY <1>1, <1>3, <1>4, <2>1
<1>. QED  BY <1>1, <1>3, <1>4, <1>5 DEF LeftInPage, InPage, PageOf, q, r

LEMMA MinOfTwo ==
  ASSUME NEW x \in Int, NEW y \in Int
  PROVE  Min({x, y}) = IF x < y THEN x ELSE y
BY DEF Min

LEMMA SafeBytesAre ==
  ASSUME str1 \in Nat, str2 \in Nat, NEW o \in Nat
  PROVE  /\ SafeBytes(o) \in 1 .. PAGE_SZ
         /\ SafeBytes(o) <= LeftInPage(str1 + o) /\ SafeBytes(o) <= LeftInPage(str2 + o)
         /\ \E s \in {str1, str2} : SafeBytes(o) = LeftInPage(s + o)
<1>1. LeftInPage(str1 + o) \in 1 .. PAGE_SZ /\ LeftInPage(str2 + o) \in 1 .. PAGE_SZ
  BY LeftInPageIs
<1>. QED  BY <1>1, MinOfTwo DEF SafeBytes

\* The vectors that a page still holds.
LEMMA VecsCounted ==
  ASSUME NEW l \in 1 .. PAGE_SZ, NEW v \in {YMM_SZ, ZMM_SZ}
  PROVE  /\ l \div v \in Nat /\ (l \div v) * v <= l
         /\ l \div v <= PAGE_SZ \div YMM_SZ
         /\ v <= l => 0 < l \div v
<1> DEFINE q == l \div v
           d == PAGE_SZ \div YMM_SZ
<1>1. v \in Nat /\ v >= YMM_SZ /\ YMM_SZ \in Nat /\ YMM_SZ > 0 /\ PAGE_SZ \in Nat /\ l \in Int
  BY Sizes
<1>2. q \in Int /\ l = v * q + (l % v) /\ l % v \in 0 .. v - 1
  BY <1>1, DivMod
<1>3. d \in Int /\ PAGE_SZ = YMM_SZ * d + (PAGE_SZ % YMM_SZ) /\ PAGE_SZ % YMM_SZ \in 0 .. YMM_SZ - 1
  BY <1>1, DivMod
<1>. HIDE DEF q, d
<1>4. q >= 0
  <2>. SUFFICES ASSUME q <= -1  PROVE FALSE
    BY <1>2
  <2>1. (-q) * v >= v
    BY <1>1, <1>2, MultipleAtLeast
  <2>. QED  BY <1>1, <1>2, <2>1
<1>5. q * v <= l
  BY <1>1, <1>2
<1>6. q <= d
  <2>. SUFFICES ASSUME q - d >= 1  PROVE FALSE
    BY <1>2, <1>3
  <2>1. (q - d) * YMM_SZ >= YMM_SZ
    BY <1>1, <1>2, <1>3, MultipleAtLeast
  <2>2. q * YMM_SZ <= q * v
    BY <1>1, <1>2, <1>4
  <2>3. q * YMM_SZ - d * YMM_SZ >= YMM_SZ
    BY <1>1, <1>2, <1>3, <2>1
  <2>4. PICK x \in Int, y \in Int, z \in Int : x = q * YMM_SZ /\ y = d * YMM_SZ /\ z = q * v
    BY <1>1, <1>2, <1>3
  <2>5. PAGE_SZ = y + (PAGE_SZ % YMM_SZ)
    BY <1>1, <1>3, <2>4
  <2>. QED  BY <1>1, <1>3, <1>5, <2>2, <2>3, <2>4, <2>5
<1>7. v <= l => q # 0
  BY <1>1, <1>2
<1>. QED  BY <1>2, <1>4, <1>5, <1>6, <1>7 DEF q, d

\* k of v vectors further on, the others are still in the page.
LEMMA VecsLeft ==
  ASSUME NEW s \in Nat, NEW o \in Nat, NEW v \in Nat, NEW k \in Nat, k <= v, VecsInPage(s, o, v)
  PROVE  /\ VecsInPage(s, o + k * Vec, v - k)
         /\ k < v => PageOf(s + (o + k * Vec)) = PageOf(s + o)
<1>1. PICK n \in Nat : n = k * Vec
  BY Sizes
<1>2. LeftInPage(s + o) \in Nat /\ LeftInPage(s + (o + n)) \in Nat
  BY LeftInPageIs
<1>3. v * Vec = n + (v - k) * Vec /\ v - k \in Nat
  BY <1>1, Sizes
<1>4. CASE k = v
  BY <1>1, <1>2, <1>4, Sizes DEF VecsInPage
<1>5. CASE k < v
  <2>1. (v - k) * Vec >= Vec /\ (v - k) * Vec \in Nat
    BY <1>3, <1>5, Sizes, MultipleAtLeast
  <2>2. n < LeftInPage(s + o)
    BY <1>2, <1>3, <2>1, Sizes DEF VecsInPage
  <2>3. (s + o) + n = s + (o + n)
    BY <1>1
  <2>4. /\ LeftInPage(s + (o + n)) = LeftInPage(s + o) - n
        /\ PageOf(s + (o + n)) = PageOf(s + o)
    BY <2>2, <2>3, FurtherInPage
  <2>. QED  BY <1>1, <1>2, <1>3, <2>1, <2>4 DEF VecsInPage
<1>. QED  BY <1>4, <1>5

-----------------------------------------------------------------------------
(***************************************************************************)
(* strcmp and strncmp.                                                     *)
(***************************************************************************)
LEMMA ShiftCover ==
  ASSUME NEW R, NEW n \in Int, NEW o \in Int, Covers(R, 0, n)
  PROVE  Covers(ShiftedBy(R, o), o, o + n)
<1> DEFINE T == ShiftedBy(R, o)
           a == Len(R)
<1>1. R \in Seq(Registers) /\ a \in Nat /\ a > 0 /\ DOMAIN R = 1 .. a
  BY DEF Covers
<1>. HIDE DEF a
<1>2. ASSUME NEW i \in 1 .. a
      PROVE  /\ R[i] \in Registers /\ T[i] \in Registers
             /\ T[i].at = R[i].at + o /\ EndOf(T[i]) = EndOf(R[i]) + o
             /\ R[i].at \in Int /\ EndOf(R[i]) \in Int
  <2>1. R[i] \in Registers
    BY <1>1 DEF a
  <2>2. T[i] = [at |-> R[i].at + o, len |-> R[i].len]
    BY <1>1 DEF ShiftedBy, Reg
  <2>. QED  BY <2>1, <2>2 DEF Registers, EndOf
<1>3. T \in Seq(Registers) /\ Len(T) = a
  <2>1. T = [i \in 1 .. a |-> T[i]]
    BY <1>1 DEF ShiftedBy
  <2>2. T \in [1 .. a -> Registers]
    BY <1>2, <2>1
  <2>. QED  BY <1>1, <2>2
<1>. HIDE DEF T
<1>4. ASSUME NEW i \in 1 .. a
      PROVE  T[i].at <= o \/ \E j \in 1 .. i - 1 : T[i].at <= EndOf(T[j])
  <2>1. R[i].at <= 0 \/ \E j \in 1 .. i - 1 : R[i].at <= EndOf(R[j])
    BY <1>4 DEF Covers, a
  <2>2. CASE R[i].at <= 0
    BY <1>2, <2>2
  <2>3. CASE \E j \in 1 .. i - 1 : R[i].at <= EndOf(R[j])
    <3>1. PICK j \in 1 .. i - 1 : R[i].at <= EndOf(R[j])
      BY <2>3
    <3>2. j \in 1 .. a
      BY <1>1
    <3>3. T[i].at <= EndOf(T[j])
      BY <1>2, <3>1, <3>2
    <3>. QED  BY <3>3
  <2>. QED  BY <2>1, <2>2, <2>3
<1>5. \E i \in 1 .. a : o + n <= EndOf(T[i])
  <2>1. PICK i \in 1 .. a : n <= EndOf(R[i])
    BY DEF Covers, a
  <2>. QED  BY <1>2, <2>1
<1>6. Covers(T, o, o + n)
  BY <1>1, <1>3, <1>4, <1>5, Zenon DEF Covers
<1>. QED  BY <1>6 DEF T

LEMMA BleCover ==
  ASSUME NEW o \in Int, NEW n \in Nat, n <= 2 * ZMM_SZ
  PROVE  Covers(BleYmm(o, n), o, o + n)
BY NarrowestCover, ShiftCover DEF BleYmm

StrcmpLoops ==
  {"lockstep", "lockstep_1", "chunk", "chunk_4", "chunk_1", "zen4_ramp", "zen4_page",
   "zen4_vecs"}

PageLoopers == Avx2Strcmps \cup Avx512Strcmps

LEMMA StrcmpGoesOn ==
  ASSUME IInv, hay' = hay, pc # "done", routine \in Strcmps,
         NEW p \in StrcmpLoops, NEW o \in Nat, o <= first, NEW v \in Nat,
         v <= PAGE_SZ \div YMM_SZ, Goes(p, o, v), OfStrcmp(p, o, v),
         offset < o \/ (offset = o /\ Rank' < Rank)
  PROVE  IInv' /\ Advances
<1>1. Reached(p, o, v)
  BY Families
  DEF Reached, OfMemcmp, OfScan, OfStrspn, OfStrstr, Loops, StrcmpLoops, IInv
<1>. QED  BY <1>1, GoesHolds

LEMMA StrcmpFound ==
  ASSUME IInv, hay' = hay, routine \in Strcmps, Found
  PROVE  IInv' /\ Advances
BY FoundHolds, FoundIsInt, Families

LEMMA StrcmpPasses ==
  ASSUME IInv, hay' = hay, pc # "done", routine \in Strcmps,
         NEW p \in StrcmpLoops, NEW o \in Nat, o <= first, Passed(p, o), OfStrcmp(p, o, vecs),
         offset < o \/ (offset = o /\ Rank' < Rank)
  PROVE  IInv' /\ Advances
BY Looping, StrcmpGoesOn DEF Passed

\* The alignment that is reached at an offset holds every so many vectors further on.
LEMMA AlignmentKept ==
  ASSUME str1 \in Nat, str2 \in Nat, NEW o \in Nat, NEW k \in Nat
  PROVE  /\ SomeAligned(o) => SomeAligned(o + k * Vec)
         /\ BothAligned(o) => BothAligned(o + k * Vec)
         /\ Unaligned(o + k * Vec) = Unaligned(o)
<1>1. PICK n \in Nat : n = k * Vec
  BY Sizes
<1>2. Vec \in Nat /\ Vec > 0
  BY Sizes
<1>3. ASSUME NEW s \in {str1, str2}
      PROVE  (s + o) % Vec = 0 <=> (s + (o + n)) % Vec = 0
  <2>1. PICK x \in Int, y \in Int : x = s + o /\ y = s + (o + n)
    OBVIOUS
  <2>2. PICK j \in Int : y = x + k * Vec /\ x = y + j * Vec
    <3>1. y = x + k * Vec /\ x = y + (-k) * Vec /\ -k \in Int
      BY <1>1, <1>2, <2>1
    <3>. QED  BY <3>1
  <2>3. x % Vec = 0 => y % Vec = 0
    BY <1>2, <2>2, AlignedStep
  <2>4. y % Vec = 0 => x % Vec = 0
    BY <1>2, <2>2, AlignedStep
  <2>. QED  BY <2>1, <2>3, <2>4
<1>. QED  BY <1>1, <1>3 DEF SomeAligned, BothAligned, Unaligned

LEMMA FirstLineIs ==
  ASSUME CallInv
  PROVE  /\ FirstLine \in 1 .. ZMM_SZ /\ MaxOffset \in 0 .. ZMM_SZ - 1
         /\ FirstLine = ZMM_SZ - MaxOffset
         /\ \A s \in Both : FirstLine <= ZMM_SZ - (s % ZMM_SZ)
         /\ SomeAligned(FirstLine)
         /\ SameAlignment => BothAligned(FirstLine)
<1>1. /\ ZMM_SZ \in Nat /\ ZMM_SZ > 0 /\ Vec \in Nat /\ Vec > 0 /\ ZMM_SZ % Vec = 0
      /\ str1 \in Nat /\ str2 \in Nat
  BY Sizes, SizesDivide DEF CallInv
<1>2. PICK a \in 0 .. ZMM_SZ - 1, b \in 0 .. ZMM_SZ - 1 : a = str1 % ZMM_SZ /\ b = str2 % ZMM_SZ
  BY <1>1, DivMod
<1>3. MaxOffset = (IF a < b THEN b ELSE a)
  BY <1>2, MaxOfTwo DEF MaxOffset, Offset1, Offset2, Line
<1>4. FirstLine = ZMM_SZ - MaxOffset
  BY DEF FirstLine, Line
<1>5. ASSUME NEW s \in {str1, str2}, s % ZMM_SZ = MaxOffset
      PROVE  (s + FirstLine) % Vec = 0
  <2>1. s + FirstLine \in Int
    BY <1>1, <1>2, <1>3, <1>4
  <2>2. (s + FirstLine) % ZMM_SZ = 0
    BY <1>1, <1>4, <1>5, RoundedUp
  <2>. QED  BY <1>1, <2>1, <2>2, AlignedTwice
<1>6. SomeAligned(FirstLine)
  BY <1>2, <1>3, <1>5 DEF SomeAligned
<1>7. SameAlignment => BothAligned(FirstLine)
  BY <1>2, <1>3, <1>5 DEF BothAligned, SameAlignment, Offset1, Offset2, Line
<1>. QED  BY <1>1, <1>2, <1>3, <1>4, <1>6, <1>7 DEF Both

\* Behind the first loads.
LEMMA BehindStart ==
  ASSUME IInv, hay' = hay, pc = "start", routine \in PageLoopers,
         FirstLine <= first, Passed(PathBehindStart, FirstLine)
  PROVE  IInv' /\ Advances
<1>1. CallInv /\ offset = 0 /\ pc # "done"
  BY DEF IInv, Reached
<1>2. /\ FirstLine \in Nat /\ FirstLine > 0
      /\ SomeAligned(FirstLine) /\ (SameAlignment => BothAligned(FirstLine))
  BY <1>1, FirstLineIs, Sizes
<1>3. OfStrcmp(PathBehindStart, FirstLine, vecs) /\ PathBehindStart \in StrcmpLoops
  BY <1>2 DEF OfStrcmp, PathBehindStart, PageLoopers, StrcmpLoops
<1>4. routine \in Strcmps
  BY DEF PageLoopers, Strcmps
<1>. QED  BY <1>1, <1>2, <1>3, <1>4, StrcmpPasses

LEMMA StartedStrcmp ==
  ASSUME IInv, NEW S, Called(S), S \subseteq Strcmps
  PROVE  /\ CallInv /\ Stops /\ routine \in S /\ routine \in Strcmps /\ pc = "start"
         /\ offset = 0 /\ size \in Nat /\ first \in Nat
         /\ FirstLine \in 1 .. ZMM_SZ /\ MaxOffset \in 0 .. ZMM_SZ - 1
         /\ FirstLine = ZMM_SZ - MaxOffset
BY Started, FirstLineIs

LEMMA HitFound ==
  ASSUME Stops, NEW R, NEW o \in Int, NEW e \in Int, Covers(R, o, e), o <= first,
         NEW al, NEW cov, NEW path, NEW next, FirstHit(R) # 0,
         CompareOrGoOn(R, al, cov, path, next)
  PROVE  Found
<1>1. Tzcnt(R[FirstHit(R)]) = first
  BY HitIsFirst
<1>. QED  BY <1>1 DEF CompareOrGoOn, Compared, Found, Ends

LEMMA StartNearAvx2Holds ==
  ASSUME IInv, hay' = hay, StartNearAvx2
  PROVE  IInv' /\ Advances
<1> DEFINE R == Vecs(0, 1, YMM_SZ)
           S == BleYmm(YMM_SZ, YMM_SZ - MaxOffset)
<1>1. /\ CallInv /\ Stops /\ routine \in Avx2Strcmps /\ routine \in Strcmps /\ pc = "start"
      /\ size \in Nat /\ first \in Nat
      /\ FirstLine \in 1 .. ZMM_SZ /\ MaxOffset \in 0 .. ZMM_SZ - 1
      /\ FirstLine = ZMM_SZ - MaxOffset /\ 0 < size /\ MaxOffset < YMM_SZ
  BY StartedStrcmp DEF StartNearAvx2, Strcmps
<1>2. Covers(R, 0, YMM_SZ)
  BY VecsCover, Sizes
<1>3. Covers(R \o S, 0, FirstLine)
  <2>1. PICK n \in Nat : n = YMM_SZ - MaxOffset
    BY <1>1, Sizes
  <2>2. n <= 2 * ZMM_SZ /\ YMM_SZ + n = FirstLine
    BY <1>1, <2>1, Sizes
  <2>3. Covers(S, YMM_SZ, FirstLine)
    BY <2>1, <2>2, Sizes, BleCover
  <2>4. YMM_SZ \in Int /\ FirstLine \in Int
    BY <1>1, Sizes
  <2>. QED  BY <1>2, <2>3, <2>4, CoverBoth
<1>4. /\ IF FirstHit(R) = 0 /\ size > YMM_SZ - MaxOffset
         THEN CompareOrGoOn(R \o S, {}, 0, PathBehindStart, FirstLine)
         ELSE CompareOrGoOn(R, {}, size, PathBehindStart, FirstLine)
  BY DEF StartNearAvx2
<1>5. YMM_SZ \in Int /\ FirstLine \in Int /\ size \in Int /\ 0 <= first
  BY <1>1, Sizes
<1>. HIDE DEF R, S
<1>6. CASE FirstHit(R) = 0 /\ size > YMM_SZ - MaxOffset
  <2>1. Found \/ (FirstLine <= first /\ Passed(PathBehindStart, FirstLine))
    <3>1. CompareOrGoOn(R \o S, {}, 0, PathBehindStart, FirstLine) /\ ~(size <= 0)
      BY <1>1, <1>4, <1>6
    <3>. QED  BY <1>1, <1>3, <1>5, <3>1, CompareOutcome
  <2>. QED  BY <1>1, <2>1, StrcmpFound, BehindStart DEF PageLoopers
<1>7. CASE FirstHit(R) # 0
  <2>1. CompareOrGoOn(R, {}, size, PathBehindStart, FirstLine)
    BY <1>4, <1>7
  <2>2. Found
    BY <1>1, <1>2, <1>5, <1>7, <2>1, HitFound
  <2>. QED  BY <1>1, <2>2, StrcmpFound
<1>8. CASE ~(size > YMM_SZ - MaxOffset)
  <2>1. CompareOrGoOn(R, {}, size, PathBehindStart, FirstLine) /\ size <= YMM_SZ
    BY <1>1, <1>4, <1>8, Sizes
  <2>2. Found
    BY <1>1, <1>2, <1>5, <2>1, CompareOutcome
  <2>. QED  BY <1>1, <2>2, StrcmpFound
<1>. QED  BY <1>6, <1>7, <1>8

LEMMA StartVeryNearAvx2Holds ==
  ASSUME IInv, hay' = hay, StartVeryNearAvx2
  PROVE  IInv' /\ Advances
<1>1. /\ Stops /\ routine \in Avx2Strcmps /\ routine \in Strcmps /\ pc = "start"
      /\ first \in Nat /\ FirstLine \in 1 .. ZMM_SZ
      /\ CompareOrGoOn(BleYmm(0, FirstLine), {}, FirstLine, PathBehindStart, FirstLine)
  BY StartedStrcmp DEF StartVeryNearAvx2, Strcmps
<1>2. Covers(BleYmm(0, FirstLine), 0, FirstLine)
  <2>1. PICK n \in Nat : n = FirstLine /\ n <= 2 * ZMM_SZ /\ 0 + n = n
    BY <1>1, Sizes
  <2>. QED  BY <2>1, BleCover
<1>3. Found \/ (FirstLine <= first /\ Passed(PathBehindStart, FirstLine))
  BY <1>1, <1>2, CompareOutcome
<1>. QED  BY <1>1, <1>3, StrcmpFound, BehindStart DEF PageLoopers

LEMMA StartAvx2Holds ==
  ASSUME IInv, hay' = hay, StartAvx2
  PROVE  IInv' /\ Advances
<1> DEFINE k == IF size <= YMM_SZ THEN 1 ELSE 2
<1>1. /\ Stops /\ routine \in Avx2Strcmps /\ routine \in Strcmps /\ pc = "start"
      /\ first \in Nat /\ size \in Nat /\ FirstLine \in 1 .. ZMM_SZ
      /\ CompareOrGoOn(Vecs(0, k, YMM_SZ), {}, 2 * YMM_SZ, PathBehindStart, FirstLine)
  BY StartedStrcmp DEF StartAvx2, Strcmps
<1>2. PICK e \in Nat : e = k * YMM_SZ
  BY Sizes
<1>3. Covers(Vecs(0, k, YMM_SZ), 0, e)
  BY <1>2, VecsCover, Sizes
<1>4. size <= 2 * YMM_SZ => size <= e
  BY <1>1, <1>2, Sizes
<1>5. 2 * YMM_SZ < size => FirstLine <= e
  BY <1>1, <1>2, Sizes
<1>. HIDE DEF k
<1>6. Found \/ (FirstLine <= first /\ Passed(PathBehindStart, FirstLine))
  BY <1>1, <1>2, <1>3, <1>4, <1>5, Sizes, CompareOutcome
<1>. QED  BY <1>1, <1>6, StrcmpFound, BehindStart DEF PageLoopers

LEMMA StartNearAvx512Holds ==
  ASSUME IInv, hay' = hay, StartNearAvx512
  PROVE  IInv' /\ Advances
<1>1. /\ Stops /\ routine \in Avx512Strcmps /\ routine \in Strcmps /\ pc = "start"
      /\ first \in Nat /\ FirstLine \in 1 .. ZMM_SZ
      /\ CompareOrGoOn(Vecs(0, 1, FirstLine), {}, FirstLine, PathBehindStart, FirstLine)
  BY StartedStrcmp DEF StartNearAvx512, Strcmps
<1>2. Covers(Vecs(0, 1, FirstLine), 0, FirstLine)
  BY <1>1, VecsCover
<1>3. Found \/ (FirstLine <= first /\ Passed(PathBehindStart, FirstLine))
  BY <1>1, <1>2, CompareOutcome
<1>. QED  BY <1>1, <1>3, StrcmpFound, BehindStart DEF PageLoopers

LEMMA StartAvx512Holds ==
  ASSUME IInv, hay' = hay, StartAvx512
  PROVE  IInv' /\ Advances
<1>1. /\ Stops /\ routine \in Avx512Strcmps /\ routine \in Strcmps /\ pc = "start"
      /\ first \in Nat /\ FirstLine \in 1 .. ZMM_SZ
      /\ CompareOrGoOn(Vecs(0, 1, ZMM_SZ), {}, ZMM_SZ, PathBehindStart, FirstLine)
  BY StartedStrcmp DEF StartAvx512, Strcmps
<1>2. Covers(Vecs(0, 1, ZMM_SZ), 0, ZMM_SZ)
  BY Sizes, VecsCover
<1>3. Found \/ (ZMM_SZ <= first /\ Passed(PathBehindStart, FirstLine))
  BY <1>1, <1>2, Sizes, CompareOutcome
<1>4. ZMM_SZ <= first => FirstLine <= first
  BY <1>1, Sizes
<1>. QED  BY <1>1, <1>3, <1>4, StrcmpFound, BehindStart DEF PageLoopers

\* The routine is done at an offset that size does not reach beyond.
LEMMA NoneLeft ==
  ASSUME Stops, offset \in Nat, offset <= first, size <= offset, Compared(NONE)
  PROVE  Found
BY DEF Stops, Compared, Found, Ends, AtStop

LEMMA StartEmptyHolds ==
  ASSUME IInv, hay' = hay, StartEmpty
  PROVE  IInv' /\ Advances
<1>1. /\ Stops /\ routine \in Strcmps /\ offset = 0 /\ first \in Nat /\ size <= offset
      /\ Compared(NONE)
  BY StartedStrcmp DEF StartEmpty
<1>. QED  BY <1>1, NoneLeft, StrcmpFound

-----------------------------------------------------------------------------
LEMMA LockstepHolds ==
  ASSUME IInv, hay' = hay, Lockstep4 \/ LeaveLockstep4 \/ Lockstep1
  PROVE  IInv' /\ Advances
<1>1. pc \in {"lockstep", "lockstep_1"} /\ pc # "done" /\ pc \in StrcmpLoops
  BY DEF Lockstep4, LeaveLockstep4, Lockstep1, StrcmpLoops
<1>2. /\ CallInv /\ Stops /\ offset \in Nat /\ offset <= first /\ size \in Nat /\ first \in Nat
      /\ routine \in PageLoopers /\ routine \in Strcmps /\ BothAligned(offset)
  BY <1>1, Looping DEF OfStrcmp, PageLoopers, Strcmps
<1>3. str1 \in Nat /\ str2 \in Nat
  BY <1>2 DEF CallInv
<1>4. ASSUME NEW k \in Nat, k > 0,
             CompareOrGoOn(Vecs(offset, k, Vec), Both, offset + k * Vec, pc, offset + k * Vec)
      PROVE  IInv' /\ Advances
  <2>1. PICK o \in Nat : o = offset + k * Vec
    BY <1>2, Sizes
  <2>2. Covers(Vecs(offset, k, Vec), offset, o)
    BY <1>2, <1>4, <2>1, Sizes, VecsCover
  <2>3. Found \/ (o <= first /\ Passed(pc, o))
    BY <1>2, <1>4, <2>1, <2>2, CompareOutcome
  <2>4. OfStrcmp(pc, o, vecs)
    BY <1>1, <1>2, <1>3, <2>1, AlignmentKept DEF OfStrcmp, PageLoopers
  <2>5. offset < o
    BY <1>2, <1>4, <2>1, Sizes, MultipleAtLeast
  <2>. QED  BY <1>1, <1>2, <2>1, <2>3, <2>4, <2>5, StrcmpFound, StrcmpPasses
<1>5. CASE Lockstep4
  BY <1>4, <1>5 DEF Lockstep4
<1>6. CASE Lockstep1
  <2>1. 1 * Vec = Vec
    BY Sizes
  <2>. QED  BY <1>4, <1>6, <2>1 DEF Lockstep1
<1>7. CASE LeaveLockstep4
  <2>1. Passed("lockstep_1", offset) /\ pc = "lockstep"
    BY <1>2, <1>7 DEF LeaveLockstep4, GoOn, Passed, Goes
  <2>2. Rank' < Rank
    BY <2>1 DEF Rank, Passed, Goes
  <2>3. OfStrcmp("lockstep_1", offset, vecs) /\ "lockstep_1" \in StrcmpLoops
    BY <1>2 DEF OfStrcmp, StrcmpLoops, PageLoopers
  <2>. QED  BY <1>1, <1>2, <2>1, <2>2, <2>3, StrcmpPasses
<1>. QED  BY <1>5, <1>6, <1>7

-----------------------------------------------------------------------------
LEMMA UnalignedIs ==
  /\ unaligned_str = Unaligned(offset)
  /\ Unaligned(offset) \in Both
BY DEF unaligned_str, Unaligned, Both

LEMMA InChunk ==
  ASSUME IInv, pc \in {"chunk", "chunk_4", "chunk_1"}
  PROVE  /\ CallInv /\ Stops /\ offset \in Nat /\ offset <= first /\ size \in Nat /\ first \in Nat
         /\ str1 \in Nat /\ str2 \in Nat /\ pc # "done" /\ ret = NONE
         /\ routine \in PageLoopers /\ routine \in Strcmps /\ SomeAligned(offset)
         /\ pc # "chunk" => VecsInPage(Unaligned(offset), offset, vecs)
         /\ vecs \in Nat /\ vecs <= PAGE_SZ \div YMM_SZ
<1>1. pc # "done"
  OBVIOUS
<1>. QED  BY <1>1, Looping DEF CallInv, OfStrcmp, PageLoopers, Strcmps

LEMMA EnterChunkHolds ==
  ASSUME IInv, hay' = hay, EnterChunk
  PROVE  IInv' /\ Advances
<1> DEFINE l == LeftInPage(Unaligned(offset) + offset)
           v == l \div Vec
<1>1. pc = "chunk" /\ Goes("chunk_4", offset, v)
  BY UnalignedIs DEF EnterChunk, Goes
<1>2. /\ offset \in Nat /\ offset <= first /\ str1 \in Nat /\ str2 \in Nat
      /\ routine \in PageLoopers /\ routine \in Strcmps /\ SomeAligned(offset) /\ pc # "done"
  BY <1>1, InChunk
<1>3. Unaligned(offset) + offset \in Int
  BY <1>2 DEF Unaligned
<1>4. l \in 1 .. PAGE_SZ
  BY <1>3, LeftInPageIs
<1>5. v \in Nat /\ v * Vec <= l /\ v <= PAGE_SZ \div YMM_SZ
  BY <1>4, Sizes, VecsCounted
<1>6. VecsInPage(Unaligned(offset), offset, v)
  BY <1>5 DEF VecsInPage
<1>. HIDE DEF v, l
<1>7. OfStrcmp("chunk_4", offset, v) /\ "chunk_4" \in StrcmpLoops
  BY <1>2, <1>6 DEF OfStrcmp, StrcmpLoops, PageLoopers
<1>8. Rank' < Rank
  BY <1>1 DEF Rank, Goes
<1>. QED  BY <1>1, <1>2, <1>5, <1>7, <1>8, StrcmpGoesOn

\* What a look at the next vectors tells.
LEMMA VecsTell ==
  ASSUME Stops, offset \in Nat, offset <= first, NEW k \in Nat, k > 0, NEW v \in Nat, NEW i,
         i = FirstHit(Vecs(offset, k, v))
  PROVE  /\ i # 0 => AtStop(Tzcnt(Vecs(offset, k, v)[i])) = AtStop(first)
         /\ i = 0 => offset + k * v <= first
<1>1. PICK o \in Nat : o = offset + k * v
  OBVIOUS
<1>2. Covers(Vecs(offset, k, v), offset, o)
  BY <1>1, VecsCover
<1>. QED  BY <1>1, <1>2, HitIsFirst

\* Some of the vectors that are left in the page.
LEMMA ChunkHolds ==
  ASSUME IInv, hay' = hay, pc \in {"chunk_4", "chunk_1"}, NEW k \in 1 .. 4, k <= vecs,
         NEW i, i = FirstHit(Vecs(offset, k, Vec)),
         ret' = IF i # 0 THEN AtStop(Tzcnt(Vecs(offset, k, Vec)[i])) ELSE ret,
         \/ pc' = "done" /\ (i = 0 => size <= offset + k * Vec)
         \/ pc' = pc /\ i = 0,
         offset' = offset + k * Vec, vecs' = vecs - k, call' = call
  PROVE  IInv' /\ Advances
<1>1. /\ CallInv /\ Stops /\ offset \in Nat /\ offset <= first /\ size \in Nat /\ first \in Nat
      /\ str1 \in Nat /\ str2 \in Nat /\ pc # "done" /\ ret = NONE
      /\ routine \in PageLoopers /\ routine \in Strcmps /\ SomeAligned(offset)
      /\ VecsInPage(Unaligned(offset), offset, vecs)
      /\ vecs \in Nat /\ vecs <= PAGE_SZ \div YMM_SZ
  BY InChunk
<1>2. PICK o \in Nat : o = offset + k * Vec /\ offset < o /\ o <= first + PAGE_SZ
  <2>1. k * Vec >= Vec /\ k * Vec <= 4 * Vec
    BY Sizes
  <2>. QED  BY <1>1, <2>1, Sizes
<1>3. PICK v \in Nat : v = vecs - k /\ v <= PAGE_SZ \div YMM_SZ
  <2>1. PAGE_SZ \div YMM_SZ \in Int
    BY Sizes, DivMod
  <2>. QED  BY <1>1, <2>1
<1>4. /\ i # 0 => AtStop(Tzcnt(Vecs(offset, k, Vec)[i])) = AtStop(first)
      /\ i = 0 => o <= first
  BY <1>1, <1>2, Sizes, VecsTell
<1>5. CASE pc' = "done" /\ (i = 0 => size <= offset + k * Vec)
  <2>1. ret' = AtStop(first)
    BY <1>1, <1>2, <1>4, <1>5 DEF AtStop
  <2>2. Ends(o, v)
    BY <1>2, <1>3, <1>5 DEF Ends
  <2>3. routine \notin Strspns /\ routine \notin Strstrs
    BY <1>1, Families
  <2>. QED  BY <1>2, <1>3, <2>1, <2>2, <2>3, EndsHolds
<1>6. CASE pc' = pc /\ i = 0
  <2>1. Goes(pc, o, v)
    BY <1>2, <1>3, <1>6 DEF Goes
  <2>2. Unaligned(o) = Unaligned(offset) /\ SomeAligned(o)
    BY <1>1, <1>2, AlignmentKept
  <2>3. VecsInPage(Unaligned(offset), o, v)
    <3>1. Unaligned(offset) \in Nat
      BY <1>1 DEF Unaligned
    <3>. QED  BY <1>1, <1>2, <1>3, <3>1, VecsLeft
  <2>4. OfStrcmp(pc, o, v) /\ pc \in StrcmpLoops
    BY <1>1, <2>2, <2>3 DEF OfStrcmp, StrcmpLoops, PageLoopers
  <2>. QED  BY <1>1, <1>2, <1>3, <1>4, <1>6, <2>1, <2>4, StrcmpGoesOn
<1>. QED  BY <1>5, <1>6

LEMMA Chunk4Holds ==
  ASSUME IInv, hay' = hay, Chunk4
  PROVE  IInv' /\ Advances
BY ChunkHolds DEF Chunk4, FourVecsLeft

LEMMA Chunk1Holds ==
  ASSUME IInv, hay' = hay, Chunk1
  PROVE  IInv' /\ Advances
<1>1. pc = "chunk_1" /\ vecs \in Nat /\ 1 <= vecs /\ 1 * Vec = Vec
  BY InChunk, Sizes DEF Chunk1
<1>. QED  BY <1>1, ChunkHolds DEF Chunk1

LEMMA LeaveChunk4Holds ==
  ASSUME IInv, hay' = hay, LeaveChunk4
  PROVE  IInv' /\ Advances
<1>1. pc = "chunk_4"
  BY DEF LeaveChunk4
<1>2. /\ Stops /\ offset \in Nat /\ offset <= first /\ pc # "done"
      /\ routine \in PageLoopers /\ routine \in Strcmps /\ SomeAligned(offset)
      /\ VecsInPage(Unaligned(offset), offset, vecs)
  BY <1>1, InChunk
<1>3. CASE size <= offset
  BY <1>2, <1>3, NoneLeft, StrcmpFound DEF LeaveChunk4
<1>4. CASE ~(size <= offset)
  <2>1. Passed("chunk_1", offset)
    BY <1>4 DEF LeaveChunk4, GoOn, Passed, Goes
  <2>2. Rank' < Rank
    BY <1>1, <2>1 DEF Rank, Passed, Goes
  <2>3. OfStrcmp("chunk_1", offset, vecs) /\ "chunk_1" \in StrcmpLoops
    BY <1>2 DEF OfStrcmp, StrcmpLoops, PageLoopers
  <2>. QED  BY <1>2, <2>1, <2>2, <2>3, StrcmpPasses
<1>. QED  BY <1>3, <1>4

LEMMA CrossPageHolds ==
  ASSUME IInv, hay' = hay, CrossPage
  PROVE  IInv' /\ Advances
<1> DEFINE n == Vec - ((Unaligned(offset) + offset) % Vec)
           R == IF routine \in Avx2Strcmps THEN BleYmm(offset, n) ELSE Vecs(offset, 1, n)
<1>1. pc = "chunk_1" /\ CompareOrGoOn(R, {}, offset + n, "chunk", offset + n)
  BY UnalignedIs DEF CrossPage
<1>2. /\ Stops /\ offset \in Nat /\ offset <= first /\ str1 \in Nat /\ str2 \in Nat
      /\ routine \in PageLoopers /\ routine \in Strcmps /\ pc # "done"
  BY <1>1, InChunk
<1>3. PICK s \in {str1, str2} : s = Unaligned(offset)
  BY DEF Unaligned
<1>4. ((s + offset) + n) % Vec = 0 /\ n \in 1 .. Vec
  <2>1. s + offset \in Int /\ Vec \in Nat /\ Vec > 0
    BY <1>2, Sizes
  <2>. QED  BY <1>3, <2>1, RoundedUp
<1>. HIDE DEF n
<1>5. PICK o \in Nat : o = offset + n /\ offset < o
  BY <1>2, <1>4, Sizes
<1>6. SomeAligned(o)
  <2>1. (s + offset) + n = s + o
    BY <1>2, <1>4, <1>5, Sizes
  <2>. QED  BY <1>4, <2>1 DEF SomeAligned
<1>7. Covers(R, offset, o)
  <2>1. n \in Nat /\ n <= 2 * ZMM_SZ
    BY <1>4, Sizes
  <2>2. Covers(BleYmm(offset, n), offset, o)
    BY <1>2, <1>5, <2>1, BleCover
  <2>3. Covers(Vecs(offset, 1, n), offset, o)
    BY <1>2, <1>5, <2>1, VecsCover
  <2>. QED  BY <2>2, <2>3
<1>. HIDE DEF R
<1>8. Found \/ (o <= first /\ Passed("chunk", o))
  BY <1>1, <1>2, <1>5, <1>7, CompareOutcome
<1>9. OfStrcmp("chunk", o, vecs) /\ "chunk" \in StrcmpLoops
  BY <1>2, <1>6 DEF OfStrcmp, StrcmpLoops, PageLoopers
<1>. QED  BY <1>2, <1>5, <1>8, <1>9, StrcmpFound, StrcmpPasses

-----------------------------------------------------------------------------
LEMMA InZen4 ==
  ASSUME IInv, pc \in {"zen4_ramp", "zen4_page", "zen4_vecs"}
  PROVE  /\ CallInv /\ Stops /\ offset \in Nat /\ offset <= first /\ size \in Nat /\ first \in Nat
         /\ str1 \in Nat /\ str2 \in Nat /\ pc # "done" /\ ret = NONE
         /\ routine \in Zen4Strcmps /\ routine \in Strcmps /\ 0 < size /\ Vec = ZMM_SZ
         /\ SameAlignment => BothAligned(offset)
         /\ vecs \in Nat /\ vecs <= PAGE_SZ \div YMM_SZ
         /\ OfStrcmp(pc, offset, vecs)
<1>1. pc # "done"
  OBVIOUS
<1>2. /\ CallInv /\ Stops /\ offset \in Nat /\ offset <= first /\ size \in Nat /\ first \in Nat
      /\ ret = NONE /\ OfStrcmp(pc, offset, vecs) /\ vecs \in Nat /\ vecs <= PAGE_SZ \div YMM_SZ
  BY <1>1, Looping
<1>3. routine \in Zen4Strcmps /\ 0 < size /\ (SameAlignment => BothAligned(offset))
  BY <1>2 DEF OfStrcmp
<1>4. routine \in Strcmps /\ Vec = ZMM_SZ
  BY <1>3 DEF Strcmps, Vec, Zen4Strcmps, Avx2Strcmps
<1>. QED  BY <1>1, <1>2, <1>3, <1>4 DEF CallInv

LEMMA StartZen4Holds ==
  ASSUME IInv, hay' = hay, StartZen4
  PROVE  IInv' /\ Advances
<1> DEFINE n == Min({SafeBytes(0), ZMM_SZ})
           p == IF SameAlignment THEN "zen4_ramp" ELSE "zen4_page"
<1>1. /\ CallInv /\ Stops /\ routine \in Zen4Strcmps /\ routine \in Strcmps /\ pc = "start"
      /\ offset = 0 /\ size \in Nat /\ first \in Nat /\ FirstLine \in 1 .. ZMM_SZ /\ 0 < size
      /\ str1 \in Nat /\ str2 \in Nat
      /\ CompareOrGoOn(Vecs(0, 1, n), {}, n, p, FirstLine)
  BY StartedStrcmp DEF StartZen4, Strcmps, CallInv
<1>2. n \in 1 .. ZMM_SZ /\ FirstLine <= n
  <2>1. SafeBytes(0) \in 1 .. PAGE_SZ /\ \E s \in {str1, str2} : SafeBytes(0) = LeftInPage(s + 0)
    BY <1>1, SafeBytesAre
  <2>2. PICK s \in {str1, str2} : SafeBytes(0) = LeftInPage(s)
    BY <1>1, <2>1
  <2>3. ZMM_SZ - (s % ZMM_SZ) <= LeftInPage(s)
    BY <1>1, Sizes, SizesDivide, LeftForRegister
  <2>4. FirstLine <= ZMM_SZ - (s % ZMM_SZ)
    BY <1>1, <2>2, FirstLineIs DEF Both
  <2>5. FirstLine <= SafeBytes(0)
    <3>1. s % ZMM_SZ \in Int
      BY <1>1, Sizes, DivMod
    <3>. QED  BY <1>1, <2>1, <2>2, <2>3, <2>4, <3>1, Sizes
  <2>. QED  BY <1>1, <2>1, <2>5, Sizes, MinOfTwo
<1>. HIDE DEF n
<1>3. Covers(Vecs(0, 1, n), 0, n)
  BY <1>2, VecsCover, Sizes
<1>4. Found \/ (n <= first /\ Passed(p, FirstLine))
  BY <1>1, <1>2, <1>3, CompareOutcome
<1>5. OfStrcmp(p, FirstLine, vecs) /\ p \in StrcmpLoops
  BY <1>1, FirstLineIs DEF OfStrcmp, StrcmpLoops
<1>. HIDE DEF p
<1>. QED  BY <1>1, <1>2, <1>4, <1>5, Sizes, StrcmpFound, StrcmpPasses

LEMMA RampZen4Holds ==
  ASSUME IInv, hay' = hay, RampZen4
  PROVE  IInv' /\ Advances
<1>1. pc = "zen4_ramp"
  BY DEF RampZen4
<1>2. /\ Stops /\ offset \in Nat /\ offset <= first /\ first \in Nat
      /\ str1 \in Nat /\ str2 \in Nat /\ pc # "done" /\ size \in Nat
      /\ routine \in Zen4Strcmps /\ routine \in Strcmps /\ 0 < size /\ Vec = ZMM_SZ
      /\ SameAlignment => BothAligned(offset)
  BY <1>1, InZen4
<1>3. PICK o \in Nat : o = offset + 3 * ZMM_SZ /\ offset < o
  BY <1>2, Sizes
<1>4. "zen4_page" \in StrcmpLoops
  BY DEF StrcmpLoops
<1>5. CASE o <= size
  <2>1. Covers(Vecs(offset, 3, ZMM_SZ), offset, o)
    BY <1>2, <1>3, Sizes, VecsCover
  <2>2. CompareOrGoOn(Vecs(offset, 3, ZMM_SZ), Both, 0, "zen4_page", o)
    BY <1>3, <1>5 DEF RampZen4
  <2>3. Found \/ (o <= first /\ Passed("zen4_page", o))
    <3>1. ~(size <= 0)
      BY <1>2
    <3>. QED  BY <1>2, <1>3, <2>1, <2>2, <3>1, CompareOutcome
  <2>4. OfStrcmp("zen4_page", o, vecs)
    BY <1>2, <1>3, AlignmentKept DEF OfStrcmp
  <2>. QED  BY <1>2, <1>3, <1>4, <2>3, <2>4, StrcmpFound, StrcmpPasses
<1>6. CASE ~(o <= size)
  <2>1. Passed("zen4_page", offset)
    BY <1>3, <1>6 DEF RampZen4, GoOn, Passed, Goes
  <2>2. Rank' < Rank
    BY <1>1, <2>1 DEF Rank, Passed, Goes
  <2>3. OfStrcmp("zen4_page", offset, vecs)
    BY <1>2 DEF OfStrcmp
  <2>. QED  BY <1>2, <1>4, <2>1, <2>2, <2>3, StrcmpPasses
<1>. QED  BY <1>5, <1>6

\* Nothing behind the first stop, or behind size, is looked at.
LEMMA BoundIs ==
  ASSUME Stops, NEW o \in Nat, o <= first, o < size, NEW s \in Nat
  PROVE  Bound \in Nat /\ o <= Bound /\ PageOf(s + o) <= PageOf(s + Bound)
<1>1. Bound \in Nat /\ o <= Bound
  BY DEF Bound, Stops
<1>2. (s + o) \div PAGE_SZ <= (s + Bound) \div PAGE_SZ
  BY <1>1, Sizes, DivMonotone
<1>. QED  BY <1>1, <1>2 DEF PageOf

LEMMA PageZen4Holds ==
  ASSUME IInv, hay' = hay, PageZen4
  PROVE  IInv' /\ Advances
<1> DEFINE v == SafeBytes(offset) \div ZMM_SZ
<1>1. /\ pc = "zen4_page" /\ offset < size /\ ZMM_SZ <= SafeBytes(offset)
      /\ Goes("zen4_vecs", offset, v)
  BY DEF PageZen4, Goes
<1>2. /\ Stops /\ offset \in Nat /\ offset <= first /\ first \in Nat
      /\ str1 \in Nat /\ str2 \in Nat /\ pc # "done" /\ size \in Nat
      /\ routine \in Zen4Strcmps /\ routine \in Strcmps /\ 0 < size /\ Vec = ZMM_SZ
      /\ SameAlignment => BothAligned(offset)
  BY <1>1, InZen4
<1>3. /\ SafeBytes(offset) \in 1 .. PAGE_SZ
      /\ \A s \in Both : SafeBytes(offset) <= LeftInPage(s + offset)
  BY <1>2, SafeBytesAre DEF Both
<1>4. /\ v \in Nat /\ v * ZMM_SZ <= SafeBytes(offset) /\ v <= PAGE_SZ \div YMM_SZ
      /\ 0 < v
  BY <1>1, <1>3, VecsCounted
<1>. HIDE DEF v
<1>5. ASSUME NEW s \in Both
      PROVE  VecsInPage(s, offset, v) /\ PageOf(s + offset) <= PageOf(s + Bound)
  <2>1. s \in Nat
    BY <1>2 DEF Both
  <2>2. LeftInPage(s + offset) \in Nat /\ SafeBytes(offset) <= LeftInPage(s + offset)
    BY <1>2, <1>3, <2>1, LeftInPageIs
  <2>3. VecsInPage(s, offset, v)
    BY <1>2, <1>3, <1>4, <2>2, Sizes DEF VecsInPage
  <2>. QED  BY <1>1, <1>2, <2>1, <2>3, BoundIs
<1>6. OfStrcmp("zen4_vecs", offset, v) /\ "zen4_vecs" \in StrcmpLoops
  BY <1>2, <1>5 DEF OfStrcmp, StrcmpLoops
<1>7. Rank' < Rank
  BY <1>1, <1>4 DEF Rank, Goes
<1>. QED  BY <1>1, <1>2, <1>4, <1>6, <1>7, StrcmpGoesOn

LEMMA CrossPageZen4Holds ==
  ASSUME IInv, hay' = hay, CrossPageZen4
  PROVE  IInv' /\ Advances
<1> DEFINE n == SafeBytes(offset)
<1>1. /\ pc = "zen4_page" /\ n < ZMM_SZ
      /\ CompareOrGoOn(Vecs(offset, 1, n), {}, 0, "zen4_page", offset + n)
  BY DEF CrossPageZen4
<1>2. /\ Stops /\ offset \in Nat /\ offset <= first /\ first \in Nat
      /\ str1 \in Nat /\ str2 \in Nat /\ pc # "done" /\ size \in Nat
      /\ routine \in Zen4Strcmps /\ routine \in Strcmps /\ 0 < size /\ Vec = ZMM_SZ
      /\ SameAlignment => BothAligned(offset)
  BY <1>1, InZen4
<1>3. n \in 1 .. PAGE_SZ /\ \E s \in {str1, str2} : n = LeftInPage(s + offset)
  BY <1>2, SafeBytesAre
<1>4. ~SameAlignment
  <2>. SUFFICES ASSUME SameAlignment  PROVE FALSE
    OBVIOUS
  <2>1. PICK s \in {str1, str2} : n = LeftInPage(s + offset)
    BY <1>3
  <2>2. (s + offset) % ZMM_SZ = 0 /\ s + offset \in Int
    BY <1>2 DEF BothAligned
  <2>3. ZMM_SZ - ((s + offset) % ZMM_SZ) <= LeftInPage(s + offset)
    BY <2>2, Sizes, SizesDivide, LeftForRegister
  <2>. QED  BY <1>1, <1>3, <2>1, <2>2, <2>3, Sizes
<1>. HIDE DEF n
<1>5. PICK o \in Nat : o = offset + n /\ offset < o
  BY <1>2, <1>3
<1>6. Covers(Vecs(offset, 1, n), offset, o)
  BY <1>2, <1>3, <1>5, VecsCover
<1>7. Found \/ (o <= first /\ Passed("zen4_page", o))
  <2>1. ~(size <= 0)
    BY <1>2
  <2>. QED  BY <1>1, <1>2, <1>5, <1>6, <2>1, CompareOutcome
<1>8. OfStrcmp("zen4_page", o, vecs) /\ "zen4_page" \in StrcmpLoops
  BY <1>2, <1>4 DEF OfStrcmp, StrcmpLoops
<1>. QED  BY <1>2, <1>5, <1>7, <1>8, StrcmpFound, StrcmpPasses

LEMMA ReachSizeZen4Holds ==
  ASSUME IInv, hay' = hay, ReachSizeZen4
  PROVE  IInv' /\ Advances
<1>1. pc = "zen4_page" /\ size <= offset /\ Compared(NONE)
  BY DEF ReachSizeZen4
<1>2. Stops /\ offset \in Nat /\ offset <= first /\ routine \in Strcmps
  BY <1>1, InZen4
<1>. QED  BY <1>1, <1>2, NoneLeft, StrcmpFound

LEMMA VecsZen4Holds ==
  ASSUME IInv, hay' = hay, VecsZen4
  PROVE  IInv' /\ Advances
<1>1. pc = "zen4_vecs" /\ 0 < vecs
  BY DEF VecsZen4
<1>2. /\ Stops /\ offset \in Nat /\ offset <= first /\ first \in Nat
      /\ str1 \in Nat /\ str2 \in Nat /\ pc # "done" /\ size \in Nat /\ ret = NONE
      /\ routine \in Zen4Strcmps /\ routine \in Strcmps /\ 0 < size /\ Vec = ZMM_SZ
      /\ SameAlignment => BothAligned(offset)
      /\ vecs \in Nat /\ vecs <= PAGE_SZ \div YMM_SZ
      /\ \A s \in Both : VecsInPage(s, offset, vecs) /\ PageOf(s + offset) <= PageOf(s + Bound)
  BY <1>1, InZen4 DEF OfStrcmp
<1>3. PICK k \in {1, 4} : k = IF vecs >= 4 THEN 4 ELSE 1
  OBVIOUS
<1>4. k \in Nat /\ k > 0 /\ k <= 4 /\ k <= vecs
  BY <1>1, <1>2, <1>3
<1> DEFINE R == Vecs(offset, k, ZMM_SZ)
<1>5. PICK i : i = FirstHit(R)
  OBVIOUS
<1>6. PICK o \in Nat : o = offset + k * Vec /\ offset < o /\ o <= first + PAGE_SZ
  <2>1. k * Vec >= Vec /\ k * Vec <= 4 * Vec
    BY <1>4, Sizes
  <2>. QED  BY <1>2, <1>4, <2>1, Sizes
<1>7. PICK v \in Nat : v = vecs - k /\ v <= PAGE_SZ \div YMM_SZ
  <2>1. PAGE_SZ \div YMM_SZ \in Int
    BY Sizes, DivMod
  <2>. QED  BY <1>2, <1>4, <2>1
<1>8. /\ i # 0 => AtStop(Tzcnt(R[i])) = AtStop(first)
      /\ i = 0 => o <= first
  BY <1>2, <1>4, <1>5, <1>6, Sizes, VecsTell
<1>9. /\ ret' = (IF i # 0 THEN AtStop(Tzcnt(R[i])) ELSE ret)
      /\ pc' = (IF i # 0 THEN "done" ELSE pc)
      /\ offset' = o /\ vecs' = v /\ call' = call
  BY <1>2, <1>3, <1>5, <1>6, <1>7 DEF VecsZen4
<1>. HIDE DEF R
<1>10. CASE i # 0
  <2>1. Ends(o, v) /\ ret' = AtStop(first)
    BY <1>8, <1>9, <1>10 DEF Ends
  <2>2. routine \notin Strspns /\ routine \notin Strstrs
    BY <1>2, Families
  <2>. QED  BY <1>6, <1>7, <2>1, <2>2, EndsHolds
<1>11. CASE i = 0
  <2>1. Goes(pc, o, v)
    BY <1>9, <1>11 DEF Goes
  <2>2. SameAlignment => BothAligned(o)
    BY <1>2, <1>4, <1>6, AlignmentKept
  <2>3. ASSUME NEW s \in Both, 0 < v
        PROVE  VecsInPage(s, o, v) /\ PageOf(s + o) <= PageOf(s + Bound)
    <3>1. s \in Nat /\ k < vecs
      BY <1>2, <1>4, <1>7, <2>3 DEF Both
    <3>. QED  BY <1>2, <1>4, <1>6, <1>7, <3>1, VecsLeft
  <2>4. OfStrcmp(pc, o, v) /\ pc \in StrcmpLoops
    BY <1>1, <1>2, <2>2, <2>3 DEF OfStrcmp, StrcmpLoops
  <2>. QED  BY <1>2, <1>6, <1>7, <1>8, <1>11, <2>1, <2>4, StrcmpGoesOn
<1>. QED  BY <1>10, <1>11

LEMMA LeaveVecsZen4Holds ==
  ASSUME IInv, hay' = hay, LeaveVecsZen4
  PROVE  IInv' /\ Advances
<1>1. pc = "zen4_vecs" /\ vecs = 0 /\ Passed("zen4_page", offset)
  BY DEF LeaveVecsZen4, GoOn, Passed, Goes
<1>2. /\ offset \in Nat /\ offset <= first /\ pc # "done"
      /\ routine \in Zen4Strcmps /\ routine \in Strcmps /\ 0 < size
      /\ SameAlignment => BothAligned(offset)
  BY <1>1, InZen4
<1>3. Rank' < Rank
  BY <1>1 DEF Rank, Passed, Goes
<1>4. OfStrcmp("zen4_page", offset, vecs) /\ "zen4_page" \in StrcmpLoops
  BY <1>2 DEF OfStrcmp, StrcmpLoops
<1>. QED  BY <1>1, <1>2, <1>3, <1>4, StrcmpPasses

LEMMA StepStrcmpHolds ==
  ASSUME IInv, hay' = hay, StepStrcmp
  PROVE  IInv' /\ Advances
BY StartEmptyHolds, StartNearAvx2Holds, StartVeryNearAvx2Holds, StartAvx2Holds,
   StartNearAvx512Holds, StartAvx512Holds, LockstepHolds, EnterChunkHolds, Chunk4Holds,
   LeaveChunk4Holds, Chunk1Holds, CrossPageHolds, StartZen4Holds, RampZen4Holds,
   PageZen4Holds, CrossPageZen4Holds, ReachSizeZen4Holds, VecsZen4Holds, LeaveVecsZen4Holds
DEF StepStrcmp

-----------------------------------------------------------------------------
(***************************************************************************)
(* strlen, strnlen, strchr and memchr.                                     *)
(***************************************************************************)
LEMMA ModUnique ==
  ASSUME NEW y \in Int, NEW q \in Int, NEW p \in Nat, p > 0, NEW r \in 0 .. p - 1, y = p * q + r
  PROVE  y % p = r
<1>1. y \div p = q
  BY DivUnique
<1>2. y = p * (y \div p) + (y % p) /\ y % p \in Int
  BY DivMod
<1>. QED  BY <1>1, <1>2

\* The half of a pair that an address lies in.
LEMMA HalfOf ==
  ASSUME NEW x \in Int, NEW v \in Nat, v > 0, NEW w \in Nat, w = 2 * v
  PROVE  x % v = IF x % w < v THEN x % w ELSE (x % w) - v
<1>1. w > 0
  OBVIOUS
<1>2. PICK q \in Int, r \in 0 .. w - 1 : q = x \div w /\ r = x % w /\ x = w * q + r
  BY <1>1, DivMod
<1>3. PICK a \in Int : a = 2 * q /\ w * q = v * a
  BY <1>1, <1>2
<1>4. CASE r < v
  <2>1. r \in 0 .. v - 1 /\ x = v * a + r
    BY <1>2, <1>3, <1>4
  <2>. QED  BY <1>1, <1>2, <1>4, <2>1, ModUnique
<1>5. CASE ~(r < v)
  <2>1. PICK s \in 0 .. v - 1 : s = r - v
    BY <1>1, <1>2, <1>5
  <2>2. PICK b \in Int : b = a + 1 /\ x = v * b + s
    BY <1>2, <1>3, <2>1
  <2>3. x % v = r - v
    BY <2>1, <2>2, ModUnique
  <2>. QED  BY <1>1, <1>2, <1>5, <2>3
<1>. QED  BY <1>4, <1>5

ScanLoops ==
  {"scan_line", "scan_pair", "scan_vecs", "scan_groups", "memchr_rest", "memchr_loop",
   "memchr_tail"}

LEMMA ScanGoesOn ==
  ASSUME IInv, hay' = hay, pc # "done", routine \in Scans,
         NEW p \in ScanLoops, NEW o \in Nat, o <= first, Passed(p, o), OfScan(p, o),
         offset < o \/ (offset = o /\ Rank' < Rank)
  PROVE  IInv' /\ Advances
<1>1. Reached(p, o, vecs)
  BY Families
  DEF Reached, OfMemcmp, OfStrcmp, OfStrspn, OfStrstr, Loops, ScanLoops, IInv
<1>. QED  BY <1>1, GoesHolds DEF Passed

LEMMA ScanFound ==
  ASSUME IInv, hay' = hay, routine \in Scans, Found
  PROVE  IInv' /\ Advances
BY FoundHolds, FoundIsInt, Families

LEMMA LeadingIs ==
  ASSUME CallInv
  PROVE  /\ Leading \in 0 .. ScanVec - 1 /\ Trailing \in 1 .. ScanVec
         /\ Trailing = ScanVec - Leading /\ (str1 + Trailing) % ScanVec = 0
BY Sizes, RoundedUp, DivMod DEF Leading, Trailing, CallInv

LEMMA StartedScan ==
  ASSUME IInv, NEW S, Called(S), S \subseteq Scans
  PROVE  /\ CallInv /\ Stops /\ routine \in S /\ routine \in Scans /\ pc = "start" /\ pc # "done"
         /\ offset = 0 /\ size \in Nat /\ first \in Nat
         /\ Leading \in 0 .. ScanVec - 1 /\ Trailing \in 1 .. ScanVec
         /\ Trailing = ScanVec - Leading /\ (str1 + Trailing) % ScanVec = 0
BY Started, LeadingIs

LEMMA InScan ==
  ASSUME IInv, pc \in ScanLoops
  PROVE  /\ CallInv /\ Stops /\ offset \in Nat /\ offset <= first /\ size \in Nat /\ first \in Nat
         /\ str1 \in Nat /\ pc # "done" /\ OfScan(pc, offset)
         /\ Leading \in 0 .. ScanVec - 1 /\ Trailing \in 1 .. ScanVec
         /\ Trailing = ScanVec - Leading /\ (str1 + Trailing) % ScanVec = 0
BY Looping, LeadingIs DEF ScanLoops, CallInv

LEMMA ScanFamilies ==
  /\ Avx2Scans \subseteq Scans /\ Avx512Scans \subseteq Scans /\ Memchrs \subseteq Scans
  /\ Avx2Memchrs \subseteq Memchrs /\ Avx512Memchrs \subseteq Memchrs
  /\ routine \in Avx2Scans \cup Avx2Memchrs => ScanVec = YMM_SZ
  /\ routine \in Avx512Scans \cup Avx512Memchrs => ScanVec = ZMM_SZ
  /\ Memchrs \cap (Avx2Scans \cup Avx512Scans) = {}
  /\ Avx2Memchrs \cap Avx512Memchrs = {} /\ Avx2Scans \cap Avx512Scans = {}
BY DEF Scans, Avx2Scans, Avx512Scans, Memchrs, Avx2Memchrs, Avx512Memchrs, ScanVec

LEMMA ScanNothingHolds ==
  ASSUME IInv, hay' = hay, ScanNothing
  PROVE  IInv' /\ Advances
<1>1. /\ Stops /\ routine \in Scans /\ offset = 0 /\ first \in Nat /\ size <= offset
      /\ Compared(NONE)
  BY StartedScan DEF ScanNothing, NothingLeft
<1>. QED  BY <1>1, NoneLeft, ScanFound

\* Vectors that size reaches the end of.
LEMMA ScanVectors ==
  ASSUME IInv, hay' = hay, pc \in ScanLoops, routine \in Scans, NEW k \in 1 .. 4,
         NEW o, o = offset + k * ScanVec, o <= size, NEW al, NEW p \in ScanLoops,
         FindOrGoOn(Vecs(offset, k, ScanVec), al, p, o), OfScan(p, o)
  PROVE  IInv' /\ Advances
<1>1. /\ Stops /\ offset \in Nat /\ offset <= first /\ size \in Nat /\ first \in Nat /\ pc # "done"
  BY InScan
<1>2. o \in Nat /\ offset < o
  BY <1>1, Sizes, MultipleAtLeast
<1>3. Covers(Vecs(offset, k, ScanVec), offset, o)
  BY <1>1, <1>2, Sizes, VecsCover
<1>4. HitsCount(Vecs(offset, k, ScanVec))
  BY <1>1, Sizes, VecsHit
<1>5. Found \/ (o <= first /\ Passed(p, o))
  BY <1>1, <1>2, <1>3, <1>4, FindOutcome
<1>. QED  BY <1>1, <1>2, <1>5, ScanFound, ScanGoesOn

-----------------------------------------------------------------------------
LEMMA StartScanAtPageEndAvx2Holds ==
  ASSUME IInv, hay' = hay, StartScanAtPageEndAvx2
  PROVE  IInv' /\ Advances
<1> DEFINE k == IF Trailing < size /\ size <= YMM_SZ THEN 2 ELSE 1
           R == Vecs(-Leading, k, YMM_SZ)
<1>1. /\ Stops /\ routine \in Avx2Scans /\ routine \in Scans /\ pc # "done" /\ ScanVec = YMM_SZ
      /\ offset = 0 /\ size \in Nat /\ first \in Nat
      /\ Leading \in 0 .. YMM_SZ - 1 /\ Trailing \in 1 .. YMM_SZ /\ Trailing = YMM_SZ - Leading
      /\ CompareOrGoOn(R, {}, YMM_SZ, "scan_line", Trailing)
  BY StartedScan, ScanFamilies DEF StartScanAtPageEndAvx2
<1>2. PICK e \in Nat : e = Trailing + (k - 1) * YMM_SZ
  BY <1>1, Sizes
<1>3. -Leading \in Int /\ -Leading <= 0 /\ e = -Leading + k * YMM_SZ
  BY <1>1, <1>2, Sizes
<1>4. Covers(R, 0, e)
  BY <1>1, <1>3, Sizes, VecsCover
<1>5. (size <= YMM_SZ => size <= e) /\ Trailing <= e
  BY <1>1, <1>2, Sizes
<1>. HIDE DEF k, R
<1>6. Found \/ (Trailing <= first /\ Passed("scan_line", Trailing))
  BY <1>1, <1>4, <1>5, Sizes, CompareOutcome
<1>7. pc' = "scan_line" => YMM_SZ < size
  BY <1>1, Sizes DEF CompareOrGoOn, Compared
<1>8. YMM_SZ < size => OfScan("scan_line", Trailing) /\ "scan_line" \in ScanLoops
  BY <1>1 DEF OfScan, ScanLoops
<1>. QED  BY <1>1, <1>6, <1>7, <1>8, ScanFound, ScanGoesOn DEF Passed, Goes

LEMMA StartScanAvx2Holds ==
  ASSUME IInv, hay' = hay, StartScanAvx2
  PROVE  IInv' /\ Advances
<1>1. /\ Stops /\ routine \in Avx2Scans /\ routine \in Scans /\ pc # "done"
      /\ offset = 0 /\ size \in Nat /\ first \in Nat /\ Trailing \in 1 .. YMM_SZ
      /\ CompareOrGoOn(Vecs(0, 1, YMM_SZ), {}, YMM_SZ, "scan_line", Trailing)
  BY StartedScan, ScanFamilies DEF StartScanAvx2
<1>2. Covers(Vecs(0, 1, YMM_SZ), 0, YMM_SZ)
  BY Sizes, VecsCover
<1>3. Found \/ (YMM_SZ <= first /\ Passed("scan_line", Trailing))
  BY <1>1, <1>2, Sizes, CompareOutcome
<1>4. pc' = "scan_line" => YMM_SZ < size
  BY <1>1, Sizes DEF CompareOrGoOn, Compared
<1>5. YMM_SZ < size => OfScan("scan_line", Trailing) /\ "scan_line" \in ScanLoops
  BY <1>1 DEF OfScan, ScanLoops
<1>. QED  BY <1>1, <1>3, <1>4, <1>5, Sizes, ScanFound, ScanGoesOn DEF Passed, Goes

LEMMA LineAvx2Holds ==
  ASSUME IInv, hay' = hay, LineAvx2
  PROVE  IInv' /\ Advances
<1> DEFINE m == str1 % (2 * YMM_SZ)
<1>0. pc = "scan_line" /\ pc \in ScanLoops
  BY DEF LineAvx2, ScanLoops
<1>1. /\ Stops /\ offset \in Nat /\ offset <= first /\ size \in Nat /\ first \in Nat /\ pc # "done"
      /\ routine \in Avx2Scans /\ routine \in Scans /\ offset = Trailing
      /\ ScanVec = YMM_SZ /\ Trailing = YMM_SZ - Leading /\ str1 \in Nat
  BY <1>0, InScan, ScanFamilies DEF OfScan
<1>2. Leading = (IF m < YMM_SZ THEN m ELSE m - YMM_SZ) /\ m \in Int
  <2>1. PICK v \in Nat, w \in Nat : v = YMM_SZ /\ v > 0 /\ w = 2 * v /\ w > 0
    BY Sizes
  <2>2. str1 % w \in Int
    BY <1>1, <2>1, DivMod
  <2>3. str1 % v = IF str1 % w < v THEN str1 % w ELSE (str1 % w) - v
    <3>. HIDE DEF m
    <3>1. str1 \in Int /\ v > 0 /\ w = 2 * v
      BY <1>1, <2>1
    <3>. QED  BY <3>1, HalfOf
  <2>. QED  BY <1>1, <2>1, <2>2, <2>3 DEF Leading
<1>3. "scan_pair" \in ScanLoops
  BY DEF ScanLoops
<1>4. CASE LowerHalf(YMM_SZ)
  <2>1. PICK o \in Nat : o = offset + YMM_SZ /\ offset < o
    BY <1>1, Sizes
  <2>2. o = 2 * YMM_SZ - m
    BY <1>1, <1>2, <1>4, <2>1, Sizes DEF LowerHalf
  <2>3. Covers(Vecs(offset, 1, YMM_SZ), offset, o)
    BY <1>1, <2>1, Sizes, VecsCover
  <2>4. PICK al : CompareOrGoOn(Vecs(offset, 1, YMM_SZ), al, o - 1, "scan_pair", o)
    BY <1>1, <1>4, <2>1, Sizes DEF LineAvx2
  <2>5. Found \/ (o <= first /\ Passed("scan_pair", o))
    BY <1>1, <2>1, <2>3, <2>4, CompareOutcome
  <2>6. OfScan("scan_pair", o)
    BY <1>1, <2>2 DEF OfScan
  <2>. QED  BY <1>1, <1>3, <2>1, <2>5, <2>6, ScanFound, ScanGoesOn
<1>5. CASE ~LowerHalf(YMM_SZ)
  <2>1. Passed("scan_pair", offset)
    BY <1>5 DEF LineAvx2, GoOn, Passed, Goes
  <2>2. offset = 2 * YMM_SZ - m
    BY <1>1, <1>2, <1>5, Sizes DEF LowerHalf
  <2>3. OfScan("scan_pair", offset)
    BY <1>1, <2>2 DEF OfScan
  <2>4. Rank' < Rank
    BY <1>0, <2>1 DEF Rank, Passed, Goes
  <2>. QED  BY <1>1, <1>3, <2>1, <2>3, <2>4, ScanGoesOn
<1>. QED  BY <1>4, <1>5

LEMMA PairAvx2Holds ==
  ASSUME IInv, hay' = hay, PairAvx2
  PROVE  IInv' /\ Advances
<1>1. PICK v \in Nat : v = YMM_SZ /\ v > 0
  BY Sizes
<1>2. PICK w \in Nat : w = 2 * v /\ w > 0 /\ 2 * w = 4 * v
  BY <1>1
<1> DEFINE m == str1 % (2 * w)
<1>3. pc = "scan_pair" /\ pc \in ScanLoops
  BY DEF PairAvx2, ScanLoops
<1>4. /\ Stops /\ offset \in Nat /\ offset <= first /\ size \in Nat /\ first \in Nat /\ pc # "done"
      /\ routine \in Avx2Scans /\ routine \in Scans /\ offset = w - (str1 % w)
      /\ ScanVec = v /\ str1 \in Nat
  BY <1>1, <1>2, <1>3, InScan, ScanFamilies DEF OfScan
<1>5. str1 % w = (IF m < w THEN m ELSE m - w) /\ m \in Int
  <2>1. PICK x \in Nat : x = 2 * w /\ x > 0
    BY <1>2
  <2>2. str1 % x \in Int
    BY <1>4, <2>1, DivMod
  <2>3. str1 % w = IF str1 % x < w THEN str1 % x ELSE (str1 % x) - w
    <3>1. str1 \in Int /\ w > 0
      BY <1>2, <1>4
    <3>. QED  BY <2>1, <3>1, HalfOf
  <2>. QED  BY <2>1, <2>2, <2>3
<1>6. (str1 + (2 * w - m)) % (4 * v) = 0
  <2>1. 2 * w \in Nat /\ 2 * w > 0
    BY <1>2
  <2>. QED  BY <1>2, <1>4, <2>1, RoundedUp
<1>. HIDE DEF m
<1>7. (str1 + offset) % v = 0
  <2>1. (str1 + offset) % w = 0
    BY <1>2, <1>4, RoundedUp
  <2>2. w % v = 0
    BY <1>1, <1>2, MultipleIsAligned
  <2>. QED  BY <1>1, <1>2, <1>4, <2>1, <2>2, AlignedTwice
<1>8. "scan_groups" \in ScanLoops
  BY DEF ScanLoops
<1>9. CASE LowerHalf(2 * YMM_SZ) /\ offset + 2 * YMM_SZ <= size
  <2>1. m < w /\ w = 2 * YMM_SZ
    BY <1>1, <1>2, <1>9 DEF LowerHalf, m
  <2>2. PICK o \in Nat : o = offset + 2 * ScanVec /\ o = offset + 2 * YMM_SZ
    BY <1>1, <1>4
  <2>3. o = 2 * w - m
    BY <1>4, <1>5, <2>1, <2>2
  <2>4. (str1 + o) % (4 * v) = 0 /\ (str1 + o) % v = 0
    <3>1. (str1 + o) % (4 * v) = 0
      BY <1>6, <2>3
    <3>2. PICK x \in Int : x = str1 + o
      BY <1>4
    <3>3. x % v = 0
      BY <1>1, <3>1, <3>2, MultipleOfFour
    <3>. QED  BY <3>1, <3>2, <3>3
  <2>5. OfScan("scan_groups", o)
    BY <1>4, <2>4 DEF OfScan
  <2>6. FindOrGoOn(Vecs(offset, 2, ScanVec), {str1}, "scan_groups", o)
    BY <1>1, <1>4, <1>9, <2>2 DEF PairAvx2
  <2>. QED  BY <1>3, <1>4, <1>8, <1>9, <2>2, <2>5, <2>6, ScanVectors
<1>10. CASE ~(LowerHalf(2 * YMM_SZ) /\ offset + 2 * YMM_SZ <= size)
  <2>1. Passed("scan_groups", offset)
    BY <1>10 DEF PairAvx2, GoOn, Passed, Goes
  <2>2. (str1 + offset) % (4 * v) = 0 \/ size < offset + 4 * v
    <3>1. CASE ~LowerHalf(2 * YMM_SZ)
      <4>1. ~(m < w)
        BY <1>1, <1>2, <3>1 DEF LowerHalf, m
      <4>2. offset = 2 * w - m
        BY <1>4, <1>5, <4>1
      <4>. QED  BY <1>6, <4>2
    <3>2. CASE ~(offset + 2 * YMM_SZ <= size)
      BY <1>1, <1>4, <3>2
    <3>. QED  BY <1>10, <3>1, <3>2
  <2>3. OfScan("scan_groups", offset)
    BY <1>4, <1>7, <2>2 DEF OfScan
  <2>4. Rank' < Rank
    BY <1>3, <2>1 DEF Rank, Passed, Goes
  <2>. QED  BY <1>4, <1>8, <2>1, <2>3, <2>4, ScanGoesOn
<1>. QED  BY <1>9, <1>10

LEMMA GroupHolds ==
  ASSUME IInv, hay' = hay, GroupAvx2 \/ GroupAvx512
  PROVE  IInv' /\ Advances
<1>1. pc = "scan_groups" /\ pc \in ScanLoops /\ routine \in Avx2Scans \cup Avx512Scans
  BY DEF GroupAvx2, GroupAvx512, ScanLoops
<1>2. PICK v \in Nat : v = ScanVec /\ v > 0
  BY Sizes
<1>3. /\ offset \in Nat /\ size \in Nat /\ routine \in Scans /\ str1 \in Nat
      /\ (str1 + offset) % (4 * v) = 0 \/ size < offset + 4 * v
      /\ (str1 + offset) % v = 0
  BY <1>1, <1>2, InScan, ScanFamilies DEF OfScan
<1>4. PICK o \in Nat : o = offset + 4 * v
  BY <1>2, <1>3
<1>5. o <= size /\ FindOrGoOn(Vecs(offset, 4, v), {str1}, pc, o)
  BY <1>2, <1>4, ScanFamilies DEF GroupAvx2, GroupAvx512
<1>6. (str1 + o) % (4 * v) = 0 /\ (str1 + o) % v = 0
  <2>1. PICK x \in Nat, w \in Nat : x = str1 + offset /\ w = 4 * v /\ w > 0 /\ x + w = str1 + o
    BY <1>2, <1>3, <1>4
  <2>2. x % w = 0
    BY <1>3, <1>4, <1>5, <2>1
  <2>. QED  BY <1>2, <1>3, <2>1, <2>2, AlignedNext, AlignedFourOn
<1>7. OfScan(pc, o)
  BY <1>1, <1>2, <1>6 DEF OfScan
<1>. QED  BY <1>1, <1>2, <1>3, <1>4, <1>5, <1>7, ScanVectors

LEMMA LastScanAvx2Holds ==
  ASSUME IInv, hay' = hay, LastScanAvx2
  PROVE  IInv' /\ Advances
<1>1. /\ pc = "scan_groups" /\ pc \in ScanLoops /\ routine \in Avx2Scans
      /\ size < offset + 4 * YMM_SZ
  BY DEF LastScanAvx2, ScanLoops
<1>2. /\ offset \in Nat /\ offset <= first /\ size \in Nat /\ routine \in Scans /\ str1 \in Nat
      /\ Stops /\ (str1 + offset) % YMM_SZ = 0 /\ ScanVec = YMM_SZ /\ pc # "done" /\ first \in Nat
  BY <1>1, InScan, ScanFamilies DEF OfScan
<1>3. CASE offset < size
  <2>1. PICK o \in Nat : o = offset + YMM_SZ /\ offset < o
    BY <1>2, Sizes
  <2>2. Covers(Vecs(offset, 1, YMM_SZ), offset, o)
    BY <1>2, <2>1, Sizes, VecsCover
  <2>3. CompareOrGoOn(Vecs(offset, 1, YMM_SZ), {}, o, pc, o)
    BY <1>3, <2>1 DEF LastScanAvx2
  <2>4. Found \/ (o <= first /\ Passed(pc, o))
    BY <1>2, <2>1, <2>2, <2>3, CompareOutcome
  <2>5. (str1 + o) % YMM_SZ = 0
    <3>1. PICK x \in Nat : x = str1 + offset /\ x + YMM_SZ = str1 + o
      BY <1>2, <2>1, Sizes
    <3>. QED  BY <1>2, <3>1, Sizes, AlignedNext
  <2>6. OfScan(pc, o)
    <3>1. size < o + 4 * YMM_SZ
      BY <1>1, <1>2, <2>1, Sizes
    <3>. QED  BY <1>1, <1>2, <2>5, <3>1 DEF OfScan
  <2>. QED  BY <1>1, <1>2, <2>1, <2>4, <2>6, ScanFound, ScanGoesOn
<1>4. CASE ~(offset < size)
  <2>1. size <= offset /\ Compared(NONE)
    BY <1>2, <1>4 DEF LastScanAvx2, NothingLeft
  <2>. QED  BY <1>2, <2>1, NoneLeft, ScanFound
<1>. QED  BY <1>3, <1>4

-----------------------------------------------------------------------------
\* cnt_vec counts up to a group of four behind seven vectors.
LEMMA CountEndIs ==
  ASSUME str1 \in Nat, Trailing \in 1 .. ZMM_SZ
  PROVE  CountEnd \in Nat /\ Trailing <= CountEnd /\ (str1 + CountEnd) % (4 * ZMM_SZ) = 0
<1>1. PICK w \in Nat, x \in Nat, s \in Nat :
        w = 4 * ZMM_SZ /\ w > 0 /\ s = Trailing + 7 * ZMM_SZ /\ x = str1 + s
  BY Sizes
<1>2. (x + (w - (x % w))) % w = 0 /\ w - (x % w) \in 1 .. w /\ x % w \in Int
  BY <1>1, RoundedUp, DivMod
<1>3. CountEnd = s + w - (x % w)
  BY <1>1 DEF CountEnd
<1>4. x + (w - (x % w)) = str1 + CountEnd
  BY <1>1, <1>2, <1>3
<1>. QED  BY <1>1, <1>2, <1>3, <1>4, Sizes

LEMMA EnterVectors ==
  ASSUME IInv, hay' = hay, pc = "start", routine \in Avx512Scans,
         Trailing <= first, Passed("scan_vecs", Trailing)
  PROVE  IInv' /\ Advances
<1>1. /\ CallInv /\ offset = 0 /\ pc # "done" /\ routine \in Scans /\ ScanVec = ZMM_SZ
      /\ str1 \in Nat
  BY ScanFamilies DEF IInv, Reached, CallInv
<1>2. Trailing \in 1 .. ZMM_SZ /\ (str1 + Trailing) % ScanVec = 0
  BY <1>1, LeadingIs
<1>3. Trailing <= CountEnd
  BY <1>1, <1>2, CountEndIs
<1>4. OfScan("scan_vecs", Trailing) /\ "scan_vecs" \in ScanLoops
  BY <1>2, <1>3 DEF OfScan, ScanLoops
<1>5. Trailing \in Nat /\ offset < Trailing
  BY <1>1, <1>2
<1>. QED  BY <1>1, <1>4, <1>5, ScanGoesOn

LEMMA StartScanAtPageEndAvx512Holds ==
  ASSUME IInv, hay' = hay, StartScanAtPageEndAvx512
  PROVE  IInv' /\ Advances
<1> DEFINE safe_bytes == Min({Trailing, size})
           n == Min({Trailing, safe_bytes + Leading})
<1>1. /\ Stops /\ routine \in Avx512Scans /\ routine \in Scans /\ pc = "start"
      /\ size \in Nat /\ first \in Nat /\ ScanVec = ZMM_SZ
      /\ Leading \in 0 .. ZMM_SZ - 1 /\ Trailing \in 1 .. ZMM_SZ
      /\ CompareOrGoOn(Vecs(0, 1, n), {}, Trailing, "scan_vecs", Trailing)
  BY StartedScan, ScanFamilies DEF StartScanAtPageEndAvx512
<1>2. safe_bytes = (IF Trailing < size THEN Trailing ELSE size)
  BY <1>1, MinOfTwo
<1>. HIDE DEF safe_bytes
<1>3. n = (IF Trailing < safe_bytes + Leading THEN Trailing ELSE safe_bytes + Leading)
  BY <1>1, <1>2, MinOfTwo
<1>. HIDE DEF n
<1>4. n \in Nat /\ (size <= Trailing => size <= n) /\ (Trailing < size => n = Trailing)
  BY <1>1, <1>2, <1>3
<1>5. Covers(Vecs(0, 1, n), 0, n)
  BY <1>4, VecsCover
<1>6. Found \/ (Trailing <= first /\ Passed("scan_vecs", Trailing))
  BY <1>1, <1>4, <1>5, CompareOutcome
<1>. QED  BY <1>1, <1>6, ScanFound, EnterVectors

LEMMA StartScanAvx512Holds ==
  ASSUME IInv, hay' = hay, StartScanAvx512
  PROVE  IInv' /\ Advances
<1> DEFINE n == Min({size, ZMM_SZ})
           c == IF size < ZMM_SZ THEN size ELSE Trailing
<1>1. /\ Stops /\ routine \in Avx512Scans /\ routine \in Scans /\ pc = "start"
      /\ size \in Nat /\ first \in Nat /\ Trailing \in 1 .. ZMM_SZ
      /\ CompareOrGoOn(Vecs(0, 1, n), {}, c, "scan_vecs", Trailing)
  BY StartedScan, ScanFamilies DEF StartScanAvx512
<1>2. n = (IF size < ZMM_SZ THEN size ELSE ZMM_SZ)
  BY <1>1, Sizes, MinOfTwo
<1>. HIDE DEF n
<1>3. n \in Nat /\ c \in Int /\ (size <= c => size <= n) /\ (c < size => Trailing <= n)
  BY <1>1, <1>2, Sizes
<1>. HIDE DEF c
<1>4. Covers(Vecs(0, 1, n), 0, n)
  BY <1>3, VecsCover
<1>5. Found \/ (n <= first /\ c < size /\ Passed("scan_vecs", Trailing))
  BY <1>1, <1>3, <1>4, CompareOutcome
<1>. QED  BY <1>1, <1>3, <1>5, ScanFound, EnterVectors

LEMMA VectorsAvx512Hold ==
  ASSUME IInv, hay' = hay, VectorAvx512 \/ LeaveVectorsAvx512
  PROVE  IInv' /\ Advances
<1>1. pc = "scan_vecs" /\ pc \in ScanLoops
  BY DEF VectorAvx512, LeaveVectorsAvx512, ScanLoops
<1>2. /\ offset \in Nat /\ offset <= first /\ size \in Nat /\ str1 \in Nat /\ pc # "done"
      /\ routine \in Avx512Scans /\ routine \in Scans /\ ScanVec = ZMM_SZ
      /\ offset <= CountEnd /\ (str1 + offset) % ZMM_SZ = 0
      /\ Trailing \in 1 .. ZMM_SZ
  BY <1>1, InScan, ScanFamilies DEF OfScan
<1>3. PICK e \in Nat : e = CountEnd /\ (str1 + e) % (4 * ZMM_SZ) = 0
  BY <1>2, CountEndIs
<1>4. CASE VectorAvx512
  <2>1. PICK o \in Nat : o = offset + 1 * ScanVec /\ o = offset + ZMM_SZ
    BY <1>2, Sizes
  <2>2. PICK x \in Nat, y \in Nat : x = str1 + offset /\ y = str1 + e
    BY <1>2, <1>3
  <2>3. x + ZMM_SZ <= y
    <3>1. PICK z \in Nat : z = ZMM_SZ /\ z > 0
      BY Sizes
    <3>2. x % z = 0 /\ y % (4 * z) = 0
      BY <1>2, <1>3, <2>2, <3>1
    <3>3. y % z = 0
      <4>1. y \in Int /\ z > 0 /\ y % (4 * z) = 0
        BY <3>1, <3>2
      <4>. QED  BY <4>1, MultipleOfFour
    <3>4. x < y
      BY <1>2, <1>3, <1>4, <2>2 DEF VectorAvx512
    <3>5. x + z <= y
      BY <3>1, <3>2, <3>3, <3>4, AlignedGap
    <3>. QED  BY <3>1, <3>5
  <2>4. o <= CountEnd
    BY <1>2, <1>3, <2>1, <2>2, <2>3, Sizes
  <2>5. (str1 + o) % ZMM_SZ = 0
    <3>1. x + ZMM_SZ = str1 + o
      BY <1>2, <2>1, <2>2, Sizes
    <3>. QED  BY <1>2, <2>2, <3>1, Sizes, AlignedNext
  <2>6. OfScan(pc, o)
    BY <1>1, <1>2, <2>4, <2>5 DEF OfScan
  <2>7. FindOrGoOn(Vecs(offset, 1, ScanVec), {str1}, pc, o) /\ o <= size
    BY <1>2, <1>4, <2>1 DEF VectorAvx512
  <2>. QED  BY <1>1, <1>2, <2>1, <2>6, <2>7, ScanVectors
<1>5. CASE LeaveVectorsAvx512
  <2>1. Passed("scan_groups", offset)
    BY <1>5 DEF LeaveVectorsAvx512, GoOn, Passed, Goes
  <2>2. (str1 + offset) % (4 * ZMM_SZ) = 0 \/ size < offset + 4 * ZMM_SZ
    <3>1. CASE CountEnd <= offset
      BY <1>2, <1>3, <3>1
    <3>2. CASE size < offset + ZMM_SZ
      BY <1>2, <3>2, Sizes
    <3>. QED  BY <1>5, <3>1, <3>2 DEF LeaveVectorsAvx512
  <2>3. OfScan("scan_groups", offset) /\ "scan_groups" \in ScanLoops
    BY <1>2, <2>2 DEF OfScan, ScanLoops
  <2>4. Rank' < Rank
    BY <1>1, <2>1 DEF Rank, Passed, Goes
  <2>. QED  BY <1>2, <2>1, <2>3, <2>4, ScanGoesOn
<1>. QED  BY <1>4, <1>5

LEMMA LastScanAvx512Holds ==
  ASSUME IInv, hay' = hay, LastScanAvx512
  PROVE  IInv' /\ Advances
<1>1. /\ pc = "scan_groups" /\ pc \in ScanLoops /\ routine \in Avx512Scans
      /\ size < offset + 4 * ZMM_SZ
  BY DEF LastScanAvx512, ScanLoops
<1>2. /\ offset \in Nat /\ offset <= first /\ size \in Nat /\ routine \in Scans /\ str1 \in Nat
      /\ Stops /\ (str1 + offset) % ZMM_SZ = 0 /\ ScanVec = ZMM_SZ /\ pc # "done" /\ first \in Nat
  BY <1>1, InScan, ScanFamilies DEF OfScan
<1>3. CASE offset + ZMM_SZ <= size
  <2>1. PICK o \in Nat : o = offset + 1 * ScanVec /\ o = offset + ZMM_SZ
    BY <1>2, Sizes
  <2>2. (str1 + o) % ZMM_SZ = 0
    <3>1. PICK x \in Nat : x = str1 + offset /\ x + ZMM_SZ = str1 + o
      BY <1>2, <2>1, Sizes
    <3>. QED  BY <1>2, <3>1, Sizes, AlignedNext
  <2>3. OfScan(pc, o)
    <3>1. size < o + 4 * ZMM_SZ
      BY <1>1, <1>2, <2>1, Sizes
    <3>. QED  BY <1>1, <1>2, <2>2, <3>1 DEF OfScan
  <2>4. FindOrGoOn(Vecs(offset, 1, ScanVec), {str1}, pc, o) /\ o <= size
    BY <1>2, <1>3, <2>1 DEF LastScanAvx512
  <2>. QED  BY <1>1, <1>2, <2>1, <2>3, <2>4, ScanVectors
<1>4. CASE ~(offset + ZMM_SZ <= size) /\ offset < size
  <2>1. PICK n \in Nat : n = size - offset
    BY <1>2, <1>4
  <2>2. Covers(Vecs(offset, 1, n), offset, size)
    BY <1>2, <2>1, VecsCover
  <2>3. HitsCount(Vecs(offset, 1, n))
    BY <1>2, <2>1, VecsHit
  <2>4. CompareAndReturn(Vecs(offset, 1, n), {})
    BY <1>4, <2>1 DEF LastScanAvx512
  <2>5. Found
    BY <1>2, <2>2, <2>3, <2>4, ReturnOutcome
  <2>. QED  BY <1>2, <2>5, ScanFound
<1>5. CASE ~(offset + ZMM_SZ <= size) /\ ~(offset < size)
  <2>1. size <= offset /\ Compared(NONE)
    BY <1>2, <1>5 DEF LastScanAvx512, NothingLeft
  <2>. QED  BY <1>2, <2>1, NoneLeft, ScanFound
<1>. QED  BY <1>3, <1>4, <1>5

-----------------------------------------------------------------------------
\* The widest registers for up to a vector, and single bytes where there are none.
LEMMA StrictCover ==
  ASSUME size \in Nat, 0 < size, size <= YMM_SZ,
         NEW T, T = { r \in NarrowRegs : r < YMM_SZ /\ r <= size },
         NEW R, R = IF size <= 3 THEN Vecs(0, size, 1) ELSE EndVecs(size, 1, Max(T))
  PROVE  Covers(R, 0, size) /\ HitsCount(R)
<1>1. CASE size <= 3
  BY <1>1, VecsCover, VecsHit
<1>2. CASE size > 3
  <2>1. NarrowRegs \subseteq Nat /\ \A r \in NarrowRegs : r >= 1
    BY SpanAssumption, Sizes
  <2>2. T \subseteq 0 .. size
    <3>1. \A r \in T : r \in 0 .. size
      BY <2>1
    <3>. QED  BY <3>1
  <2>3. PICK m : m = Max(T)
    OBVIOUS
  <2>4. PICK s \in NarrowRegs : s <= size /\ size <= 2 * s /\ s # size
    BY <1>2, Sizes, RegsAssumption
  <2>5. m \in T /\ s <= m
    <3>1. s \in T
      BY <2>1, <2>4, Sizes
    <3>. QED  BY <2>2, <2>3, <3>1, MaxOfNats
  <2>6. m \in Nat /\ m >= 1 /\ m <= size /\ size <= 2 * m
    BY <2>1, <2>4, <2>5
  <2>7. 1 * m = m
    BY <2>6
  <2>8. Covers(EndVecs(size, 1, m), 0, size) /\ HitsCount(EndVecs(size, 1, m))
    BY <2>6, <2>7, EndsDecide
  <2>. QED  BY <1>2, <2>3, <2>8
<1>. QED  BY <1>1, <1>2

LEMMA SmallMemchrStrictHolds ==
  ASSUME IInv, hay' = hay, SmallMemchrStrict
  PROVE  IInv' /\ Advances
<1> DEFINE T == { r \in NarrowRegs : r < YMM_SZ /\ r <= size }
           R == IF size <= 3 THEN Vecs(0, size, 1) ELSE EndVecs(size, 1, Max(T))
<1>1. /\ Stops /\ routine \in Scans /\ size \in Nat /\ first \in Nat
      /\ 0 < size /\ size <= YMM_SZ /\ CompareAndReturn(R, {})
  BY StartedScan DEF SmallMemchrStrict, Scans, Memchrs, Avx2Memchrs
<1>2. Covers(R, 0, size) /\ HitsCount(R)
  BY <1>1, StrictCover
<1>. HIDE DEF R
<1>3. Found
  BY <1>1, <1>2, ReturnOutcome
<1>. QED  BY <1>1, <1>3, ScanFound

\* The first vector of AVX2's memchr is compared.
LEMMA EnterRest ==
  ASSUME IInv, hay' = hay, pc = "start", routine \in Avx2Memchrs,
         YMM_SZ <= first, YMM_SZ < size, Passed("memchr_rest", 0)
  PROVE  IInv' /\ Advances
<1>1. offset = 0 /\ pc # "done" /\ routine \in Scans /\ first \in Nat
  BY ScanFamilies DEF IInv, Reached, CallInv
<1>2. OfScan("memchr_rest", 0) /\ "memchr_rest" \in ScanLoops
  BY DEF OfScan, ScanLoops
<1>3. Rank' < Rank
  BY <1>1 DEF Rank, Passed, Goes, call
<1>. QED  BY <1>1, <1>2, <1>3, ScanGoesOn

LEMMA StartMemchrAvx2Holds ==
  ASSUME IInv, hay' = hay, StartMemchrAvx2
  PROVE  IInv' /\ Advances
<1>1. /\ Stops /\ routine \in Avx2Memchrs /\ routine \in Scans /\ pc = "start"
      /\ size \in Nat /\ first \in Nat
      /\ CompareOrGoOn(Vecs(0, 1, YMM_SZ), {}, YMM_SZ, "memchr_rest", 0)
  BY StartedScan, ScanFamilies DEF StartMemchrAvx2
<1>2. Covers(Vecs(0, 1, YMM_SZ), 0, YMM_SZ)
  BY Sizes, VecsCover
<1>3. Found \/ (YMM_SZ <= first /\ YMM_SZ < size /\ Passed("memchr_rest", 0))
  BY <1>1, <1>2, Sizes, CompareOutcome
<1>. QED  BY <1>1, <1>3, ScanFound, EnterRest

LEMMA StartMemchrAtPageEndAvx2Holds ==
  ASSUME IInv, hay' = hay, StartMemchrAtPageEndAvx2
  PROVE  IInv' /\ Advances
<1> DEFINE k == IF size <= Trailing THEN 1 ELSE 2
           R == Vecs(-Leading, k, YMM_SZ)
<1>0. {"memchr_avx2"} \subseteq Avx2Memchrs
  BY DEF Avx2Memchrs
<1>1. /\ Stops /\ routine \in Avx2Memchrs /\ routine \in Scans /\ pc = "start" /\ ScanVec = YMM_SZ
      /\ size \in Nat /\ first \in Nat
      /\ Leading \in 0 .. YMM_SZ - 1 /\ Trailing \in 1 .. YMM_SZ /\ Trailing = YMM_SZ - Leading
      /\ CompareOrGoOn(R, {str1}, Trailing + YMM_SZ, "memchr_rest", 0)
  BY <1>0, StartedScan, ScanFamilies DEF StartMemchrAtPageEndAvx2
<1>2. PICK e \in Nat : e = Trailing + (k - 1) * YMM_SZ
  BY <1>1, Sizes
<1>3. -Leading \in Int /\ -Leading <= 0 /\ e = -Leading + k * YMM_SZ
  BY <1>1, <1>2, Sizes
<1>4. Covers(R, 0, e)
  BY <1>1, <1>3, Sizes, VecsCover
<1>5. PICK c \in Nat : c = Trailing + YMM_SZ
  BY <1>1, Sizes
<1>6. (size <= c => size <= e) /\ (c < size => YMM_SZ <= e /\ YMM_SZ < size)
  BY <1>1, <1>2, <1>5, Sizes
<1>. HIDE DEF k, R
<1>7. Found \/ (e <= first /\ c < size /\ Passed("memchr_rest", 0))
  BY <1>1, <1>4, <1>5, <1>6, CompareOutcome
<1>. QED  BY <1>1, <1>6, <1>7, Sizes, ScanFound, EnterRest

LEMMA SmallMemchrAvx512Holds ==
  ASSUME IInv, hay' = hay, SmallMemchrAvx512
  PROVE  IInv' /\ Advances
<1>1. /\ Stops /\ routine \in Scans /\ size \in Nat /\ first \in Nat /\ size <= ZMM_SZ
  BY StartedScan, ScanFamilies DEF SmallMemchrAvx512
<1>2. PICK n \in Nat : size <= n /\ CompareOrGoOn(Vecs(0, 1, n), {}, size, pc, 0)
  BY <1>1, Sizes DEF SmallMemchrAvx512
<1>3. Covers(Vecs(0, 1, n), 0, n)
  BY VecsCover
<1>4. Found
  BY <1>1, <1>2, <1>3, CompareOutcome
<1>. QED  BY <1>1, <1>4, ScanFound

LEMMA AtMoreThanAVector ==
  ASSUME IInv, MoreThanAVector
  PROVE  /\ Stops /\ CallInv /\ routine \in Memchrs /\ routine \in Scans /\ pc # "done"
         /\ size \in Nat /\ first \in Nat /\ offset = 0
         /\ ScanVec < size /\ (routine \in Avx2Memchrs => ScanVec <= first)
         /\ pc \in {"start", "memchr_rest"}
         /\ Leading \in 0 .. ScanVec - 1 /\ Trailing = ScanVec - Leading
         /\ (str1 + Trailing) % ScanVec = 0 /\ str1 \in Nat
<1>1. CASE pc = "memchr_rest"
  <2>1. pc \in ScanLoops
    BY <1>1 DEF ScanLoops
  <2>2. routine \in Avx2Memchrs /\ offset = 0 /\ YMM_SZ <= first /\ YMM_SZ < size
    BY <1>1, <2>1, InScan DEF OfScan
  <2>. QED  BY <1>1, <2>1, <2>2, InScan, ScanFamilies
<1>2. CASE Called(Avx512Memchrs) /\ ZMM_SZ < size
  <2>1. routine \in Avx512Memchrs /\ routine \notin Avx2Memchrs
    BY <1>2, ScanFamilies DEF Called
  <2>. QED  BY <1>2, <2>1, StartedScan, ScanFamilies DEF CallInv
<1>. QED  BY <1>1, <1>2 DEF MoreThanAVector

LEMMA MediumMemchrHolds ==
  ASSUME IInv, hay' = hay, MediumMemchr
  PROVE  IInv' /\ Advances
<1>1. PICK v \in Nat : v = ScanVec /\ v > 0
  BY Sizes
<1>2. /\ Stops /\ routine \in Scans /\ size \in Nat /\ first \in Nat
      /\ v < size /\ (routine \in Avx2Memchrs => v <= first) /\ size <= 4 * v
  BY <1>1, AtMoreThanAVector DEF MediumMemchr
<1>3. CASE 2 * v < size
  <2>1. FindAndReturn(EndVecs(size, 2, v))
    BY <1>1, <1>3 DEF MediumMemchr
  <2>2. 2 * v <= size /\ size <= 2 * (2 * v)
    BY <1>1, <1>2, <1>3
  <2>3. Covers(EndVecs(size, 2, v), 0, size) /\ HitsCount(EndVecs(size, 2, v))
    BY <1>1, <1>2, <2>2, EndsDecide
  <2>. QED  BY <1>2, <2>1, <2>3, ReturnOutcome, ScanFound
<1>4. CASE ~(2 * v < size) /\ routine \in Avx2Memchrs
  <2>1. CompareAndReturn(LastVecs(size, 1, v), {})
    BY <1>1, <1>4 DEF MediumMemchr
  <2>2. 1 * v <= size /\ size - 1 * v <= v
    BY <1>1, <1>2, <1>4
  <2>3. Covers(LastVecs(size, 1, v), v, size) /\ HitsCount(LastVecs(size, 1, v))
    BY <1>1, <1>2, <2>2, LastCover, LastWithin, HitsWithin
  <2>. QED  BY <1>1, <1>2, <1>4, <2>1, <2>3, ReturnOutcome, ScanFound
<1>5. CASE ~(2 * v < size) /\ routine \notin Avx2Memchrs
  <2>1. CompareAndReturn(EndVecs(size, 1, v), {})
    BY <1>1, <1>5 DEF MediumMemchr
  <2>2. 1 * v <= size /\ size <= 2 * (1 * v)
    BY <1>1, <1>2, <1>5
  <2>3. Covers(EndVecs(size, 1, v), 0, size) /\ HitsCount(EndVecs(size, 1, v))
    BY <1>1, <1>2, <2>2, EndsDecide
  <2>. QED  BY <1>2, <2>1, <2>3, ReturnOutcome, ScanFound
<1>. QED  BY <1>3, <1>4, <1>5

LEMMA LargeMemchrHolds ==
  ASSUME IInv, hay' = hay, LargeMemchr
  PROVE  IInv' /\ Advances
<1>1. PICK v \in Nat : v = ScanVec /\ v > 0
  BY Sizes
<1> DEFINE p == IF 8 * v < size THEN "memchr_loop" ELSE "memchr_tail"
           o == IF 8 * v < size THEN 4 * v - Leading ELSE 0
<1>2. /\ Stops /\ routine \in Memchrs /\ routine \in Scans /\ pc # "done" /\ str1 \in Nat
      /\ size \in Nat /\ first \in Nat /\ offset = 0 /\ 4 * v < size
      /\ pc \in {"start", "memchr_rest"}
      /\ Leading \in 0 .. v - 1 /\ Trailing = v - Leading /\ (str1 + Trailing) % v = 0
      /\ FindOrGoOn(Vecs(0, 4, v), {}, p, o)
  BY <1>1, AtMoreThanAVector DEF LargeMemchr
<1>3. Covers(Vecs(0, 4, v), 0, 4 * v)
  BY <1>1, VecsCover
<1>4. HitsCount(Vecs(0, 4, v))
  BY <1>1, <1>2, VecsHit
<1>5. o \in Nat /\ o <= 4 * v
  BY <1>1, <1>2
<1>6. p \in ScanLoops
  BY DEF ScanLoops
<1>. HIDE DEF p, o
<1>7. Found \/ (4 * v <= first /\ Passed(p, o))
  BY <1>1, <1>2, <1>3, <1>4, FindOutcome
<1>8. CASE 4 * v <= first /\ Passed(p, o)
  <2>1. offset < o \/ (offset = o /\ Rank' < Rank)
    <3>1. CASE 8 * v < size
      BY <1>1, <1>2, <3>1 DEF o
    <3>2. CASE ~(8 * v < size)
      BY <1>2, <1>8, <3>2 DEF o, p, Rank, Passed, Goes, call
    <3>. QED  BY <3>1, <3>2
  <2>2. OfScan(p, o)
    <3>1. CASE 8 * v < size
      <4>1. (str1 + o) % v = 0
        <5>1. PICK x \in Int, y \in Int : x = str1 + Trailing /\ y = str1 + o /\ y = x + 3 * v
          BY <1>1, <1>2, <1>5, <3>1 DEF o
        <5>. QED  BY <1>1, <1>2, <5>1, AlignedStep
      <4>2. o <= size
        BY <1>1, <1>2, <1>5
      <4>. QED  BY <1>1, <1>2, <3>1, <4>1, <4>2 DEF p, OfScan
    <3>2. CASE ~(8 * v < size)
      BY <1>1, <1>2, <1>8, <3>2 DEF p, o, OfScan
    <3>. QED  BY <3>1, <3>2
  <2>3. o <= first
    BY <1>1, <1>2, <1>5, <1>8
  <2>. QED  BY <1>2, <1>5, <1>6, <1>8, <2>1, <2>2, <2>3, ScanGoesOn
<1>. QED  BY <1>2, <1>7, <1>8, ScanFound

LEMMA IterateMemchrHolds ==
  ASSUME IInv, hay' = hay, IterateMemchr
  PROVE  IInv' /\ Advances
<1>1. pc = "memchr_loop" /\ pc \in ScanLoops
  BY DEF IterateMemchr, ScanLoops
<1>2. PICK v \in Nat : v = ScanVec /\ v > 0
  BY Sizes
<1>3. /\ offset \in Nat /\ size \in Nat /\ routine \in Memchrs /\ routine \in Scans /\ str1 \in Nat
      /\ 8 * v < size /\ (str1 + offset) % v = 0
  BY <1>1, <1>2, InScan, ScanFamilies DEF OfScan
<1>4. PICK o \in Nat : o = offset + 4 * v
  BY <1>2, <1>3
<1>5. o <= size /\ FindOrGoOn(Vecs(offset, 4, v), {str1}, pc, o)
  BY <1>2, <1>3, <1>4 DEF IterateMemchr
<1>6. (str1 + o) % v = 0
  <2>1. PICK x \in Nat : x = str1 + offset /\ x + 4 * v = str1 + o
    BY <1>2, <1>3, <1>4
  <2>. QED  BY <1>2, <1>3, <2>1, AlignedFourOn
<1>7. OfScan(pc, o)
  BY <1>1, <1>2, <1>3, <1>5, <1>6 DEF OfScan
<1>. QED  BY <1>1, <1>2, <1>3, <1>4, <1>5, <1>7, ScanVectors

LEMMA TailMemchrHolds ==
  ASSUME IInv, hay' = hay, TailMemchr
  PROVE  IInv' /\ Advances
<1>1. pc \in {"memchr_loop", "memchr_tail"} /\ pc \in ScanLoops
  BY DEF TailMemchr, ScanLoops
<1>2. PICK v \in Nat : v = ScanVec /\ v > 0
  BY Sizes
<1>3. /\ Stops /\ offset \in Nat /\ offset <= first /\ size \in Nat /\ first \in Nat
      /\ routine \in Scans /\ 4 * v < size /\ size - 4 * v <= first
  <2>1. /\ Stops /\ offset \in Nat /\ offset <= first /\ size \in Nat /\ first \in Nat
        /\ OfScan(pc, offset)
    BY <1>1, InScan
  <2>2. CASE pc = "memchr_loop"
    <3>1. size - 4 * v < offset
      BY <1>2, <2>2 DEF TailMemchr
    <3>2. routine \in Memchrs /\ 8 * v < size
      BY <1>2, <2>1, <2>2 DEF OfScan
    <3>. QED  BY <1>2, <2>1, <3>1, <3>2, ScanFamilies
  <2>3. CASE pc = "memchr_tail"
    <3>1. routine \in Memchrs /\ 4 * v < size /\ size <= 8 * v /\ 4 * v <= first
      BY <1>2, <2>1, <2>3 DEF OfScan
    <3>. QED  BY <1>2, <2>1, <3>1, ScanFamilies
  <2>. QED  BY <1>1, <2>2, <2>3
<1>4. CASE offset = size
  BY <1>3, <1>4, NoneLeft, ScanFound DEF TailMemchr, NothingLeft
<1>5. CASE offset # size
  <2>1. FindAndReturn(LastVecs(size, 4, v))
    BY <1>2, <1>5 DEF TailMemchr
  <2>2. Covers(LastVecs(size, 4, v), first, size) /\ HitsCount(LastVecs(size, 4, v))
    BY <1>2, <1>3, LastDecide
  <2>. QED  BY <1>3, <2>1, <2>2, ReturnOutcome, ScanFound
<1>. QED  BY <1>4, <1>5

LEMMA StepScanHolds ==
  ASSUME IInv, hay' = hay, StepScan
  PROVE  IInv' /\ Advances
BY ScanNothingHolds, StartScanAtPageEndAvx2Holds, StartScanAvx2Holds, LineAvx2Holds,
   PairAvx2Holds, GroupHolds, LastScanAvx2Holds, StartScanAtPageEndAvx512Holds,
   StartScanAvx512Holds, VectorsAvx512Hold, LastScanAvx512Holds, SmallMemchrStrictHolds,
   StartMemchrAvx2Holds, StartMemchrAtPageEndAvx2Holds, SmallMemchrAvx512Holds,
   MediumMemchrHolds, LargeMemchrHolds, IterateMemchrHolds, TailMemchrHolds
DEF StepScan

-----------------------------------------------------------------------------
(***************************************************************************)
(* strspn.                                                                 *)
(***************************************************************************)
SpanLoops == {"span_index", "span_pairs", "span_table", "span_vecs"}

LEMMA SpanGoesOn ==
  ASSUME IInv, hay' = hay, pc # "done", routine \in Strspns,
         NEW p \in SpanLoops, NEW o \in Nat, o <= first, Passed(p, o), OfStrspn(p, o),
         offset < o \/ (offset = o /\ Rank' < Rank)
  PROVE  IInv' /\ Advances
<1>1. Reached(p, o, vecs)
  BY Families
  DEF Reached, OfMemcmp, OfStrcmp, OfScan, OfStrstr, Loops, SpanLoops, IInv
<1>. QED  BY <1>1, GoesHolds DEF Passed

LEMMA SpanFoundHolds ==
  ASSUME IInv, hay' = hay, routine \in Strspns, SpanFound
  PROVE  IInv' /\ Advances
BY FoundHolds, Families

LEMMA InSpan ==
  ASSUME IInv, pc \in SpanLoops
  PROVE  /\ Stops /\ offset \in Nat /\ offset <= first /\ first \in Nat /\ str1 \in Nat
         /\ pc # "done" /\ routine \in Strspns /\ OfStrspn(pc, offset)
BY Looping DEF SpanLoops, OfStrspn, CallInv

LEMMA StartedSpan ==
  ASSUME IInv, Called(Strspns)
  PROVE  /\ Stops /\ offset = 0 /\ first \in Nat /\ str1 \in Nat /\ size \in Nat
         /\ pc = "start" /\ pc # "done" /\ routine \in Strspns
         /\ size = 0 => first = 0
BY Started DEF CallInv

LEMMA UpToNextIs ==
  ASSUME str1 \in Nat, NEW v \in {XMM_SZ, YMM_SZ, ZMM_SZ}
  PROVE  /\ v \in Nat /\ v > 0 /\ UpToNext(v) \in 1 .. v /\ (str1 + UpToNext(v)) % v = 0
         /\ LeftInPage(str1) \in Nat /\ UpToNext(v) <= LeftInPage(str1)
<1>1. v \in Nat /\ v > 0 /\ PAGE_SZ % v = 0
  BY Sizes, SizesDivide
<1>2. LeftInPage(str1) \in Nat
  BY LeftInPageIs
<1>. QED  BY <1>1, <1>2, RoundedUp, LeftForRegister DEF UpToNext

\* Registers that reach to the offset where the routine goes on.
LEMMA SpanHolds ==
  ASSUME IInv, hay' = hay, Stops, pc # "done", routine \in Strspns,
         offset \in Nat, offset <= first, NEW R, NEW e \in Nat, Covers(R, offset, e),
         NEW al, NEW p \in SpanLoops, NEW o \in Nat, offset < o, o <= e,
         SpanOrGoOn(R, al, p, o), OfStrspn(p, o)
  PROVE  IInv' /\ Advances
<1>1. SpanFound \/ (e <= first /\ Passed(p, o))
  BY SpanOutcome
<1>2. first \in Nat
  BY DEF Stops
<1>. QED  BY <1>1, <1>2, SpanFoundHolds, SpanGoesOn

LEMMA SpanNothingHolds ==
  ASSUME IInv, hay' = hay, SpanNothing
  PROVE  IInv' /\ Advances
<1>1. routine \in Strspns /\ first = 0 /\ Compared(0)
  BY StartedSpan DEF SpanNothing
<1>2. SpanFound
  BY <1>1 DEF SpanFound, Ends, Compared
<1>. QED  BY <1>1, <1>2, SpanFoundHolds

LEMMA SpanOneByteHolds ==
  ASSUME IInv, hay' = hay, SpanOneByte
  PROVE  IInv' /\ Advances
<1>1. PICK v \in Nat, u \in Nat : v = SpanVec /\ u = UpToNext(v) /\ u \in 1 .. v
                                  /\ (str1 + u) % v = 0
  <2>1. str1 \in Nat
    BY StartedSpan DEF SpanOneByte
  <2>. QED  BY <2>1, Sizes, UpToNextIs
<1>2. /\ Stops /\ offset = 0 /\ first \in Nat /\ pc # "done" /\ routine \in Strspns
      /\ SpanOrGoOn(Vecs(u - v, 1, v), {str1}, "span_vecs", u)
  BY <1>1, StartedSpan DEF SpanOneByte
<1>3. Covers(Vecs(u - v, 1, v), 0, u)
  BY <1>1, VecsCover
<1>4. OfStrspn("span_vecs", u) /\ "span_vecs" \in SpanLoops
  BY <1>1, <1>2 DEF OfStrspn, SpanLoops
<1>. QED  BY <1>1, <1>2, <1>3, <1>4, SpanHolds

LEMMA LoadAcceptHolds ==
  ASSUME IInv, hay' = hay, LoadAccept
  PROVE  IInv' /\ Advances
<1> DEFINE p == IF FitsXmm(size) THEN "span_index" ELSE "span_table"
<1>1. /\ offset = 0 /\ first \in Nat /\ pc = "start" /\ pc # "done" /\ routine \in Strspns
      /\ Passed(p, 0)
  BY StartedSpan DEF LoadAccept, GoOn, Passed, Goes
<1>2. OfStrspn(p, 0) /\ p \in SpanLoops
  BY <1>1 DEF OfStrspn, SpanLoops
<1>3. Rank' < Rank
  BY <1>1 DEF Rank, Passed, Goes, call, Strspns
<1>. QED  BY <1>1, <1>2, <1>3, SpanGoesOn

LEMMA SpanIndexHolds ==
  ASSUME IInv, hay' = hay, SpanIndex
  PROVE  IInv' /\ Advances
<1> DEFINE l == LeftInPage(str1)
           R == IF ~CrossesPage(str1, XMM_SZ) THEN Vecs(0, 1, XMM_SZ)
                ELSE IF routine = "strspn_avx2" THEN Vecs(0, l, 1)
                ELSE Vecs(0, 1, l)
<1>1. pc = "span_index" /\ pc \in SpanLoops
  BY DEF SpanIndex, SpanLoops
<1>2. /\ Stops /\ offset = 0 /\ first \in Nat /\ str1 \in Nat /\ pc # "done" /\ routine \in Strspns
      /\ SpanOrGoOn(R, {}, "span_pairs", UpToNext(XMM_SZ))
  BY <1>1, InSpan DEF OfStrspn, SpanIndex
<1>3. PICK u \in Nat : /\ u = UpToNext(XMM_SZ) /\ u \in 1 .. XMM_SZ /\ u <= l
                       /\ (str1 + u) % XMM_SZ = 0 /\ l \in Nat
  BY <1>2, UpToNextIs
<1>. HIDE DEF l
<1>4. Covers(R, 0, u)
  <2>1. Covers(Vecs(0, 1, XMM_SZ), 0, u)
    BY <1>3, Sizes, VecsCover
  <2>2. Covers(Vecs(0, l, 1), 0, u)
    BY <1>3, VecsCover
  <2>3. Covers(Vecs(0, 1, l), 0, u)
    BY <1>3, VecsCover
  <2>. QED  BY <2>1, <2>2, <2>3
<1>. HIDE DEF R
<1>5. OfStrspn("span_pairs", u) /\ "span_pairs" \in SpanLoops
  BY <1>2, <1>3 DEF OfStrspn, SpanLoops
<1>. QED  BY <1>2, <1>3, <1>4, <1>5, SpanHolds

LEMMA SpanPairHolds ==
  ASSUME IInv, hay' = hay, SpanPair
  PROVE  IInv' /\ Advances
<1>1. pc = "span_pairs" /\ pc \in SpanLoops
  BY DEF SpanPair, SpanLoops
<1>2. /\ Stops /\ offset \in Nat /\ offset <= first /\ str1 \in Nat /\ pc # "done"
      /\ routine \in Strspns /\ (str1 + offset) % XMM_SZ = 0
  BY <1>1, InSpan DEF OfStrspn
<1>3. PICK o \in Nat : o = offset + 2 * XMM_SZ /\ offset < o
  BY <1>2, Sizes
<1>4. Covers(Vecs(offset, 2, XMM_SZ), offset, o)
  BY <1>2, <1>3, Sizes, VecsCover
<1>5. SpanOrGoOn(Vecs(offset, 2, XMM_SZ), {str1}, pc, o)
  BY <1>3 DEF SpanPair
<1>6. (str1 + o) % XMM_SZ = 0
  <2>1. PICK x \in Int, y \in Int, k \in Int :
          x = str1 + offset /\ y = str1 + o /\ y = x + k * XMM_SZ
    <3>1. str1 + o = (str1 + offset) + 2 * XMM_SZ
      BY <1>2, <1>3, Sizes
    <3>. QED  BY <1>2, <1>3, <3>1
  <2>2. PICK v \in Nat : v = XMM_SZ /\ v > 0
    BY Sizes
  <2>3. x % v = 0 /\ y = x + k * v
    BY <1>2, <2>1, <2>2
  <2>4. y % v = 0
    <3>1. v > 0
      BY <2>2
    <3>. HIDE <2>2
    <3>. QED  BY <2>3, <3>1, AlignedStep
  <2>. QED  BY <2>1, <2>2, <2>4
<1>7. OfStrspn(pc, o)
  BY <1>1, <1>2, <1>6 DEF OfStrspn
<1>. QED  BY <1>1, <1>2, <1>3, <1>4, <1>5, <1>7, SpanHolds

LEMMA SpanFourBytesHolds ==
  ASSUME IInv, hay' = hay, SpanFourBytes
  PROVE  IInv' /\ Advances
<1>1. pc = "span_table" /\ pc \in SpanLoops /\ routine = "strspn_avx2"
  BY DEF SpanFourBytes, SpanLoops
<1>2. /\ Stops /\ offset \in Nat /\ offset <= first /\ pc # "done" /\ routine \in Strspns
  BY <1>1, InSpan
<1>3. Covers(Vecs(offset, 4, 1), offset, offset + 4)
  BY <1>2, VecsCover
<1>4. SpanOrGoOn(Vecs(offset, 4, 1), {}, pc, offset + 4)
  BY DEF SpanFourBytes
<1>5. OfStrspn(pc, offset + 4)
  BY <1>1, <1>2 DEF OfStrspn
<1>. QED  BY <1>1, <1>2, <1>3, <1>4, <1>5, SpanHolds

LEMMA SpanFirstVectorHolds ==
  ASSUME IInv, hay' = hay, SpanFirstVector
  PROVE  IInv' /\ Advances
<1>1. pc = "span_table" /\ pc \in SpanLoops /\ routine = "strspn_avx512"
  BY DEF SpanFirstVector, SpanLoops
<1>2. /\ Stops /\ offset = 0 /\ first \in Nat /\ str1 \in Nat /\ pc # "done" /\ routine \in Strspns
  BY <1>1, InSpan DEF OfStrspn
<1>3. PICK u \in Nat : /\ u = UpToNext(ZMM_SZ) /\ u \in 1 .. ZMM_SZ /\ u <= LeftInPage(str1)
                       /\ (str1 + u) % ZMM_SZ = 0
  BY <1>2, UpToNextIs
<1>4. PICK n \in Nat : u <= n /\ SpanOrGoOn(Vecs(0, 1, n), {}, "span_vecs", u)
  BY <1>2, <1>3, Sizes, UpToNextIs DEF SpanFirstVector
<1>5. Covers(Vecs(0, 1, n), 0, n)
  BY VecsCover
<1>6. OfStrspn("span_vecs", u) /\ "span_vecs" \in SpanLoops
  BY <1>1, <1>2, <1>3 DEF OfStrspn, SpanLoops, SpanVec
<1>. QED  BY <1>2, <1>3, <1>4, <1>5, <1>6, SpanHolds

LEMMA SpanVectorHolds ==
  ASSUME IInv, hay' = hay, SpanVector
  PROVE  IInv' /\ Advances
<1>1. pc = "span_vecs" /\ pc \in SpanLoops
  BY DEF SpanVector, SpanLoops
<1>2. /\ Stops /\ offset \in Nat /\ offset <= first /\ str1 \in Nat /\ pc # "done"
      /\ routine \in Strspns /\ (str1 + offset) % SpanVec = 0
  BY <1>1, InSpan DEF OfStrspn
<1>3. PICK o \in Nat : o = offset + SpanVec /\ offset < o
  BY <1>2, Sizes
<1>4. Covers(Vecs(offset, 1, SpanVec), offset, o)
  BY <1>2, <1>3, Sizes, VecsCover
<1>5. SpanOrGoOn(Vecs(offset, 1, SpanVec), {str1}, pc, o)
  BY <1>3 DEF SpanVector
<1>6. (str1 + o) % SpanVec = 0
  <2>1. PICK x \in Int : x = str1 + offset /\ x + SpanVec = str1 + o
    BY <1>2, <1>3, Sizes
  <2>. QED  BY <1>2, <2>1, Sizes, AlignedNext
<1>7. OfStrspn(pc, o)
  BY <1>1, <1>2, <1>6 DEF OfStrspn
<1>. QED  BY <1>1, <1>2, <1>3, <1>4, <1>5, <1>7, SpanHolds

LEMMA StepStrspnHolds ==
  ASSUME IInv, hay' = hay, StepStrspn
  PROVE  IInv' /\ Advances
BY SpanNothingHolds, SpanOneByteHolds, LoadAcceptHolds, SpanIndexHolds, SpanPairHolds,
   SpanFourBytesHolds, SpanFirstVectorHolds, SpanVectorHolds
DEF StepStrspn

-----------------------------------------------------------------------------
(***************************************************************************)
(* strstr.                                                                 *)
(***************************************************************************)
\* The needle's occurrences in the string, the result that is asked for, and what the
\* bytes of the next page may make of it.
Occurrences == { i \in hay.found : i + size <= first }

Answer == IF size = 0 THEN 0 ELSE IF Occurrences = {} THEN NONE ELSE Min(Occurrences)

Answers(x) == x = Answer \/ (Answer = NONE /\ x \in FilledUp /\ first < x)

LEMMA StrstrEnds ==
  ASSUME IInv, hay' = hay, routine \in Strstrs, Ends(offset, vecs), Answers(ret')
  PROVE  IInv' /\ Advances
<1>1. /\ CallInv' /\ (routine \in Strstrs => HayInv)' /\ first' = first /\ size' = size
      /\ routine' = routine /\ pc' = "done" /\ offset' = offset /\ vecs' = vecs
  BY CallKept DEF IInv, Ends, HayInv
<1>2. offset' \in Nat /\ offset' <= first' + PAGE_SZ /\ vecs' \in Nat /\ vecs' <= PAGE_SZ \div YMM_SZ
  BY <1>1 DEF IInv
<1>3. routine \notin Strspns
  BY Families
<1>4. ResultIsRight' \/ FoundBehindEnd'
  <2>1. Expected' = Answer
    BY <1>1, <1>3 DEF Expected, Answer, Occurrences, NONE
  <2>2. FilledUp' = FilledUp
    <3>1. str1' = str1 /\ hay' = hay /\ routine' = routine
      BY DEF Ends, call
    <3>. QED  BY <3>1 DEF FilledUp, HayNearPageEnd, HayAhead, HayVec, InPage
  <2>. QED  BY <1>1, <2>1, <2>2 DEF Answers, ResultIsRight, FoundBehindEnd, NONE
<1>5. ComparesCorrectly'
  BY <1>4 DEF ComparesCorrectly
<1>. QED  BY <1>1, <1>2, <1>5 DEF IInv, Advances

LEMMA StrstrGoesOn ==
  ASSUME IInv, hay' = hay, pc # "done", routine \in Strstrs, 1 < size, 0 < first,
         NEW o \in Nat, o <= first, Passed("search", o), (str1 + o) % HayVec = 0,
         \A c \in hay.found : o <= c, offset < o
  PROVE  IInv' /\ Advances
<1>1. Reached("search", o, vecs)
  BY Families
  DEF Reached, OfMemcmp, OfStrcmp, OfScan, OfStrspn, OfStrstr, Loops, IInv
<1>. QED  BY <1>1, GoesHolds DEF Passed

\* A block whose candidates include the needle's occurrences in it that are not passed;
\* of those behind it, which are in the next page, none is a candidate without the ones
\* in front of it.
LEMMA SearchHolds ==
  ASSUME IInv, hay' = hay, Stops, HayInv, pc # "done", routine \in Strstrs, 1 < size, 0 < first,
         offset \in Nat, offset <= first, \A c \in hay.found : offset <= c,
         NEW r \in Registers, r.at <= offset, NEW C,
         \A c \in hay.found : c < EndOf(r) => c \in C,
         \A c \in C : c < EndOf(r) \/ c \in FilledUp,
         \A c \in C : \A x \in hay.found : x <= c => x \in C,
         NEW b, NEW o \in Nat, offset < o, o <= EndOf(r), (str1 + o) % HayVec = 0,
         SearchOrGoOn(r, C, b, o)
  PROVE  IInv' /\ Advances
<1> DEFINE hits == { c \in Filtered(C, b) : InHaystack(c, r) /\ c \in hay.found }
<1>1. /\ size \in Nat /\ first \in Nat /\ hay.found \subseteq Nat
      /\ \A c \in hay.found : c + size <= first \/ first < c
      /\ \A c \in hay.found : c \in hay.seconds /\ c \in hay.lasts
  BY DEF Stops, HayInv
<1>2. r.at \in Int /\ r.len \in Nat /\ EndOf(r) = r.at + r.len /\ r.at <= first
  BY <1>1 DEF Registers, EndOf
<1>3. hits = { c \in C : c \in hay.found /\ InHaystack(c, r) }
  BY <1>1 DEF Filtered
<1>4. IF hits # {} THEN Compared(Min(hits))
      ELSE IF HasStop(r) THEN Compared(NONE) ELSE GoOn("search", o)
  BY DEF SearchOrGoOn
<1>5. Occurrences \subseteq Nat /\ hits \subseteq Nat
  BY <1>1, <1>3 DEF Occurrences
<1>. HIDE DEF hits
<1>6. CASE HasStop(r)
  <2>1. Tzcnt(r) = first /\ first < EndOf(r)
    BY <1>1, <1>2, <1>6, MaxOfTwo DEF HasStop, Tzcnt
  <2>2. ASSUME NEW c \in hay.found  PROVE InHaystack(c, r) <=> c + size <= first
    <3>1. c \in Nat /\ (c + size <= first \/ first < c)
      BY <1>1
    <3>. QED  BY <1>1, <1>6, <2>1, <3>1 DEF InHaystack
  <2>3. ASSUME NEW c \in Occurrences  PROVE c \in C
    <3>1. c \in hay.found /\ c \in Nat /\ c + size <= first
      BY <1>1 DEF Occurrences
    <3>2. c < EndOf(r)
      BY <1>1, <1>2, <2>1, <3>1
    <3>. QED  BY <3>1, <3>2
  <2>4. hits = Occurrences
    BY <1>3, <2>2, <2>3 DEF Occurrences
  <2>5. Ends(offset, vecs) /\ Answers(ret')
    BY <1>1, <1>4, <1>6, <2>4 DEF Compared, Ends, Answer, Answers
  <2>. QED  BY <2>5, StrstrEnds
<1>7. CASE ~HasStop(r)
  <2>1. EndOf(r) <= first
    BY <1>1, <1>2, <1>7 DEF HasStop, Stops
  <2>2. hits = { c \in C : c \in hay.found }
    BY <1>3, <1>7 DEF InHaystack
  <2>3. CASE hits = {}
    <3>1. Passed("search", o)
      BY <1>4, <1>7, <2>3 DEF GoOn, Passed, Goes
    <3>2. ASSUME NEW c \in hay.found  PROVE o <= c
      <4>1. ~(c < EndOf(r))
        BY <2>2, <2>3
      <4>. QED  BY <1>1, <1>2, <4>1
    <3>3. o <= first
      BY <1>1, <1>2, <2>1
    <3>. QED  BY <3>1, <3>2, <3>3, StrstrGoesOn
  <2>4. CASE hits # {}
    <3>1. Ends(offset, vecs) /\ ret' = Min(hits)
      BY <1>4, <2>4 DEF Compared, Ends
    <3>2. PICK m \in hits : m = Min(hits) /\ \A c \in hits : m <= c
      BY <1>5, <2>4, MinOfNats
    <3>3. m \in hay.found /\ m \in Nat /\ m \in C
      BY <1>1, <2>2
    <3>4. ASSUME NEW c \in Occurrences  PROVE c \in Nat /\ m <= c /\ c + size <= first
      <4>1. c \in hay.found /\ c \in Nat /\ c + size <= first
        BY <1>5 DEF Occurrences
      <4>2. CASE c <= m
        <5>1. c \in C
          BY <3>3, <4>1, <4>2
        <5>2. c \in hits
          BY <2>2, <4>1, <5>1
        <5>. QED  BY <3>2, <4>1, <5>2
      <4>. QED  BY <3>3, <4>1, <4>2
    <3>5. ASSUME m + size <= first  PROVE Answers(ret')
      <4>1. m \in Occurrences
        BY <3>3, <3>5 DEF Occurrences
      <4>2. PICK x \in Occurrences : x = Min(Occurrences) /\ \A c \in Occurrences : x <= c
        BY <1>5, <4>1, MinOfNats
      <4>3. m = x
        <5>1. m <= x /\ x <= m /\ x \in Nat
          BY <3>4, <4>1, <4>2
        <5>. QED  BY <3>3, <5>1
      <4>4. ret' = Answer
        BY <1>1, <3>1, <3>2, <4>1, <4>2, <4>3 DEF Answer
      <4>. QED  BY <4>4 DEF Answers
    <3>6. ASSUME first < m  PROVE Answers(ret')
      <4>1. m \in FilledUp
        <5>1. ~(m < EndOf(r))
          BY <1>1, <1>2, <2>1, <3>3, <3>6
        <5>. QED  BY <3>3, <5>1
      <4>2. Occurrences = {}
        <5>1. ASSUME NEW c \in Occurrences  PROVE FALSE
          <6>1. c \in Nat /\ m <= c /\ c + size <= first
            BY <3>4
          <6>. QED  BY <1>1, <3>3, <3>6, <6>1
        <5>. QED  BY <5>1
      <4>3. NONE = Answer
        BY <1>1, <4>2 DEF Answer
      <4>. QED  BY <3>1, <3>2, <3>6, <4>1, <4>3 DEF Answers
    <3>7. Answers(ret')
      <4>1. m + size <= first \/ first < m
        BY <1>1, <3>3
      <4>. QED  BY <3>5, <3>6, <4>1
    <3>. QED  BY <3>1, <3>7, StrstrEnds
  <2>. QED  BY <2>3, <2>4
<1>. QED  BY <1>6, <1>7

LEMMA SearchShortHolds ==
  ASSUME IInv, hay' = hay, SearchShort
  PROVE  IInv' /\ Advances
<1> DEFINE hits == { c \in hay.found : c < first }
<1>1. /\ routine \in Strstrs /\ size \in Nat /\ first \in Nat /\ (size <= 1 \/ first = 0)
      /\ Compared(IF size = 0 THEN 0 ELSE IF hits = {} THEN NONE ELSE Min(hits))
  BY Started DEF SearchShort
<1>2. hay.found \subseteq Nat
  BY <1>1 DEF IInv, HayInv
<1>3. size # 0 => hits = Occurrences
  <2>1. ASSUME size # 0, NEW c \in hay.found  PROVE c < first <=> c + size <= first
    <3>1. c \in Nat
      BY <1>2
    <3>. QED  BY <1>1, <2>1, <3>1
  <2>. QED  BY <2>1 DEF Occurrences
<1>4. Ends(offset, vecs) /\ Answers(ret')
  BY <1>1, <1>3 DEF Compared, Ends, Answer, Answers
<1>. QED  BY <1>1, <1>4, StrstrEnds

LEMMA SearchFirstBlockHolds ==
  ASSUME IInv, hay' = hay, SearchFirstBlock
  PROVE  IInv' /\ Advances
<1> DEFINE C == { c \in Heads(FirstBlock) : 0 <= c } \cup FilledUp
<1>1. /\ Stops /\ routine \in Strstrs /\ pc # "done" /\ 1 < size /\ 0 < first /\ offset = 0
      /\ size \in Nat /\ first \in Nat /\ CallInv
  BY Started DEF SearchFirstBlock
<1>2. HayInv /\ str1 \in Nat
  BY <1>1 DEF IInv, CallInv
<1>3. PICK u \in Nat : u = HayAhead /\ u \in 1 .. HayVec /\ (str1 + u) % HayVec = 0
  <2>1. PICK v \in Nat : v = HayVec /\ v > 0
    BY Sizes
  <2>2. v - (str1 % v) \in 1 .. v /\ (str1 + (v - (str1 % v))) % v = 0
    BY <1>2, <2>1, RoundedUp
  <2>. QED  BY <2>1, <2>2 DEF HayAhead
<1>4. /\ FirstBlock \in Registers /\ FirstBlock.at <= 0 /\ u <= EndOf(FirstBlock)
  BY <1>3, Sizes DEF FirstBlock, Reg, Registers, EndOf
<1>5. CASE HasStop(FirstBlock) /\ Tzcnt(FirstBlock) < size
  <2>1. Compared(NONE)
    BY <1>5 DEF SearchFirstBlock
  <2>2. Tzcnt(FirstBlock) = first
    BY <1>1, <1>4, MaxOfTwo DEF Tzcnt, Registers
  <2>3. Occurrences = {}
    <3>1. ASSUME NEW c \in hay.found  PROVE ~(c + size <= first)
      <4>1. c \in Nat
        BY <1>2 DEF HayInv
      <4>. QED  BY <1>1, <1>5, <2>2, <4>1
    <3>. QED  BY <3>1 DEF Occurrences
  <2>4. Ends(offset, vecs) /\ Answers(ret')
    BY <1>1, <2>1, <2>3 DEF Compared, Ends, Answer, Answers
  <2>. QED  BY <1>1, <2>4, StrstrEnds
<1>6. CASE ~(HasStop(FirstBlock) /\ Tzcnt(FirstBlock) < size)
  <2>1. SearchOrGoOn(FirstBlock, C, 0, u)
    BY <1>3, <1>6 DEF SearchFirstBlock
  <2>2. ASSUME NEW c \in hay.found, c < EndOf(FirstBlock)  PROVE c \in C
    <3>1. c \in Nat /\ c \in hay.heads
      BY <1>2 DEF HayInv
    <3>2. FirstBlock.at <= c
      BY <1>4, <3>1 DEF Registers
    <3>. QED  BY <2>2, <3>1, <3>2 DEF Heads, EndOf
  <2>3. ASSUME NEW c \in C  PROVE c < EndOf(FirstBlock) \/ c \in FilledUp
    BY <2>3 DEF Heads, EndOf
  <2>5. ASSUME NEW c \in C, NEW x \in hay.found, x <= c  PROVE x \in C
    <3>1. x \in Nat /\ EndOf(FirstBlock) \in Int
      BY <1>2, <1>4 DEF HayInv, Registers, EndOf
    <3>2. CASE x < EndOf(FirstBlock)
      BY <2>2, <3>2
    <3>3. CASE ~(x < EndOf(FirstBlock)) /\ c \in FilledUp
      <4>1. FilledUp = HayAhead .. HayVec - 1
        BY <3>3 DEF FilledUp
      <4>2. HayVec \in Nat
        BY Sizes
      <4>3. x \in FilledUp
        BY <1>3, <1>4, <2>5, <3>1, <3>3, <4>1, <4>2
      <4>. QED  BY <4>3
    <3>4. CASE ~(x < EndOf(FirstBlock)) /\ c < EndOf(FirstBlock)
      <4>1. c \in FilledUp => c \in Nat
        <5>1. HayVec \in Nat
          BY Sizes
        <5>. QED  BY <1>3, <5>1 DEF FilledUp
      <4>2. c \in Int
        BY <1>2, <4>1 DEF Heads, HayInv
      <4>. QED  BY <2>5, <3>1, <3>4, <4>2
    <3>. QED  BY <2>3, <3>2, <3>3, <3>4
  <2>4. \A c \in hay.found : offset <= c
    BY <1>1, <1>2 DEF HayInv
  <2>. HIDE DEF C
  <2>. QED  BY <1>1, <1>2, <1>3, <1>4, <2>1, <2>2, <2>3, <2>4, <2>5, SearchHolds
<1>. QED  BY <1>5, <1>6

LEMMA SearchBlockHolds ==
  ASSUME IInv, hay' = hay, SearchBlock
  PROVE  IInv' /\ Advances
<1> DEFINE r == Reg(offset, HayVec)
<1>1. pc = "search" /\ pc # "done"
  BY DEF SearchBlock
<1>2. /\ Stops /\ offset \in Nat /\ offset <= first /\ routine \in Strstrs /\ 1 < size /\ 0 < first
      /\ (str1 + offset) % HayVec = 0 /\ \A c \in hay.found : offset <= c
  BY <1>1, Looping DEF OfStrstr
<1>3. HayInv /\ str1 \in Nat
  BY <1>2 DEF IInv, CallInv
<1>4. PICK o \in Nat : o = offset + HayVec /\ offset < o
  BY <1>2, Sizes
<1>5. r \in Registers /\ r.at = offset /\ EndOf(r) = o
  BY <1>2, <1>4, Sizes, RegIs
<1>6. SearchOrGoOn(r, Heads(r), offset, o)
  BY <1>4 DEF SearchBlock
<1>. HIDE DEF r
<1>7. (str1 + o) % HayVec = 0
  <2>1. PICK x \in Int : x = str1 + offset /\ x + HayVec = str1 + o
    BY <1>2, <1>3, <1>4, Sizes
  <2>. QED  BY <1>2, <2>1, Sizes, AlignedNext
<1>8. /\ \A c \in hay.found : c < EndOf(r) => c \in Heads(r)
      /\ \A c \in Heads(r) : c < EndOf(r)
  BY <1>2, <1>3, <1>5 DEF Heads, EndOf, HayInv
<1>9. \A c \in Heads(r) : \A x \in hay.found : x <= c => x \in Heads(r)
  BY <1>2, <1>3, <1>5 DEF Heads, EndOf, HayInv
<1>. QED  BY <1>1, <1>2, <1>3, <1>4, <1>5, <1>6, <1>7, <1>8, <1>9, SearchHolds

LEMMA StepStrstrHolds ==
  ASSUME IInv, hay' = hay, StepStrstr
  PROVE  IInv' /\ Advances
BY SearchShortHolds, SearchFirstBlockHolds, SearchBlockHolds DEF StepStrstr

-----------------------------------------------------------------------------
(***************************************************************************)
(* Every call.                                                             *)
(***************************************************************************)
LEMMA InitHolds ==
  ASSUME ReadInit
  PROVE  IInv
<1>1. PICK c \in CallSets :
        /\ routine \in c.routines
        /\ \E s \in c.starts : str1 = s[1] /\ str2 = s[2]
        /\ size \in c.sizes
        /\ first \in c.firsts
        /\ \E gap \in c.gaps : last = first + gap
  BY DEF ReadInit, Init
<1>2. /\ c.routines \subseteq Memcmps \cup Strcmps \cup Scans \cup Strspns \cup Strstrs
      /\ c.starts \subseteq Nat \X Nat /\ c.firsts \subseteq Nat /\ c.gaps \subseteq Nat
      /\ \A f \in c.firsts : f + 2 * PAGE_SZ <= SizeSpan
      /\ c.sizes \subseteq 0 .. SizeSpan - 1
  BY CallsAssumption, SpanAssumption
<1>3. /\ c.routines \cap (Scans \cup Strstrs) # {} => \A s \in c.starts : s[1] = s[2]
      /\ c.routines \cap AlignedMemcmps # {} =>
           \A s \in c.starts : s[1] % ZMM_SZ = 0 /\ s[2] % ZMM_SZ = 0
      /\ c.routines \cap NoSizes # {} =>
           \A n \in c.sizes, f \in c.firsts : f + 8 * ZMM_SZ <= n
      /\ c.routines \cap (Strspns \cup Strstrs) # {} =>
           \A n \in c.sizes : n + 2 * PAGE_SZ <= SizeSpan
      /\ c.routines \cap Strspns # {} /\ 0 \in c.sizes => c.firsts = {0}
  BY CallsAssumption
<1>4. PICK s \in c.starts : str1 = s[1] /\ str2 = s[2]
  BY <1>1
<1>5. PICK gap \in c.gaps : last = first + gap
  BY <1>1
<1>6. /\ routine \in Memcmps \cup Strcmps \cup Scans \cup Strspns \cup Strstrs
      /\ str1 \in Nat /\ str2 \in Nat /\ size \in Nat /\ size < SizeSpan
      /\ first \in Nat /\ last \in Nat /\ first <= last
      /\ first + 2 * PAGE_SZ <= SizeSpan
  BY <1>1, <1>2, <1>4, <1>5, Sizes
<1>7. /\ routine \in Scans \cup Strstrs => str1 = str2
      /\ routine \in AlignedMemcmps => str1 % ZMM_SZ = 0 /\ str2 % ZMM_SZ = 0
  BY <1>1, <1>3, <1>4
<1>8. routine \in NoSizes => first + 8 * ZMM_SZ <= size
  BY <1>1, <1>3
<1>9. /\ routine \in Strspns \cup Strstrs => size + 2 * PAGE_SZ <= SizeSpan
      /\ routine \in Strspns /\ size = 0 => first = 0
  BY <1>1, <1>3
<1>10. IntSizes /\ routine \in IntSized => size < IntSpan \div 2
  <2>. SUFFICES ASSUME IntSizes, routine \in IntSized  PROVE size < IntSpan \div 2
    OBVIOUS
  <2>1. c.sizes \subseteq 0 .. (IntSpan \div 2) - 1 /\ IntSpan \in Nat
    BY <1>1 DEF IntSizes
  <2>2. IntSpan \div 2 \in Int
    BY <2>1
  <2>. QED  BY <1>1, <1>6, <2>1, <2>2
<1>11. CallInv
  BY <1>6, <1>7, <1>8, <1>9, <1>10 DEF CallInv
<1>12. ASSUME routine \in Strstrs  PROVE HayInv
  <2>1. hay \in Haystacks(size, first)
    BY <1>12 DEF ReadInit
  <2>. QED  BY <1>1, <1>12, <2>1, HaystacksAssumption DEF HayInv
<1>13. pc = "start" /\ offset = 0 /\ vecs = 0 /\ ret = NONE
  BY DEF ReadInit, Init
<1>14. PAGE_SZ \div YMM_SZ \in Nat
  <2>1. PAGE_SZ \in 1 .. PAGE_SZ
    BY Sizes
  <2>. QED  BY <2>1, VecsCounted
<1>15. Reached("start", 0, 0)
  BY <1>6, <1>12, <1>14
  DEF Reached, OfMemcmp, OfStrcmp, OfScan, OfStrspn, OfStrstr, HayInv
<1>. QED  BY <1>6, <1>11, <1>12, <1>13, <1>14, <1>15, Sizes DEF IInv

LEMMA StepHolds ==
  ASSUME IInv, Step
  PROVE  IInv' /\ Advances
BY StepMemcmpHolds, StepStrcmpHolds, StepScanHolds, StepStrspnHolds, StepStrstrHolds DEF Step

LEMMA Unchanged ==
  ASSUME IInv, UNCHANGED readVars
  PROVE  IInv'
<1>1. call' = call /\ hay' = hay /\ pc' = pc /\ offset' = offset /\ vecs' = vecs /\ ret' = ret
  BY DEF readVars, vars
<1>2. /\ CallInv' /\ routine' = routine /\ str1' = str1 /\ str2' = str2 /\ size' = size
      /\ first' = first /\ last' = last
  BY <1>1, CallKept DEF IInv
<1>3. (routine \in Strstrs => HayInv)'
  BY <1>1, <1>2 DEF IInv, HayInv
<1>4. (pc # "done" => ret = NONE /\ Reached(pc, offset, vecs))'
  BY <1>1, ReachedKept DEF IInv, NONE
<1>5. (pc = "done" /\ IntSizes => ComparesCorrectly)'
  <2>1. FilledUp' = FilledUp
    BY <1>1, <1>2 DEF FilledUp, HayNearPageEnd, HayAhead, HayVec, InPage
  <2>. QED
    BY <1>1, <1>2, <2>1
    DEF IInv, ComparesCorrectly, OutsideRepCmps, Unit, ResultIsRight, FoundBehindEnd, Expected,
        AtStop, NONE
<1>. QED  BY <1>1, <1>2, <1>3, <1>4, <1>5 DEF IInv

\* The invariant that all of what follows rests on: a routine that is still running has
\* left no stop behind, at an offset that its alignment and its page allow.
THEOREM ReadInvariant == Spec => []IInv
<1>1. ReadInit => IInv
  BY InitHolds
<1>2. IInv /\ [Next]_readVars => IInv'
  BY StepHolds, Unchanged DEF Next, Returned
<1>. QED  BY <1>1, <1>2, PTL DEF Spec

\* Every comparison and every search has the result its function promises, where a size
\* that is held in an int fits.
THEOREM ResultsAreRight ==
  ASSUME IntSizes
  PROVE  Spec => []ComparesCorrectly
<1>1. IInv => ComparesCorrectly
  BY DEF IInv, ComparesCorrectly
<1>. QED  BY <1>1, ReadInvariant, PTL

\* None of them stays where it is, and none runs past the first stop.
THEOREM EveryStepGetsFurther == Spec => EveryStepAdvances
<1>1. IInv /\ [Next]_readVars => [Advances]_readVars
  BY StepHolds DEF Next, Returned
<1>2. Spec => [][Advances]_readVars
  BY <1>1, ReadInvariant, PTL DEF Spec
<1>. QED  BY <1>2 DEF EveryStepAdvances, Advances

\* While two strings of different alignment are compared, one of them is aligned.
THEOREM SomeStringIsAligned == Spec => []OneStringAligned
<1>1. IInv => OneStringAligned
  BY DEF IInv, Reached, OfStrcmp, SomeAligned, OneStringAligned
<1>. QED  BY <1>1, ReadInvariant, PTL

-----------------------------------------------------------------------------
(***************************************************************************)
(* What is loaded.                                                         *)
(***************************************************************************)
\* The registers read when the i-th is the first to hit.
Used(R, i) == 1 .. (IF i = 0 THEN Len(R) ELSE i)

LEMMA ReadIs ==
  ASSUME NEW R \in Seq(Registers), Len(R) > 0, NEW i \in 0 .. Len(R),
         NEW b \in Int, NEW e \in Int,
         \A j \in Used(R, i) : b <= R[j].at /\ EndOf(R[j]) <= e
  PROVE  /\ Read(R, i).from \in Int /\ Read(R, i).to \in Int
         /\ b <= Read(R, i).from /\ Read(R, i).from <= Read(R, i).to /\ Read(R, i).to <= e
         /\ Read(R, i).from <= R[1].at /\ EndOf(R[1]) <= Read(R, i).to
         /\ \E j \in Used(R, i) : Read(R, i).from = R[j].at
         /\ \E j \in Used(R, i) : Read(R, i).to = EndOf(R[j])
<1> DEFINE U == Used(R, i)
           A == { R[j].at : j \in U }
           E == { EndOf(R[j]) : j \in U }
<1>1. U \subseteq 1 .. Len(R) /\ 1 \in U
  BY DEF Used
<1>2. ASSUME NEW j \in U
      PROVE  R[j].at \in Int /\ EndOf(R[j]) \in Int /\ R[j].at <= EndOf(R[j])
  <2>1. PICK r \in Registers : r = R[j]
    BY <1>1
  <2>2. r.at \in Int /\ EndOf(r) \in Int /\ r.at <= EndOf(r)
    BY ONLY r \in Registers DEF Registers, EndOf
  <2>. QED  BY <2>1, <2>2
<1>3. Read(R, i).from = Min(A) /\ Read(R, i).to = Max(E)
  <2>1. (IF i = 0 THEN DOMAIN R ELSE 1 .. i) = U
    BY DEF Used
  <2>2. A \cup {R[1].at} = A
    BY <1>1
  <2>3. { R[j].at + R[j].len : j \in U } = E
    BY DEF EndOf
  <2>. QED  BY <2>1, <2>2, <2>3 DEF Read
<1>4. Min(A) \in A /\ \A y \in A : Min(A) <= y
  <2>1. A \subseteq Int /\ A # {} /\ \A y \in A : b <= y
    BY <1>1, <1>2
  <2>. QED  BY <2>1, MinOfInts
<1>5. Max(E) \in E /\ \A y \in E : y <= Max(E)
  <2>1. E \subseteq Int /\ E # {} /\ \A y \in E : y <= e
    BY <1>1, <1>2
  <2>. QED  BY <2>1, MaxOfInts
<1>6. R[1].at \in A /\ EndOf(R[1]) \in E
  BY <1>1
<1>7. Min(A) <= R[1].at /\ EndOf(R[1]) <= Max(E)
  BY <1>4, <1>5, <1>6
<1>8. PICK j \in U : Min(A) = R[j].at
  BY <1>4
<1>9. PICK k \in U : Max(E) = EndOf(R[k])
  BY <1>5
<1>. HIDE DEF U, A, E
<1>10. Min(A) <= Max(E)
  <2>1. R[1].at \in Int /\ EndOf(R[1]) \in Int /\ R[1].at <= EndOf(R[1])
    BY <1>1, <1>2
  <2>2. Min(A) \in Int /\ Max(E) \in Int
    BY <1>2, <1>8, <1>9
  <2>. QED  BY <1>7, <2>1, <2>2
<1>. QED  BY <1>2, <1>3, <1>7, <1>8, <1>9, <1>10 DEF U

LEMMA FirstOfVecs ==
  ASSUME NEW o \in Int, NEW k \in Nat, k > 0, NEW v \in Nat
  PROVE  /\ Vecs(o, k, v) \in Seq(Registers) /\ Len(Vecs(o, k, v)) = k
         /\ Vecs(o, k, v)[1].at = o /\ Vecs(o, k, v)[1].len = v
<1>1. 1 \in 1 .. k /\ o + (1 - 1) * v = o
  OBVIOUS
<1>. QED  BY <1>1, VecsAre

\* Vectors side by side are read from the first one on.
LEMMA VecsRead ==
  ASSUME NEW o \in Int, NEW k \in Nat, k > 0, NEW v \in Nat, NEW i \in 0 .. k
  PROVE  LET L == Read(Vecs(o, k, v), i)
         IN  L.from = o /\ L.to \in Int /\ o <= L.to /\ L.to <= o + k * v
<1> DEFINE R == Vecs(o, k, v)
<1>0. 1 \in 1 .. k /\ o + (1 - 1) * v = o
  OBVIOUS
<1>1. /\ R \in Seq(Registers) /\ Len(R) = k
      /\ \A j \in 1 .. k : R[j].at = o + (j - 1) * v
  BY VecsAre
<1>2. R[1].at = o
  BY <1>0, <1>1
<1>3. PICK e \in Int : e = o + k * v
  OBVIOUS
<1>4. Within(R, o, e)
  BY <1>3, VecsWithin
<1>. HIDE DEF R
<1>5. \A j \in Used(R, i) : o <= R[j].at /\ EndOf(R[j]) <= e
  BY <1>1, <1>4 DEF Within, Used
<1>6. /\ Read(R, i).from \in Int /\ Read(R, i).to \in Int
      /\ o <= Read(R, i).from /\ Read(R, i).from <= Read(R, i).to /\ Read(R, i).to <= e
      /\ Read(R, i).from <= R[1].at
  BY <1>1, <1>5, ReadIs
<1>. QED  BY <1>2, <1>3, <1>6 DEF R

-----------------------------------------------------------------------------
(***************************************************************************)
(* Aligned loads.                                                          *)
(***************************************************************************)
LEMMA NoneAligned ==
  ASSUME load'.aligned = {}
  PROVE  NoAlignmentFault'
BY DEF NoAlignmentFault

LEMMA LoadLeft ==
  ASSUME NoAlignmentFault, load' = load
  PROVE  NoAlignmentFault'
BY DEF NoAlignmentFault

LEMMA VecsAligned ==
  ASSUME NEW o \in Int, NEW k \in Nat, k > 0, NEW v \in Nat, NEW i \in 0 .. k, NEW al,
         Loaded(Vecs(o, k, v), i, al), \A s \in al : (s + o) % v = 0
  PROVE  NoAlignmentFault'
<1>1. Read(Vecs(o, k, v), i).from = o
  BY VecsRead
<1>2. Vecs(o, k, v)[1].len = v
  <2>1. 1 \in 1 .. k
    OBVIOUS
  <2>. QED  BY <2>1, VecsAre
<1>3. load'.from = o /\ load'.vec = v /\ load'.aligned = al
  BY <1>1, <1>2 DEF Loaded
<1>. QED  BY <1>3 DEF NoAlignmentFault

LEMMA HitOfVecs ==
  ASSUME NEW o \in Int, NEW k \in Nat, NEW v \in Nat
  PROVE  FirstHit(Vecs(o, k, v)) \in 0 .. k
<1> DEFINE R == Vecs(o, k, v)
<1>1. R \in Seq(Registers) /\ Len(R) = k
  BY VecsAre
<1>. HIDE DEF R
<1>2. FirstHit(R) \in 0 .. k
  BY <1>1, FirstHitIsFirst
<1>. QED  BY <1>2 DEF R

\* Vectors that are loaded one by one, or all at once.
LEMMA ComparedAligned ==
  ASSUME NEW o \in Int, NEW k \in Nat, k > 0, NEW v \in Nat, NEW al,
         \A s \in al : (s + o) % v = 0, NEW cov, NEW path, NEW next,
         \/ CompareOrGoOn(Vecs(o, k, v), al, cov, path, next)
         \/ FindOrGoOn(Vecs(o, k, v), al, path, next)
         \/ SpanOrGoOn(Vecs(o, k, v), al, path, next)
  PROVE  NoAlignmentFault'
<1>1. PICK i \in 0 .. k : Loaded(Vecs(o, k, v), i, al)
  <2>1. FirstHit(Vecs(o, k, v)) \in 0 .. k /\ 0 \in 0 .. k
    BY HitOfVecs
  <2>. QED  BY <2>1 DEF CompareOrGoOn, FindOrGoOn, SpanOrGoOn
<1>. QED  BY <1>1, VecsAligned

-----------------------------------------------------------------------------
LEMMA GroupAligned ==
  ASSUME IInv, pc # "done", NEW v \in Nat, NEW path,
         CompareGroup(path, v) \/ CompareReduced(path, v),
         \A s \in Aligned : (s + offset) % v = 0
  PROVE  NoAlignmentFault'
<1>1. offset \in Int
  BY Looping
<1>2. PICK i \in 0 .. 4 : Loaded(Vecs(offset, 4, v), i, Aligned)
  <2>1. FirstHit(Vecs(offset, 4, v)) \in 0 .. 4
    BY <1>1, HitOfVecs
  <2>. QED  BY <2>1 DEF CompareGroup, CompareReduced
<1>. QED  BY <1>1, <1>2, VecsAligned

\* The aligned variants' buffers are aligned, and so are the groups of their loop.
LEMMA IterateTunableAligned ==
  ASSUME IInv, IterateTunable
  PROVE  NoAlignmentFault'
<1>1. /\ CallInv /\ offset \in Nat /\ pc # "done" /\ offset % Vector = 0
      /\ CompareGroup(pc, Vector)
  BY Looping DEF IterateTunable, OfMemcmp
<1>2. ASSUME NEW s \in Aligned  PROVE (s + offset) % Vector = 0
  <2>1. s \in Nat /\ s % ZMM_SZ = 0
    BY <1>1 DEF Aligned, CallInv
  <2>2. s % Vector = 0
    <3>1. ZMM_SZ % Vector = 0
      BY SizesDivide, Sizes
    <3>. QED  BY <2>1, <3>1, Sizes, AlignedTwice
  <2>. QED  BY <1>1, <2>1, <2>2, Sizes, AlignedSum
<1>. QED  BY <1>1, <1>2, Sizes, GroupAligned

LEMMA FirstOfTwo ==
  ASSUME NEW S \in Seq(Registers), NEW T \in Seq(Registers), Len(S) > 0
  PROVE  Len(S \o T) > 0 /\ (S \o T)[1] = S[1]
<1>1. Len(S) \in Nat /\ Len(T) \in Nat
  OBVIOUS
<1>2. Len(S \o T) = Len(S) + Len(T)
  OBVIOUS
<1>3. 1 \in 1 .. Len(S) + Len(T) /\ 1 <= Len(S)
  BY <1>1
<1>. QED  BY <1>1, <1>2, <1>3

LEMMA MediumTunableAligned ==
  ASSUME IInv, MediumTunable
  PROVE  NoAlignmentFault'
<1>1. /\ CallInv /\ size \in Nat /\ 2 * Vector < size
      /\ CompareAndReturn(EndVecs(size, 2, Vector), Aligned)
  BY Started DEF MediumTunable
<1>2. PICK v \in Nat, w \in Int : v = Vector /\ v > 0 /\ w = size - 2 * v /\ 0 <= w
  BY <1>1, Sizes
<1> DEFINE R == EndVecs(size, 2, v)
           i == FirstHit(R)
<1>3. R \in Seq(Registers) /\ Within(R, 0, size)
  BY <1>1, <1>2, EndsWithin
<1>4. Len(R) > 0 /\ R[1].at = 0 /\ R[1].len = v
  <2> DEFINE S == Vecs(0, 2, v)
             T == Vecs(w, 2, v)
  <2>1. S \in Seq(Registers) /\ Len(S) > 0 /\ S[1].at = 0 /\ S[1].len = v
    <3>1. PICK o \in Int, k \in Nat : o = 0 /\ k = 2
      OBVIOUS
    <3>2. S = Vecs(o, k, v) /\ k > 0
      BY <3>1
    <3>. HIDE DEF R, i, S, T
    <3>. QED  BY <3>1, <3>2, FirstOfVecs
  <2>2. T \in Seq(Registers)
    <3>1. PICK k \in Nat : k = 2
      OBVIOUS
    <3>2. T = Vecs(w, k, v) /\ k > 0
      BY <3>1
    <3>. HIDE DEF R, i, S, T
    <3>. QED  BY <1>2, <3>2, FirstOfVecs
  <2>3. R = S \o T
    BY <1>2 DEF EndVecs, LastVecs
  <2>. HIDE DEF R, i, S, T
  <2>. QED  BY <2>1, <2>2, <2>3, FirstOfTwo
<1>5. Loaded(R, i, Aligned)
  BY <1>1, <1>2 DEF CompareAndReturn
<1>. HIDE DEF R
<1>6. i \in 0 .. Len(R)
  BY <1>3, FirstHitIsFirst
<1>. HIDE DEF i
<1>7. Read(R, i).from = 0
  <2>1. \A j \in Used(R, i) : 0 <= R[j].at /\ EndOf(R[j]) <= size
    BY <1>3, <1>6 DEF Within, Used
  <2>2. /\ Read(R, i).from \in Int /\ 0 <= Read(R, i).from
        /\ Read(R, i).from <= R[1].at
    BY <1>1, <1>3, <1>4, <1>6, <2>1, ReadIs
  <2>. QED  BY <1>4, <2>2
<1>8. load'.from = 0 /\ load'.vec = v /\ load'.aligned = Aligned
  BY <1>4, <1>5, <1>7 DEF Loaded
<1>9. ASSUME NEW s \in Aligned  PROVE (s + 0) % v = 0
  <2>1. s \in Nat /\ s % ZMM_SZ = 0
    BY <1>1 DEF Aligned, CallInv
  <2>2. ZMM_SZ % v = 0
    BY <1>2, SizesDivide, Sizes
  <2>3. s % v = 0 /\ s + 0 = s
    BY <1>2, <2>1, <2>2, Sizes, AlignedTwice
  <2>. QED  BY <2>3
<1>. QED  BY <1>8, <1>9 DEF NoAlignmentFault

LEMMA MemcmpAligned ==
  ASSUME IInv, NoAlignmentFault, StepMemcmp
  PROVE  NoAlignmentFault'
<1>1. ASSUME SmallAvx2 \/ LargeAvx2 \/ SmallAvx512 \/ LargeAvx512 \/ SmallTunable
      PROVE  load'.aligned = {}
  BY <1>1
  DEF SmallAvx2, LargeAvx2, SmallAvx512, LargeAvx512, SmallTunable, CompareAndReturn,
      CompareAndGoOn, Loaded
<1>2. ASSUME TailAvx2 \/ TailAvx512 \/ TailZen4 \/ TailTunable  PROVE load'.aligned = {}
  BY <1>2 DEF TailAvx2, TailAvx512, TailZen4, TailTunable, CompareTail, Loaded, NoLoad
<1>3. ASSUME LargeZen4 \/ LargeTunable \/ ChooseByThreshold  PROVE load' = load
  BY <1>3 DEF LargeZen4, LargeTunable, ChooseByThreshold
<1>4. ASSUME RepCmps  PROVE load'.aligned = {}
  BY <1>4 DEF RepCmps
<1>5. ASSUME IterateAvx2 \/ IterateAvx512 \/ IterateZen4  PROVE NoAlignmentFault'
  <2>1. pc # "done" /\ routine \in OptimizedMemcmps
    BY <1>5, Looping DEF IterateAvx2, IterateAvx512, IterateZen4, OfMemcmp, OptimizedMemcmps
  <2>2. Aligned = {}
    BY <2>1 DEF Aligned, OptimizedMemcmps, AlignedMemcmps
  <2>3. PICK v \in {YMM_SZ, ZMM_SZ} : CompareGroup(pc, v) \/ CompareReduced(pc, v)
    BY <1>5 DEF IterateAvx2, IterateAvx512, IterateZen4
  <2>4. v \in Nat
    BY Sizes
  <2>. QED  BY <2>1, <2>2, <2>3, <2>4, GroupAligned
<1>. QED
  BY <1>1, <1>2, <1>3, <1>4, <1>5, NoneAligned, LoadLeft, IterateTunableAligned,
     MediumTunableAligned
  DEF StepMemcmp

-----------------------------------------------------------------------------
\* Strings of the same alignment, or the aligned one of two.
LEMMA LockstepAligned ==
  ASSUME IInv, Lockstep4 \/ Lockstep1
  PROVE  NoAlignmentFault'
<1>1. pc \in {"lockstep", "lockstep_1"} /\ pc # "done"
  BY DEF Lockstep4, Lockstep1
<1>2. offset \in Int /\ BothAligned(offset) /\ Vec \in Nat
  BY <1>1, Looping, Sizes DEF OfStrcmp
<1>3. \A s \in Both : (s + offset) % Vec = 0
  BY <1>2 DEF BothAligned, Both
<1>4. PICK k \in Nat : k > 0 /\ CompareOrGoOn(Vecs(offset, k, Vec), Both, offset + k * Vec, pc,
                                              offset + k * Vec)
  <2>1. 1 * Vec = Vec
    BY <1>2
  <2>2. CASE Lockstep4
    <3>1. 4 \in Nat /\ 4 > 0
      OBVIOUS
    <3>. QED  BY <2>2, <3>1 DEF Lockstep4
  <2>3. CASE Lockstep1
    <3>1. 1 \in Nat /\ 1 > 0
      OBVIOUS
    <3>. QED  BY <2>1, <2>3, <3>1 DEF Lockstep1
  <2>. QED  BY <2>2, <2>3
<1>. QED  BY <1>2, <1>3, <1>4, ComparedAligned

LEMMA ChunkAligned ==
  ASSUME IInv, Chunk4 \/ Chunk1
  PROVE  NoAlignmentFault'
<1>1. pc \in {"chunk_4", "chunk_1"}
  BY DEF Chunk4, Chunk1
<1>2. offset \in Int /\ SomeAligned(offset) /\ Vec \in Nat
  BY <1>1, InChunk, Sizes
<1>3. \A s \in {aligned_str} : (s + offset) % Vec = 0
  BY <1>2 DEF SomeAligned, aligned_str
<1>4. PICK k \in Nat : k > 0 /\ Loaded(Vecs(offset, k, Vec), FirstHit(Vecs(offset, k, Vec)),
                                       {aligned_str})
  <2>1. 4 \in Nat /\ 4 > 0 /\ 1 \in Nat /\ 1 > 0
    OBVIOUS
  <2>. QED  BY <2>1 DEF Chunk4, Chunk1
<1>5. FirstHit(Vecs(offset, k, Vec)) \in 0 .. k
  BY <1>2, HitOfVecs
<1>. QED  BY <1>2, <1>3, <1>4, <1>5, VecsAligned

LEMMA Zen4Aligned ==
  ASSUME IInv, NoAlignmentFault, RampZen4 \/ VecsZen4
  PROVE  NoAlignmentFault'
<1>1. pc \in {"zen4_ramp", "zen4_page", "zen4_vecs"}
  BY DEF RampZen4, VecsZen4
<1>2. /\ offset \in Int /\ ZMM_SZ \in Nat /\ (SameAlignment => BothAligned(offset))
      /\ Vec = ZMM_SZ /\ OfStrcmp(pc, offset, vecs)
  BY <1>1, InZen4, Sizes
<1>3. SameAlignment => \A s \in Both : (s + offset) % ZMM_SZ = 0
  BY <1>2 DEF BothAligned, Both
<1>4. CASE RampZen4
  <2>1. SameAlignment
    BY <1>2, <1>4 DEF OfStrcmp, RampZen4
  <2>2. \/ load' = load
        \/ CompareOrGoOn(Vecs(offset, 3, ZMM_SZ), Both, 0, "zen4_page", offset + 3 * ZMM_SZ)
    BY <1>4 DEF RampZen4
  <2>3. PICK k \in Nat : k = 3 /\ k > 0
    OBVIOUS
  <2>4. \/ load' = load
        \/ CompareOrGoOn(Vecs(offset, k, ZMM_SZ), Both, 0, "zen4_page", offset + 3 * ZMM_SZ)
    BY <2>2, <2>3
  <2>. QED  BY <1>2, <1>3, <2>1, <2>3, <2>4, LoadLeft, ComparedAligned
<1>5. CASE VecsZen4
  <2>1. PICK k \in Nat : k > 0 /\ Loaded(Vecs(offset, k, ZMM_SZ), 0,
                                         IF SameAlignment THEN Both ELSE {})
    <3>1. 4 \in Nat /\ 4 > 0 /\ 1 \in Nat /\ 1 > 0
      OBVIOUS
    <3>. QED  BY <1>5, <3>1 DEF VecsZen4
  <2>2. PICK al : al = IF SameAlignment THEN Both ELSE {}
    OBVIOUS
  <2>3. \A s \in al : (s + offset) % ZMM_SZ = 0
    BY <1>3, <2>2
  <2>4. 0 \in 0 .. k /\ Loaded(Vecs(offset, k, ZMM_SZ), 0, al)
    BY <2>1, <2>2
  <2>. QED  BY <1>2, <2>1, <2>3, <2>4, VecsAligned
<1>. QED  BY <1>4, <1>5

LEMMA StrcmpAligned ==
  ASSUME IInv, NoAlignmentFault, StepStrcmp
  PROVE  NoAlignmentFault'
<1>1. ASSUME \/ StartEmpty \/ StartNearAvx2 \/ StartVeryNearAvx2 \/ StartAvx2
             \/ StartNearAvx512 \/ StartAvx512
      PROVE  load'.aligned = {}
  BY <1>1
  DEF StartEmpty, StartNearAvx2, StartVeryNearAvx2, StartAvx2, StartNearAvx512, StartAvx512,
      CompareOrGoOn, Loaded, NoLoad
<1>2. ASSUME CrossPage \/ StartZen4 \/ CrossPageZen4 \/ ReachSizeZen4
      PROVE  load'.aligned = {}
  BY <1>2 DEF CrossPage, StartZen4, CrossPageZen4, ReachSizeZen4, CompareOrGoOn, Loaded, NoLoad
<1>3. ASSUME LeaveLockstep4 \/ EnterChunk \/ LeaveChunk4 \/ PageZen4 \/ LeaveVecsZen4
      PROVE  load' = load
  BY <1>3 DEF LeaveLockstep4, EnterChunk, LeaveChunk4, PageZen4, LeaveVecsZen4
<1>. QED
  BY <1>1, <1>2, <1>3, NoneAligned, LoadLeft, LockstepAligned, ChunkAligned, Zen4Aligned
  DEF StepStrcmp

-----------------------------------------------------------------------------
\* The vectors of the aligned loops, and the two kinds in front of them.
LEMMA ScanLoopAligned ==
  ASSUME IInv, VectorAvx512 \/ GroupAvx2 \/ GroupAvx512 \/ IterateMemchr
  PROVE  NoAlignmentFault'
<1>1. pc \in {"scan_vecs", "scan_groups", "memchr_loop"} /\ pc \in ScanLoops
  BY DEF VectorAvx512, GroupAvx2, GroupAvx512, IterateMemchr, ScanLoops
<1>2. offset \in Int /\ (str1 + offset) % ScanVec = 0 /\ ScanVec \in Nat /\ OfScan(pc, offset)
  BY <1>1, InScan, Sizes DEF OfScan
<1>3. PICK k \in Nat :
        k > 0 /\ \E path, next : FindOrGoOn(Vecs(offset, k, ScanVec), {str1}, path, next)
  <2>1. 4 \in Nat /\ 4 > 0 /\ 1 \in Nat /\ 1 > 0
    OBVIOUS
  <2>2. VectorAvx512 => routine \in Avx512Scans
    BY <1>2 DEF VectorAvx512, OfScan
  <2>3. CASE VectorAvx512 \/ GroupAvx512
    <3>1. ScanVec = ZMM_SZ
      BY <2>2, <2>3, ScanFamilies DEF GroupAvx512
    <3>. QED  BY <2>1, <2>3, <3>1 DEF VectorAvx512, GroupAvx512
  <2>4. CASE GroupAvx2
    <3>1. ScanVec = YMM_SZ
      BY <2>4, ScanFamilies DEF GroupAvx2
    <3>. QED  BY <2>1, <2>4, <3>1 DEF GroupAvx2
  <2>5. CASE IterateMemchr
    BY <2>1, <2>5 DEF IterateMemchr
  <2>. QED  BY <2>3, <2>4, <2>5
<1>. QED  BY <1>2, <1>3, ComparedAligned

LEMMA EvenAligned ==
  ASSUME IInv, NoAlignmentFault, LineAvx2 \/ PairAvx2
  PROVE  NoAlignmentFault'
<1>1. pc \in {"scan_line", "scan_pair"} /\ pc \in ScanLoops
  BY DEF LineAvx2, PairAvx2, ScanLoops
<1>2. PICK v \in Nat : v = YMM_SZ /\ v > 0
  BY Sizes
<1>3. /\ offset \in Int /\ ScanVec = v /\ str1 \in Nat /\ OfScan(pc, offset)
      /\ (str1 + Trailing) % v = 0
  BY <1>1, <1>2, InScan, ScanFamilies DEF OfScan
<1>4. (str1 + offset) % v = 0
  <2>1. CASE pc = "scan_line"
    BY <1>3, <2>1 DEF OfScan
  <2>2. CASE pc = "scan_pair"
    <3>1. PICK w \in Nat : w = 2 * v /\ w > 0
      BY <1>2
    <3>2. offset = w - (str1 % w)
      BY <1>2, <1>3, <2>2, <3>1 DEF OfScan
    <3>3. (str1 + offset) % w = 0
      BY <1>3, <3>1, <3>2, RoundedUp
    <3>4. w % v = 0
      BY <1>2, <3>1, MultipleIsAligned
    <3>5. PICK x \in Int : x = str1 + offset
      BY <1>3
    <3>. QED  BY <1>2, <3>1, <3>3, <3>4, <3>5, AlignedTwice
  <2>. QED  BY <1>1, <2>1, <2>2
<1>5. CASE LineAvx2
  <2>1. PICK al : /\ al \subseteq {str1}
                  /\ \/ load' = load
                     \/ CompareOrGoOn(Vecs(offset, 1, v), al, offset + YMM_SZ - 1, "scan_pair",
                                      offset + YMM_SZ)
    BY <1>2, <1>5 DEF LineAvx2
  <2>2. \A s \in al : (s + offset) % v = 0
    BY <1>4, <2>1
  <2>3. 1 \in Nat /\ 1 > 0
    OBVIOUS
  <2>. QED  BY <1>2, <1>3, <2>1, <2>2, <2>3, LoadLeft, ComparedAligned
<1>6. CASE PairAvx2
  <2>1. PICK k \in Nat : k = 2 /\ k > 0
    OBVIOUS
  <2>2. \/ load' = load
        \/ FindOrGoOn(Vecs(offset, k, v), {str1}, "scan_groups", offset + 2 * YMM_SZ)
    BY <1>2, <1>6, <2>1 DEF PairAvx2
  <2>. QED  BY <1>2, <1>3, <1>4, <2>1, <2>2, LoadLeft, ComparedAligned
<1>. QED  BY <1>5, <1>6

LEMMA FirstVectorAligned ==
  ASSUME IInv, StartMemchrAtPageEndAvx2
  PROVE  NoAlignmentFault'
<1>1. /\ routine = "memchr_avx2" /\ str1 \in Nat /\ Leading \in Int
      /\ YMM_SZ \in Nat /\ YMM_SZ > 0
  BY Started, LeadingIs, Sizes DEF StartMemchrAtPageEndAvx2, CallInv
<1>2. ScanVec = YMM_SZ
  BY <1>1, ScanFamilies DEF Avx2Memchrs
<1>3. (str1 + (-Leading)) % YMM_SZ = 0
  <2>1. (str1 - (str1 % YMM_SZ)) % YMM_SZ = 0
    BY <1>1, RoundedDown
  <2>2. str1 - (str1 % YMM_SZ) = str1 + (-Leading)
    BY <1>1, <1>2 DEF Leading
  <2>. QED  BY <2>1, <2>2
<1>4. PICK k \in Nat, o \in Int :
        /\ k > 0 /\ o = -Leading
        /\ CompareOrGoOn(Vecs(o, k, YMM_SZ), {str1}, Trailing + YMM_SZ, "memchr_rest", 0)
  <2>1. 1 \in Nat /\ 1 > 0 /\ 2 \in Nat /\ 2 > 0 /\ -Leading \in Int
    BY <1>1
  <2>. QED  BY <2>1 DEF StartMemchrAtPageEndAvx2
<1>. QED  BY <1>1, <1>3, <1>4, ComparedAligned

LEMMA ScanAligned ==
  ASSUME IInv, NoAlignmentFault, StepScan
  PROVE  NoAlignmentFault'
<1>1. ASSUME \/ ScanNothing \/ StartScanAtPageEndAvx2 \/ StartScanAvx2 \/ LastScanAvx2
             \/ StartScanAtPageEndAvx512 \/ StartScanAvx512
      PROVE  load'.aligned = {}
  BY <1>1
  DEF ScanNothing, StartScanAtPageEndAvx2, StartScanAvx2, LastScanAvx2,
      StartScanAtPageEndAvx512, StartScanAvx512, CompareOrGoOn, NothingLeft, Loaded, NoLoad
<1>2. ASSUME \/ SmallMemchrStrict \/ StartMemchrAvx2 \/ SmallMemchrAvx512 \/ MediumMemchr
             \/ LargeMemchr \/ TailMemchr
      PROVE  load'.aligned = {}
  BY <1>2
  DEF SmallMemchrStrict, StartMemchrAvx2, SmallMemchrAvx512, MediumMemchr, LargeMemchr,
      TailMemchr, CompareOrGoOn, CompareAndReturn, FindOrGoOn, FindAndReturn, NothingLeft,
      Loaded, NoLoad
<1>3. ASSUME LeaveVectorsAvx512  PROVE load' = load
  BY <1>3 DEF LeaveVectorsAvx512
<1>4. ASSUME LastScanAvx512  PROVE NoAlignmentFault'
  <2>1. pc = "scan_groups" /\ pc \in ScanLoops /\ routine \in Avx512Scans
    BY <1>4 DEF LastScanAvx512, ScanLoops
  <2>2. offset \in Int /\ (str1 + offset) % ZMM_SZ = 0 /\ ZMM_SZ \in Nat
    BY <2>1, InScan, ScanFamilies, Sizes DEF OfScan
  <2>3. \/ FindOrGoOn(Vecs(offset, 1, ZMM_SZ), {str1}, pc, offset + ZMM_SZ)
        \/ load'.aligned = {}
    BY <1>4 DEF LastScanAvx512, CompareAndReturn, NothingLeft, Loaded, NoLoad
  <2>4. 1 \in Nat /\ 1 > 0
    OBVIOUS
  <2>. QED  BY <2>2, <2>3, <2>4, NoneAligned, ComparedAligned
<1>. QED
  BY <1>1, <1>2, <1>3, <1>4, NoneAligned, LoadLeft, ScanLoopAligned, EvenAligned,
     FirstVectorAligned
  DEF StepScan

-----------------------------------------------------------------------------
LEMMA SpanLoopAligned ==
  ASSUME IInv, SpanPair \/ SpanVector
  PROVE  NoAlignmentFault'
<1>1. pc \in {"span_pairs", "span_vecs"} /\ pc \in SpanLoops
  BY DEF SpanPair, SpanVector, SpanLoops
<1>2. offset \in Int /\ OfStrspn(pc, offset) /\ XMM_SZ \in Nat /\ SpanVec \in Nat
  BY <1>1, InSpan, Sizes DEF SpanVec
<1>3. 1 \in Nat /\ 1 > 0 /\ 2 \in Nat /\ 2 > 0
  OBVIOUS
<1>4. CASE SpanPair
  <2>1. (str1 + offset) % XMM_SZ = 0
    BY <1>2, <1>4 DEF OfStrspn, SpanPair
  <2>2. PICK k \in Nat : k > 0 /\ SpanOrGoOn(Vecs(offset, k, XMM_SZ), {str1}, pc,
                                             offset + 2 * XMM_SZ)
    BY <1>3, <1>4 DEF SpanPair
  <2>. QED  BY <1>2, <2>1, <2>2, ComparedAligned
<1>5. CASE SpanVector
  <2>1. (str1 + offset) % SpanVec = 0
    BY <1>2, <1>5 DEF OfStrspn, SpanVector
  <2>2. PICK k \in Nat : k > 0 /\ SpanOrGoOn(Vecs(offset, k, SpanVec), {str1}, pc,
                                             offset + SpanVec)
    BY <1>3, <1>5 DEF SpanVector
  <2>. QED  BY <1>2, <2>1, <2>2, ComparedAligned
<1>. QED  BY <1>4, <1>5

LEMMA SpanOneByteAligned ==
  ASSUME IInv, SpanOneByte
  PROVE  NoAlignmentFault'
<1>1. PICK v \in {XMM_SZ, YMM_SZ, ZMM_SZ} : v = SpanVec
  BY DEF SpanVec
<1>2. /\ v \in Nat /\ v > 0 /\ UpToNext(v) \in Int /\ (str1 + UpToNext(v)) % v = 0
      /\ str1 \in Nat
  BY StartedSpan, UpToNextIs, Sizes DEF SpanOneByte
<1>3. PICK o \in Int : o = UpToNext(v) - v
  BY <1>2
<1>4. (str1 + o) % v = 0
  <2>1. PICK x \in Int : x = str1 + UpToNext(v)
    BY <1>2
  <2>2. v % v = 0
    BY <1>2, DivMod, MultipleIsAligned
  <2>3. (x - v) % v = 0
    BY <1>2, <2>1, <2>2, AlignedSum
  <2>. QED  BY <1>2, <1>3, <2>1, <2>3
<1>5. PICK k \in Nat : k > 0 /\ SpanOrGoOn(Vecs(o, k, v), {str1}, "span_vecs", UpToNext(v))
  <2>1. 1 \in Nat /\ 1 > 0
    OBVIOUS
  <2>. QED  BY <1>1, <1>3, <2>1 DEF SpanOneByte
<1>. QED  BY <1>2, <1>4, <1>5, ComparedAligned

LEMMA StrspnAligned ==
  ASSUME IInv, StepStrspn
  PROVE  NoAlignmentFault'
<1>1. ASSUME SpanNothing \/ LoadAccept \/ SpanIndex \/ SpanFourBytes \/ SpanFirstVector
      PROVE  load'.aligned = {}
  BY <1>1
  DEF SpanNothing, LoadAccept, SpanIndex, SpanFourBytes, SpanFirstVector, SpanOrGoOn, Loaded,
      NoLoad
<1>. QED  BY <1>1, NoneAligned, SpanLoopAligned, SpanOneByteAligned DEF StepStrspn

LEMMA StrstrAligned ==
  ASSUME StepStrstr
  PROVE  NoAlignmentFault'
<1>1. load'.aligned = {}
  BY DEF StepStrstr, SearchShort, SearchFirstBlock, SearchBlock, SearchOrGoOn, Loaded, NoLoad
<1>. QED  BY <1>1, NoneAligned

-----------------------------------------------------------------------------
\* No aligned load of a comparison or a search is made at an address that is not aligned.
THEOREM NoAlignmentFaults == Spec => []NoAlignmentFault
<1>1. ReadInit => NoAlignmentFault
  BY DEF ReadInit, Init, NoAlignmentFault, NoLoad
<1>2. IInv /\ NoAlignmentFault /\ [Next]_readVars => NoAlignmentFault'
  <2>. SUFFICES ASSUME IInv, NoAlignmentFault, [Next]_readVars
                PROVE  NoAlignmentFault'
    OBVIOUS
  <2>1. CASE Step
    BY <2>1, MemcmpAligned, StrcmpAligned, ScanAligned, StrspnAligned, StrstrAligned DEF Step
  <2>2. CASE UNCHANGED readVars
    BY <2>2, LoadLeft DEF readVars, vars
  <2>. QED  BY <2>1, <2>2 DEF Next, Returned
<1>3. Spec => []IInv
  BY ReadInvariant
<1>. QED  BY <1>1, <1>2, <1>3, PTL DEF Spec

-----------------------------------------------------------------------------
(***************************************************************************)
(* Loads in the caller's buffers.                                          *)
(***************************************************************************)
LoadsInside == load'.from \in Nat /\ load'.to \in Nat /\ load'.to <= size

\* Registers that lie in the size bytes.
Fits(R) == R \in Seq(Registers) /\ Len(R) > 0 /\ Within(R, 0, size)

LEMMA LoadFits ==
  ASSUME size \in Nat, NEW R, Fits(R), NEW i \in 0 .. Len(R), NEW al, Loaded(R, i, al)
  PROVE  LoadsInside
<1>1. R \in Seq(Registers) /\ Len(R) > 0 /\ 0 \in Int /\ size \in Int
  BY DEF Fits
<1>2. \A j \in Used(R, i) : 0 <= R[j].at /\ EndOf(R[j]) <= size
  BY DEF Fits, Within, Used
<1>3. Read(R, i).from \in Nat /\ Read(R, i).to \in Nat /\ Read(R, i).to <= size
  BY <1>1, <1>2, ReadIs
<1>. QED  BY <1>3 DEF Loaded, LoadsInside

LEMMA LookFits ==
  ASSUME size \in Nat, NEW R, Fits(R), NEW al, NEW cov, NEW path, NEW next,
         \/ CompareOrGoOn(R, al, cov, path, next)
         \/ FindOrGoOn(R, al, path, next)
         \/ CompareAndReturn(R, al)
         \/ FindAndReturn(R)
         \/ CompareAndGoOn(R, path, next)
         \/ offset # size /\ CompareTail(R)
  PROVE  LoadsInside
<1>1. FirstHit(R) \in 0 .. Len(R) /\ 0 \in 0 .. Len(R)
  BY FirstHitIsFirst DEF Fits
<1>2. PICK i \in 0 .. Len(R) : \E b : Loaded(R, i, b)
  BY <1>1
  DEF CompareOrGoOn, FindOrGoOn, CompareAndReturn, FindAndReturn, CompareAndGoOn, CompareTail
<1>. QED  BY <1>2, LoadFits

LEMMA VecsFit ==
  ASSUME size \in Nat, NEW o \in Nat, NEW k \in Nat, k > 0, NEW v \in Nat, o + k * v <= size
  PROVE  Fits(Vecs(o, k, v))
<1>1. Within(Vecs(o, k, v), o, size)
  BY VecsWithin
<1>2. Vecs(o, k, v) \in Seq(Registers) /\ Len(Vecs(o, k, v)) = k
  BY VecsAre
<1>3. Within(Vecs(o, k, v), 0, size)
  BY <1>1, <1>2, WithinMore
<1>. QED  BY <1>2, <1>3 DEF Fits

LEMMA EndsFit ==
  ASSUME size \in Nat, NEW k \in Nat, k > 0, NEW v \in Nat, k * v <= size, size <= 2 * (k * v)
  PROVE  Fits(EndVecs(size, k, v))
<1>1. Covers(EndVecs(size, k, v), 0, size)
  BY EndsCover
<1>2. Within(EndVecs(size, k, v), 0, size)
  BY EndsWithin
<1>. QED  BY <1>1, <1>2 DEF Fits, Covers

LEMMA LastFits ==
  ASSUME size \in Nat, NEW k \in Nat, k > 0, NEW v \in Nat, k * v <= size
  PROVE  Fits(LastVecs(size, k, v))
<1>1. Within(LastVecs(size, k, v), 0, size) /\ LastVecs(size, k, v) \in Seq(Registers)
  BY LastWithin
<1>2. Len(LastVecs(size, k, v)) = k
  BY VecsAre DEF LastVecs
<1>. QED  BY <1>1, <1>2 DEF Fits

LEMMA NarrowFit ==
  ASSUME size \in Nat
  PROVE  /\ size <= ZMM_SZ => Fits(WidestEnds(size))
         /\ size <= 2 * ZMM_SZ => Fits(NarrowestEnds(size))
BY WidestCover, NarrowestCover DEF Fits, Covers

-----------------------------------------------------------------------------
LEMMA SmallMemcmpInside ==
  ASSUME IInv, SmallAvx2 \/ SmallAvx512 \/ SmallTunable \/ MediumTunable
  PROVE  LoadsInside
<1>1. size \in Nat
  BY DEF IInv, CallInv
<1>2. ASSUME NEW k \in {1, 2}, NEW v \in Nat, k * v <= size, size <= 2 * (k * v)
      PROVE  Fits(EndVecs(size, k, v))
  BY <1>1, <1>2, EndsFit
<1>3. CASE SmallAvx2
  <2> DEFINE R == IF size < YMM_SZ THEN WidestEnds(size)
                  ELSE IF size <= 2 * YMM_SZ THEN EndVecs(size, 1, YMM_SZ)
                  ELSE EndVecs(size, 2, YMM_SZ)
  <2>1. CompareAndReturn(R, {}) /\ size <= 4 * YMM_SZ
    BY <1>3 DEF SmallAvx2
  <2>2. Fits(R)
    <3>1. CASE size < YMM_SZ
      BY <1>1, <3>1, NarrowFit, Sizes
    <3>2. CASE ~(size < YMM_SZ) /\ size <= 2 * YMM_SZ
      BY <1>1, <1>2, <3>2, Sizes
    <3>3. CASE ~(size < YMM_SZ) /\ ~(size <= 2 * YMM_SZ)
      BY <1>1, <1>2, <2>1, <3>3, Sizes
    <3>. QED  BY <3>1, <3>2, <3>3
  <2>. HIDE DEF R
  <2>. QED  BY <1>1, <2>1, <2>2, LookFits
<1>4. CASE SmallAvx512
  <2> DEFINE R == IF size <= ZMM_SZ THEN Vecs(0, 1, size)
                  ELSE IF size <= 2 * ZMM_SZ THEN EndVecs(size, 1, ZMM_SZ)
                  ELSE EndVecs(size, 2, ZMM_SZ)
  <2>1. CompareAndReturn(R, {}) /\ size <= 4 * ZMM_SZ
    BY <1>4 DEF SmallAvx512
  <2>2. Fits(R)
    <3>1. CASE size <= ZMM_SZ
      BY <1>1, <3>1, VecsFit
    <3>2. CASE ~(size <= ZMM_SZ) /\ size <= 2 * ZMM_SZ
      BY <1>1, <1>2, <3>2, Sizes
    <3>3. CASE ~(size <= ZMM_SZ) /\ ~(size <= 2 * ZMM_SZ)
      BY <1>1, <1>2, <2>1, <3>3, Sizes
    <3>. QED  BY <3>1, <3>2, <3>3
  <2>. HIDE DEF R
  <2>. QED  BY <1>1, <2>1, <2>2, LookFits
<1>5. CASE SmallTunable
  <2> DEFINE R == IF routine \in TunableAvx2 THEN WidestEnds(size) ELSE NarrowestEnds(size)
  <2>1. CompareAndReturn(R, {})
    BY <1>5 DEF SmallTunable
  <2>2. Fits(R)
    BY <1>1, <1>5, NarrowFit, Sizes DEF SmallTunable, Vector
  <2>. HIDE DEF R
  <2>. QED  BY <1>1, <2>1, <2>2, LookFits
<1>6. CASE MediumTunable
  <2>1. /\ CompareAndReturn(EndVecs(size, 2, Vector), Aligned)
        /\ 2 * Vector < size /\ size <= 4 * Vector
    BY <1>6 DEF MediumTunable
  <2>2. Fits(EndVecs(size, 2, Vector))
    BY <1>1, <1>2, <2>1, Sizes
  <2>. QED  BY <1>1, <2>1, <2>2, LookFits
<1>. QED  BY <1>3, <1>4, <1>5, <1>6

LEMMA GroupInside ==
  ASSUME IInv, pc # "done", NEW v \in Nat, offset + 4 * v <= size,
         NEW path, CompareGroup(path, v) \/ CompareReduced(path, v)
  PROVE  LoadsInside
<1>1. offset \in Nat /\ size \in Nat
  BY Looping
<1>2. Fits(Vecs(offset, 4, v))
  BY <1>1, VecsFit
<1>3. PICK i \in 0 .. Len(Vecs(offset, 4, v)) : Loaded(Vecs(offset, 4, v), i, Aligned)
  <2>1. FirstHit(Vecs(offset, 4, v)) \in 0 .. Len(Vecs(offset, 4, v))
    BY <1>2, FirstHitIsFirst DEF Fits
  <2>2. 0 \in 0 .. Len(Vecs(offset, 4, v))
    BY <1>2 DEF Fits
  <2>. QED  BY <2>1, <2>2 DEF CompareGroup, CompareReduced
<1>. QED  BY <1>1, <1>2, <1>3, LoadFits

LEMMA LargeMemcmpInside ==
  ASSUME IInv, LargeAvx2 \/ LargeAvx512
  PROVE  LoadsInside
<1>1. size \in Nat
  BY DEF IInv, CallInv
<1>2. PICK k \in Nat, v \in Nat :
        /\ k > 0 /\ k * v <= size
        /\ \E path, next : CompareAndGoOn(Vecs(0, k, v), path, next)
  <2>1. 4 \in Nat /\ 4 > 0 /\ 1 \in Nat /\ 1 > 0
    OBVIOUS
  <2>2. CASE LargeAvx2
    <3>1. 4 * YMM_SZ <= size /\ YMM_SZ \in Nat
      BY <1>1, <2>2, Sizes DEF LargeAvx2
    <3>. QED  BY <2>1, <2>2, <3>1 DEF LargeAvx2
  <2>3. CASE LargeAvx512
    <3>1. 1 * ZMM_SZ <= size /\ ZMM_SZ \in Nat
      BY <1>1, <2>3, Sizes DEF LargeAvx512
    <3>. QED  BY <2>1, <2>3, <3>1 DEF LargeAvx512
  <2>. QED  BY <2>2, <2>3
<1>3. 0 + k * v <= size
  BY <1>2
<1>4. Fits(Vecs(0, k, v))
  BY <1>1, <1>2, <1>3, VecsFit
<1>. QED  BY <1>1, <1>2, <1>4, LookFits

LEMMA IterateMemcmpInside ==
  ASSUME IInv, IterateAvx2 \/ IterateAvx512 \/ IterateZen4 \/ IterateTunable
  PROVE  LoadsInside
<1>1. pc # "done"
  BY DEF IterateAvx2, IterateAvx512, IterateZen4, IterateTunable
<1>2. offset \in Nat /\ size \in Nat /\ OfMemcmp(pc, offset)
  BY <1>1, Looping
<1>3. PICK v \in Nat :
        offset + 4 * v <= size /\ (CompareGroup(pc, v) \/ CompareReduced(pc, v))
  <2>1. CASE IterateAvx2
    <3>1. PICK w \in Nat : w = 4 * YMM_SZ /\ w > 0
      BY Sizes
    <3>2. offset % w = 0 /\ CompareGroup(pc, YMM_SZ)
      BY <1>2, <2>1, <3>1 DEF IterateAvx2, OfMemcmp
    <3>3. WholeGroups \in Int /\ WholeGroups % w = 0 /\ WholeGroups <= size
      BY <1>2, <3>1, RoundedDown, DivMod DEF WholeGroups
    <3>4. offset + w <= WholeGroups
      BY <1>2, <2>1, <3>1, <3>2, <3>3, AlignedGap DEF IterateAvx2
    <3>5. offset + 4 * YMM_SZ <= size
      BY <1>2, <3>1, <3>3, <3>4
    <3>. QED  BY <3>2, <3>5, Sizes
  <2>2. CASE IterateAvx512
    BY <1>2, <2>2, Sizes DEF IterateAvx512
  <2>3. CASE IterateZen4
    BY <1>2, <2>3, Sizes DEF IterateZen4
  <2>4. CASE IterateTunable
    BY <1>2, <2>4, Sizes DEF IterateTunable, MoreGroups
  <2>. QED  BY <2>1, <2>2, <2>3, <2>4
<1>. QED  BY <1>1, <1>3, GroupInside

\* The last vectors, as many as a loop has left, reach back to bytes of the buffers.
LEMMA TailMemcmpInside ==
  ASSUME IInv, TailAvx2 \/ TailAvx512 \/ TailZen4 \/ TailTunable
  PROVE  LoadsInside
<1>1. pc # "done"
  BY DEF TailAvx2, TailAvx512, TailZen4, TailTunable
<1>2. offset \in Nat /\ size \in Nat /\ OfMemcmp(pc, offset)
  BY <1>1, Looping
<1>3. ASSUME NEW v \in Nat, v > 0, v <= offset \/ 8 * v < size, offset < size,
             size - 4 * v <= offset
      PROVE  Fits(LastVecs(size, rem_vecs(v), v))
  <2>1. /\ rem_vecs(v) \in Nat /\ rem_vecs(v) > 0
        /\ size - rem_vecs(v) * v <= offset /\ offset - v < size - rem_vecs(v) * v
    BY <1>2, <1>3, RemVecs
  <2>2. PICK x \in Int : x = rem_vecs(v) * v
    BY <2>1
  <2>3. x <= size
    BY <1>2, <1>3, <2>1, <2>2
  <2>. QED  BY <1>2, <2>1, <2>2, <2>3, LastFits
<1>4. PICK R : CompareTail(R) /\ (offset < size => Fits(R)) /\ offset <= size
  <2>1. ASSUME NEW v \in Nat, 4 * v <= size  PROVE Fits(LastVecs(size, 4, v))
    BY <1>2, <2>1, LastFits
  <2>2. CASE TailAvx2
    <3>1. 4 * YMM_SZ <= size /\ offset <= size
      BY <1>2, <2>2, Sizes DEF TailAvx2, OfMemcmp
    <3>. QED  BY <2>1, <2>2, <3>1, Sizes DEF TailAvx2
  <2>3. CASE TailTunable
    <3>1. 4 * Vector <= size /\ offset <= size
      BY <1>2, <2>3, Sizes DEF TailTunable, OfMemcmp
    <3>. QED  BY <2>1, <2>3, <3>1, Sizes DEF TailTunable
  <2>4. CASE TailAvx512
    <3>1. ZMM_SZ <= offset /\ offset <= size
      BY <1>2, <2>4 DEF TailAvx512, OfMemcmp
    <3>2. offset < size => Fits(LastVecs(size, rem_vecs(ZMM_SZ), ZMM_SZ))
      BY <1>3, <2>4, <3>1, Sizes DEF TailAvx512
    <3>. QED  BY <2>4, <3>1, <3>2 DEF TailAvx512
  <2>5. CASE TailZen4
    <3>1. 8 * YMM_SZ < size /\ offset <= size
      BY <1>2, <2>5, Sizes DEF TailZen4, OfMemcmp
    <3>2. offset < size => Fits(LastVecs(size, rem_vecs(YMM_SZ), YMM_SZ))
      BY <1>3, <2>5, <3>1, Sizes DEF TailZen4
    <3>. QED  BY <2>5, <3>1, <3>2 DEF TailZen4
  <2>. QED  BY <2>2, <2>3, <2>4, <2>5
<1>5. CASE offset = size
  BY <1>2, <1>4, <1>5 DEF CompareTail, NoLoad, LoadsInside
<1>6. CASE offset # size
  BY <1>2, <1>4, <1>6, LookFits
<1>. QED  BY <1>5, <1>6

-----------------------------------------------------------------------------
\* rep cmps, where a unit is a byte and there is one.
LEMMA RepCmpsInside ==
  ASSUME IInv, IntSizes, RepCmps, OutsideRepCmps
  PROVE  LoadsInside
<1>1. /\ routine \in ErmsMemcmps /\ CallInv /\ size \in Nat /\ first \in Nat
      /\ Unit = 1 /\ size > 0
  BY Started DEF RepCmps, OutsideRepCmps
<1>2. ToInt(size) = size
  <2>1. size < IntSpan \div 2
    BY <1>1 DEF CallInv, IntSized
  <2>. QED  BY <1>1, <2>1, ToIntIs
<1>3. ToInt(size) \div Unit = size /\ first \div Unit = first
  BY <1>1, <1>2
<1>4. PICK e \in Nat : e = Min({size, first + 1}) /\ 0 < e /\ e <= size
  BY <1>1 DEF Min
<1>5. Min({0, e - 1}) = 0
  <2>1. PICK d \in Nat : d = e - 1
    BY <1>4
  <2>2. Min({0, d}) = 0
    BY DEF Min
  <2>. QED  BY <2>1, <2>2
<1>6. load' = [from |-> Min({0, e - 1}), to |-> e, vec |-> 1, aligned |-> {}]
  <2>1. Unit * Min({ToInt(size) \div Unit, (first \div Unit) + 1}) = e
    BY <1>1, <1>3, <1>4
  <2>. QED  BY <1>1, <2>1 DEF RepCmps
<1>. QED  BY <1>4, <1>5, <1>6 DEF LoadsInside

\* memchr built with strict bounds.
LEMMA StartMemchrInside ==
  ASSUME IInv, Strict, SmallMemchrStrict \/ StartMemchrAvx2 \/ SmallMemchrAvx512
  PROVE  LoadsInside
<1>1. size \in Nat
  BY DEF IInv, CallInv
<1>2. CASE SmallMemchrStrict
  <2> DEFINE T == { r \in NarrowRegs : r < YMM_SZ /\ r <= size }
             R == IF size <= 3 THEN Vecs(0, size, 1) ELSE EndVecs(size, 1, Max(T))
  <2>1. 0 < size /\ size <= YMM_SZ /\ CompareAndReturn(R, {})
    BY <1>2 DEF SmallMemchrStrict
  <2>2. Fits(R)
    <3>1. CASE size <= 3
      BY <1>1, <2>1, <3>1, VecsFit
    <3>2. CASE size > 3
      <4>1. Covers(R, 0, size)
        BY <1>1, <2>1, StrictCover
      <4>2. Max(T) \in Nat /\ Max(T) <= size
        <5>1. T \subseteq 0 .. size
          <6>1. NarrowRegs \subseteq Nat
            BY SpanAssumption
          <6>2. \A r \in T : r \in 0 .. size
            BY <1>1, <6>1
          <6>. QED  BY <6>2
        <5>2. Max(T) \in T
          <6>1. PICK s \in NarrowRegs : s <= size /\ s # size
            BY <1>1, <2>1, <3>2, Sizes, RegsAssumption
          <6>2. s \in Nat /\ s < YMM_SZ
            BY <1>1, <2>1, <6>1, Sizes, SpanAssumption
          <6>3. s \in T
            BY <6>1, <6>2
          <6>4. T # {}
            BY <6>3
          <6>. HIDE DEF T
          <6>. QED  BY <1>1, <5>1, <6>4, MaxOfNats
        <5>. QED  BY <1>1, <5>1, <5>2
      <4>3. PICK m \in Nat : m = Max(T) /\ 1 * m <= size
        BY <4>2
      <4>4. Within(EndVecs(size, 1, m), 0, size)
        BY <1>1, <4>3, EndsWithin
      <4>5. R = EndVecs(size, 1, m)
        BY <1>1, <3>2, <4>3
      <4>. HIDE DEF R
      <4>. QED  BY <4>1, <4>4, <4>5 DEF Fits, Covers
    <3>. QED  BY <1>1, <3>1, <3>2
  <2>. HIDE DEF R
  <2>. QED  BY <1>1, <2>1, <2>2, LookFits
<1>3. CASE StartMemchrAvx2
  <2>1. 0 + 1 * YMM_SZ <= size
    BY <1>1, <1>3, Sizes DEF StartMemchrAvx2
  <2>2. Fits(Vecs(0, 1, YMM_SZ))
    BY <1>1, <2>1, VecsFit, Sizes
  <2>. QED  BY <1>1, <1>3, <2>2, LookFits DEF StartMemchrAvx2
<1>4. CASE SmallMemchrAvx512
  <2>1. CompareOrGoOn(Vecs(0, 1, size), {}, size, pc, 0)
    BY <1>4 DEF SmallMemchrAvx512
  <2>2. Fits(Vecs(0, 1, size))
    BY <1>1, VecsFit
  <2>. QED  BY <1>1, <2>1, <2>2, LookFits
<1>. QED  BY <1>2, <1>3, <1>4

LEMMA MemchrInside ==
  ASSUME IInv, MediumMemchr \/ LargeMemchr \/ IterateMemchr \/ TailMemchr
  PROVE  LoadsInside
<1>0. PICK v \in Nat : v = ScanVec /\ v > 0
  BY Sizes
<1>1. size \in Nat
  BY DEF IInv, CallInv
<1>2. CASE MediumMemchr
  <2>1. v < size /\ size <= 4 * v
    BY <1>0, <1>2, AtMoreThanAVector DEF MediumMemchr
  <2>2. CASE 2 * v < size
    <3>1. Fits(EndVecs(size, 2, v))
      BY <1>0, <1>1, <2>1, <2>2, EndsFit
    <3>2. FindAndReturn(EndVecs(size, 2, v))
      BY <1>0, <1>2, <2>2 DEF MediumMemchr
    <3>. QED  BY <1>1, <3>1, <3>2, LookFits
  <2>3. CASE ~(2 * v < size)
    <3>1. 1 * v <= size /\ size <= 2 * (1 * v)
      BY <1>0, <1>1, <2>1, <2>3
    <3>2. Fits(EndVecs(size, 1, v)) /\ Fits(LastVecs(size, 1, v))
      BY <1>0, <1>1, <3>1, EndsFit, LastFits
    <3>3. PICK R : Fits(R) /\ CompareAndReturn(R, {})
      BY <1>0, <1>2, <2>3, <3>2 DEF MediumMemchr
    <3>. QED  BY <1>1, <3>3, LookFits
  <2>. QED  BY <2>2, <2>3
<1>3. CASE LargeMemchr
  <2>1. 4 * v < size
    BY <1>0, <1>3 DEF LargeMemchr
  <2>2. Fits(Vecs(0, 4, v))
    BY <1>0, <1>1, <2>1, VecsFit
  <2>. QED  BY <1>0, <1>1, <1>3, <2>2, LookFits DEF LargeMemchr
<1>4. CASE IterateMemchr
  <2>1. pc \in ScanLoops /\ offset <= size - 4 * v
    BY <1>0, <1>4 DEF IterateMemchr, ScanLoops
  <2>2. offset \in Nat
    BY <2>1, InScan
  <2>3. Fits(Vecs(offset, 4, v))
    BY <1>0, <1>1, <2>1, <2>2, VecsFit
  <2>. QED  BY <1>0, <1>1, <1>4, <2>3, LookFits DEF IterateMemchr
<1>5. CASE TailMemchr
  <2>1. pc \in {"memchr_loop", "memchr_tail"} /\ pc \in ScanLoops
    BY <1>5 DEF TailMemchr, ScanLoops
  <2>2. 4 * v <= size
    BY <1>0, <1>1, <2>1, InScan DEF OfScan
  <2>3. Fits(LastVecs(size, 4, v))
    BY <1>0, <1>1, <2>2, LastFits
  <2>4. CASE offset = size
    BY <1>1, <1>5, <2>4 DEF TailMemchr, NothingLeft, NoLoad, LoadsInside
  <2>5. CASE offset # size
    BY <1>0, <1>1, <1>5, <2>3, <2>5, LookFits DEF TailMemchr
  <2>. QED  BY <2>4, <2>5
<1>. QED  BY <1>2, <1>3, <1>4, <1>5

-----------------------------------------------------------------------------
\* Before the threshold variant has chosen, nothing is known of the units.
Inside ==
  (routine \in Memcmps /\ (pc = "start" \/ OutsideRepCmps)) \/ Strict =>
    0 <= load.from /\ load.to <= size

LEMMA StrictIs ==
  /\ Strict => routine \in Memchrs /\ routine \in Scans /\ routine \notin Avx2Scans \cup Avx512Scans
  /\ Strict => routine # "memchr_avx2" /\ routine \notin Memcmps
BY Families, ScanFamilies
DEF Strict, Memchrs, Avx2Memchrs, Avx512Memchrs, Scans, Avx2Scans, Avx512Scans, Memcmps,
    OptimizedMemcmps, TunableAvx2, TunableAvx512, ErmsMemcmps, WideRepCmps

\* Whose step it is.
LEMMA StepOf ==
  ASSUME IInv
  PROVE  /\ StepMemcmp => routine \in Memcmps
         /\ StepStrcmp => routine \in Strcmps
         /\ StepScan => routine \in Scans
         /\ StepStrspn => routine \in Strspns
         /\ StepStrstr => routine \in Strstrs
<1>1. ASSUME StepMemcmp  PROVE routine \in Memcmps
  <2>1. \/ pc = "start" /\ routine \in Memcmps
        \/ pc \in MemcmpLoops
    BY <1>1
    DEF StepMemcmp, SmallAvx2, LargeAvx2, IterateAvx2, TailAvx2, SmallAvx512, LargeAvx512,
        IterateAvx512, TailAvx512, LargeZen4, IterateZen4, TailZen4, SmallTunable,
        MediumTunable, LargeTunable, IterateTunable, TailTunable, RepCmps, ChooseByThreshold,
        Called, MemcmpLoops, Memcmps, OptimizedMemcmps, Tunable
  <2>2. CASE pc \in MemcmpLoops
    <3>1. OfMemcmp(pc, offset)
      BY <2>2, Looping DEF MemcmpLoops
    <3>. QED  BY <2>2, <3>1 DEF OfMemcmp, MemcmpLoops, Memcmps, OptimizedMemcmps, Tunable
  <2>. QED  BY <2>1, <2>2
<1>2. ASSUME StepStrcmp  PROVE routine \in Strcmps
  <2>1. \/ pc = "start" /\ routine \in Strcmps
        \/ pc \in StrcmpLoops
    BY <1>2
    DEF StepStrcmp, StartEmpty, StartNearAvx2, StartVeryNearAvx2, StartAvx2, StartNearAvx512,
        StartAvx512, Lockstep4, LeaveLockstep4, Lockstep1, EnterChunk, Chunk4, LeaveChunk4,
        Chunk1, CrossPage, StartZen4, RampZen4, PageZen4, CrossPageZen4, ReachSizeZen4,
        VecsZen4, LeaveVecsZen4, Called, StrcmpLoops, Strcmps
  <2>2. CASE pc \in StrcmpLoops
    <3>1. OfStrcmp(pc, offset, vecs)
      BY <2>2, Looping DEF StrcmpLoops
    <3>. QED  BY <2>2, <3>1 DEF OfStrcmp, StrcmpLoops, Strcmps
  <2>. QED  BY <2>1, <2>2
<1>3. ASSUME StepScan  PROVE routine \in Scans
  <2>1. \/ pc = "start" /\ routine \in Scans
        \/ pc \in ScanLoops
    BY <1>3
    DEF StepScan, ScanNothing, StartScanAtPageEndAvx2, StartScanAvx2, LineAvx2, PairAvx2,
        GroupAvx2, LastScanAvx2, StartScanAtPageEndAvx512, StartScanAvx512, VectorAvx512,
        LeaveVectorsAvx512, GroupAvx512, LastScanAvx512, SmallMemchrStrict, StartMemchrAvx2,
        StartMemchrAtPageEndAvx2, SmallMemchrAvx512, MediumMemchr, MoreThanAVector,
        LargeMemchr, IterateMemchr, TailMemchr, Called, ScanLoops, Scans, Memchrs, Avx2Memchrs,
        Avx512Memchrs
  <2>2. CASE pc \in ScanLoops
    <3>1. OfScan(pc, offset)
      BY <2>2, InScan
    <3>. QED  BY <2>2, <3>1, ScanFamilies DEF OfScan, ScanLoops
  <2>. QED  BY <2>1, <2>2
<1>4. ASSUME StepStrspn  PROVE routine \in Strspns
  <2>1. \/ pc = "start" /\ routine \in Strspns
        \/ pc \in SpanLoops
    BY <1>4
    DEF StepStrspn, SpanNothing, SpanOneByte, LoadAccept, SpanIndex, SpanPair, SpanFourBytes,
        SpanFirstVector, SpanVector, Called, SpanLoops
  <2>. QED  BY <2>1, InSpan
<1>5. ASSUME StepStrstr  PROVE routine \in Strstrs
  <2>1. \/ pc = "start" /\ routine \in Strstrs
        \/ pc = "search"
    BY <1>5 DEF StepStrstr, SearchShort, SearchFirstBlock, SearchBlock, Called
  <2>2. CASE pc = "search"
    BY <2>2, Looping DEF OfStrstr
  <2>. QED  BY <2>1, <2>2
<1>. QED  BY <1>1, <1>2, <1>3, <1>4, <1>5

\* The caller's arguments are not touched; only the threshold variant hands them on.
LEMMA CallStays ==
  ASSUME Step
  PROVE  call' = call \/ (ChooseByThreshold /\ size' = size /\ load' = load)
<1>1. ASSUME StepMemcmp  PROVE call' = call \/ ChooseByThreshold
  BY <1>1
  DEF StepMemcmp, SmallAvx2, LargeAvx2, IterateAvx2, TailAvx2, SmallAvx512, LargeAvx512,
      IterateAvx512, TailAvx512, LargeZen4, IterateZen4, TailZen4, SmallTunable,
      MediumTunable, LargeTunable, IterateTunable, TailTunable, RepCmps, CompareAndReturn,
      CompareAndGoOn, CompareGroup, CompareReduced, CompareTail, Compared, GoOn
<1>2. ASSUME StepStrcmp  PROVE call' = call
  BY <1>2
  DEF StepStrcmp, StartEmpty, StartNearAvx2, StartVeryNearAvx2, StartAvx2, StartNearAvx512,
      StartAvx512, Lockstep4, LeaveLockstep4, Lockstep1, EnterChunk, Chunk4, LeaveChunk4,
      Chunk1, CrossPage, StartZen4, RampZen4, PageZen4, CrossPageZen4, ReachSizeZen4,
      VecsZen4, LeaveVecsZen4, CompareOrGoOn, Compared, GoOn
<1>3. ASSUME StepScan  PROVE call' = call
  BY <1>3
  DEF StepScan, ScanNothing, StartScanAtPageEndAvx2, StartScanAvx2, LineAvx2, PairAvx2,
      GroupAvx2, LastScanAvx2, StartScanAtPageEndAvx512, StartScanAvx512, VectorAvx512,
      LeaveVectorsAvx512, GroupAvx512, LastScanAvx512, SmallMemchrStrict, StartMemchrAvx2,
      StartMemchrAtPageEndAvx2, SmallMemchrAvx512, MediumMemchr, LargeMemchr, IterateMemchr,
      TailMemchr, CompareOrGoOn, FindOrGoOn, FindAndReturn, CompareAndReturn, NothingLeft,
      Compared, GoOn
<1>4. ASSUME StepStrspn  PROVE call' = call
  BY <1>4
  DEF StepStrspn, SpanNothing, SpanOneByte, LoadAccept, SpanIndex, SpanPair, SpanFourBytes,
      SpanFirstVector, SpanVector, SpanOrGoOn, Compared, GoOn
<1>5. ASSUME StepStrstr  PROVE call' = call
  BY <1>5
  DEF StepStrstr, SearchShort, SearchFirstBlock, SearchBlock, SearchOrGoOn, Compared, GoOn
<1>6. ChooseByThreshold => size' = size /\ load' = load
  BY DEF ChooseByThreshold
<1>. QED  BY <1>1, <1>2, <1>3, <1>4, <1>5, <1>6 DEF Step

LEMMA InsideKept ==
  ASSUME IInv, IntSizes, Inside, Step
  PROVE  Inside'
<1>1. CASE ChooseByThreshold
  <2>1. routine = "memcmp_threshold" /\ pc = "start" /\ size' = size /\ load' = load
    BY <1>1 DEF ChooseByThreshold, Called
  <2>2. 0 <= load.from /\ load.to <= size
    BY <2>1 DEF Inside, Memcmps
  <2>. QED  BY <2>1, <2>2 DEF Inside
<1>2. CASE call' = call
  <2>1. routine' = routine /\ size' = size
    BY <1>2 DEF call
  <2>2. CASE routine \in Memcmps
    <3>1. StepMemcmp
      BY <2>2, StepOf, Families DEF Step
    <3>2. CASE load' = load
      <4>1. CASE pc = "start"
        BY <2>1, <2>2, <3>2, <4>1 DEF Inside
      <4>2. CASE pc # "start"
        <5>1. pc' # "start"
          BY <3>1, <4>2
          DEF StepMemcmp, SmallAvx2, LargeAvx2, IterateAvx2, TailAvx2, SmallAvx512,
              LargeAvx512, IterateAvx512, TailAvx512, LargeZen4, IterateZen4, TailZen4,
              SmallTunable, MediumTunable, LargeTunable, IterateTunable, TailTunable, RepCmps,
              ChooseByThreshold, CompareGroup, CompareReduced, CompareTail, Compared, GoOn,
              Called
        <5>. QED  BY <2>1, <2>2, <3>2, <4>2, <5>1 DEF Inside, OutsideRepCmps, Unit, Strict
      <4>. QED  BY <4>1, <4>2
    <3>3. CASE LoadsInside
      BY <2>1, <3>3 DEF LoadsInside, Inside
    <3>4. CASE RepCmps
      <4>1. pc' = "done"
        BY <3>4 DEF RepCmps, Compared
      <4>2. OutsideRepCmps' => OutsideRepCmps
        BY <2>1 DEF OutsideRepCmps, Unit
      <4>3. OutsideRepCmps => LoadsInside
        BY <3>4, RepCmpsInside
      <4>. QED  BY <2>1, <2>2, <4>1, <4>2, <4>3, StrictIs DEF LoadsInside, Inside, Strict
    <3>5. LargeZen4 \/ LargeTunable \/ ChooseByThreshold => load' = load
      BY DEF LargeZen4, LargeTunable, ChooseByThreshold
    <3>. QED
      BY <3>1, <3>2, <3>3, <3>4, <3>5, SmallMemcmpInside, LargeMemcmpInside,
         IterateMemcmpInside, TailMemcmpInside
      DEF StepMemcmp
  <2>3. CASE Strict
    <3>1. /\ routine \in Memchrs /\ routine \in Scans /\ routine # "memchr_avx2"
          /\ routine \notin Avx2Scans \cup Avx512Scans
      BY <2>3, StrictIs
    <3>2. StepScan
      BY <3>1, StepOf, Families DEF Step
    <3>3. ScanNothing => LoadsInside
      <4>1. size \in Nat
        BY DEF IInv, CallInv
      <4>. QED  BY <4>1 DEF ScanNothing, NothingLeft, NoLoad, LoadsInside
    <3>4. pc \notin {"scan_line", "scan_pair", "scan_vecs", "scan_groups"}
      <4>. SUFFICES ASSUME pc \in {"scan_line", "scan_pair", "scan_vecs", "scan_groups"}
                    PROVE  FALSE
        OBVIOUS
      <4>1. pc \in ScanLoops
        BY DEF ScanLoops
      <4>2. OfScan(pc, offset)
        BY <4>1, InScan
      <4>. QED  BY <3>1, <4>2 DEF OfScan
    <3>5. ~(\/ StartScanAtPageEndAvx2 \/ StartScanAvx2 \/ LineAvx2 \/ PairAvx2 \/ GroupAvx2
            \/ LastScanAvx2 \/ StartScanAtPageEndAvx512 \/ StartScanAvx512 \/ VectorAvx512
            \/ LeaveVectorsAvx512 \/ GroupAvx512 \/ LastScanAvx512
            \/ StartMemchrAtPageEndAvx2)
      BY <3>1, <3>4
      DEF StartScanAtPageEndAvx2, StartScanAvx2, LineAvx2, PairAvx2, GroupAvx2, LastScanAvx2,
          StartScanAtPageEndAvx512, StartScanAvx512, VectorAvx512, LeaveVectorsAvx512,
          GroupAvx512, LastScanAvx512, StartMemchrAtPageEndAvx2, Called
    <3>6. LoadsInside
      BY <2>3, <3>2, <3>3, <3>5, StartMemchrInside, MemchrInside DEF StepScan
    <3>. QED  BY <2>1, <3>6 DEF LoadsInside, Inside
  <2>4. CASE routine \notin Memcmps /\ ~Strict
    BY <2>1, <2>4 DEF Inside, Strict
  <2>. QED  BY <2>2, <2>3, <2>4
<1>. QED  BY <1>1, <1>2, CallStays

\* memcmp, and memchr built with strict bounds, read nothing outside of the buffers.
THEOREM LoadsStayInBuffers ==
  ASSUME IntSizes
  PROVE  Spec => []StaysInBuffers
<1>1. ReadInit => Inside
  <2>. SUFFICES ASSUME ReadInit  PROVE Inside
    OBVIOUS
  <2>1. load = NoLoad /\ size \in Nat
    BY InitHolds DEF IInv, CallInv, ReadInit, Init
  <2>. QED  BY <2>1 DEF Inside, NoLoad
<1>2. IInv /\ Inside /\ [Next]_readVars => Inside'
  <2>1. Step /\ IInv /\ Inside => Inside'
    BY InsideKept
  <2>2. Inside /\ UNCHANGED readVars => Inside'
    BY DEF Inside, readVars, vars, call, OutsideRepCmps, Unit, Strict
  <2>. QED  BY <2>1, <2>2 DEF Next, Returned
<1>3. Inside => StaysInBuffers
  BY DEF Inside, StaysInBuffers
<1>. QED  BY <1>1, <1>2, <1>3, ReadInvariant, PTL DEF Spec

-----------------------------------------------------------------------------
(***************************************************************************)
(* Loads in the pages of the strings.                                      *)
(***************************************************************************)
\* Byte e - 1 of s is in no page behind the one of its byte l.
EndsInPage(s, l, e) == PageOf(s + e - 1) <= PageOf(s + l)

\* The step touches no page in front of s, and none behind the one of its byte l; it may
\* begin to read in front of s, but not end there.
LoadsUpTo(s, l) ==
  /\ load'.to \in Nat
  /\ PageOf(s) <= PageOf(s + load'.from) /\ EndsInPage(s, l, load'.to)

LEMMA PagesInOrder ==
  ASSUME NEW a \in Int, NEW b \in Int, a <= b
  PROVE  PageOf(a) <= PageOf(b)
BY Sizes, DivMonotone DEF PageOf

LEMMA PageIsInt ==
  ASSUME NEW a \in Int
  PROVE  PageOf(a) \in Int
BY Sizes, DivMod DEF PageOf

\* The page of byte o ends LeftInPage bytes further on.
LEMMA EndOfPage ==
  ASSUME NEW s \in Nat, NEW l \in Int, NEW o \in Int, NEW e \in Int,
         e <= o + LeftInPage(s + o), PageOf(s + o) <= PageOf(s + l)
  PROVE  EndsInPage(s, l, e)
<1>1. PICK a \in Int : a = s + o
  OBVIOUS
<1>2. PICK n \in Nat : n = LeftInPage(a) /\ n >= 1
  BY LeftInPageIs
<1>3. PageOf(a + n - 1) = PageOf(a)
  <2>1. n = PAGE_SZ - (a % PAGE_SZ) /\ a % PAGE_SZ \in Int
    BY <1>2, LeftInPageIs DEF LeftInPage, InPage
  <2>2. (a % PAGE_SZ) + n <= PAGE_SZ
    BY <2>1, Sizes
  <2>3. PICK p \in Nat : p = PAGE_SZ /\ p > 0
    BY Sizes
  <2>4. (a + n - 1) \div p = a \div p
    BY <1>2, <2>2, <2>3, BytesInOnePage
  <2>. QED  BY <2>3, <2>4 DEF PageOf
<1>4. PageOf(s + e - 1) <= PageOf(a + n - 1)
  <2>1. s + e - 1 <= a + n - 1
    BY <1>1, <1>2
  <2>. QED  BY <2>1, PagesInOrder
<1>. QED  BY <1>1, <1>3, <1>4, PageIsInt DEF EndsInPage

LEMMA VecsAt ==
  ASSUME NEW o \in Int, NEW k \in Nat, NEW v \in Nat
  PROVE  \A j \in 1 .. k : /\ Vecs(o, k, v)[j].at = o + (j - 1) * v
                           /\ EndOf(Vecs(o, k, v)[j]) = o + j * v
BY VecsAre

\* A register that does not begin in front of the strings does not end there.
LEMMA BehindFront ==
  ASSUME NEW R \in Seq(Registers), Len(R) > 0, NEW b \in Nat, NEW e, Within(R, b, e)
  PROVE  0 <= EndOf(R[1])
<1>1. 1 \in 1 .. Len(R)
  OBVIOUS
<1>2. PICK q \in Registers : q = R[1]
  BY <1>1
<1>3. b <= q.at
  BY <1>1, <1>2 DEF Within
<1>4. 0 <= EndOf(q)
  BY ONLY q \in Registers, b <= q.at, b \in Nat DEF Registers, EndOf
<1>. QED  BY <1>2, <1>4

\* What is loaded begins and ends with registers that are.
LEMMA LoadReaches ==
  ASSUME NEW R \in Seq(Registers), Len(R) > 0, NEW i \in 0 .. Len(R), NEW al, Loaded(R, i, al),
         NEW b \in Int, NEW f \in Int, Within(R, b, f), 0 <= EndOf(R[1]),
         NEW s \in Nat, NEW l \in Int, PageOf(s) <= PageOf(s + b),
         \A j \in Used(R, i) : EndsInPage(s, l, EndOf(R[j]))
  PROVE  LoadsUpTo(s, l)
<1>1. \A j \in Used(R, i) : b <= R[j].at /\ EndOf(R[j]) <= f
  BY DEF Used, Within
<1>2. PICK x \in Int, y \in Int : /\ x = load'.from /\ y = load'.to /\ b <= x
                                  /\ EndOf(R[1]) <= y
                                  /\ \E j \in Used(R, i) : y = EndOf(R[j])
  BY <1>1, ReadIs DEF Loaded
<1>5. y \in Nat
  <2>1. PICK q \in Registers : q = R[1]
    OBVIOUS
  <2>2. EndOf(q) \in Int
    BY ONLY q \in Registers DEF Registers, EndOf
  <2>. QED  BY <1>2, <2>1, <2>2
<1>3. EndsInPage(s, l, y)
  BY <1>2
<1>4. PageOf(s) <= PageOf(s + x)
  <2>1. PageOf(s + b) <= PageOf(s + x)
    BY <1>2, PagesInOrder
  <2>. QED  BY <2>1, PageIsInt
<1>. QED  BY <1>2, <1>3, <1>4, <1>5 DEF LoadsUpTo

\* Registers that end in the page of a byte o.
LEMMA BlockReaches ==
  ASSUME NEW R \in Seq(Registers), Len(R) > 0, NEW i \in 0 .. Len(R), NEW al, Loaded(R, i, al),
         NEW s \in Nat, NEW l \in Int, NEW b \in Int, NEW o \in Int, 0 <= EndOf(R[1]),
         Within(R, b, o + LeftInPage(s + o)),
         PageOf(s) <= PageOf(s + b), PageOf(s + o) <= PageOf(s + l)
  PROVE  LoadsUpTo(s, l)
<1>1. PICK f \in Int : f = o + LeftInPage(s + o)
  <2>1. LeftInPage(s + o) \in Int
    BY LeftInPageIs
  <2>. QED  BY <2>1
<1>2. ASSUME NEW j \in Used(R, i)  PROVE EndsInPage(s, l, EndOf(R[j]))
  <2>1. j \in 1 .. Len(R)
    BY DEF Used
  <2>2. EndOf(R[j]) <= o + LeftInPage(s + o)
    BY <2>1 DEF Within
  <2>3. EndOf(R[j]) \in Int
    <3>1. R[j] \in Registers
      BY <2>1
    <3>2. PICK r \in Registers : r = R[j]
      BY <3>1
    <3>3. EndOf(r) \in Int
      BY ONLY r \in Registers DEF Registers, EndOf
    <3>. QED  BY <3>2, <3>3
  <2>. QED  BY <2>2, <2>3, EndOfPage
<1>. QED  BY <1>1, <1>2, LoadReaches

\* Vectors in the page of the first one's first byte.
LEMMA VecsReach ==
  ASSUME NEW o \in Nat, NEW k \in Nat, k > 0, NEW v \in Nat, NEW i \in 0 .. k, NEW al,
         Loaded(Vecs(o, k, v), i, al), NEW s \in Nat, NEW l \in Int,
         k * v <= LeftInPage(s + o), PageOf(s + o) <= PageOf(s + l)
  PROVE  LoadsUpTo(s, l)
<1>1. PICK f \in Int : f = o + LeftInPage(s + o) /\ o + k * v <= f
  <2>1. LeftInPage(s + o) \in Int
    BY LeftInPageIs
  <2>2. k * v \in Int
    OBVIOUS
  <2>. QED  BY <2>1, <2>2
<1>2. Within(Vecs(o, k, v), o, o + LeftInPage(s + o))
  <2>1. Within(Vecs(o, k, v), o, f)
    BY <1>1, VecsWithin
  <2>. QED  BY <1>1, <2>1
<1>7. o \in Int
  OBVIOUS
<1>3. /\ Vecs(o, k, v) \in Seq(Registers) /\ Len(Vecs(o, k, v)) = k
      /\ 0 <= EndOf(Vecs(o, k, v)[1])
  <2>1. 1 \in 1 .. k /\ o + 1 * v = o + v /\ 0 <= o + v
    OBVIOUS
  <2>2. Vecs(o, k, v) \in Seq(Registers) /\ Len(Vecs(o, k, v)) = k
    BY <1>7, VecsAre
  <2>3. EndOf(Vecs(o, k, v)[1]) = o + 1 * v
    BY <1>7, <2>1, VecsAt
  <2>. QED  BY <2>1, <2>2, <2>3
<1>4. PageOf(s) <= PageOf(s + o)
  BY PagesInOrder
<1>5. PICK R \in Seq(Registers) : R = Vecs(o, k, v)
  BY <1>3
<1>6. Len(R) > 0 /\ 0 <= EndOf(R[1]) /\ i \in 0 .. Len(R) /\ Loaded(R, i, al) /\ Within(R, o, o + LeftInPage(s + o))
  BY <1>2, <1>3, <1>5
<1>. QED  BY <1>4, <1>6, <1>7, BlockReaches, Zenon

\* Vectors that are looked at, or loaded all at once.
LEMMA VecsLooked ==
  ASSUME NEW o \in Int, NEW k \in Nat, k > 0, NEW v \in Nat, NEW al, NEW cov, NEW path, NEW next,
         \/ CompareOrGoOn(Vecs(o, k, v), al, cov, path, next)
         \/ FindOrGoOn(Vecs(o, k, v), al, path, next)
         \/ SpanOrGoOn(Vecs(o, k, v), al, path, next)
         \/ CompareAndReturn(Vecs(o, k, v), al)
  PROVE  \E i \in 0 .. k : Loaded(Vecs(o, k, v), i, al)
<1>1. FirstHit(Vecs(o, k, v)) \in 0 .. k /\ 0 \in 0 .. k
  BY HitOfVecs
<1>. QED  BY <1>1 DEF CompareOrGoOn, FindOrGoOn, SpanOrGoOn, CompareAndReturn

\* Vectors that are aligned in s: the one that ends behind a page begins in it, and it is
\* loaded only if the ones in front have no stop.
LEMMA AlignedReach ==
  ASSUME Stops, NEW o \in Int, o <= first, NEW k \in Nat, k > 0, NEW v \in Nat, v > 0, 0 <= o + v,
         PAGE_SZ % v = 0, NEW al, Loaded(Vecs(o, k, v), FirstHit(Vecs(o, k, v)), al),
         NEW s \in Nat, (s + o) % v = 0, PageOf(s) <= PageOf(s + o), NEW l \in Int,
         \A j \in 1 .. k : o + (j - 1) * v <= first => o + (j - 1) * v <= l
  PROVE  LoadsUpTo(s, l)
<1> DEFINE R == Vecs(o, k, v)
           i == FirstHit(R)
<1>1. PICK e \in Int : e = o + k * v
  OBVIOUS
<1>2. Covers(R, o, e) /\ Within(R, o, e)
  BY <1>1, VecsCover, VecsWithin
<1>3. /\ R \in Seq(Registers) /\ Len(R) = k
      /\ \A j \in 1 .. k : R[j].at = o + (j - 1) * v /\ EndOf(R[j]) = o + j * v
  <2>1. R \in Seq(Registers) /\ Len(R) = k
    BY VecsAre
  <2>. QED  BY <2>1, VecsAt
<1>8. 0 <= EndOf(R[1])
  <2>1. 1 \in 1 .. k /\ o + 1 * v = o + v
    OBVIOUS
  <2>. QED  BY <1>3, <2>1
<1>4. Loaded(R, i, al)
  OBVIOUS
<1>5. PICK h : h = i
  OBVIOUS
<1>. HIDE DEF R, i
<1>6. h \in 0 .. Len(R) /\ \A j \in 1 .. (IF h = 0 THEN Len(R) ELSE h) : R[j].at <= first
  BY <1>2, <1>5, HitIsFirst DEF i
<1>7. ASSUME NEW j \in Used(R, h)  PROVE EndsInPage(s, l, EndOf(R[j]))
  <2>1. j \in 1 .. k /\ R[j].at <= first
    BY <1>3, <1>6 DEF Used
  <2>2. PICK m \in Int : m = (j - 1) * v
    BY <2>1
  <2>3. o + m = R[j].at /\ EndOf(R[j]) = (o + m) + v /\ o + m <= l
    BY <1>3, <2>1, <2>2
  <2>4. v <= LeftInPage(s + (o + m))
    <3>1. PICK a \in Int : a = s + o
      OBVIOUS
    <3>0. PICK h1 \in Int : h1 = j - 1 /\ m = h1 * v
      BY <2>1, <2>2
    <3>2. m % v = 0 /\ a % v = 0
      BY <3>0, <3>1, MultipleIsAligned
    <3>5. (a + m) % v = 0
      BY <3>1, <3>2, AlignedSum
    <3>3. s + (o + m) = a + m
      BY <3>1
    <3>4. v - ((s + (o + m)) % v) <= LeftInPage(s + (o + m))
      BY LeftForRegister
    <3>. QED  BY <3>3, <3>4, <3>5
  <2>5. PageOf(s + (o + m)) <= PageOf(s + l)
    BY <2>3, PagesInOrder
  <2>6. (o + m) + v <= (o + m) + LeftInPage(s + (o + m))
    <3>1. LeftInPage(s + (o + m)) \in Int
      BY LeftInPageIs
    <3>. QED  BY <2>4, <3>1
  <2>. QED  BY <2>3, <2>5, <2>6, EndOfPage
<1>. QED  BY <1>1, <1>2, <1>3, <1>4, <1>5, <1>6, <1>7, <1>8, LoadReaches

-----------------------------------------------------------------------------
\* Registers in the page of a string's first byte.
LEMMA FirstPage ==
  ASSUME NEW R \in Seq(Registers), Len(R) > 0, NEW i \in 0 .. Len(R), NEW al, Loaded(R, i, al),
         NEW s \in Nat, NEW n \in Nat, Within(R, 0, n), n <= LeftInPage(s), NEW l \in Nat
  PROVE  LoadsUpTo(s, l)
<1>1. LeftInPage(s) \in Int /\ 0 \in Int /\ l \in Int /\ s + 0 = s /\ 0 + LeftInPage(s + 0) = LeftInPage(s)
  BY LeftInPageIs
<1>2. Within(R, 0, LeftInPage(s))
  BY <1>1, WithinMore
<1>3. PageOf(s) <= PageOf(s + 0) /\ PageOf(s + 0) <= PageOf(s + l)
  BY <1>1, PagesInOrder
<1>4. Within(R, 0, 0 + LeftInPage(s + 0))
  BY <1>1, <1>2
<1>5. 0 <= EndOf(R[1])
  BY BehindFront
<1>. QED  BY <1>1, <1>3, <1>4, <1>5, BlockReaches

LEMMA LookedAt ==
  ASSUME NEW R \in Seq(Registers), NEW al, NEW cov, NEW path, NEW next,
         \/ CompareOrGoOn(R, al, cov, path, next)
         \/ SpanOrGoOn(R, al, path, next)
  PROVE  \E i \in 0 .. Len(R) : Loaded(R, i, al)
<1>1. FirstHit(R) \in 0 .. Len(R)
  BY FirstHitIsFirst
<1>. QED  BY <1>1 DEF CompareOrGoOn, SpanOrGoOn

\* Vectors that are looked at in the page of the first one's first byte.
LEMMA VecsLookReach ==
  ASSUME NEW o \in Nat, NEW k \in Nat, k > 0, NEW v \in Nat, NEW al, NEW cov, NEW path, NEW next,
         \/ CompareOrGoOn(Vecs(o, k, v), al, cov, path, next)
         \/ FindOrGoOn(Vecs(o, k, v), al, path, next)
         \/ SpanOrGoOn(Vecs(o, k, v), al, path, next)
         \/ CompareAndReturn(Vecs(o, k, v), al),
         NEW s \in Nat, NEW l \in Int, k * v <= LeftInPage(s + o), PageOf(s + o) <= PageOf(s + l)
  PROVE  LoadsUpTo(s, l)
<1>1. o \in Int
  OBVIOUS
<1>2. PICK i \in 0 .. k : Loaded(Vecs(o, k, v), i, al)
  BY <1>1, VecsLooked
<1>. QED  BY <1>2, VecsReach

LEMMA VecLookReach ==
  ASSUME NEW o \in Nat, NEW v \in Nat, NEW al, NEW cov, NEW path, NEW next,
         \/ CompareOrGoOn(Vecs(o, 1, v), al, cov, path, next)
         \/ FindOrGoOn(Vecs(o, 1, v), al, path, next)
         \/ SpanOrGoOn(Vecs(o, 1, v), al, path, next)
         \/ CompareAndReturn(Vecs(o, 1, v), al),
         NEW s \in Nat, NEW l \in Int, v <= LeftInPage(s + o), PageOf(s + o) <= PageOf(s + l)
  PROVE  LoadsUpTo(s, l)
<1>1. PICK k \in Nat : k = 1 /\ k > 0 /\ k * v = v
  OBVIOUS
<1>2. k * v <= LeftInPage(s + o)
  BY <1>1
<1>3. \/ CompareOrGoOn(Vecs(o, k, v), al, cov, path, next)
      \/ FindOrGoOn(Vecs(o, k, v), al, path, next)
      \/ SpanOrGoOn(Vecs(o, k, v), al, path, next)
      \/ CompareAndReturn(Vecs(o, k, v), al)
  BY <1>1
<1>. QED  BY <1>1, <1>2, <1>3, VecsLookReach

\* The same at the string's beginning.
LEMMA FirstVecsReach ==
  ASSUME NEW k \in Nat, k > 0, NEW v \in Nat, NEW al, NEW cov, NEW path, NEW next,
         \/ CompareOrGoOn(Vecs(0, k, v), al, cov, path, next)
         \/ FindOrGoOn(Vecs(0, k, v), al, path, next)
         \/ SpanOrGoOn(Vecs(0, k, v), al, path, next)
         \/ CompareAndReturn(Vecs(0, k, v), al),
         NEW s \in Nat, NEW l \in Nat, k * v <= LeftInPage(s)
  PROVE  LoadsUpTo(s, l)
<1>1. PICK o \in Nat : o = 0 /\ s + o = s
  OBVIOUS
<1>2. \/ CompareOrGoOn(Vecs(o, k, v), al, cov, path, next)
      \/ FindOrGoOn(Vecs(o, k, v), al, path, next)
      \/ SpanOrGoOn(Vecs(o, k, v), al, path, next)
      \/ CompareAndReturn(Vecs(o, k, v), al)
  BY <1>1
<1>3. l \in Int /\ k * v <= LeftInPage(s + o) /\ PageOf(s + o) <= PageOf(s + l)
  BY <1>1, PagesInOrder
<1>. QED  BY <1>2, <1>3, VecsLookReach

LEMMA FirstVecReach ==
  ASSUME NEW v \in Nat, NEW al, NEW cov, NEW path, NEW next,
         \/ CompareOrGoOn(Vecs(0, 1, v), al, cov, path, next)
         \/ FindOrGoOn(Vecs(0, 1, v), al, path, next)
         \/ SpanOrGoOn(Vecs(0, 1, v), al, path, next)
         \/ CompareAndReturn(Vecs(0, 1, v), al),
         NEW s \in Nat, NEW l \in Nat, v <= LeftInPage(s)
  PROVE  LoadsUpTo(s, l)
<1>1. PICK k \in Nat : k = 1 /\ k > 0 /\ k * v = v
  OBVIOUS
<1>2. k * v <= LeftInPage(s)
  BY <1>1
<1>3. \/ CompareOrGoOn(Vecs(0, k, v), al, cov, path, next)
      \/ FindOrGoOn(Vecs(0, k, v), al, path, next)
      \/ SpanOrGoOn(Vecs(0, k, v), al, path, next)
      \/ CompareAndReturn(Vecs(0, k, v), al)
  BY <1>1
<1>. QED  BY <1>1, <1>2, <1>3, FirstVecsReach

LEMMA ShiftedBounds ==
  ASSUME NEW x \in Int, NEW y \in Int, NEW n \in Int, NEW o \in Int, 0 <= x, x + y <= n
  PROVE  o <= x + o /\ (x + o) + y <= o + n
OBVIOUS

LEMMA ShiftWithin ==
  ASSUME NEW R \in Seq(Registers), NEW n \in Int, NEW o \in Int, Within(R, 0, n)
  PROVE  Within(ShiftedBy(R, o), o, o + n)
<1> DEFINE T == ShiftedBy(R, o)
<1>1. Len(T) = Len(R) /\ DOMAIN R = 1 .. Len(R)
  BY DEF ShiftedBy
<1>2. ASSUME NEW i \in 1 .. Len(R)  PROVE o <= T[i].at /\ EndOf(T[i]) <= o + n
  <2>1. R[i] \in Registers
    OBVIOUS
  <2>2. PICK r \in Registers : r = R[i] /\ 0 <= r.at /\ EndOf(r) <= n
    BY <2>1 DEF Within
  <2>3. T[i] = [at |-> r.at + o, len |-> r.len]
    BY <1>1, <2>2 DEF ShiftedBy, Reg
  <2>4. r.at \in Int /\ r.len \in Int /\ EndOf(r) = r.at + r.len
    BY ONLY r \in Registers DEF Registers, EndOf
  <2>5. PICK x \in Int, y \in Int : x = r.at /\ y = r.len /\ 0 <= x /\ x + y <= n
    BY <2>2, <2>4
  <2>6. T[i].at = x + o /\ EndOf(T[i]) = (x + o) + y
    BY <2>3, <2>5 DEF EndOf
  <2>7. o <= x + o /\ (x + o) + y <= o + n
    BY <2>5, ShiftedBounds, Zenon
  <2>. HIDE DEF T
  <2>. QED  BY <2>6, <2>7, Zenon
<1>. QED  BY <1>1, <1>2 DEF Within

LEMMA BleWithin ==
  ASSUME NEW o \in Int, NEW n \in Nat, n <= 2 * ZMM_SZ
  PROVE  /\ BleYmm(o, n) \in Seq(Registers) /\ Len(BleYmm(o, n)) > 0
         /\ Within(BleYmm(o, n), o, o + n)
<1>1. BleYmm(o, n) \in Seq(Registers) /\ Len(BleYmm(o, n)) > 0
  BY BleCover DEF Covers
<1>2. Within(NarrowestEnds(n), 0, n) /\ NarrowestEnds(n) \in Seq(Registers)
  BY NarrowestCover DEF Covers
<1>3. Within(ShiftedBy(NarrowestEnds(n), o), o, o + n)
  BY <1>2, ShiftWithin
<1>. QED  BY <1>1, <1>3 DEF BleYmm

-----------------------------------------------------------------------------
\* In the last line of a page all the bits that are tested are set, and a lower one
\* unless it is the line's first byte.
LEMMA FarFromPageEnd ==
  ASSUME CallInv, ~NearPageEnd
  PROVE  \A s \in Both : ZMM_SZ <= LeftInPage(s)
<1>. SUFFICES ASSUME NEW s \in Both, ~(ZMM_SZ <= LeftInPage(s))
              PROVE  NearPageEnd
  OBVIOUS
<1>0. s \in Nat /\ ZMM_SZ \in Nat /\ ZMM_SZ > 0 /\ PAGE_SZ \in Nat /\ PAGE_SZ > 0
  BY Sizes DEF CallInv, Both
<1>1. PICK q \in Int, r \in 0 .. PAGE_SZ - 1 : s = PAGE_SZ * q + r /\ PAGE_SZ - ZMM_SZ < r
  <2>1. s \div PAGE_SZ \in Int /\ s % PAGE_SZ \in 0 .. PAGE_SZ - 1
        /\ s = PAGE_SZ * (s \div PAGE_SZ) + (s % PAGE_SZ)
    BY <1>0, DivMod
  <2>2. PAGE_SZ - ZMM_SZ < s % PAGE_SZ
    BY <1>0, <2>1 DEF LeftInPage, InPage
  <2>. QED  BY <2>1, <2>2
<1>2. ASSUME NEW b \in LineBits  PROVE IsSet(s, b)
  <2>1. b \in Nat /\ b > 0 /\ ZMM_SZ <= b /\ b < PAGE_SZ /\ PAGE_SZ % (2 * b) = 0
    BY <1>0 DEF LineBits, Line
  <2>2. PICK m \in Int : PAGE_SZ = (2 * b) * m
    <3>1. PICK d \in Nat : d = 2 * b /\ d > 0
      BY <2>1
    <3>2. PAGE_SZ \div d \in Int /\ PAGE_SZ = d * (PAGE_SZ \div d)
      BY <1>0, <2>1, <3>1, DivMod
    <3>. QED  BY <3>1, <3>2
  <2>3. PICK c \in Int, t \in 0 .. b - 1 :
          /\ c = 2 * (m * q + m) - 1 /\ t = r - (PAGE_SZ - b)
    <3>1. r - (PAGE_SZ - b) \in 0 .. b - 1
      BY <1>0, <1>1, <2>1
    <3>2. 2 * (m * q + m) - 1 \in Int
      BY <1>1, <2>2
    <3>. QED  BY <3>1, <3>2
  <2>4. s = b * c + t
    <3>1. PICK g \in Int : g = m * q
      BY <1>1, <2>2
    <3>2. PAGE_SZ * q = (2 * b) * g
      BY <1>1, <2>1, <2>2, <3>1
    <3>3. b * c = (2 * b) * g + (2 * b) * m - b
      BY <2>1, <2>3, <3>1
    <3>. QED  BY <1>0, <1>1, <2>1, <2>2, <2>3, <3>2, <3>3
  <2>5. s \div b = c
    BY <1>0, <2>1, <2>3, <2>4, DivUnique
  <2>6. c % 2 = 1
    <3>1. PICK g \in Int : g = m * q + m /\ c = 2 * g - 1
      BY <1>1, <2>2, <2>3
    <3>. QED  BY <3>1
  <2>. QED  BY <2>5, <2>6 DEF IsSet
<1>3. MaxOffset > 0
  <2>1. s % ZMM_SZ # 0
    <3>1. ZMM_SZ - (s % ZMM_SZ) <= LeftInPage(s)
      BY <1>0, LeftForRegister, SizesDivide
    <3>. QED  BY <1>0, <3>1
  <2>2. s % ZMM_SZ \in 0 .. ZMM_SZ - 1
    BY <1>0, DivMod
  <2>3. FirstLine = ZMM_SZ - MaxOffset /\ FirstLine <= ZMM_SZ - (s % ZMM_SZ)
        /\ MaxOffset \in 0 .. ZMM_SZ - 1
    BY FirstLineIs
  <2>. QED  BY <1>0, <2>1, <2>2, <2>3
<1>. QED  BY <1>2, <1>3 DEF NearPageEnd, Both

\* The first loads of avx2's and avx512's strcmp.
LEMMA StartStrcmpPages ==
  ASSUME IInv, NEW s \in Both,
         StartNearAvx2 \/ StartVeryNearAvx2 \/ StartAvx2 \/ StartNearAvx512 \/ StartAvx512
  PROVE  LoadsUpTo(s, first)
<1>1. CallInv /\ s \in Nat /\ first \in Nat
  BY DEF IInv, CallInv, Both
<1>2. /\ YMM_SZ \in Nat /\ ZMM_SZ \in Nat /\ 2 * YMM_SZ = ZMM_SZ
      /\ MaxOffset \in 0 .. ZMM_SZ - 1 /\ FirstLine = ZMM_SZ - MaxOffset
      /\ FirstLine \in Nat
  BY <1>1, FirstLineIs, Sizes
<1>3. FirstLine <= LeftInPage(s) /\ LeftInPage(s) \in Nat
  <2>1. ZMM_SZ - (s % ZMM_SZ) <= LeftInPage(s) /\ LeftInPage(s) \in Nat
    BY <1>1, LeftForRegister, LeftInPageIs, SizesDivide, Sizes
  <2>2. FirstLine <= ZMM_SZ - (s % ZMM_SZ) /\ s % ZMM_SZ \in Int
    BY <1>1, FirstLineIs, Sizes, DivMod
  <2>. QED  BY <1>2, <2>1, <2>2
<1>4. ASSUME ~NearPageEnd  PROVE ZMM_SZ <= LeftInPage(s)
  BY <1>1, <1>4, FarFromPageEnd
<1>5. PICK m \in Nat : MaxOffset < YMM_SZ => m = YMM_SZ - MaxOffset /\ YMM_SZ + m = FirstLine
  <2>1. CASE MaxOffset < YMM_SZ
    <3>1. YMM_SZ - MaxOffset \in Nat /\ YMM_SZ + (YMM_SZ - MaxOffset) = FirstLine
      BY <1>2, <2>1
    <3>. QED  BY <3>1
  <2>. QED  BY <2>1
<1>6. CASE StartNearAvx2
  <2> DEFINE V == Vecs(0, 1, YMM_SZ)
             B == BleYmm(YMM_SZ, m)
             T == V \o B
  <2>1. m = YMM_SZ - MaxOffset /\ m <= ZMM_SZ /\ YMM_SZ + m = FirstLine
    BY <1>2, <1>5, <1>6 DEF StartNearAvx2
  <2>2. V \in Seq(Registers) /\ Len(V) = 1 /\ Within(V, 0, FirstLine)
    <3>1. PICK k \in Nat, f \in Int, z \in Int :
            k = 1 /\ f = FirstLine /\ z = 0 /\ z + k * YMM_SZ <= f
      BY <1>2, <2>1
    <3>2. Vecs(z, k, YMM_SZ) \in Seq(Registers) /\ Len(Vecs(z, k, YMM_SZ)) = k
      BY <1>2, VecsAre
    <3>3. Within(Vecs(z, k, YMM_SZ), z, f)
      BY <1>2, <3>1, VecsWithin
    <3>. QED  BY <3>1, <3>2, <3>3
  <2>3. B \in Seq(Registers) /\ Within(B, YMM_SZ, YMM_SZ + m)
    <3>1. YMM_SZ \in Int /\ m <= 2 * ZMM_SZ
      BY <1>2, <2>1
    <3>. QED  BY <3>1, BleWithin
  <2>. HIDE DEF V, B
  <2>4. Within(B, 0, FirstLine)
    <3>1. PICK f \in Int, y \in Int : f = FirstLine /\ y = YMM_SZ /\ 0 <= y /\ Within(B, y, f)
      BY <1>2, <2>1, <2>3
    <3>. QED  BY <2>3, <3>1, WithinMore
  <2>5. \/ CompareOrGoOn(V, {}, size, PathBehindStart, FirstLine)
        \/ CompareOrGoOn(T, {}, 0, PathBehindStart, FirstLine)
    BY <1>6, <2>1 DEF StartNearAvx2, V, B
  <2>6. T \in Seq(Registers) /\ Len(T) > 0
    <3>1. PICK V1 \in Seq(Registers), B1 \in Seq(Registers) : V1 = V /\ B1 = B /\ Len(V1) = 1
      BY <2>2, <2>3
    <3>2. V1 \o B1 \in Seq(Registers) /\ Len(V1 \o B1) = Len(V1) + Len(B1) /\ Len(B1) \in Nat
      OBVIOUS
    <3>. QED  BY <3>1, <3>2
  <2>7. Within(T, 0, FirstLine)
    BY <2>2, <2>3, <2>4, BothWithin
  <2>. HIDE DEF T
  <2>8. CASE CompareOrGoOn(V, {}, size, PathBehindStart, FirstLine)
    <3>1. PICK i \in 0 .. Len(V) : Loaded(V, i, {})
      BY <2>2, <2>8, LookedAt
    <3>2. Len(V) > 0
      BY <2>2
    <3>. QED  BY <1>1, <1>2, <1>3, <2>2, <3>1, <3>2, FirstPage
  <2>9. CASE CompareOrGoOn(T, {}, 0, PathBehindStart, FirstLine)
    <3>1. PICK i \in 0 .. Len(T) : Loaded(T, i, {})
      BY <2>6, <2>9, LookedAt
    <3>. QED  BY <1>1, <1>2, <1>3, <2>6, <2>7, <3>1, FirstPage
  <2>. QED  BY <2>5, <2>8, <2>9
<1>7. CASE StartVeryNearAvx2
  <2> DEFINE B == BleYmm(0, FirstLine)
  <2>1. B \in Seq(Registers) /\ Len(B) > 0 /\ Within(B, 0, FirstLine)
    <3>1. 0 \in Int /\ FirstLine <= 2 * ZMM_SZ /\ 0 + FirstLine = FirstLine
      BY <1>2
    <3>2. Within(B, 0, 0 + FirstLine) /\ B \in Seq(Registers) /\ Len(B) > 0
      BY <1>2, <3>1, BleWithin
    <3>. QED  BY <3>1, <3>2
  <2>2. CompareOrGoOn(B, {}, FirstLine, PathBehindStart, FirstLine)
    BY <1>7 DEF StartVeryNearAvx2
  <2>. HIDE DEF B
  <2>3. PICK i \in 0 .. Len(B) : Loaded(B, i, {})
    BY <2>1, <2>2, LookedAt
  <2>. QED  BY <1>1, <1>2, <1>3, <2>1, <2>3, FirstPage
<1>8. CASE StartAvx2
  <2>1. PICK k \in Nat :
          /\ k \in {1, 2}
          /\ CompareOrGoOn(Vecs(0, k, YMM_SZ), {}, 2 * YMM_SZ, PathBehindStart, FirstLine)
    BY <1>8 DEF StartAvx2
  <2>2. k > 0 /\ k * YMM_SZ <= LeftInPage(s)
    BY <1>2, <1>3, <1>4, <1>8, <2>1 DEF StartAvx2
  <2>. QED  BY <1>1, <1>2, <2>1, <2>2, FirstVecsReach
<1>9. CASE StartNearAvx512
  <2>1. CompareOrGoOn(Vecs(0, 1, FirstLine), {}, FirstLine, PathBehindStart, FirstLine)
    BY <1>9 DEF StartNearAvx512
  <2>. QED  BY <1>1, <1>2, <1>3, <2>1, FirstVecReach
<1>10. CASE StartAvx512
  <2>1. CompareOrGoOn(Vecs(0, 1, ZMM_SZ), {}, ZMM_SZ, PathBehindStart, FirstLine)
    BY <1>10 DEF StartAvx512
  <2>2. ZMM_SZ <= LeftInPage(s)
    BY <1>4, <1>10 DEF StartAvx512
  <2>. QED  BY <1>1, <1>2, <2>1, <2>2, FirstVecReach
<1>. QED  BY <1>6, <1>7, <1>8, <1>9, <1>10

-----------------------------------------------------------------------------
\* Aligned in both strings.
LEMMA LockstepPages ==
  ASSUME IInv, NEW s \in Both, Lockstep4 \/ Lockstep1
  PROVE  LoadsUpTo(s, first)
<1>1. pc \in {"lockstep", "lockstep_1"} /\ pc # "done"
  BY DEF Lockstep4, Lockstep1
<1>2. /\ offset \in Nat /\ offset <= first /\ first \in Nat /\ Stops /\ BothAligned(offset)
      /\ Vec \in Nat /\ Vec > 0 /\ PAGE_SZ % Vec = 0 /\ s \in Nat
  BY <1>1, Looping, Sizes, SizesDivide DEF OfStrcmp, CallInv, Both
<1>3. (s + offset) % Vec = 0
  BY <1>2 DEF BothAligned, Both
<1>4. PICK k \in Nat : k > 0 /\ Loaded(Vecs(offset, k, Vec), FirstHit(Vecs(offset, k, Vec)), Both)
  <2>1. 4 \in Nat /\ 4 > 0 /\ 1 \in Nat /\ 1 > 0
    OBVIOUS
  <2>. QED  BY <2>1 DEF Lockstep4, Lockstep1, CompareOrGoOn
<1>5. offset \in Int /\ first \in Int /\ PageOf(s) <= PageOf(s + offset)
  BY <1>2, PagesInOrder
<1>. QED  BY <1>2, <1>3, <1>4, <1>5, AlignedReach

\* One string is aligned, and the vectors counted lie in a page of the other.
LEMMA ChunkPages ==
  ASSUME IInv, NEW s \in Both, Chunk4 \/ Chunk1
  PROVE  LoadsUpTo(s, first)
<1>1. pc \in {"chunk_4", "chunk_1"}
  BY DEF Chunk4, Chunk1
<1>2. /\ offset \in Nat /\ offset <= first /\ first \in Nat /\ Stops /\ SomeAligned(offset)
      /\ Vec \in Nat /\ Vec > 0 /\ PAGE_SZ % Vec = 0 /\ str1 \in Nat /\ str2 \in Nat
      /\ s \in Nat /\ vecs \in Nat /\ VecsInPage(Unaligned(offset), offset, vecs)
  BY <1>1, InChunk, Sizes, SizesDivide DEF Both
<1>3. PICK k \in Nat : /\ k > 0 /\ k <= vecs
                       /\ Loaded(Vecs(offset, k, Vec), FirstHit(Vecs(offset, k, Vec)),
                                 {aligned_str})
  <2>1. 4 \in Nat /\ 4 > 0 /\ 1 \in Nat /\ 1 > 0
    OBVIOUS
  <2>2. CASE Chunk4
    <3>1. 4 <= vecs
      BY <1>2, <2>2 DEF Chunk4, FourVecsLeft
    <3>. QED  BY <2>1, <2>2, <3>1 DEF Chunk4
  <2>3. CASE Chunk1
    <3>1. 1 <= vecs
      BY <1>2, <2>3 DEF Chunk1
    <3>. QED  BY <2>1, <2>3, <3>1 DEF Chunk1
  <2>. QED  BY <2>2, <2>3
<1>4. offset \in Int /\ first \in Int /\ PageOf(s) <= PageOf(s + offset)
      /\ PageOf(s + offset) <= PageOf(s + first)
  BY <1>2, PagesInOrder
<1>5. CASE (s + offset) % Vec = 0
  BY <1>2, <1>3, <1>4, <1>5, AlignedReach
<1>6. CASE (s + offset) % Vec # 0
  <2>1. s = Unaligned(offset)
    BY <1>2, <1>6 DEF SomeAligned, Unaligned, Both
  <2>2. k * Vec <= LeftInPage(s + offset)
    <3>1. vecs * Vec <= LeftInPage(s + offset)
      BY <1>2, <2>1 DEF VecsInPage
    <3>2. LeftInPage(s + offset) \in Int
      BY <1>2, LeftInPageIs
    <3>3. PICK d \in Nat : vecs = k + d
      <4>1. vecs - k \in Nat /\ vecs = k + (vecs - k)
        BY <1>2, <1>3
      <4>. QED  BY <4>1
    <3>4. vecs * Vec = k * Vec + d * Vec /\ d * Vec >= 0
      BY <1>2, <3>3
    <3>5. k * Vec \in Int /\ d * Vec \in Int
      BY <1>2
    <3>. QED  BY <3>1, <3>2, <3>4, <3>5
  <2>3. FirstHit(Vecs(offset, k, Vec)) \in 0 .. k
    BY <1>2, <1>4, HitOfVecs
  <2>. QED  BY <1>2, <1>3, <1>4, <2>2, <2>3, VecsReach
<1>. QED  BY <1>5, <1>6

\* The bytes up to the end of the unaligned string's page.
LEMMA CrossPages ==
  ASSUME IInv, NEW s \in Both, CrossPage
  PROVE  LoadsUpTo(s, first)
<1>1. pc = "chunk_1"
  BY DEF CrossPage
<1>2. /\ offset \in Nat /\ offset <= first /\ first \in Nat /\ SomeAligned(offset)
      /\ Vec \in Nat /\ Vec > 0 /\ PAGE_SZ % Vec = 0 /\ str1 \in Nat /\ str2 \in Nat
      /\ s \in Nat /\ Vec <= ZMM_SZ /\ ZMM_SZ \in Nat
  BY <1>1, InChunk, Sizes, SizesDivide DEF Both
<1>3. PICK u \in Int : u = unaligned_str + offset
  BY <1>2 DEF unaligned_str
<1>4. PICK n \in Nat : n = Vec - (u % Vec) /\ n <= Vec
  <2>1. u % Vec \in 0 .. Vec - 1
    BY <1>2, DivMod
  <2>. QED  BY <1>2, <2>1
<1>5. n <= LeftInPage(s + offset) /\ LeftInPage(s + offset) \in Nat
  <2>0. PICK a \in Int : a = s + offset
    BY <1>2
  <2>1. Vec - ((s + offset) % Vec) <= LeftInPage(s + offset) /\ LeftInPage(s + offset) \in Nat
    <3>1. Vec - (a % Vec) <= LeftInPage(a)
      BY <1>2, LeftForRegister
    <3>2. LeftInPage(a) \in Nat
      BY LeftInPageIs
    <3>. QED  BY <2>0, <3>1, <3>2
  <2>2. CASE (s + offset) % Vec = 0
    BY <1>2, <1>4, <2>1, <2>2
  <2>3. CASE (s + offset) % Vec # 0
    <3>1. s = unaligned_str
      BY <1>2, <2>3 DEF SomeAligned, unaligned_str, Both
    <3>. QED  BY <1>3, <1>4, <2>1, <3>1
  <2>. QED  BY <2>2, <2>3
<1>6. first \in Int /\ PageOf(s + offset) <= PageOf(s + first) /\ PageOf(s) <= PageOf(s + offset)
  BY <1>2, PagesInOrder
<1>7. CASE routine \in Avx2Strcmps
  <2> DEFINE B == BleYmm(offset, n)
  <2>1. CompareOrGoOn(B, {}, offset + n, "chunk", offset + n)
    BY <1>3, <1>4, <1>7 DEF CrossPage
  <2>2. B \in Seq(Registers) /\ Len(B) > 0 /\ Within(B, offset, offset + n)
    <3>1. n <= 2 * ZMM_SZ /\ offset \in Int
      BY <1>2, <1>4
    <3>. QED  BY <3>1, BleWithin
  <2>. HIDE DEF B
  <2>3. Within(B, offset, offset + LeftInPage(s + offset))
    <3>1. PICK e \in Int, f \in Int, b \in Int :
            /\ b = offset /\ e = offset + n /\ f = offset + LeftInPage(s + offset) /\ e <= f
            /\ b <= b
      BY <1>2, <1>5
    <3>2. Within(B, b, e)
      BY <2>2, <3>1
    <3>3. Within(B, b, f)
      BY <2>2, <3>1, <3>2, WithinMore
    <3>. QED  BY <3>1, <3>3
  <2>4. PICK i \in 0 .. Len(B) : Loaded(B, i, {})
    BY <2>1, <2>2, LookedAt
  <2>5. offset \in Int /\ 0 <= EndOf(B[1])
    BY <1>2, <2>2, <2>3, BehindFront
  <2>. QED  BY <1>2, <1>6, <2>2, <2>3, <2>4, <2>5, BlockReaches
<1>8. CASE routine \notin Avx2Strcmps
  <2>1. CompareOrGoOn(Vecs(offset, 1, n), {}, offset + n, "chunk", offset + n)
    BY <1>3, <1>4, <1>8 DEF CrossPage
  <2>. QED  BY <1>2, <1>5, <1>6, <2>1, VecLookReach
<1>. QED  BY <1>7, <1>8

-----------------------------------------------------------------------------
\* No offset up to the first stop that size allows is behind l.
Limit(l) == l \in Nat /\ \A o \in Nat : o <= first /\ o < size => o <= l

LEMMA LimitReaches ==
  ASSUME NEW l, Limit(l), NEW o \in Nat, o <= first, o < size, NEW s \in Nat
  PROVE  l \in Nat /\ l \in Int /\ o <= l /\ PageOf(s + o) <= PageOf(s + l)
<1>1. l \in Nat /\ l \in Int /\ o <= l
  BY DEF Limit
<1>2. s + o \in Int /\ s + l \in Int /\ s + o <= s + l
  BY <1>1
<1>. QED  BY <1>1, <1>2, PagesInOrder

\* zen4's strcmp looks for the page's end, and for the size.
LEMMA Zen4Pages ==
  ASSUME IInv, NEW s \in Both, NEW l, Limit(l), StartZen4 \/ CrossPageZen4
  PROVE  LoadsUpTo(s, l)
<1>1. /\ str1 \in Nat /\ str2 \in Nat /\ s \in Nat /\ Stops /\ offset \in Nat /\ offset <= first
      /\ ZMM_SZ \in Nat /\ offset < size
  <2>1. CASE StartZen4
    <3>1. pc = "start" /\ pc # "done" /\ 0 < size
      BY <2>1 DEF StartZen4, Called
    <3>2. offset = 0
      BY <3>1 DEF IInv, Reached
    <3>. QED  BY <3>1, <3>2, Looping, Sizes DEF CallInv, Both
  <2>2. CASE CrossPageZen4
    <3>1. pc = "zen4_page" /\ pc # "done" /\ offset < size
      BY <2>2 DEF CrossPageZen4
    <3>. QED  BY <3>1, Looping, Sizes DEF CallInv, Both
  <2>. QED  BY <2>1, <2>2
<1>2. l \in Int /\ PageOf(s + offset) <= PageOf(s + l)
  BY <1>1, LimitReaches
<1>3. PICK n \in Nat : /\ n <= SafeBytes(offset)
                       /\ \E cov, path, next :
                            CompareOrGoOn(Vecs(offset, 1, n), {}, cov, path, next)
  <2>0. SafeBytes(offset) \in 1 .. PAGE_SZ
    BY <1>1, SafeBytesAre
  <2>1. CASE StartZen4
    <3>1. offset = 0
      BY <2>1 DEF StartZen4, Called, IInv, Reached
    <3>2. Min({SafeBytes(0), ZMM_SZ}) \in Nat /\ Min({SafeBytes(0), ZMM_SZ}) <= SafeBytes(0)
      BY <1>1, <2>0, <3>1, MinOfTwo
    <3>. QED  BY <2>1, <3>1, <3>2 DEF StartZen4
  <2>2. CASE CrossPageZen4
    BY <2>0, <2>2 DEF CrossPageZen4
  <2>. QED  BY <2>1, <2>2
<1>4. n <= LeftInPage(s + offset)
  <2>1. /\ SafeBytes(offset) \in 1 .. PAGE_SZ
        /\ SafeBytes(offset) <= LeftInPage(s + offset)
    BY <1>1, SafeBytesAre DEF Both
  <2>2. LeftInPage(s + offset) \in Int
    BY <1>1, LeftInPageIs
  <2>. QED  BY <1>3, <2>1, <2>2
<1>. QED  BY <1>1, <1>2, <1>3, <1>4, VecLookReach

LEMMA RampPages ==
  ASSUME IInv, NEW s \in Both, NEW l, Limit(l), RampZen4, offset + 3 * ZMM_SZ <= size
  PROVE  LoadsUpTo(s, l)
<1>1. pc = "zen4_ramp" /\ pc \in {"zen4_ramp", "zen4_page", "zen4_vecs"}
  BY DEF RampZen4
<1>2. /\ offset \in Nat /\ offset <= first /\ first \in Nat /\ size \in Nat /\ Stops
      /\ ZMM_SZ \in Nat /\ ZMM_SZ > 0 /\ PAGE_SZ % ZMM_SZ = 0 /\ s \in Nat
      /\ OfStrcmp(pc, offset, vecs) /\ Vec = ZMM_SZ
  BY <1>1, InZen4, Sizes, SizesDivide DEF Both
<1>3. (s + offset) % ZMM_SZ = 0
  BY <1>1, <1>2 DEF OfStrcmp, BothAligned, Both
<1>4. PICK k \in Nat : /\ k = 3 /\ k > 0
                       /\ Loaded(Vecs(offset, k, ZMM_SZ), FirstHit(Vecs(offset, k, ZMM_SZ)), Both)
  <2>1. 3 \in Nat /\ 3 > 0
    OBVIOUS
  <2>. QED  BY <2>1 DEF RampZen4, CompareOrGoOn
<1>5. offset \in Int /\ PageOf(s) <= PageOf(s + offset) /\ offset < size
  BY <1>2, PagesInOrder
<1>6. l \in Int
  BY DEF Limit
<1>7. ASSUME NEW j \in 1 .. k, offset + (j - 1) * ZMM_SZ <= first
      PROVE  offset + (j - 1) * ZMM_SZ <= l
  <2>1. PICK x \in Nat : x = offset + (j - 1) * ZMM_SZ
    BY <1>2
  <2>2. x < size
    <3>1. j = 1 \/ j = 2 \/ j = 3
      BY <1>4
    <3>. QED  BY <1>2, <2>1, <3>1
  <2>. QED  BY <1>7, <2>1, <2>2 DEF Limit
<1>. QED  BY <1>2, <1>3, <1>4, <1>5, <1>6, <1>7, AlignedReach

LEMMA VecsZen4Pages ==
  ASSUME IInv, NEW s \in Both, NEW l, Limit(l), VecsZen4
  PROVE  LoadsUpTo(s, l)
<1>1. pc = "zen4_vecs" /\ pc \in {"zen4_ramp", "zen4_page", "zen4_vecs"} /\ 0 < vecs
  BY DEF VecsZen4
<1>2. /\ offset \in Nat /\ first \in Nat /\ size \in Nat /\ 0 < size
      /\ ZMM_SZ \in Nat /\ ZMM_SZ > 0 /\ s \in Nat /\ vecs \in Nat
      /\ OfStrcmp(pc, offset, vecs) /\ Vec = ZMM_SZ
  BY <1>1, InZen4, Sizes DEF Both
<1>3. vecs * ZMM_SZ <= LeftInPage(s + offset) /\ PageOf(s + offset) <= PageOf(s + l)
  <2>1. vecs * ZMM_SZ <= LeftInPage(s + offset) /\ PageOf(s + offset) <= PageOf(s + Bound)
    BY <1>1, <1>2 DEF OfStrcmp, VecsInPage
  <2>2. Bound \in Nat /\ Bound <= first /\ Bound < size
    BY <1>2 DEF Bound
  <2>3. PageOf(s + Bound) <= PageOf(s + l)
    BY <1>2, <2>2, LimitReaches
  <2>4. PICK x \in Int, y \in Int, z \in Int :
          x = PageOf(s + offset) /\ y = PageOf(s + Bound) /\ z = PageOf(s + l)
    <3>1. s + offset \in Int /\ s + Bound \in Int /\ s + l \in Int
      BY <1>2, <2>2 DEF Limit
    <3>. QED  BY <3>1, PageIsInt
  <2>. QED  BY <2>1, <2>3, <2>4
<1>4. PICK k \in Nat : /\ k > 0 /\ k <= vecs
                       /\ \E al : Loaded(Vecs(offset, k, ZMM_SZ), 0, al)
  <2>1. 4 \in Nat /\ 4 > 0 /\ 1 \in Nat /\ 1 > 0 /\ (vecs >= 4 => 4 <= vecs) /\ 1 <= vecs
    BY <1>1, <1>2
  <2>. QED  BY <2>1 DEF VecsZen4
<1>5. k * ZMM_SZ <= LeftInPage(s + offset)
  <2>1. PICK d \in Nat : vecs = k + d
    <3>1. vecs - k \in Nat /\ vecs = k + (vecs - k)
      BY <1>2, <1>4
    <3>. QED  BY <3>1
  <2>2. vecs * ZMM_SZ = k * ZMM_SZ + d * ZMM_SZ /\ d * ZMM_SZ >= 0
    BY <1>2, <2>1
  <2>3. k * ZMM_SZ \in Int /\ d * ZMM_SZ \in Int /\ LeftInPage(s + offset) \in Int
    BY <1>2, LeftInPageIs
  <2>. QED  BY <1>3, <2>2, <2>3
<1>6. l \in Int /\ 0 \in 0 .. k
  BY DEF Limit
<1>. QED  BY <1>2, <1>3, <1>4, <1>5, <1>6, VecsReach


-----------------------------------------------------------------------------
LEMMA NothingReaches ==
  ASSUME load' = NoLoad, NEW s \in Nat, NEW l \in Nat
  PROVE  LoadsUpTo(s, l)
<1>1. load'.from = 0 /\ load'.to = 0 /\ s + 0 = s /\ s + 0 - 1 = s - 1
  BY DEF NoLoad
<1>2. PageOf(s - 1) <= PageOf(s + l) /\ PageOf(s) <= PageOf(s)
  <2>1. PageOf(s) \in Int
    BY PageIsInt
  <2>. QED  BY <2>1, PagesInOrder
<1>. QED  BY <1>1, <1>2 DEF LoadsUpTo, EndsInPage

LEMMA InsideReaches ==
  ASSUME LoadsInside, size \in Nat, 0 < size, NEW s \in Nat, NEW l \in Nat, size - 1 <= l
  PROVE  LoadsUpTo(s, l)
<1>1. PICK x \in Nat, y \in Nat : x = load'.from /\ y = load'.to /\ y <= size
  BY DEF LoadsInside
<1>2. s <= s + x /\ s + y - 1 <= s + l
  BY <1>1
<1>3. PageOf(s) <= PageOf(s + x) /\ PageOf(s + y - 1) <= PageOf(s + l)
  BY <1>2, PagesInOrder
<1>. QED  BY <1>1, <1>3 DEF LoadsUpTo, EndsInPage

LEMMA AlignedRoom ==
  ASSUME NEW a \in Int, NEW w \in Nat, w > 0, PAGE_SZ % w = 0, a % w = 0
  PROVE  w <= LeftInPage(a) /\ LeftInPage(a) \in Nat
<1>1. w - (a % w) <= LeftInPage(a)
  BY LeftForRegister
<1>2. LeftInPage(a) \in Nat
  BY LeftInPageIs
<1>. QED  BY <1>1, <1>2

\* The aligned vector that holds the first byte, and the next one.
LEMMA LeadingReach ==
  ASSUME CallInv, Stops, ScanVec = YMM_SZ, NEW l, Limit(l), NEW k \in {1, 2},
         k = 2 => Trailing < size, NEW al,
         Loaded(Vecs(-Leading, k, YMM_SZ), FirstHit(Vecs(-Leading, k, YMM_SZ)), al)
  PROVE  LoadsUpTo(str1, l)
<1>1. PICK v \in Nat : v = YMM_SZ /\ v > 0 /\ PAGE_SZ % v = 0 /\ PAGE_SZ \in Nat /\ PAGE_SZ > 0
  BY Sizes, SizesDivide
<1>2. PICK o \in Int : o = -Leading /\ o <= 0 /\ o + v = Trailing /\ Trailing \in Nat /\ 0 < o + v
  BY <1>1, LeadingIs
<1>3. str1 \in Nat /\ l \in Nat /\ l \in Int /\ o <= first /\ k \in Nat /\ k > 0
  BY <1>2 DEF CallInv, Limit
<1>4. (str1 + o) % v = 0
  <2>1. str1 + o = str1 - (str1 % v) /\ str1 % v \in Int
    BY <1>1, <1>2, <1>3, DivMod DEF Leading
  <2>. QED  BY <1>1, <1>3, <2>1, RoundedDown
<1>5. PageOf(str1) <= PageOf(str1 + o)
  <2>1. PICK a \in Int : a = str1 + o /\ str1 <= a + v - 1
    BY <1>1, <1>2, <1>3
  <2>2. (a + v - 1) \div PAGE_SZ = a \div PAGE_SZ
    BY <1>1, <1>4, <2>1, BlockInOnePage
  <2>3. PageOf(str1) <= PageOf(a + v - 1)
    BY <1>1, <1>3, <2>1, PagesInOrder
  <2>. QED  BY <2>1, <2>2, <2>3 DEF PageOf
<1>6. ASSUME NEW j \in 1 .. k, o + (j - 1) * v <= first
      PROVE  o + (j - 1) * v <= l
  <2>1. CASE j = 1
    BY <1>1, <1>2, <1>3, <2>1
  <2>2. CASE j = 2
    <3>1. k = 2 /\ o + (j - 1) * v = Trailing
      BY <1>1, <1>2, <2>2
    <3>. QED  BY <1>2, <1>6, <3>1 DEF Limit
  <2>. QED  BY <2>1, <2>2
<1>7. Loaded(Vecs(o, k, v), FirstHit(Vecs(o, k, v)), al)
  BY <1>1, <1>2
<1>8. 0 <= o + v /\ PAGE_SZ % v = 0 /\ v > 0 /\ str1 \in Nat
  BY <1>1, <1>2, <1>3
<1>. QED  BY <1>3, <1>4, <1>5, <1>6, <1>7, <1>8, AlignedReach

\* The first loads of strlen, strnlen and strchr.
LEMMA StartScanPages ==
  ASSUME IInv, NEW l, Limit(l),
         StartScanAtPageEndAvx2 \/ StartScanAvx2 \/ StartScanAtPageEndAvx512 \/ StartScanAvx512
  PROVE  LoadsUpTo(str1, l)
<1>1. Called(Avx2Scans) \/ Called(Avx512Scans)
  BY DEF StartScanAtPageEndAvx2, StartScanAvx2, StartScanAtPageEndAvx512, StartScanAvx512
<1>2. /\ CallInv /\ Stops /\ size \in Nat /\ str1 \in Nat
      /\ Leading \in Nat /\ Trailing \in Nat /\ Trailing = ScanVec - Leading /\ l \in Nat
      /\ YMM_SZ \in Nat /\ ZMM_SZ \in Nat /\ ScanVec \in Nat /\ ScanVec > 0
  BY <1>1, StartedScan, ScanFamilies, Sizes DEF CallInv, Limit
<1>3. routine \in Avx2Scans => ScanVec = YMM_SZ
  BY ScanFamilies
<1>4. routine \in Avx512Scans => ScanVec = ZMM_SZ
  BY ScanFamilies
<1>5. Trailing <= LeftInPage(str1) /\ LeftInPage(str1) \in Nat
  <2>1. str1 \in Int /\ PAGE_SZ % ScanVec = 0
    BY <1>2, SizesDivide, Sizes
  <2>2. ScanVec - (str1 % ScanVec) <= LeftInPage(str1)
    BY <1>2, <2>1, LeftForRegister
  <2>3. LeftInPage(str1) \in Nat
    BY <2>1, LeftInPageIs
  <2>. QED  BY <1>2, <2>2, <2>3 DEF Leading
<1>6. ASSUME ~AtPageEnd  PROVE ScanVec <= LeftInPage(str1)
  <2>1. InPage(str1) \in Int
    BY <1>2, LeftInPageIs
  <2>. QED  BY <1>2, <1>6, <2>1, Sizes DEF AtPageEnd, LeftInPage
<1>7. CASE StartScanAtPageEndAvx2
  <2>1. PICK k \in {1, 2} :
          /\ k = 2 => Trailing < size
          /\ CompareOrGoOn(Vecs(-Leading, k, YMM_SZ), {}, YMM_SZ, "scan_line", Trailing)
    BY <1>7 DEF StartScanAtPageEndAvx2
  <2>2. Loaded(Vecs(-Leading, k, YMM_SZ), FirstHit(Vecs(-Leading, k, YMM_SZ)), {})
    BY <2>1 DEF CompareOrGoOn
  <2>3. ScanVec = YMM_SZ
    BY <1>3, <1>7 DEF StartScanAtPageEndAvx2, Called
  <2>. QED  BY <1>2, <2>1, <2>2, <2>3, LeadingReach
<1>8. CASE StartScanAvx2
  <2>1. CompareOrGoOn(Vecs(0, 1, YMM_SZ), {}, YMM_SZ, "scan_line", Trailing)
    BY <1>8 DEF StartScanAvx2
  <2>2. YMM_SZ <= LeftInPage(str1)
    BY <1>3, <1>6, <1>8 DEF StartScanAvx2, Called
  <2>. QED  BY <1>2, <2>1, <2>2, FirstVecReach
<1>9. CASE StartScanAtPageEndAvx512
  <2>1. PICK b \in Nat : b = Min({Trailing, size})
    BY <1>2, MinOfTwo
  <2>2. PICK n \in Nat : n = Min({Trailing, b + Leading}) /\ n <= Trailing
    <3>1. b + Leading \in Nat
      BY <1>2
    <3>. QED  BY <1>2, <3>1, MinOfTwo
  <2>3. CompareOrGoOn(Vecs(0, 1, n), {}, Trailing, "scan_vecs", Trailing)
    BY <1>9, <2>1, <2>2 DEF StartScanAtPageEndAvx512
  <2>4. n <= LeftInPage(str1)
    BY <1>2, <1>5, <2>2
  <2>. QED  BY <1>2, <2>3, <2>4, FirstVecReach
<1>10. CASE StartScanAvx512
  <2>1. PICK n \in Nat : n = Min({size, ZMM_SZ}) /\ n <= ZMM_SZ
    BY <1>2, MinOfTwo
  <2>2. \E cov : CompareOrGoOn(Vecs(0, 1, n), {}, cov, "scan_vecs", Trailing)
    BY <1>10, <2>1 DEF StartScanAvx512
  <2>3. n <= LeftInPage(str1)
    <3>1. ZMM_SZ <= LeftInPage(str1)
      BY <1>4, <1>6, <1>10 DEF StartScanAvx512, Called
    <3>. QED  BY <1>2, <1>5, <2>1, <3>1
  <2>. QED  BY <1>2, <2>2, <2>3, FirstVecReach
<1>. QED  BY <1>7, <1>8, <1>9, <1>10

\* k vectors of which the block is aligned.
LEMMA BlockPages ==
  ASSUME IInv, pc \in ScanLoops, NEW l, Limit(l), offset < size, NEW k \in Nat, k > 0,
         NEW v \in Nat, NEW w \in Nat, w > 0, w = k * v, PAGE_SZ % w = 0, (str1 + offset) % w = 0,
         NEW al, NEW cov, NEW path, NEW next,
         \/ CompareOrGoOn(Vecs(offset, k, v), al, cov, path, next)
         \/ FindOrGoOn(Vecs(offset, k, v), al, path, next)
  PROVE  LoadsUpTo(str1, l)
<1>1. offset \in Nat /\ offset <= first /\ str1 \in Nat
  BY InScan
<1>2. k * v <= LeftInPage(str1 + offset)
  <2>1. PICK a \in Int : a = str1 + offset
    BY <1>1
  <2>2. w <= LeftInPage(a)
    BY <2>1, AlignedRoom
  <2>. QED  BY <2>1, <2>2
<1>3. PageOf(str1 + offset) <= PageOf(str1 + l) /\ l \in Int
  BY <1>1, LimitReaches
<1>. QED  BY <1>1, <1>2, <1>3, VecsLookReach

\* One aligned vector, or the bytes of one that are left.
LEMMA AlignedPages ==
  ASSUME IInv, pc \in ScanLoops, NEW l, Limit(l), offset < size, (str1 + offset) % ScanVec = 0,
         NEW n \in Nat, n <= ScanVec, NEW al, NEW cov, NEW path, NEW next,
         \/ CompareOrGoOn(Vecs(offset, 1, n), al, cov, path, next)
         \/ FindOrGoOn(Vecs(offset, 1, n), al, path, next)
         \/ CompareAndReturn(Vecs(offset, 1, n), al)
  PROVE  LoadsUpTo(str1, l)
<1>1. offset \in Nat /\ offset <= first /\ str1 \in Nat
  BY InScan
<1>2. n <= LeftInPage(str1 + offset)
  <2>1. PICK a \in Int : a = str1 + offset
    BY <1>1
  <2>2. PICK v \in Nat : v = ScanVec /\ v > 0 /\ PAGE_SZ % v = 0
    BY Sizes, SizesDivide
  <2>3. v <= LeftInPage(a) /\ LeftInPage(a) \in Nat
    BY <2>1, <2>2, AlignedRoom
  <2>4. n <= LeftInPage(a)
    BY <2>2, <2>3
  <2>. QED  BY <2>1, <2>4
<1>3. PageOf(str1 + offset) <= PageOf(str1 + l) /\ l \in Int
  BY <1>1, LimitReaches
<1>. QED  BY <1>1, <1>2, <1>3, VecLookReach

LEMMA ScanLoopPages ==
  ASSUME IInv, NEW l, Limit(l),
         LineAvx2 \/ PairAvx2 \/ GroupAvx2 \/ LastScanAvx2
           \/ VectorAvx512 \/ GroupAvx512 \/ LastScanAvx512
  PROVE  LoadsUpTo(str1, l) \/ load' = load
<1>1. pc \in ScanLoops
  BY DEF LineAvx2, PairAvx2, GroupAvx2, LastScanAvx2, VectorAvx512, GroupAvx512, LastScanAvx512,
     ScanLoops
<1>2. /\ offset \in Nat /\ size \in Nat /\ str1 \in Nat /\ OfScan(pc, offset) /\ l \in Nat
      /\ Leading \in 0 .. ScanVec - 1 /\ Trailing \in 1 .. ScanVec
      /\ Trailing = ScanVec - Leading /\ (str1 + Trailing) % ScanVec = 0
  BY <1>1, InScan DEF Limit
<1>3. /\ YMM_SZ \in Nat /\ YMM_SZ > 0 /\ ZMM_SZ \in Nat /\ ZMM_SZ > 0
      /\ ScanVec \in Nat /\ ScanVec > 0 /\ 2 * YMM_SZ = ZMM_SZ
  BY Sizes
<1>4. CASE LineAvx2
  <2>1. routine \in Avx2Scans /\ offset = Trailing /\ YMM_SZ < size /\ ScanVec = YMM_SZ
    BY <1>2, <1>4, ScanFamilies DEF LineAvx2, OfScan
  <2>2. \/ \E al, cov, path, next : CompareOrGoOn(Vecs(offset, 1, YMM_SZ), al, cov, path, next)
        \/ load' = load
    BY <1>4 DEF LineAvx2
  <2>3. offset < size /\ (str1 + offset) % ScanVec = 0 /\ YMM_SZ <= ScanVec
    BY <1>2, <1>3, <2>1
  <2>. QED  BY <1>1, <1>3, <2>2, <2>3, AlignedPages
<1>5. CASE PairAvx2
  <2>1. CASE load' = load
    BY <2>1
  <2>2. CASE ~(load' = load)
    <3>1. /\ offset + 2 * YMM_SZ <= size
          /\ FindOrGoOn(Vecs(offset, 2, YMM_SZ), {str1}, "scan_groups", offset + 2 * YMM_SZ)
      BY <1>5, <2>2 DEF PairAvx2
    <3>2. PICK k \in Nat, w \in Nat : k = 2 /\ k > 0 /\ w = k * YMM_SZ /\ w = ZMM_SZ /\ w > 0
      BY <1>3
    <3>3. offset = w - (str1 % w)
      BY <1>2, <1>3, <1>5, <3>2 DEF PairAvx2, OfScan
    <3>4. (str1 + offset) % w = 0 /\ PAGE_SZ % w = 0
      BY <1>2, <3>2, <3>3, RoundedUp, SizesDivide
    <3>5. offset < size
      BY <1>2, <1>3, <3>1
    <3>6. FindOrGoOn(Vecs(offset, k, YMM_SZ), {str1}, "scan_groups", offset + 2 * YMM_SZ)
      BY <3>1, <3>2
    <3>. QED  BY <1>1, <1>3, <3>2, <3>4, <3>5, <3>6, BlockPages
  <2>. QED  BY <2>1, <2>2
<1>6. CASE GroupAvx2 \/ GroupAvx512
  <2>1. /\ pc = "scan_groups" /\ offset + 4 * ScanVec <= size
        /\ FindOrGoOn(Vecs(offset, 4, ScanVec), {str1}, pc, offset + 4 * ScanVec)
    BY <1>6, ScanFamilies DEF GroupAvx2, GroupAvx512
  <2>2. PICK k \in Nat, w \in Nat : /\ k = 4 /\ k > 0 /\ w = k * ScanVec /\ w > 0
                                    /\ w = 4 * ScanVec
    BY <1>3
  <2>3. PAGE_SZ % w = 0
    BY <2>2, PageAssumption, Sizes
  <2>4. (str1 + offset) % w = 0
    <3>1. ~(size < offset + 4 * ScanVec)
      BY <1>2, <1>3, <2>1
    <3>. QED  BY <1>2, <2>1, <2>2, <3>1 DEF OfScan
  <2>5. offset < size
    BY <1>2, <1>3, <2>1
  <2>6. FindOrGoOn(Vecs(offset, k, ScanVec), {str1}, pc, offset + 4 * ScanVec)
    BY <2>1, <2>2
  <2>. QED  BY <1>1, <1>3, <2>2, <2>3, <2>4, <2>5, <2>6, BlockPages
<1>7. CASE LastScanAvx2
  <2>1. (str1 + offset) % ScanVec = 0 /\ ScanVec = YMM_SZ /\ YMM_SZ <= ScanVec
    BY <1>2, <1>3, <1>7, ScanFamilies DEF LastScanAvx2, OfScan
  <2>2. \/ load' = NoLoad
        \/ /\ offset < size
           /\ \E cov, path, next : CompareOrGoOn(Vecs(offset, 1, YMM_SZ), {}, cov, path, next)
    BY <1>7 DEF LastScanAvx2, NothingLeft
  <2>. QED  BY <1>1, <1>2, <1>3, <2>1, <2>2, AlignedPages, NothingReaches
<1>8. CASE VectorAvx512
  <2>1. (str1 + offset) % ScanVec = 0 /\ ScanVec = ZMM_SZ /\ ZMM_SZ <= ScanVec
    BY <1>2, <1>3, <1>8, ScanFamilies DEF VectorAvx512, OfScan
  <2>2. offset < size /\ FindOrGoOn(Vecs(offset, 1, ZMM_SZ), {str1}, pc, offset + ZMM_SZ)
    BY <1>2, <1>3, <1>8 DEF VectorAvx512
  <2>. QED  BY <1>1, <1>3, <2>1, <2>2, AlignedPages
<1>9. CASE LastScanAvx512
  <2>1. (str1 + offset) % ScanVec = 0 /\ ScanVec = ZMM_SZ /\ ZMM_SZ <= ScanVec
    BY <1>2, <1>3, <1>9, ScanFamilies DEF LastScanAvx512, OfScan
  <2>2. CASE offset + ZMM_SZ <= size
    <3>1. offset < size /\ FindOrGoOn(Vecs(offset, 1, ZMM_SZ), {str1}, pc, offset + ZMM_SZ)
      BY <1>2, <1>3, <1>9, <2>2 DEF LastScanAvx512
    <3>. QED  BY <1>1, <1>3, <2>1, <3>1, AlignedPages
  <2>3. CASE ~(offset + ZMM_SZ <= size) /\ offset < size
    <3>1. PICK n \in Nat : n = size - offset /\ n <= ScanVec
      BY <1>2, <1>3, <2>1, <2>3
    <3>2. CompareAndReturn(Vecs(offset, 1, n), {})
      BY <1>9, <2>3, <3>1 DEF LastScanAvx512
    <3>. QED  BY <1>1, <2>1, <2>3, <3>1, <3>2, AlignedPages
  <2>4. CASE ~(offset + ZMM_SZ <= size) /\ ~(offset < size)
    <3>1. load' = NoLoad
      BY <1>9, <2>4 DEF LastScanAvx512, NothingLeft
    <3>. QED  BY <1>2, <3>1, NothingReaches
  <2>. QED  BY <2>2, <2>3, <2>4
<1>. QED  BY <1>4, <1>5, <1>6, <1>7, <1>8, <1>9

LEMMA MemchrPages ==
  ASSUME IInv, NEW l, Limit(l),
         SmallMemchrStrict \/ StartMemchrAvx2 \/ StartMemchrAtPageEndAvx2 \/ SmallMemchrAvx512
           \/ MediumMemchr \/ LargeMemchr \/ IterateMemchr \/ TailMemchr
  PROVE  LoadsInside \/ LoadsUpTo(str1, l)
<1>1. size \in Nat /\ str1 \in Nat /\ l \in Nat /\ YMM_SZ \in Nat /\ ZMM_SZ \in Nat /\ ScanVec \in Nat
  BY Sizes DEF IInv, CallInv, Limit
<1>3. ASSUME ~AtPageEnd  PROVE ScanVec <= LeftInPage(str1)
  <2>1. InPage(str1) \in Int
    BY <1>1, LeftInPageIs
  <2>. QED  BY <1>1, <1>3, <2>1, Sizes DEF AtPageEnd, LeftInPage
<1>4. CASE MediumMemchr \/ LargeMemchr \/ IterateMemchr \/ TailMemchr
  BY <1>4, MemchrInside
<1>5. CASE Strict /\ (SmallMemchrStrict \/ StartMemchrAvx2 \/ SmallMemchrAvx512)
  BY <1>5, StartMemchrInside
<1>6. CASE SmallMemchrStrict
  <2>1. Strict
    BY <1>6 DEF SmallMemchrStrict, Called, Strict
  <2>. QED  BY <1>5, <1>6, <2>1
<1>7. CASE ~Strict /\ StartMemchrAvx2
  <2>1. CompareOrGoOn(Vecs(0, 1, YMM_SZ), {}, YMM_SZ, "memchr_rest", 0) /\ ~AtPageEnd
        /\ ScanVec = YMM_SZ
    BY <1>7, ScanFamilies DEF StartMemchrAvx2, Called
  <2>2. YMM_SZ <= LeftInPage(str1)
    BY <1>3, <2>1
  <2>. QED  BY <1>1, <2>1, <2>2, FirstVecReach
<1>8. CASE StartMemchrAtPageEndAvx2
  <2>1. Called({"memchr_avx2"})
    BY <1>8 DEF StartMemchrAtPageEndAvx2
  <2>2. CallInv /\ Stops /\ ScanVec = YMM_SZ /\ Trailing \in Nat
    <3>1. CallInv /\ Stops /\ routine \in Avx2Memchrs
      BY <2>1, Started DEF Avx2Memchrs, Called
    <3>2. ScanVec = YMM_SZ /\ Trailing \in 1 .. ScanVec
      BY <3>1, ScanFamilies, LeadingIs
    <3>. QED  BY <1>1, <3>1, <3>2
  <2>3. PICK k \in {1, 2} :
          /\ k = 2 => Trailing < size
          /\ \E al, cov, path, next :
               CompareOrGoOn(Vecs(-Leading, k, YMM_SZ), al, cov, path, next)
    <3>1. PICK k \in {1, 2} : k = IF size <= Trailing THEN 1 ELSE 2
      OBVIOUS
    <3>2. k = 2 => Trailing < size
      BY <1>1, <2>2, <3>1
    <3>. QED  BY <1>8, <3>1, <3>2 DEF StartMemchrAtPageEndAvx2
  <2>4. \E al : Loaded(Vecs(-Leading, k, YMM_SZ), FirstHit(Vecs(-Leading, k, YMM_SZ)), al)
    BY <2>3 DEF CompareOrGoOn
  <2>. QED  BY <2>2, <2>3, <2>4, LeadingReach
<1>9. CASE ~Strict /\ SmallMemchrAvx512
  <2>1. PICK n \in Nat : /\ n = IF AtPageEnd \/ Strict THEN size ELSE ZMM_SZ
                         /\ CompareOrGoOn(Vecs(0, 1, n), {}, size, pc, 0)
    BY <1>1, <1>9 DEF SmallMemchrAvx512
  <2>2. CASE AtPageEnd
    <3>1. n = size
      BY <2>1, <2>2
    <3>2. PICK z \in Nat, k \in Nat : z = 0 /\ k = 1 /\ k > 0 /\ z + k * n <= size
      BY <1>1, <3>1
    <3>3. Fits(Vecs(z, k, n))
      BY <1>1, <3>2, VecsFit
    <3>4. Fits(Vecs(0, 1, n))
      BY <3>2, <3>3
    <3>. QED  BY <1>1, <2>1, <3>4, LookFits
  <2>3. CASE ~AtPageEnd
    <3>1. n = ZMM_SZ /\ ScanVec = ZMM_SZ
      BY <1>9, <2>1, <2>3, ScanFamilies DEF SmallMemchrAvx512, Called
    <3>2. n <= LeftInPage(str1)
      BY <1>3, <2>3, <3>1
    <3>. QED  BY <1>1, <2>1, <3>2, FirstVecReach
  <2>. QED  BY <2>2, <2>3
<1>. QED  BY <1>4, <1>5, <1>6, <1>7, <1>8, <1>9

-----------------------------------------------------------------------------
\* The aligned vector that holds the first byte of s lies in its page.
LEMMA VectorOfFirst ==
  ASSUME NEW s \in Nat, NEW v \in Nat, v > 0, PAGE_SZ % v = 0
  PROVE  /\ v - (s % v) \in 1 .. v /\ v - (s % v) <= LeftInPage(s) /\ LeftInPage(s) \in Nat
         /\ -(s % v) \in Int /\ -(s % v) <= 0 /\ PageOf(s) <= PageOf(s - (s % v))
<1>1. PICK r \in 0 .. v - 1, a \in Int : r = s % v /\ a = s - r
  BY DivMod
<1>2. v - (s % v) <= LeftInPage(s)
  <2>1. s \in Int
    OBVIOUS
  <2>. QED  BY <2>1, LeftForRegister
<1>3. LeftInPage(s) \in Nat
  BY LeftInPageIs
<1>4. PageOf(s) <= PageOf(a)
  <2>1. a % v = 0
    BY <1>1, RoundedDown
  <2>2. (a + v - 1) \div PAGE_SZ = a \div PAGE_SZ
    BY <2>1, Sizes, BlockInOnePage
  <2>3. PageOf(s) <= PageOf(a + v - 1)
    <3>1. s <= a + v - 1 /\ a + v - 1 \in Int
      BY <1>1
    <3>. QED  BY <3>1, PagesInOrder
  <2>. QED  BY <2>2, <2>3 DEF PageOf
<1>. QED  BY <1>1, <1>2, <1>3, <1>4

\* No routine but strspn has read the bytes to accept.
LEMMA SpanPages ==
  ASSUME IInv, SpanNothing \/ SpanOneByte \/ SpanIndex \/ SpanFirstVector
  PROVE  LoadsUpTo(str1, first) /\ ~AcceptLoaded'
<1>1. str1 \in Nat /\ first \in Nat
  BY DEF IInv, CallInv
<1>2. PICK p \in Nat : p = LeftInPage(str1) /\ p >= 1
  BY <1>1, LeftInPageIs
<1>3. /\ XMM_SZ \in Nat /\ ZMM_SZ \in Nat /\ PAGE_SZ \in Nat
      /\ ~CrossesPage(str1, XMM_SZ) => XMM_SZ <= p
      /\ ~CrossesPage(str1, ZMM_SZ) => ZMM_SZ <= p
  <2>1. InPage(str1) \in Int
    BY <1>1, LeftInPageIs
  <2>. QED  BY <1>2, <2>1, Sizes DEF CrossesPage, LeftInPage
<1>4. CASE SpanNothing
  <2>1. PICK z \in Nat, k \in Nat, i \in Nat :
          z = 0 /\ k = 1 /\ k > 0 /\ k * k = 1 /\ i = 1 /\ i \in 0 .. k /\ str1 + z = str1
    <3>1. str1 + 0 = str1 /\ 1 * 1 = 1 /\ 1 \in 0 .. 1
      BY <1>1
    <3>. QED  BY <3>1
  <2>2. Loaded(Vecs(z, k, k), i, {}) /\ pc' = "done"
    BY <1>4, <2>1 DEF SpanNothing, Compared
  <2>3. k * k <= LeftInPage(str1 + z) /\ PageOf(str1 + z) <= PageOf(str1 + first) /\ first \in Int
    BY <1>1, <1>2, <2>1, PagesInOrder
  <2>4. LoadsUpTo(str1, first)
    BY <1>1, <2>1, <2>2, <2>3, VecsReach
  <2>. QED  BY <2>2, <2>4 DEF AcceptLoaded
<1>5. CASE SpanOneByte
  <2>1. PICK v \in Nat : v = SpanVec /\ v > 0 /\ PAGE_SZ % v = 0
    BY Sizes, SizesDivide
  <2>2. PICK b \in Int : /\ b = -(str1 % v) /\ b = UpToNext(SpanVec) - SpanVec
                         /\ b + v = UpToNext(SpanVec) /\ b + v <= p
                         /\ PageOf(str1) <= PageOf(str1 + b)
    <3>1. /\ v - (str1 % v) <= p /\ -(str1 % v) \in Int
          /\ PageOf(str1) <= PageOf(str1 - (str1 % v))
      BY <1>1, <1>2, <2>1, VectorOfFirst
    <3>2. PICK b \in Int : b = -(str1 % v) /\ str1 % v = -b
      <4>1. str1 % v \in Int
        BY <1>1, <2>1, DivMod
      <4>. QED  BY <4>1
    <3>3. v - (str1 % v) = b + v /\ str1 - (str1 % v) = str1 + b
      BY <1>1, <2>1, <3>2
    <3>. QED  BY <2>1, <3>1, <3>2, <3>3 DEF UpToNext
  <2>3. PICK k \in Nat : k = 1 /\ k > 0 /\ b + k * v = b + v
    BY <2>1
  <2> DEFINE R == Vecs(b, k, v)
  <2>4. SpanOrGoOn(R, {str1}, "span_vecs", b + v)
    BY <1>5, <2>1, <2>2, <2>3 DEF SpanOneByte
  <2>5. R \in Seq(Registers) /\ Len(R) = k
    BY VecsAre, Zenon
  <2>6. PICK e \in Int, z \in Int : /\ z = 0 /\ str1 + z = str1 /\ e = z + LeftInPage(str1 + z)
                                    /\ b + k * v <= e
    BY <1>1, <1>2, <2>1, <2>2, <2>3
  <2>7. Within(R, b, e)
    BY <2>1, <2>6, VecsWithin
  <2>11. 0 <= EndOf(R[1])
    <3>1. b + v >= 0
      BY <1>1, <2>1, <2>2
    <3>2. 1 \in 1 .. k /\ b + 1 * v = b + v
      BY <2>1, <2>3
    <3>3. EndOf(R[1]) = b + 1 * v
      BY <3>2, VecsAt
    <3>. QED  BY <3>1, <3>2, <3>3
  <2>. HIDE DEF R
  <2>8. PICK i \in 0 .. Len(R) : Loaded(R, i, {str1})
    <3>1. FirstHit(R) \in 0 .. Len(R)
      BY <2>5, FirstHitIsFirst
    <3>. QED  BY <2>4, <3>1 DEF SpanOrGoOn
  <2>9. LoadsUpTo(str1, first)
    <3>1. Within(R, b, z + LeftInPage(str1 + z)) /\ Len(R) > 0 /\ first \in Int
      BY <1>1, <2>3, <2>5, <2>6, <2>7
    <3>2. PageOf(str1 + z) <= PageOf(str1 + first)
      BY <1>1, <2>6, PagesInOrder
    <3>. QED  BY <1>1, <2>2, <2>5, <2>8, <2>11, <3>1, <3>2, BlockReaches
  <2>10. pc' \in {"done", "span_vecs"}
    BY <2>4 DEF SpanOrGoOn, Compared, GoOn
  <2>. QED  BY <2>9, <2>10 DEF AcceptLoaded
<1>6. CASE SpanIndex
  <2>1. pc' \in {"done", "span_pairs"}
    BY <1>6 DEF SpanIndex, SpanOrGoOn, Compared, GoOn
  <2>2. CASE ~CrossesPage(str1, XMM_SZ)
    <3>1. SpanOrGoOn(Vecs(0, 1, XMM_SZ), {}, "span_pairs", UpToNext(XMM_SZ))
      BY <1>6, <2>2 DEF SpanIndex
    <3>2. LoadsUpTo(str1, first)
      BY <1>1, <1>2, <1>3, <2>2, <3>1, FirstVecReach
    <3>. QED  BY <2>1, <3>2 DEF AcceptLoaded
  <2>3. CASE CrossesPage(str1, XMM_SZ) /\ routine = "strspn_avx2"
    <3>1. PICK v \in Nat : v = 1 /\ p * v = p
      OBVIOUS
    <3>2. SpanOrGoOn(Vecs(0, p, v), {}, "span_pairs", UpToNext(XMM_SZ))
      BY <1>2, <1>6, <2>3, <3>1 DEF SpanIndex
    <3>3. p > 0 /\ p * v <= LeftInPage(str1)
      BY <1>2, <3>1
    <3>4. LoadsUpTo(str1, first)
      BY <1>1, <3>2, <3>3, FirstVecsReach
    <3>. QED  BY <2>1, <3>4 DEF AcceptLoaded
  <2>4. CASE CrossesPage(str1, XMM_SZ) /\ routine # "strspn_avx2"
    <3>1. SpanOrGoOn(Vecs(0, 1, p), {}, "span_pairs", UpToNext(XMM_SZ))
      BY <1>2, <1>6, <2>4 DEF SpanIndex
    <3>2. p <= LeftInPage(str1)
      BY <1>2
    <3>3. LoadsUpTo(str1, first)
      BY <1>1, <3>1, <3>2, FirstVecReach
    <3>. QED  BY <2>1, <3>3 DEF AcceptLoaded
  <2>. QED  BY <2>2, <2>3, <2>4
<1>7. CASE SpanFirstVector
  <2>1. pc' \in {"done", "span_vecs"}
    BY <1>7 DEF SpanFirstVector, SpanOrGoOn, Compared, GoOn
  <2>2. PICK n \in Nat : /\ n <= LeftInPage(str1)
                         /\ SpanOrGoOn(Vecs(0, 1, n), {}, "span_vecs", UpToNext(ZMM_SZ))
    <3>1. CASE CrossesPage(str1, ZMM_SZ)
      <4>1. SpanOrGoOn(Vecs(0, 1, p), {}, "span_vecs", UpToNext(ZMM_SZ)) /\ p <= LeftInPage(str1)
        BY <1>2, <1>7, <3>1 DEF SpanFirstVector
      <4>. QED  BY <4>1
    <3>2. CASE ~CrossesPage(str1, ZMM_SZ)
      <4>1. SpanOrGoOn(Vecs(0, 1, ZMM_SZ), {}, "span_vecs", UpToNext(ZMM_SZ))
        BY <1>7, <3>2 DEF SpanFirstVector
      <4>. QED  BY <1>2, <1>3, <3>2, <4>1
    <3>. QED  BY <3>1, <3>2
  <2>3. LoadsUpTo(str1, first)
    BY <1>1, <2>2, FirstVecReach
  <2>. QED  BY <2>1, <2>3 DEF AcceptLoaded
<1>. QED  BY <1>4, <1>5, <1>6, <1>7

\* The aligned loops of strspn, and the one that looks up single bytes.
LEMMA SpanLoopPages ==
  ASSUME IInv, SpanPair \/ SpanFourBytes \/ SpanVector
  PROVE  LoadsUpTo(str1, first) /\ ~AcceptLoaded'
<1>1. pc \in SpanLoops
  BY DEF SpanPair, SpanFourBytes, SpanVector, SpanLoops
<1>2. /\ Stops /\ offset \in Nat /\ offset <= first /\ first \in Nat /\ str1 \in Nat
      /\ OfStrspn(pc, offset) /\ offset \in Int
  BY <1>1, InSpan
<1>3. PICK k \in Nat, v \in Nat :
        /\ k > 0 /\ v > 0 /\ PAGE_SZ % v = 0 /\ (str1 + offset) % v = 0
        /\ \E al : Loaded(Vecs(offset, k, v), FirstHit(Vecs(offset, k, v)), al)
  <2>1. CASE SpanPair
    <3>1. PICK k \in Nat : k = 2 /\ k > 0
      OBVIOUS
    <3>2. XMM_SZ \in Nat /\ XMM_SZ > 0 /\ PAGE_SZ % XMM_SZ = 0 /\ (str1 + offset) % XMM_SZ = 0
      BY <1>2, <2>1, Sizes, SizesDivide DEF SpanPair, OfStrspn
    <3>3. Loaded(Vecs(offset, k, XMM_SZ), FirstHit(Vecs(offset, k, XMM_SZ)), {str1})
      BY <2>1, <3>1 DEF SpanPair, SpanOrGoOn
    <3>. QED  BY <3>1, <3>2, <3>3
  <2>2. CASE SpanFourBytes
    <3>1. PICK k \in Nat, v \in Nat : k = 4 /\ k > 0 /\ v = 1 /\ v > 0
      OBVIOUS
    <3>2. PAGE_SZ % v = 0 /\ (str1 + offset) % v = 0
      <4>1. PICK a \in Int, q \in Int : a = str1 + offset /\ q = PAGE_SZ
        BY <1>2, Sizes
      <4>2. a * v = a /\ q * v = q
        BY <3>1
      <4>3. (a * v) % v = 0 /\ (q * v) % v = 0
        BY <3>1, MultipleIsAligned
      <4>. QED  BY <4>1, <4>2, <4>3
    <3>3. Loaded(Vecs(offset, k, v), FirstHit(Vecs(offset, k, v)), {})
      BY <2>2, <3>1 DEF SpanFourBytes, SpanOrGoOn
    <3>. QED  BY <3>1, <3>2, <3>3
  <2>3. CASE SpanVector
    <3>1. PICK k \in Nat : k = 1 /\ k > 0
      OBVIOUS
    <3>2. SpanVec \in Nat /\ SpanVec > 0 /\ PAGE_SZ % SpanVec = 0 /\ (str1 + offset) % SpanVec = 0
      BY <1>2, <2>3, Sizes, SizesDivide DEF SpanVector, OfStrspn
    <3>3. Loaded(Vecs(offset, k, SpanVec), FirstHit(Vecs(offset, k, SpanVec)), {str1})
      BY <2>3, <3>1 DEF SpanVector, SpanOrGoOn
    <3>. QED  BY <3>1, <3>2, <3>3
  <2>. QED  BY <2>1, <2>2, <2>3
<1>4. first \in Int /\ PageOf(str1) <= PageOf(str1 + offset)
  BY <1>2, PagesInOrder
<1>5. LoadsUpTo(str1, first)
  BY <1>2, <1>3, <1>4, AlignedReach
<1>6. ~AcceptLoaded'
  <2>1. pc' \in {"done", "span_pairs", "span_vecs"} \/ (pc' = "span_table" /\ offset' = offset + 4)
    BY DEF SpanPair, SpanFourBytes, SpanVector, SpanOrGoOn, Compared, GoOn
  <2>. QED  BY <1>2, <2>1 DEF AcceptLoaded
<1>. QED  BY <1>5, <1>6

\* The bytes to accept: again up to the register's end only if the page does not end them.
LEMMA AcceptPages ==
  ASSUME IInv, LoadAccept
  PROVE  LoadsUpTo(str2, size) /\ AcceptLoaded'
<1>1. str2 \in Nat /\ size \in Nat /\ size \in Int /\ 1 < size
  BY DEF IInv, CallInv, LoadAccept
<1>2. load'.from = 0 /\ load'.to = AcceptRead
  BY DEF LoadAccept, NoLoad
<1>3. PICK p \in Nat, x \in Nat : /\ p = LeftInPage(str2) /\ x = XMM_SZ /\ x <= PAGE_SZ
                                  /\ ~CrossesPage(str2, x) => x <= p
                                  /\ (str2 + p) % PAGE_SZ = 0 /\ PAGE_SZ \in Nat
  <2>1. InPage(str2) \in Int /\ LeftInPage(str2) \in Nat /\ (str2 + LeftInPage(str2)) % PAGE_SZ = 0
    BY <1>1, LeftInPageIs
  <2>. QED  BY <2>1, Sizes DEF CrossesPage, LeftInPage
<1>4. PICK z \in Int : z = 0 /\ str2 + z = str2
  BY <1>1
<1>5. PageOf(str2) <= PageOf(str2 + z) /\ PageOf(str2 + z) <= PageOf(str2 + size)
  BY <1>1, <1>4, PagesInOrder
<1>6. EndsInPage(str2, size, AcceptRead)
  <2>1. CASE AcceptRead \in {size + 1, XMM_SZ + 1} /\ AcceptRead <= size + 1
    <3>1. PICK e \in Int : e = AcceptRead /\ e <= size + 1
      BY <1>1, <1>3, <2>1
    <3>2. str2 + e - 1 <= str2 + size
      BY <1>1, <3>1
    <3>. QED  BY <1>1, <3>1, <3>2, PagesInOrder DEF EndsInPage
  <2>2. CASE AcceptRead \in {x, p} /\ AcceptRead <= p
    <3>1. PICK e \in Int : e = AcceptRead /\ e <= z + LeftInPage(str2 + z)
      BY <1>3, <1>4, <2>2
    <3>2. EndsInPage(str2, size, e)
      BY <1>1, <1>5, <3>1, EndOfPage
    <3>. QED  BY <3>1, <3>2
  <2>3. CASE AcceptRead = x /\ p <= size
    <3>1. LeftInPage(str2 + p) = PAGE_SZ
      BY <1>3 DEF LeftInPage, InPage
    <3>2. x <= p + LeftInPage(str2 + p) /\ p \in Int /\ x \in Int
      BY <1>3, <3>1
    <3>3. PageOf(str2 + p) <= PageOf(str2 + size)
      BY <1>1, <1>3, <2>3, PagesInOrder
    <3>4. EndsInPage(str2, size, x)
      BY <1>1, <3>2, <3>3, EndOfPage
    <3>. QED  BY <2>3, <3>4
  <2>. QED  BY <1>1, <1>3, <2>1, <2>2, <2>3 DEF AcceptRead, FitsXmm
<1>8. AcceptRead \in Nat
  BY <1>1, <1>3 DEF AcceptRead, FitsXmm
<1>7. pc' \in {"span_index", "span_table"} /\ offset' = 0
  BY DEF LoadAccept, GoOn
<1>. QED  BY <1>2, <1>4, <1>5, <1>6, <1>7, <1>8 DEF LoadsUpTo, AcceptLoaded

-----------------------------------------------------------------------------
LEMMA MaybeReg ==
  ASSUME NEW r \in Registers, NEW P, NEW b, NEW e, P => b <= r.at /\ EndOf(r) <= e
  PROVE  /\ (IF P THEN <<r>> ELSE << >>) \in Seq(Registers)
         /\ Within(IF P THEN <<r>> ELSE << >>, b, e)
BY DEF Within

\* The filters end in the page of the block's first byte.
LEMMA FilterWithin ==
  ASSUME str1 \in Nat, size \in Nat, 0 < size, NEW o \in Int, NEW b \in Int, b <= o,
         NEW e \in Int, e = o + LeftInPage(str1 + o)
  PROVE  FilterRegs(o) \in Seq(Registers) /\ Within(FilterRegs(o), b, e)
<1>1. PICK v \in Nat, p \in Nat : v = HayVec /\ p = LeftInPage(str1 + o) /\ e = o + p
  <2>1. PICK a \in Int : a = str1 + o
    OBVIOUS
  <2>2. LeftInPage(a) \in Nat /\ HayVec \in Nat
    BY LeftInPageIs, Sizes
  <2>. QED  BY <2>1, <2>2
<1>2. PICK x \in Registers : x = Reg(o + 1, HayVec) /\ x.at = o + 1 /\ EndOf(x) = o + 1 + v
  <2>1. o + 1 \in Int
    OBVIOUS
  <2>. QED  BY <1>1, <2>1, RegIs
<1>3. PICK y \in Registers : /\ y = Reg(o + size - 1, HayVec) /\ y.at = o + size - 1
                             /\ EndOf(y) = o + size - 1 + v
  <2>1. o + size - 1 \in Int
    OBVIOUS
  <2>. QED  BY <1>1, <2>1, RegIs
<1> DEFINE X == IF SecondFilter(o) THEN <<x>> ELSE << >>
           Y == IF LastFilter(o) THEN <<y>> ELSE << >>
<1>4. X \in Seq(Registers) /\ Within(X, b, e)
  <2>1. SecondFilter(o) => b <= x.at /\ EndOf(x) <= e
    BY <1>1, <1>2 DEF SecondFilter
  <2>. QED  BY <2>1, MaybeReg
<1>5. Y \in Seq(Registers) /\ Within(Y, b, e)
  <2>1. LastFilter(o) => b <= y.at /\ EndOf(y) <= e
    BY <1>1, <1>3 DEF LastFilter
  <2>. QED  BY <2>1, MaybeReg
<1>6. FilterRegs(o) = X \o Y
  BY <1>2, <1>3 DEF FilterRegs
<1>. HIDE DEF X, Y
<1>7. X \o Y \in Seq(Registers)
  BY <1>4, <1>5
<1>. QED  BY <1>4, <1>5, <1>6, <1>7, BothWithin

LEMMA BlockAndFilters ==
  ASSUME NEW S \in Seq(Registers), Len(S) > 0, NEW F \in Seq(Registers)
  PROVE  S \o F \in Seq(Registers) /\ Len(S \o F) > 0
<1>1. Len(S) \in Nat /\ Len(F) \in Nat
  OBVIOUS
<1>2. S \o F \in Seq(Registers) /\ Len(S \o F) = Len(S) + Len(F)
  OBVIOUS
<1>. QED  BY <1>1, <1>2

\* A block, and the filters if it has candidates.
LEMMA SearchReaches ==
  ASSUME str1 \in Nat, size \in Nat, 0 < size, NEW r \in Registers, NEW o \in Int, NEW b \in Int,
         b <= o, b <= r.at, 0 <= EndOf(r), EndOf(r) <= o + LeftInPage(str1 + o),
         NEW l \in Int, PageOf(str1) <= PageOf(str1 + b), PageOf(str1 + o) <= PageOf(str1 + l),
         \/ Loaded(<<r>>, 0, {})
         \/ \E C, next : SearchOrGoOn(r, C, o, next)
  PROVE  LoadsUpTo(str1, l)
<1>1. PICK e \in Int : e = o + LeftInPage(str1 + o)
  <2>1. LeftInPage(str1 + o) \in Int
    BY LeftInPageIs
  <2>. QED  BY <2>1
<1>2. PICK S : S = <<r>>
  OBVIOUS
<1>3. S \in Seq(Registers) /\ Len(S) = 1 /\ Within(S, b, e)
  BY <1>1, <1>2 DEF Within
<1>4. FilterRegs(o) \in Seq(Registers) /\ Within(FilterRegs(o), b, e)
  BY <1>1, FilterWithin
<1>5. PICK F \in Seq(Registers) : /\ Within(F, b, e)
                                  /\ Loaded(S, 0, {}) \/ Loaded(S \o F, 0, {})
  <2>1. << >> \in Seq(Registers) /\ Within(<< >>, b, e)
    BY DEF Within
  <2>2. \/ Loaded(S, 0, {})
        \/ Loaded(S \o << >>, 0, {})
        \/ Loaded(S \o FilterRegs(o), 0, {})
    BY <1>2 DEF SearchOrGoOn
  <2>. QED  BY <1>4, <2>1, <2>2
<1>6. CASE Loaded(S, 0, {})
  <2>1. 0 \in 0 .. Len(S) /\ Len(S) > 0 /\ 0 <= EndOf(S[1]) /\ Within(S, b, o + LeftInPage(str1 + o))
    BY <1>1, <1>2, <1>3
  <2>. QED  BY <1>3, <1>6, <2>1, BlockReaches
<1>7. CASE Loaded(S \o F, 0, {})
  <2>1. PICK T : T = S \o F
    OBVIOUS
  <2>2. T \in Seq(Registers) /\ Len(T) > 0
    <3>1. S \in Seq(Registers) /\ Len(S) > 0
      BY <1>3
    <3>2. S \o F \in Seq(Registers) /\ Len(S \o F) > 0
      BY <3>1, BlockAndFilters
    <3>. QED  BY <2>1, <3>2
  <2>3. Within(T, b, o + LeftInPage(str1 + o))
    BY <1>1, <1>3, <1>5, <2>1, BothWithin
  <2>4. 0 \in 0 .. Len(T) /\ Loaded(T, 0, {})
    BY <1>7, <2>1, <2>2
  <2>5. 0 <= EndOf(T[1])
    <3>1. T[1] = r
      BY <1>2, <2>1
    <3>. QED  BY <3>1
  <2>. QED  BY <2>2, <2>3, <2>4, <2>5, BlockReaches
<1>. QED  BY <1>5, <1>6, <1>7

LEMMA StrstrPages ==
  ASSUME IInv, StepStrstr
  PROVE  LoadsUpTo(str1, first)
<1>1. str1 \in Nat /\ size \in Nat /\ first \in Nat /\ first \in Int
  BY DEF IInv, CallInv
<1>2. PICK v \in Nat : v = HayVec /\ v > 0 /\ PAGE_SZ % v = 0 /\ PAGE_SZ \in Nat
  BY Sizes, SizesDivide
<1>3. PICK z \in Int : z = 0 /\ str1 + z = str1
  BY <1>1
<1>4. PageOf(str1) <= PageOf(str1 + z) /\ PageOf(str1 + z) <= PageOf(str1 + first)
  BY <1>1, <1>3, PagesInOrder
<1>5. CASE SearchShort
  <2>1. load'.from = 0 /\ load'.to = 1 /\ str1 + 0 = str1 + z /\ str1 + 1 - 1 = str1 + z
    BY <1>1, <1>3, <1>5 DEF SearchShort, NoLoad
  <2>. QED  BY <1>4, <2>1 DEF LoadsUpTo, EndsInPage
<1>6. CASE SearchFirstBlock
  <2>1. PICK r \in Registers, b \in Int :
          /\ r = FirstBlock /\ b = r.at /\ b <= z /\ 0 <= EndOf(r) /\ EndOf(r) <= z + LeftInPage(str1 + z)
          /\ PageOf(str1) <= PageOf(str1 + b)
    <3>1. PICK n \in Nat, a \in Int :
            /\ n = HayAhead /\ a = HayAhead - HayVec /\ n <= LeftInPage(str1) /\ a <= 0
            /\ a + v = n /\ LeftInPage(str1) \in Nat /\ PageOf(str1) <= PageOf(str1 + a)
      <4>1. /\ v - (str1 % v) \in 1 .. v /\ v - (str1 % v) <= LeftInPage(str1)
            /\ LeftInPage(str1) \in Nat /\ PageOf(str1) <= PageOf(str1 - (str1 % v))
        BY <1>1, <1>2, VectorOfFirst
      <4>2. PICK m \in Int : m = str1 % v
        BY <1>1, <1>2, DivMod
      <4>3. PICK a \in Int : a = -m /\ (v - m) - v = a /\ str1 - m = str1 + a /\ a + v = v - m
        BY <1>1, <1>2, <4>2
      <4>4. v - m \in 1 .. v /\ v - m <= LeftInPage(str1) /\ PageOf(str1) <= PageOf(str1 + a)
        BY <4>1, <4>2, <4>3
      <4>5. a <= 0 /\ v - m \in Nat
        BY <1>2, <4>3, <4>4
      <4>6. HayAhead = v - m
        BY <1>2, <4>2 DEF HayAhead
      <4>. QED  BY <1>2, <4>1, <4>3, <4>4, <4>5, <4>6
    <3>2. ~HayNearPageEnd => v <= LeftInPage(str1)
      <4>1. InPage(str1) \in Int
        BY <1>1, LeftInPageIs
      <4>. QED  BY <1>2, <4>1 DEF HayNearPageEnd, LeftInPage
    <3>3. CASE ~HayNearPageEnd
      <4>1. FirstBlock = Reg(z, v)
        BY <1>2, <1>3, <3>3 DEF FirstBlock
      <4>2. Reg(z, v) \in Registers /\ Reg(z, v).at = z /\ EndOf(Reg(z, v)) = z + v
        BY <1>2, RegIs
      <4>3. 0 <= z + v /\ z + v <= z + LeftInPage(str1 + z) /\ z <= z
        BY <1>2, <1>3, <3>1, <3>2, <3>3
      <4>. QED  BY <1>4, <4>1, <4>2, <4>3
    <3>4. CASE HayNearPageEnd /\ routine = "strstr_avx2"
      <4>1. FirstBlock = Reg(a, v)
        BY <1>2, <3>1, <3>4 DEF FirstBlock
      <4>2. Reg(a, v) \in Registers /\ Reg(a, v).at = a /\ EndOf(Reg(a, v)) = a + v
        BY <1>2, RegIs
      <4>3. 0 <= a + v /\ a + v <= z + LeftInPage(str1 + z) /\ a <= z
        BY <1>2, <1>3, <3>1
      <4>. QED  BY <3>1, <4>1, <4>2, <4>3
    <3>5. CASE HayNearPageEnd /\ routine # "strstr_avx2"
      <4>1. FirstBlock = Reg(z, n)
        BY <1>3, <3>1, <3>5 DEF FirstBlock
      <4>2. Reg(z, n) \in Registers /\ Reg(z, n).at = z /\ EndOf(Reg(z, n)) = z + n
        BY <3>1, RegIs
      <4>3. 0 <= z + n /\ z + n <= z + LeftInPage(str1 + z) /\ z <= z
        BY <1>3, <3>1
      <4>. QED  BY <1>4, <4>1, <4>2, <4>3
    <3>. QED  BY <3>3, <3>4, <3>5
  <2>2. 1 < size /\ (Loaded(<<r>>, 0, {}) \/ \E C, next : SearchOrGoOn(r, C, z, next))
    BY <1>3, <1>6, <2>1 DEF SearchFirstBlock
  <2>3. 0 < size /\ b <= r.at
    BY <1>1, <2>1, <2>2
  <2>. QED  BY <1>1, <1>4, <2>1, <2>2, <2>3, SearchReaches
<1>7. CASE SearchBlock
  <2>1. pc = "search" /\ pc # "done"
    BY <1>7 DEF SearchBlock
  <2>2. /\ offset \in Nat /\ offset <= first /\ 1 < size /\ (str1 + offset) % v = 0
    BY <1>2, <2>1, Looping DEF OfStrstr
  <2>3. PICK a \in Int, o \in Int : a = str1 + offset /\ o = offset
    BY <1>1, <2>2
  <2>4. v <= LeftInPage(a) /\ LeftInPage(a) \in Nat
    BY <1>2, <2>2, <2>3, AlignedRoom
  <2>5. PICK r \in Registers : r = Reg(offset, HayVec) /\ r.at = o /\ EndOf(r) = o + v
    BY <1>2, <2>3, RegIs
  <2>6. o <= o /\ o <= r.at /\ 0 <= EndOf(r) /\ EndOf(r) <= o + LeftInPage(str1 + o) /\ 0 < size
    BY <1>1, <2>2, <2>3, <2>4, <2>5
  <2>7. PageOf(str1) <= PageOf(str1 + o) /\ PageOf(str1 + o) <= PageOf(str1 + first)
    BY <1>1, <2>2, <2>3, PagesInOrder
  <2>8. \E C, next : SearchOrGoOn(r, C, o, next)
    BY <1>7, <2>3, <2>5 DEF SearchBlock
  <2>. QED  BY <1>1, <2>6, <2>7, <2>8, SearchReaches
<1>. QED  BY <1>5, <1>6, <1>7 DEF StepStrstr

-----------------------------------------------------------------------------
\* What the steps of each routine reach, if they load at all.
LEMMA Zen4Reaches ==
  ASSUME IInv, StepStrcmp, routine \in Zen4Strcmps, NEW s \in Both, NEW l, Limit(l)
  PROVE  LoadsUpTo(s, l) \/ load' = load
<1>1. s \in Nat /\ l \in Nat
  BY DEF IInv, CallInv, Both, Limit
<1>2. pc \notin {"lockstep", "lockstep_1", "chunk", "chunk_4", "chunk_1"}
  <2>. SUFFICES ASSUME pc \in {"lockstep", "lockstep_1", "chunk", "chunk_4", "chunk_1"}
                PROVE  FALSE
    OBVIOUS
  <2>1. OfStrcmp(pc, offset, vecs)
    BY Looping
  <2>. QED  BY <2>1 DEF OfStrcmp, Avx2Strcmps, Avx512Strcmps, Zen4Strcmps
<1>3. ~(StartNearAvx2 \/ StartVeryNearAvx2 \/ StartAvx2 \/ StartNearAvx512 \/ StartAvx512)
  BY DEF StartNearAvx2, StartVeryNearAvx2, StartAvx2, StartNearAvx512, StartAvx512, Called,
         Avx2Strcmps, Avx512Strcmps, Zen4Strcmps
<1>4. ~(Lockstep4 \/ LeaveLockstep4 \/ Lockstep1 \/ EnterChunk \/ Chunk4 \/ LeaveChunk4
          \/ Chunk1 \/ CrossPage)
  BY <1>2 DEF Lockstep4, LeaveLockstep4, Lockstep1, EnterChunk, Chunk4, LeaveChunk4, Chunk1,
              CrossPage
<1>5. CASE StartEmpty \/ ReachSizeZen4
  <2>1. load' = NoLoad
    BY <1>5 DEF StartEmpty, ReachSizeZen4
  <2>. QED  BY <1>1, <2>1, NothingReaches
<1>6. CASE PageZen4 \/ LeaveVecsZen4
  BY <1>6 DEF PageZen4, LeaveVecsZen4
<1>7. CASE RampZen4
  <2>1. offset + 3 * ZMM_SZ <= size \/ load' = load
    BY <1>7 DEF RampZen4
  <2>. QED  BY <1>7, <2>1, RampPages
<1>8. CASE StartZen4 \/ CrossPageZen4
  BY <1>8, Zen4Pages
<1>9. CASE VecsZen4
  BY <1>9, VecsZen4Pages
<1>. QED  BY <1>3, <1>4, <1>5, <1>6, <1>7, <1>8, <1>9 DEF StepStrcmp

LEMMA FirstIsLimit ==
  ASSUME first \in Nat
  PROVE  Limit(first)
BY DEF Limit

LEMMA BoundIsLimit ==
  ASSUME first \in Nat, size \in Nat, 0 < size
  PROVE  Limit(Bound) /\ Bound = Min({first, size - 1})
<1>1. Min({first, size - 1}) = IF first < size - 1 THEN first ELSE size - 1
  BY MinOfTwo
<1>. QED  BY <1>1 DEF Limit, Bound

LEMMA StrcmpReaches ==
  ASSUME IInv, StepStrcmp, NEW s \in Both
  PROVE  LoadsUpTo(s, first) \/ load' = load
<1>1. s \in Nat /\ first \in Nat
  BY DEF IInv, CallInv, Both
<1>2. CASE StartEmpty
  <2>1. load' = NoLoad
    BY <1>2 DEF StartEmpty
  <2>. QED  BY <1>1, <2>1, NothingReaches
<1>3. CASE LeaveLockstep4 \/ EnterChunk \/ LeaveChunk4
  BY <1>3 DEF LeaveLockstep4, EnterChunk, LeaveChunk4
<1>4. CASE StartZen4 \/ RampZen4 \/ PageZen4 \/ CrossPageZen4 \/ ReachSizeZen4
             \/ VecsZen4 \/ LeaveVecsZen4
  <2>1. CASE StartZen4
    <3>1. routine \in Zen4Strcmps
      BY <2>1 DEF StartZen4, Called
    <3>. QED  BY <1>1, <3>1, FirstIsLimit, Zen4Reaches
  <2>2. CASE ~StartZen4
    <3>1. pc \in {"zen4_ramp", "zen4_page", "zen4_vecs"}
      BY <1>4, <2>2
      DEF RampZen4, PageZen4, CrossPageZen4, ReachSizeZen4, VecsZen4, LeaveVecsZen4
    <3>2. routine \in Zen4Strcmps
      BY <3>1, InZen4
    <3>. QED  BY <1>1, <3>2, FirstIsLimit, Zen4Reaches
  <2>. QED  BY <2>1, <2>2
<1>. QED
  BY <1>2, <1>3, <1>4, StartStrcmpPages, LockstepPages, ChunkPages, CrossPages DEF StepStrcmp

LEMMA ScanReaches ==
  ASSUME IInv, StepScan, routine \in Avx2Scans \cup Avx512Scans, NEW l, Limit(l)
  PROVE  LoadsUpTo(str1, l) \/ load' = load
<1>1. str1 \in Nat /\ l \in Nat /\ routine \notin Memchrs
  BY ScanFamilies DEF IInv, CallInv, Limit
<1>2. ~(\/ SmallMemchrStrict \/ StartMemchrAvx2 \/ StartMemchrAtPageEndAvx2
        \/ SmallMemchrAvx512 \/ MediumMemchr \/ LargeMemchr \/ IterateMemchr \/ TailMemchr)
  <2>1. pc \notin {"memchr_rest", "memchr_loop", "memchr_tail"}
    <3>. SUFFICES ASSUME pc \in {"memchr_rest", "memchr_loop", "memchr_tail"}
                  PROVE  FALSE
      OBVIOUS
    <3>1. pc \in ScanLoops
      BY DEF ScanLoops
    <3>2. OfScan(pc, offset)
      BY <3>1, InScan
    <3>. QED  BY <1>1, <3>2, ScanFamilies DEF OfScan
  <2>. QED
    BY <1>1, <2>1
    DEF SmallMemchrStrict, StartMemchrAvx2, StartMemchrAtPageEndAvx2, SmallMemchrAvx512,
        MediumMemchr, LargeMemchr, IterateMemchr, TailMemchr, MoreThanAVector, Called,
        Memchrs, Avx2Memchrs, Avx512Memchrs
<1>3. CASE ScanNothing
  <2>1. load' = NoLoad
    BY <1>3 DEF ScanNothing, NothingLeft
  <2>. QED  BY <1>1, <2>1, NothingReaches
<1>4. CASE LeaveVectorsAvx512
  BY <1>4 DEF LeaveVectorsAvx512
<1>. QED  BY <1>2, <1>3, <1>4, StartScanPages, ScanLoopPages DEF StepScan

LEMMA MemchrReaches ==
  ASSUME IInv, StepScan, routine \in Memchrs, NEW l, Limit(l)
  PROVE  LoadsInside \/ LoadsUpTo(str1, l)
<1>1. size \in Nat /\ routine \notin Avx2Scans \cup Avx512Scans
  BY ScanFamilies DEF IInv, CallInv
<1>2. CASE ScanNothing
  BY <1>1, <1>2 DEF ScanNothing, NothingLeft, NoLoad, LoadsInside
<1>3. pc \notin {"scan_line", "scan_pair", "scan_vecs", "scan_groups"}
  <2>. SUFFICES ASSUME pc \in {"scan_line", "scan_pair", "scan_vecs", "scan_groups"}
                PROVE  FALSE
    OBVIOUS
  <2>1. pc \in ScanLoops
    BY DEF ScanLoops
  <2>2. OfScan(pc, offset)
    BY <2>1, InScan
  <2>. QED  BY <1>1, <2>2 DEF OfScan
<1>4. ~(\/ StartScanAtPageEndAvx2 \/ StartScanAvx2 \/ LineAvx2 \/ PairAvx2 \/ GroupAvx2
        \/ LastScanAvx2 \/ StartScanAtPageEndAvx512 \/ StartScanAvx512 \/ VectorAvx512
        \/ LeaveVectorsAvx512 \/ GroupAvx512 \/ LastScanAvx512)
  BY <1>1, <1>3
  DEF StartScanAtPageEndAvx2, StartScanAvx2, LineAvx2, PairAvx2, GroupAvx2, LastScanAvx2,
      StartScanAtPageEndAvx512, StartScanAvx512, VectorAvx512, LeaveVectorsAvx512,
      GroupAvx512, LastScanAvx512, Called
<1>. QED  BY <1>2, <1>4, MemchrPages DEF StepScan

\* What a step that hands nothing on has loaded, and what it leaves as it was.
LEMMA PagesAfter ==
  ASSUME call' = call, NEW s, NEW l, LoadsUpTo(s, l) \/ (load' = load /\ PagesUpTo(s, l))
  PROVE  /\ PageOf(s) <= PageOf(s + load'.from)
         /\ PageOf(s + load'.to - 1) <= PageOf(s + l)
BY DEF LoadsUpTo, EndsInPage, PagesUpTo

LEMMA StringsKept ==
  ASSUME IInv, Step, StringsStayInPages
  PROVE  StringsStayInPages'
<1>1. CASE ChooseByThreshold
  <2>1. routine' \in Memcmps
    BY <1>1 DEF ChooseByThreshold, Memcmps, ErmsMemcmps, TunableAvx512, TunableAvx2
  <2>2. routine' \notin Strcmps \cup Scans \cup Strspns \cup Strstrs
    BY <2>1, Families
  <2>. QED  BY <2>2, ScanFamilies DEF StringsStayInPages
<1>2. CASE call' = call
  <2>1. /\ routine' = routine /\ str1' = str1 /\ str2' = str2 /\ size' = size /\ first' = first
        /\ first \in Nat /\ (routine \in Scans \cup Strstrs => str1 = str2)
    BY <1>2 DEF call, IInv, CallInv
  <2>2. CASE routine \in Strcmps
    <3>1. StepStrcmp /\ routine \notin Scans \cup Strspns \cup Strstrs
      BY <2>2, StepOf, Families DEF Step
    <3>2. ASSUME NEW s \in Both
          PROVE  /\ PageOf(s) <= PageOf(s + load'.from)
                 /\ PageOf(s + load'.to - 1) <= PageOf(s + first)
      <4>1. LoadsUpTo(s, first) \/ load' = load
        BY <3>1, StrcmpReaches
      <4>2. PagesUpTo(s, first)
        BY <2>2 DEF StringsStayInPages, OnlyPagesUpTo, Both
      <4>. QED  BY <1>2, <4>1, <4>2, PagesAfter
    <3>3. OnlyPagesUpTo(first)'
      BY <2>1, <3>2 DEF OnlyPagesUpTo, PagesUpTo, Both
    <3>. QED  BY <2>1, <3>1, <3>3 DEF StringsStayInPages
  <2>3. CASE routine \in Avx2Scans \cup Avx512Scans
    <3>1. routine \in Scans
      BY <2>3, ScanFamilies
    <3>2. StepScan /\ routine \notin Strspns /\ str1 = str2
      BY <2>1, <3>1, StepOf, Families DEF Step
    <3>3. LoadsUpTo(str1, first) \/ load' = load
      BY <2>1, <2>3, <3>2, FirstIsLimit, ScanReaches
    <3>4. PagesUpTo(str1, first)
      BY <2>3 DEF StringsStayInPages, OnlyPagesUpTo
    <3>5. /\ PageOf(str1) <= PageOf(str1 + load'.from)
          /\ PageOf(str1 + load'.to - 1) <= PageOf(str1 + first)
      BY <1>2, <3>3, <3>4, PagesAfter
    <3>. QED  BY <2>1, <3>2, <3>5 DEF StringsStayInPages, OnlyPagesUpTo, PagesUpTo
  <2>4. CASE routine \in Strstrs
    <3>1. StepStrstr /\ routine \notin Strspns /\ str1 = str2
      BY <2>1, <2>4, StepOf, Families DEF Step
    <3>2. LoadsUpTo(str1, first)
      BY <3>1, StrstrPages
    <3>. QED
      BY <2>1, <3>1, <3>2 DEF StringsStayInPages, OnlyPagesUpTo, PagesUpTo, LoadsUpTo, EndsInPage
  <2>5. CASE routine \in Strspns
    <3>1. StepStrspn /\ routine \notin Strcmps \cup Scans \cup Strstrs
      BY <2>5, StepOf, Families DEF Step
    <3>2. \/ LoadsUpTo(str2, size) /\ AcceptLoaded'
          \/ LoadsUpTo(str1, first) /\ ~AcceptLoaded'
      BY <3>1, SpanPages, SpanLoopPages, AcceptPages DEF StepStrspn
    <3>3. routine \notin Strcmps \cup Avx2Scans \cup Avx512Scans \cup Strstrs
      BY <3>1, ScanFamilies
    <3>. QED
      BY <2>1, <3>2, <3>3 DEF StringsStayInPages, PagesUpTo, LoadsUpTo, EndsInPage
  <2>6. CASE routine \notin Strcmps \cup Avx2Scans \cup Avx512Scans \cup Strstrs \cup Strspns
    BY <2>1, <2>6 DEF StringsStayInPages
  <2>. QED  BY <2>2, <2>3, <2>4, <2>5, <2>6
<1>. QED  BY <1>1, <1>2, CallStays

LEMMA BoundedKept ==
  ASSUME IInv, Step, BoundedStayInPages
  PROVE  BoundedStayInPages'
<1>1. CASE ChooseByThreshold
  <2>1. routine' \in Memcmps
    BY <1>1 DEF ChooseByThreshold, Memcmps, ErmsMemcmps, TunableAvx512, TunableAvx2
  <2>2. routine' \notin Strcmps \cup Scans
    BY <2>1, Families
  <2>3. routine' # "strncmp_zen4" /\ routine' \notin Strnlens \cup Memchrs
    BY <2>2, ScanFamilies DEF Strcmps, Zen4Strcmps, Strnlens, Avx2Scans, Avx512Scans
  <2>. QED  BY <2>3 DEF BoundedStayInPages
<1>2. CASE call' = call
  <2>1. /\ routine' = routine /\ str1' = str1 /\ str2' = str2 /\ size' = size /\ first' = first
        /\ first \in Nat /\ size \in Nat /\ (routine \in Scans \cup Strstrs => str1 = str2)
    BY <1>2 DEF call, IInv, CallInv
  <2>2. CASE size = 0
    BY <2>1, <2>2 DEF BoundedStayInPages, StrncmpStaysInPages
  <2>3. CASE 0 < size /\ routine = "strncmp_zen4"
    <3>1. routine \in Zen4Strcmps /\ routine \in Strcmps
      BY <2>3 DEF Zen4Strcmps, Strcmps
    <3>2. StepStrcmp /\ routine \notin Strnlens \cup Memchrs
      BY <2>3, <3>1, StepOf, Families
      DEF Step, Strnlens, Memchrs, Avx2Memchrs, Avx512Memchrs
    <3>3. Limit(Bound) /\ Bound = Min({first, size - 1})
      BY <2>1, <2>3, BoundIsLimit
    <3>4. ASSUME NEW s \in Both
          PROVE  /\ PageOf(s) <= PageOf(s + load'.from)
                 /\ PageOf(s + load'.to - 1) <= PageOf(s + Bound)
      <4>1. LoadsUpTo(s, Bound) \/ load' = load
        BY <3>1, <3>2, <3>3, Zen4Reaches
      <4>2. PagesUpTo(s, Bound)
        BY <2>3, <3>3 DEF BoundedStayInPages, StrncmpStaysInPages, OnlyPagesUpTo, Both
      <4>. QED  BY <1>2, <4>1, <4>2, PagesAfter
    <3>5. OnlyPagesUpTo(Min({first, size - 1}))'
      BY <2>1, <3>3, <3>4 DEF OnlyPagesUpTo, PagesUpTo, Both
    <3>. QED  BY <2>1, <3>2, <3>5 DEF BoundedStayInPages, StrncmpStaysInPages
  <2>4. CASE 0 < size /\ routine \in Strnlens
    <3>1. /\ routine \in Avx2Scans \cup Avx512Scans /\ routine \in Scans /\ routine \notin Memchrs
          /\ routine # "strncmp_zen4"
      BY <2>4, ScanFamilies DEF Strnlens, Avx2Scans, Avx512Scans
    <3>2. StepScan /\ str1 = str2
      BY <2>1, <3>1, StepOf, Families DEF Step
    <3>3. Limit(Bound) /\ Bound = Min({first, size - 1})
      BY <2>1, <2>4, BoundIsLimit
    <3>4. LoadsUpTo(str1, Bound) \/ load' = load
      BY <3>1, <3>2, <3>3, ScanReaches
    <3>5. PagesUpTo(str1, Bound)
      BY <2>4, <3>3 DEF BoundedStayInPages, OnlyPagesUpTo
    <3>6. /\ PageOf(str1) <= PageOf(str1 + load'.from)
          /\ PageOf(str1 + load'.to - 1) <= PageOf(str1 + Bound)
      BY <1>2, <3>4, <3>5, PagesAfter
    <3>. QED
      BY <2>1, <3>1, <3>2, <3>3, <3>6 DEF BoundedStayInPages, OnlyPagesUpTo, PagesUpTo
  <2>5. CASE 0 < size /\ routine \in Memchrs
    <3>1. /\ routine \in Scans /\ routine \notin Avx2Scans \cup Avx512Scans
          /\ routine # "strncmp_zen4" /\ routine \notin Strnlens
      BY <2>5, ScanFamilies DEF Strnlens, Avx2Scans, Avx512Scans, Memchrs, Avx2Memchrs,
                                Avx512Memchrs
    <3>2. StepScan /\ str1 = str2
      BY <2>1, <3>1, StepOf, Families DEF Step
    <3>3. LoadsUpTo(str1, size - 1)
      <4>1. size - 1 \in Nat /\ size - 1 <= size - 1 /\ Limit(size - 1)
        BY <2>1, <2>5 DEF Limit
      <4>2. LoadsInside \/ LoadsUpTo(str1, size - 1)
        BY <2>5, <3>2, <4>1, MemchrReaches
      <4>3. str1 \in Nat
        BY DEF IInv, CallInv
      <4>. QED  BY <2>1, <2>5, <4>1, <4>2, <4>3, InsideReaches
    <3>. QED
      BY <2>1, <3>1, <3>2, <3>3
      DEF BoundedStayInPages, OnlyPagesUpTo, PagesUpTo, LoadsUpTo, EndsInPage
  <2>6. CASE routine # "strncmp_zen4" /\ routine \notin Strnlens \cup Memchrs
    BY <2>1, <2>6 DEF BoundedStayInPages
  <2>. QED  BY <2>1, <2>2, <2>3, <2>4, <2>5, <2>6
<1>. QED  BY <1>1, <1>2, CallStays

\* A call that has not begun has read nothing.
LEMMA NothingRead ==
  ASSUME load = NoLoad, NEW s \in Nat, NEW l \in Nat
  PROVE  PagesUpTo(s, l)
<1>1. load.from = 0 /\ load.to = 0 /\ s + 0 = s /\ s + 0 - 1 = s - 1
  BY DEF NoLoad
<1>2. PageOf(s) <= PageOf(s)
  <2>1. PageOf(s) \in Int
    BY PageIsInt
  <2>. QED  BY <2>1
<1>3. PageOf(s - 1) <= PageOf(s + l)
  BY PagesInOrder
<1>. QED  BY <1>1, <1>2, <1>3 DEF PagesUpTo

LEMMA InitialPages ==
  ASSUME ReadInit
  PROVE  StringsStayInPages /\ BoundedStayInPages
<1>1. /\ load = NoLoad /\ ~AcceptLoaded /\ str1 \in Nat /\ str2 \in Nat /\ first \in Nat
      /\ size \in Nat
  BY InitHolds DEF IInv, CallInv, ReadInit, Init, AcceptLoaded
<1>2. ASSUME NEW l \in Nat  PROVE PagesUpTo(str1, l) /\ OnlyPagesUpTo(l)
  BY <1>1, NothingRead DEF OnlyPagesUpTo
<1>3. ASSUME size > 0  PROVE OnlyPagesUpTo(Min({first, size - 1})) /\ OnlyPagesUpTo(size - 1)
  <2>1. 0 < size /\ size - 1 \in Nat
    BY <1>1, <1>3
  <2>2. Min({first, size - 1}) \in Nat
    BY <1>1, <2>1, BoundIsLimit DEF Limit
  <2>. QED  BY <1>2, <2>1, <2>2
<1>. QED
  BY <1>1, <1>2, <1>3 DEF StringsStayInPages, BoundedStayInPages, StrncmpStaysInPages

\* strcmp, strlen, strchr, strspn and strstr touch no page behind the one where the string,
\* or the bytes to accept, end, and none in front of it.
THEOREM LoadsStayInPages == Spec => []StringsStayInPages
<1>1. ReadInit => StringsStayInPages
  BY InitialPages
<1>2. IInv /\ StringsStayInPages /\ [Next]_readVars => StringsStayInPages'
  <2>1. Step /\ IInv /\ StringsStayInPages => StringsStayInPages'
    BY StringsKept
  <2>2. StringsStayInPages /\ UNCHANGED readVars => StringsStayInPages'
    BY DEF StringsStayInPages, OnlyPagesUpTo, PagesUpTo, AcceptLoaded, readVars, vars, call
  <2>. QED  BY <2>1, <2>2 DEF Next, Returned
<1>. QED  BY <1>1, <1>2, ReadInvariant, PTL DEF Spec

\* Nor do zen4's strncmp, strnlen and memchr touch a page behind the one of the last byte
\* that their size lets them look at.
THEOREM BoundedLoadsStayInPages == Spec => []BoundedStayInPages
<1>1. ReadInit => BoundedStayInPages
  BY InitialPages
<1>2. IInv /\ BoundedStayInPages /\ [Next]_readVars => BoundedStayInPages'
  <2>1. Step /\ IInv /\ BoundedStayInPages => BoundedStayInPages'
    BY BoundedKept
  <2>2. BoundedStayInPages /\ UNCHANGED readVars => BoundedStayInPages'
    BY DEF BoundedStayInPages, StrncmpStaysInPages, OnlyPagesUpTo, PagesUpTo, readVars, vars,
           call
  <2>. QED  BY <2>1, <2>2 DEF Next, Returned
<1>. QED  BY <1>1, <1>2, ReadInvariant, PTL DEF Spec

-----------------------------------------------------------------------------
(***************************************************************************)
(* Types.  What TypeOK needs of a step's result: where its last load ended *)
(* and what it returned, if it has.                                        *)
(***************************************************************************)
TypeInv ==
  /\ load.to \in Nat /\ load.to < SizeSpan
  /\ pc = "done" => ret = NONE \/ ret \in -Unit .. SizeSpan - 1

\* What ends in the page of byte l ends less than a page behind it.
LEMMA EndsNear ==
  ASSUME NEW s \in Nat, NEW l \in Nat, NEW e \in Nat, EndsInPage(s, l, e)
  PROVE  e <= l + PAGE_SZ
<1>1. PICK p \in Nat : p = PAGE_SZ /\ p > 0
  BY Sizes
<1>2. PICK a \in Nat, b \in Int, q \in Int, r \in 0 .. p - 1 :
        a = s + l /\ b = s + e - 1 /\ q = a \div p /\ a = p * q + r
  <2>1. s + l \in Nat /\ s + e - 1 \in Int
    OBVIOUS
  <2>. QED  BY <1>1, <2>1, DivMod
<1>3. SUFFICES ASSUME a + p <= b  PROVE FALSE
  BY <1>1, <1>2
<1>4. (a + p) \div p = q + 1
  <2>1. a + p = p * (q + 1) + r
    BY <1>2
  <2>. QED  BY <1>1, <1>2, <2>1, DivUnique
<1>5. (a + p) \div p <= b \div p
  BY <1>1, <1>3, DivMonotone
<1>6. b \div p <= q
  BY <1>1, <1>2 DEF EndsInPage, PageOf
<1>7. b \div p \in Int
  BY <1>1, DivMod
<1>. QED  BY <1>4, <1>5, <1>6, <1>7

\* rep cmps, whatever its unit.
LEMMA RepCmpsTypes ==
  ASSUME IInv, IntSizes, RepCmps
  PROVE  load'.to \in 0 .. size /\ ret' \in -Unit .. size
<1>1. /\ routine \in ErmsMemcmps /\ CallInv /\ size \in Nat /\ first \in Nat
  BY Started DEF RepCmps
<1>2. ToInt(size) = size
  <2>1. size < IntSpan \div 2
    BY <1>1 DEF CallInv, IntSized
  <2>. QED  BY <1>1, <2>1, ToIntIs
<1>3. PICK u \in {1, 2, 4, 8} : u = Unit
  BY <1>1 DEF Unit, ErmsMemcmps, WideRepCmps
<1>4. PICK n \in Nat : n = size \div u /\ u * n <= size
  BY <1>1, <1>3
<1>5. PICK m \in Nat : m = Min({n, (first \div u) + 1}) /\ m <= n
  <2>1. (first \div u) + 1 \in Nat
    BY <1>1, <1>3
  <2>. QED  BY <2>1, MinOfTwo
<1>6. u * m \in Nat /\ u * m <= size
  BY <1>1, <1>3, <1>4, <1>5
<1>7. load'.to = u * m /\ ret' = u * m - u
  <2>1. Unit * Min({ToInt(size) \div Unit, (first \div Unit) + 1}) = u * m
    BY <1>2, <1>3, <1>4, <1>5
  <2>. QED  BY <1>3, <2>1 DEF RepCmps, Compared
<1>. QED  BY <1>1, <1>3, <1>6, <1>7

\* A block of strstr returns a candidate or nothing.
LEMMA SearchTypes ==
  ASSUME NEW r, NEW C, NEW b, NEW o, SearchOrGoOn(r, C, b, o), NEW m \in Nat, C \subseteq 0 .. m
  PROVE  pc' = "done" => ret' = NONE \/ ret' \in 0 .. m
<1> DEFINE hits == { c \in Filtered(C, b) : InHaystack(c, r) /\ c \in hay.found }
<1>1. hits \subseteq 0 .. m /\ hits \subseteq Nat
  <2>1. ASSUME NEW c \in Filtered(C, b)  PROVE c \in C
    BY <2>1 DEF Filtered
  <2>2. hits \subseteq C
    BY <2>1
  <2>. HIDE DEF hits
  <2>. QED  BY <2>2
<1>2. CASE hits # {}
  <2>1. Min(hits) \in hits
    BY <1>1, <1>2, MinOfNats
  <2>. QED  BY <1>1, <1>2, <2>1 DEF SearchOrGoOn, Compared
<1>3. CASE hits = {}
  BY <1>3 DEF SearchOrGoOn, Compared, GoOn
<1>. QED  BY <1>2, <1>3

LEMMA StrstrTypes ==
  ASSUME IInv, StepStrstr
  PROVE  pc' = "done" => ret' = NONE \/ ret' \in 0 .. first + PAGE_SZ
<1>1. /\ routine \in Strstrs /\ HayInv /\ first \in Nat /\ str1 \in Nat /\ hay.found \subseteq Nat
      /\ PAGE_SZ \in Nat
  <2>1. routine \in Strstrs
    BY StepOf
  <2>. QED  BY <2>1, Sizes DEF IInv, CallInv, HayInv
<1>2. PICK v \in Nat : v = HayVec /\ v <= PAGE_SZ /\ v > 0
  BY Sizes
<1>3. PICK m \in Nat : m = first + PAGE_SZ
  BY <1>1
<1>4. CASE SearchShort
  <2> DEFINE hits == { c \in hay.found : c < first }
  <2>1. hits \subseteq 0 .. first /\ hits \subseteq Nat
    BY <1>1
  <2>2. hits # {} => Min(hits) \in hits
    BY <2>1, MinOfNats
  <2>3. ret' = IF size = 0 THEN 0 ELSE IF hits = {} THEN NONE ELSE Min(hits)
    BY <1>4 DEF SearchShort, Compared
  <2>. HIDE DEF hits
  <2>. QED  BY <1>1, <2>1, <2>2, <2>3
<1>5. CASE SearchFirstBlock
  <2> DEFINE C == { c \in Heads(FirstBlock) : 0 <= c } \cup FilledUp
  <2>1. HayAhead \in 0 .. v
    <3>1. v - (str1 % v) \in 1 .. v
      BY <1>1, <1>2, RoundedUp
    <3>. QED  BY <1>2, <3>1 DEF HayAhead
  <2>2. FirstBlock.at + FirstBlock.len <= v /\ FirstBlock.at + FirstBlock.len \in Int
    BY <1>2, <2>1 DEF FirstBlock, Reg
  <2>3. C \subseteq 0 .. m
    <3>1. ASSUME NEW c \in Heads(FirstBlock)  PROVE c \in 0 .. m
      <4>1. c \in Nat /\ c < FirstBlock.at + FirstBlock.len
        BY <1>1 DEF Heads, HayInv
      <4>. QED  BY <1>1, <1>2, <1>3, <2>2, <4>1
    <3>2. ASSUME NEW c \in FilledUp  PROVE c \in 0 .. m
      BY <1>1, <1>2, <1>3, <2>1 DEF FilledUp
    <3>. QED  BY <3>1, <3>2
  <2>4. Compared(NONE) \/ SearchOrGoOn(FirstBlock, C, 0, HayAhead)
    BY <1>5 DEF SearchFirstBlock
  <2>. HIDE DEF C
  <2>. QED  BY <1>3, <2>3, <2>4, SearchTypes DEF Compared
<1>6. CASE SearchBlock
  <2>1. pc = "search" /\ pc # "done"
    BY <1>6 DEF SearchBlock
  <2>2. offset \in Nat /\ offset <= first
    BY <2>1, Looping
  <2>3. PICK r : r = Reg(offset, v) /\ SearchOrGoOn(r, Heads(r), offset, offset + v)
    BY <1>2, <1>6 DEF SearchBlock
  <2>4. Heads(r) \subseteq 0 .. m
    <3>1. ASSUME NEW c \in Heads(r)  PROVE c \in 0 .. m
      <4>1. c \in Nat /\ c < offset + v
        BY <1>1, <2>3 DEF Heads, HayInv, Reg
      <4>. QED  BY <1>1, <1>2, <1>3, <2>2, <4>1
    <3>. QED  BY <3>1
  <2>. QED  BY <1>3, <2>3, <2>4, SearchTypes
<1>. QED  BY <1>4, <1>5, <1>6 DEF StepStrstr

\* No load of a step ends behind the memory.
LEMMA LoadsTyped ==
  ASSUME IInv, IntSizes, Step
  PROVE  load' = load \/ (load'.to \in Nat /\ load'.to < SizeSpan)
<1>1. /\ size \in Nat /\ size < SizeSpan /\ first \in Nat /\ str1 \in Nat /\ str2 \in Nat
      /\ first + 2 * PAGE_SZ <= SizeSpan /\ SizeSpan \in Nat /\ PAGE_SZ \in Nat /\ PAGE_SZ > 0
  BY Sizes DEF IInv, CallInv
<1>2. ASSUME LoadsInside  PROVE load'.to \in Nat /\ load'.to < SizeSpan
  BY <1>1, <1>2 DEF LoadsInside
<1>3. ASSUME NEW s \in Nat, NEW l \in Nat, l + 2 * PAGE_SZ <= SizeSpan, LoadsUpTo(s, l)
      PROVE  load'.to \in Nat /\ load'.to < SizeSpan
  <2>1. load'.to \in Nat /\ load'.to <= l + PAGE_SZ
    BY <1>3, EndsNear DEF LoadsUpTo
  <2>. QED  BY <1>1, <1>3, <2>1
<1>4. CASE StepMemcmp
  <2>1. LargeZen4 \/ LargeTunable \/ ChooseByThreshold => load' = load
    BY DEF LargeZen4, LargeTunable, ChooseByThreshold
  <2>2. RepCmps => load'.to \in Nat /\ load'.to < SizeSpan
    BY <1>1, RepCmpsTypes
  <2>. QED
    BY <1>2, <1>4, <2>1, <2>2, SmallMemcmpInside, LargeMemcmpInside, IterateMemcmpInside,
       TailMemcmpInside
    DEF StepMemcmp
<1>5. CASE StepStrcmp
  <2>1. str1 \in Both
    BY DEF Both
  <2>. QED  BY <1>1, <1>3, <1>5, <2>1, StrcmpReaches
<1>6. CASE StepScan
  <2>1. Limit(first) /\ routine \in Scans
    BY <1>1, <1>6, FirstIsLimit, StepOf
  <2>2. CASE routine \in Avx2Scans \cup Avx512Scans
    BY <1>1, <1>3, <1>6, <2>1, <2>2, ScanReaches
  <2>3. CASE routine \in Memchrs
    BY <1>1, <1>2, <1>3, <1>6, <2>1, <2>3, MemchrReaches
  <2>. QED  BY <2>1, <2>2, <2>3 DEF Scans
<1>7. CASE StepStrspn
  <2>1. size + 2 * PAGE_SZ <= SizeSpan
    BY <1>7, StepOf DEF IInv, CallInv
  <2>2. LoadsUpTo(str2, size) \/ LoadsUpTo(str1, first)
    BY <1>7, SpanPages, SpanLoopPages, AcceptPages DEF StepStrspn
  <2>. QED  BY <1>1, <1>3, <2>1, <2>2
<1>8. CASE StepStrstr
  BY <1>1, <1>3, <1>8, StrstrPages
<1>. QED  BY <1>4, <1>5, <1>6, <1>7, <1>8 DEF Step

\* A comparison that is over returns an offset, or one less a unit.
LEMMA ReturnsTyped ==
  ASSUME IInv, IntSizes, TypeInv, Step, call' = call, pc' = "done"
  PROVE  ret' = NONE \/ ret' \in -Unit .. SizeSpan - 1
<1>1. /\ size \in Nat /\ size < SizeSpan /\ first \in Nat
      /\ first + 2 * PAGE_SZ <= SizeSpan /\ SizeSpan \in Nat /\ PAGE_SZ \in Nat /\ PAGE_SZ > 0
  BY Sizes DEF IInv, CallInv
<1>2. Unit \in Nat
  BY DEF Unit
<1>3. CASE RepCmps
  BY <1>1, <1>2, <1>3, RepCmpsTypes
<1>4. CASE StepStrstr
  BY <1>1, <1>2, <1>4, StrstrTypes
<1>5. CASE ~RepCmps /\ ~StepStrstr
  <2>1. routine' = routine /\ size' = size /\ first' = first /\ hay' = hay
    BY DEF call, Step
  <2>2. OutsideRepCmps' /\ routine' \notin Strstrs
    <3>1. routine \notin ErmsMemcmps
      <4>. SUFFICES ASSUME routine \in ErmsMemcmps  PROVE FALSE
        OBVIOUS
      <4>1. StepMemcmp
        <5>1. routine \in Memcmps
          BY DEF Memcmps
        <5>. QED  BY <5>1, StepOf, Families DEF Step
      <4>2. pc \notin MemcmpLoops
        <5>. SUFFICES ASSUME pc \in MemcmpLoops  PROVE FALSE
          OBVIOUS
        <5>1. OfMemcmp(pc, offset)
          BY Looping DEF MemcmpLoops
        <5>. QED
          BY <5>1
          DEF OfMemcmp, MemcmpLoops, ErmsMemcmps, WideRepCmps, Tunable, TunableAvx2, TunableAvx512
      <4>. QED
        BY <1>5, <4>1, <4>2
        DEF StepMemcmp, SmallAvx2, LargeAvx2, IterateAvx2, TailAvx2, SmallAvx512, LargeAvx512,
            IterateAvx512, TailAvx512, LargeZen4, IterateZen4, TailZen4, SmallTunable,
            MediumTunable, LargeTunable, IterateTunable, TailTunable, ChooseByThreshold, Called,
            MemcmpLoops, ErmsMemcmps, WideRepCmps, Tunable, TunableAvx2, TunableAvx512
    <3>2. routine \notin Strstrs
      BY <1>5, StepOf, Families DEF Step
    <3>. QED  BY <2>1, <3>1, <3>2 DEF OutsideRepCmps
  <2>3. ResultIsRight'
    <3>1. IInv'
      BY StepHolds
    <3>. QED  BY <2>2, <3>1 DEF IInv, ComparesCorrectly, FoundBehindEnd
  <2>4. routine \notin Strstrs
    BY <1>5, StepOf, Families DEF Step
  <2>. QED  BY <1>1, <1>2, <2>1, <2>3, <2>4 DEF ResultIsRight, Expected, AtStop, NONE
<1>. QED  BY <1>3, <1>4, <1>5

LEMMA StepKeepsTypes ==
  ASSUME IInv, IntSizes, TypeInv, Step
  PROVE  TypeInv'
<1>1. load'.to \in Nat /\ load'.to < SizeSpan
  BY LoadsTyped DEF TypeInv
<1>2. CASE ChooseByThreshold
  <2>1. routine = "memcmp_threshold" /\ pc' = "start" /\ hay' = hay
    BY <1>2 DEF ChooseByThreshold, Called, Step
  <2>. QED  BY <1>1, <2>1 DEF TypeInv, Strstrs
<1>3. CASE call' = call
  <2>1. routine' = routine /\ hay' = hay /\ Unit' = Unit
    BY <1>3 DEF call, Step, Unit
  <2>. QED  BY <1>1, <1>3, <2>1, ReturnsTyped DEF TypeInv, NONE
<1>. QED  BY <1>2, <1>3, CallStays

\* Before the first load there is nothing to type but the call.
LEMMA InitialTypes ==
  ASSUME ReadInit
  PROVE  TypeInv
<1>1. load = NoLoad /\ pc = "start" /\ (routine \notin Strstrs => hay = NoHay)
  BY DEF ReadInit, Init
<1>2. SizeSpan \in Nat /\ SizeSpan > 0
  BY InitHolds, Sizes DEF IInv, CallInv
<1>. QED  BY <1>1, <1>2 DEF TypeInv, NoLoad, NoHay

\* Every size, offset and result of the comparisons and searches is a size_t, or is less
\* than a unit in front of the buffers where rep cmps has no unit to compare.
THEOREM ReadTypes ==
  ASSUME IntSizes
  PROVE  Spec => []TypeOK
<1>1. ReadInit => TypeInv
  BY InitialTypes
<1>2. IInv /\ TypeInv /\ [Next]_readVars => TypeInv'
  <2>1. IInv /\ TypeInv /\ Step => TypeInv'
    BY StepKeepsTypes
  <2>2. TypeInv /\ UNCHANGED readVars => TypeInv'
    BY DEF TypeInv, readVars, vars, call, Unit, NONE
  <2>. QED  BY <2>1, <2>2 DEF Next, Returned
<1>3. IInv /\ TypeInv => TypeOK
  <2>. SUFFICES ASSUME IInv, TypeInv  PROVE TypeOK
    OBVIOUS
  <2>1. pc \in {"start", "done"} \cup Loops
    BY DEF IInv, Reached
  <2>2. offset \in 0 .. SizeSpan - 1 /\ size \in 0 .. SizeSpan - 1 /\ load.to \in 0 .. SizeSpan - 1
    BY Sizes DEF IInv, CallInv, TypeInv
  <2>3. vecs \in 0 .. PAGE_SZ \div YMM_SZ
    BY Sizes, DivMod DEF IInv
  <2>4. ret = NONE \/ ret \in -Unit .. SizeSpan - 1
    BY DEF IInv, TypeInv
  <2>. QED  BY <2>1, <2>2, <2>3, <2>4 DEF TypeOK, IInv, CallInv
<1>. QED  BY <1>1, <1>2, <1>3, ReadInvariant, PTL DEF Spec

=============================================================================
