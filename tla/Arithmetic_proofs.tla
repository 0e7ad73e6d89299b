-------------------------- MODULE Arithmetic_proofs --------------------------
(***************************************************************************)
(* Numbers: alignment, x % v = 0 for a register size v that is not known,  *)
(* pages, and least and greatest elements.                                 *)
(***************************************************************************)
EXTENDS Integers, FiniteSetsExt, TLAPS, WellFoundedInduction

\* Quotient and remainder.
LEMMA DivMod ==
  ASSUME NEW x \in Int, NEW v \in Nat, v > 0
  PROVE  /\ x \div v \in Int
         /\ x = v * (x \div v) + (x % v)
         /\ x % v \in 0 .. v - 1
  OBVIOUS

\* A positive multiple of v is not below v.
LEMMA MultipleAtLeast ==
  ASSUME NEW k \in Int, NEW v \in Nat, v > 0, k >= 1
  PROVE  k * v >= v
  OBVIOUS

\* Between 0 and v there is no other multiple of v than 0.
LEMMA NoMultipleBetween ==
  ASSUME NEW k \in Int, NEW v \in Nat, v > 0, 0 <= k * v, k * v < v
  PROVE  k = 0
  <1>1. CASE k >= 1
    BY <1>1, MultipleAtLeast
  <1>2. CASE k <= -1
    <2>1. (-k) * v >= v
      BY <1>2, MultipleAtLeast
    <2> QED BY <2>1, <1>2
  <1> QED BY <1>1, <1>2

\* Multiples of v are aligned.
LEMMA MultipleIsAligned ==
  ASSUME NEW k \in Int, NEW v \in Nat, v > 0
  PROVE  (k * v) % v = 0
  <1> DEFINE x == k * v
             q == x \div v
             r == x % v
  <1>1. x \in Int /\ q \in Int /\ x = v * q + r /\ r \in 0 .. v - 1
    BY DivMod
  <1>2. (k - q) * v = r
    BY <1>1
  <1>3. k - q = 0
    BY <1>1, <1>2, NoMultipleBetween
  <1> QED BY <1>2, <1>3

\* So is what is a multiple of v away from an aligned address.
LEMMA AlignedStep ==
  ASSUME NEW x \in Int, NEW y \in Int, NEW k \in Int, NEW v \in Nat, v > 0,
         x % v = 0, y = x + k * v
  PROVE  y % v = 0
  <1> DEFINE q == x \div v
  <1>1. q \in Int /\ x = v * q
    BY DivMod
  <1>2. q + k \in Int /\ y = (q + k) * v
    BY <1>1
  <1>3. ((q + k) * v) % v = 0
    BY <1>2, MultipleIsAligned, Zenon
  <1> QED BY <1>2, <1>3

\* Rounding an address down aligns it.
LEMMA RoundedDown ==
  ASSUME NEW x \in Int, NEW v \in Nat, v > 0
  PROVE  (x - (x % v)) % v = 0
  <1> DEFINE q == x \div v
  <1>1. q \in Int /\ x - (x % v) = q * v
    BY DivMod
  <1>2. (q * v) % v = 0
    BY <1>1, MultipleIsAligned, Zenon
  <1> QED BY <1>1, <1>2

\* Two addresses of the same alignment are aligned at the same offsets.
LEMMA SameAlignmentShift ==
  ASSUME NEW d \in Int, NEW s \in Int, NEW o \in Int, NEW v \in Nat, v > 0,
         d % v = s % v, (d + o) % v = 0
  PROVE  (s + o) % v = 0
  <1> DEFINE k == (s \div v) - (d \div v)
  <1>1. k \in Int /\ s + o = (d + o) + k * v
    BY DivMod
  <1>2. d + o \in Int /\ s + o \in Int
    OBVIOUS
  <1> HIDE DEF k
  <1>3. PICK x \in Int, y \in Int : x = d + o /\ y = s + o /\ y = x + k * v
    BY <1>1, <1>2
  <1>4. x % v = 0 /\ y = x + k * v
    BY <1>3
  <1>5. k \in Int
    BY <1>1
  <1>6. y % v = 0
    BY ONLY <1>4, <1>5, v \in Nat, v > 0, x \in Int, y \in Int, AlignedStep, SMTT(30)
  <1> QED BY <1>3, <1>6

\* Four registers on, an aligned address is aligned again.
LEMMA AlignedFourOn ==
  ASSUME NEW x \in Int, NEW v \in Nat, v > 0, x % v = 0
  PROVE  (x + 4 * v) % v = 0
  <1>1. PICK y \in Int, k \in Int : k = 4 /\ y = x + k * v
    OBVIOUS
  <1>2. y = x + k * v
    BY <1>1
  <1>3. y % v = 0
    BY ONLY <1>2, x % v = 0, v \in Nat, v > 0, x \in Int, y \in Int, k \in Int,
       AlignedStep, SMTT(30)
  <1> QED BY <1>1, <1>3

LEMMA MultipleOfFour ==
  ASSUME NEW x \in Int, NEW v \in Nat, v > 0, x % (4 * v) = 0
  PROVE  x % v = 0
<1>1. PICK k \in Int : x = (4 * v) * k
  <2>1. 4 * v \in Nat /\ 4 * v > 0
    OBVIOUS
  <2>. QED  BY <2>1, DivMod
<1>2. x = (4 * k) * v /\ 4 * k \in Int
  BY <1>1
<1>3. ((4 * k) * v) % v = 0
  BY <1>2, MultipleIsAligned
<1>. QED  BY <1>2, <1>3

LEMMA AlignedNext ==
  ASSUME NEW x \in Int, NEW v \in Nat, v > 0, x % v = 0
  PROVE  (x + v) % v = 0
<1>1. PICK k \in Int : x = v * k
  BY DivMod
<1>2. PICK j \in Int : j = k + 1
  OBVIOUS
<1>3. x + v = j * v
  BY <1>1, <1>2
<1>4. (j * v) % v = 0
  BY MultipleIsAligned
<1>. QED  BY <1>3, <1>4

\* Between two aligned addresses there is a whole register.
LEMMA AlignedGap ==
  ASSUME NEW x \in Int, NEW y \in Int, NEW v \in Nat, v > 0, x % v = 0, y % v = 0, x < y
  PROVE  x + v <= y
<1>1. PICK a \in Int, b \in Int : x = v * a /\ y = v * b
  <2>1. x \div v \in Int /\ y \div v \in Int /\ x = v * (x \div v) /\ y = v * (y \div v)
    BY DivMod
  <2>. QED  BY <2>1
<1>2. PICK k \in Int : k = b - a
  BY <1>1
<1>3. k * v = y - x
  BY <1>1, <1>2
<1>4. k >= 1
  <2>1. CASE k = 0
    BY <1>3, <2>1
  <2>2. CASE k <= -1
    <3>1. (-k) * v >= v
      BY <2>2, MultipleAtLeast
    <3>. QED  BY <1>3, <3>1
  <2>. QED  BY <2>1, <2>2
<1>5. k * v >= v
  BY <1>4, MultipleAtLeast
<1>. QED  BY <1>3, <1>5

\* Sums and differences of aligned numbers are aligned.
LEMMA AlignedSum ==
  ASSUME NEW x \in Int, NEW y \in Int, NEW v \in Nat, v > 0, x % v = 0, y % v = 0
  PROVE  (x + y) % v = 0 /\ (x - y) % v = 0
<1>1. PICK k \in Int : y = v * k
  <2>1. y \div v \in Int /\ y = v * (y \div v)
    BY DivMod
  <2>. QED  BY <2>1
<1>2. PICK j \in Int : j = -k
  BY <1>1
<1>3. PICK z \in Int : z = x + k * v
  BY <1>1
<1>4. PICK w \in Int : w = x + j * v
  OBVIOUS
<1>5. z % v = 0
  BY ONLY <1>3, v \in Nat, v > 0, x \in Int, k \in Int, z \in Int, x % v = 0, AlignedStep
<1>6. w % v = 0
  BY ONLY <1>4, v \in Nat, v > 0, x \in Int, j \in Int, w \in Int, x % v = 0, AlignedStep
<1>7. z = x + y /\ w = x - y
  BY <1>1, <1>2, <1>3, <1>4
<1>. QED  BY <1>5, <1>6, <1>7

\* What is aligned for a multiple of v is aligned for v.
LEMMA AlignedTwice ==
  ASSUME NEW x \in Int, NEW w \in Nat, NEW v \in Nat, w > 0, v > 0, x % w = 0, w % v = 0
  PROVE  x % v = 0
<1>1. PICK a \in Int, b \in Int : x = w * a /\ w = v * b
  <2>1. x \div w \in Int /\ w \div v \in Int /\ x = w * (x \div w) /\ w = v * (w \div v)
    BY DivMod
  <2>. QED  BY <2>1
<1>2. PICK k \in Int : k = b * a
  BY <1>1
<1>3. x = k * v
  BY <1>1, <1>2
<1>. QED  BY <1>2, <1>3, MultipleIsAligned

\* The next multiple behind an address.
LEMMA RoundedUp ==
  ASSUME NEW x \in Int, NEW v \in Nat, v > 0
  PROVE  (x + (v - (x % v))) % v = 0 /\ v - (x % v) \in 1 .. v
<1>1. x % v \in 0 .. v - 1
  BY DivMod
<1>2. PICK y \in Int : y = x - (x % v)
  BY <1>1
<1>3. (y + v) % v = 0
  BY <1>2, RoundedDown, AlignedNext
<1>4. y + v = x + (v - (x % v))
  BY <1>1, <1>2
<1>. QED  BY <1>1, <1>3, <1>4

-----------------------------------------------------------------------------
(***************************************************************************)
(* Blocks and pages.                                                       *)
(***************************************************************************)
LEMMA DivMonotone ==
  ASSUME NEW x \in Int, NEW y \in Int, NEW p \in Nat, p > 0, x <= y
  PROVE  x \div p <= y \div p
<1> DEFINE a == x \div p
           b == y \div p
           r == x % p
           s == y % p
<1>1. a \in Int /\ b \in Int /\ x = p * a + r /\ y = p * b + s /\ r \in 0 .. p - 1 /\ s \in 0 .. p - 1
  BY DivMod
<1>. SUFFICES ASSUME a >= b + 1  PROVE FALSE
  BY <1>1
<1>. HIDE DEF a, b, r, s
<1>2. a - b \in Int /\ a - b >= 1
  BY <1>1
<1>3. (a - b) * p >= p
  BY <1>2, MultipleAtLeast
<1>4. (a - b) * p = p * a - p * b
  BY <1>1
<1>. QED  BY <1>1, <1>3, <1>4

LEMMA DivUnique ==
  ASSUME NEW y \in Int, NEW q \in Int, NEW p \in Nat, p > 0, NEW r \in 0 .. p - 1, y = p * q + r
  PROVE  y \div p = q
<1> DEFINE b == y \div p
           s == y % p
<1>1. b \in Int /\ y = p * b + s /\ s \in 0 .. p - 1
  BY DivMod
<1>. HIDE DEF b, s
<1>2. (q - b) * p = s - r /\ (b - q) * p = r - s
  BY <1>1
<1>3. CASE q - b >= 1
  <2>1. (q - b) * p >= p
    BY <1>1, <1>3, MultipleAtLeast
  <2>. QED  BY <1>1, <1>2, <2>1
<1>4. CASE b - q >= 1
  <2>1. (b - q) * p >= p
    BY <1>1, <1>4, MultipleAtLeast
  <2>. QED  BY <1>1, <1>2, <2>1
<1>5. b = q
  BY <1>1, <1>3, <1>4
<1>. QED  BY <1>5 DEF b

\* n bytes that end in front of a page's end lie in one page.
LEMMA BytesInOnePage ==
  ASSUME NEW x \in Int, NEW p \in Nat, p > 0, NEW n \in Nat, n >= 1, (x % p) + n <= p
  PROVE  (x + n - 1) \div p = x \div p
<1> DEFINE q == x \div p
           r == x % p
<1>1. q \in Int /\ x = p * q + r /\ r \in 0 .. p - 1
  BY DivMod
<1>2. r + n - 1 \in 0 .. p - 1 /\ x + n - 1 = p * q + (r + n - 1)
  BY <1>1
<1>. HIDE DEF q, r
<1>3. (x + n - 1) \div p = q
  <2>1. PICK y \in Int, s \in 0 .. p - 1 : y = x + n - 1 /\ s = r + n - 1 /\ y = p * q + s
    BY <1>1, <1>2
  <2>2. y \div p = q
    BY <1>1, <2>1, DivUnique
  <2>. QED  BY <2>1, <2>2
<1>. QED  BY <1>3 DEF q

\* An aligned block lies in one page, if its size divides the page's.
LEMMA BlockInOnePage ==
  ASSUME NEW x \in Int, NEW v \in Nat, v > 0, NEW p \in Nat, p > 0, x % v = 0, p % v = 0
  PROVE  (x + v - 1) \div p = x \div p
<1> DEFINE q == x \div p
           r == x % p
           k == p \div v
           m == x \div v
<1>1. q \in Int /\ x = p * q + r /\ r \in 0 .. p - 1
  BY DivMod
<1>2. k \in Int /\ m \in Int /\ p = v * k /\ x = v * m
  BY DivMod
<1>. HIDE DEF q, r, k, m
<1>3. PICK j \in Int : j = k - m + k * q
  BY <1>1, <1>2
<1>4. p - r = j * v
  <2>1. p * q = v * (k * q)
    BY <1>1, <1>2
  <2>2. j * v = v * k - v * m + v * (k * q)
    BY <1>1, <1>2, <1>3
  <2>. QED  BY <1>1, <1>2, <2>1, <2>2
<1>5. j >= 1
  <2>1. CASE j = 0
    BY <1>1, <1>4, <2>1
  <2>2. CASE j <= -1
    <3>1. (-j) * v >= v
      BY <1>3, <2>2, MultipleAtLeast
    <3>. QED  BY <1>1, <1>3, <1>4, <3>1
  <2>. QED  BY <1>3, <2>1, <2>2
<1>6. j * v >= v
  BY <1>3, <1>5, MultipleAtLeast
<1>7. r + v <= p
  BY <1>1, <1>4, <1>6
<1>. QED  BY <1>7, BytesInOnePage DEF r

-----------------------------------------------------------------------------
\* Sets of numbers have a least element.
LEMMA LeastOfNats ==
  ASSUME NEW T, T \subseteq Nat, T # {}
  PROVE  \E x \in T : \A y \in T : x <= y
<1>1. PICK x \in T : \A y \in T : <<y, x>> \notin OpToRel(<, Nat)
  BY NatLessThanWellFounded, WFMin, Zenon
<1>2. ASSUME NEW y \in T  PROVE ~(y < x)
  <2>1. <<y, x>> \notin OpToRel(<, Nat)
    BY <1>1, Zenon
  <2>2. OpToRel(<, Nat) = { ss \in Nat \X Nat : ss[1] < ss[2] }
    BY Zenon DEF OpToRel
  <2>3. <<y, x>> \notin { ss \in Nat \X Nat : ss[1] < ss[2] }
    BY <2>1, <2>2, Zenon
  <2>. QED  BY <2>3
<1>3. \A y \in T : x <= y
  BY <1>2
<1>. QED  BY <1>3

\* It is their Min, and what is greatest of bounded ones their Max.
LEMMA MinOfNats ==
  ASSUME NEW T, T \subseteq Nat, T # {}
  PROVE  Min(T) \in T /\ \A y \in T : Min(T) <= y
BY LeastOfNats DEF Min

LEMMA MaxOfNats ==
  ASSUME NEW n \in Nat, NEW T, T \subseteq 0 .. n, T # {}
  PROVE  Max(T) \in T /\ \A y \in T : y <= Max(T)
<1> DEFINE U == { n - t : t \in T }
<1>1. U \subseteq Nat /\ U # {}
  <2>1. PICK t \in T : TRUE
    OBVIOUS
  <2>2. n - t \in U
    OBVIOUS
  <2>. QED  BY <2>2
<1>2. PICK t \in T : n - t = Min(U)
  BY <1>1, MinOfNats
<1>3. ASSUME NEW y \in T  PROVE y <= t
  <2>1. n - y \in U
    OBVIOUS
  <2>2. n - t <= n - y
    BY <1>1, <1>2, <2>1, MinOfNats
  <2>. QED  BY <2>2
<1>. QED  BY <1>3 DEF Max

\* The same of integers that are bounded on both sides.
LEMMA MinOfInts ==
  ASSUME NEW b \in Int, NEW T, T \subseteq Int, T # {}, \A t \in T : b <= t
  PROVE  Min(T) \in T /\ \A y \in T : Min(T) <= y
<1> DEFINE U == { t - b : t \in T }
<1>1. U \subseteq Nat /\ U # {}
  <2>1. PICK t \in T : TRUE
    OBVIOUS
  <2>2. t - b \in U
    OBVIOUS
  <2>. QED  BY <2>2
<1>2. PICK t \in T : t - b = Min(U)
  BY <1>1, MinOfNats
<1>3. ASSUME NEW y \in T  PROVE t <= y
  <2>1. y - b \in U
    OBVIOUS
  <2>2. t - b <= y - b
    BY <1>1, <1>2, <2>1, MinOfNats
  <2>. QED  BY <2>2
<1>. QED  BY <1>3 DEF Min

LEMMA MaxOfInts ==
  ASSUME NEW e \in Int, NEW T, T \subseteq Int, T # {}, \A t \in T : t <= e
  PROVE  Max(T) \in T /\ \A y \in T : y <= Max(T)
<1> DEFINE U == { e - t : t \in T }
<1>1. U \subseteq Nat /\ U # {}
  <2>1. PICK t \in T : TRUE
    OBVIOUS
  <2>2. e - t \in U
    OBVIOUS
  <2>. QED  BY <2>2
<1>2. PICK t \in T : e - t = Min(U)
  BY <1>1, MinOfNats
<1>3. ASSUME NEW y \in T  PROVE y <= t
  <2>1. e - y \in U
    OBVIOUS
  <2>2. e - t <= e - y
    BY <1>1, <1>2, <2>1, MinOfNats
  <2>. QED  BY <2>2
<1>. QED  BY <1>3 DEF Max

LEMMA MaxOfTwo ==
  ASSUME NEW x \in Int, NEW y \in Int
  PROVE  Max({x, y}) = IF x < y THEN y ELSE x
BY DEF Max

LEMMA MinOfOne ==
  ASSUME NEW x \in Int
  PROVE  Min({x}) = x
BY DEF Min

=============================================================================
