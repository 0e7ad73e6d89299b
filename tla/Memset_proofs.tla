---------------------------- MODULE Memset_proofs ----------------------------
(***************************************************************************)
(* memset fills its range and nothing else, for every size, alignment,     *)
(* threshold and register size.                                            *)
(***************************************************************************)
EXTENDS Memset, CopyRoutines_proofs

-----------------------------------------------------------------------------
(***************************************************************************)
(* What groups of stores cover: facts about plain numbers.                 *)
(***************************************************************************)
LEMMA RegSizes ==
  /\ ZMM_SZ \in Nat /\ ZMM_SZ > 2 /\ YMM_SZ \in Nat /\ YMM_SZ > 0 /\ ZMM_SZ = 2 * YMM_SZ
  /\ Vec \in {YMM_SZ, ZMM_SZ}
BY Registers DEF Vec

LEMMA FillEndsCover ==
  ASSUME NEW n \in Nat, n <= 8 * ZMM_SZ
  PROVE  FillEnds(n) = 0 .. n - 1
BY NarrowCover, ZmmCover, RegSizes DEF FillEnds

-----------------------------------------------------------------------------
(***************************************************************************)
(* The memory part way through a call: at least the bytes D of the range   *)
(* hold val, and no byte beside the range has been written.                *)
(***************************************************************************)
Filling(m, d, n, D) ==
  /\ m \in [Addr -> Addr \cup {Filled, OtherByte}]
  /\ \A a \in Addr : IF a - d \in D THEN m[a] = Filled
                     ELSE a - d \notin 0 .. n - 1 => m[a] = a

LEMMA FillExtends ==
  ASSUME dst \in Int, size \in Int, NEW D, NEW O, NEW E,
         Filling(mem, dst, size, D), O \subseteq 0 .. size - 1, D \subseteq 0 .. size - 1,
         E \subseteq D \cup O
  PROVE  Filling(FilledWith(mem, O), dst, size, E)
<1> DEFINE f == FilledWith(mem, O)
<1>1. f \in [Addr -> Addr \cup {Filled, OtherByte}]
  BY DEF Filling, FilledWith
<1>2. ASSUME NEW a \in Addr
      PROVE  IF a - dst \in E THEN f[a] = Filled
             ELSE a - dst \notin 0 .. size - 1 => f[a] = a
  <2>1. IF a - dst \in D THEN mem[a] = Filled
        ELSE a - dst \notin 0 .. size - 1 => mem[a] = a
    BY DEF Filling
  <2>2. f[a] = IF a - dst \in O THEN Filled ELSE mem[a]
    BY DEF FilledWith
  <2>. HIDE DEF f
  <2>. QED  BY <2>1, <2>2
<1>. HIDE DEF f
<1>3. Filling(f, dst, size, E)
  BY <1>1, <1>2 DEF Filling
<1>. QED  BY <1>3 DEF f

LEMMA NothingFilled ==
  ASSUME NEW d \in Int, NEW n \in Int
  PROVE  Filling(Untouched, d, n, {})
BY DEF Filling, Untouched

LEMMA AllFilled ==
  ASSUME NEW m, NEW d \in Int, NEW n \in Int, Filling(m, d, n, 0 .. n - 1)
  PROVE  \A a \in Addr : m[a] = IF a - d \in 0 .. n - 1 THEN Filled ELSE a
BY DEF Filling

(***************************************************************************)
(* The bytes of the pattern that rep stos repeats: the first is val's low  *)
(* byte, and all of them are if val is no more than that.                  *)
(***************************************************************************)
LEMMA FirstByteDoubled ==
  ASSUME NEW B, B \subseteq Nat, NEW n \in {8, 16, 32}
  PROVE  Doubled(B, n) \subseteq Nat /\ ByteOf(Doubled(B, n), 0) = ByteOf(B, 0)
<1>1. \A b \in B : b \in Nat
  OBVIOUS
<1>2. \A x : x \in Doubled(B, n) <=> x \in B \/ \E b \in B : x = b + n
  BY DEF Doubled
<1>3. Doubled(B, n) \subseteq Nat
  <2>1. ASSUME NEW x \in Doubled(B, n)  PROVE x \in Nat
    <3>1. CASE x \in B
      BY <3>1, <1>1
    <3>2. CASE \E b \in B : x = b + n
      <4>1. PICK b \in B : x = b + n
        BY <3>2
      <4>. QED  BY <1>1, <4>1
    <3>. QED  BY <1>2, <3>1, <3>2
  <2>. QED  BY <2>1
<1>4. \A b \in 0 .. 7 : b \in Doubled(B, n) <=> b \in B
  <2>1. ASSUME NEW b \in 0 .. 7  PROVE b \in Doubled(B, n) <=> b \in B
    <3>1. ~\E x \in B : b = x + n
      BY <1>1
    <3>. QED  BY <1>2, <3>1
  <2>. QED  BY <2>1
<1>5. \A C : ByteOf(C, 0) = { b \in 0 .. 7 : b \in C }
  BY DEF ByteOf
<1>. QED  BY <1>3, <1>4, <1>5

LEMMA PatternRepeats ==
  ASSUME NEW B, B \subseteq 0 .. 7, NEW k \in 0 .. 7
  PROVE  /\ k < 2 => ByteOf(Doubled(B, 8), k) = ByteOf(B, 0)
         /\ ByteOf(Doubled(Doubled(Doubled(B, 8), 16), 32), k) = ByteOf(B, 0)
<1>2. ASSUME NEW b \in 0 .. 7, NEW j \in 0 .. 7
      PROVE  b + 8 * j \in Doubled(B, 8) <=> b \in B /\ j < 2
  <2>1. b + 8 * j \in Doubled(B, 8) <=> b + 8 * j \in B \/ \E x \in B : b + 8 * j = x + 8
    BY DEF Doubled
  <2>2. \A x \in B : x \in 0 .. 7
    OBVIOUS
  <2>3. CASE j = 0
    <3>1. ~\E x \in B : b + 8 * j = x + 8
      BY <2>2, <2>3
    <3>. QED  BY <2>1, <2>3, <3>1
  <2>4. CASE j = 1
    <3>1. b + 8 * j \notin B
      BY <2>2, <2>4
    <3>2. (\E x \in B : b + 8 * j = x + 8) <=> b \in B
      BY <2>2, <2>4
    <3>. QED  BY <2>1, <2>4, <3>1, <3>2
  <2>5. CASE j >= 2
    <3>1. b + 8 * j \notin B /\ ~\E x \in B : b + 8 * j = x + 8
      BY <2>2, <2>5
    <3>. QED  BY <2>1, <2>5, <3>1
  <2>. QED  BY <2>3, <2>4, <2>5
<1>1. ASSUME NEW b \in 0 .. 7  PROVE b + 8 * k \in Doubled(B, 8) <=> b \in B /\ k < 2
  BY <1>2
<1>3. \A x \in Doubled(B, 8) : x \in 0 .. 15
  BY DEF Doubled
<1> DEFINE C == Doubled(Doubled(B, 8), 16)
<1>4. ASSUME NEW b \in 0 .. 7, NEW j \in 0 .. 7
      PROVE  b + 8 * j \in C <=> b \in B /\ j < 4
  <2>1. b + 8 * j \in C <=> b + 8 * j \in Doubled(B, 8)
                             \/ \E x \in Doubled(B, 8) : b + 8 * j = x + 16
    BY DEF Doubled
  <2>2. CASE j < 2
    <3>1. ~\E x \in Doubled(B, 8) : b + 8 * j = x + 16
      BY <1>3, <2>2
    <3>. QED  BY <1>2, <2>1, <2>2, <3>1
  <2>3. CASE j >= 2
    <3>1. PICK i \in 0 .. 7 : i = j - 2
      BY <2>3
    <3>2. (\E x \in Doubled(B, 8) : b + 8 * j = x + 16) <=> b + 8 * i \in Doubled(B, 8)
      BY <1>3, <3>1
    <3>3. b + 8 * i \in Doubled(B, 8) <=> b \in B /\ i < 2
      BY <1>2
    <3>. QED  BY <1>2, <2>1, <2>3, <3>1, <3>2, <3>3
  <2>. QED  BY <2>2, <2>3
<1>5. \A x \in C : x \in 0 .. 31
  BY <1>3 DEF Doubled
<1>. HIDE DEF C
<1>6. ASSUME NEW b \in 0 .. 7  PROVE b + 8 * k \in Doubled(C, 32) <=> b \in B
  <2>1. b + 8 * k \in Doubled(C, 32) <=> b + 8 * k \in C \/ \E x \in C : b + 8 * k = x + 32
    BY DEF Doubled
  <2>2. CASE k < 4
    <3>1. ~\E x \in C : b + 8 * k = x + 32
      BY <1>5, <2>2
    <3>. QED  BY <1>4, <2>1, <2>2, <3>1
  <2>3. CASE k >= 4
    <3>1. PICK i \in 0 .. 7 : i = k - 4 /\ i < 4
      BY <2>3
    <3>2. (\E x \in C : b + 8 * k = x + 32) <=> b + 8 * i \in C
      BY <1>5, <3>1
    <3>3. b + 8 * i \in C <=> b \in B
      BY <1>4, <3>1
    <3>. QED  BY <1>4, <2>1, <2>3, <3>1, <3>2, <3>3
  <2>. QED  BY <2>2, <2>3
<1>7. k < 2 => ByteOf(Doubled(B, 8), k) = ByteOf(B, 0)
  BY <1>1 DEF ByteOf
<1>8. ByteOf(Doubled(C, 32), k) = ByteOf(B, 0)
  BY <1>6 DEF ByteOf
<1>. QED  BY <1>7, <1>8 DEF C

LEMMA PatternIsRight ==
  ASSUME val \subseteq Nat, Unit \in {1, 2, 8}, NEW k \in 0 .. Unit - 1,
         k = 0 \/ val \subseteq 0 .. 7
  PROVE  ByteOf(Pattern, k) = ByteOf(val, 0)
<1>1. CASE Unit = 1
  BY <1>1 DEF Pattern
<1>2. CASE k = 0
  <2>1. PICK C : C = Doubled(val, 8) /\ C \subseteq Nat /\ ByteOf(C, 0) = ByteOf(val, 0)
    BY FirstByteDoubled
  <2>2. PICK D : D = Doubled(C, 16) /\ D \subseteq Nat /\ ByteOf(D, 0) = ByteOf(C, 0)
    BY <2>1, FirstByteDoubled
  <2>3. ByteOf(Doubled(D, 32), 0) = ByteOf(D, 0)
    BY <2>2, FirstByteDoubled
  <2>4. Pattern \in {val, C, Doubled(D, 32)}
    BY <2>1, <2>2 DEF Pattern
  <2>. QED  BY <1>2, <2>1, <2>2, <2>3, <2>4
<1>3. CASE val \subseteq 0 .. 7 /\ Unit = 2
  <2>1. Pattern = Doubled(val, 8) /\ k \in 0 .. 7 /\ k < 2
    BY <1>3 DEF Pattern
  <2>. QED  BY <1>3, <2>1, PatternRepeats
<1>4. CASE val \subseteq 0 .. 7 /\ Unit = 8
  <2>1. Pattern = Doubled(Doubled(Doubled(val, 8), 16), 32) /\ k \in 0 .. 7
    BY <1>4 DEF Pattern
  <2>. QED  BY <1>4, <2>1, PatternRepeats
<1>. QED  BY <1>1, <1>2, <1>3, <1>4

-----------------------------------------------------------------------------
FillLoops == {"avx2", "avx512", "vectors", "between", "aligned"}

\* What has been filled when the loop stands at offset: the bytes before it, and
\* the end, where the ends were filled first.
LoopFilled(path, o, n, v) ==
  (0 .. o - 1) \cup (IF path \in {"avx512", "between"} THEN n - 4 * v .. n - 1 ELSE {})

\* The vectors of the loops, and how many bytes their paths are for.
LoopFits(path, n, v) ==
  /\ v <= n
  /\ path # "aligned" => 4 * v <= n
  /\ path = "avx2" => v = YMM_SZ
  /\ path \in {"avx512", "vectors"} => v = ZMM_SZ

CallInv ==
  /\ dst + size <= MemSz
  /\ pc \in {"idle", "start"} => mem = Untouched /\ acc = NoAccess
  /\ pc \in {"idle", "start"} => offset = 0
  /\ pc = "idle" => size = 0
  /\ pc = "start" => Allowed(routine, [size |-> size])
  /\ pc \in FillLoops \cup {"last", "done"} => ret = dst

LoopInv ==
  /\ LoopFits(pc, size, Vec)
  /\ loop.ld = "UNALIGNED" /\ loop.step = 4 * Vec
  /\ loop.vec \in Nat /\ loop.vec > 0
  /\ \E k \in Nat : loop.step = k * loop.vec
  /\ loop.st # "UNALIGNED" => (dst + offset) % loop.vec = 0
  /\ Filling(mem, dst, size, LoopFilled(pc, offset, size, Vec))

EndInv ==
  /\ pc = "last" => Vec <= size /\ Filling(mem, dst, size, 0 .. size - Vec - 1)
  /\ MemsetIsCorrect

IInv ==
  /\ TypeOK
  /\ CallInv
  /\ pc \in FillLoops => LoopInv
  /\ EndInv
  /\ InBounds
  /\ NoAlignmentFault

LEMMA Initially == Init => IInv
BY MemSzAssumption, NothingFilled
   DEF Init, CopyInit, IInv, TypeOK, CallInv, EndInv, FillLoops, InBounds, NoAlignmentFault,
       MemsetIsCorrect, NoAccess, Unaligned, Loop, Untouched

\* A single group that covers the range ends the call.
LEMMA FilledAtOnce ==
  ASSUME IInv, val' = val, pc = "start", NEW O, O = 0 .. size - 1, FillAndReturn(O)
  PROVE  IInv'
<1>1. mem' = FilledWith(mem, O)
  BY DEF FillAndReturn, Fill
<1>2. dst \in Int /\ size \in Int /\ Filling(mem, dst, size, {})
  BY NothingFilled DEF IInv, TypeOK, CallInv
<1>3. Filling(mem', dst, size, 0 .. size - 1)
  <2>1. PICK D, E : D = {} /\ E = 0 .. size - 1
    OBVIOUS
  <2>2. Filling(FilledWith(mem, O), dst, size, E)
    BY <1>2, <2>1, FillExtends
  <2>. QED  BY <1>1, <2>1, <2>2
<1>4. mem' \in [Addr -> Addr \cup {Filled, OtherByte}]
  BY <1>3 DEF Filling
<1>5. TypeOK' /\ CallInv' /\ pc' = "done" /\ size' = size /\ dst' = dst
  BY <1>4 DEF FillAndReturn, IInv, TypeOK, CallInv, FillLoops
<1>6. EndInv'
  <2>1. \A a \in Addr : mem'[a] = IF a - dst \in 0 .. size - 1 THEN Filled ELSE a
    BY <1>2, <1>3, AllFilled
  <2>2. ret' = dst
    BY DEF FillAndReturn
  <2>. QED  BY <1>5, <2>1, <2>2 DEF EndInv, MemsetIsCorrect
<1>7. acc' = [off |-> O, at |-> 0, kind |-> Unaligned]
  BY DEF FillAndReturn, Fill, Access
<1>8. InBounds' /\ NoAlignmentFault'
  BY <1>5, <1>7 DEF InBounds, NoAlignmentFault, Unaligned, Loop
<1>. QED  BY <1>5, <1>6, <1>8 DEF IInv, FillLoops

\* A group that covers the bytes up to `from', and then a loop.
LEMMA LoopEntered ==
  ASSUME IInv, val' = val, pc = "start",
         NEW path \in FillLoops, NEW O, NEW from \in Nat, NEW vec, NEW st,
         vec = Vec \/ vec = YMM_SZ,
         FillAndLoop(path, O, from, vec, st), LoopFits(path, size, Vec),
         O \subseteq 0 .. size - 1, LoopFilled(path, from, size, Vec) \subseteq O,
         from <= size,
         st # "UNALIGNED" => (dst + from) % vec = 0
  PROVE  IInv'
<1>0. /\ dst' = dst /\ size' = size /\ routine' = routine /\ offset' = from /\ pc' = path
      /\ ret' = dst /\ src' = src /\ save' = save
      /\ mem' = FilledWith(mem, O)
      /\ acc' = [off |-> O, at |-> 0, kind |-> Unaligned]
      /\ loop' = Loop(4 * (Vec \div vec), vec, "UNALIGNED", st)
  BY DEF FillAndLoop, Fill, Access
<1>1. dst \in Int /\ size \in Int /\ Filling(mem, dst, size, {})
  BY NothingFilled DEF IInv, TypeOK, CallInv
<1>2. Vec' = Vec
  BY <1>0 DEF Vec
<1>3. Filling(mem', dst, size, LoopFilled(path, from, size, Vec))
  <2>1. PICK D, E : D = {} /\ E = LoopFilled(path, from, size, Vec)
    OBVIOUS
  <2>2. Filling(FilledWith(mem, O), dst, size, E)
    BY <1>1, <2>1, FillExtends
  <2>. QED  BY <1>0, <2>1, <2>2
<1>4. mem' \in [Addr -> Addr \cup {Filled, OtherByte}]
  BY <1>3 DEF Filling
<1>5. TypeOK'
  BY <1>0, <1>4 DEF IInv, TypeOK, FillLoops
<1>6. CallInv' /\ EndInv'
  BY <1>0 DEF IInv, CallInv, EndInv, MemsetIsCorrect, FillLoops
<1>7. InBounds' /\ NoAlignmentFault'
  BY <1>0 DEF InBounds, NoAlignmentFault, Unaligned, Loop
<1>8. /\ vec \in Nat /\ vec > 0 /\ Vec \in Nat
      /\ 4 * (Vec \div vec) \in Nat /\ (4 * (Vec \div vec)) * vec = 4 * Vec
  <2>1. CASE vec = Vec
    <3>1. Vec \div vec = 1
      BY <2>1, RegSizes
    <3>. QED  BY <2>1, <3>1, RegSizes
  <2>2. CASE vec = YMM_SZ /\ Vec = ZMM_SZ
    <3>1. Vec \div vec = 2
      BY <2>2, RegSizes
    <3>. QED  BY <2>2, <3>1, RegSizes
  <2>. QED  BY <2>1, <2>2, RegSizes
<1>9. /\ loop'.ld = "UNALIGNED" /\ loop'.vec = vec /\ loop'.st = st
      /\ loop'.step = (4 * (Vec \div vec)) * vec
  BY <1>0 DEF Loop
<1>10. LoopInv'
  <2>1. \E k \in Nat : loop'.step = k * loop'.vec
    BY <1>8, <1>9
  <2>. QED  BY <1>0, <1>2, <1>3, <1>8, <1>9, <2>1 DEF LoopInv
<1>. QED  BY <1>0, <1>5, <1>6, <1>7, <1>10 DEF IInv

\* An iteration of a loop.
LEMMA LoopIterates ==
  ASSUME IInv, val' = val, NEW path \in FillLoops, NEW end \in Int, end <= size - 4 * Vec + 1,
         FillIteration(path, end)
  PROVE  IInv'
<1>0. /\ pc = path /\ pc' = pc /\ offset < end /\ loop' = loop /\ offset' = offset + loop.step
      /\ dst' = dst /\ size' = size /\ routine' = routine /\ ret' = ret
      /\ src' = src /\ save' = save
      /\ mem' = FilledWith(mem, Block(offset, loop.step))
      /\ acc' = [off |-> Block(offset, loop.step), at |-> offset, kind |-> loop]
  BY DEF FillIteration, Fill, Access, callVars
<1>1. LoopInv /\ TypeOK /\ dst \in Int /\ size \in Int /\ offset \in Nat /\ Vec \in Nat /\ Vec > 0
  BY <1>0, RegSizes DEF IInv, TypeOK
<1>2. PICK o \in Nat, v \in Nat : o = offset /\ v = Vec
  BY <1>1
<1>3. Vec' = Vec
  BY <1>0 DEF Vec
<1>4. loop.step = 4 * v /\ o + 4 * v <= size /\ offset' = o + 4 * v
  BY <1>0, <1>1, <1>2 DEF LoopInv
<1>5. Filling(mem', dst, size, LoopFilled(path, o + 4 * v, size, v))
  <2>1. PICK D, E, O : /\ D = LoopFilled(path, o, size, v)
                       /\ E = LoopFilled(path, o + 4 * v, size, v)
                       /\ O = o .. o + 4 * v - 1
    OBVIOUS
  <2>2. Filling(mem, dst, size, D)
    BY <1>0, <1>1, <1>2, <2>1 DEF LoopInv
  <2>3. O \subseteq 0 .. size - 1 /\ D \subseteq 0 .. size - 1 /\ E \subseteq D \cup O
    BY <1>0, <1>1, <1>2, <1>4, <2>1 DEF LoopFilled, LoopInv, LoopFits
  <2>4. Block(offset, loop.step) = O
    BY <1>2, <1>4, <2>1 DEF Block
  <2>5. Filling(FilledWith(mem, O), dst, size, E)
    BY <1>1, <2>2, <2>3, FillExtends
  <2>. QED  BY <1>0, <2>1, <2>4, <2>5
<1>6. mem' \in [Addr -> Addr \cup {Filled, OtherByte}]
  BY <1>5 DEF Filling
<1>7. TypeOK'
  BY <1>0, <1>1, <1>2, <1>4, <1>6 DEF TypeOK, FillLoops
<1>8. CallInv' /\ EndInv'
  BY <1>0 DEF IInv, CallInv, EndInv, MemsetIsCorrect, FillLoops
<1>9. InBounds'
  BY <1>0, <1>1, <1>2, <1>4 DEF InBounds, Block
<1>10. NoAlignmentFault'
  BY <1>0, <1>1 DEF NoAlignmentFault, LoopInv
<1>11. loop.st # "UNALIGNED" => (dst + offset') % loop.vec = 0
  <2>1. PICK k \in Int : loop.step = k * loop.vec
    BY <1>1 DEF LoopInv
  <2>2. PICK w \in Nat : w = loop.vec /\ w > 0
    BY <1>1 DEF LoopInv
  <2>3. PICK x \in Int, y \in Int : x = dst + o /\ y = dst + offset' /\ y = x + k * w
    BY <1>1, <1>4, <2>1, <2>2
  <2>4. CASE loop.st # "UNALIGNED"
    <3>0. (dst + offset) % loop.vec = 0
      BY <1>1, <2>4 DEF LoopInv
    <3>1. x % w = 0
      BY <1>2, <2>2, <2>3, <3>0
    <3>2. w > 0 /\ y = x + k * w
      BY <2>2, <2>3
    <3>3. y % w = 0
      BY ONLY <3>1, <3>2, AlignedStep, k \in Int, w \in Nat, x \in Int, y \in Int,
              SMTT(30)
    <3>. QED  BY <2>2, <2>3, <3>3
  <2>. QED  BY <2>4
<1>12. LoopInv'
  BY <1>0, <1>1, <1>2, <1>3, <1>4, <1>5, <1>11 DEF LoopInv
<1>. QED  BY <1>0, <1>7, <1>8, <1>9, <1>10, <1>12 DEF IInv

\* The stores that end a call.
LEMMA TailFilled ==
  ASSUME IInv, val' = val, pc \in FillLoops \cup {"last"}, NEW D, NEW O,
         Filling(mem, dst, size, D), D \subseteq 0 .. size - 1,
         FillTail(O, "done"), O \subseteq 0 .. size - 1, 0 .. size - 1 \subseteq D \cup O
  PROVE  IInv'
<1>0. /\ pc' = "done" /\ loop' = loop /\ offset' = offset
      /\ dst' = dst /\ size' = size /\ routine' = routine /\ ret' = ret
      /\ src' = src /\ save' = save
      /\ mem' = FilledWith(mem, O)
      /\ acc' = [off |-> O, at |-> 0, kind |-> Unaligned]
  BY DEF FillTail, Fill, Access, callVars
<1>1. TypeOK /\ dst \in Int /\ size \in Int
  BY DEF IInv, TypeOK
<1>2. Filling(mem', dst, size, 0 .. size - 1)
  <2>1. PICK E : E = 0 .. size - 1
    OBVIOUS
  <2>2. Filling(FilledWith(mem, O), dst, size, E)
    BY <1>1, <2>1, FillExtends
  <2>. QED  BY <1>0, <2>1, <2>2
<1>3. mem' \in [Addr -> Addr \cup {Filled, OtherByte}]
  BY <1>2 DEF Filling
<1>4. TypeOK'
  BY <1>0, <1>1, <1>3 DEF TypeOK
<1>5. CallInv' /\ EndInv'
  <2>1. \A a \in Addr : mem'[a] = IF a - dst \in 0 .. size - 1 THEN Filled ELSE a
    BY <1>1, <1>2, AllFilled
  <2>2. CallInv' /\ ret' = dst'
    BY <1>0 DEF IInv, CallInv, FillLoops
  <2>. QED  BY <1>0, <2>1, <2>2 DEF EndInv, MemsetIsCorrect
<1>6. InBounds' /\ NoAlignmentFault'
  BY <1>0 DEF InBounds, NoAlignmentFault, Unaligned, Loop
<1>. QED  BY <1>0, <1>4, <1>5, <1>6 DEF IInv, FillLoops

\* The whole vectors that are left behind the loop of the aligned variants: all but
\* one vector's bytes.
LEMMA AlignedRestLeavesOne ==
  ASSUME NEW n \in Nat, n < 4 * Vec
  PROVE  /\ AlignedRest(n) * Vec \in Nat /\ AlignedRest(n) * Vec <= n
         /\ n <= AlignedRest(n) * Vec + Vec
<1>1. PICK v \in Nat : v = Vec /\ v > 0
  BY RegSizes
<1>2. CASE n > 3 * v
  BY <1>1, <1>2 DEF AlignedRest
<1>3. CASE n >= 2 * v /\ n <= 3 * v
  BY <1>1, <1>3 DEF AlignedRest
<1>4. CASE n > v /\ n < 2 * v
  BY <1>1, <1>4 DEF AlignedRest
<1>5. CASE n <= v
  BY <1>1, <1>5 DEF AlignedRest
<1>. QED  BY <1>1, <1>2, <1>3, <1>4, <1>5

LEMMA AlignedEnds ==
  ASSUME IInv, val' = val, FinishAligned
  PROVE  IInv'
<1>1. PICK k : k = AlignedRest(size - offset) * Vec
  OBVIOUS
<1>0. /\ pc = "aligned" /\ pc' = "last" /\ loop' = loop /\ offset' = offset
      /\ size - offset < 4 * Vec
      /\ dst' = dst /\ size' = size /\ routine' = routine /\ ret' = ret
      /\ src' = src /\ save' = save
      /\ mem' = FilledWith(mem, Block(offset, k))
      /\ acc' = [off |-> Block(offset, k), at |-> offset, kind |-> loop]
  BY <1>1 DEF FinishAligned, Fill, Access, callVars
<1>2. LoopInv /\ TypeOK /\ dst \in Int /\ size \in Int /\ offset \in Nat /\ Vec \in Nat
      /\ size - offset \in Nat
  BY <1>0, RegSizes DEF IInv, TypeOK, FillLoops
<1>3. k \in Nat /\ k <= size - offset /\ size - offset <= k + Vec
  BY <1>0, <1>1, <1>2, AlignedRestLeavesOne
<1>4. Filling(mem', dst, size, 0 .. size - Vec - 1)
  <2>1. PICK D, E, O : /\ D = LoopFilled("aligned", offset, size, Vec)
                       /\ E = 0 .. size - Vec - 1 /\ O = Block(offset, k)
    OBVIOUS
  <2>2. Filling(mem, dst, size, D)
    BY <1>0, <1>2, <2>1 DEF LoopInv
  <2>3. O \subseteq 0 .. size - 1 /\ D \subseteq 0 .. size - 1 /\ E \subseteq D \cup O
    BY <1>2, <1>3, <2>1 DEF LoopFilled, Block
  <2>4. Filling(FilledWith(mem, O), dst, size, E)
    BY <1>2, <2>2, <2>3, FillExtends
  <2>. QED  BY <1>0, <2>1, <2>4
<1>5. mem' \in [Addr -> Addr \cup {Filled, OtherByte}]
  BY <1>4 DEF Filling
<1>6. TypeOK'
  BY <1>0, <1>2, <1>5 DEF TypeOK
<1>7. Vec' = Vec
  BY <1>0 DEF Vec
<1>8. CallInv' /\ EndInv'
  BY <1>0, <1>2, <1>4, <1>7
  DEF IInv, CallInv, EndInv, MemsetIsCorrect, FillLoops, LoopInv, LoopFits
<1>9. InBounds' /\ NoAlignmentFault'
  BY <1>0, <1>2, <1>3 DEF InBounds, NoAlignmentFault, Block, LoopInv
<1>. QED  BY <1>0, <1>6, <1>8, <1>9 DEF IInv, FillLoops

-----------------------------------------------------------------------------
LEMMA CallKeeps ==
  ASSUME IInv, CallMemset
  PROVE  IInv'
<1>1. PICK c \in Calls, r \in MemsetRoutines : Allowed(r, c) /\ Call(c) /\ routine' = r
  BY DEF CallMemset
<1>2. /\ c.dst \in Nat /\ c.src \in Nat /\ c.size \in Nat
      /\ c.dst + c.size <= MemSz /\ c.src + c.size <= MemSz
  BY CallsAssumption
<1>5. val' \in Vals
  BY DEF CallMemset
<1>3. TypeOK' /\ InBounds' /\ NoAlignmentFault'
  BY <1>1, <1>2, <1>5, MemSzAssumption
     DEF Call, Untouched, IInv, TypeOK, CallInv, InBounds, NoAlignmentFault, NoAccess, Unaligned, Loop
<1>4. CallInv'
  BY <1>1, <1>2 DEF Call, IInv, CallInv, FillLoops, Allowed
<1>. QED  BY <1>1, <1>3, <1>4 DEF IInv, Call, FillLoops, EndInv, MemsetIsCorrect

LEMMA ReturnKeeps ==
  ASSUME IInv, ReturnMemset
  PROVE  IInv'
<1>1. TypeOK' /\ InBounds' /\ NoAlignmentFault'
  BY MemSzAssumption
     DEF ReturnMemset, Return, TypeOK, InBounds, NoAlignmentFault, NoAccess, Unaligned, Loop,
         Untouched
<1>2. CallInv'
  BY MemSzAssumption DEF ReturnMemset, Return, CallInv, FillLoops
<1>. QED  BY <1>1, <1>2 DEF IInv, ReturnMemset, Return, FillLoops, EndInv, MemsetIsCorrect

LEMMA ChoiceKeeps ==
  ASSUME IInv, val' = val, ChooseByThreshold
  PROVE  IInv'
<1>1. /\ pc = "start" /\ UNCHANGED <<copyVars, limits>>
      /\ routine' \in {"erms_b_aligned"} \cup Avx2Tunables \cup Avx512Tunables
  BY DEF ChooseByThreshold, Called, Avx2Tunables, Avx512Tunables
<1>2. Allowed(routine', [size |-> size']) /\ routine' \in MemsetRoutines
  BY <1>1 DEF Allowed, Avx2Tunables, Avx512Tunables, MemsetRoutines, ErmsTunables
<1>3. /\ pc' = pc /\ mem' = mem /\ dst' = dst /\ src' = src /\ size' = size /\ ret' = ret
      /\ offset' = offset /\ loop' = loop /\ save' = save /\ acc' = acc
  BY <1>1 DEF copyVars
<1>4. TypeOK'
  BY <1>2, <1>3 DEF IInv, TypeOK
<1>5. CallInv'
  BY <1>1, <1>2, <1>3 DEF IInv, CallInv, FillLoops, Allowed
<1>6. EndInv'
  BY <1>1, <1>3 DEF EndInv, MemsetIsCorrect
<1>7. InBounds' /\ NoAlignmentFault'
  BY <1>3 DEF IInv, InBounds, NoAlignmentFault
<1>. QED  BY <1>1, <1>3, <1>4, <1>5, <1>6, <1>7 DEF IInv, FillLoops

\* rep stos of whole units: where a byte differs, val is no byte and the unit has more.
LEMMA Repeated ==
  ASSUME IInv, val' = val, RepStosTunable, Unit \in {1, 2, 8}, (size \div Unit) * Unit = size
  PROVE  IInv'
<1> DEFINE O == 0 .. size - 1
<1>1. /\ pc = "start" /\ routine \in ErmsTunables /\ size \in Nat /\ dst \in Nat
      /\ val \subseteq Nat /\ mem = Untouched
  <2>1. pc = "start" /\ routine \in ErmsTunables
    BY DEF RepStosTunable, Called
  <2>2. size \in Nat /\ dst \in Nat /\ val \in Vals \cup {{}}
    BY MemSzAssumption DEF IInv, TypeOK
  <2>3. mem = Untouched
    BY <2>1 DEF IInv, CallInv
  <2>4. val \subseteq Nat
    BY <2>2, ValsAssumption
  <2>. QED  BY <2>1, <2>2, <2>3, <2>4
<1>2. Block(0, size) = O
  BY <1>1 DEF Block
<1>3. /\ dst' = dst /\ src' = src /\ size' = size /\ routine' = routine /\ offset' = offset
      /\ ret' = dst /\ pc' = "done" /\ loop' = loop /\ save' = save
      /\ acc' = [off |-> O, at |-> 0, kind |-> Unaligned]
      /\ mem' = [a \in Addr |->
                   IF a - dst \in O
                     THEN IF ByteOf(Pattern, (a - dst) % Unit) = ByteOf(val, 0)
                            THEN Filled ELSE OtherByte
                     ELSE a]
  BY <1>1, <1>2 DEF RepStosTunable, Access, Untouched
<1>4. mem' \in [Addr -> Addr \cup {Filled, OtherByte}]
  BY <1>3
<1>5. TypeOK' /\ CallInv'
  BY <1>3, <1>4 DEF IInv, TypeOK, CallInv, FillLoops
<1>6. ASSUME NEW a \in Addr
      PROVE  IF a - dst \notin O THEN mem'[a] = a
             ELSE mem'[a] = Filled \/ (mem'[a] = OtherByte /\ MayDiffer(a))
  <2>. HIDE DEF O
  <2>1. CASE a - dst \notin O
    BY <1>3, <2>1
  <2>2. CASE a - dst \in O
    <3>1. PICK k \in 0 .. Unit - 1 : k = (a - dst) % Unit
      BY <1>1 DEF Addr
    <3>2. ~MayDiffer(a) => k = 0 \/ val \subseteq 0 .. 7
      BY <1>1, <3>1 DEF MayDiffer
    <3>3. ~MayDiffer(a) => ByteOf(Pattern, k) = ByteOf(val, 0)
      BY <1>1, <3>2, PatternIsRight
    <3>4. mem'[a] = IF ByteOf(Pattern, k) = ByteOf(val, 0) THEN Filled ELSE OtherByte
      BY <1>3, <2>2, <3>1
    <3>. QED  BY <2>2, <3>3, <3>4
  <2>. QED  BY <2>1, <2>2
<1>7. EndInv'
  <2>1. \A a \in Addr : MayDiffer(a)' <=> MayDiffer(a)
    <3>1. Unit' = Unit
      BY <1>3 DEF Unit
    <3>. QED  BY <1>3, <3>1 DEF MayDiffer
  <2>. QED  BY <1>3, <1>6, <2>1 DEF EndInv, MemsetIsCorrect
<1>8. InBounds' /\ NoAlignmentFault'
  BY <1>3 DEF InBounds, NoAlignmentFault, Unaligned, Loop
<1>. QED  BY <1>3, <1>5, <1>7, <1>8 DEF IInv, FillLoops

\* The calls that one group of stores serves.
LEMMA SmallKeeps ==
  ASSUME IInv, val' = val,
         \/ SmallAvx2 \/ SmallAvx512 \/ SmallErms \/ RepStos \/ SmallZen4 \/ SmallTunable
         \/ RepStosTunable
         \/ LargeUnaligned /\ (size < 4 * Vec \/ (size = 4 * Vec /\ TwoVectorsAreSmall))
  PROVE  IInv'
<1>1. pc = "start" /\ size \in Nat /\ dst \in Nat
  BY DEF IInv, TypeOK, SmallAvx2, SmallAvx512, SmallErms, RepStos, SmallZen4, SmallTunable,
         RepStosTunable, LargeUnaligned, Called
<1>2. CASE SmallAvx2
  <2> DEFINE O == IF size <= 2 * YMM_SZ THEN FillEnds(size)
                  ELSE IF size <= 4 * YMM_SZ THEN Ends(2 * YMM_SZ, size)
                  ELSE Ends(4 * YMM_SZ, size)
  <2>1. O = 0 .. size - 1
    <3>1. CASE size <= 2 * YMM_SZ
      BY <1>1, <3>1, RegSizes, FillEndsCover
    <3>2. CASE size > 2 * YMM_SZ /\ size <= 4 * YMM_SZ
      BY <1>1, <3>2, RegSizes, EndsCover
    <3>3. CASE size > 4 * YMM_SZ
      BY <1>1, <1>2, <3>3, RegSizes, EndsCover DEF SmallAvx2
    <3>. QED  BY <1>1, <3>1, <3>2, <3>3, RegSizes
  <2>2. FillAndReturn(O)
    BY <1>2 DEF SmallAvx2
  <2>. HIDE DEF O
  <2>. QED  BY <1>1, <2>1, <2>2, FilledAtOnce
<1>3. CASE SmallAvx512 \/ SmallErms
  <2>1. PICK O : O = Rest(size)
    OBVIOUS
  <2>2. O = 0 .. size - 1 /\ FillAndReturn(O)
    BY <1>1, <1>3, <2>1, RestCovers DEF SmallAvx512, SmallErms
  <2>. QED  BY <1>1, <2>2, FilledAtOnce
<1>4. CASE RepStos
  <2>1. PICK O, a : a = AlignedWithin(4, ZMM_SZ)
                    /\ O = Block(0, 4 * ZMM_SZ) \cup Block(a, size - a)
    OBVIOUS
  <2>2. a \in 1 .. 4 * ZMM_SZ
    BY <1>1, <2>1, RegSizes, LoopStart
  <2>3. O = 0 .. size - 1
    BY <1>1, <1>4, <2>1, <2>2, RegSizes DEF RepStos, Block
  <2>4. FillAndReturn(O)
    BY <1>4, <2>1 DEF RepStos
  <2>. QED  BY <1>1, <2>3, <2>4, FilledAtOnce
<1>5. CASE SmallZen4
  <2>1. CASE size <= 4 * ZMM_SZ
    <3>1. PICK O : O = Rest(size)
      OBVIOUS
    <3>2. O = 0 .. size - 1 /\ FillAndReturn(O)
      BY <1>1, <1>5, <2>1, <3>1, RestCovers, RegSizes DEF SmallZen4
    <3>. QED  BY <1>1, <3>2, FilledAtOnce
  <2>2. CASE 4 * ZMM_SZ < size
    <3>1. PICK n \in Nat : n = size - 4 * ZMM_SZ /\ n <= 4 * ZMM_SZ
      BY <1>1, <1>5, <2>2, RegSizes DEF SmallZen4
    <3>2. PICK k : k = rem_vecs(n, ZMM_SZ)
      OBVIOUS
    <3>3. k \in 0 .. 4 /\ n <= k * ZMM_SZ
      BY <3>1, <3>2, Registers, RemVecs
    <3>4. PICK O : O = Block(0, 4 * ZMM_SZ) \cup LastVecs(k, ZMM_SZ)
      OBVIOUS
    <3>5. PICK w \in Int : w = k * ZMM_SZ /\ w <= 4 * ZMM_SZ /\ w >= n
      BY <3>1, <3>3, RegSizes
    <3>6. O = 0 .. size - 1
      BY <1>1, <2>2, <3>1, <3>4, <3>5, RegSizes DEF Block, LastVecs
    <3>7. FillAndReturn(O)
      BY <1>1, <1>5, <2>2, <3>1, <3>2, <3>4, RegSizes DEF SmallZen4
    <3>. QED  BY <1>1, <3>6, <3>7, FilledAtOnce
  <2>. QED  BY <1>1, <2>1, <2>2, RegSizes
<1>6. CASE SmallTunable
  <2>1. PICK O : O = FillEnds(size)
    OBVIOUS
  <2>2. size <= 8 * ZMM_SZ
    BY <1>1, <1>6, RegSizes DEF SmallTunable
  <2>3. O = 0 .. size - 1 /\ FillAndReturn(O)
    BY <1>1, <1>6, <2>1, <2>2, FillEndsCover DEF SmallTunable
  <2>. QED  BY <1>1, <2>3, FilledAtOnce
<1>7. CASE RepStosTunable
  <2>1. Unit \in {1, 2, 8} /\ size % Unit = 0
    <3>1. Allowed(routine, [size |-> size])
      BY <1>1 DEF IInv, CallInv
    <3>2. CASE routine \in {"erms_w_aligned", "erms_d_aligned"}
      <4>1. Unit = 2
        BY <3>2 DEF Unit
      <4>. QED  BY <3>1, <3>2, <4>1 DEF Allowed
    <3>3. CASE routine = "erms_q_aligned"
      <4>1. Unit = 8
        BY <3>3 DEF Unit
      <4>. QED  BY <3>1, <3>3, <4>1 DEF Allowed
    <3>4. CASE routine \notin {"erms_w_aligned", "erms_d_aligned", "erms_q_aligned"}
      <4>1. Unit = 1
        BY <3>4 DEF Unit
      <4>. QED  BY <1>1, <4>1
    <3>. QED  BY <3>2, <3>3, <3>4
  <2>2. (size \div Unit) * Unit = size
    BY <1>1, <2>1
  <2>. QED  BY <1>1, <1>7, <2>1, <2>2, Repeated
<1>8. CASE LargeUnaligned /\ (size < 4 * Vec \/ (size = 4 * Vec /\ TwoVectorsAreSmall))
  <2>0. PICK k \in Nat : k = 2 * Vec
    BY RegSizes
  <2>1. PICK O : k = 2 * Vec /\ O = Ends(k, size)
    BY <2>0
  <2>2. k <= size /\ size <= 2 * k
    BY <1>1, <1>8, <2>1, RegSizes DEF LargeUnaligned
  <2>3. O = 0 .. size - 1
    BY <1>1, <2>1, <2>2, EndsCover
  <2>4. FillAndReturn(O)
    BY <1>8, <2>1 DEF LargeUnaligned
  <2>. QED  BY <1>1, <2>3, <2>4, FilledAtOnce
<1>. QED  BY <1>2, <1>3, <1>4, <1>5, <1>6, <1>7, <1>8

\* The calls that enter a loop.
LEMMA EntryKeeps ==
  ASSUME IInv, val' = val,
         \/ LargeAvx2 \/ LargeAvx512 \/ LargeErms \/ LargeZen4 \/ LargeAligned
         \/ LargeUnaligned /\ ~(size < 4 * Vec \/ (size = 4 * Vec /\ TwoVectorsAreSmall))
  PROVE  IInv'
<1>1. /\ pc = "start" /\ size \in Nat /\ dst \in Nat
      /\ YMM_SZ \in Nat /\ YMM_SZ > 0 /\ ZMM_SZ = 2 * YMM_SZ
  BY RegSizes DEF IInv, TypeOK, LargeAvx2, LargeAvx512, LargeErms, LargeZen4, LargeAligned,
         LargeUnaligned, Called
<1>2. CASE LargeAvx2
  <2>1. Vec = YMM_SZ /\ 8 * YMM_SZ < size
    BY <1>2 DEF LargeAvx2, Called, Vec
  <2>2. PICK O, a, st : /\ O = Block(0, 4 * YMM_SZ) /\ a = AlignedWithin(4, YMM_SZ)
                        /\ st = IF size <= limits.l3 THEN "ALIGNED" ELSE "STREAM"
    OBVIOUS
  <2>3. a \in 1 .. 4 * YMM_SZ /\ (dst + a) % YMM_SZ = 0
    BY <1>1, <2>2, LoopStart
  <2>4. FillAndLoop("avx2", O, a, YMM_SZ, st) /\ st \in {"ALIGNED", "STREAM"}
    BY <1>2, <2>2 DEF LargeAvx2
  <2>5. O \subseteq 0 .. size - 1 /\ LoopFilled("avx2", a, size, Vec) \subseteq O /\ a <= size
        /\ a \in Nat /\ LoopFits("avx2", size, Vec)
    BY <1>1, <2>1, <2>2, <2>3 DEF Block, LoopFilled, LoopFits
  <2>6. "avx2" \in FillLoops
    BY DEF FillLoops
  <2>. QED  BY <1>1, <2>3, <2>4, <2>5, <2>6, LoopEntered
<1>3. CASE LargeAvx512
  <2>1. Vec = ZMM_SZ /\ 8 * ZMM_SZ < size
    BY <1>3 DEF LargeAvx512, Called, Vec, Avx2Tunables
  <2>2. PICK O, a : O = Ends(4 * ZMM_SZ, size) /\ a = AlignedWithin(4, ZMM_SZ)
    OBVIOUS
  <2>3. a \in 1 .. 4 * ZMM_SZ /\ (dst + a) % ZMM_SZ = 0
    BY <1>1, <2>2, LoopStart
  <2>4. FillAndLoop("avx512", O, a, ZMM_SZ, "ALIGNED")
    BY <1>3, <2>2 DEF LargeAvx512
  <2>5. O \subseteq 0 .. size - 1 /\ LoopFilled("avx512", a, size, Vec) \subseteq O /\ a <= size
        /\ a \in Nat /\ LoopFits("avx512", size, Vec)
    BY <1>1, <2>1, <2>2, <2>3 DEF Block, Ends, LoopFilled, LoopFits
  <2>. QED  BY <1>1, <2>1, <2>3, <2>4, <2>5, LoopEntered DEF FillLoops
<1>4. CASE LargeErms \/ LargeZen4
  <2>1. Vec = ZMM_SZ /\ 8 * ZMM_SZ < size
    BY <1>4 DEF LargeErms, LargeZen4, Called, Vec, Avx2Tunables
  <2>2. PICK O, a : O = Block(0, 4 * ZMM_SZ) /\ a = AlignedWithin(4, ZMM_SZ)
    OBVIOUS
  <2>3. a \in 1 .. 4 * ZMM_SZ /\ (dst + a) % ZMM_SZ = 0 /\ (dst + a) % YMM_SZ = 0
    <3>1. a \in 1 .. 4 * ZMM_SZ /\ (dst + a) % ZMM_SZ = 0
      BY <1>1, <2>2, LoopStart
    <3>2. PICK s \in Int : s = dst + a
      BY <1>1, <3>1
    <3>. QED  BY <3>1, <3>2, HalvesAligned
  <2>4. PICK st \in {"ALIGNED", "STREAM"}, vec \in {ZMM_SZ, YMM_SZ} :
          FillAndLoop("vectors", O, a, vec, st)
    BY <1>4, <2>2 DEF LargeErms, LargeZen4
  <2>5. O \subseteq 0 .. size - 1 /\ LoopFilled("vectors", a, size, Vec) \subseteq O /\ a <= size
        /\ a \in Nat /\ LoopFits("vectors", size, Vec)
    BY <1>1, <2>1, <2>2, <2>3 DEF Block, LoopFilled, LoopFits
  <2>6. (dst + a) % vec = 0
    BY <2>3, <2>4
  <2>7. "vectors" \in FillLoops /\ (vec = Vec \/ vec = YMM_SZ)
    BY <2>1, <2>4 DEF FillLoops
  <2>. QED  BY <1>1, <2>4, <2>5, <2>6, <2>7, LoopEntered
<1>5. CASE LargeAligned
  <2>1. PICK v \in Nat : v = Vec /\ v > 0 /\ 2 * v <= size
    BY <1>1, <1>5, RegSizes DEF LargeAligned
  <2>2. PICK O, a : O = Block(0, v) /\ a = AlignedWithin(1, v)
    OBVIOUS
  <2>3. a \in 1 .. v /\ (dst + a) % v = 0
    BY <1>1, <2>1, <2>2, LoopStart
  <2>4. PICK st \in {"ALIGNED", "STREAM"} : FillAndLoop("aligned", O, a, v, st)
    BY <1>5, <2>1, <2>2 DEF LargeAligned
  <2>5. O \subseteq 0 .. size - 1 /\ LoopFilled("aligned", a, size, Vec) \subseteq O /\ a <= size
        /\ a \in Nat /\ LoopFits("aligned", size, Vec)
    BY <1>1, <2>1, <2>2, <2>3 DEF Block, LoopFilled, LoopFits
  <2>. QED  BY <1>1, <2>1, <2>3, <2>4, <2>5, LoopEntered DEF FillLoops
<1>6. CASE LargeUnaligned /\ ~(size < 4 * Vec \/ (size = 4 * Vec /\ TwoVectorsAreSmall))
  <2>1. PICK v \in Nat : v = Vec /\ v > 0 /\ 4 * v <= size
    BY <1>1, <1>6, RegSizes
  <2>2. PICK O, a : O = Ends(a, size) /\ a = 4 * v
    OBVIOUS
  <2>4. FillAndLoop("between", O, a, v, "UNALIGNED")
    BY <1>6, <2>1, <2>2 DEF LargeUnaligned
  <2>5. O \subseteq 0 .. size - 1 /\ LoopFilled("between", a, size, Vec) \subseteq O /\ a <= size
        /\ a \in Nat /\ LoopFits("between", size, Vec)
    BY <1>1, <2>1, <2>2 DEF Block, Ends, LoopFilled, LoopFits
  <2>. QED  BY <1>1, <2>1, <2>4, <2>5, LoopEntered DEF FillLoops
<1>. QED  BY <1>2, <1>3, <1>4, <1>5, <1>6

\* The loops run, and what follows them.
LEMMA LoopsKeep ==
  ASSUME IInv, val' = val,
         \/ FillIteration("avx2", size - 4 * YMM_SZ)
         \/ FillIteration("avx512", size - 4 * ZMM_SZ)
         \/ FillIteration("vectors", size - 4 * ZMM_SZ)
         \/ FillIteration("between", size - 4 * Vec)
         \/ FillIteration("aligned", size - 4 * Vec + 1)
  PROVE  IInv'
<1>1. PICK n \in Nat, y \in Nat, z \in Nat, v \in Nat :
        n = size /\ y = YMM_SZ /\ z = ZMM_SZ /\ v = Vec
  BY RegSizes DEF IInv, TypeOK
<1>2. pc = "avx2" => v = y
  BY <1>1 DEF IInv, FillLoops, LoopInv, LoopFits
<1>3. pc \in {"avx512", "vectors"} => v = z
  BY <1>1 DEF IInv, FillLoops, LoopInv, LoopFits
<1>4. PICK path \in FillLoops, end \in Int : FillIteration(path, end) /\ end <= n - 4 * v + 1
  <2>1. CASE FillIteration("avx2", size - 4 * YMM_SZ)
    <3>1. PICK end \in Int : end = size - 4 * YMM_SZ
      BY <1>1
    <3>2. pc = "avx2" /\ FillIteration("avx2", end)
      BY <2>1, <3>1 DEF FillIteration
    <3>. QED  BY <1>1, <1>2, <3>1, <3>2 DEF FillLoops
  <2>2. CASE FillIteration("avx512", size - 4 * ZMM_SZ)
    <3>1. PICK end \in Int : end = size - 4 * ZMM_SZ
      BY <1>1
    <3>2. pc = "avx512" /\ FillIteration("avx512", end)
      BY <2>2, <3>1 DEF FillIteration
    <3>. QED  BY <1>1, <1>3, <3>1, <3>2 DEF FillLoops
  <2>3. CASE FillIteration("vectors", size - 4 * ZMM_SZ)
    <3>1. PICK end \in Int : end = size - 4 * ZMM_SZ
      BY <1>1
    <3>2. pc = "vectors" /\ FillIteration("vectors", end)
      BY <2>3, <3>1 DEF FillIteration
    <3>. QED  BY <1>1, <1>3, <3>1, <3>2 DEF FillLoops
  <2>4. CASE FillIteration("between", size - 4 * Vec)
    <3>1. PICK end \in Int : end = size - 4 * Vec
      BY <1>1
    <3>2. FillIteration("between", end)
      BY <2>4, <3>1
    <3>. QED  BY <1>1, <3>1, <3>2 DEF FillLoops
  <2>5. CASE FillIteration("aligned", size - 4 * Vec + 1)
    <3>1. PICK end \in Int : end = size - 4 * Vec + 1
      BY <1>1
    <3>2. FillIteration("aligned", end)
      BY <2>5, <3>1
    <3>. QED  BY <1>1, <3>1, <3>2 DEF FillLoops
  <2>. QED  BY <2>1, <2>2, <2>3, <2>4, <2>5
<1>5. end <= size - 4 * Vec + 1
  BY <1>1, <1>4
<1>. QED  BY <1>4, <1>5, LoopIterates

LEMMA EndsKeep ==
  ASSUME IInv, val' = val,
         \/ FinishAvx2 \/ FinishAvx512 \/ FinishVectors \/ FinishUnaligned \/ FinishLast
  PROVE  IInv'
<1>1. /\ size \in Nat /\ offset \in Nat /\ offset <= size
      /\ YMM_SZ \in Nat /\ YMM_SZ > 0 /\ ZMM_SZ \in Nat /\ ZMM_SZ > 0
      /\ Vec \in Nat /\ Vec > 0
  BY RegSizes DEF IInv, TypeOK
<1>2. ASSUME pc \in FillLoops, NEW D, D = LoopFilled(pc, offset, size, Vec)
      PROVE  Filling(mem, dst, size, D) /\ LoopFits(pc, size, Vec) /\ D \subseteq 0 .. size - 1
  <2>1. Filling(mem, dst, size, D) /\ LoopFits(pc, size, Vec)
    BY <1>2 DEF IInv, LoopInv
  <2>. QED  BY <1>1, <1>2, <2>1 DEF LoopFilled, LoopFits
<1>3. CASE FinishAvx2
  <2>1. pc = "avx2" /\ pc \in FillLoops /\ offset >= size - 4 * YMM_SZ
    BY <1>3 DEF FinishAvx2, LoopOver, FillLoops
  <2>2. PICK D, O : /\ D = LoopFilled("avx2", offset, size, Vec)
                    /\ O = IF size = offset THEN {} ELSE LastVecs(4, YMM_SZ)
    OBVIOUS
  <2>3. Filling(mem, dst, size, D) /\ LoopFits("avx2", size, Vec) /\ D \subseteq 0 .. size - 1
    BY <1>2, <2>1, <2>2
  <2>4. O \subseteq 0 .. size - 1 /\ 0 .. size - 1 \subseteq D \cup O
    BY <1>1, <2>1, <2>2, <2>3 DEF LoopFilled, LoopFits, LastVecs, Block
  <2>5. FillTail(O, "done")
    BY <1>3, <2>2 DEF FinishAvx2
  <2>. QED  BY <2>1, <2>3, <2>4, <2>5, TailFilled
<1>4. CASE FinishAvx512
  <2>1. pc = "avx512" /\ pc \in FillLoops /\ offset >= size - 4 * ZMM_SZ
    BY <1>4 DEF FinishAvx512, LoopOver, FillLoops
  <2>2. PICK D, O : D = LoopFilled("avx512", offset, size, Vec) /\ O = {}
    OBVIOUS
  <2>3. Filling(mem, dst, size, D) /\ LoopFits("avx512", size, Vec) /\ D \subseteq 0 .. size - 1
    BY <1>2, <2>1, <2>2
  <2>4. O \subseteq 0 .. size - 1 /\ 0 .. size - 1 \subseteq D \cup O
    BY <1>1, <2>1, <2>2, <2>3 DEF LoopFilled, LoopFits
  <2>5. FillTail(O, "done")
    BY <1>4, <2>2 DEF FinishAvx512
  <2>. QED  BY <2>1, <2>3, <2>4, <2>5, TailFilled
<1>5. CASE FinishVectors
  <2>1. pc = "vectors" /\ pc \in FillLoops /\ offset >= size - 4 * ZMM_SZ
    BY <1>5 DEF FinishVectors, LoopOver, FillLoops
  <2>2. PICK n \in Nat : n = size - offset /\ n <= 4 * ZMM_SZ
    BY <1>1, <2>1
  <2>3. PICK k : k = rem_vecs(n, ZMM_SZ)
    OBVIOUS
  <2>4. k \in 0 .. 4 /\ n <= k * ZMM_SZ
    BY <2>2, <2>3, Registers, RemVecs
  <2>5. PICK D, O : /\ D = LoopFilled("vectors", offset, size, Vec)
                    /\ O = IF offset = size THEN {} ELSE LastVecs(k, ZMM_SZ)
    OBVIOUS
  <2>6. Filling(mem, dst, size, D) /\ LoopFits("vectors", size, Vec) /\ D \subseteq 0 .. size - 1
    BY <1>2, <2>1, <2>5
  <2>7. PICK w \in Int : w = k * ZMM_SZ /\ w <= 4 * ZMM_SZ /\ w >= n
    BY <1>1, <2>2, <2>4
  <2>8. O \subseteq 0 .. size - 1 /\ 0 .. size - 1 \subseteq D \cup O
    BY <1>1, <2>2, <2>5, <2>6, <2>7 DEF LoopFilled, LoopFits, LastVecs, Block
  <2>9. FillTail(O, "done")
    BY <1>5, <2>2, <2>3, <2>5 DEF FinishVectors
  <2>. QED  BY <2>1, <2>6, <2>8, <2>9, TailFilled
<1>6. CASE FinishUnaligned
  <2>1. pc = "between" /\ pc \in FillLoops /\ offset >= size - 4 * Vec
    BY <1>6 DEF FinishUnaligned, LoopOver, FillLoops
  <2>2. PICK D, O : D = LoopFilled("between", offset, size, Vec) /\ O = {}
    OBVIOUS
  <2>3. Filling(mem, dst, size, D) /\ LoopFits("between", size, Vec) /\ D \subseteq 0 .. size - 1
    BY <1>2, <2>1, <2>2
  <2>4. O \subseteq 0 .. size - 1 /\ 0 .. size - 1 \subseteq D \cup O
    BY <1>1, <2>1, <2>2, <2>3 DEF LoopFilled, LoopFits
  <2>5. FillTail(O, "done")
    BY <1>6, <2>2 DEF FinishUnaligned
  <2>. QED  BY <2>1, <2>3, <2>4, <2>5, TailFilled
<1>7. CASE FinishLast
  <2>1. pc = "last" /\ Vec <= size
    BY <1>7 DEF FinishLast, IInv, EndInv
  <2>2. PICK D, O : D = 0 .. size - Vec - 1 /\ O = LastVecs(1, Vec)
    OBVIOUS
  <2>3. Filling(mem, dst, size, D)
    BY <2>1, <2>2 DEF IInv, EndInv
  <2>4. D \subseteq 0 .. size - 1 /\ O \subseteq 0 .. size - 1 /\ 0 .. size - 1 \subseteq D \cup O
    BY <1>1, <2>1, <2>2 DEF LastVecs, Block
  <2>5. FillTail(O, "done")
    BY <1>7, <2>2 DEF FinishLast
  <2>. QED  BY <2>1, <2>3, <2>4, <2>5, TailFilled
<1>. QED  BY <1>3, <1>4, <1>5, <1>6, <1>7

LEMMA StutterKeeps ==
  ASSUME IInv, UNCHANGED memsetVars
  PROVE  IInv'
<1>1. UNCHANGED vars /\ val' = val
  BY DEF memsetVars
<1>2. Unit' = Unit /\ Vec' = Vec
  BY <1>1 DEF vars, Unit, Vec
<1>3. \A a : MayDiffer(a)' <=> MayDiffer(a)
  BY <1>1, <1>2 DEF vars, copyVars, MayDiffer
<1>4. EndInv'
  BY <1>1, <1>2, <1>3 DEF vars, copyVars, IInv, EndInv, MemsetIsCorrect
<1>. QED
  BY <1>1, <1>2, <1>4
  DEF vars, copyVars, IInv, TypeOK, CallInv, LoopInv, InBounds, NoAlignmentFault

LEMMA Stepwise ==
  ASSUME IInv, [Next]_memsetVars
  PROVE  IInv'
<1>1. ASSUME StepMemset, val' = val  PROVE IInv'
  <2>1. CASE LargeUnaligned
    BY <1>1, <2>1, SmallKeeps, EntryKeeps, Zenon
  <2>2. CASE \/ SmallAvx2 \/ SmallAvx512 \/ SmallErms \/ RepStos \/ SmallZen4 \/ SmallTunable
             \/ RepStosTunable
    BY <1>1, <2>2, SmallKeeps, Zenon
  <2>3. CASE LargeAvx2 \/ LargeAvx512 \/ LargeErms \/ LargeZen4 \/ LargeAligned
    BY <1>1, <2>3, EntryKeeps, Zenon
  <2>. QED
    BY <1>1, <2>1, <2>2, <2>3, LoopsKeep, EndsKeep, AlignedEnds, ChoiceKeeps, Zenon
    DEF StepMemset
<1>. QED
  BY <1>1, CallKeeps, ReturnKeeps, StutterKeeps, Zenon DEF Next, Step

THEOREM MemsetInvariance == Spec => []IInv
<1>1. IInv /\ [Next]_memsetVars => IInv'
  BY Stepwise
<1>. QED  BY <1>1, Initially, PTL DEF Spec

\* memset's state keeps its shape: in particular no offset passes the size.
THEOREM MemsetTyped == Spec => []TypeOK
<1>1. IInv => TypeOK
  BY DEF IInv
<1>. QED  BY <1>1, MemsetInvariance, PTL

\* When memset returns, every byte of the range holds the low byte of val, no byte beside
\* it has been written and the result is mem: for every size, alignment, register size and
\* threshold, and for the variants too, but that rep stos of wide units is right only in
\* the first byte of each where val is no byte.
THEOREM MemsetCorrect == Spec => []MemsetIsCorrect
<1>1. IInv => MemsetIsCorrect
  BY DEF IInv, EndInv
<1>. QED  BY <1>1, MemsetInvariance, PTL

\* No store of memset leaves the range its caller passed.
THEOREM MemsetInBounds == Spec => []InBounds
<1>1. IInv => InBounds
  BY DEF IInv
<1>. QED  BY <1>1, MemsetInvariance, PTL

\* The aligned and the non-temporal stores of memset are made at aligned addresses.
THEOREM MemsetAligned == Spec => []NoAlignmentFault
<1>1. IInv => NoAlignmentFault
  BY DEF IInv
<1>. QED  BY <1>1, MemsetInvariance, PTL

=============================================================================
