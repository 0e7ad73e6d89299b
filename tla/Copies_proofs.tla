----------------------------- MODULE Copies_proofs -----------------------------
(***************************************************************************)
(* The zen1 to zen5 builds' memcpy, mempcpy and memmove, and the variants  *)
(* a user can select, deliver the source as it was at the call and change  *)
(* nothing else, for every size, overlap, alignment, threshold and         *)
(* register size.                                                          *)
(***************************************************************************)
EXTENDS Copies, CopyRoutines_proofs

-----------------------------------------------------------------------------
(***************************************************************************)
(* Memory m part way through a copy of n bytes from s to d: the bytes G    *)
(* are in place, and nothing outside the bytes T has been written.         *)
(***************************************************************************)
Delivering(m, d, s, n, G, T) ==
  /\ d \in Nat /\ s \in Nat /\ n \in Nat
  /\ d + n <= MemSz /\ s + n <= MemSz
  /\ G \subseteq T /\ T \subseteq 0 .. n - 1
  /\ m \in [Addr -> Addr]
  /\ \A i \in G : m[d + i] = s + i
  /\ \A a \in Addr : a - d \notin T => m[a] = a

\* A group whose source bytes have not been written yet.
LEMMA MoveDelivers ==
  ASSUME NEW m, NEW d, NEW s, NEW n, NEW G, NEW T, NEW O, NEW E, NEW U,
         Delivering(m, d, s, n, G, T),
         O \subseteq 0 .. n - 1,
         \A i \in O : (s + i) - d \notin T,
         E \subseteq G \cup O, T \cup O \subseteq U, U \subseteq 0 .. n - 1
  PROVE  Delivering(Transferred(m, d, s, O), d, s, n, E, U)
<1> DEFINE m1 == Transferred(m, d, s, O)
<1>0. /\ MemSz \in Nat /\ d \in Nat /\ s \in Nat /\ n \in Nat
      /\ d + n <= MemSz /\ s + n <= MemSz
      /\ G \subseteq T /\ T \subseteq 0 .. n - 1
      /\ m \in [Addr -> Addr]
      /\ \A i \in G : m[d + i] = s + i
      /\ \A a \in Addr : a - d \notin T => m[a] = a
  BY MemSzAssumption DEF Delivering
<1>1. ASSUME NEW i \in O
      PROVE  s + i \in Addr /\ m[s + i] = s + i
  <2>1. i \in 0 .. n - 1
    OBVIOUS
  <2>2. s + i \in Addr
    BY <1>0, <2>1 DEF Addr
  <2>. QED  BY <1>0, <2>2
<1>2. ASSUME NEW i \in G \cup O
      PROVE  d + i \in Addr /\ (d + i) - d = i /\ i \in Int
  <2>1. i \in 0 .. n - 1
    BY <1>0
  <2>. QED  BY <1>0, <2>1 DEF Addr
<1>3. ASSUME NEW a \in Addr, a - d \in O
      PROVE  m1[a] = s + (a - d) /\ m1[a] \in Addr
  BY <1>0, <1>1, <1>3 DEF Transferred, Addr
<1>4. ASSUME NEW i \in E
      PROVE  m1[d + i] = s + i
  <2>1. CASE i \in O
    BY <1>2, <1>3, <2>1
  <2>2. CASE i \notin O
    BY <1>0, <1>2, <2>2 DEF Transferred
  <2>. QED  BY <2>1, <2>2
<1>5. \A a \in Addr : a - d \notin U => m1[a] = a
  BY <1>0 DEF Transferred
<1>6. m1 \in [Addr -> Addr]
  BY <1>0, <1>3 DEF Transferred
<1>. QED  BY <1>0, <1>4, <1>5, <1>6 DEF Delivering

\* Registers that hold bytes of the source, whatever has become of it by then.
LEMMA KeptDelivers ==
  ASSUME NEW m, NEW d, NEW s, NEW n, NEW G, NEW K,
         Delivering(m, d, s, n, G, 0 .. n - 1), K \subseteq 0 .. n - 1,
         0 .. n - 1 \subseteq G \cup K
  PROVE  Delivering(Stored(m, d, Original(s, K)), d, s, n, 0 .. n - 1, 0 .. n - 1)
<1> DEFINE m1 == Stored(m, d, Original(s, K))
<1>0. /\ MemSz \in Nat /\ d \in Nat /\ s \in Nat /\ n \in Nat
      /\ d + n <= MemSz /\ s + n <= MemSz
      /\ m \in [Addr -> Addr]
      /\ \A i \in G : m[d + i] = s + i
      /\ \A a \in Addr : a - d \notin 0 .. n - 1 => m[a] = a
  BY MemSzAssumption DEF Delivering
<1>1. m1 = [a \in Addr |-> IF a - d \in K THEN s + (a - d) ELSE m[a]]
  BY DEF Stored, Original
<1>. HIDE DEF m1
<1>2. ASSUME NEW i \in 0 .. n - 1
      PROVE  d + i \in Addr /\ (d + i) - d = i /\ s + i \in Addr /\ i \in Int
  BY <1>0 DEF Addr
<1>3. ASSUME NEW i \in 0 .. n - 1
      PROVE  m1[d + i] = s + i
  BY <1>0, <1>1, <1>2
<1>4. \A a \in Addr : a - d \notin 0 .. n - 1 => m1[a] = a
  BY <1>0, <1>1
<1>5. m1 \in [Addr -> Addr]
  BY <1>0, <1>1, <1>2
<1>. QED  BY <1>0, <1>3, <1>4, <1>5 DEF Delivering, m1

LEMMA NothingMoved ==
  ASSUME NEW d \in Nat, NEW s \in Nat, NEW n \in Nat, d + n <= MemSz, s + n <= MemSz
  PROVE  Delivering(Untouched, d, s, n, {}, {})
BY DEF Delivering, Untouched

LEMMA AllMoved ==
  ASSUME NEW m, NEW d, NEW s, NEW n, Delivering(m, d, s, n, 0 .. n - 1, 0 .. n - 1)
  PROVE  m = Moved(d, s, n)
<1>0. /\ MemSz \in Nat /\ d \in Nat /\ s \in Nat /\ n \in Nat
      /\ m \in [Addr -> Addr]
      /\ \A i \in 0 .. n - 1 : m[d + i] = s + i
      /\ \A a \in Addr : a - d \notin 0 .. n - 1 => m[a] = a
  BY MemSzAssumption DEF Delivering
<1>1. ASSUME NEW a \in Addr
      PROVE  m[a] = IF a - d \in 0 .. n - 1 THEN s + (a - d) ELSE a
  <2>1. a \in Int /\ d + (a - d) = a
    BY <1>0 DEF Addr
  <2>. QED  BY <1>0, <2>1
<1>. QED  BY <1>0, <1>1 DEF Moved

-----------------------------------------------------------------------------
(***************************************************************************)
(* The loops.                                                              *)
(***************************************************************************)
Fwds == {"zen4_forward", "zen5_forward", "zen5_forward_large", "avx512_forward",
         "forward", "rep"}
Backs == {"zen4_backward", "zen5_backward", "avx512_backward_aligned", "avx512_backward",
          "backward", "rep_back"}
Reps == {"rep", "rep_back"}
Aparts == {"avx2_l1", "avx2_far", "zen4_disjoint", "avx512_disjoint", "avx512_rest",
           "zen5_vector", "zen5_stream", "between"}
EightVectors == {"avx512_disjoint", "avx512_rest", "zen5_forward_large", "zen5_stream"}
FourVectors ==
  {"zen4_forward", "zen5_forward", "avx512_forward", "forward",
   "zen4_backward", "zen5_backward", "avx512_backward_aligned", "avx512_backward",
   "backward", "zen4_disjoint", "zen5_vector", "between"}

Apart == dst + size <= src \/ src + size <= dst

\* Where the buffers may lie: a loop that runs into bytes it has still to read would
\* destroy them.
Directed(path) ==
  /\ path \in Aparts => Apart
  /\ path \in Fwds => dst <= src \/ src + size <= dst
  /\ path \in Backs => src <= dst

\* The bytes that may have been written when a loop stands at offset o.
Touched(path, o, n) ==
  IF path \in Fwds THEN 0 .. o - 1
  ELSE IF path \in Backs THEN o .. n - 1
  ELSE 0 .. n - 1

\* Those that are in place: the bytes K are kept for the end.
InPlace(path, o, n, K) ==
  IF path \in Aparts
    THEN (0 .. o - 1)
           \cup (IF path \in {"zen4_disjoint", "between"} THEN n - 4 * ZMM_SZ .. n - 1 ELSE {})
    ELSE Touched(path, o, n) \ K

Kept == IF pc \in Reps THEN {} ELSE DOMAIN save

\* Where a loop ends before the buffer does, the rest is kept.
KeepsEnd(path, n, K) ==
  /\ path \in {"avx512_forward", "forward"} => n - 4 * ZMM_SZ .. n - 1 \subseteq K
  /\ path \in {"avx512_backward_aligned", "avx512_backward", "backward"}
       => 0 .. 4 * ZMM_SZ - 1 \subseteq K

\* How much an iteration moves.
Fits(path, n, step, o, unit) ==
  /\ step \in Nat
  /\ path \in {"avx2_l1", "avx2_far"} => 8 * YMM_SZ < n /\ step = 4 * YMM_SZ
  /\ path \in EightVectors => 8 * ZMM_SZ < n /\ step <= 8 * ZMM_SZ
  /\ path \in FourVectors => 8 * ZMM_SZ < n /\ step <= 4 * ZMM_SZ
  /\ path = "avx512_backward_aligned" => o % ZMM_SZ = 0 /\ step = 4 * ZMM_SZ
  /\ path = "avx512_rest" => o = 8 * ZMM_SZ /\ n <= 16 * ZMM_SZ
  /\ path \in Reps => unit \in {1, 2, 4, 8} /\ step = unit /\ o % unit = 0 /\ n % unit = 0

\* A loop l at offset o meets aligned addresses only, in every iteration.
AlignedAt(l, o) ==
  /\ l.vec \in Nat /\ l.vec > 0
  /\ \E k \in Int : l.step = k * l.vec
  /\ l.ld # "UNALIGNED" => (src + o) % l.vec = 0
  /\ l.st # "UNALIGNED" => (dst + o) % l.vec = 0

CallInv ==
  /\ dst + size <= MemSz /\ src + size <= MemSz
  /\ pc = "start" =>
       /\ mem = Untouched /\ offset = 0 /\ save = << >> /\ acc = NoAccess
       /\ Allowed(routine, [dst |-> dst, src |-> src, size |-> size])
       /\ Granted(variant, [dst |-> dst, src |-> src, size |-> size])
  /\ pc # "start" => (variant \notin ErmsVariants => ret = Result)
  /\ pc \in Reps => variant \in ErmsVariants

LoopInv ==
  /\ Directed(pc)
  /\ Fits(pc, size, loop.step, offset, Unit)
  /\ KeepsEnd(pc, size, DOMAIN save)
  /\ AlignedAt(loop, offset)
  /\ Delivering(mem, dst, src, size, InPlace(pc, offset, size, Kept), Touched(pc, offset, size))
  /\ pc \notin Aparts \cup Reps => save = Original(src, DOMAIN save)

EndInv ==
  /\ pc = "kept" => /\ save = Original(src, DOMAIN save)
                    /\ Delivering(mem, dst, src, size, (0 .. size - 1) \ DOMAIN save,
                                  0 .. size - 1)
  /\ pc = "done" => Delivering(mem, dst, src, size, 0 .. size - 1, 0 .. size - 1)

IInv ==
  /\ TypeOK
  /\ CallInv
  /\ pc \in Paths => LoopInv
  /\ EndInv
  /\ InBounds
  /\ NoAlignmentFault

-----------------------------------------------------------------------------
LEMMA Numbers ==
  ASSUME IInv
  PROVE  /\ dst \in Nat /\ src \in Nat /\ size \in Nat /\ offset \in Nat /\ offset <= size
         /\ dst + size <= MemSz /\ src + size <= MemSz
BY DEF IInv, TypeOK, CallInv

LEMMA Weaken ==
  ASSUME NEW m, NEW d, NEW s, NEW n, NEW G, NEW T, NEW E, NEW U,
         Delivering(m, d, s, n, G, T), E \subseteq G, T \subseteq U, U \subseteq 0 .. n - 1
  PROVE  Delivering(m, d, s, n, E, U)
BY DEF Delivering

\* No memory access of a group faults.
LEMMA GroupInvs ==
  ASSUME NEW O, O \subseteq 0 .. size - 1, size' = size, dst' = dst, src' = src,
         acc' = [off |-> O, at |-> 0, kind |-> Unaligned]
  PROVE  InBounds' /\ NoAlignmentFault'
BY DEF InBounds, NoAlignmentFault, Unaligned, Loop

LEMMA Started ==
  ASSUME IInv, pc = "start"
  PROVE  /\ mem = Untouched /\ Delivering(mem, dst, src, size, {}, {})
         /\ offset = 0 /\ save = << >> /\ acc = NoAccess
         /\ Allowed(routine, [dst |-> dst, src |-> src, size |-> size])
         /\ Granted(variant, [dst |-> dst, src |-> src, size |-> size])
BY Numbers, NothingMoved DEF IInv, CallInv

LEMMA ResultIsAddress ==
  ASSUME IInv
  PROVE  Result \in 0 .. MemSz
<1>1. dst \in 0 .. MemSz /\ dst + size \in 0 .. MemSz
  BY Numbers, MemSzAssumption
<1>. QED  BY <1>1 DEF Result

\* A group that is the whole copy.
LEMMA OneGroupKeeps ==
  ASSUME IInv, pc = "start", NEW O, O = 0 .. size - 1, OneGroup(O), UNCHANGED variant
  PROVE  IInv'
<1>0. /\ pc' = "done" /\ loop' = loop /\ offset' = offset /\ variant' = variant
      /\ dst' = dst /\ src' = src /\ size' = size /\ routine' = routine /\ limits' = limits
      /\ save' = save /\ ret' = Result
      /\ mem' = Transferred(mem, dst, src, O)
      /\ acc' = [off |-> O, at |-> 0, kind |-> Unaligned]
  BY DEF OneGroup, MoveAndReturn, Move, Access
<1>1. Delivering(mem', dst, src, size, O, O)
  <2>1. PICK G : G = {}
    OBVIOUS
  <2>2. Delivering(mem, dst, src, size, G, G)
    BY <2>1, Started
  <2>3. Delivering(Transferred(mem, dst, src, O), dst, src, size, O, O)
    BY <2>1, <2>2, MoveDelivers
  <2>. QED  BY <1>0, <2>3
<1>2. mem' \in [Addr -> Addr]
  BY <1>1 DEF Delivering
<1>3. Result \in 0 .. MemSz /\ Result' = Result
  BY <1>0, ResultIsAddress DEF Result
<1>4. TypeOK'
  BY <1>0, <1>2, <1>3 DEF IInv, TypeOK
<1>5. CallInv' /\ EndInv'
  BY <1>0, <1>1, <1>3 DEF IInv, CallInv, EndInv, Reps
<1>6. InBounds' /\ NoAlignmentFault'
  BY <1>0, GroupInvs
<1>. QED  BY <1>0, <1>4, <1>5, <1>6 DEF IInv, Paths

\* A loop between buffers that lie apart, and the group in front of it.
LEMMA EnterKeeps ==
  ASSUME IInv, pc = "start",
         NEW path \in Aparts, NEW O, NEW l, NEW from \in Nat,
         EnterLoop(path, O, l, from), UNCHANGED variant,
         Apart, O \subseteq 0 .. size - 1, InPlace(path, from, size, {}) \subseteq O,
         from <= size, Fits(path, size, l.step, from, Unit), AlignedAt(l, from)
  PROVE  IInv'
<1>0. /\ pc' = path /\ loop' = l /\ offset' = from /\ variant' = variant
      /\ dst' = dst /\ src' = src /\ size' = size /\ routine' = routine /\ limits' = limits
      /\ save' = save /\ ret' = Result
      /\ mem' = Transferred(mem, dst, src, O)
      /\ acc' = [off |-> O, at |-> 0, kind |-> Unaligned]
  BY DEF EnterLoop, Move, Access
<1>1. Delivering(mem', dst, src, size, InPlace(path, from, size, {}), 0 .. size - 1)
  <2>1. PICK G, E, U : G = {} /\ E = InPlace(path, from, size, {}) /\ U = 0 .. size - 1
    OBVIOUS
  <2>2. Delivering(mem, dst, src, size, G, G)
    BY <2>1, Started
  <2>3. Delivering(Transferred(mem, dst, src, O), dst, src, size, E, U)
    BY <2>1, <2>2, MoveDelivers
  <2>. QED  BY <1>0, <2>1, <2>3
<1>2. mem' \in [Addr -> Addr]
  BY <1>1 DEF Delivering
<1>3. Result \in 0 .. MemSz /\ Result' = Result
  BY <1>0, ResultIsAddress DEF Result
<1>p. path \in Paths /\ path \notin Fwds \cup Backs \cup Reps \cup {"start", "kept", "done"}
  BY DEF Aparts, Paths, Fwds, Backs, Reps
<1>4. TypeOK'
  BY <1>0, <1>2, <1>3, <1>p, Numbers DEF IInv, TypeOK
<1>5. CallInv' /\ EndInv'
  BY <1>0, <1>3, <1>p DEF IInv, CallInv, EndInv
<1>6. InBounds' /\ NoAlignmentFault'
  BY <1>0, GroupInvs
<1>7. Directed(path)'
  BY <1>0, <1>p DEF Directed, Apart
<1>8. KeepsEnd(path, size, DOMAIN save)'
  BY <1>p DEF KeepsEnd, Fwds, Backs
<1>9. /\ InPlace(path, from, size, Kept') = InPlace(path, from, size, {})
      /\ Touched(path, from, size) = 0 .. size - 1
  BY <1>p DEF InPlace, Touched
<1>10. LoopInv'
  <2>1. Unit' = Unit
    BY <1>0 DEF Unit
  <2>2. AlignedAt(l, from)'
    BY <1>0 DEF AlignedAt
  <2>3. /\ Directed(pc)' /\ KeepsEnd(pc, size, DOMAIN save)'
        /\ Fits(pc, size, loop.step, offset, Unit)' /\ AlignedAt(loop, offset)'
    BY <1>0, <1>7, <1>8, <2>1, <2>2 DEF Fits, AlignedAt
  <2>4. Delivering(mem, dst, src, size, InPlace(pc, offset, size, Kept),
                   Touched(pc, offset, size))'
    BY <1>0, <1>1, <1>9 DEF InPlace, Touched
  <2>. QED  BY <1>0, <2>3, <2>4 DEF LoopInv
<1>. QED  BY <1>0, <1>4, <1>5, <1>6, <1>10, <1>p DEF IInv

\* A loop of a move that keeps the bytes O for its end.
LEMMA KeepKeeps ==
  ASSUME IInv, pc = "start",
         NEW path \in (Fwds \cup Backs) \ Reps, NEW O, NEW l, NEW from \in Nat,
         KeepAndLoop(path, O, l, from), UNCHANGED variant,
         Directed(path), O \subseteq 0 .. size - 1, Touched(path, from, size) \subseteq O,
         from <= size, KeepsEnd(path, size, O),
         Fits(path, size, l.step, from, Unit), AlignedAt(l, from)
  PROVE  IInv'
<1>0. /\ pc' = path /\ loop' = l /\ offset' = from /\ variant' = variant
      /\ dst' = dst /\ src' = src /\ size' = size /\ routine' = routine /\ limits' = limits
      /\ save' = Load(O) /\ ret' = Result
      /\ mem' = mem
      /\ acc' = [off |-> O, at |-> 0, kind |-> Unaligned]
  BY DEF KeepAndLoop, Access
<1>1. save' = Original(src, O) /\ DOMAIN save' = O
  <2>1. ASSUME NEW i \in O
        PROVE  mem[src + i] = src + i
    <3>1. i \in 0 .. size - 1 /\ MemSz \in Nat
      BY MemSzAssumption
    <3>2. src + i \in Addr
      BY <3>1, Numbers DEF Addr
    <3>. QED  BY <3>2, Started DEF Untouched
  <2>. QED  BY <1>0, <2>1 DEF Load, Original
<1>2. Delivering(mem, dst, src, size, {}, Touched(path, from, size))
  <2>1. PICK G, U : G = {} /\ U = Touched(path, from, size)
    OBVIOUS
  <2>2. Delivering(mem, dst, src, size, G, G) /\ G \subseteq U /\ U \subseteq 0 .. size - 1
    BY <2>1, Started
  <2>3. Delivering(mem, dst, src, size, G, U)
    BY <2>2, Weaken
  <2>. QED  BY <2>1, <2>3
<1>3. Result \in 0 .. MemSz /\ Result' = Result
  BY <1>0, ResultIsAddress DEF Result
<1>p. path \in Paths /\ path \notin Aparts \cup Reps \cup {"start", "kept", "done"}
  BY DEF Aparts, Paths, Fwds, Backs, Reps
<1>4. TypeOK'
  BY <1>0, <1>1, <1>3, <1>p, Numbers DEF IInv, TypeOK
<1>5. CallInv' /\ EndInv'
  BY <1>0, <1>3, <1>p DEF IInv, CallInv, EndInv
<1>6. InBounds' /\ NoAlignmentFault'
  BY <1>0, GroupInvs
<1>7. Directed(path)'
  BY <1>0 DEF Directed, Apart
<1>9. Kept' = O /\ InPlace(path, from, size, O) = {}
  BY <1>0, <1>1, <1>p DEF InPlace, Kept
<1>10. LoopInv'
  <2>1. Unit' = Unit
    BY <1>0 DEF Unit
  <2>2. AlignedAt(l, from)'
    BY <1>0 DEF AlignedAt
  <2>3. /\ Directed(pc)' /\ KeepsEnd(pc, size, DOMAIN save)'
        /\ Fits(pc, size, loop.step, offset, Unit)' /\ AlignedAt(loop, offset)'
    BY <1>0, <1>1, <1>7, <2>1, <2>2 DEF KeepsEnd, Fits, AlignedAt
  <2>4. Delivering(mem, dst, src, size, InPlace(pc, offset, size, Kept),
                   Touched(pc, offset, size))'
    BY <1>0, <1>2, <1>9 DEF InPlace, Touched
  <2>5. (save = Original(src, DOMAIN save))'
    BY <1>0, <1>1 DEF Original
  <2>. QED  BY <2>3, <2>4, <2>5, Zenon DEF LoopInv
<1>. QED  BY <1>0, <1>4, <1>5, <1>6, <1>10, <1>p DEF IInv

-----------------------------------------------------------------------------
\* The source bytes of a group that has not been moved yet are still intact.
LEMMA SourceIntact ==
  ASSUME IInv, pc \in Paths, NEW O, O \subseteq 0 .. size - 1,
         pc \in Aparts \/ O \cap Touched(pc, offset, size) = {}
  PROVE  \A i \in O : (src + i) - dst \notin Touched(pc, offset, size)
<1>0. Directed(pc)
  BY DEF IInv, LoopInv
<1>. SUFFICES ASSUME NEW i \in O
              PROVE  (src + i) - dst \notin Touched(pc, offset, size)
  OBVIOUS
<1>1. i \in 0 .. size - 1
  OBVIOUS
<1>2. CASE pc \in Aparts
  <2>1. Apart /\ Touched(pc, offset, size) = 0 .. size - 1
    BY <1>0, <1>2 DEF Directed, Touched, Aparts, Fwds, Backs
  <2>. QED  BY <1>1, <2>1, Numbers DEF Apart
<1>3. CASE pc \in Fwds
  <2>1. /\ dst <= src \/ src + size <= dst
        /\ Touched(pc, offset, size) = 0 .. offset - 1
    BY <1>0, <1>3 DEF Directed, Touched
  <2>2. pc \notin Aparts
    BY <1>3 DEF Aparts, Fwds
  <2>3. i \notin 0 .. offset - 1
    BY <2>1, <2>2
  <2>. QED  BY <1>1, <2>1, <2>3, Numbers
<1>4. CASE pc \in Backs
  <2>1. src <= dst /\ Touched(pc, offset, size) = offset .. size - 1
    BY <1>0, <1>4 DEF Directed, Touched, Fwds, Backs
  <2>2. pc \notin Aparts
    BY <1>4 DEF Aparts, Backs
  <2>3. i \notin offset .. size - 1
    BY <2>1, <2>2
  <2>. QED  BY <1>1, <2>1, <2>3, Numbers
<1>. QED  BY <1>2, <1>3, <1>4 DEF Paths, Aparts, Fwds, Backs

\* What stays as it is while a loop runs.
LEMMA LoopKeepsCall ==
  ASSUME IInv, pc \in Paths, UNCHANGED <<callVars, variant>>, pc' # "start",
         pc' \in Reps => pc' = pc
  PROVE  /\ CallInv'
         /\ Result' = Result /\ Unit' = Unit
<1>1. Result' = Result /\ Unit' = Unit
  BY DEF callVars, Result, Unit
<1>2. pc # "start"
  BY DEF Paths
<1>. QED  BY <1>1, <1>2 DEF IInv, CallInv, callVars

\* One iteration upwards.
LEMMA ForwardKeeps ==
  ASSUME IInv, NEW path \in (Fwds \cup Aparts) \ {"avx512_rest"}, NEW end,
         IterateForward(path, end), UNCHANGED variant,
         offset + loop.step <= size
  PROVE  IInv'
<1> DEFINE next == offset + loop.step
           O == offset .. next - 1
<1>0. /\ pc = path /\ pc' = path /\ loop' = loop /\ save' = save /\ offset' = next
      /\ UNCHANGED <<callVars, variant>>
      /\ mem' = Transferred(mem, dst, src, O)
      /\ acc' = [off |-> O, at |-> offset, kind |-> loop]
  <2>1. Block(offset, loop.step) = O
    <3>1. pc \in Paths
      BY DEF IterateForward, Aparts, Paths, Fwds
    <3>2. loop.step \in Nat
      BY <3>1 DEF IInv, LoopInv, Fits
    <3>. QED  BY <3>2, Numbers DEF Block
  <2>2. /\ mem' = Transferred(mem, dst, src, Block(offset, loop.step))
        /\ acc' = [off |-> Block(offset, loop.step), at |-> offset, kind |-> loop]
        /\ offset' = next
    BY Zenon DEF IterateForward, Forward, Move, Access
  <2>3. /\ pc = path /\ pc' = path /\ loop' = loop /\ save' = save
        /\ UNCHANGED <<callVars, variant>>
    BY DEF IterateForward, callVars
  <2>. QED  BY <2>1, <2>2, <2>3, Zenon
<1>u. dst' = dst /\ src' = src /\ size' = size /\ ret' = ret /\ routine' = routine
      /\ limits' = limits /\ variant' = variant
  BY <1>0 DEF callVars
<1>p. path \in Paths /\ path \notin Backs \cup {"start", "kept", "done"}
  BY DEF Aparts, Paths, Fwds, Backs
<1>1. LoopInv
  BY <1>0, <1>p DEF IInv
<1>2. loop.step \in Nat /\ next \in Nat /\ offset \in Nat /\ size \in Nat
      /\ offset <= next /\ next <= size
  BY <1>1, Numbers DEF LoopInv, Fits
<1>. HIDE DEF next
<1>3. O \subseteq 0 .. size - 1
  BY <1>2
<1>4. \A i \in O : (src + i) - dst \notin Touched(pc, offset, size)
  <2>1. pc \in Aparts \/ O \cap Touched(pc, offset, size) = {}
    BY <1>0, <1>2 DEF Touched
  <2>. QED  BY <1>0, <1>3, <1>p, <2>1, SourceIntact
<1>5. /\ InPlace(pc, next, size, Kept) \subseteq InPlace(pc, offset, size, Kept) \cup O
      /\ Touched(pc, offset, size) \cup O \subseteq Touched(pc, next, size)
      /\ Touched(pc, next, size) \subseteq 0 .. size - 1
  <2>1. 0 .. next - 1 \subseteq (0 .. offset - 1) \cup O
    BY <1>2
  <2>2. (0 .. offset - 1) \cup O \subseteq 0 .. next - 1
    BY <1>2
  <2>3. 0 .. next - 1 \subseteq 0 .. size - 1
    BY <1>2
  <2>. QED  BY <1>0, <1>3, <1>p, <2>1, <2>2, <2>3 DEF InPlace, Touched
<1>6. Delivering(mem', dst, src, size, InPlace(pc, next, size, Kept), Touched(pc, next, size))
  <2>1. PICK G, T, E, U : /\ G = InPlace(pc, offset, size, Kept)
                          /\ T = Touched(pc, offset, size)
                          /\ E = InPlace(pc, next, size, Kept)
                          /\ U = Touched(pc, next, size)
    OBVIOUS
  <2>2. Delivering(mem, dst, src, size, G, T)
    BY <1>1, <2>1 DEF LoopInv
  <2>3. Delivering(Transferred(mem, dst, src, O), dst, src, size, E, U)
    BY <1>3, <1>4, <1>5, <2>1, <2>2, MoveDelivers
  <2>. QED  BY <1>0, <2>1, <2>3
<1>7. mem' \in [Addr -> Addr]
  BY <1>6 DEF Delivering
<1>8. TypeOK'
  BY <1>0, <1>2, <1>7, <1>p, <1>u DEF IInv, TypeOK
<1>9. CallInv' /\ EndInv' /\ Unit' = Unit
  BY <1>0, <1>p, LoopKeepsCall DEF EndInv
<1>10. AlignedAt(loop, next)
  <2>1. /\ loop.vec \in Nat /\ loop.vec > 0
        /\ loop.ld # "UNALIGNED" => (src + offset) % loop.vec = 0
        /\ loop.st # "UNALIGNED" => (dst + offset) % loop.vec = 0
    BY <1>1 DEF LoopInv, AlignedAt
  <2>2. PICK k \in Int : loop.step = k * loop.vec
    BY <1>1 DEF LoopInv, AlignedAt
  <2>3. PICK v \in Nat : v = loop.vec
    BY <2>1
  <2>4. ASSUME NEW a \in Nat, (a + offset) % v = 0
        PROVE  (a + next) % v = 0
    <3>0. loop.step = k * v /\ next = offset + loop.step
      BY <2>2, <2>3 DEF next
    <3>1. PICK x \in Int, y \in Int : x = a + offset /\ y = a + next /\ y = x + k * v
      <4>1. PICK x \in Int, y \in Int : x = a + offset /\ y = a + next /\ y = x + loop.step
        BY <1>2, <3>0
      <4>. QED  BY <3>0, <4>1
    <3>2. x % v = 0 /\ v > 0
      BY <2>1, <2>3, <2>4, <3>1
    <3>3. y % v = 0
      BY ONLY <3>1, <3>2, AlignedStep, k \in Int, v \in Nat, x \in Int, y \in Int, SMTT(30)
    <3>. QED  BY <3>1, <3>3
  <2>. QED  BY <2>1, <2>2, <2>3, <2>4, Numbers DEF AlignedAt
<1>11. Fits(pc, size, loop.step, next, Unit)
  <2>1. Fits(pc, size, loop.step, offset, Unit)
    BY <1>1 DEF LoopInv
  <2>2. CASE pc \in Reps
    <3>1. PICK u \in {1, 2, 4, 8} : u = Unit
      BY <2>1, <2>2 DEF Fits
    <3>2. loop.step = u /\ offset % u = 0 /\ size % u = 0
      BY <2>1, <2>2, <3>1 DEF Fits
    <3>3. next % u = 0
      BY <1>2, <3>2 DEF next
    <3>. QED  BY <2>1, <2>2, <3>1, <3>3 DEF Fits, Reps, EightVectors, FourVectors
  <2>3. CASE pc \notin Reps
    BY <1>0, <1>p, <2>1, <2>3 DEF Fits, Backs
  <2>. QED  BY <2>2, <2>3
<1>12. InBounds' /\ NoAlignmentFault'
  BY <1>0, <1>1, <1>3, <1>u DEF InBounds, NoAlignmentFault, LoopInv, AlignedAt
<1>13. LoopInv'
  <2>1. Directed(pc)'
    <3>1. Directed(path)
      BY <1>0, <1>1 DEF LoopInv
    <3>. QED  BY <1>0, <1>u, <3>1 DEF Directed, Apart
  <2>2. AlignedAt(loop, offset)'
    BY <1>0, <1>10, <1>u DEF AlignedAt
  <2>3. Kept' = Kept /\ KeepsEnd(pc, size, DOMAIN save)'
    BY <1>0, <1>1, <1>u DEF LoopInv, Kept, KeepsEnd
  <2>4. Fits(pc, size, loop.step, offset, Unit)'
    BY <1>0, <1>9, <1>11, <1>u, Zenon DEF Fits
  <2>5. Delivering(mem, dst, src, size, InPlace(pc, offset, size, Kept),
                   Touched(pc, offset, size))'
    <3>1. /\ InPlace(pc, offset, size, Kept)' = InPlace(pc, next, size, Kept)
          /\ Touched(pc, offset, size)' = Touched(pc, next, size)
      BY <1>0, <1>u, <2>3, Zenon DEF InPlace, Touched
    <3>. QED  BY <1>6, <1>u, <3>1, Zenon DEF Delivering
  <2>6. (pc \notin Aparts \cup Reps => save = Original(src, DOMAIN save))'
    BY <1>0, <1>1, <1>u, Zenon DEF LoopInv, Original
  <2>. QED  BY <2>1, <2>2, <2>3, <2>4, <2>5, <2>6, Zenon DEF LoopInv
<1>. QED  BY <1>8, <1>9, <1>12, <1>13 DEF IInv

\* One iteration downwards.
LEMMA BackwardKeeps ==
  ASSUME IInv, NEW path \in Backs, NEW start,
         IterateBackward(path, start), UNCHANGED variant,
         loop.step <= offset
  PROVE  IInv'
<1> DEFINE next == offset - loop.step
           O == next .. offset - 1
<1>0. /\ pc = path /\ pc' = path /\ loop' = loop /\ save' = save /\ offset' = next
      /\ UNCHANGED <<callVars, variant>>
      /\ mem' = Transferred(mem, dst, src, O)
      /\ acc' = [off |-> O, at |-> next, kind |-> loop]
  <2>1. Block(offset - loop.step, loop.step) = O
    <3>1. pc \in Paths
      BY DEF IterateBackward, Backs, Paths
    <3>2. loop.step \in Nat
      BY <3>1 DEF IInv, LoopInv, Fits
    <3>. QED  BY <3>2, Numbers DEF Block
  <2>2. /\ mem' = Transferred(mem, dst, src, Block(offset - loop.step, loop.step))
        /\ acc' = [off |-> Block(offset - loop.step, loop.step), at |-> next, kind |-> loop]
        /\ offset' = next
    BY Zenon DEF IterateBackward, Backward, Move, Access
  <2>3. /\ pc = path /\ pc' = path /\ loop' = loop /\ save' = save
        /\ UNCHANGED <<callVars, variant>>
    BY DEF IterateBackward, callVars
  <2>. QED  BY <2>1, <2>2, <2>3, Zenon
<1>u. dst' = dst /\ src' = src /\ size' = size /\ ret' = ret /\ routine' = routine
      /\ limits' = limits /\ variant' = variant
  BY <1>0 DEF callVars
<1>p. path \in Paths /\ path \notin Fwds \cup Aparts \cup {"start", "kept", "done"}
  BY DEF Aparts, Paths, Fwds, Backs
<1>1. LoopInv
  BY <1>0, <1>p DEF IInv
<1>2. loop.step \in Nat /\ next \in Nat /\ offset \in Nat /\ size \in Nat
      /\ next <= offset /\ offset <= size
  BY <1>1, Numbers DEF LoopInv, Fits
<1>. HIDE DEF next
<1>3. O \subseteq 0 .. size - 1
  BY <1>2
<1>4. \A i \in O : (src + i) - dst \notin Touched(pc, offset, size)
  <2>1. O \cap Touched(pc, offset, size) = {}
    BY <1>0, <1>2, <1>p DEF Touched
  <2>. QED  BY <1>0, <1>3, <1>p, <2>1, SourceIntact
<1>5. /\ InPlace(pc, next, size, Kept) \subseteq InPlace(pc, offset, size, Kept) \cup O
      /\ Touched(pc, offset, size) \cup O \subseteq Touched(pc, next, size)
      /\ Touched(pc, next, size) \subseteq 0 .. size - 1
  <2>1. next .. size - 1 \subseteq (offset .. size - 1) \cup O
    BY <1>2
  <2>2. (offset .. size - 1) \cup O \subseteq next .. size - 1
    BY <1>2
  <2>3. next .. size - 1 \subseteq 0 .. size - 1
    BY <1>2
  <2>. QED  BY <1>0, <1>3, <1>p, <2>1, <2>2, <2>3 DEF InPlace, Touched
<1>6. Delivering(mem', dst, src, size, InPlace(pc, next, size, Kept), Touched(pc, next, size))
  <2>1. PICK G, T, E, U : /\ G = InPlace(pc, offset, size, Kept)
                          /\ T = Touched(pc, offset, size)
                          /\ E = InPlace(pc, next, size, Kept)
                          /\ U = Touched(pc, next, size)
    OBVIOUS
  <2>2. Delivering(mem, dst, src, size, G, T)
    BY <1>1, <2>1 DEF LoopInv
  <2>3. Delivering(Transferred(mem, dst, src, O), dst, src, size, E, U)
    BY <1>3, <1>4, <1>5, <2>1, <2>2, MoveDelivers
  <2>. QED  BY <1>0, <2>1, <2>3
<1>7. mem' \in [Addr -> Addr]
  BY <1>6 DEF Delivering
<1>8. TypeOK'
  BY <1>0, <1>2, <1>7, <1>p, <1>u DEF IInv, TypeOK
<1>9. CallInv' /\ EndInv' /\ Unit' = Unit
  BY <1>0, <1>p, LoopKeepsCall DEF EndInv
<1>10. AlignedAt(loop, next)
  <2>1. /\ loop.vec \in Nat /\ loop.vec > 0
        /\ loop.ld # "UNALIGNED" => (src + offset) % loop.vec = 0
        /\ loop.st # "UNALIGNED" => (dst + offset) % loop.vec = 0
    BY <1>1 DEF LoopInv, AlignedAt
  <2>2. PICK j \in Int : loop.step = j * loop.vec
    BY <1>1 DEF LoopInv, AlignedAt
  <2>3. PICK v \in Nat, k \in Int : v = loop.vec /\ k = -j
    BY <2>1
  <2>4. ASSUME NEW a \in Nat, (a + offset) % v = 0
        PROVE  (a + next) % v = 0
    <3>0. -loop.step = k * v /\ next = offset - loop.step
      BY <2>2, <2>3 DEF next
    <3>1. PICK x \in Int, y \in Int : x = a + offset /\ y = a + next /\ y = x + k * v
      <4>1. PICK x \in Int, y \in Int :
              x = a + offset /\ y = a + next /\ y = x + (-loop.step)
        BY <1>2, <3>0
      <4>. QED  BY <3>0, <4>1
    <3>2. x % v = 0 /\ v > 0
      BY <2>1, <2>3, <2>4, <3>1
    <3>3. y % v = 0
      BY ONLY <3>1, <3>2, AlignedStep, k \in Int, v \in Nat, x \in Int, y \in Int, SMTT(30)
    <3>. QED  BY <3>1, <3>3
  <2>. QED  BY <2>1, <2>2, <2>3, <2>4, Numbers DEF AlignedAt
<1>11. Fits(pc, size, loop.step, next, Unit)
  <2>1. Fits(pc, size, loop.step, offset, Unit)
    BY <1>1 DEF LoopInv
  <2>2. CASE pc \in Reps
    <3>1. PICK u \in {1, 2, 4, 8} : u = Unit
      BY <2>1, <2>2 DEF Fits
    <3>2. loop.step = u /\ offset % u = 0 /\ size % u = 0
      BY <2>1, <2>2, <3>1 DEF Fits
    <3>3. next % u = 0
      BY <1>2, <3>2 DEF next
    <3>. QED  BY <2>1, <2>2, <3>1, <3>3 DEF Fits, Reps, EightVectors, FourVectors
  <2>3. CASE pc = "avx512_backward_aligned"
    <3>1. offset % ZMM_SZ = 0 /\ loop.step = 4 * ZMM_SZ
      BY <2>1, <2>3 DEF Fits
    <3>2. PICK x \in Int, y \in Int, k \in Int, v \in Nat :
            x = offset /\ y = next /\ k = -4 /\ v = ZMM_SZ /\ y = x + k * v
      <4>1. PICK k \in Int, v \in Nat : k = -4 /\ v = ZMM_SZ /\ -loop.step = k * v
        BY <1>2, <3>1, Registers
      <4>2. PICK x \in Int, y \in Int : x = offset /\ y = next /\ y = x + (-loop.step)
        BY <1>2 DEF next
      <4>. QED  BY <4>1, <4>2
    <3>3. x % v = 0 /\ v > 0 /\ y = x + k * v
      BY <3>1, <3>2, Registers
    <3>4. y % v = 0
      BY ONLY <3>3, AlignedStep, k \in Int, v \in Nat, x \in Int, y \in Int, SMTT(30)
    <3>5. next % ZMM_SZ = 0
      BY <3>2, <3>4
    <3>. QED  BY <2>1, <2>3, <3>5 DEF Fits, Reps
  <2>4. CASE pc \notin Reps \cup {"avx512_backward_aligned"}
    BY <1>0, <1>p, <2>1, <2>4 DEF Fits, Aparts
  <2>. QED  BY <2>2, <2>3, <2>4
<1>12. InBounds' /\ NoAlignmentFault'
  BY <1>0, <1>3, <1>10, <1>u DEF InBounds, NoAlignmentFault, AlignedAt
<1>13. LoopInv'
  <2>1. Directed(pc)'
    <3>1. Directed(path)
      BY <1>0, <1>1 DEF LoopInv
    <3>. QED  BY <1>0, <1>u, <3>1 DEF Directed, Apart
  <2>2. AlignedAt(loop, offset)'
    BY <1>0, <1>10, <1>u DEF AlignedAt
  <2>3. Kept' = Kept /\ KeepsEnd(pc, size, DOMAIN save)'
    BY <1>0, <1>1, <1>u DEF LoopInv, Kept, KeepsEnd
  <2>4. Fits(pc, size, loop.step, offset, Unit)'
    BY <1>0, <1>9, <1>11, <1>u, Zenon DEF Fits
  <2>5. Delivering(mem, dst, src, size, InPlace(pc, offset, size, Kept),
                   Touched(pc, offset, size))'
    <3>1. /\ InPlace(pc, offset, size, Kept)' = InPlace(pc, next, size, Kept)
          /\ Touched(pc, offset, size)' = Touched(pc, next, size)
      BY <1>0, <1>u, <2>3, Zenon DEF InPlace, Touched
    <3>. QED  BY <1>6, <1>u, <3>1, Zenon DEF Delivering
  <2>6. (pc \notin Aparts \cup Reps => save = Original(src, DOMAIN save))'
    BY <1>0, <1>1, <1>u, Zenon DEF LoopInv, Original
  <2>. QED  BY <2>1, <2>2, <2>3, <2>4, <2>5, <2>6, Zenon DEF LoopInv
<1>. QED  BY <1>8, <1>9, <1>12, <1>13 DEF IInv

-----------------------------------------------------------------------------
(***************************************************************************)
(* What follows a loop.                                                    *)
(***************************************************************************)

\* One more group, which with what is in place makes up E.
LEMMA TailDelivers ==
  ASSUME IInv, pc \in Paths, NEW O, NEW E, NEW next, AfterLoop(O, next),
         O \subseteq 0 .. size - 1,
         pc \in Aparts \/ O \cap Touched(pc, offset, size) = {},
         E \subseteq InPlace(pc, offset, size, Kept) \cup O
  PROVE  Delivering(mem', dst, src, size, E, 0 .. size - 1)
<1>1. mem' = Transferred(mem, dst, src, O)
  BY DEF AfterLoop, Move
<1>2. \A i \in O : (src + i) - dst \notin Touched(pc, offset, size)
  BY SourceIntact
<1>3. PICK G, T, U : /\ G = InPlace(pc, offset, size, Kept)
                     /\ T = Touched(pc, offset, size)
                     /\ U = 0 .. size - 1
  OBVIOUS
<1>4. Delivering(mem, dst, src, size, G, T)
  BY <1>3 DEF IInv, LoopInv
<1>5. T \subseteq U
  BY <1>3, <1>4 DEF Delivering
<1>6. Delivering(Transferred(mem, dst, src, O), dst, src, size, E, U)
  BY <1>2, <1>3, <1>4, <1>5, MoveDelivers
<1>. QED  BY <1>1, <1>3, <1>6

LEMMA TailKeeps ==
  ASSUME IInv, pc \in Paths, NEW O, NEW next, AfterLoop(O, next), UNCHANGED variant,
         O \subseteq 0 .. size - 1,
         pc \in Aparts \/ O \cap Touched(pc, offset, size) = {},
         \/ next = "done" /\ 0 .. size - 1 \subseteq InPlace(pc, offset, size, Kept) \cup O
         \/ /\ next = "kept" /\ pc \notin Aparts \cup Reps
            /\ (0 .. size - 1) \ DOMAIN save \subseteq InPlace(pc, offset, size, Kept) \cup O
  PROVE  IInv'
<1>0. /\ pc' = next /\ loop' = loop /\ save' = save /\ offset' = offset
      /\ dst' = dst /\ src' = src /\ size' = size /\ ret' = ret /\ routine' = routine
      /\ limits' = limits /\ variant' = variant
      /\ UNCHANGED <<callVars, variant>>
      /\ acc' = [off |-> O, at |-> 0, kind |-> Unaligned]
  BY DEF AfterLoop, Move, Access, callVars
<1>1. PICK E : /\ E \subseteq InPlace(pc, offset, size, Kept) \cup O
               /\ next = "done" => E = 0 .. size - 1
               /\ next = "kept" => E = (0 .. size - 1) \ DOMAIN save
  <2>1. CASE next = "done"
    BY <2>1
  <2>2. CASE next = "kept"
    BY <2>2
  <2>. QED  BY <2>1, <2>2
<1>2. Delivering(mem', dst, src, size, E, 0 .. size - 1)
  BY <1>1, TailDelivers
<1>3. mem' \in [Addr -> Addr]
  BY <1>2 DEF Delivering
<1>4. TypeOK'
  BY <1>0, <1>3 DEF IInv, TypeOK
<1>5. pc' \notin Paths \cup Reps /\ pc' # "start"
  BY <1>0 DEF Paths, Reps
<1>6. CallInv'
  BY <1>0, <1>5, LoopKeepsCall
<1>7. EndInv'
  <2>1. next = "kept" => save = Original(src, DOMAIN save)
    BY DEF IInv, LoopInv
  <2>2. pc' = "kept" => (save = Original(src, DOMAIN save))'
    BY <1>0, <2>1, Zenon DEF Original
  <2>3. pc' = "kept" => Delivering(mem', dst, src, size, (0 .. size - 1) \ DOMAIN save,
                                   0 .. size - 1)
    BY <1>0, <1>1, <1>2, Zenon
  <2>4. pc' = "done" => Delivering(mem', dst, src, size, 0 .. size - 1, 0 .. size - 1)
    BY <1>0, <1>1, <1>2, Zenon
  <2>. QED  BY <1>0, <2>2, <2>3, <2>4 DEF EndInv
<1>8. InBounds' /\ NoAlignmentFault'
  BY <1>0, GroupInvs
<1>. QED  BY <1>4, <1>5, <1>6, <1>7, <1>8 DEF IInv

LEMMA StoreKeeps ==
  ASSUME IInv, StoreKept, UNCHANGED variant
  PROVE  IInv'
<1> DEFINE K == DOMAIN save
<1>0. /\ pc = "kept" /\ pc' = "done" /\ loop' = loop /\ save' = save /\ offset' = offset
      /\ dst' = dst /\ src' = src /\ size' = size /\ ret' = ret /\ routine' = routine
      /\ limits' = limits /\ variant' = variant
      /\ mem' = Stored(mem, dst, save)
      /\ acc' = [off |-> K, at |-> 0, kind |-> Unaligned]
  BY DEF StoreKept, Access, callVars
<1>1. K \subseteq 0 .. size - 1
  BY DEF IInv, TypeOK
<1>2. Delivering(mem', dst, src, size, 0 .. size - 1, 0 .. size - 1)
  <2>1. PICK G, L : G = (0 .. size - 1) \ K /\ L = K
    OBVIOUS
  <2>2. Delivering(mem, dst, src, size, G, 0 .. size - 1) /\ save = Original(src, L)
    BY <1>0, <2>1 DEF IInv, EndInv
  <2>3. Delivering(Stored(mem, dst, Original(src, L)), dst, src, size,
                   0 .. size - 1, 0 .. size - 1)
    BY <1>1, <2>1, <2>2, KeptDelivers
  <2>. QED  BY <1>0, <2>2, <2>3
<1>3. mem' \in [Addr -> Addr]
  BY <1>2 DEF Delivering
<1>4. TypeOK'
  BY <1>0, <1>3 DEF IInv, TypeOK
<1>5. CallInv'
  <2>1. Result' = Result
    BY <1>0 DEF Result
  <2>. QED  BY <1>0, <2>1 DEF IInv, CallInv, Reps
<1>6. EndInv'
  BY <1>0, <1>2 DEF EndInv
<1>7. InBounds' /\ NoAlignmentFault'
  BY <1>0, <1>1, GroupInvs
<1>. QED  BY <1>0, <1>4, <1>5, <1>6, <1>7 DEF IInv, Paths

-----------------------------------------------------------------------------
(***************************************************************************)
(* Copies of one group.                                                    *)
(***************************************************************************)
LEMMA CallApart ==
  ASSUME IInv, pc = "start", routine \notin Memmoves \/ Disjoint
  PROVE  Apart
BY Started, Numbers DEF Allowed, Disjoint, Apart

LEMMA SmallAvx2Keeps ==
  ASSUME IInv, SmallAvx2, UNCHANGED variant
  PROVE  IInv'
<1> DEFINE O == IF size < YMM_SZ THEN NarrowEnds(size)
                ELSE IF size <= 2 * YMM_SZ THEN Ends(YMM_SZ, size)
                ELSE IF size <= 4 * YMM_SZ THEN Ends(2 * YMM_SZ, size)
                ELSE Ends(4 * YMM_SZ, size)
<1>1. pc = "start" /\ size <= 8 * YMM_SZ /\ OneGroup(O)
  BY DEF SmallAvx2, Called
<1>2. PICK n \in Nat : n = size
  BY Numbers
<1>3. O = 0 .. size - 1
  <2>1. CASE n < YMM_SZ
    BY <1>2, <2>1, NarrowCover, Registers
  <2>2. CASE ~(n < YMM_SZ)
    BY <1>1, <1>2, <2>2, EndsCover, Registers
  <2>. QED  BY <2>1, <2>2
<1>. HIDE DEF O
<1>. QED  BY <1>1, <1>3, OneGroupKeeps

LEMMA ZmmGroupKeeps ==
  ASSUME IInv, pc = "start", size <= 8 * ZMM_SZ, UNCHANGED variant,
         NEW O, OneGroup(O),
         \/ ZMM_SZ <= size /\ O = ZmmEnds(size)
         \/ size < ZMM_SZ /\ O \in {NarrowEnds(size), Block(0, size)}
  PROVE  IInv'
<1>1. PICK n \in Nat : n = size
  BY Numbers
<1>2. O = 0 .. size - 1
  <2>1. CASE ZMM_SZ <= n
    BY <1>1, <2>1, ZmmCover, Registers
  <2>2. CASE n < ZMM_SZ
    <3>1. Block(0, n) = 0 .. n - 1
      BY DEF Block
    <3>2. NarrowEnds(n) = 0 .. n - 1
      BY <2>2, NarrowCover
    <3>3. ~(ZMM_SZ <= n)
      BY <2>2, Registers
    <3>. QED  BY <1>1, <3>1, <3>2, <3>3
  <2>. QED  BY <2>1, <2>2, Registers
<1>. QED  BY <1>2, OneGroupKeeps

LEMMA SmallZen4Keeps ==
  ASSUME IInv, SmallZen4 \/ SmallErms, UNCHANGED variant
  PROVE  IInv'
<1> DEFINE O == IF size >= ZMM_SZ THEN ZmmEnds(size)
                ELSE IF routine \in Memmoves THEN NarrowEnds(size)
                ELSE Block(0, size)
<1>1. pc = "start" /\ size <= 8 * ZMM_SZ /\ OneGroup(O)
  BY DEF SmallZen4, SmallErms, Called
<1>2. \/ ZMM_SZ <= size /\ O = ZmmEnds(size)
      \/ size < ZMM_SZ /\ O \in {NarrowEnds(size), Block(0, size)}
  BY Numbers, Registers
<1>. HIDE DEF O
<1>. QED  BY <1>1, <1>2, ZmmGroupKeeps

LEMMA SmallTunableKeeps ==
  ASSUME IInv, SmallTunable
  PROVE  IInv'
<1> DEFINE O == IF size < ZMM_SZ THEN NarrowEnds(size) ELSE ZmmEnds(size)
<1>1. pc = "start" /\ size <= 8 * ZMM_SZ /\ OneGroup(O) /\ UNCHANGED variant
  BY DEF SmallTunable, CalledVector, Called
<1>2. \/ ZMM_SZ <= size /\ O = ZmmEnds(size)
      \/ size < ZMM_SZ /\ O \in {NarrowEnds(size), Block(0, size)}
  BY Numbers, Registers
<1>. HIDE DEF O
<1>. QED  BY <1>1, <1>2, ZmmGroupKeeps

LEMMA SmallAvx512Keeps ==
  ASSUME IInv, SmallAvx512, UNCHANGED variant
  PROVE  IInv'
<1> DEFINE Quarters == Ends(2 * ZMM_SZ, size)
                         \cup Shift(Ends(2 * ZMM_SZ, size - 4 * ZMM_SZ), 2 * ZMM_SZ)
           O == IF size >= ZMM_SZ
                  THEN IF size <= 4 * ZMM_SZ \/ routine \in Memmoves THEN ZmmEnds(size)
                       ELSE Quarters
                  ELSE IF routine \in Memmoves THEN NarrowEnds(size)
                  ELSE Block(0, size)
<1>1. pc = "start" /\ size <= 8 * ZMM_SZ /\ OneGroup(O)
  BY DEF SmallAvx512, Called
<1>2. CASE size > 4 * ZMM_SZ /\ routine \notin Memmoves
  <2>1. PICK z \in Nat, n \in Nat : z = ZMM_SZ /\ n = size
    BY Numbers, Registers
  <2>2. Shift(Ends(2 * z, n - 4 * z), 2 * z)
          = (2 * z .. 4 * z - 1) \cup (n - 4 * z .. n - 2 * z - 1)
    <3>1. Ends(2 * z, n - 4 * z) = (0 .. 2 * z - 1) \cup (n - 6 * z .. n - 4 * z - 1)
      BY DEF Ends, Block
    <3>2. ASSUME NEW i \in (2 * z .. 4 * z - 1) \cup (n - 4 * z .. n - 2 * z - 1)
          PROVE  i \in Shift(Ends(2 * z, n - 4 * z), 2 * z)
      <4>1. PICK o \in Int : o = i - 2 * z
        OBVIOUS
      <4>2. o \in Ends(2 * z, n - 4 * z) /\ i = o + 2 * z
        BY <3>1, <4>1
      <4>. QED  BY <4>2 DEF Shift
    <3>. QED  BY <3>1, <3>2 DEF Shift
  <2>3. Ends(2 * z, n) = (0 .. 2 * z - 1) \cup (n - 2 * z .. n - 1)
    BY DEF Ends, Block
  <2>4. n > 4 * z /\ n <= 8 * z
    BY <1>1, <1>2, <2>1
  <2>5. (0 .. 2 * z - 1) \cup (n - 2 * z .. n - 1)
           \cup ((2 * z .. 4 * z - 1) \cup (n - 4 * z .. n - 2 * z - 1)) = 0 .. n - 1
    BY <2>4
  <2>6. Quarters = 0 .. size - 1
    BY <2>1, <2>2, <2>3, <2>5
  <2>7. O = Quarters
    BY <1>2, Numbers, Registers
  <2>. HIDE DEF O, Quarters
  <2>. QED  BY <1>1, <2>6, <2>7, OneGroupKeeps
<1>3. CASE ~(size > 4 * ZMM_SZ /\ routine \notin Memmoves)
  <2>1. \/ ZMM_SZ <= size /\ O = ZmmEnds(size)
        \/ size < ZMM_SZ /\ O \in {NarrowEnds(size), Block(0, size)}
    BY <1>3, Numbers, Registers
  <2>. HIDE DEF O
  <2>. QED  BY <1>1, <2>1, ZmmGroupKeeps
<1>. QED  BY <1>2, <1>3

-----------------------------------------------------------------------------
(***************************************************************************)
(* Entering the loops between buffers that lie apart.                      *)
(***************************************************************************)

\* A loop from offset f on, from which on the destination is aligned.
LEMMA AlignedFrom ==
  ASSUME IInv, NEW v \in Nat, v > 0, NEW f \in Int, (dst + f) % v = 0,
         NEW l, l.vec = v, NEW j \in Int, l.step = j * v,
         l.ld # "UNALIGNED" => SameAlignment(v)
  PROVE  AlignedAt(l, f)
<1>1. PICK d \in Int, s \in Int : d = dst /\ s = src
  BY Numbers
<1>2. SameAlignment(v) => (s + f) % v = 0
  BY <1>1, SameAlignmentShift DEF SameAlignment
<1>. QED  BY <1>1, <1>2 DEF AlignedAt

LEMMA EnterBlockKeeps ==
  ASSUME IInv, pc = "start",
         NEW path \in Aparts \ {"avx512_rest", "zen4_disjoint", "between"},
         NEW k \in {4, 8}, NEW v \in {YMM_SZ, ZMM_SZ}, NEW l, NEW j \in {4, 8},
         EnterLoop(path, Block(0, k * v), l, AlignedWithin(k, v)), UNCHANGED variant,
         l.vec = v, l.step = j * v, l.ld # "UNALIGNED" => SameAlignment(v),
         Apart, k * v <= size,
         Fits(path, size, l.step, AlignedWithin(k, v), Unit)
  PROVE  IInv'
<1>1. v \in Nat /\ v > 0 /\ k \in Int /\ k >= 1 /\ j \in Int
  BY Registers
<1>2. PICK f \in Int, p \in Int : f = AlignedWithin(k, v) /\ p = k * v
  BY <1>1, Numbers, LoopStart
<1>3. f \in 1 .. p /\ (dst + f) % v = 0
  BY <1>1, <1>2, Numbers, LoopStart
<1>4. AlignedAt(l, f)
  BY <1>1, <1>3, AlignedFrom
<1>5. /\ Block(0, p) \subseteq 0 .. size - 1
      /\ InPlace(path, f, size, {}) \subseteq Block(0, p)
      /\ f \in Nat /\ f <= size
  <2>1. InPlace(path, f, size, {}) = 0 .. f - 1
    BY DEF InPlace
  <2>2. Block(0, p) = 0 .. p - 1
    BY <1>2 DEF Block
  <2>3. p <= size /\ size \in Nat
    BY <1>2, Numbers
  <2>. QED  BY <1>3, <2>1, <2>2, <2>3
<1>6. EnterLoop(path, Block(0, p), l, f) /\ Fits(path, size, l.step, f, Unit)
  BY <1>2
<1>. QED  BY <1>4, <1>5, <1>6, EnterKeeps

LEMMA EnterAvx2Keeps ==
  ASSUME IInv, L1Avx2 \/ FarAvx2, UNCHANGED variant
  PROVE  IInv'
<1>1. PICK path, l :
        /\ path \in {"avx2_l1", "avx2_far"}
        /\ EnterLoop(path, Block(0, 4 * YMM_SZ), l, AlignedWithin(4, YMM_SZ))
        /\ l.vec = YMM_SZ /\ l.step = 4 * YMM_SZ
        /\ l.ld # "UNALIGNED" => SameAlignment(YMM_SZ)
  BY DEF L1Avx2, FarAvx2, Loop
<1>2. pc = "start" /\ routine \notin Memmoves /\ 8 * YMM_SZ < size
  BY DEF L1Avx2, FarAvx2, Called, Avx2Routines, Memmoves
<1>3. Apart
  BY <1>2, CallApart
<1>4. 4 * YMM_SZ <= size /\ 4 * YMM_SZ \in Nat
  BY <1>2, Registers, Numbers
<1>5. Fits(path, size, l.step, AlignedWithin(4, YMM_SZ), Unit)
  BY <1>1, <1>2, <1>4 DEF Fits, EightVectors, FourVectors, Reps
<1>. QED  BY <1>1, <1>2, <1>3, <1>4, <1>5, EnterBlockKeeps DEF Aparts

LEMMA EnterZen4Keeps ==
  ASSUME IInv, DisjointZen4, UNCHANGED variant
  PROVE  IInv'
<1> DEFINE O == Ends(4 * ZMM_SZ, size)
<1>1. PICK l :
        /\ EnterLoop("zen4_disjoint", O, l, AlignedWithin(4, ZMM_SZ))
        /\ \E j \in {4, 8} : \E v \in {YMM_SZ, ZMM_SZ} :
              l.vec = v /\ l.step = j * v /\ j * v <= 4 * ZMM_SZ
        /\ l.ld # "UNALIGNED" => SameAlignment(ZMM_SZ)
  <2>1. 4 * ZMM_SZ <= 4 * ZMM_SZ /\ 4 * YMM_SZ <= 4 * ZMM_SZ /\ 8 * YMM_SZ <= 4 * ZMM_SZ
    BY Registers
  <2>2. \A j \in {4, 8}, v \in {YMM_SZ, ZMM_SZ}, ld \in {"ALIGNED", "UNALIGNED"},
           st \in {"ALIGNED", "STREAM"} :
           Loop(j, v, ld, st).vec = v /\ Loop(j, v, ld, st).step = j * v
             /\ Loop(j, v, ld, st).ld = ld
    BY DEF Loop
  <2>3. PICK l :
          /\ EnterLoop("zen4_disjoint", O, l, AlignedWithin(4, ZMM_SZ))
          /\ \/ /\ SameAlignment(ZMM_SZ)
                /\ l \in {Loop(8, YMM_SZ, "ALIGNED", "ALIGNED"),
                          Loop(4, YMM_SZ, "ALIGNED", "ALIGNED"),
                          Loop(4, ZMM_SZ, "ALIGNED", "STREAM")}
             \/ l \in {Loop(4, ZMM_SZ, "UNALIGNED", "ALIGNED"),
                       Loop(4, ZMM_SZ, "UNALIGNED", "STREAM")}
    BY Zenon DEF DisjointZen4
  <2>. QED  BY <2>1, <2>2, <2>3
<1>2. pc = "start" /\ (routine \notin Memmoves \/ Disjoint) /\ 8 * ZMM_SZ < size
  BY DEF DisjointZen4, Called
<1>3. Apart
  BY <1>2, CallApart
<1>4. PICK j \in {4, 8}, v \in {YMM_SZ, ZMM_SZ} :
        l.vec = v /\ l.step = j * v /\ j * v <= 4 * ZMM_SZ
  BY <1>1
<1>5. v \in Nat /\ v > 0 /\ j \in Int /\ j * v \in Nat
  BY Registers
<1>6. PICK f \in Int : f = AlignedWithin(4, ZMM_SZ)
  BY Numbers, LoopStart, Registers
<1>7. f \in 1 .. 4 * ZMM_SZ /\ (dst + f) % ZMM_SZ = 0
  BY <1>6, Numbers, LoopStart, Registers
<1>8. AlignedAt(l, f)
  <2>1. PICK d \in Int, s \in Int : d = dst + f /\ s = src + f
    BY Numbers
  <2>2. d % ZMM_SZ = 0
    BY <1>7, <2>1
  <2>3. d % v = 0
    BY <2>2, HalvesAligned
  <2>4. SameAlignment(ZMM_SZ) => s % ZMM_SZ = 0
    BY <1>7, <2>1, Numbers, Registers, SameAlignmentShift DEF SameAlignment
  <2>5. SameAlignment(ZMM_SZ) => s % v = 0
    BY <2>4, HalvesAligned
  <2>. QED  BY <1>1, <1>4, <1>5, <2>1, <2>3, <2>5 DEF AlignedAt
<1>9. /\ O \subseteq 0 .. size - 1
      /\ InPlace("zen4_disjoint", f, size, {}) \subseteq O
      /\ f \in Nat /\ f <= size
  <2>1. PICK z \in Nat, n \in Nat : z = ZMM_SZ /\ n = size
    BY Numbers, Registers
  <2>2. InPlace("zen4_disjoint", f, n, {}) = (0 .. f - 1) \cup (n - 4 * z .. n - 1)
    BY <2>1 DEF InPlace, Aparts
  <2>3. O = (0 .. 4 * z - 1) \cup (n - 4 * z .. n - 1)
    BY <2>1 DEF Ends, Block
  <2>4. 8 * z < n /\ f \in 1 .. 4 * z
    BY <1>2, <1>7, <2>1
  <2>. QED  BY <2>1, <2>2, <2>3, <2>4
<1>10. Fits("zen4_disjoint", size, l.step, f, Unit)
  BY <1>2, <1>4, <1>5 DEF Fits, EightVectors, FourVectors, Reps
<1>11. EnterLoop("zen4_disjoint", O, l, f)
  BY <1>1, <1>6
<1>. HIDE DEF O
<1>. QED  BY <1>2, <1>3, <1>8, <1>9, <1>10, <1>11, EnterKeeps DEF Aparts

LEMMA EnterAvx512Keeps ==
  ASSUME IInv, DisjointAvx512, UNCHANGED variant
  PROVE  IInv'
<1>1. pc = "start" /\ (routine \notin Memmoves \/ Disjoint) /\ 8 * ZMM_SZ < size
  BY DEF DisjointAvx512, Called
<1>2. Apart
  BY <1>1, CallApart
<1>3. CASE size > 16 * ZMM_SZ
  <2>1. PICK l :
          /\ EnterLoop("avx512_disjoint", Block(0, 8 * ZMM_SZ), l, AlignedWithin(8, ZMM_SZ))
          /\ \E j \in {4, 8} : l.step = j * ZMM_SZ
          /\ l.vec = ZMM_SZ
          /\ l.ld # "UNALIGNED" => SameAlignment(ZMM_SZ)
    <3>1. PICK l :
            /\ EnterLoop("avx512_disjoint", Block(0, 8 * ZMM_SZ), l,
                         AlignedWithin(8, ZMM_SZ))
            /\ \/ SameAlignment(ZMM_SZ) /\ l = Loop(8, ZMM_SZ, "ALIGNED", "STREAM")
               \/ l = Loop(4, ZMM_SZ, "UNALIGNED", "STREAM")
               \/ l = Loop(4, ZMM_SZ, AlignedIf(SameAlignment(ZMM_SZ)), "ALIGNED")
      BY <1>3, Zenon DEF DisjointAvx512
    <3>. QED  BY <3>1 DEF Loop, AlignedIf
  <2>2. PICK j \in {4, 8} : l.step = j * ZMM_SZ
    BY <2>1
  <2>3. 8 * ZMM_SZ <= size /\ j * ZMM_SZ \in Nat /\ j * ZMM_SZ <= 8 * ZMM_SZ
    BY <1>1, Registers, Numbers
  <2>4. Fits("avx512_disjoint", size, l.step, AlignedWithin(8, ZMM_SZ), Unit)
    BY <1>1, <2>2, <2>3 DEF Fits, EightVectors, FourVectors, Reps
  <2>. QED  BY <1>1, <1>2, <2>1, <2>2, <2>3, <2>4, EnterBlockKeeps DEF Aparts
<1>4. CASE ~(size > 16 * ZMM_SZ)
  <2>1. EnterLoop("avx512_rest", Block(0, 8 * ZMM_SZ), Unaligned, 8 * ZMM_SZ)
    BY <1>4, Zenon DEF DisjointAvx512
  <2>2. PICK f \in Nat : f = 8 * ZMM_SZ
    BY Registers
  <2>3. /\ Block(0, f) \subseteq 0 .. size - 1
        /\ InPlace("avx512_rest", f, size, {}) \subseteq Block(0, f)
        /\ f <= size
    <3>1. InPlace("avx512_rest", f, size, {}) = 0 .. f - 1
      BY DEF InPlace, Aparts
    <3>. QED  BY <1>1, <2>2, <3>1, Numbers DEF Block
  <2>4. Unaligned.step = 0 /\ Unaligned.vec = 1
        /\ Unaligned.ld = "UNALIGNED" /\ Unaligned.st = "UNALIGNED"
    BY DEF Unaligned, Loop
  <2>5. AlignedAt(Unaligned, f)
    <3>1. Unaligned.step = 0 * Unaligned.vec
      BY <2>4
    <3>. QED  BY <2>4, <3>1 DEF AlignedAt
  <2>6. Fits("avx512_rest", size, Unaligned.step, f, Unit)
    BY <1>1, <1>4, <2>2, <2>4, Numbers, Registers
       DEF Fits, EightVectors, FourVectors, Reps
  <2>. QED  BY <1>1, <1>2, <2>1, <2>2, <2>3, <2>5, <2>6, EnterKeeps DEF Aparts
<1>. QED  BY <1>3, <1>4

LEMMA EnterErmsKeeps ==
  ASSUME IInv, DisjointErms, UNCHANGED variant
  PROVE  IInv'
<1>1. pc = "start" /\ (routine \notin Memmoves \/ Disjoint) /\ 8 * ZMM_SZ < size
  BY DEF DisjointErms, Called
<1>2. Apart
  BY <1>1, CallApart
<1>3. /\ 4 * ZMM_SZ <= size /\ 8 * ZMM_SZ <= size
      /\ 4 * ZMM_SZ \in Nat /\ 8 * ZMM_SZ \in Nat /\ 4 * ZMM_SZ <= 8 * ZMM_SZ
  BY <1>1, Registers, Numbers
<1>4. CASE EnterLoop("zen5_vector", Block(0, 4 * ZMM_SZ),
                     Loop(4, ZMM_SZ, "UNALIGNED", "ALIGNED"), AlignedWithin(4, ZMM_SZ))
  <2>1. PICK l : l = Loop(4, ZMM_SZ, "UNALIGNED", "ALIGNED")
    OBVIOUS
  <2>2. l.vec = ZMM_SZ /\ l.step = 4 * ZMM_SZ /\ l.ld = "UNALIGNED"
    BY <2>1 DEF Loop
  <2>3. Fits("zen5_vector", size, l.step, AlignedWithin(4, ZMM_SZ), Unit)
    BY <1>1, <1>3, <2>2 DEF Fits, EightVectors, FourVectors, Reps
  <2>. QED  BY <1>1, <1>2, <1>3, <1>4, <2>1, <2>2, <2>3, EnterBlockKeeps DEF Aparts
<1>5. CASE EnterLoop("zen5_stream", Block(0, 8 * ZMM_SZ),
                     Loop(8, ZMM_SZ, "UNALIGNED", "STREAM"), AlignedWithin(8, ZMM_SZ))
  <2>1. PICK l : l = Loop(8, ZMM_SZ, "UNALIGNED", "STREAM")
    OBVIOUS
  <2>2. l.vec = ZMM_SZ /\ l.step = 8 * ZMM_SZ /\ l.ld = "UNALIGNED"
    BY <2>1 DEF Loop
  <2>3. Fits("zen5_stream", size, l.step, AlignedWithin(8, ZMM_SZ), Unit)
    BY <1>1, <1>3, <2>2 DEF Fits, EightVectors, FourVectors, Reps
  <2>. QED  BY <1>1, <1>2, <1>3, <1>5, <2>1, <2>2, <2>3, EnterBlockKeeps DEF Aparts
<1>6. CASE OneGroup(Block(0, size))
  <2>1. Block(0, size) = 0 .. size - 1
    BY Numbers DEF Block
  <2>. QED  BY <1>1, <1>6, <2>1, OneGroupKeeps
<1>. QED  BY <1>4, <1>5, <1>6, Zenon DEF DisjointErms

-----------------------------------------------------------------------------
(***************************************************************************)
(* Entering the loops of a move that may overlap.                          *)
(***************************************************************************)
LEMMA EnterDownKeeps ==
  ASSUME IInv, pc = "start", 8 * ZMM_SZ < size, src < dst,
         NEW path \in {"zen4_backward", "zen5_backward"}, NEW l,
         KeepAndLoop(path, LastVecs(1, ZMM_SZ), l, size - ((dst + size) % ZMM_SZ)),
         UNCHANGED variant,
         l.vec = ZMM_SZ, l.step = 4 * ZMM_SZ, l.ld # "UNALIGNED" => SameAlignment(ZMM_SZ)
  PROVE  IInv'
<1>1. PICK z \in Nat, n \in Nat, d \in Int :
        z = ZMM_SZ /\ n = size /\ d = dst /\ z > 0 /\ 8 * z < n
  BY Numbers, Registers
<1>2. PICK f \in Int : f = n - ((d + n) % z)
  BY <1>1, AlignedDown
<1>3. f \in n - z + 1 .. n /\ (d + f) % z = 0
  BY <1>1, <1>2, AlignedDown
<1>4. AlignedAt(l, f)
  <2>1. l.vec = z /\ l.step = 4 * z /\ 4 \in Int
    BY <1>1
  <2>2. l.ld # "UNALIGNED" => SameAlignment(z)
    BY <1>1
  <2>3. (dst + f) % z = 0
    BY <1>1, <1>3
  <2>. QED  BY <1>1, <2>1, <2>2, <2>3, AlignedFrom
<1>5. PICK O : O = LastVecs(1, ZMM_SZ)
  OBVIOUS
<1>6. O = n - z .. n - 1
  BY <1>1, <1>5 DEF LastVecs, Block
<1>7. O \subseteq 0 .. size - 1 /\ Touched(path, f, size) \subseteq O /\ f <= size /\ f \in Nat
  <2>1. Touched(path, f, size) = f .. n - 1
    BY <1>1 DEF Touched, Fwds, Backs
  <2>. QED  BY <1>1, <1>3, <1>6, <2>1
<1>8. KeepsEnd(path, size, O)
  BY DEF KeepsEnd
<1>9. Fits(path, size, l.step, f, Unit)
  BY <1>1 DEF Fits, EightVectors, FourVectors, Reps
<1>10. Directed(path)
  BY Numbers DEF Directed, Aparts, Fwds
<1>11. KeepAndLoop(path, O, l, f)
  BY <1>1, <1>2, <1>5
<1>12. path \in (Fwds \cup Backs) \ Reps
  BY DEF Backs, Reps
<1>. QED  BY <1>4, <1>7, <1>8, <1>9, <1>10, <1>11, <1>12, KeepKeeps

LEMMA EnterUpKeeps ==
  ASSUME IInv, pc = "start", 8 * ZMM_SZ < size, dst <= src,
         NEW path \in {"zen4_forward", "zen5_forward", "zen5_forward_large"}, NEW l,
         KeepAndLoop(path, Block(0, ZMM_SZ), l, AlignedWithin(1, ZMM_SZ)),
         UNCHANGED variant,
         l.vec = ZMM_SZ,
         NEW j \in {4, 8}, l.step = j * ZMM_SZ, j = 8 => path = "zen5_forward_large",
         l.ld # "UNALIGNED" => SameAlignment(ZMM_SZ)
  PROVE  IInv'
<1>1. PICK z \in Nat, n \in Nat : z = ZMM_SZ /\ n = size /\ z > 0 /\ 8 * z < n
  BY Numbers, Registers
<1>2. PICK f \in Int : f = AlignedWithin(1, ZMM_SZ)
  BY Numbers, LoopStart, Registers
<1>3. f \in 1 .. z /\ (dst + f) % z = 0
  BY <1>1, <1>2, Numbers, LoopStart
<1>4. AlignedAt(l, f)
  <2>1. l.vec = z /\ \E h \in Int : l.step = h * z
    BY <1>1
  <2>2. l.ld # "UNALIGNED" => SameAlignment(z)
    BY <1>1
  <2>. QED  BY <1>1, <1>3, <2>1, <2>2, AlignedFrom
<1>5. PICK O : O = Block(0, ZMM_SZ)
  OBVIOUS
<1>6. O = 0 .. z - 1
  BY <1>1, <1>5 DEF Block
<1>7. O \subseteq 0 .. size - 1 /\ Touched(path, f, size) \subseteq O /\ f <= size /\ f \in Nat
  <2>1. Touched(path, f, size) = 0 .. f - 1
    BY DEF Touched, Fwds
  <2>. QED  BY <1>1, <1>3, <1>6, <2>1
<1>8. KeepsEnd(path, size, O)
  BY DEF KeepsEnd
<1>9. Fits(path, size, l.step, f, Unit)
  BY <1>1 DEF Fits, EightVectors, FourVectors, Reps
<1>10. Directed(path)
  BY Numbers DEF Directed, Aparts, Backs
<1>11. KeepAndLoop(path, O, l, f)
  BY <1>2, <1>5
<1>12. path \in (Fwds \cup Backs) \ Reps
  BY DEF Fwds, Reps
<1>. QED  BY <1>4, <1>7, <1>8, <1>9, <1>10, <1>11, <1>12, KeepKeeps

LEMMA MoveZen4Keeps ==
  ASSUME IInv, BackwardZen4 \/ ForwardZen4 \/ BackwardErms \/ ForwardErms, UNCHANGED variant
  PROVE  IInv'
<1>1. pc = "start" /\ 8 * ZMM_SZ < size
  BY DEF BackwardZen4, ForwardZen4, BackwardErms, ForwardErms, Zen4Overlap, ErmsOverlap, Called
<1>2. CASE BackwardZen4 \/ BackwardErms
  <2>1. PICK path, l :
          /\ path \in {"zen4_backward", "zen5_backward"}
          /\ KeepAndLoop(path, LastVecs(1, ZMM_SZ), l, size - ((dst + size) % ZMM_SZ))
          /\ l.vec = ZMM_SZ /\ l.step = 4 * ZMM_SZ
          /\ l.ld # "UNALIGNED" => SameAlignment(ZMM_SZ)
    BY <1>2 DEF BackwardZen4, BackwardErms, Loop, AlignedIf
  <2>2. src < dst
    BY <1>2 DEF BackwardZen4, BackwardErms
  <2>. QED  BY <1>1, <2>1, <2>2, EnterDownKeeps
<1>3. CASE ForwardZen4
  <2>1. PICK l : /\ KeepAndLoop("zen4_forward", Block(0, ZMM_SZ), l,
                                AlignedWithin(1, ZMM_SZ))
                 /\ l = Loop(4, ZMM_SZ, IF SameAlignment(ZMM_SZ) THEN "ALIGNED"
                                        ELSE "UNALIGNED", "ALIGNED")
    BY <1>3, Zenon DEF ForwardZen4
  <2>2. PICK path \in {"zen4_forward", "zen5_forward", "zen5_forward_large"}, j \in {4, 8} :
          /\ path = "zen4_forward" /\ j = 4 /\ l.vec = ZMM_SZ /\ l.step = j * ZMM_SZ
          /\ l.ld # "UNALIGNED" => SameAlignment(ZMM_SZ)
    BY <2>1 DEF Loop
  <2>3. dst <= src
    BY <1>3 DEF ForwardZen4
  <2>. QED  BY <1>1, <2>1, <2>2, <2>3, EnterUpKeeps
<1>4. CASE ForwardErms
  <2>1. PICK l, st :
          \/ /\ KeepAndLoop("zen5_forward", Block(0, ZMM_SZ), l, AlignedWithin(1, ZMM_SZ))
             /\ l = Loop(4, ZMM_SZ, AlignedIf(SameAlignment(ZMM_SZ)), st)
          \/ /\ KeepAndLoop("zen5_forward_large", Block(0, ZMM_SZ), l,
                            AlignedWithin(1, ZMM_SZ))
             /\ l = Loop(8, ZMM_SZ, AlignedIf(SameAlignment(ZMM_SZ)), st)
    <3>1. \/ KeepAndLoop("zen5_forward", Block(0, ZMM_SZ),
              Loop(4, ZMM_SZ, AlignedIf(SameAlignment(ZMM_SZ)), "ALIGNED"),
              AlignedWithin(1, ZMM_SZ))
          \/ KeepAndLoop("zen5_forward_large", Block(0, ZMM_SZ),
              Loop(8, ZMM_SZ, AlignedIf(SameAlignment(ZMM_SZ)),
                   IF SameAlignment(ZMM_SZ) THEN "UNALIGNED" ELSE "ALIGNED"),
              AlignedWithin(1, ZMM_SZ))
      BY <1>4, Zenon DEF ForwardErms
    <3>. QED  BY <3>1, Zenon
  <2>2. /\ l.vec = ZMM_SZ
        /\ l.ld # "UNALIGNED" => SameAlignment(ZMM_SZ)
    BY <2>1 DEF Loop, AlignedIf
  <2>3. PICK path \in {"zen4_forward", "zen5_forward", "zen5_forward_large"}, j \in {4, 8} :
          /\ KeepAndLoop(path, Block(0, ZMM_SZ), l, AlignedWithin(1, ZMM_SZ))
          /\ l.step = j * ZMM_SZ
          /\ j = 8 => path = "zen5_forward_large"
    BY <2>1 DEF Loop
  <2>4. dst <= src
    BY <1>4 DEF ForwardErms
  <2>. QED  BY <1>1, <2>2, <2>3, <2>4, EnterUpKeeps
<1>. QED  BY <1>2, <1>3, <1>4

LEMMA BackwardAvx512Keeps ==
  ASSUME IInv, BackwardAvx512, UNCHANGED variant
  PROVE  IInv'
<1>1. PICK z \in Nat, n \in Nat :
        z = ZMM_SZ /\ n = size /\ z > 0 /\ 8 * z < n /\ pc = "start" /\ src < dst
  BY Numbers, Registers DEF BackwardAvx512, Avx512Overlap, Called
<1>2. CASE BothAligned
  <2>1. PICK O, l, f :
          /\ KeepAndLoop("avx512_backward_aligned", O, l, f)
          /\ O = Block(0, 4 * ZMM_SZ) \cup LastVecs(1, ZMM_SZ)
          /\ l = Loop(4, ZMM_SZ, "ALIGNED", "ALIGNED")
          /\ f = size - (size % ZMM_SZ)
    BY <1>2, Zenon DEF BackwardAvx512
  <2>2. f \in n - z + 1 .. n /\ f % z = 0
    <3>1. PICK a \in Int : a = 0
      OBVIOUS
    <3>2. a + n = n
      BY <3>1
    <3>3. /\ n - ((a + n) % z) \in n - z + 1 .. n
          /\ (a + (n - ((a + n) % z))) % z = 0
      BY <1>1, AlignedDown
    <3>4. f = n - ((a + n) % z)
      BY <1>1, <2>1, <3>2
    <3>5. f \in n - z + 1 .. n /\ (a + f) % z = 0
      BY <3>3, <3>4
    <3>6. a + f = f
      BY <3>1, <3>5
    <3>. QED  BY <3>5, <3>6
  <2>3. AlignedAt(l, f)
    <3>1. PICK d \in Int, s \in Int : d = dst /\ s = src /\ d % z = 0 /\ s % z = 0
      BY <1>1, <1>2, Numbers DEF BothAligned
    <3>2. (d + f) % z = 0 /\ (s + f) % z = 0
      BY <1>1, <2>2, <3>1, AlignedSum
    <3>. QED  BY <1>1, <2>1, <3>1, <3>2 DEF AlignedAt, Loop
  <2>4. O = (0 .. 4 * z - 1) \cup (n - z .. n - 1)
    BY <1>1, <2>1 DEF LastVecs, Block
  <2>5. /\ O \subseteq 0 .. size - 1 /\ Touched("avx512_backward_aligned", f, size) \subseteq O
        /\ f <= size /\ f \in Nat
    <3>1. Touched("avx512_backward_aligned", f, size) = f .. n - 1
      BY <1>1 DEF Touched, Fwds, Backs
    <3>. QED  BY <1>1, <2>2, <2>4, <3>1
  <2>6. KeepsEnd("avx512_backward_aligned", size, O)
    BY <1>1, <2>4 DEF KeepsEnd
  <2>7. Fits("avx512_backward_aligned", size, l.step, f, Unit)
    BY <1>1, <2>1, <2>2 DEF Fits, EightVectors, FourVectors, Reps, Loop
  <2>8. Directed("avx512_backward_aligned")
    BY <1>1, Numbers DEF Directed, Aparts, Fwds
  <2>9. "avx512_backward_aligned" \in (Fwds \cup Backs) \ Reps
    BY DEF Backs, Reps
  <2>. QED  BY <1>1, <2>1, <2>3, <2>5, <2>6, <2>7, <2>8, <2>9, KeepKeeps
<1>3. CASE ~BothAligned
  <2>1. PICK O, l, f :
          /\ KeepAndLoop("avx512_backward", O, l, f)
          /\ O = Block(0, 4 * ZMM_SZ)
          /\ l = Loop(4, ZMM_SZ, "UNALIGNED", "UNALIGNED")
          /\ f = size
    BY <1>3, Zenon DEF BackwardAvx512
  <2>3. AlignedAt(l, f)
    BY <1>1, <2>1 DEF AlignedAt, Loop
  <2>4. O = 0 .. 4 * z - 1
    BY <1>1, <2>1 DEF Block
  <2>5. /\ O \subseteq 0 .. size - 1 /\ Touched("avx512_backward", f, size) \subseteq O
        /\ f <= size /\ f \in Nat
    <3>1. Touched("avx512_backward", f, size) = n .. n - 1
      BY <1>1, <2>1 DEF Touched, Fwds, Backs
    <3>. QED  BY <1>1, <2>1, <2>4, <3>1
  <2>6. KeepsEnd("avx512_backward", size, O)
    BY <1>1, <2>4 DEF KeepsEnd
  <2>7. Fits("avx512_backward", size, l.step, f, Unit)
    BY <1>1, <2>1 DEF Fits, EightVectors, FourVectors, Reps, Loop
  <2>8. Directed("avx512_backward")
    BY <1>1, Numbers DEF Directed, Aparts, Fwds
  <2>9. "avx512_backward" \in (Fwds \cup Backs) \ Reps
    BY DEF Backs, Reps
  <2>. QED  BY <1>1, <2>1, <2>3, <2>5, <2>6, <2>7, <2>8, <2>9, KeepKeeps
<1>. QED  BY <1>2, <1>3

LEMMA ForwardAvx512Keeps ==
  ASSUME IInv, ForwardAvx512, UNCHANGED variant
  PROVE  IInv'
<1>1. PICK z \in Nat, n \in Nat :
        z = ZMM_SZ /\ n = size /\ z > 0 /\ 8 * z < n /\ pc = "start" /\ dst <= src
  BY Numbers, Registers DEF ForwardAvx512, Avx512Overlap, Called
<1>2. PICK O, l, f :
        /\ KeepAndLoop("avx512_forward", O, l, f)
        /\ O = LastVecs(4, ZMM_SZ)
        /\ l = Loop(4, ZMM_SZ, AlignedIf(BothAligned), AlignedIf(BothAligned))
        /\ f = 0
  BY Zenon DEF ForwardAvx512
<1>3. AlignedAt(l, f)
  <2>1. dst + f = dst /\ src + f = src
    BY <1>2, Numbers
  <2>. QED  BY <1>1, <1>2, <2>1 DEF AlignedAt, Loop, AlignedIf, BothAligned
<1>4. O = n - 4 * z .. n - 1
  BY <1>1, <1>2 DEF LastVecs, Block
<1>5. /\ O \subseteq 0 .. size - 1 /\ Touched("avx512_forward", f, size) \subseteq O
      /\ f <= size /\ f \in Nat
  <2>1. Touched("avx512_forward", f, size) = 0 .. -1
    BY <1>1, <1>2 DEF Touched, Fwds
  <2>. QED  BY <1>1, <1>2, <1>4, <2>1
<1>6. KeepsEnd("avx512_forward", size, O)
  BY <1>1, <1>4 DEF KeepsEnd
<1>7. Fits("avx512_forward", size, l.step, f, Unit)
  BY <1>1, <1>2 DEF Fits, EightVectors, FourVectors, Reps, Loop
<1>8. Directed("avx512_forward")
  BY <1>1, Numbers DEF Directed, Aparts, Backs
<1>9. "avx512_forward" \in (Fwds \cup Backs) \ Reps
  BY DEF Fwds, Reps
<1>. QED  BY <1>1, <1>2, <1>3, <1>5, <1>6, <1>7, <1>8, <1>9, KeepKeeps

-----------------------------------------------------------------------------
(***************************************************************************)
(* Entering the loops of the tunable variants.                             *)
(***************************************************************************)

\* A forward loop starts within the first vector, and that is kept if skipped.
LEMMA TunableUp ==
  ASSUME IInv, pc = "start", variant \in VectorVariants
  PROVE  /\ StartOffset \in 0 .. ZMM_SZ
         /\ ~OneSided => StartOffset = 0
         /\ AlignedAt(VectorLoop, StartOffset)
         /\ VectorLoop.step = 4 * ZMM_SZ
<1>1. PICK z \in Nat, d \in Int, s \in Int : z = ZMM_SZ /\ z > 0 /\ d = dst /\ s = src
  BY Numbers, Registers
<1>2. /\ VectorLoop.step = 4 * z /\ VectorLoop.vec = z
      /\ VectorLoop.ld = Load_type(variant) /\ VectorLoop.st = Store_type(variant)
  BY <1>1 DEF VectorLoop, Loop
<1>3. CASE variant \in {"aligned", "nt", "unaligned"}
  <2>1. StartOffset = 0 /\ ~OneSided
    BY <1>3 DEF StartOffset, OneSided
  <2>2. variant # "unaligned" => (d + 0) % z = 0 /\ (s + 0) % z = 0
    BY <1>1, <1>3, Started DEF Granted
  <2>3. variant = "unaligned" => Load_type(variant) = "UNALIGNED" /\ Store_type(variant) = "UNALIGNED"
    BY DEF Load_type, Store_type
  <2>. QED  BY <1>1, <1>2, <2>1, <2>2, <2>3 DEF AlignedAt
<1>4. CASE variant \in {"aligned_load", "nt_load"}
  <2>1. OneSided /\ StartOffset = z - (s % z) /\ Store_type(variant) = "UNALIGNED"
    BY <1>1, <1>4 DEF StartOffset, OneSided, AlignedSide, Store_type
  <2>2. z - (s % z) \in 1 .. z /\ (s + (z - (s % z))) % z = 0
    <3>1. PICK k \in Int : k >= 1 /\ k * z = z
      BY <1>1
    <3>2. k * z - (s % z) \in 1 .. k * z /\ (s + (k * z - (s % z))) % z = 0
      BY <1>1, <3>1, AlignedUp
    <3>. QED  BY <3>1, <3>2
  <2>. QED  BY <1>1, <1>2, <2>1, <2>2 DEF AlignedAt
<1>5. CASE variant \in {"aligned_store", "nt_store"}
  <2>1. OneSided /\ StartOffset = z - (d % z) /\ Load_type(variant) = "UNALIGNED"
    BY <1>1, <1>5 DEF StartOffset, OneSided, AlignedSide, Load_type
  <2>2. z - (d % z) \in 1 .. z /\ (d + (z - (d % z))) % z = 0
    <3>1. PICK k \in Int : k >= 1 /\ k * z = z
      BY <1>1
    <3>2. k * z - (d % z) \in 1 .. k * z /\ (d + (k * z - (d % z))) % z = 0
      BY <1>1, <3>1, AlignedUp
    <3>. QED  BY <3>1, <3>2
  <2>. QED  BY <1>1, <1>2, <2>1, <2>2 DEF AlignedAt
<1>. QED  BY <1>3, <1>4, <1>5 DEF VectorVariants, NtVariants

\* A backward one within the last.
LEMMA TunableDown ==
  ASSUME IInv, pc = "start", variant \in VectorVariants \ NtVariants
  PROVE  /\ BackwardSkip \in 0 .. ZMM_SZ - 1
         /\ variant = "unaligned" => BackwardSkip = 0
         /\ AlignedAt(VectorLoop, size - BackwardSkip)
<1>1. PICK z \in Nat, d \in Int, s \in Int, n \in Int :
        z = ZMM_SZ /\ z > 0 /\ d = dst /\ s = src /\ n = size
  BY Numbers, Registers
<1>2. /\ VectorLoop.step = 4 * z /\ VectorLoop.vec = z
      /\ VectorLoop.ld = Load_type(variant) /\ VectorLoop.st = Store_type(variant)
  BY <1>1 DEF VectorLoop, Loop
<1>3. CASE variant = "unaligned"
  <2>1. BackwardSkip = 0 /\ Load_type(variant) = "UNALIGNED" /\ Store_type(variant) = "UNALIGNED"
    BY <1>3 DEF BackwardSkip, OneSided, Load_type, Store_type
  <2>. QED  BY <1>1, <1>2, <2>1 DEF AlignedAt
<1>4. CASE variant = "aligned"
  <2>1. BackwardSkip = n % z
    BY <1>1, <1>4 DEF BackwardSkip, OneSided
  <2>2. d % z = 0 /\ s % z = 0
    BY <1>1, <1>4, Started DEF Granted
  <2>3. PICK f \in Int, r \in Int : r = n % z /\ f = n - r /\ f % z = 0 /\ r \in 0 .. z - 1
    BY <1>1, DivMod, RoundedDown
  <2>z. z > 0 /\ d % z = 0 /\ s % z = 0 /\ f % z = 0
    BY <1>1, <2>2, <2>3
  <2>4. (d + f) % z = 0 /\ (s + f) % z = 0
    BY ONLY <2>z, AlignedSum, d \in Int, s \in Int, f \in Int, z \in Nat
  <2>. QED  BY <1>1, <1>2, <1>4, <2>1, <2>3, <2>4 DEF AlignedAt
<1>5. CASE variant = "aligned_load"
  <2>1. BackwardSkip = (s + n) % z /\ Store_type(variant) = "UNALIGNED"
    BY <1>1, <1>5 DEF BackwardSkip, OneSided, AlignedSide, Store_type
  <2>2. (s + n) % z \in 0 .. z - 1
    BY <1>1, DivMod
  <2>3. (s + (n - ((s + n) % z))) % z = 0
    BY <1>1, AlignedDown
  <2>. QED  BY <1>1, <1>2, <1>5, <2>1, <2>2, <2>3 DEF AlignedAt
<1>6. CASE variant = "aligned_store"
  <2>1. BackwardSkip = (d + n) % z /\ Load_type(variant) = "UNALIGNED"
    BY <1>1, <1>6 DEF BackwardSkip, OneSided, AlignedSide, Load_type
  <2>2. (d + n) % z \in 0 .. z - 1
    BY <1>1, DivMod
  <2>3. (d + (n - ((d + n) % z))) % z = 0
    BY <1>1, AlignedDown
  <2>. QED  BY <1>1, <1>2, <1>6, <2>1, <2>2, <2>3 DEF AlignedAt
<1>. QED  BY <1>3, <1>4, <1>5, <1>6 DEF VectorVariants, NtVariants

LEMMA CopyTunableKeeps ==
  ASSUME IInv, CopyTunable
  PROVE  IInv'
<1>0. 8 * ZMM_SZ < size /\ pc = "start" /\ variant \in VectorVariants
      /\ routine \notin Memmoves /\ UNCHANGED variant
  BY DEF CopyTunable, CalledVector, Called
<1>1. PICK z \in Nat, n \in Nat :
        /\ z = ZMM_SZ /\ n = size /\ z > 0 /\ 8 * z < n
  <2>1. size \in Nat /\ ZMM_SZ \in Nat /\ ZMM_SZ > 0 /\ 8 * ZMM_SZ < size
    BY <1>0, Numbers, Registers
  <2>. QED  BY ONLY <2>1
<1>2. PICK O, l, f :
        /\ EnterLoop("between", O, l, f)
        /\ O = Ends(4 * ZMM_SZ, size) /\ l = VectorLoop /\ f = StartOffset
  BY Zenon DEF CopyTunable
<1>3. f \in 0 .. z /\ AlignedAt(l, f) /\ l.step = 4 * z
  BY <1>0, <1>1, <1>2, TunableUp
<1>4. O = (0 .. 4 * z - 1) \cup (n - 4 * z .. n - 1)
  BY <1>1, <1>2 DEF Ends, Block
<1>5. /\ O \subseteq 0 .. size - 1 /\ InPlace("between", f, size, {}) \subseteq O
      /\ f <= size /\ f \in Nat
  <2>1. InPlace("between", f, n, {}) = (0 .. f - 1) \cup (n - 4 * z .. n - 1)
    BY <1>1 DEF InPlace, Aparts
  <2>. QED  BY <1>1, <1>3, <1>4, <2>1
<1>6. Fits("between", size, l.step, f, Unit)
  BY <1>1, <1>3 DEF Fits, EightVectors, FourVectors, Reps
<1>7. Apart /\ "between" \in Aparts
  BY <1>0, CallApart DEF Aparts
<1>. QED  BY <1>0, <1>2, <1>3, <1>5, <1>6, <1>7, EnterKeeps

LEMMA MoveForwardTunableKeeps ==
  ASSUME IInv, MoveForwardTunable
  PROVE  IInv'
<1>1. PICK z \in Nat, n \in Nat :
        /\ z = ZMM_SZ /\ n = size /\ z > 0 /\ 8 * z < n /\ pc = "start"
        /\ variant \in VectorVariants /\ UNCHANGED variant
  BY Numbers, Registers DEF MoveForwardTunable, CalledVector, Called
<1>2. PICK O, l, f :
        /\ KeepAndLoop("forward", O, l, f)
        /\ O = LastVecs(4, ZMM_SZ) \cup (IF OneSided THEN Block(0, ZMM_SZ) ELSE {})
        /\ l = VectorLoop /\ f = StartOffset
  BY Zenon DEF MoveForwardTunable
<1>3. f \in 0 .. z /\ (~OneSided => f = 0) /\ AlignedAt(l, f) /\ l.step = 4 * z
  BY <1>1, <1>2, TunableUp
<1>4. O = (n - 4 * z .. n - 1) \cup (IF OneSided THEN 0 .. z - 1 ELSE {})
  BY <1>1, <1>2 DEF LastVecs, Block
<1>5. /\ O \subseteq 0 .. size - 1 /\ Touched("forward", f, size) \subseteq O
      /\ f <= size /\ f \in Nat
  <2>1. Touched("forward", f, size) = 0 .. f - 1
    BY DEF Touched, Fwds
  <2>. QED  BY <1>1, <1>3, <1>4, <2>1
<1>6. KeepsEnd("forward", size, O)
  BY <1>1, <1>4 DEF KeepsEnd
<1>7. Fits("forward", size, l.step, f, Unit)
  BY <1>1, <1>3 DEF Fits, EightVectors, FourVectors, Reps
<1>8. Directed("forward")
  <2>1. Disjoint \/ ~SrcRunsIntoDst
    BY DEF MoveForwardTunable
  <2>2. dst <= src \/ src + size <= dst
    BY <2>1, Numbers DEF Disjoint, SrcRunsIntoDst
  <2>. QED  BY <2>2 DEF Directed, Aparts, Backs
<1>9. "forward" \in (Fwds \cup Backs) \ Reps
  BY DEF Fwds, Reps
<1>. QED  BY <1>1, <1>2, <1>3, <1>5, <1>6, <1>7, <1>8, <1>9, KeepKeeps

LEMMA MoveBackwardTunableKeeps ==
  ASSUME IInv, MoveBackwardTunable
  PROVE  IInv'
<1>0. 8 * ZMM_SZ < size /\ pc = "start" /\ src < dst /\ UNCHANGED variant
      /\ variant \in VectorVariants \ NtVariants
  BY DEF MoveBackwardTunable, CalledVector, Called, SrcRunsIntoDst
<1>1. PICK z \in Nat, n \in Nat :
        /\ z = ZMM_SZ /\ n = size /\ z > 0 /\ 8 * z < n
  <2>1. size \in Nat /\ ZMM_SZ \in Nat /\ ZMM_SZ > 0 /\ 8 * ZMM_SZ < size
    BY <1>0, Numbers, Registers
  <2>. QED  BY ONLY <2>1
<1>2. PICK O, l, f :
        /\ KeepAndLoop("backward", O, l, f)
        /\ O = Block(0, 4 * ZMM_SZ)
                 \cup (IF variant = "unaligned" THEN {} ELSE LastVecs(1, ZMM_SZ))
        /\ l = VectorLoop /\ f = size - BackwardSkip
  BY Zenon DEF MoveBackwardTunable
<1>3. /\ f \in n - z + 1 .. n /\ (variant = "unaligned" => f = n)
      /\ AlignedAt(l, f) /\ l.step = 4 * z
  <2>1. PICK b \in 0 .. z - 1 : b = BackwardSkip /\ (variant = "unaligned" => b = 0)
    BY <1>0, <1>1, TunableDown
  <2>2. AlignedAt(l, f) /\ l.step = 4 * z
    BY <1>0, <1>1, <1>2, TunableDown, TunableUp
  <2>. QED  BY <1>1, <1>2, <2>1, <2>2
<1>4. O = (0 .. 4 * z - 1) \cup (IF variant = "unaligned" THEN {} ELSE n - z .. n - 1)
  BY <1>1, <1>2 DEF LastVecs, Block
<1>5. /\ O \subseteq 0 .. size - 1 /\ Touched("backward", f, size) \subseteq O
      /\ f <= size /\ f \in Nat
  <2>1. Touched("backward", f, size) = f .. n - 1
    BY <1>1 DEF Touched, Fwds, Backs
  <2>. QED  BY <1>1, <1>3, <1>4, <2>1
<1>6. KeepsEnd("backward", size, O)
  BY <1>1, <1>4 DEF KeepsEnd
<1>7. Fits("backward", size, l.step, f, Unit)
  BY <1>1, <1>3 DEF Fits, EightVectors, FourVectors, Reps
<1>8. Directed("backward")
  BY <1>0, Numbers DEF Directed, Aparts, Fwds
<1>9. "backward" \in (Fwds \cup Backs) \ Reps
  BY DEF Backs, Reps
<1>. QED  BY <1>0, <1>2, <1>3, <1>5, <1>6, <1>7, <1>8, <1>9, KeepKeeps

\* Another variant takes the call over.
LEMMA HandOverKeeps ==
  ASSUME IInv, ChooseByThreshold \/ AvoidStreaming
  PROVE  IInv'
<1>1. /\ pc = "start" /\ pc' = pc /\ mem' = mem /\ dst' = dst /\ src' = src /\ size' = size
      /\ ret' = ret /\ offset' = offset /\ loop' = loop /\ save' = save /\ acc' = acc
      /\ routine' = routine /\ limits' = limits
  BY DEF ChooseByThreshold, AvoidStreaming, Called, vars, copyVars
<1>2. variant' \in Variants
  BY DEF ChooseByThreshold, AvoidStreaming, Variants, VectorVariants, NtVariants, ErmsVariants
<1>3. Granted(variant', [dst |-> dst, src |-> src, size |-> size])
  <2>1. CASE ChooseByThreshold
    BY <2>1 DEF ChooseByThreshold, Granted
  <2>2. CASE AvoidStreaming
    <3>1. Granted(variant, [dst |-> dst, src |-> src, size |-> size])
      BY <1>1, Started
    <3>2. \/ variant' = "aligned" /\ variant = "nt"
          \/ variant' \in {"aligned_load", "aligned_store"}
      BY <2>2 DEF AvoidStreaming, NtVariants
    <3>. QED  BY <3>1, <3>2 DEF Granted
  <2>. QED  BY <2>1, <2>2
<1>4. TypeOK'
  BY <1>1, <1>2 DEF IInv, TypeOK
<1>5. CallInv'
  BY <1>1, <1>3, Started, Numbers DEF CallInv, Reps, Allowed
<1>6. InBounds' /\ NoAlignmentFault'
  BY <1>1 DEF IInv, InBounds, NoAlignmentFault
<1>. QED  BY <1>1, <1>4, <1>5, <1>6 DEF IInv, EndInv, Paths

-----------------------------------------------------------------------------
(***************************************************************************)
(* rep movs.                                                               *)
(***************************************************************************)

\* The caller passes whole numbers of units.
LEMMA WholeUnits ==
  ASSUME NEW n \in Nat, NEW u \in {1, 2, 4, 8}, n % u = 0
  PROVE  (n \div u) * u = n
OBVIOUS

LEMMA UnitsAreWhole ==
  ASSUME IInv, pc = "start", variant \in ErmsVariants
  PROVE  Unit \in {1, 2, 4, 8} /\ size % Unit = 0 /\ Units * Unit = size
<1>1. Granted(variant, [dst |-> dst, src |-> src, size |-> size])
  BY Started
<1>2. PICK n \in Nat : n = size
  BY Numbers
<1>3. Unit \in {1, 2, 4, 8} /\ n % Unit = 0
  BY <1>1, <1>2 DEF Unit, Granted, ErmsVariants
<1>4. PICK u \in {1, 2, 4, 8} : u = Unit
  BY <1>3
<1>5. (n \div u) * u = n
  BY <1>3, <1>4, WholeUnits
<1>. QED  BY <1>2, <1>3, <1>4, <1>5 DEF Units

LEMMA EnterRepKeeps ==
  ASSUME IInv, pc = "start", variant \in ErmsVariants,
         NEW path \in Reps, NEW from \in {0, size}, NEW value \in -1 .. MemSz,
         EnterRep(path, from, value), Directed(path),
         path = "rep" => from = 0, path = "rep_back" => from = size
  PROVE  IInv'
<1>a. PICK l : l = Loop(1, Unit, "UNALIGNED", "UNALIGNED")
  OBVIOUS
<1>0. /\ pc' = path /\ loop' = l /\ offset' = from /\ variant' = variant
      /\ dst' = dst /\ src' = src /\ size' = size /\ routine' = routine /\ limits' = limits
      /\ save' = save /\ ret' = value /\ mem' = mem /\ acc' = acc
  BY <1>a DEF EnterRep
<1>1. Unit \in {1, 2, 4, 8} /\ size % Unit = 0
  BY UnitsAreWhole
<1>2. PICK u \in {1, 2, 4, 8} : u = Unit
  BY <1>1
<1>3. l.step = u /\ l.vec = u /\ l.ld = "UNALIGNED" /\ l.st = "UNALIGNED"
  BY <1>a, <1>2 DEF Loop
<1>4. Delivering(mem, dst, src, size, {}, {})
  BY Started
<1>5. path \in Paths /\ path \notin Aparts \cup {"start", "kept", "done"}
  BY DEF Aparts, Paths, Reps
<1>6. TypeOK'
  BY <1>0, <1>5, Numbers DEF IInv, TypeOK
<1>7. CallInv' /\ EndInv'
  BY <1>0, <1>5, Numbers DEF CallInv, EndInv
<1>8. InBounds' /\ NoAlignmentFault'
  BY <1>0 DEF IInv, InBounds, NoAlignmentFault
<1>9. Directed(path)'
  BY <1>0 DEF Directed, Apart
<1>10. Touched(path, from, size) = {} /\ InPlace(path, from, size, {}) = {}
  <2>1. Touched(path, from, size) = {}
    BY Numbers DEF Touched, Reps, Fwds, Backs
  <2>. QED  BY <1>5, <2>1 DEF InPlace
<1>11. Kept' = {}
  BY <1>0 DEF Kept
<1>12. Fits(path, size, l.step, from, u)
  <2>1. from % u = 0
    BY <1>1, <1>2, Numbers
  <2>. QED  BY <1>1, <1>2, <1>3, <2>1 DEF Fits, Reps, EightVectors, FourVectors
<1>13. AlignedAt(l, from)'
  <2>1. l.step = 1 * l.vec
    BY <1>3
  <2>. QED  BY <1>0, <1>3, <2>1 DEF AlignedAt
<1>14. KeepsEnd(path, size, DOMAIN save)'
  BY DEF KeepsEnd, Reps
<1>15. LoopInv'
  <2>1. Unit' = u
    BY <1>0, <1>2 DEF Unit
  <2>2. Fits(pc, size, loop.step, offset, Unit)'
    BY <1>0, <1>12, <2>1, Zenon DEF Fits
  <2>3. Delivering(mem, dst, src, size, InPlace(pc, offset, size, Kept),
                   Touched(pc, offset, size))'
    <3>1. InPlace(pc, offset, size, Kept)' = {} /\ Touched(pc, offset, size)' = {}
      BY <1>0, <1>10, <1>11, Zenon DEF InPlace, Touched
    <3>. QED  BY <1>0, <1>4, <3>1, Zenon DEF Delivering
  <2>4. pc' = path /\ loop' = l /\ offset' = from
    BY <1>0
  <2>. QED  BY <1>5, <1>9, <1>13, <1>14, <2>2, <2>3, <2>4
            DEF LoopInv, Directed, Apart, AlignedAt, KeepsEnd
<1>. QED  BY <1>0, <1>5, <1>6, <1>7, <1>8, <1>15 DEF IInv

LEMMA RepMovsKeeps ==
  ASSUME IInv, RepMovs \/ RepMovsBack
  PROVE  IInv'
<1>0. pc = "start" /\ variant \in ErmsVariants
  BY DEF RepMovs, RepMovsBack, Called
<1>1. CASE RepMovs
  <2>1. PICK value \in {dst, dst + Units * Unit} : EnterRep("rep", 0, value)
    BY <1>1, Zenon DEF RepMovs
  <2>2. value \in -1 .. MemSz
    BY <1>0, <2>1, UnitsAreWhole, Numbers, MemSzAssumption
  <2>3. Directed("rep")
    <3>1. routine \in Memmoves => dst < src
      BY <1>1 DEF RepMovs
    <3>2. routine \notin Memmoves => Apart
      BY <1>0, CallApart
    <3>3. dst <= src \/ src + size <= dst
      BY <3>1, <3>2, Numbers DEF Apart
    <3>. QED  BY <3>3 DEF Directed, Aparts, Backs
  <2>. QED  BY <1>0, <2>1, <2>2, <2>3, EnterRepKeeps DEF Reps
<1>2. CASE RepMovsBack
  <2>1. PICK value \in {dst, dst + size - 1} : EnterRep("rep_back", size, value)
    BY <1>2 DEF RepMovsBack
  <2>2. value \in -1 .. MemSz
    BY <2>1, Numbers, MemSzAssumption
  <2>3. Directed("rep_back")
    BY <1>2 DEF RepMovsBack, Directed, Aparts, Fwds
  <2>. QED  BY <1>0, <2>1, <2>2, <2>3, EnterRepKeeps DEF Reps
<1>. QED  BY <1>1, <1>2

-----------------------------------------------------------------------------
(***************************************************************************)
(* Every iteration stays within what is left.                              *)
(***************************************************************************)
LEMMA LoopFits ==
  ASSUME IInv, pc \in Paths
  PROVE  Fits(pc, size, loop.step, offset, Unit)
BY DEF IInv, LoopInv

LEMMA IterateUpKeeps ==
  ASSUME IInv, UNCHANGED variant,
         NEW path, NEW vecs \in {4, 8}, NEW v \in {YMM_SZ, ZMM_SZ},
         \/ path \in FourVectors \ Backs /\ vecs = 4 /\ v = ZMM_SZ
         \/ path \in EightVectors \ {"avx512_rest"} /\ vecs = 8 /\ v = ZMM_SZ
         \/ path \in {"avx2_l1", "avx2_far"} /\ vecs = 4 /\ v = YMM_SZ,
         IterateForward(path, size - vecs * v)
  PROVE  IInv'
<1>1. path \in (Fwds \cup Aparts) \ {"avx512_rest"} /\ path \in Paths
  BY DEF FourVectors, EightVectors, Backs, Fwds, Aparts, Paths
<1>2. pc = path /\ offset < size - vecs * v
  BY DEF IterateForward, Forward
<1>3. Fits(path, size, loop.step, offset, Unit)
  BY <1>1, <1>2, LoopFits
<1>4. loop.step \in Nat /\ loop.step <= vecs * v
  BY <1>3, Registers DEF Fits
<1>5. vecs * v \in Nat
  BY Registers
<1>6. offset + loop.step <= size
  BY <1>2, <1>4, <1>5, Numbers
<1>. QED  BY <1>1, <1>6, ForwardKeeps

LEMMA IterateDownKeeps ==
  ASSUME IInv, UNCHANGED variant, NEW path \in FourVectors \cap Backs,
         NEW start, IterateBackward(path, start),
         \/ start = 4 * ZMM_SZ
         \/ path = "avx512_backward_aligned" /\ start = 3 * ZMM_SZ
  PROVE  IInv'
<1>1. path \in Paths
  BY DEF Backs, Paths
<1>2. pc = path /\ start < offset
  BY DEF IterateBackward, Backward
<1>3. Fits(path, size, loop.step, offset, Unit)
  BY <1>1, <1>2, LoopFits
<1>4. loop.step \in Nat /\ loop.step <= 4 * ZMM_SZ
  BY <1>3 DEF Fits
<1>5. CASE start = 4 * ZMM_SZ
  <2>1. PICK z \in Nat, p \in Nat : z = ZMM_SZ /\ p = 4 * z
    BY Registers
  <2>2. loop.step <= p /\ p < offset
    BY <1>2, <1>4, <1>5, <2>1
  <2>3. loop.step <= offset
    BY <1>4, <2>2, Numbers
  <2>. QED  BY <2>3, BackwardKeeps
<1>6. CASE path = "avx512_backward_aligned" /\ start = 3 * ZMM_SZ
  <2>0. PICK z \in Nat, x \in Int : z = ZMM_SZ /\ z > 0 /\ x = offset
    BY Registers, Numbers
  <2>1. PICK q \in Int : z = ZMM_SZ /\ z > 0 /\ x = offset /\ q = x \div z
    BY <2>0, DivMod
  <2>2. x = z * q /\ 3 * z < x
    <3>1. x % z = 0
      BY <1>3, <1>6, <2>1 DEF Fits
    <3>. QED  BY <1>2, <1>6, <2>1, <3>1, DivMod
  <2>3. 4 * z <= x
    <3>. SUFFICES ASSUME q <= 3  PROVE FALSE
      <4>1. CASE q >= 4
        <5>1. (q - 3) * z >= z
          BY <2>1, <4>1, MultipleAtLeast
        <5>2. (q - 3) * z = x - 3 * z
          BY <2>1, <2>2
        <5>. QED  BY <2>1, <5>1, <5>2
      <4>. QED  BY <2>1, <4>1
    <3>1. CASE q = 3
      BY <2>1, <2>2, <3>1
    <3>2. CASE q <= 2
      <4>1. (3 - q) * z >= z
        BY <2>1, <3>2, MultipleAtLeast
      <4>2. (3 - q) * z = 3 * z - x
        BY <2>1, <2>2
      <4>. QED  BY <2>1, <2>2, <4>1, <4>2
    <3>. QED  BY <2>1, <3>1, <3>2
  <2>4. loop.step <= offset
    BY <1>4, <2>1, <2>3, Numbers
  <2>. QED  BY <2>4, BackwardKeeps
<1>. QED  BY <1>5, <1>6

\* Whole units are left while any byte is.
LEMMA NextUnit ==
  ASSUME NEW o \in Nat, NEW n \in Nat, NEW u \in {1, 2, 4, 8}, o % u = 0, n % u = 0, o < n
  PROVE  o + u <= n
OBVIOUS

LEMMA IterateRepKeeps ==
  ASSUME IInv, IterateRep
  PROVE  IInv'
<1>1. UNCHANGED variant /\ pc \in Reps /\ pc \in Paths
  BY DEF IterateRep, IterateForward, IterateBackward, Reps, Paths
<1>2. Fits(pc, size, loop.step, offset, Unit)
  BY <1>1, LoopFits
<1>3. PICK u \in {1, 2, 4, 8} : u = Unit /\ loop.step = u /\ offset % u = 0 /\ size % u = 0
  BY <1>1, <1>2 DEF Fits
<1>4. PICK n \in Nat, o \in Nat : n = size /\ o = offset
  BY Numbers
<1>5. Units * Unit = n
  BY <1>3, <1>4, WholeUnits DEF Units
<1>6. CASE IterateForward("rep", Units * Unit)
  <2>1. o < n
    BY <1>4, <1>5, <1>6 DEF IterateForward, Forward
  <2>2. offset + loop.step <= size
    BY <1>3, <1>4, <2>1, NextUnit
  <2>. QED  BY <1>1, <1>6, <2>2, ForwardKeeps DEF Fwds
<1>7. CASE IterateBackward("rep_back", size - Units * Unit)
  <2>1. 0 < o
    BY <1>4, <1>5, <1>7 DEF IterateBackward, Backward
  <2>2. 0 + u <= o
    BY <1>3, <1>4, <2>1, NextUnit
  <2>3. loop.step <= offset
    BY <1>3, <1>4, <2>2
  <2>. QED  BY <1>1, <1>7, <2>3, BackwardKeeps DEF Backs
<1>. QED  BY <1>6, <1>7 DEF IterateRep

-----------------------------------------------------------------------------
(***************************************************************************)
(* The tails move all that the loops have left.                            *)
(***************************************************************************)
LEMMA ApartDone ==
  ASSUME IInv, NEW path \in Aparts, pc = path, NEW O, AfterLoop(O, "done"), UNCHANGED variant,
         O \subseteq 0 .. size - 1,
         \/ offset .. size - 1 \subseteq O
         \/ path \in {"zen4_disjoint", "between"} /\ size - 4 * ZMM_SZ <= offset
  PROVE  IInv'
<1>1. path \in Paths
  BY DEF Aparts, Paths
<1>2. 0 .. size - 1 \subseteq InPlace(path, offset, size, Kept) \cup O
  <2>1. CASE offset .. size - 1 \subseteq O
    <3>1. 0 .. offset - 1 \subseteq InPlace(path, offset, size, Kept)
      BY DEF InPlace
    <3>2. 0 .. size - 1 \subseteq (0 .. offset - 1) \cup (offset .. size - 1)
      BY Numbers
    <3>. QED  BY <2>1, <3>1, <3>2
  <2>2. CASE path \in {"zen4_disjoint", "between"} /\ size - 4 * ZMM_SZ <= offset
    <3>1. InPlace(path, offset, size, Kept)
            = (0 .. offset - 1) \cup (size - 4 * ZMM_SZ .. size - 1)
      BY <2>2 DEF InPlace
    <3>2. PICK f \in Int : f = size - 4 * ZMM_SZ
      BY Numbers, Registers
    <3>3. 0 .. size - 1 \subseteq (0 .. offset - 1) \cup (f .. size - 1)
      BY <2>2, <3>2, Numbers
    <3>. QED  BY <3>1, <3>2, <3>3
  <2>. QED  BY <2>1, <2>2
<1>. QED  BY <1>1, <1>2, TailKeeps

LEMMA LastCovers ==
  ASSUME IInv, NEW p \in Nat, size - offset <= p, p <= size
  PROVE  /\ Block(size - p, p) \subseteq 0 .. size - 1
         /\ offset .. size - 1 \subseteq Block(size - p, p)
<1>1. Block(size - p, p) = size - p .. size - 1
  BY Numbers DEF Block
<1>. QED  BY <1>1, Numbers

LEMMA VecsDone ==
  ASSUME IInv, NEW path \in Aparts, pc = path, NEW k \in 0 .. 8, NEW v \in {YMM_SZ, ZMM_SZ},
         AfterLoop(LastVecs(k, v), "done"), UNCHANGED variant,
         size - offset <= k * v, k * v <= size
  PROVE  IInv'
<1>1. PICK p \in Nat : p = k * v
  BY Registers
<1>2. PICK O : O = LastVecs(k, v)
  OBVIOUS
<1>3. O = Block(size - p, p)
  BY <1>1, <1>2 DEF LastVecs
<1>4. O \subseteq 0 .. size - 1 /\ offset .. size - 1 \subseteq O
  BY <1>1, <1>3, LastCovers
<1>. QED  BY <1>2, <1>4, ApartDone

\* How many vectors are left when c vectors would do.
LEMMA VecsLeft ==
  ASSUME IInv, NEW v \in {YMM_SZ, ZMM_SZ}, NEW c \in 0 .. 8, offset >= size - c * v
  PROVE  /\ rem_vecs(size - offset, v) \in 0 .. c
         /\ size - offset <= rem_vecs(size - offset, v) * v
<1>1. PICK n \in Nat, p \in Nat : n = size - offset /\ p = c * v
  <2>1. PICK p \in Nat : p = c * v
    BY Registers
  <2>2. PICK n \in Nat : n = size - offset
    BY Numbers
  <2>. QED  BY <2>1, <2>2
<1>2. n <= c * v
  BY <1>1, Numbers
<1>. QED  BY <1>1, <1>2, RemVecs

LEMMA FinishAvx2Keeps ==
  ASSUME IInv, FinishAvx2, UNCHANGED variant
  PROVE  IInv'
<1>1. pc \in {"avx2_l1", "avx2_far"} /\ offset >= size - 4 * YMM_SZ /\ pc \in Paths
  BY DEF FinishAvx2, LoopOver, Paths
<1>2. 8 * YMM_SZ < size
  BY <1>1, LoopFits DEF Fits
<1>3. PICK y \in Nat, n \in Nat : y = YMM_SZ /\ n = size - offset /\ y > 0 /\ n <= 4 * y
                                /\ 8 * y < size
  <2>1. PICK n \in Nat : n = size - offset
    BY Numbers
  <2>. QED  BY <1>1, <1>2, <2>1, Numbers, Registers
<1>4. CASE pc = "avx2_l1" /\ AfterLoop(L1Tail, "done")
  <2>1. PICK k \in 0 .. 4 : k = rem_vecs(n, y) /\ n <= k * y
    BY <1>1, <1>3, VecsLeft
  <2>2. L1Tail = IF k \in {1, 2} THEN LastVecs(k, y)
                 ELSE IF k \in {3, 4} THEN LastVecs(4, y) ELSE {}
    BY <1>3, <2>1 DEF L1Tail
  <2>3. CASE k \in {1, 2}
    <3>1. AfterLoop(LastVecs(k, y), "done")
      BY <1>4, <2>2, <2>3
    <3>2. size - offset <= k * y /\ k * y <= size
      BY <1>3, <2>1, <2>3, Numbers
    <3>. QED  BY <1>3, <1>4, <2>1, <3>1, <3>2, VecsDone DEF Aparts
  <2>4. CASE k \in {3, 4}
    <3>1. AfterLoop(LastVecs(4, y), "done")
      BY <1>4, <2>2, <2>4
    <3>2. size - offset <= 4 * y /\ 4 * y <= size
      BY <1>3, Numbers
    <3>. QED  BY <1>3, <1>4, <3>1, <3>2, VecsDone DEF Aparts
  <2>5. CASE k = 0
    <3>1. AfterLoop({}, "done")
      BY <1>4, <2>2, <2>5
    <3>2. offset .. size - 1 = {}
      BY <1>3, <2>1, <2>5, Numbers
    <3>. QED  BY <1>4, <3>1, <3>2, ApartDone DEF Aparts
  <2>. QED  BY <2>1, <2>3, <2>4, <2>5
<1>5. CASE pc = "avx2_far" /\ AfterLoop(LastVecs(4, YMM_SZ), "done")
  <2>1. size - offset <= 4 * y /\ 4 * y <= size
    BY <1>3, Numbers
  <2>. QED  BY <1>3, <1>5, <2>1, VecsDone DEF Aparts
<1>. QED  BY <1>4, <1>5, Zenon DEF FinishAvx2, LoopOver

LEMMA FinishApartKeeps ==
  ASSUME IInv, UNCHANGED variant,
         \/ LoopOver("zen4_disjoint", size - 4 * ZMM_SZ) /\ AfterLoop({}, "done")
         \/ LoopOver("between", size - 4 * ZMM_SZ) /\ AfterLoop({}, "done")
  PROVE  IInv'
<1>1. /\ pc \in {"zen4_disjoint", "between"} /\ pc \in Aparts /\ AfterLoop({}, "done")
      /\ size - 4 * ZMM_SZ <= offset
  <2>1. PICK f \in Int : f = size - 4 * ZMM_SZ
    BY Numbers, Registers
  <2>. QED  BY <2>1, Numbers DEF LoopOver, Aparts
<1>. QED  BY <1>1, ApartDone

LEMMA FinishVecsKeeps ==
  ASSUME IInv, UNCHANGED variant,
         \/ LoopOver("avx512_disjoint", size - 8 * ZMM_SZ) /\ AfterLoop(Avx512Tail, "done")
         \/ pc = "avx512_rest" /\ AfterLoop(Avx512Tail, "done")
         \/ LoopOver("zen5_vector", size - 4 * ZMM_SZ) /\ AfterLoop(VectorTail, "done")
         \/ LoopOver("zen5_stream", size - 8 * ZMM_SZ) /\ AfterLoop(LastVecs(8, ZMM_SZ), "done")
  PROVE  IInv'
<1>1. pc \in {"avx512_disjoint", "avx512_rest", "zen5_vector", "zen5_stream"}
      /\ pc \in Paths /\ pc \in Aparts
  BY DEF LoopOver, Paths, Aparts
<1>2. Fits(pc, size, loop.step, offset, Unit)
  BY <1>1, LoopFits
<1>3. PICK z \in Nat : z = ZMM_SZ /\ z > 0 /\ 8 * z < size
  <2>1. 8 * ZMM_SZ < size
    BY <1>1, <1>2 DEF Fits, EightVectors, FourVectors
  <2>. QED  BY <2>1, Registers
<1>4. PICK n \in Nat : n = size - offset
  BY Numbers
<1>5. CASE pc \in {"avx512_disjoint", "avx512_rest"} /\ AfterLoop(Avx512Tail, "done")
  <2>1. offset >= size - 8 * z
    <3>1. CASE pc = "avx512_rest"
      BY <1>2, <1>3, <3>1, Numbers DEF Fits
    <3>2. CASE LoopOver("avx512_disjoint", size - 8 * ZMM_SZ)
      BY <1>3, <3>2 DEF LoopOver
    <3>. QED  BY <1>5, <3>1, <3>2 DEF LoopOver
  <2>2. PICK k \in 0 .. 8 : k = rem_vecs(n, z) /\ n <= k * z
    BY <1>3, <1>4, <2>1, VecsLeft
  <2>3. PICK j \in {1, 2, 4, 8} :
          j = IF k > 4 THEN 8 ELSE IF k > 2 THEN 4 ELSE IF k = 2 THEN 2 ELSE 1
    OBVIOUS
  <2>4. Avx512Tail = LastVecs(j, z)
    BY <1>3, <1>4, <2>2, <2>3 DEF Avx512Tail
  <2>5. j \in 0 .. 8 /\ size - offset <= j * z /\ j * z <= size
    <3>1. k <= j
      BY <2>3
    <3>2. k * z <= j * z
      BY <3>1
    <3>3. j * z <= 8 * z
      OBVIOUS
    <3>. QED  BY <1>3, <1>4, <2>2, <3>2, <3>3, Numbers
  <2>. QED  BY <1>1, <1>3, <1>5, <2>4, <2>5, VecsDone
<1>6. CASE LoopOver("zen5_vector", size - 4 * ZMM_SZ) /\ AfterLoop(VectorTail, "done")
  <2>1. offset >= size - 4 * z
    BY <1>3, <1>6 DEF LoopOver
  <2>2. PICK k \in 0 .. 4 : k = rem_vecs(n, z) /\ n <= k * z
    BY <1>3, <1>4, <2>1, VecsLeft
  <2>3. VectorTail = IF k \in 1 .. 4 THEN LastVecs(k, z) ELSE {}
    BY <1>3, <1>4, <2>2 DEF VectorTail
  <2>4. CASE k \in 1 .. 4
    <3>1. k \in 0 .. 8 /\ size - offset <= k * z
      BY <1>4, <2>2
    <3>2. k * z <= 4 * z
      BY <2>4
    <3>3. k * z <= size
      BY <1>3, <2>2, <3>2, Numbers
    <3>4. AfterLoop(LastVecs(k, z), "done")
      BY <1>6, <2>3, <2>4
    <3>. QED  BY <1>1, <1>3, <3>1, <3>3, <3>4, VecsDone
  <2>5. CASE k = 0
    <3>1. AfterLoop({}, "done")
      BY <1>6, <2>3, <2>5
    <3>2. offset .. size - 1 = {}
      BY <1>4, <2>2, <2>5, <1>3, Numbers
    <3>. QED  BY <1>1, <3>1, <3>2, ApartDone
  <2>. QED  BY <2>2, <2>4, <2>5
<1>7. CASE LoopOver("zen5_stream", size - 8 * ZMM_SZ) /\ AfterLoop(LastVecs(8, ZMM_SZ), "done")
  <2>1. offset >= size - 8 * z
    BY <1>3, <1>7 DEF LoopOver
  <2>2. size - offset <= 8 * z /\ 8 * z <= size
    BY <1>3, <2>1, Numbers
  <2>. QED  BY <1>1, <1>3, <1>7, <2>2, VecsDone
<1>. QED  BY <1>5, <1>6, <1>7 DEF LoopOver

\* What a backward loop has left is moved, or has been kept.
LEMMA DownKept ==
  ASSUME IInv, NEW path \in Backs \ Reps, pc = path, NEW O, AfterLoop(O, "kept"), UNCHANGED variant,
         O = 0 .. offset - 1 \/ (O = {} /\ 0 .. offset - 1 \subseteq DOMAIN save)
  PROVE  IInv'
<1>1. path \in Paths /\ path \notin Aparts \cup Reps
  BY DEF Backs, Aparts, Paths
<1>2. /\ Touched(path, offset, size) = offset .. size - 1
      /\ InPlace(path, offset, size, Kept) = (offset .. size - 1) \ DOMAIN save
  BY <1>1 DEF Touched, InPlace, Kept, Fwds, Backs
<1>3. O \subseteq 0 .. size - 1 /\ O \cap Touched(path, offset, size) = {}
  BY <1>2, Numbers
<1>4. 0 .. size - 1 \subseteq (0 .. offset - 1) \cup (offset .. size - 1)
  BY Numbers
<1>5. (0 .. size - 1) \ DOMAIN save \subseteq InPlace(path, offset, size, Kept) \cup O
  BY <1>2, <1>4
<1>. QED  BY <1>1, <1>3, <1>5, TailKeeps

\* What a forward loop has left is moved, or has been kept.
LEMMA UpKept ==
  ASSUME IInv, NEW path \in Fwds \ Reps, pc = path, NEW O, AfterLoop(O, "kept"), UNCHANGED variant,
         O = offset .. size - 1 \/ (O = {} /\ offset .. size - 1 \subseteq DOMAIN save)
  PROVE  IInv'
<1>1. path \in Paths /\ path \notin Aparts \cup Reps
  BY DEF Fwds, Aparts, Paths
<1>2. /\ Touched(path, offset, size) = 0 .. offset - 1
      /\ InPlace(path, offset, size, Kept) = (0 .. offset - 1) \ DOMAIN save
  BY <1>1 DEF Touched, InPlace, Kept
<1>3. O \subseteq 0 .. size - 1 /\ O \cap Touched(path, offset, size) = {}
  BY <1>2, Numbers
<1>4. 0 .. size - 1 \subseteq (0 .. offset - 1) \cup (offset .. size - 1)
  BY Numbers
<1>5. (0 .. size - 1) \ DOMAIN save \subseteq InPlace(path, offset, size, Kept) \cup O
  BY <1>2, <1>4
<1>. QED  BY <1>1, <1>3, <1>5, TailKeeps

\* A head/tail group over what is left, from offset o on.
LEMMA ShiftRest ==
  ASSUME NEW n \in Nat, NEW o \in Nat
  PROVE  Shift(0 .. n - 1, o) = o .. o + n - 1
<1>1. ASSUME NEW i \in o .. o + n - 1
      PROVE  i \in Shift(0 .. n - 1, o)
  <2>1. PICK j \in 0 .. n - 1 : i = o + j
    <3>1. i - o \in 0 .. n - 1 /\ i = o + (i - o)
      OBVIOUS
    <3>. QED  BY <3>1
  <2>2. i = j + o \/ i = o + j
    BY <2>1
  <2>. QED  BY <2>1, <2>2 DEF Shift
<1>. QED  BY <1>1 DEF Shift

LEMMA RestIfUpToCovers ==
  ASSUME NEW n \in Nat, NEW c \in 0 .. 8, n <= c * ZMM_SZ
  PROVE  RestIfUpTo(c, n) = 0 .. n - 1
<1>1. PICK k \in 0 .. c : k = rem_vecs(n, ZMM_SZ) /\ n <= k * ZMM_SZ
  BY RemVecs
<1>2. Rest(n) = 0 .. n - 1
  <2>1. c * ZMM_SZ <= 8 * ZMM_SZ /\ c * ZMM_SZ \in Nat
    BY Registers
  <2>2. n <= 8 * ZMM_SZ
    BY <2>1, Registers
  <2>. QED  BY <2>2, RestCovers
<1>3. CASE k = 0
  <2>1. n = 0
    BY <1>1, <1>3, Registers
  <2>2. k \notin 1 .. c
    BY <1>3
  <2>. QED  BY <1>1, <2>1, <2>2 DEF RestIfUpTo
<1>4. CASE k # 0
  <2>1. k \in 1 .. c
    BY <1>1, <1>4
  <2>. QED  BY <1>1, <1>2, <2>1 DEF RestIfUpTo
<1>. QED  BY <1>3, <1>4

LEMMA FinishDownKeeps ==
  ASSUME IInv, UNCHANGED variant,
         \/ LoopOverBackward("zen4_backward", 4 * ZMM_SZ) /\ AfterLoop(Rest(offset), "kept")
         \/ LoopOverBackward("zen5_backward", 4 * ZMM_SZ)
              /\ AfterLoop(RestIfUpTo(4, offset), "kept")
         \/ LoopOverBackward("avx512_backward_aligned", 3 * ZMM_SZ) /\ AfterLoop({}, "kept")
         \/ LoopOverBackward("avx512_backward", 4 * ZMM_SZ) /\ AfterLoop({}, "kept")
         \/ LoopOverBackward("backward", 4 * ZMM_SZ) /\ AfterLoop({}, "kept")
  PROVE  IInv'
<1>0. PICK z \in Nat, o \in Nat : z = ZMM_SZ /\ o = offset
  BY Registers, Numbers
<1>1. pc \in Backs \ Reps /\ pc \in Paths /\ o <= 4 * z
  <2>1. 3 * z <= 4 * z
    BY <1>0
  <2>2. pc \in {"zen4_backward", "zen5_backward", "avx512_backward_aligned",
                "avx512_backward", "backward"}
    BY DEF LoopOverBackward
  <2>3. o <= 4 * z \/ o <= 3 * z
    BY <1>0 DEF LoopOverBackward
  <2>. QED  BY <2>1, <2>2, <2>3, <1>0 DEF Backs, Reps, Paths
<1>2. CASE AfterLoop(Rest(offset), "kept")
  <2>1. Rest(o) = 0 .. o - 1
    <3>1. o <= 8 * ZMM_SZ
      BY <1>0, <1>1
    <3>. QED  BY <3>1, RestCovers
  <2>2. PICK O : O = Rest(o)
    OBVIOUS
  <2>3. AfterLoop(O, "kept") /\ O = 0 .. offset - 1
    BY <1>0, <1>2, <2>1, <2>2
  <2>. QED  BY <1>1, <2>3, DownKept, Zenon
<1>3. CASE AfterLoop(RestIfUpTo(4, offset), "kept")
  <2>1. RestIfUpTo(4, o) = 0 .. o - 1
    BY <1>0, <1>1, RestIfUpToCovers
  <2>2. PICK O : O = RestIfUpTo(4, o)
    OBVIOUS
  <2>3. AfterLoop(O, "kept") /\ O = 0 .. offset - 1
    BY <1>0, <1>3, <2>1, <2>2
  <2>. QED  BY <1>1, <2>3, DownKept, Zenon
<1>4. CASE pc \in {"avx512_backward_aligned", "avx512_backward", "backward"} /\ AfterLoop({}, "kept")
  <2>1. 0 .. 4 * z - 1 \subseteq DOMAIN save
    BY <1>0, <1>1, <1>4 DEF IInv, LoopInv, KeepsEnd
  <2>2. 0 .. o - 1 \subseteq 0 .. 4 * z - 1
    BY <1>1
  <2>3. 0 .. offset - 1 \subseteq DOMAIN save
    BY <1>0, <2>1, <2>2
  <2>. QED  BY <1>1, <1>4, <2>3, DownKept
<1>. QED  BY <1>2, <1>3, <1>4 DEF LoopOverBackward

LEMMA FinishUpKeeps ==
  ASSUME IInv, UNCHANGED variant,
         \/ LoopOver("zen4_forward", size - 4 * ZMM_SZ)
              /\ AfterLoop(Shift(Rest(size - offset), offset), "kept")
         \/ LoopOver("zen5_forward", size - 4 * ZMM_SZ)
              /\ AfterLoop(Shift(RestIfUpTo(4, size - offset), offset), "kept")
         \/ LoopOver("zen5_forward_large", size - 8 * ZMM_SZ)
              /\ AfterLoop(Shift(RestIfUpTo(8, size - offset), offset), "kept")
         \/ LoopOver("avx512_forward", size - 4 * ZMM_SZ) /\ AfterLoop({}, "kept")
         \/ LoopOver("forward", size - 4 * ZMM_SZ) /\ AfterLoop({}, "kept")
  PROVE  IInv'
<1>0. PICK z \in Nat, o \in Nat, n \in Nat : z = ZMM_SZ /\ o = offset /\ n = size - offset
  <2>1. PICK n \in Nat : n = size - offset
    BY Numbers
  <2>. QED  BY <2>1, Registers, Numbers
<1>1. pc \in Fwds \ Reps /\ pc \in Paths
  BY DEF LoopOver, Fwds, Reps, Paths
<1>2. offset .. size - 1 = o .. o + n - 1
  BY <1>0, Numbers
<1>3. Shift(0 .. n - 1, o) = offset .. size - 1
  BY <1>2, ShiftRest
<1>4. ASSUME NEW E \in Nat, offset >= size - E
      PROVE  n <= E
  BY <1>0, <1>4, Numbers
<1>5. CASE LoopOver("zen4_forward", size - 4 * ZMM_SZ)
             /\ AfterLoop(Shift(Rest(size - offset), offset), "kept")
  <2>1. n <= 4 * z
    BY <1>0, <1>4, <1>5 DEF LoopOver
  <2>2. Rest(n) = 0 .. n - 1
    <3>1. n <= 8 * ZMM_SZ
      BY <1>0, <2>1
    <3>. QED  BY <3>1, RestCovers
  <2>3. PICK O : O = Shift(Rest(n), o)
    OBVIOUS
  <2>4. AfterLoop(O, "kept") /\ O = offset .. size - 1
    BY <1>0, <1>3, <1>5, <2>2, <2>3
  <2>. QED  BY <1>1, <2>4, UpKept, Zenon
<1>6. CASE LoopOver("zen5_forward", size - 4 * ZMM_SZ)
             /\ AfterLoop(Shift(RestIfUpTo(4, size - offset), offset), "kept")
  <2>1. n <= 4 * z
    BY <1>0, <1>4, <1>6 DEF LoopOver
  <2>2. RestIfUpTo(4, n) = 0 .. n - 1
    BY <1>0, <2>1, RestIfUpToCovers
  <2>3. PICK O : O = Shift(RestIfUpTo(4, n), o)
    OBVIOUS
  <2>4. AfterLoop(O, "kept") /\ O = offset .. size - 1
    BY <1>0, <1>3, <1>6, <2>2, <2>3
  <2>. QED  BY <1>1, <2>4, UpKept, Zenon
<1>7. CASE LoopOver("zen5_forward_large", size - 8 * ZMM_SZ)
             /\ AfterLoop(Shift(RestIfUpTo(8, size - offset), offset), "kept")
  <2>1. n <= 8 * z
    BY <1>0, <1>4, <1>7 DEF LoopOver
  <2>2. RestIfUpTo(8, n) = 0 .. n - 1
    BY <1>0, <2>1, RestIfUpToCovers
  <2>3. PICK O : O = Shift(RestIfUpTo(8, n), o)
    OBVIOUS
  <2>4. AfterLoop(O, "kept") /\ O = offset .. size - 1
    BY <1>0, <1>3, <1>7, <2>2, <2>3
  <2>. QED  BY <1>1, <2>4, UpKept, Zenon
<1>8. CASE pc \in {"avx512_forward", "forward"} /\ offset >= size - 4 * ZMM_SZ
           /\ AfterLoop({}, "kept")
  <2>1. size - 4 * ZMM_SZ .. size - 1 \subseteq DOMAIN save
    BY <1>1, <1>8 DEF IInv, LoopInv, KeepsEnd
  <2>2. PICK f \in Int : f = size - 4 * ZMM_SZ
    BY Numbers, Registers
  <2>3. offset .. size - 1 \subseteq f .. size - 1
    BY <1>8, <2>2, Numbers
  <2>4. offset .. size - 1 \subseteq DOMAIN save
    BY <2>1, <2>2, <2>3
  <2>. QED  BY <1>1, <1>8, <2>4, UpKept
<1>. QED  BY <1>5, <1>6, <1>7, <1>8 DEF LoopOver

LEMMA FinishRepKeeps ==
  ASSUME IInv, FinishRep
  PROVE  IInv'
<1>1. UNCHANGED variant /\ pc \in Reps /\ pc \in Paths /\ AfterLoop({}, "done")
  BY DEF FinishRep, LoopOver, LoopOverBackward, Reps, Paths
<1>2. Fits(pc, size, loop.step, offset, Unit)
  BY <1>1, LoopFits
<1>3. PICK u \in {1, 2, 4, 8} : u = Unit /\ size % u = 0
  BY <1>1, <1>2 DEF Fits
<1>4. PICK n \in Nat, o \in Nat : n = size /\ o = offset /\ o <= n
  BY Numbers
<1>5. Units * Unit = n
  BY <1>3, <1>4, WholeUnits DEF Units
<1>6. \/ pc = "rep" /\ o >= n
      \/ pc = "rep_back" /\ o <= 0
  <2>1. \/ pc = "rep" /\ offset >= Units * Unit
        \/ pc = "rep_back" /\ offset <= size - Units * Unit
    BY DEF FinishRep, LoopOver, LoopOverBackward
  <2>2. PICK m \in Nat : m = Units * Unit /\ m = n
    BY <1>5
  <2>3. \/ pc = "rep" /\ offset >= m
        \/ pc = "rep_back" /\ offset <= size - m
    BY <2>1, <2>2
  <2>. QED  BY ONLY <1>4, <2>2, <2>3
<1>7. 0 .. size - 1 \subseteq Touched(pc, offset, size)
  BY <1>4, <1>6 DEF Touched, Fwds, Backs
<1>8. InPlace(pc, offset, size, Kept) = Touched(pc, offset, size)
  BY <1>1 DEF InPlace, Kept, Aparts, Reps
<1>9. 0 .. size - 1 \subseteq InPlace(pc, offset, size, Kept) \cup {}
  BY <1>7, <1>8
<1>10. PICK O : O = {}
  OBVIOUS
<1>11. /\ AfterLoop(O, "done") /\ O \subseteq 0 .. size - 1
       /\ O \cap Touched(pc, offset, size) = {}
       /\ 0 .. size - 1 \subseteq InPlace(pc, offset, size, Kept) \cup O
  BY <1>1, <1>9, <1>10
<1>. QED  BY <1>1, <1>11, TailKeeps

-----------------------------------------------------------------------------
(***************************************************************************)
(* Every step of every routine.                                            *)
(***************************************************************************)
FourUp == {"zen4_forward", "zen4_disjoint", "avx512_forward", "zen5_forward",
           "zen5_vector", "between", "forward"}
EightUp == {"avx512_disjoint", "zen5_forward_large", "zen5_stream"}
FourDown == {"zen4_backward", "zen5_backward", "avx512_backward", "backward"}

LEMMA LoopsUpKeep ==
  ASSUME IInv, UNCHANGED variant,
         \/ \E path \in {"avx2_l1", "avx2_far"} : IterateForward(path, size - 4 * YMM_SZ)
         \/ \E path \in FourUp : IterateForward(path, size - 4 * ZMM_SZ)
         \/ \E path \in EightUp : IterateForward(path, size - 8 * ZMM_SZ)
  PROVE  IInv'
<1>1. CASE \E path \in {"avx2_l1", "avx2_far"} : IterateForward(path, size - 4 * YMM_SZ)
  <2>1. PICK path \in {"avx2_l1", "avx2_far"}, vecs \in {4, 8}, v \in {YMM_SZ, ZMM_SZ} :
          /\ vecs = 4 /\ v = YMM_SZ
          /\ IterateForward(path, size - vecs * v)
    BY <1>1
  <2>. QED  BY <2>1, IterateUpKeeps
<1>2. CASE \E path \in FourUp : IterateForward(path, size - 4 * ZMM_SZ)
  <2>1. PICK path \in FourUp, vecs \in {4, 8}, v \in {YMM_SZ, ZMM_SZ} :
          /\ vecs = 4 /\ v = ZMM_SZ
          /\ IterateForward(path, size - vecs * v)
    BY <1>2
  <2>2. path \in FourVectors \ Backs
    BY DEF FourUp, FourVectors, Backs
  <2>. QED  BY <2>1, <2>2, IterateUpKeeps
<1>3. CASE \E path \in EightUp : IterateForward(path, size - 8 * ZMM_SZ)
  <2>1. PICK path \in EightUp, vecs \in {4, 8}, v \in {YMM_SZ, ZMM_SZ} :
          /\ vecs = 8 /\ v = ZMM_SZ
          /\ IterateForward(path, size - vecs * v)
    BY <1>3
  <2>2. path \in EightVectors \ {"avx512_rest"}
    BY DEF EightUp, EightVectors
  <2>. QED  BY <2>1, <2>2, IterateUpKeeps
<1>. QED  BY <1>1, <1>2, <1>3

LEMMA LoopsDownKeep ==
  ASSUME IInv, UNCHANGED variant,
         \/ \E path \in FourDown : IterateBackward(path, 4 * ZMM_SZ)
         \/ IterateBackward("avx512_backward_aligned", 3 * ZMM_SZ)
  PROVE  IInv'
<1>1. FourDown \cup {"avx512_backward_aligned"} \subseteq FourVectors \cap Backs
  BY DEF FourDown, FourVectors, Backs
<1>2. CASE \E path \in FourDown : IterateBackward(path, 4 * ZMM_SZ)
  <2>1. PICK path \in FourVectors \cap Backs, start \in {3 * ZMM_SZ, 4 * ZMM_SZ} :
          IterateBackward(path, start) /\ start = 4 * ZMM_SZ
    BY <1>1, <1>2
  <2>. QED  BY <2>1, IterateDownKeeps
<1>3. CASE IterateBackward("avx512_backward_aligned", 3 * ZMM_SZ)
  <2>1. PICK path \in FourVectors \cap Backs, start \in {3 * ZMM_SZ, 4 * ZMM_SZ} :
          /\ IterateBackward(path, start) /\ start = 3 * ZMM_SZ
          /\ path = "avx512_backward_aligned"
    BY <1>1, <1>3
  <2>. QED  BY <2>1, IterateDownKeeps
<1>. QED  BY <1>2, <1>3

LEMMA StepAvx2Keeps ==
  ASSUME IInv, StepAvx2, UNCHANGED variant
  PROVE  IInv'
<1>1. CASE SmallAvx2
  BY <1>1, SmallAvx2Keeps, Zenon
<1>2. CASE L1Avx2 \/ FarAvx2
  BY <1>2, EnterAvx2Keeps, Zenon
<1>3. CASE FinishAvx2
  BY <1>3, FinishAvx2Keeps, Zenon
<1>4. CASE \/ IterateForward("avx2_l1", size - 4 * YMM_SZ)
           \/ IterateForward("avx2_far", size - 4 * YMM_SZ)
  <2>1. \E path \in {"avx2_l1", "avx2_far"} : IterateForward(path, size - 4 * YMM_SZ)
    BY <1>4, Zenon
  <2>. QED  BY <2>1, LoopsUpKeep, Zenon
<1>. QED  BY <1>1, <1>2, <1>3, <1>4, Zenon DEF StepAvx2

LEMMA StepZen4Keeps ==
  ASSUME IInv, StepZen4, UNCHANGED variant
  PROVE  IInv'
<1>1. CASE SmallZen4
  BY <1>1, SmallZen4Keeps, Zenon
<1>2. CASE BackwardZen4 \/ ForwardZen4
  BY <1>2, MoveZen4Keeps, Zenon
<1>3. CASE DisjointZen4
  BY <1>3, EnterZen4Keeps, Zenon
<1>4. CASE FinishZen4
  BY <1>4, FinishDownKeeps, FinishUpKeeps, FinishApartKeeps, Zenon DEF FinishZen4
<1>5. CASE IterateBackward("zen4_backward", 4 * ZMM_SZ)
  <2>1. "zen4_backward" \in FourDown
    BY DEF FourDown
  <2>. QED  BY <1>5, <2>1, LoopsDownKeep, Zenon
<1>6. CASE \/ IterateForward("zen4_forward", size - 4 * ZMM_SZ)
           \/ IterateForward("zen4_disjoint", size - 4 * ZMM_SZ)
  <2>1. "zen4_forward" \in FourUp /\ "zen4_disjoint" \in FourUp
    BY DEF FourUp
  <2>. QED  BY <1>6, <2>1, LoopsUpKeep, Zenon
<1>. QED  BY <1>1, <1>2, <1>3, <1>4, <1>5, <1>6, Zenon DEF StepZen4

LEMMA StepAvx512Keeps ==
  ASSUME IInv, StepAvx512, UNCHANGED variant
  PROVE  IInv'
<1>1. CASE SmallAvx512
  BY <1>1, SmallAvx512Keeps, Zenon
<1>2. CASE BackwardAvx512
  BY <1>2, BackwardAvx512Keeps, Zenon
<1>3. CASE ForwardAvx512
  BY <1>3, ForwardAvx512Keeps, Zenon
<1>4. CASE DisjointAvx512
  BY <1>4, EnterAvx512Keeps, Zenon
<1>5. CASE FinishAvx512
  BY <1>5, FinishDownKeeps, FinishUpKeeps, FinishVecsKeeps, Zenon DEF FinishAvx512
<1>6. CASE \/ IterateBackward("avx512_backward_aligned", 3 * ZMM_SZ)
           \/ IterateBackward("avx512_backward", 4 * ZMM_SZ)
  <2>1. "avx512_backward" \in FourDown
    BY DEF FourDown
  <2>. QED  BY <1>6, <2>1, LoopsDownKeep, Zenon
<1>7. CASE \/ IterateForward("avx512_forward", size - 4 * ZMM_SZ)
           \/ IterateForward("avx512_disjoint", size - 8 * ZMM_SZ)
  <2>1. "avx512_forward" \in FourUp /\ "avx512_disjoint" \in EightUp
    BY DEF FourUp, EightUp
  <2>. QED  BY <1>7, <2>1, LoopsUpKeep, Zenon
<1>. QED  BY <1>1, <1>2, <1>3, <1>4, <1>5, <1>6, <1>7, Zenon DEF StepAvx512

LEMMA StepErmsKeeps ==
  ASSUME IInv, StepErms, UNCHANGED variant
  PROVE  IInv'
<1>1. CASE SmallErms
  BY <1>1, SmallZen4Keeps, Zenon
<1>2. CASE BackwardErms \/ ForwardErms
  BY <1>2, MoveZen4Keeps, Zenon
<1>3. CASE DisjointErms
  BY <1>3, EnterErmsKeeps, Zenon
<1>4. CASE FinishErms
  BY <1>4, FinishDownKeeps, FinishUpKeeps, FinishVecsKeeps, Zenon DEF FinishErms
<1>5. CASE IterateBackward("zen5_backward", 4 * ZMM_SZ)
  <2>1. "zen5_backward" \in FourDown
    BY DEF FourDown
  <2>. QED  BY <1>5, <2>1, LoopsDownKeep, Zenon
<1>6. CASE \/ IterateForward("zen5_forward", size - 4 * ZMM_SZ)
           \/ IterateForward("zen5_forward_large", size - 8 * ZMM_SZ)
           \/ IterateForward("zen5_vector", size - 4 * ZMM_SZ)
           \/ IterateForward("zen5_stream", size - 8 * ZMM_SZ)
  <2>1. /\ "zen5_forward" \in FourUp /\ "zen5_vector" \in FourUp
        /\ "zen5_forward_large" \in EightUp /\ "zen5_stream" \in EightUp
    BY DEF FourUp, EightUp
  <2>. QED  BY <1>6, <2>1, LoopsUpKeep, Zenon
<1>. QED  BY <1>1, <1>2, <1>3, <1>4, <1>5, <1>6, Zenon DEF StepErms

LEMMA StepTunableKeeps ==
  ASSUME IInv, StepTunable
  PROVE  IInv'
<1>1. CASE ChooseByThreshold \/ AvoidStreaming
  BY <1>1, HandOverKeeps, Zenon
<1>2. CASE SmallTunable
  BY <1>2, SmallTunableKeeps, Zenon
<1>3. CASE CopyTunable
  BY <1>3, CopyTunableKeeps, Zenon
<1>4. CASE MoveForwardTunable
  BY <1>4, MoveForwardTunableKeeps, Zenon
<1>5. CASE MoveBackwardTunable
  BY <1>5, MoveBackwardTunableKeeps, Zenon
<1>6. CASE IterateTunable
  <2>1. "between" \in FourUp /\ "forward" \in FourUp /\ "backward" \in FourDown
    BY DEF FourUp, FourDown
  <2>. QED  BY <1>6, <2>1, LoopsUpKeep, LoopsDownKeep, Zenon DEF IterateTunable
<1>7. CASE FinishTunable
  BY <1>7, FinishApartKeeps, FinishUpKeeps, FinishDownKeeps, Zenon DEF FinishTunable
<1>8. CASE RepMovs \/ RepMovsBack
  BY <1>8, RepMovsKeeps, Zenon
<1>9. CASE IterateRep
  BY <1>9, IterateRepKeeps, Zenon
<1>10. CASE FinishRep
  BY <1>10, FinishRepKeeps, Zenon
<1>. QED  BY <1>1, <1>2, <1>3, <1>4, <1>5, <1>6, <1>7, <1>8, <1>9, <1>10, Zenon
          DEF StepTunable

LEMMA StutterKeeps ==
  ASSUME IInv, UNCHANGED copiesVars
  PROVE  IInv'
BY DEF copiesVars, vars, copyVars, IInv, TypeOK, CallInv, Result, LoopInv, Directed, Apart,
       Fits, Unit, AlignedAt, Kept, EndInv, InBounds, NoAlignmentFault

LEMMA Stepwise ==
  ASSUME IInv, [Next]_copiesVars
  PROVE  IInv'
<1>1. CASE StepOptimized
  BY <1>1, StepAvx2Keeps, StepZen4Keeps, StepAvx512Keeps, StepErmsKeeps, StoreKeeps, Zenon
  DEF StepOptimized
<1>2. CASE StepTunable
  BY <1>2, StepTunableKeeps, Zenon
<1>. QED  BY <1>1, <1>2, StutterKeeps, Zenon DEF Next, Step, Returned

LEMMA Initially ==
  ASSUME Init
  PROVE  IInv
<1>0. /\ mem = Untouched /\ ret = 0 /\ offset = 0
      /\ loop = Unaligned /\ save = << >> /\ acc = NoAccess /\ pc = "start"
  BY DEF Init
<1>1. /\ dst \in Nat /\ src \in Nat /\ size \in Nat
      /\ dst + size <= MemSz /\ src + size <= MemSz
      /\ Allowed(routine, [dst |-> dst, src |-> src, size |-> size])
      /\ Granted(variant, [dst |-> dst, src |-> src, size |-> size])
      /\ routine \in Optimized \cup TunableRoutines
      /\ variant \in Variants \cup {"none"}
      /\ limits \in LimitSets \cup ThresholdSets \cup {NoLimits}
  <2>1. CASE CallOptimized
    <3>1. PICK c \in Calls, r \in Optimized : Allowed(r, c) /\ With(c) /\ routine = r
      BY <2>1 DEF CallOptimized
    <3>2. variant = "none" /\ limits \in LimitSets
      BY <2>1 DEF CallOptimized
    <3>. QED  BY <3>1, <3>2, CallsAssumption DEF With, Allowed, Granted
  <2>2. CASE CallTunable
    <3>1. PICK c \in TunableCalls, r \in TunableRoutines, v \in Variants :
            Allowed(r, c) /\ Granted(v, c) /\ With(c) /\ routine = r /\ variant = v
      BY <2>2 DEF CallTunable
    <3>2. limits \in ThresholdSets \cup {NoLimits}
      BY <2>2 DEF CallTunable
    <3>. QED  BY <3>1, <3>2, TunableCallsAssumption DEF With, Allowed, Granted
  <2>. QED  BY <2>1, <2>2 DEF Init
<1>2. TypeOK
  <2>1. mem \in [Addr -> Addr]
    BY <1>0 DEF Untouched
  <2>2. dst \in 0 .. MemSz /\ src \in 0 .. MemSz /\ size \in 0 .. MemSz
    BY <1>1, MemSzAssumption
  <2>3. ret \in -1 .. MemSz /\ offset \in 0 .. size
    BY <1>0, <1>1, MemSzAssumption
  <2>4. DOMAIN save = {}
    BY <1>0
  <2>. QED  BY <1>0, <1>1, <2>1, <2>2, <2>3, <2>4 DEF TypeOK
<1>3. CallInv
  BY <1>0, <1>1 DEF CallInv, Reps
<1>4. InBounds /\ NoAlignmentFault
  BY <1>0 DEF InBounds, NoAlignmentFault, NoAccess, Unaligned, Loop
<1>. QED  BY <1>0, <1>2, <1>3, <1>4 DEF IInv, EndInv, Paths

\* A byte that has not been moved is still at its source.
LEMMA SourceUnwritten ==
  ASSUME IInv, pc \in Paths, NEW i \in 0 .. size - 1, NEW T, T = Touched(pc, offset, size),
         NEW G, Delivering(mem, dst, src, size, G, T), pc \in Aparts \/ i \notin T
  PROVE  mem[src + i] = src + i
<1>1. PICK O : O = {i}
  OBVIOUS
<1>2. O \subseteq 0 .. size - 1 /\ (pc \in Aparts \/ O \cap T = {}) /\ i \in O
  BY <1>1
<1>3. (src + i) - dst \notin T
  BY <1>2, SourceIntact
<1>4. src + i \in Addr
  BY Numbers, MemSzAssumption DEF Addr
<1>. QED  BY <1>3, <1>4 DEF Delivering

-----------------------------------------------------------------------------
THEOREM CopiesInvariance == Spec => []IInv
<1>1. IInv /\ [Next]_copiesVars => IInv'
  BY Stepwise
<1>. QED  BY <1>1, Initially, PTL DEF Spec

\* The state of a copy keeps its shape: no offset passes the size, and the registers kept
\* for the end hold bytes of the buffer only.
THEOREM CopiesTyped == Spec => []TypeOK
<1>1. IInv => TypeOK
  BY DEF IInv
<1>. QED  BY <1>1, CopiesInvariance, PTL

\* When a copy of the zen1 to zen5 builds, or a variant, returns, the destination holds
\* the source as it was at the call and no other byte has changed: for every size,
\* overlap, alignment, register size, cache size and threshold.
THEOREM CopiesCorrect == Spec => []CopyIsCorrect
<1>1. ASSUME IInv, pc = "done"
      PROVE  mem = Moved(dst, src, size) /\ (variant \notin ErmsVariants => ret = Result)
  <2>1. Delivering(mem, dst, src, size, 0 .. size - 1, 0 .. size - 1)
    BY <1>1 DEF IInv, EndInv
  <2>2. mem = Moved(dst, src, size)
    BY <2>1, AllMoved
  <2>3. variant \notin ErmsVariants => ret = Result
    BY <1>1 DEF IInv, CallInv
  <2>. QED  BY <2>2, <2>3
<1>2. IInv => CopyIsCorrect
  BY <1>1 DEF CopyIsCorrect
<1>. QED  BY <1>2, CopiesInvariance, PTL

\* No load and no store of a copy leaves the buffers of its caller: every head/tail group,
\* iteration and tail ends where the buffer does, at the latest.
THEOREM CopiesInBounds == Spec => []InBounds
<1>1. IInv => InBounds
  BY DEF IInv
<1>. QED  BY <1>1, CopiesInvariance, PTL

\* The loops that load or store with aligned or non-temporal instructions meet aligned
\* addresses only, in every iteration.
THEOREM CopiesAligned == Spec => []NoAlignmentFault
<1>1. IInv => NoAlignmentFault
  BY DEF IInv
<1>. QED  BY <1>1, CopiesInvariance, PTL

\* No overlapping move destroys the last copy of a byte that it has still to deliver.
THEOREM CopiesLoseNothing == Spec => []NothingLost
<1>1. ASSUME IInv, NEW i \in 0 .. size - 1
      PROVE  \/ mem[dst + i] = src + i
             \/ mem[src + i] = src + i
             \/ i \in DOMAIN save /\ save[i] = src + i
  <2>0. /\ i \in Nat /\ src + i \in Addr
    BY <1>1, Numbers, MemSzAssumption DEF Addr
  <2>1. CASE pc = "start"
    BY <1>1, <2>0, <2>1, Started DEF Untouched
  <2>2. CASE pc = "done"
    BY <1>1, <2>2 DEF IInv, EndInv, Delivering
  <2>3. CASE pc = "kept"
    <3>1. /\ save = Original(src, DOMAIN save)
          /\ Delivering(mem, dst, src, size, (0 .. size - 1) \ DOMAIN save, 0 .. size - 1)
      BY <1>1, <2>3 DEF IInv, EndInv
    <3>2. CASE i \in DOMAIN save
      BY <3>1, <3>2 DEF Original
    <3>3. CASE i \notin DOMAIN save
      BY <1>1, <3>1, <3>3 DEF Delivering
    <3>. QED  BY <3>2, <3>3
  <2>4. CASE pc \in Paths
    <3>1. PICK G, T : G = InPlace(pc, offset, size, Kept) /\ T = Touched(pc, offset, size)
      OBVIOUS
    <3>2. Delivering(mem, dst, src, size, G, T)
      BY <1>1, <2>4, <3>1 DEF IInv, LoopInv
    <3>3. CASE i \in G
      BY <3>2, <3>3 DEF Delivering
    <3>4. CASE i \in Kept
      <4>1. i \in DOMAIN save /\ pc \notin Reps
        BY <3>4 DEF Kept
      <4>2. CASE pc \in Aparts
        BY <1>1, <2>0, <2>4, <3>1, <3>2, <4>2, SourceUnwritten
      <4>3. CASE pc \notin Aparts
        <5>1. save = Original(src, DOMAIN save)
          BY <1>1, <2>4, <4>1, <4>3 DEF IInv, LoopInv
        <5>. QED  BY <4>1, <5>1 DEF Original
      <4>. QED  BY <4>2, <4>3
    <3>5. CASE i \notin G \cup Kept
      <4>1. pc \in Aparts \/ i \notin T
        BY <3>1, <3>5 DEF InPlace
      <4>. QED  BY <1>1, <2>0, <2>4, <3>1, <3>2, <4>1, SourceUnwritten
    <3>. QED  BY <3>3, <3>4, <3>5
  <2>. QED  BY <1>1, <2>1, <2>2, <2>3, <2>4 DEF IInv, TypeOK
<1>2. IInv => NothingLost
  BY <1>1 DEF NothingLost
<1>. QED  BY <1>2, CopiesInvariance, PTL

=============================================================================
