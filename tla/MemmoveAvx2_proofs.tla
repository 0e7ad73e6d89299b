-------------------------- MODULE MemmoveAvx2_proofs --------------------------
(***************************************************************************)
(* _memmove_avx2 is correct for every register width, every pair of        *)
(* buffers and every threshold.  The inductive invariant is LoopInvariant  *)
(* with the types and the bounds it needs; each action has a lemma.        *)
(***************************************************************************)
EXTENDS MemmoveAvx2, Arithmetic_proofs

-----------------------------------------------------------------------------
(***************************************************************************)
(* Head and tail groups of k bytes cover n bytes exactly when they meet:   *)
(* the fact behind every "size <= 2 * VEC" path of the library.            *)
(***************************************************************************)
LEMMA EndsCover ==
  ASSUME NEW k \in Nat, NEW n \in Nat, k <= n, n <= 2 * k
  PROVE  Ends(k, n) = 0 .. n - 1
BY DEF Ends, Block

\* Head and tail groups stay inside the n bytes.
LEMMA EndsInside ==
  ASSUME NEW k \in Nat, NEW n \in Nat, k <= n
  PROVE  Ends(k, n) \subseteq 0 .. n - 1
BY DEF Ends, Block

\* Two adjacent blocks make one.
LEMMA BlocksJoin ==
  ASSUME NEW a \in Int, NEW b \in Int, NEW c \in Int, a <= b, b <= c
  PROVE  Block(b, c - b) \cup Block(a, b - a) = Block(a, c - a)
BY DEF Block

(***************************************************************************)
(* A group O whose source bytes have not been written yet delivers them,   *)
(* and leaves in place the bytes D delivered before it.                    *)
(***************************************************************************)
LEMMA TransferDelivers ==
  ASSUME NEW m, NEW d, NEW s, NEW n, NEW D, NEW O,
         Partial(m, d, s, n, D),
         O \subseteq 0 .. n - 1,
         \A i \in O : (s + i) - d \notin D
  PROVE  Partial(Transferred(m, d, s, O), d, s, n, D \cup O)
  <1> DEFINE m1 == Transferred(m, d, s, O)
  <1>0. /\ MemSz \in Nat /\ d \in Nat /\ s \in Nat /\ n \in Nat
        /\ d + n <= MemSz /\ s + n <= MemSz
        /\ D \subseteq 0 .. n - 1
        /\ m \in [Addr -> Addr]
        /\ \A i \in D : m[d + i] = s + i
        /\ \A a \in Addr : a - d \notin D => m[a] = a
    BY MemSzAssumption DEF Partial
  <1>1. ASSUME NEW i \in O
        PROVE  s + i \in Addr /\ m[s + i] = s + i
    <2>1. i \in 0 .. n - 1 OBVIOUS
    <2>2. s + i \in Addr BY <1>0, <2>1 DEF Addr
    <2> QED BY <1>0, <2>2
  <1>2. ASSUME NEW i \in D \cup O
        PROVE  d + i \in Addr /\ (d + i) - d = i /\ i \in Int
    <2>1. i \in 0 .. n - 1 BY <1>0
    <2> QED BY <1>0, <2>1 DEF Addr
  <1>3. ASSUME NEW a \in Addr, a - d \in O
        PROVE  m1[a] = s + (a - d) /\ m1[a] \in Addr
    BY <1>0, <1>1, <1>3 DEF Transferred, Addr
  <1>4. ASSUME NEW i \in D \cup O
        PROVE  m1[d + i] = s + i
    <2>1. CASE i \in O BY <1>2, <1>3, <2>1
    <2>2. CASE i \notin O BY <1>0, <1>2, <2>2 DEF Transferred
    <2> QED BY <2>1, <2>2
  <1>5. \A a \in Addr : a - d \notin D \cup O => m1[a] = a
    BY <1>0 DEF Transferred
  <1>6. m1 \in [Addr -> Addr]
    BY <1>0, <1>3 DEF Transferred
  <1> QED BY <1>0, <1>4, <1>5, <1>6 DEF Partial

(***************************************************************************)
(* Registers that hold the bytes O of the source deliver them when they    *)
(* are stored, whatever has become of the source by then.                  *)
(***************************************************************************)
LEMMA StoreDelivers ==
  ASSUME NEW m, NEW d, NEW s, NEW n, NEW D, NEW O,
         Partial(m, d, s, n, D),
         O \subseteq 0 .. n - 1
  PROVE  Partial(Stored(m, d, Original(s, O)), d, s, n, D \cup O)
  <1> DEFINE m1 == Stored(m, d, Original(s, O))
  <1>0. /\ MemSz \in Nat /\ d \in Nat /\ s \in Nat /\ n \in Nat
        /\ d + n <= MemSz /\ s + n <= MemSz
        /\ D \subseteq 0 .. n - 1
        /\ m \in [Addr -> Addr]
        /\ \A i \in D : m[d + i] = s + i
        /\ \A a \in Addr : a - d \notin D => m[a] = a
    BY MemSzAssumption DEF Partial
  <1>1. m1 = [a \in Addr |-> IF a - d \in O THEN s + (a - d) ELSE m[a]]
    BY DEF Stored, Original
  <1> HIDE DEF m1
  <1>2. ASSUME NEW i \in D \cup O
        PROVE  d + i \in Addr /\ (d + i) - d = i /\ s + i \in Addr /\ i \in Int
    <2>1. i \in 0 .. n - 1 BY <1>0
    <2> QED BY <1>0, <2>1 DEF Addr
  <1>4. ASSUME NEW i \in D \cup O
        PROVE  m1[d + i] = s + i
    <2>1. CASE i \in O BY <1>1, <1>2, <2>1
    <2>2. CASE i \notin O BY <1>0, <1>1, <1>2, <2>2
    <2> QED BY <2>1, <2>2
  <1>5. \A a \in Addr : a - d \notin D \cup O => m1[a] = a
    BY <1>0, <1>1
  <1>6. m1 \in [Addr -> Addr]
    BY <1>0, <1>1, <1>2
  <1> QED BY <1>0, <1>4, <1>5, <1>6 DEF Partial, m1

(***************************************************************************)
(* A copy is complete when all of its bytes are in place and nothing else  *)
(* has been written.                                                       *)
(***************************************************************************)
LEMMA AllDelivered ==
  ASSUME NEW m, NEW d, NEW s, NEW n, Partial(m, d, s, n, 0 .. n - 1)
  PROVE  m = Moved(d, s, n)
  <1>0. /\ MemSz \in Nat /\ d \in Nat /\ s \in Nat /\ n \in Nat
        /\ m \in [Addr -> Addr]
        /\ \A i \in 0 .. n - 1 : m[d + i] = s + i
        /\ \A a \in Addr : a - d \notin 0 .. n - 1 => m[a] = a
    BY MemSzAssumption DEF Partial
  <1>1. ASSUME NEW a \in Addr
        PROVE  m[a] = IF a - d \in 0 .. n - 1 THEN s + (a - d) ELSE a
    <2>1. a \in Int /\ d + (a - d) = a BY <1>0 DEF Addr
    <2> QED BY <1>0, <2>1
  <1> QED BY <1>0, <1>1 DEF Moved

-----------------------------------------------------------------------------
IInv == TypeOK /\ InBounds /\ LoopInvariant /\ MoveIsCorrect

USE MemSzAssumption, RegsAssumption

\* Two of the registers __load_store_le_2ymm_vec_overlap picks cover n bytes,
\* and one of them is not longer than n bytes.
LEMMA FitsCovers ==
  ASSUME NEW s \in Regs, NEW n \in Nat, n > 1, Fits(s, n)
  PROVE  s \in Nat /\ s <= n /\ n <= 2 * s
  <1>1. s \in Nat /\ n <= 2 * s
    BY DEF Regs, Fits, Takes
  <1>2. CASE s = 2
    BY <1>1, <1>2
  <1>3. CASE s # 2
    <2>1. PICK t \in Regs : s = 2 * t
      BY <1>3
    <2>2. t \in Nat /\ t < s
      BY <1>1, <2>1 DEF Regs
    <2>3. n >= 2 * t
      BY <2>1, <2>2 DEF Fits, Takes
    <2> QED BY <1>1, <2>1, <2>3
  <1> QED BY <1>2, <1>3

\* No copy is in progress initially.
LEMMA InitIInv == Init => IInv
  <1> SUFFICES ASSUME Init PROVE IInv
    OBVIOUS
  <1>1. TypeOK
    BY DEF Init, CopyInit, TypeOK, Untouched, Addr, LoopKinds
  <1> QED
    BY <1>1 DEF Init, CopyInit, IInv, InBounds, NoAccess, LoopInvariant, MoveIsCorrect

-----------------------------------------------------------------------------
\* A call that has started has delivered nothing yet.
LEMMA Started ==
  ASSUME IInv, pc = "start"
  PROVE  Progress({})
  BY DEF IInv, TypeOK, LoopInvariant, Progress, Partial, Untouched, Addr

\* A path that is one group completes the copy.
LEMMA MoveAndReturnCorrect ==
  ASSUME IInv, Start, NEW O, O = 0 .. size - 1, MoveAndReturn(O, dst)
  PROVE  IInv'
  <1>1. Partial(mem', dst, src, size, O)
    <2>1. Partial(mem, dst, src, size, {})
      BY Started DEF Start, Progress
    <2>2. Partial(Transferred(mem, dst, src, O), dst, src, size, {} \cup O)
      BY <2>1, TransferDelivers
    <2> QED BY <2>2 DEF MoveAndReturn, Move
  <1>2. mem' = Moved(dst, src, size)
    BY <1>1, AllDelivered
  <1>3. TypeOK'
    BY <1>1 DEF IInv, TypeOK, Partial, MoveAndReturn, Start
  <1> QED
    BY <1>2, <1>3 DEF IInv, InBounds, LoopInvariant, MoveIsCorrect, Moved, Addr,
                      MoveAndReturn, Move, Access

\* Up to two vectors: the two ends of the narrowest register that fits.
LEMMA MoveLe2YmmStep == IInv /\ MoveLe2Ymm => IInv'
  <1> SUFFICES ASSUME IInv, MoveLe2Ymm PROVE IInv'
    OBVIOUS
  <1>1. Start /\ size \in Nat
    BY DEF MoveLe2Ymm, IInv, TypeOK
  <1>2. CASE size <= 1 /\ MoveAndReturn(Block(0, size), dst)
    <2>1. Block(0, size) = 0 .. size - 1
      BY <1>1 DEF Block
    <2> QED BY <1>1, <1>2, <2>1, MoveAndReturnCorrect
  <1>3. CASE \E s \in Regs : size > 1 /\ Fits(s, size) /\ MoveAndReturn(Ends(s, size), dst)
    <2>1. PICK s \in Regs : size > 1 /\ Fits(s, size) /\ MoveAndReturn(Ends(s, size), dst)
      BY <1>3
    <2>2. Ends(s, size) = 0 .. size - 1
      BY <1>1, <2>1, FitsCovers, EndsCover
    <2> QED BY <1>1, <2>1, <2>2, MoveAndReturnCorrect
  <1> QED BY <1>2, <1>3 DEF MoveLe2Ymm

\* Up to four vectors: two at each end.
LEMMA MoveLe4YmmStep == IInv /\ MoveLe4Ymm => IInv'
  <1> SUFFICES ASSUME IInv, MoveLe4Ymm PROVE IInv'
    OBVIOUS
  <1>1. Start /\ size \in Nat
    BY DEF MoveLe4Ymm, IInv, TypeOK
  <1>2. Ends(2 * YMM_SZ, size) = 0 .. size - 1
    BY <1>1, EndsCover DEF MoveLe4Ymm
  <1> QED BY <1>1, <1>2, MoveAndReturnCorrect DEF MoveLe4Ymm

\* Up to eight vectors: four at each end.
LEMMA MoveLe8YmmStep == IInv /\ MoveLe8Ymm => IInv'
  <1> SUFFICES ASSUME IInv, MoveLe8Ymm PROVE IInv'
    OBVIOUS
  <1>1. Start /\ size \in Nat
    BY DEF MoveLe8Ymm, IInv, TypeOK
  <1>2. Ends(4 * YMM_SZ, size) = 0 .. size - 1
    BY <1>1, EndsCover DEF MoveLe8Ymm
  <1> QED BY <1>1, <1>2, MoveAndReturnCorrect DEF MoveLe8Ymm

-----------------------------------------------------------------------------
\* The loop of the disjoint path starts inside the first four vectors.
LEMMA FirstAlignedRange ==
  ASSUME dst \in Nat
  PROVE  FirstAligned \in Nat /\ 3 * YMM_SZ < FirstAligned /\ FirstAligned <= 4 * YMM_SZ
  <1>1. dst % YMM_SZ \in 0 .. YMM_SZ - 1
    OBVIOUS
  <1> QED BY <1>1 DEF FirstAligned

\* Every loop moves four vectors per iteration.
LEMMA LoopStep ==
  ASSUME NEW l \in LoopKinds \ {Unaligned}
  PROVE  l.step = 4 * YMM_SZ
  BY DEF LoopKinds, Loop, unaligned_load_and_store_4ymm_vec_loop,
         aligned_load_and_store_4ymm_vec_loop,
         aligned_load_nt_store_4ymm_vec_loop_pftch,
         unaligned_load_nt_store_4ymm_vec_loop

\* None of the four loops is the single-group access.
LEMMA NotUnaligned ==
  /\ unaligned_load_and_store_4ymm_vec_loop \in LoopKinds \ {Unaligned}
  /\ aligned_load_and_store_4ymm_vec_loop \in LoopKinds \ {Unaligned}
  /\ aligned_load_nt_store_4ymm_vec_loop_pftch \in LoopKinds \ {Unaligned}
  /\ unaligned_load_nt_store_4ymm_vec_loop \in LoopKinds \ {Unaligned}
  BY DEF LoopKinds, Loop, Unaligned, unaligned_load_and_store_4ymm_vec_loop,
         aligned_load_and_store_4ymm_vec_loop,
         aligned_load_nt_store_4ymm_vec_loop_pftch,
         unaligned_load_nt_store_4ymm_vec_loop

\* Entering the disjoint path: both ends are delivered, and the bytes before
\* the first aligned offset with them.
LEMMA StartDisjointStep == IInv /\ StartDisjoint => IInv'
  <1> SUFFICES ASSUME IInv, StartDisjoint PROVE IInv'
    OBVIOUS
  <1> DEFINE E == Ends(4 * YMM_SZ, size)
  <1>1. /\ Start /\ 8 * YMM_SZ < size /\ Disjoint
        /\ mem' = Transferred(mem, dst, src, E) /\ acc'.off = E
        /\ offset' = FirstAligned
        /\ ret' = dst /\ pc' = "disjoint"
        /\ UNCHANGED <<dst, src, size, save, nt_start_threshold>>
    BY DEF StartDisjoint, Start, Move, Access
  <1>2. /\ dst \in Nat /\ src \in Nat /\ size \in Nat
        /\ dst + size <= MemSz /\ src + size <= MemSz
        /\ nt_start_threshold \in NtStarts
    BY DEF IInv, TypeOK
  <1>3. E \subseteq 0 .. size - 1
    BY <1>1, <1>2, EndsInside
  <1>4. offset' \in Nat /\ offset' <= 4 * YMM_SZ /\ offset' <= size
    BY <1>1, <1>2, FirstAlignedRange
  <1>5. loop' \in LoopKinds \ {Unaligned}
    BY NotUnaligned DEF StartDisjoint
  <1>6. loop'.step = 4 * YMM_SZ
    BY <1>5, LoopStep
  <1>7. Partial(mem', dst, src, size, E)
    <2>1. Partial(mem, dst, src, size, {})
      BY Started, <1>1 DEF Start, Progress
    <2>2. Partial(Transferred(mem, dst, src, E), dst, src, size, {} \cup E)
      BY <1>3, <2>1, TransferDelivers
    <2> QED BY <1>1, <2>2
  <1>8. E \cup Block(0, offset') = E
    BY <1>4 DEF Ends, Block
  <1>9. TypeOK'
    BY <1>1, <1>2, <1>4, <1>5, <1>7 DEF TypeOK, Partial
  <1>10. LoopInvariant'
    BY <1>1, <1>4, <1>6, <1>7, <1>8 DEF LoopInvariant, Progress, Disjoint
  <1> QED
    BY <1>1, <1>3, <1>9, <1>10 DEF IInv, InBounds, MoveIsCorrect

\* Registers loaded before anything is written hold the bytes of the call.
LEMMA LoadedFromStart ==
  ASSUME IInv, pc = "start", NEW O, O \subseteq 0 .. size - 1
  PROVE  Load(O) = Original(src, O)
  <1>1. mem = Untouched /\ MemSz \in Nat /\ src \in Nat /\ size \in Nat
        /\ src + size <= MemSz
    BY DEF IInv, LoopInvariant, TypeOK
  <1>2. ASSUME NEW i \in O PROVE mem[src + i] = src + i
    <2>1. i \in 0 .. size - 1 OBVIOUS
    <2> QED BY <1>1, <2>1 DEF Untouched, Addr
  <1> QED BY <1>2 DEF Load, Original

\* Entering the backward path: nothing is delivered, the head is kept.
LEMMA StartBackwardStep == IInv /\ StartBackward => IInv'
  <1> SUFFICES ASSUME IInv, StartBackward PROVE IInv'
    OBVIOUS
  <1> DEFINE O == Block(0, 4 * YMM_SZ)
  <1>1. /\ Start /\ 8 * YMM_SZ < size /\ SrcRunsIntoDst
        /\ save' = Load(O) /\ acc'.off = O
        /\ offset' = size /\ loop' = unaligned_load_and_store_4ymm_vec_loop
        /\ ret' = dst /\ pc' = "backward"
        /\ UNCHANGED <<mem, dst, src, size, nt_start_threshold>>
    BY DEF StartBackward, Start, Access
  <1>2. dst \in Nat /\ src \in Nat /\ size \in Nat /\ mem \in [Addr -> Addr]
    BY DEF IInv, TypeOK
  <1>3. O \subseteq 0 .. size - 1 /\ Block(size, size - size) = {}
    BY <1>1, <1>2 DEF Block
  <1>4. save' = Original(src, O)
    BY <1>1, <1>3, LoadedFromStart DEF Start
  <1>5. Progress({})
    BY <1>1, Started DEF Start
  <1>6. loop' \in LoopKinds /\ loop'.step = 4 * YMM_SZ
    BY <1>1, NotUnaligned, LoopStep
  <1>7. TypeOK'
    BY <1>1, <1>2, <1>6 DEF IInv, TypeOK
  <1>8. LoopInvariant'
    <2>1. Block(offset', size' - offset') = {}
      BY <1>1, <1>2 DEF Block
    <2>2. Progress(Block(offset, size - offset))'
      BY <1>1, <1>5, <2>1 DEF Progress
    <2> QED
      BY <1>1, <1>2, <1>4, <1>6, <2>2 DEF LoopInvariant, SrcRunsIntoDst
  <1> QED
    BY <1>1, <1>3, <1>7, <1>8 DEF IInv, InBounds, MoveIsCorrect

\* Entering the forward path: nothing is delivered, the tail is kept.
LEMMA StartForwardStep == IInv /\ StartForward => IInv'
  <1> SUFFICES ASSUME IInv, StartForward PROVE IInv'
    OBVIOUS
  <1> DEFINE O == Block(TailStart, 4 * YMM_SZ)
  <1>1. /\ Start /\ 8 * YMM_SZ < size /\ ~Disjoint /\ ~SrcRunsIntoDst
        /\ save' = Load(O) /\ acc'.off = O
        /\ offset' = 0 /\ loop' = unaligned_load_and_store_4ymm_vec_loop
        /\ ret' = dst /\ pc' = "forward"
        /\ UNCHANGED <<mem, dst, src, size, nt_start_threshold>>
    BY DEF StartForward, Start, Access
  <1>2. dst \in Nat /\ src \in Nat /\ size \in Nat /\ mem \in [Addr -> Addr]
    BY DEF IInv, TypeOK
  <1>3. O \subseteq 0 .. size - 1 /\ Block(0, 0) = {}
    BY <1>1, <1>2 DEF Block, TailStart
  <1>4. save' = Original(src, O)
    BY <1>1, <1>3, LoadedFromStart DEF Start
  <1>5. Progress({})
    BY <1>1, Started DEF Start
  <1>6. loop' \in LoopKinds /\ loop'.step = 4 * YMM_SZ
    BY <1>1, NotUnaligned, LoopStep
  <1>7. TypeOK'
    BY <1>1, <1>2, <1>6 DEF IInv, TypeOK
  <1>8. LoopInvariant'
    <2>1. Block(0, offset') = {}
      BY <1>1 DEF Block
    <2>2. Progress(Block(0, offset))'
      BY <1>1, <1>5, <2>1 DEF Progress
    <2> QED
      BY <1>1, <1>2, <1>4, <1>6, <2>2
      DEF LoopInvariant, Disjoint, SrcRunsIntoDst, TailStart
  <1> QED
    BY <1>1, <1>3, <1>7, <1>8 DEF IInv, InBounds, MoveIsCorrect

-----------------------------------------------------------------------------
\* An iteration reads bytes no earlier store has reached: of disjoint buffers
\* because they are disjoint, of overlapping ones because the stores stay
\* behind the loads.
LEMMA ForwardIterationStep == IInv /\ ForwardIteration => IInv'
  <1> SUFFICES ASSUME IInv, ForwardIteration PROVE IInv'
    OBVIOUS
  <1> DEFINE O == Block(offset, 4 * YMM_SZ)
             D == IF pc = "disjoint" THEN Ends(4 * YMM_SZ, size) \cup Block(0, offset)
                                     ELSE Block(0, offset)
  <1>1. /\ pc \in {"disjoint", "forward"} /\ offset < TailStart
        /\ 8 * YMM_SZ < size /\ loop.step = 4 * YMM_SZ /\ ret = dst
    BY DEF IInv, LoopInvariant, ForwardIteration, Forward
  <1>2. /\ mem' = Transferred(mem, dst, src, O) /\ acc'.off = O
        /\ offset' = offset + 4 * YMM_SZ
        /\ UNCHANGED <<dst, src, size, ret, pc, loop, save, nt_start_threshold>>
    BY <1>1 DEF ForwardIteration, Forward, Move, Access
  <1>3. /\ dst \in Nat /\ src \in Nat /\ size \in Nat /\ offset \in Nat
        /\ dst + size <= MemSz /\ src + size <= MemSz
        /\ loop \in LoopKinds /\ ret \in Nat /\ nt_start_threshold \in NtStarts
    BY DEF IInv, TypeOK
  <1>4. O \subseteq 0 .. size - 1
    BY <1>1, <1>3 DEF Block, TailStart
  <1>5. Partial(mem, dst, src, size, D)
    BY <1>1 DEF IInv, LoopInvariant, Progress
  <1>6. \A i \in O : (src + i) - dst \notin D
    <2>1. CASE pc = "disjoint"
      <3>1. Disjoint BY <2>1 DEF IInv, LoopInvariant
      <3>2. D \subseteq 0 .. size - 1 BY <1>5 DEF Partial
      <3>3. \A i \in O : (src + i) - dst \notin 0 .. size - 1
        BY <1>3, <1>4, <3>1 DEF Disjoint
      <3> QED BY <3>2, <3>3
    <2>2. CASE pc = "forward"
      <3>1. ~SrcRunsIntoDst BY <2>2 DEF IInv, LoopInvariant
      <3>2. \A i \in O : (src + i) - dst \notin Block(0, offset)
        BY <1>1, <1>3, <3>1 DEF SrcRunsIntoDst, Block, TailStart
      <3> QED BY <2>2, <3>2
    <2> QED BY <1>1, <2>1, <2>2
  <1>7. Partial(mem', dst, src, size, D \cup O)
    BY <1>2, <1>4, <1>5, <1>6, TransferDelivers
  <1>8. Block(0, offset) \cup O = Block(0, offset')
    BY <1>2, <1>3 DEF Block
  <1>9. offset' \in Nat /\ offset' <= size
    BY <1>1, <1>2, <1>3 DEF TailStart
  <1>10. TypeOK'
    BY <1>1, <1>2, <1>3, <1>7, <1>9 DEF TypeOK, Partial
  <1>11. LoopInvariant'
    <2>1. CASE pc = "disjoint"
      <3>1. D \cup O = Ends(4 * YMM_SZ, size) \cup Block(0, offset')
        BY <1>8, <2>1
      <3>2. Disjoint BY <2>1 DEF IInv, LoopInvariant
      <3> QED
        BY <1>1, <1>2, <1>7, <1>9, <2>1, <3>1, <3>2 DEF LoopInvariant, Progress, Disjoint
    <2>2. CASE pc = "forward"
      <3>1. D \cup O = Block(0, offset')
        BY <1>8, <2>2
      <3>2. /\ ~Disjoint /\ ~SrcRunsIntoDst
            /\ save = Original(src, Block(TailStart, 4 * YMM_SZ))
        BY <2>2 DEF IInv, LoopInvariant
      <3> QED
        BY <1>1, <1>2, <1>7, <1>9, <2>2, <3>1, <3>2
        DEF LoopInvariant, Progress, Disjoint, SrcRunsIntoDst, TailStart
    <2> QED BY <1>1, <2>1, <2>2
  <1> QED
    BY <1>1, <1>2, <1>4, <1>10, <1>11 DEF IInv, InBounds, MoveIsCorrect

\* A backward iteration delivers the block below those delivered, whose
\* sources lie below everything written so far.
LEMMA BackwardIterationStep == IInv /\ BackwardIteration => IInv'
  <1> SUFFICES ASSUME IInv, BackwardIteration PROVE IInv'
    OBVIOUS
  <1> DEFINE O == Block(offset - 4 * YMM_SZ, 4 * YMM_SZ)
             D == Block(offset, size - offset)
  <1>1. /\ pc = "backward" /\ 4 * YMM_SZ < offset /\ offset <= size
        /\ 8 * YMM_SZ < size /\ loop.step = 4 * YMM_SZ /\ ret = dst
        /\ SrcRunsIntoDst
        /\ Partial(mem, dst, src, size, D)
        /\ save = Original(src, Block(0, 4 * YMM_SZ))
    BY DEF IInv, LoopInvariant, Progress, BackwardIteration, Backward
  <1>2. /\ mem' = Transferred(mem, dst, src, O) /\ acc'.off = O
        /\ offset' = offset - 4 * YMM_SZ
        /\ UNCHANGED <<dst, src, size, ret, pc, loop, save, nt_start_threshold>>
    BY <1>1 DEF BackwardIteration, Backward, Move, Access
  <1>3. /\ dst \in Nat /\ src \in Nat /\ size \in Nat /\ offset \in Nat
        /\ dst + size <= MemSz /\ src + size <= MemSz
        /\ loop \in LoopKinds /\ ret \in Nat /\ nt_start_threshold \in NtStarts
    BY DEF IInv, TypeOK
  <1>4. O \subseteq 0 .. size - 1
    BY <1>1, <1>3 DEF Block
  <1>5. \A i \in O : (src + i) - dst \notin D
    BY <1>1, <1>3 DEF Block, SrcRunsIntoDst
  <1>6. Partial(mem', dst, src, size, D \cup O)
    BY <1>1, <1>2, <1>4, <1>5, TransferDelivers
  <1>7. D \cup O = Block(offset', size - offset')
    <2>1. offset' \in Int /\ offset' <= offset
      BY <1>2, <1>3
    <2>2. O = Block(offset', offset - offset')
      BY <1>2, <1>3, <2>1
    <2>3. offset \in Int /\ size \in Int /\ offset <= size
      BY <1>1, <1>3
    <2>4. Block(offset, size - offset) \cup Block(offset', offset - offset')
            = Block(offset', size - offset')
      BY <2>1, <2>3, BlocksJoin, Zenon
    <2> QED BY <2>2, <2>4
  <1>8. offset' \in Nat /\ 0 < offset' /\ offset' <= size
    BY <1>1, <1>2, <1>3
  <1>9. TypeOK'
    BY <1>1, <1>2, <1>3, <1>6, <1>8 DEF TypeOK, Partial
  <1>10. LoopInvariant'
    BY <1>1, <1>2, <1>6, <1>7, <1>8 DEF LoopInvariant, Progress, SrcRunsIntoDst
  <1> QED
    BY <1>1, <1>2, <1>4, <1>9, <1>10 DEF IInv, InBounds, MoveIsCorrect

-----------------------------------------------------------------------------
\* When the disjoint loop is over, it has met the tail copied before it.
LEMMA LeaveDisjointStep == IInv /\ LeaveDisjoint => IInv'
  <1> SUFFICES ASSUME IInv, LeaveDisjoint PROVE IInv'
    OBVIOUS
  <1> DEFINE D == Ends(4 * YMM_SZ, size) \cup Block(0, offset)
  <1>1. /\ pc = "disjoint" /\ offset >= TailStart /\ offset <= size
        /\ 8 * YMM_SZ < size /\ ret = dst
        /\ Partial(mem, dst, src, size, D)
    BY DEF IInv, LoopInvariant, Progress, LeaveDisjoint
  <1>2. offset \in Nat /\ size \in Nat
    BY DEF IInv, TypeOK
  <1>3. D = 0 .. size - 1
    BY <1>1, <1>2 DEF Ends, Block, TailStart
  <1>4. mem = Moved(dst, src, size)
    BY <1>1, <1>3, AllDelivered
  <1> QED
    BY <1>1, <1>4 DEF IInv, TypeOK, InBounds, LoopInvariant, MoveIsCorrect,
                      LeaveDisjoint, Moved, Addr

\* The kept vectors are the bytes the loop left.
LEMMA StoreSavedStep == IInv /\ StoreSaved => IInv'
  <1> SUFFICES ASSUME IInv, StoreSaved PROVE IInv'
    OBVIOUS
  <1> DEFINE D == IF pc = "forward" THEN Block(0, offset)
                                    ELSE Block(offset, size - offset)
             O == IF pc = "forward" THEN Block(TailStart, 4 * YMM_SZ)
                                    ELSE Block(0, 4 * YMM_SZ)
  <1>1. /\ pc \in {"forward", "backward"}
        /\ 8 * YMM_SZ < size /\ offset <= size /\ ret = dst
        /\ Partial(mem, dst, src, size, D)
        /\ save = Original(src, O)
        /\ pc = "forward" => offset >= TailStart
        /\ pc = "backward" => offset <= 4 * YMM_SZ
    BY DEF IInv, LoopInvariant, Progress, StoreSaved
  <1>2. /\ mem' = Stored(mem, dst, save) /\ acc'.off = DOMAIN save /\ pc' = "done"
        /\ UNCHANGED <<dst, src, size, ret, offset, loop, save, nt_start_threshold>>
    BY DEF StoreSaved, Access
  <1>3. offset \in Nat /\ size \in Nat
    BY DEF IInv, TypeOK
  <1>4. O \subseteq 0 .. size - 1 /\ DOMAIN save = O
    BY <1>1, <1>3 DEF Block, TailStart, Original
  <1>5. D \cup O = 0 .. size - 1
    <2>1. CASE pc = "forward"
      <3>1. D = 0 .. offset - 1 /\ O = size - 4 * YMM_SZ .. size - 1
        BY <1>3, <2>1 DEF Block, TailStart
      <3> QED BY <1>1, <1>3, <2>1, <3>1 DEF TailStart
    <2>2. CASE pc = "backward"
      <3>1. D = offset .. size - 1 /\ O = 0 .. 4 * YMM_SZ - 1
        BY <1>3, <2>2 DEF Block
      <3> QED BY <1>1, <1>3, <2>2, <3>1
    <2> QED BY <1>1, <2>1, <2>2
  <1>6. Partial(mem', dst, src, size, 0 .. size - 1)
    <2>1. Partial(Stored(mem, dst, Original(src, O)), dst, src, size, D \cup O)
      BY <1>1, <1>4, StoreDelivers
    <2> QED BY <1>1, <1>2, <1>5, <2>1
  <1>7. mem' = Moved(dst, src, size)
    BY <1>6, AllDelivered
  <1>8. TypeOK'
    BY <1>2, <1>6 DEF IInv, TypeOK, Partial
  <1> QED
    BY <1>1, <1>2, <1>4, <1>7, <1>8
    DEF IInv, InBounds, LoopInvariant, MoveIsCorrect, Moved, Addr

\* A call changes no byte.
LEMMA CallStep == IInv /\ CallMemmove => IInv'
  <1> SUFFICES ASSUME IInv, CallMemmove PROVE IInv'
    OBVIOUS
  <1>1. PICK c \in Calls : Call(c)
    BY DEF CallMemmove
  <1>2. TypeOK'
    BY <1>1, CallsAssumption DEF IInv, TypeOK, Call, CallMemmove
  <1> QED
    BY <1>1, <1>2 DEF IInv, InBounds, LoopInvariant, MoveIsCorrect, Call, Untouched, Addr

\* A return leaves no copy in progress.
LEMMA ReturnStep == IInv /\ ReturnMemmove => IInv'
  <1> SUFFICES ASSUME IInv, ReturnMemmove PROVE IInv'
    OBVIOUS
  <1>1. TypeOK'
    BY DEF IInv, TypeOK, ReturnMemmove, Return, Untouched, Addr, LoopKinds
  <1> QED
    BY <1>1 DEF IInv, InBounds, LoopInvariant, MoveIsCorrect, ReturnMemmove, Return,
                NoAccess, Untouched, Addr

\* The invariant is inductive.
LEMMA NextIInv == IInv /\ [Next]_vars => IInv'
  <1> SUFFICES ASSUME IInv, [Next]_vars PROVE IInv'
    OBVIOUS
  <1>1. CASE CallMemmove BY <1>1, CallStep
  <1>2. CASE MoveLe2Ymm BY <1>2, MoveLe2YmmStep
  <1>3. CASE MoveLe4Ymm BY <1>3, MoveLe4YmmStep
  <1>4. CASE MoveLe8Ymm BY <1>4, MoveLe8YmmStep
  <1>5. CASE StartDisjoint BY <1>5, StartDisjointStep
  <1>6. CASE StartBackward BY <1>6, StartBackwardStep
  <1>7. CASE StartForward BY <1>7, StartForwardStep
  <1>8. CASE ForwardIteration BY <1>8, ForwardIterationStep
  <1>9. CASE BackwardIteration BY <1>9, BackwardIterationStep
  <1>10. CASE LeaveDisjoint BY <1>10, LeaveDisjointStep
  <1>11. CASE StoreSaved BY <1>11, StoreSavedStep
  <1>12. CASE ReturnMemmove BY <1>12, ReturnStep
  <1>13. CASE UNCHANGED vars
    BY <1>13 DEF vars, copyVars, IInv, TypeOK, InBounds, LoopInvariant, MoveIsCorrect,
                 Progress, Disjoint, SrcRunsIntoDst, TailStart, Moved, Addr, Untouched
  <1> QED
    BY <1>1, <1>2, <1>3, <1>4, <1>5, <1>6, <1>7, <1>8, <1>9, <1>10, <1>11, <1>12,
       <1>13 DEF Next, Step

-----------------------------------------------------------------------------
\* It holds in every reachable state.
LEMMA SpecIInv == Spec => []IInv
  BY InitIInv, NextIInv, PTL DEF Spec

\* The types of every variable, for all register widths, buffers and
\* thresholds.
THEOREM TypeCorrect == Spec => []TypeOK
  BY SpecIInv, PTL DEF IInv

\* memmove is correct: whatever the overlap of its buffers, when it returns
\* the destination holds the bytes the source held at the call, nothing else
\* has changed, and the result is dst.
THEOREM MemmoveCorrect == Spec => []MoveIsCorrect
  BY SpecIInv, PTL DEF IInv

\* No load and no store of memmove leaves the buffers it was passed.
THEOREM MemmoveInBounds == Spec => []InBounds
  BY SpecIInv, PTL DEF IInv

\* No byte still to be delivered is lost: on each path the bytes written lie on
\* the side of the offset whose sources have been read, or are kept.
LEMMA LoopInvariantKeepsBytes == IInv => NothingLost
  <1> SUFFICES ASSUME IInv, pc # "idle", NEW i \in 0 .. size - 1
               PROVE  mem[dst + i] = src + i \/ mem[src + i] = src + i
    BY DEF NothingLost
  <1>1. /\ dst \in Nat /\ src \in Nat /\ size \in Nat /\ offset \in Nat
        /\ dst + size <= MemSz /\ src + size <= MemSz
        /\ pc \in {"start", "disjoint", "forward", "backward", "done"}
    BY DEF IInv, TypeOK
  <1>2. /\ dst + i \in Addr /\ src + i \in Addr
        /\ (dst + i) - dst = i
    BY <1>1 DEF Addr
  <1>3. CASE pc = "start"
    BY <1>2, <1>3 DEF IInv, LoopInvariant, Untouched
  <1>4. CASE pc = "disjoint"
    <2>1. Disjoint /\ Partial(mem, dst, src, size, Ends(4 * YMM_SZ, size) \cup Block(0, offset))
      BY <1>4 DEF IInv, LoopInvariant, Progress
    <2>2. (src + i) - dst \notin 0 .. size - 1
      BY <1>1, <2>1 DEF Disjoint
    <2> QED BY <1>2, <2>1, <2>2 DEF Partial
  <1>5. CASE pc = "forward"
    <2>1. ~SrcRunsIntoDst /\ offset <= size /\ Partial(mem, dst, src, size, Block(0, offset))
      BY <1>5 DEF IInv, LoopInvariant, Progress
    <2>2. i \in Block(0, offset) \/ (src + i) - dst \notin Block(0, offset)
      BY <1>1, <2>1 DEF SrcRunsIntoDst, Block
    <2> QED BY <1>2, <2>1, <2>2 DEF Partial
  <1>6. CASE pc = "backward"
    <2>1. SrcRunsIntoDst /\ Partial(mem, dst, src, size, Block(offset, size - offset))
      BY <1>6 DEF IInv, LoopInvariant, Progress
    <2>2. i \in Block(offset, size - offset)
          \/ (src + i) - dst \notin Block(offset, size - offset)
      BY <1>1, <2>1 DEF SrcRunsIntoDst, Block
    <2> QED BY <1>2, <2>1, <2>2 DEF Partial
  <1>7. CASE pc = "done"
    BY <1>1, <1>2, <1>7 DEF IInv, MoveIsCorrect, Moved
  <1> QED BY <1>1, <1>3, <1>4, <1>5, <1>6, <1>7

\* An overlapping memmove never destroys the last copy of a byte.
THEOREM MemmoveLosesNothing == Spec => []NothingLost
  BY SpecIInv, LoopInvariantKeepsBytes, PTL

\* Between iterations exactly the bytes behind the offset are delivered.
THEOREM LoopsKeepTheirInvariant == Spec => []LoopInvariant
  BY SpecIInv, PTL DEF IInv

-----------------------------------------------------------------------------
(***************************************************************************)
(* Alignment.  The disjoint loops start at an offset at which dst is       *)
(* aligned, and so is src if they load with aligned instructions; every    *)
(* iteration advances both by four vectors.                                *)
(***************************************************************************)
AlignInv ==
  /\ NoAlignmentFault
  /\ pc \in {"idle", "start"} => acc.kind = Unaligned
  /\ pc = "disjoint" =>
       /\ loop \in LoopKinds \ {Unaligned}
       /\ (dst + offset) % YMM_SZ = 0
       /\ loop.ld # "UNALIGNED" => (src + offset) % YMM_SZ = 0
  /\ pc \in {"forward", "backward"} =>
       loop = unaligned_load_and_store_4ymm_vec_loop

\* The single-group accesses and the overlapping loops are unaligned.
LEMMA UnalignedNeverFaults ==
  /\ Unaligned.ld = "UNALIGNED" /\ Unaligned.st = "UNALIGNED"
  /\ unaligned_load_and_store_4ymm_vec_loop.ld = "UNALIGNED"
  /\ unaligned_load_and_store_4ymm_vec_loop.st = "UNALIGNED"
  BY DEF Unaligned, Loop, unaligned_load_and_store_4ymm_vec_loop

\* All loops move YMM registers.
LEMMA LoopVec ==
  ASSUME NEW l \in LoopKinds \ {Unaligned}
  PROVE  l.vec = YMM_SZ
  BY DEF LoopKinds, Loop, unaligned_load_and_store_4ymm_vec_loop,
         aligned_load_and_store_4ymm_vec_loop,
         aligned_load_nt_store_4ymm_vec_loop_pftch,
         unaligned_load_nt_store_4ymm_vec_loop

\* The first offset of the disjoint loops: dst is aligned there, and so is
\* src when both had the same alignment.
LEMMA FirstAlignedIsAligned ==
  ASSUME dst \in Nat, src \in Nat
  PROVE  /\ (dst + FirstAligned) % YMM_SZ = 0
         /\ src % YMM_SZ = dst % YMM_SZ => (src + FirstAligned) % YMM_SZ = 0
  <1>1. FirstAligned \in Int /\ YMM_SZ \in Nat /\ YMM_SZ > 0 /\ dst \in Int /\ src \in Int
    BY FirstAlignedRange
  <1>2. dst - (dst % YMM_SZ) \in Int
    BY <1>1, DivMod
  <1>3. dst + FirstAligned = (dst - (dst % YMM_SZ)) + 4 * YMM_SZ
    BY <1>1, <1>2, DivMod DEF FirstAligned
  <1>4. (dst - (dst % YMM_SZ)) % YMM_SZ = 0
    BY <1>1, RoundedDown
  <1>5. (dst + FirstAligned) % YMM_SZ = 0
    <2>1. dst + FirstAligned \in Int
      BY <1>1
    <2> QED BY ONLY <1>1, <1>2, <1>3, <1>4, <2>1, AlignedFourOn
  <1>6. ASSUME src % YMM_SZ = dst % YMM_SZ
        PROVE  (src + FirstAligned) % YMM_SZ = 0
    BY <1>1, <1>5, <1>6, SameAlignmentShift
  <1> QED BY <1>5, <1>6

\* Entering the disjoint path chooses aligned loads only for buffers of the
\* same alignment.
LEMMA StartDisjointAligned == IInv /\ AlignInv /\ StartDisjoint => AlignInv'
  <1> SUFFICES ASSUME IInv, StartDisjoint PROVE AlignInv'
    OBVIOUS
  <1>1. dst \in Nat /\ src \in Nat
    BY DEF IInv, TypeOK
  <1>2. /\ acc'.kind = Unaligned /\ offset' = FirstAligned /\ pc' = "disjoint"
        /\ dst' = dst /\ src' = src
    BY DEF StartDisjoint, Move, Access
  <1>3. loop' \in LoopKinds \ {Unaligned}
    BY NotUnaligned DEF StartDisjoint
  <1>4. loop'.ld # "UNALIGNED" => src % YMM_SZ = dst % YMM_SZ
    BY DEF StartDisjoint, Loop, unaligned_load_and_store_4ymm_vec_loop,
           unaligned_load_nt_store_4ymm_vec_loop
  <1>5. /\ (dst + offset)' % YMM_SZ = 0
        /\ loop'.ld # "UNALIGNED" => (src + offset)' % YMM_SZ = 0
    BY <1>1, <1>2, <1>4, FirstAlignedIsAligned
  <1>6. NoAlignmentFault'
    BY <1>2, UnalignedNeverFaults DEF NoAlignmentFault
  <1> QED BY <1>2, <1>3, <1>5, <1>6 DEF AlignInv

\* Advancing the offset by one iteration keeps an address aligned.
LEMMA IterationStaysAligned ==
  ASSUME NEW a \in Int, NEW o \in Int, NEW next \in Int, YMM_SZ \in Nat, YMM_SZ > 0,
         (a + o) % YMM_SZ = 0, next = o + 4 * YMM_SZ
  PROVE  (a + next) % YMM_SZ = 0
  <1> DEFINE x == a + o
             y == a + next
  <1>1. /\ x \in Int /\ y \in Int /\ 4 \in Int
        /\ y = x + 4 * YMM_SZ /\ x % YMM_SZ = 0
        /\ YMM_SZ \in Nat /\ YMM_SZ > 0
    OBVIOUS
  <1>2. y % YMM_SZ = 0
    <2> HIDE DEF x, y
    <2>1. x \in Int /\ y \in Int /\ YMM_SZ \in Nat
      BY <1>1
    <2> QED BY ONLY <1>1, <2>1, AlignedFourOn
  <1> QED BY <1>2

\* An iteration touches addresses that the invariant says are aligned.
LEMMA ForwardIterationAligned == IInv /\ AlignInv /\ ForwardIteration => AlignInv'
  <1> SUFFICES ASSUME IInv, AlignInv, ForwardIteration PROVE AlignInv'
    OBVIOUS
  <1>1. /\ pc \in {"disjoint", "forward"} /\ loop.step = 4 * YMM_SZ
        /\ acc'.at = offset /\ acc'.kind = loop
        /\ offset' = offset + 4 * YMM_SZ
        /\ UNCHANGED <<dst, src, pc, loop>>
    BY DEF IInv, LoopInvariant, ForwardIteration, Forward, Move, Access
  <1>2. /\ dst \in Int /\ src \in Int /\ offset \in Int /\ offset' \in Int
        /\ YMM_SZ \in Nat /\ YMM_SZ > 0
    BY <1>1 DEF IInv, TypeOK
  <1>3. CASE pc = "forward"
    BY <1>1, <1>3, UnalignedNeverFaults DEF AlignInv, NoAlignmentFault
  <1>4. CASE pc = "disjoint"
    <2>1. /\ loop \in LoopKinds \ {Unaligned} /\ loop.vec = YMM_SZ
          /\ (dst + offset) % YMM_SZ = 0
          /\ loop.ld # "UNALIGNED" => (src + offset) % YMM_SZ = 0
      BY <1>4, LoopVec DEF AlignInv
    <2>2. NoAlignmentFault'
      BY <1>1, <2>1 DEF NoAlignmentFault
    <2>3. (dst + offset') % YMM_SZ = 0
      BY <1>1, <1>2, <2>1, IterationStaysAligned
    <2>4. ASSUME loop.ld # "UNALIGNED" PROVE (src + offset') % YMM_SZ = 0
      BY <1>1, <1>2, <2>1, <2>4, IterationStaysAligned
    <2> QED BY <1>1, <1>4, <2>1, <2>2, <2>3, <2>4 DEF AlignInv
  <1> QED BY <1>1, <1>3, <1>4

\* Every other step uses unaligned instructions, or none.
LEMMA NextAligned == IInv /\ AlignInv /\ [Next]_vars => AlignInv'
  <1> SUFFICES ASSUME IInv, AlignInv, [Next]_vars PROVE AlignInv'
    OBVIOUS
  <1>. USE UnalignedNeverFaults
  <1>1. CASE CallMemmove
    <2>1. PICK c \in Calls : pc = "idle" /\ Call(c)
      BY <1>1 DEF CallMemmove
    <2>2. pc' = "start" /\ acc' = acc /\ acc.kind = Unaligned
      BY <2>1 DEF Call, AlignInv
    <2> QED BY <2>2 DEF AlignInv, NoAlignmentFault
  <1>2. CASE MoveLe2Ymm \/ MoveLe4Ymm \/ MoveLe8Ymm
    <2>1. PICK O : MoveAndReturn(O, dst)
      BY <1>2 DEF MoveLe2Ymm, MoveLe4Ymm, MoveLe8Ymm
    <2> QED BY <2>1 DEF MoveAndReturn, Move, Access, AlignInv, NoAlignmentFault
  <1>3. CASE StartDisjoint BY <1>3, StartDisjointAligned
  <1>4. CASE StartBackward \/ StartForward
    BY <1>4 DEF StartBackward, StartForward, Access, AlignInv, NoAlignmentFault
  <1>5. CASE ForwardIteration BY <1>5, ForwardIterationAligned
  <1>6. CASE BackwardIteration
    BY <1>6 DEF BackwardIteration, Backward, Move, Access, AlignInv, NoAlignmentFault
  <1>7. CASE LeaveDisjoint
    BY <1>7 DEF LeaveDisjoint, AlignInv, NoAlignmentFault
  <1>8. CASE StoreSaved
    BY <1>8 DEF StoreSaved, Access, AlignInv, NoAlignmentFault
  <1>9. CASE ReturnMemmove
    BY <1>9 DEF ReturnMemmove, Return, NoAccess, AlignInv, NoAlignmentFault
  <1>10. CASE UNCHANGED vars
    BY <1>10 DEF vars, copyVars, AlignInv, NoAlignmentFault
  <1> QED
    BY <1>1, <1>2, <1>3, <1>4, <1>5, <1>6, <1>7, <1>8, <1>9, <1>10 DEF Next, Step

\* Aligned and non-temporal instructions are used at aligned addresses only,
\* whatever the alignments of the two buffers and the size of a register.
THEOREM MemmoveAligned == Spec => []NoAlignmentFault
  <1>1. Init => AlignInv
    BY UnalignedNeverFaults DEF Init, CopyInit, NoAccess, AlignInv, NoAlignmentFault
  <1> QED BY <1>1, SpecIInv, NextAligned, PTL DEF Spec, AlignInv

-----------------------------------------------------------------------------
(***************************************************************************)
(* The refinement of CopySpec.  While the routine runs the abstract memory *)
(* is untouched; the step that ends it is the abstract copy.               *)
(***************************************************************************)

\* A call of the routine is a call of the abstract copy.
LEMMA CallsRefine ==
  ASSUME IInv, CallMemmove
  PROVE  Abstract!Call
<1>1. PICK c \in Calls : Call(c)
  BY DEF CallMemmove
<1>2. pc = "idle" /\ pc' = "start"
  BY <1>1 DEF Call
<1>3. /\ dst' \in Nat /\ src' \in Nat /\ size' \in Nat
      /\ dst' + size' <= MemSz /\ src' + size' <= MemSz
  BY <1>1, CallsAssumption DEF Call
<1>. QED  BY <1>2, <1>3 DEF Abstract!Call

\* Every other step of the routine leaves the arguments alone, and ends it or not.
LEMMA RoutineKeepsArguments ==
  ASSUME Step, ~ReturnMemmove
  PROVE  /\ pc \notin {"idle", "done"} /\ pc' # "idle"
         /\ UNCHANGED <<dst, src, size>>
<1>1. CASE MoveLe2Ymm \/ MoveLe4Ymm \/ MoveLe8Ymm
  BY <1>1 DEF MoveLe2Ymm, MoveLe4Ymm, MoveLe8Ymm, Start, MoveAndReturn
<1>2. CASE StartDisjoint \/ StartBackward \/ StartForward
  BY <1>2 DEF StartDisjoint, StartBackward, StartForward, Start
<1>3. CASE ForwardIteration \/ BackwardIteration
  BY <1>3 DEF ForwardIteration, BackwardIteration
<1>4. CASE LeaveDisjoint \/ StoreSaved
  BY <1>4 DEF LeaveDisjoint, StoreSaved
<1>. QED  BY <1>1, <1>2, <1>3, <1>4 DEF Step

\* The step that ends the routine is the abstract copy: memory is what MoveIsCorrect
\* says, and before it the abstract memory was untouched.
LEMMA LastStepCopies ==
  ASSUME IInv, IInv', pc \notin {"idle", "done"}, pc' = "done",
         UNCHANGED <<dst, src, size>>
  PROVE  Abstract!Copy
<1>1. mem' = Moved(dst, src, size) /\ ret' = dst
  BY DEF IInv, MoveIsCorrect, Moved
<1>2. \A a \in Addr : a - dst \in 0 .. size - 1 => src + (a - dst) \in Addr
  BY MemSzAssumption DEF IInv, TypeOK, Addr
<1>3. Moved(dst, src, size)
        = [a \in Addr |-> IF a - dst \in 0 .. size - 1
                            THEN Untouched[src + (a - dst)] ELSE Untouched[a]]
  BY <1>2 DEF Moved, Untouched
<1>. QED  BY <1>1, <1>3 DEF Abstract!Copy, Abstract!Addr, Addr

\* Every step of the routine is a step of the abstract copy, or none.
LEMMA StepsRefine ==
  ASSUME IInv, IInv', [Next]_vars
  PROVE  [Abstract!Next]_(Abstract!vars)
<1>1. CASE CallMemmove
  BY <1>1, CallsRefine DEF Abstract!Next
<1>2. CASE ReturnMemmove
  <2>1. Abstract!Return
    BY <1>2 DEF ReturnMemmove, Return, Abstract!Return, Abstract!Untouched,
                Abstract!Addr, Untouched, Addr
  <2>. QED  BY <2>1 DEF Abstract!Next
<1>3. CASE Step /\ ~ReturnMemmove
  <2>1. pc \notin {"idle", "done"} /\ pc' # "idle" /\ UNCHANGED <<dst, src, size>>
    BY <1>3, RoutineKeepsArguments
  <2>2. CASE pc' = "done"
    BY <2>1, <2>2, LastStepCopies DEF Abstract!Next
  <2>3. CASE pc' # "done"
    BY <2>1, <2>3 DEF Abstract!vars, Untouched
  <2>. QED  BY <2>2, <2>3
<1>4. CASE UNCHANGED vars
  BY <1>4 DEF vars, copyVars, Abstract!vars, Untouched
<1>. QED  BY <1>1, <1>2, <1>3, <1>4 DEF Next

\* memmove implements the indivisible copy, but for its liveness: whoever looks only
\* between a call and its return cannot tell the routine from CopySpec, for every
\* register width, overlap, size and threshold.
THEOREM MemmoveImplements == Spec => Abstract!Safety
<1>1. Init => Abstract!Init
  BY DEF Init, CopyInit, Abstract!Init, Abstract!Untouched, Abstract!Addr, Untouched, Addr
<1>2. IInv /\ IInv' /\ [Next]_vars => [Abstract!Next]_(Abstract!vars)
  BY StepsRefine
<1>. QED  BY <1>1, <1>2, SpecIInv, PTL DEF Spec, Abstract!Safety

=============================================================================
