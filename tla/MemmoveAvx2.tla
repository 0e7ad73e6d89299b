---------------------------- MODULE MemmoveAvx2 ----------------------------
(***************************************************************************)
(* _memmove_avx2 (isa/avx2/optimized/memmove_avx2.c), the memmove of the   *)
(* zen1, zen2, zen3 and generic AVX2 builds.  Small sizes are one group of *)
(* loads and stores; larger ones run a four-vector loop, forwards or       *)
(* backwards according to how the buffers overlap, around four vectors     *)
(* that are kept in registers because the loop overwrites their source.    *)
(***************************************************************************)
EXTENDS LoadStore

CONSTANTS
  YMM_SZ,     \* bytes of an AVX2 register
  NarrowSz,   \* sizes of the narrower registers: WORD_SZ .. XMM_SZ
  NtStarts    \* values __nt_start_threshold may have

VARIABLE nt_start_threshold

vars == <<copyVars, nt_start_threshold>>

Regs == NarrowSz \cup {YMM_SZ}

\* Each register is twice as wide as the next, and the narrowest is a WORD.
ASSUME RegsAssumption ==
  /\ YMM_SZ \in Nat /\ YMM_SZ > 2
  /\ NarrowSz \subseteq 2 .. YMM_SZ - 1
  /\ \A s \in Regs : s = 2 \/ \E t \in Regs : s = 2 * t

ASSUME NtStartsAssumption == NtStarts \subseteq Nat

XMM_SZ == YMM_SZ \div 2

-----------------------------------------------------------------------------
\* The four-vector loops of load_store_avx2_impls.h that memmove runs.
unaligned_load_and_store_4ymm_vec_loop == Loop(4, YMM_SZ, "UNALIGNED", "UNALIGNED")
aligned_load_and_store_4ymm_vec_loop == Loop(4, YMM_SZ, "ALIGNED", "ALIGNED")
aligned_load_nt_store_4ymm_vec_loop_pftch == Loop(4, YMM_SZ, "ALIGNED", "STREAM")
unaligned_load_nt_store_4ymm_vec_loop == Loop(4, YMM_SZ, "UNALIGNED", "STREAM")

\* A register too narrow: four of them would cover n bytes, two do not.
TakesNarrow(s, n) == n <= 4 * s

\* __load_store_le_2ymm_vec_overlap picks register size s for n bytes: the
\* narrowest of which two cover them (2 * XMM_SZ bytes already take a YMM).
Takes(s, n) == IF s = XMM_SZ THEN n < 2 * s ELSE n <= 2 * s

Fits(s, n) == Takes(s, n) /\ \A t \in Regs : t < s => ~Takes(t, n)

Disjoint == dst + size < src \/ src + size < dst

\* The direction test with its operands exchanged.
DstRunsIntoSrc == src < dst + size /\ dst < src

\* Copying forwards would overwrite source bytes not read yet.
SrcRunsIntoDst == dst < src + size /\ src < dst

\* The first aligned offset counted from the wrong side of dst.
FirstAlignedPlus == 4 * YMM_SZ + (dst % YMM_SZ)

\* The greatest offset up to 4 * YMM_SZ at which the destination is aligned.
FirstAligned == 4 * YMM_SZ - (dst % YMM_SZ)

\* The bytes the loop leaves to the last four vectors, one vector too few.
TailStartLate == size - 3 * YMM_SZ

TailStart == size - 4 * YMM_SZ

-----------------------------------------------------------------------------
Start == pc = "start" /\ UNCHANGED nt_start_threshold

\* size <= 2 * YMM_SZ: at most one byte, or two registers head and tail.
MoveLe2Ymm ==
  /\ Start
  /\ size <= 2 * YMM_SZ
  /\ \/ size <= 1 /\ MoveAndReturn(Block(0, size), dst)
     \/ \E s \in Regs :
          size > 1 /\ Fits(s, size) /\ MoveAndReturn(Ends(s, size), dst)

MoveLe4Ymm ==
  /\ Start
  /\ 2 * YMM_SZ < size /\ size <= 4 * YMM_SZ
  /\ MoveAndReturn(Ends(2 * YMM_SZ, size), dst)

MoveLe8Ymm ==
  /\ Start
  /\ 4 * YMM_SZ < size /\ size <= 8 * YMM_SZ
  /\ MoveAndReturn(Ends(4 * YMM_SZ, size), dst)

\* Buffers apart: both ends first, then a loop over the middle from the
\* first offset at which the destination is aligned.
StartDisjoint ==
  /\ Start
  /\ 8 * YMM_SZ < size
  /\ Disjoint
  /\ Move(Ends(4 * YMM_SZ, size), 0, Unaligned)
  /\ offset' = FirstAligned
  /\ loop' = IF src % YMM_SZ = dst % YMM_SZ
               THEN IF size < nt_start_threshold
                      THEN aligned_load_and_store_4ymm_vec_loop
                      ELSE aligned_load_nt_store_4ymm_vec_loop_pftch
               ELSE IF size < nt_start_threshold
                      THEN unaligned_load_and_store_4ymm_vec_loop
                      ELSE unaligned_load_nt_store_4ymm_vec_loop
  /\ ret' = dst
  /\ pc' = "disjoint"
  /\ UNCHANGED <<dst, src, size, save>>

\* src < dst < src + size: the first four vectors are kept in registers.
StartBackward ==
  /\ Start
  /\ 8 * YMM_SZ < size
  /\ ~Disjoint
  /\ SrcRunsIntoDst
  /\ save' = Load(Block(0, 4 * YMM_SZ))
  /\ Access(Block(0, 4 * YMM_SZ), 0, Unaligned)
  /\ offset' = size
  /\ loop' = unaligned_load_and_store_4ymm_vec_loop
  /\ ret' = dst
  /\ pc' = "backward"
  /\ UNCHANGED <<mem, dst, src, size>>

\* Otherwise the last four vectors are kept.
StartForward ==
  /\ Start
  /\ 8 * YMM_SZ < size
  /\ ~Disjoint
  /\ ~SrcRunsIntoDst
  /\ save' = Load(Block(TailStart, 4 * YMM_SZ))
  /\ Access(Block(TailStart, 4 * YMM_SZ), TailStart, Unaligned)
  /\ offset' = 0
  /\ loop' = unaligned_load_and_store_4ymm_vec_loop
  /\ ret' = dst
  /\ pc' = "forward"
  /\ UNCHANGED <<mem, dst, src, size>>

-----------------------------------------------------------------------------
ForwardIteration ==
  /\ pc \in {"disjoint", "forward"}
  /\ Forward(TailStart)
  /\ UNCHANGED <<dst, src, size, ret, pc, loop, save, nt_start_threshold>>

BackwardIteration ==
  /\ pc = "backward"
  /\ Backward(4 * YMM_SZ)
  /\ UNCHANGED <<dst, src, size, ret, pc, loop, save, nt_start_threshold>>

\* The disjoint path returns when its loop is over: the end of the buffer
\* was copied before it.
LeaveDisjoint ==
  /\ pc = "disjoint"
  /\ offset >= TailStart
  /\ pc' = "done"
  /\ UNCHANGED <<mem, dst, src, size, ret, offset, loop, save, acc,
                 nt_start_threshold>>

\* The first vectors stored again instead of the kept ones.
StoreHead ==
  /\ \/ pc = "forward" /\ offset >= TailStart
     \/ pc = "backward" /\ offset <= 4 * YMM_SZ
  /\ Move(Block(0, 4 * YMM_SZ), 0, Unaligned)
  /\ pc' = "done"
  /\ UNCHANGED <<dst, src, size, ret, offset, loop, save, nt_start_threshold>>

\* The overlapping paths store the four vectors they kept.
StoreSaved ==
  /\ \/ pc = "forward" /\ offset >= TailStart
     \/ pc = "backward" /\ offset <= 4 * YMM_SZ
  /\ mem' = Stored(mem, dst, save)
  /\ Access(DOMAIN save, 0, Unaligned)
  /\ pc' = "done"
  /\ UNCHANGED <<dst, src, size, ret, offset, loop, save, nt_start_threshold>>

-----------------------------------------------------------------------------
Init == CopyInit /\ nt_start_threshold \in NtStarts

\* __nt_start_threshold may be set between calls (libmem_init).
CallMemmove ==
  /\ pc = "idle"
  /\ \E c \in Calls : Call(c)
  /\ nt_start_threshold' \in NtStarts

ReturnMemmove == Return /\ UNCHANGED nt_start_threshold

Step ==
  \/ MoveLe2Ymm \/ MoveLe4Ymm \/ MoveLe8Ymm
  \/ StartDisjoint \/ StartBackward \/ StartForward
  \/ ForwardIteration \/ BackwardIteration
  \/ LeaveDisjoint \/ StoreSaved
  \/ ReturnMemmove

Next == CallMemmove \/ Step

\* A call that has been made is executed: the thread keeps running.
Spec == Init /\ [][Next]_vars /\ WF_vars(Step)

-----------------------------------------------------------------------------
LoopKinds ==
  { Unaligned, unaligned_load_and_store_4ymm_vec_loop,
    aligned_load_and_store_4ymm_vec_loop,
    aligned_load_nt_store_4ymm_vec_loop_pftch,
    unaligned_load_nt_store_4ymm_vec_loop }

TypeOK ==
  /\ mem \in [Addr -> Addr]
  /\ dst \in Nat /\ src \in Nat /\ size \in Nat /\ ret \in Nat
  /\ dst + size <= MemSz /\ src + size <= MemSz
  /\ pc \in {"idle", "start", "disjoint", "forward", "backward", "done"}
  /\ offset \in Nat
  /\ loop \in LoopKinds
  /\ nt_start_threshold \in NtStarts

\* When memmove returns, the destination holds the bytes the source held at
\* the call and every other byte is as it was, for every overlap of the two
\* buffers; and memmove returns dst.
MoveIsCorrect ==
  pc = "done" => mem = Moved(dst, src, size) /\ ret = dst

\* The invariant of the three loops: between two iterations the bytes
\* delivered are exactly those on one side of the offset (and, for disjoint
\* buffers, both ends), the rest of memory is untouched, and the registers
\* kept for the end hold what their source held at the call.
LoopInvariant ==
  /\ pc \in {"idle", "start"} => mem = Untouched /\ acc.off = {}
  /\ pc \in {"disjoint", "forward", "backward"} =>
       /\ 8 * YMM_SZ < size
       /\ ret = dst
       /\ loop.step = 4 * YMM_SZ
       /\ offset <= size
  /\ pc = "disjoint" =>
       /\ Disjoint
       /\ Progress(Ends(4 * YMM_SZ, size) \cup Block(0, offset))
  /\ pc = "forward" =>
       /\ ~Disjoint /\ ~SrcRunsIntoDst
       /\ Progress(Block(0, offset))
       /\ save = Original(src, Block(TailStart, 4 * YMM_SZ))
  /\ pc = "backward" =>
       /\ 0 < offset
       /\ SrcRunsIntoDst
       /\ Progress(Block(offset, size - offset))
       /\ save = Original(src, Block(0, 4 * YMM_SZ))

\* The detailed routine implements the indivisible copy.
Abstract ==
  INSTANCE CopySpec WITH
    mem <- IF pc = "done" THEN mem ELSE Untouched,
    ret <- IF pc = "done" THEN ret ELSE 0,
    ReturnsEnd <- FALSE,
    status <- CASE pc = "idle" -> "idle"
                [] pc = "done" -> "copied"
                [] OTHER -> "called"

ImplementsCopy == Abstract!Spec

=============================================================================
