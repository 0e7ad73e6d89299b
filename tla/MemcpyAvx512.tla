---------------------------- MODULE MemcpyAvx512 ----------------------------
(***************************************************************************)
(* isa/avx512/optimized/memcpy_impl_avx512.c: _memcpy_avx512 of the generic *)
(* AVX-512 build, and _memcpy_avx512_erms of the zen5 build, each also     *)
(* compiled as memmove (MEMMOVE_AVX512, MEMMOVE_AVX512_ERMS).              *)
(***************************************************************************)
EXTENDS CopyRoutines

CONSTANTS
  LargeMove,  \* 26 * 1024: overlapping moves above it use larger loops
  VecMovBase  \* 2048, the constant part of COMPUTE_ALIGNED_VEC_MOV_TH

Avx512Routines == {"memcpy_avx512", "mempcpy_avx512", "memmove_avx512"}
ErmsRoutines == {"memcpy_zen5", "mempcpy_zen5", "memmove_zen5"}

AlignedIf(same) == IF same THEN "ALIGNED" ELSE "UNALIGNED"

-----------------------------------------------------------------------------
\* _memcpy_avx512.  Above four vectors memcpy copies the ends of the buffer,
\* and then those of what is between.
SmallAvx512 ==
  /\ Called(Avx512Routines)
  /\ size <= 8 * ZMM_SZ
  /\ OneGroup(
       IF size >= ZMM_SZ
         THEN IF size <= 4 * ZMM_SZ \/ routine \in Memmoves THEN ZmmEnds(size)
              ELSE Ends(2 * ZMM_SZ, size)
                     \cup Shift(Ends(2 * ZMM_SZ, size - 4 * ZMM_SZ), 2 * ZMM_SZ)
         ELSE IF routine \in Memmoves THEN NarrowEnds(size)
         ELSE Block(0, size))

Avx512Overlap ==
  Called(Avx512Routines \cap Memmoves) /\ 8 * ZMM_SZ < size /\ ~Disjoint

BothAligned == dst % ZMM_SZ = 0 /\ src % ZMM_SZ = 0

\* The first four vectors are kept and, when both buffers are aligned, the
\* last one too: the loop then starts at a multiple of the vector size.
BackwardAvx512 ==
  /\ Avx512Overlap
  /\ src < dst
  /\ IF BothAligned
       THEN KeepAndLoop("avx512_backward_aligned",
                        Block(0, 4 * ZMM_SZ) \cup LastVecs(1, ZMM_SZ),
                        Loop(4, ZMM_SZ, "ALIGNED", "ALIGNED"),
                        size - (size % ZMM_SZ))
       ELSE KeepAndLoop("avx512_backward", Block(0, 4 * ZMM_SZ),
                        Loop(4, ZMM_SZ, "UNALIGNED", "UNALIGNED"), size)

\* The last four vectors are kept.
ForwardAvx512 ==
  /\ Avx512Overlap
  /\ dst <= src
  /\ KeepAndLoop("avx512_forward", LastVecs(4, ZMM_SZ),
                 Loop(4, ZMM_SZ, AlignedIf(BothAligned), AlignedIf(BothAligned)), 0)

\* The first eight vectors; above sixteen, a loop from an aligned offset.
DisjointAvx512 ==
  /\ Called(Avx512Routines)
  /\ 8 * ZMM_SZ < size
  /\ routine \in Memmoves => Disjoint
  /\ LET same == SameAlignment(ZMM_SZ)
         l == IF size >= limits.nt_start /\ (same => size >= limits.l2)
                THEN IF same THEN Loop(8, ZMM_SZ, "ALIGNED", "STREAM")
                     ELSE Loop(4, ZMM_SZ, "UNALIGNED", "STREAM")
                ELSE Loop(4, ZMM_SZ, AlignedIf(same), "ALIGNED")
     IN  IF size > 16 * ZMM_SZ
           THEN EnterLoop("avx512_disjoint", Block(0, 8 * ZMM_SZ), l,
                          AlignedWithin(8, ZMM_SZ))
           ELSE EnterLoop("avx512_rest", Block(0, 8 * ZMM_SZ), Unaligned,
                          8 * ZMM_SZ)

\* The vectors left, at most eight, from the end.
Avx512Tail ==
  LET k == rem_vecs(size - offset, ZMM_SZ)
  IN  LastVecs( IF k > 4 THEN 8 ELSE IF k > 2 THEN 4 ELSE IF k = 2 THEN 2 ELSE 1,
                ZMM_SZ )

FinishAvx512 ==
  \/ LoopOverBackward("avx512_backward_aligned", 3 * ZMM_SZ) /\ AfterLoop({}, "kept")
  \/ LoopOverBackward("avx512_backward", 4 * ZMM_SZ) /\ AfterLoop({}, "kept")
  \/ LoopOver("avx512_forward", size - 4 * ZMM_SZ) /\ AfterLoop({}, "kept")
  \/ LoopOver("avx512_disjoint", size - 8 * ZMM_SZ) /\ AfterLoop(Avx512Tail, "done")
  \/ pc = "avx512_rest" /\ AfterLoop(Avx512Tail, "done")

StepAvx512 ==
  \/ SmallAvx512 \/ BackwardAvx512 \/ ForwardAvx512 \/ DisjointAvx512
  \/ FinishAvx512
  \/ IterateBackward("avx512_backward_aligned", 3 * ZMM_SZ)
  \/ IterateBackward("avx512_backward", 4 * ZMM_SZ)
  \/ IterateForward("avx512_forward", size - 4 * ZMM_SZ)
  \/ IterateForward("avx512_disjoint", size - 8 * ZMM_SZ)

-----------------------------------------------------------------------------
\* _memcpy_avx512_erms.
SmallErms ==
  /\ Called(ErmsRoutines)
  /\ size <= 8 * ZMM_SZ
  /\ OneGroup( IF size >= ZMM_SZ THEN ZmmEnds(size)
               ELSE IF routine \in Memmoves THEN NarrowEnds(size)
               ELSE Block(0, size) )

ErmsOverlap ==
  Called(ErmsRoutines \cap Memmoves) /\ 8 * ZMM_SZ < size /\ ~Disjoint

BackwardErms ==
  /\ ErmsOverlap
  /\ src < dst
  /\ KeepAndLoop("zen5_backward", LastVecs(1, ZMM_SZ),
                 Loop(4, ZMM_SZ, AlignedIf(SameAlignment(ZMM_SZ)), "ALIGNED"),
                 size - ((dst + size) % ZMM_SZ))

ForwardErms ==
  /\ ErmsOverlap
  /\ dst <= src
  /\ LET aligned == AlignedIf(SameAlignment(ZMM_SZ))
     IN  IF size <= LargeMove
           THEN KeepAndLoop("zen5_forward", Block(0, ZMM_SZ),
                            Loop(4, ZMM_SZ, aligned, "ALIGNED"),
                            AlignedWithin(1, ZMM_SZ))
           ELSE KeepAndLoop("zen5_forward_large", Block(0, ZMM_SZ),
                            Loop(8, ZMM_SZ, aligned,
                                 IF SameAlignment(ZMM_SZ) THEN "UNALIGNED"
                                                          ELSE "ALIGNED"),
                            AlignedWithin(1, ZMM_SZ))

\* COMPUTE_ALIGNED_VEC_MOV_TH: up to here, vectors are faster than rep movsb.
AlignedVecMovTh == limits.l1d \div 2 + VecMovBase

\* Buffers apart: aligned vector stores, rep movsb, or non-temporal stores.
DisjointErms ==
  /\ Called(ErmsRoutines)
  /\ 8 * ZMM_SZ < size
  /\ routine \in Memmoves => Disjoint
  /\ \/ /\ size < AlignedVecMovTh
        /\ EnterLoop("zen5_vector", Block(0, 4 * ZMM_SZ),
                     Loop(4, ZMM_SZ, "UNALIGNED", "ALIGNED"),
                     AlignedWithin(4, ZMM_SZ))
     \/ /\ AlignedVecMovTh <= size /\ size < limits.nt_start
        /\ OneGroup(Block(0, size))
     \/ /\ AlignedVecMovTh <= size /\ limits.nt_start <= size
        /\ EnterLoop("zen5_stream", Block(0, 8 * ZMM_SZ),
                     Loop(8, ZMM_SZ, "UNALIGNED", "STREAM"),
                     AlignedWithin(8, ZMM_SZ))

\* The last one to four vectors, as many as the loop left.
VectorTail ==
  LET k == rem_vecs(size - offset, ZMM_SZ)
  IN  IF k \in 1 .. 4 THEN LastVecs(k, ZMM_SZ) ELSE {}

\* What a loop left, from "offset" on, unless it is more than k vectors.
RestIfUpTo(k, n) == IF rem_vecs(n, ZMM_SZ) \in 1 .. k THEN Rest(n) ELSE {}

FinishErms ==
  \/ /\ LoopOverBackward("zen5_backward", 4 * ZMM_SZ)
     /\ AfterLoop(RestIfUpTo(4, offset), "kept")
  \/ /\ LoopOver("zen5_forward", size - 4 * ZMM_SZ)
     /\ AfterLoop(Shift(RestIfUpTo(4, size - offset), offset), "kept")
  \/ /\ LoopOver("zen5_forward_large", size - 8 * ZMM_SZ)
     /\ AfterLoop(Shift(RestIfUpTo(8, size - offset), offset), "kept")
  \/ LoopOver("zen5_vector", size - 4 * ZMM_SZ) /\ AfterLoop(VectorTail, "done")
  \/ /\ LoopOver("zen5_stream", size - 8 * ZMM_SZ)
     /\ AfterLoop(LastVecs(8, ZMM_SZ), "done")

StepErms ==
  \/ SmallErms \/ BackwardErms \/ ForwardErms \/ DisjointErms \/ FinishErms
  \/ IterateBackward("zen5_backward", 4 * ZMM_SZ)
  \/ IterateForward("zen5_forward", size - 4 * ZMM_SZ)
  \/ IterateForward("zen5_forward_large", size - 8 * ZMM_SZ)
  \/ IterateForward("zen5_vector", size - 4 * ZMM_SZ)
  \/ IterateForward("zen5_stream", size - 8 * ZMM_SZ)

=============================================================================
