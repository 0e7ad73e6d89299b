----------------------------- MODULE MemcpyAvx2 -----------------------------
(***************************************************************************)
(* _memcpy_avx2 and _mempcpy_avx2 (isa/avx2/optimized), the copies of the  *)
(* zen1, zen2 and zen3 builds.                                             *)
(***************************************************************************)
EXTENDS CopyRoutines

Avx2Routines == {"memcpy_avx2", "mempcpy_avx2"}

SmallAvx2 ==
  /\ Called(Avx2Routines)
  /\ size <= 8 * YMM_SZ
  /\ OneGroup( IF size < YMM_SZ THEN NarrowEnds(size)
               ELSE IF size <= 2 * YMM_SZ THEN Ends(YMM_SZ, size)
               ELSE IF size <= 4 * YMM_SZ THEN Ends(2 * YMM_SZ, size)
               ELSE Ends(4 * YMM_SZ, size) )

\* Within the L1 cache the destination is aligned, whatever the source is.
L1Avx2 ==
  /\ Called(Avx2Routines)
  /\ 8 * YMM_SZ < size /\ size <= limits.l1d
  /\ EnterLoop("avx2_l1", Block(0, 4 * YMM_SZ),
               Loop(4, YMM_SZ, "UNALIGNED", "ALIGNED"), AlignedWithin(4, YMM_SZ))

\* Above, the loop depends on the alignments and the non-temporal threshold.
FarAvx2 ==
  /\ Called(Avx2Routines)
  /\ 8 * YMM_SZ < size /\ size > limits.l1d
  /\ EnterLoop("avx2_far", Block(0, 4 * YMM_SZ),
               Loop(4, YMM_SZ,
                    IF SameAlignment(YMM_SZ) THEN "ALIGNED" ELSE "UNALIGNED",
                    IF size < limits.nt_start THEN "ALIGNED" ELSE "STREAM"),
               AlignedWithin(4, YMM_SZ))

\* The last vectors, as many as the loop left.
L1Tail ==
  LET k == rem_vecs(size - offset, YMM_SZ)
  IN  IF k \in {1, 2} THEN LastVecs(k, YMM_SZ)
      ELSE IF k \in {3, 4} THEN LastVecs(4, YMM_SZ)
      ELSE {}

FinishAvx2 ==
  \/ LoopOver("avx2_l1", size - 4 * YMM_SZ) /\ AfterLoop(L1Tail, "done")
  \/ LoopOver("avx2_far", size - 4 * YMM_SZ) /\ AfterLoop(LastVecs(4, YMM_SZ), "done")

StepAvx2 ==
  \/ SmallAvx2 \/ L1Avx2 \/ FarAvx2 \/ FinishAvx2
  \/ IterateForward("avx2_l1", size - 4 * YMM_SZ)
  \/ IterateForward("avx2_far", size - 4 * YMM_SZ)

=============================================================================
