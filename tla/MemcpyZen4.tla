----------------------------- MODULE MemcpyZen4 -----------------------------
(***************************************************************************)
(* _memcpy_zen4_impl (uarch/zen4/memcpy_impl_zen4.c): memcpy and mempcpy,  *)
(* and memmove when it is compiled with MEMMOVE_ZEN4.                      *)
(***************************************************************************)
EXTENDS CopyRoutines

Zen4Routines == {"memcpy_zen4", "mempcpy_zen4", "memmove_zen4"}

SmallZen4 ==
  /\ Called(Zen4Routines)
  /\ size <= 8 * ZMM_SZ
  /\ OneGroup( IF size >= ZMM_SZ THEN ZmmEnds(size)
               ELSE IF routine \in Memmoves THEN NarrowEnds(size)
               ELSE Block(0, size) )

Zen4Overlap ==
  Called(Zen4Routines \cap Memmoves) /\ 8 * ZMM_SZ < size /\ ~Disjoint

\* Copying backwards from the end of the buffer, aligned or not.
BackwardFromEndZen4 ==
  /\ Zen4Overlap
  /\ src < dst
  /\ KeepAndLoop("zen4_backward", LastVecs(1, ZMM_SZ),
                 Loop(4, ZMM_SZ,
                      IF SameAlignment(ZMM_SZ) THEN "ALIGNED" ELSE "UNALIGNED",
                      "ALIGNED"),
                 size)

\* Backwards from the last aligned end of a vector in the destination; the
\* vector at the very end is kept.
BackwardZen4 ==
  /\ Zen4Overlap
  /\ src < dst
  /\ KeepAndLoop("zen4_backward", LastVecs(1, ZMM_SZ),
                 Loop(4, ZMM_SZ,
                      IF SameAlignment(ZMM_SZ) THEN "ALIGNED" ELSE "UNALIGNED",
                      "ALIGNED"),
                 size - ((dst + size) % ZMM_SZ))

\* Forwards from the first aligned vector of the destination; the first
\* vector is kept.
ForwardZen4 ==
  /\ Zen4Overlap
  /\ dst <= src
  /\ KeepAndLoop("zen4_forward", Block(0, ZMM_SZ),
                 Loop(4, ZMM_SZ,
                      IF SameAlignment(ZMM_SZ) THEN "ALIGNED" ELSE "UNALIGNED",
                      "ALIGNED"),
                 AlignedWithin(1, ZMM_SZ))

\* Buffers apart: both ends at once, then the loop the size calls for.
DisjointZen4 ==
  /\ Called(Zen4Routines)
  /\ 8 * ZMM_SZ < size
  /\ routine \in Memmoves => Disjoint
  /\ EnterLoop("zen4_disjoint", Ends(4 * ZMM_SZ, size),
       IF SameAlignment(ZMM_SZ)
         THEN IF size < limits.l2 THEN Loop(8, YMM_SZ, "ALIGNED", "ALIGNED")
              ELSE IF size < limits.nt_start
                THEN Loop(4, YMM_SZ, "ALIGNED", "ALIGNED")
              ELSE Loop(4, ZMM_SZ, "ALIGNED", "STREAM")
         ELSE Loop(4, ZMM_SZ, "UNALIGNED",
                   IF size < limits.nt_start THEN "ALIGNED" ELSE "STREAM"),
       AlignedWithin(4, ZMM_SZ))

FinishZen4 ==
  \/ LoopOverBackward("zen4_backward", 4 * ZMM_SZ) /\ AfterLoop(Rest(offset), "kept")
  \/ /\ LoopOver("zen4_forward", size - 4 * ZMM_SZ)
     /\ AfterLoop(Shift(Rest(size - offset), offset), "kept")
  \/ LoopOver("zen4_disjoint", size - 4 * ZMM_SZ) /\ AfterLoop({}, "done")

StepZen4 ==
  \/ SmallZen4 \/ BackwardZen4 \/ ForwardZen4 \/ DisjointZen4 \/ FinishZen4
  \/ IterateBackward("zen4_backward", 4 * ZMM_SZ)
  \/ IterateForward("zen4_forward", size - 4 * ZMM_SZ)
  \/ IterateForward("zen4_disjoint", size - 4 * ZMM_SZ)

=============================================================================
