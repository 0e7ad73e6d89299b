--------------------------- MODULE TunableCopies ---------------------------
(***************************************************************************)
(* The copy variants a user selects with LIBMEM_OPERATION and              *)
(* LIBMEM_THRESHOLD (src/tunable): seven vector variants for the           *)
(* combinations of aligned, unaligned and non-temporal loads and stores,   *)
(* four rep-movs variants, and the variant that picks one of them by size. *)
(* The AVX2 and AVX-512 files differ in the register only: ZMM_SZ is the   *)
(* size of a register of either.                                           *)
(***************************************************************************)
EXTENDS CopyRoutines

VARIABLE variant  \* the variant executing

TunableRoutines == {"memcpy_tunable", "mempcpy_tunable", "memmove_tunable"}

NtVariants == {"nt", "nt_load", "nt_store"}
VectorVariants ==
  {"unaligned", "aligned", "aligned_load", "aligned_store"} \cup NtVariants
ErmsVariants ==
  {"erms_b_aligned", "erms_w_aligned", "erms_d_aligned", "erms_q_aligned"}

\* The unit of rep movsb, movsw, movsd and movsq.
Unit == CASE variant = "erms_b_aligned" -> 1
          [] variant = "erms_w_aligned" -> 2
          [] variant = "erms_d_aligned" -> 4
          [] variant = "erms_q_aligned" -> 8
          [] OTHER -> 0

Load_type(v) ==
  CASE v \in {"aligned", "aligned_load"} -> "ALIGNED"
    [] v \in {"nt", "nt_load"} -> "STREAM"
    [] OTHER -> "UNALIGNED"

Store_type(v) ==
  CASE v \in {"aligned", "aligned_store"} -> "ALIGNED"
    [] v \in {"nt", "nt_store"} -> "STREAM"
    [] OTHER -> "UNALIGNED"

VectorLoop == Loop(4, ZMM_SZ, Load_type(variant), Store_type(variant))

\* The buffer whose alignment a one-sided variant establishes.
AlignedSide == CASE variant \in {"aligned_load", "nt_load"} -> src
                 [] variant \in {"aligned_store", "nt_store"} -> dst
                 [] OTHER -> 0

OneSided == variant \in {"aligned_load", "aligned_store", "nt_load", "nt_store"}

\* The alignment step without its correction.
StartUnadjusted == IF OneSided THEN ZMM_SZ ELSE 0

\* Where a forward loop starts: one vector on, rounded down to alignment.
StartOffset == IF OneSided THEN ZMM_SZ - (AlignedSide % ZMM_SZ) ELSE 0

\* The bytes behind the last aligned position, which a backward loop skips.
BackwardSkip ==
  CASE variant = "aligned" -> size % ZMM_SZ
    [] OneSided -> (AlignedSide + size) % ZMM_SZ
    [] OTHER -> 0

SrcRunsIntoDst == dst < src + size /\ src < dst

-----------------------------------------------------------------------------
CalledVector(routines) == Called(routines) /\ variant \in VectorVariants

\* __<func>_ble_8ymm
SmallTunable ==
  /\ CalledVector(TunableRoutines)
  /\ size <= 8 * ZMM_SZ
  /\ OneGroup(IF size < ZMM_SZ THEN NarrowEnds(size) ELSE ZmmEnds(size))
  /\ UNCHANGED variant

\* memcpy and mempcpy: both ends, then a loop over what lies between.
CopyTunable ==
  /\ CalledVector(TunableRoutines \ Memmoves)
  /\ 8 * ZMM_SZ < size
  /\ EnterLoop("between", Ends(4 * ZMM_SZ, size), VectorLoop, StartOffset)
  /\ UNCHANGED variant

\* memmove never streams into an overlap.
AvoidStreaming ==
  /\ Called(Memmoves)
  /\ 8 * ZMM_SZ < size
  /\ variant \in NtVariants
  /\ ~Disjoint
  /\ variant' = CASE variant = "nt" -> "aligned"
                  [] variant = "nt_load" -> "aligned_load"
                  [] variant = "nt_store" -> "aligned_store"
  /\ UNCHANGED vars

\* The ends are kept, the loop runs between them.
MoveForwardTunable ==
  /\ CalledVector(Memmoves)
  /\ 8 * ZMM_SZ < size
  /\ IF variant \in NtVariants THEN Disjoint ELSE ~SrcRunsIntoDst
  /\ KeepAndLoop("forward",
       LastVecs(4, ZMM_SZ) \cup (IF OneSided THEN Block(0, ZMM_SZ) ELSE {}),
       VectorLoop, StartOffset)
  /\ UNCHANGED variant

MoveBackwardTunable ==
  /\ CalledVector(Memmoves)
  /\ 8 * ZMM_SZ < size
  /\ variant \notin NtVariants
  /\ SrcRunsIntoDst
  /\ KeepAndLoop("backward",
       Block(0, 4 * ZMM_SZ)
         \cup (IF variant = "unaligned" THEN {} ELSE LastVecs(1, ZMM_SZ)),
       VectorLoop, size - BackwardSkip)
  /\ UNCHANGED variant

IterateTunable ==
  /\ \/ IterateForward("between", size - 4 * ZMM_SZ)
     \/ IterateForward("forward", size - 4 * ZMM_SZ)
     \/ IterateBackward("backward", 4 * ZMM_SZ)
  /\ UNCHANGED variant

FinishTunable ==
  /\ \/ LoopOver("between", size - 4 * ZMM_SZ) /\ AfterLoop({}, "done")
     \/ LoopOver("forward", size - 4 * ZMM_SZ) /\ AfterLoop({}, "kept")
     \/ LoopOverBackward("backward", 4 * ZMM_SZ) /\ AfterLoop({}, "kept")
  /\ UNCHANGED variant

-----------------------------------------------------------------------------
(***************************************************************************)
(* rep movs: one unit at a time.                                           *)
(***************************************************************************)
Units == size \div Unit

EnterRep(path, from, value) ==
  /\ loop' = Loop(1, Unit, "UNALIGNED", "UNALIGNED")
  /\ offset' = from
  /\ pc' = path
  /\ ret' = value
  /\ UNCHANGED <<mem, dst, src, size, save, acc, routine, limits, variant>>

\* memmove that only ever moves upwards.
RepMovsAlwaysUp ==
  /\ Called(TunableRoutines)
  /\ variant \in ErmsVariants
  /\ EnterRep("rep", 0, dst)

\* __erms_movs*, __erms_movs*_last_byte: memcpy and mempcpy return the address
\* rdi has reached; memmove returns dst.
RepMovs ==
  /\ Called(TunableRoutines)
  /\ variant \in ErmsVariants
  /\ routine \in Memmoves => dst < src
  /\ EnterRep("rep", 0, IF routine \in Memmoves THEN dst ELSE dst + Units * Unit)

\* __erms_movs*_back.  That of the bytes overwrites rax without telling the
\* compiler, which may keep dst there: memmove returns dst or the last byte's
\* address.
RepMovsBack ==
  /\ Called(Memmoves)
  /\ variant \in ErmsVariants
  /\ src <= dst
  /\ \E value \in {dst} \cup (IF Unit = 1 THEN {dst + size - 1} ELSE {}) :
       EnterRep("rep_back", size, value)

IterateRep ==
  /\ \/ IterateForward("rep", Units * Unit)
     \/ IterateBackward("rep_back", size - Units * Unit)
  /\ UNCHANGED variant

FinishRep ==
  /\ \/ LoopOver("rep", Units * Unit) /\ AfterLoop({}, "done")
     \/ LoopOverBackward("rep_back", size - Units * Unit) /\ AfterLoop({}, "done")
  /\ UNCHANGED variant

-----------------------------------------------------------------------------
\* __<func>_threshold hands the call to a variant.
ChooseByThreshold ==
  /\ Called(TunableRoutines)
  /\ variant = "threshold"
  /\ variant' =
       IF limits.rep_start < size /\ size < limits.rep_stop THEN "erms_b_aligned"
       ELSE IF limits.nt_start < size /\ size < limits.nt_stop THEN "nt_store"
       ELSE "unaligned"
  /\ UNCHANGED vars

\* What a caller must grant besides: the aligned variants are selected for
\* aligned buffers only, and the word, double and quad word variants for whole
\* numbers of units.
Granted(v, c) ==
  /\ v \in {"aligned", "nt"} => c.dst % ZMM_SZ = 0 /\ c.src % ZMM_SZ = 0
  /\ v = "erms_w_aligned" => c.size % 2 = 0
  /\ v = "erms_d_aligned" => c.size % 4 = 0
  /\ v = "erms_q_aligned" => c.size % 8 = 0

StepTunable ==
  \/ ChooseByThreshold \/ AvoidStreaming
  \/ SmallTunable \/ CopyTunable \/ MoveForwardTunable \/ MoveBackwardTunable
  \/ IterateTunable \/ FinishTunable
  \/ RepMovs \/ RepMovsBack \/ IterateRep \/ FinishRep

=============================================================================
