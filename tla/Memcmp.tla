------------------------------- MODULE Memcmp -------------------------------
(***************************************************************************)
(* memcmp: the AVX2, generic AVX-512 and zen4 routines, and the variants   *)
(* of src/tunable.  Every one compares a few registers from the front,     *)
(* groups of four in a loop, and the last bytes with registers placed      *)
(* against the end, which read some bytes a second time.                   *)
(***************************************************************************)
EXTENDS Compare

CONSTANTS
  L1D,         \* zen_cache_info.l1d_per_core
  RepStart,    \* __repmov_start_threshold
  RepStop      \* __repmov_stop_threshold

OptimizedMemcmps == {"memcmp_avx2", "memcmp_avx512", "memcmp_zen4"}
TunableAvx2 == {"memcmp_avx2_unaligned", "memcmp_avx2_nt", "memcmp_avx2_aligned"}
TunableAvx512 ==
  {"memcmp_avx512_unaligned", "memcmp_avx512_nt", "memcmp_avx512_aligned"}
WideRepCmps == {"memcmp_erms_w", "memcmp_erms_d", "memcmp_erms_q"}
ErmsMemcmps == {"memcmp_erms_b"} \cup WideRepCmps
Memcmps == OptimizedMemcmps \cup TunableAvx2 \cup TunableAvx512
             \cup ErmsMemcmps \cup {"memcmp_threshold"}

\* The variants that load whole vectors with aligned instructions.
AlignedMemcmps == {"memcmp_avx2_nt", "memcmp_avx2_aligned",
                   "memcmp_avx512_nt", "memcmp_avx512_aligned"}
Aligned == IF routine \in AlignedMemcmps THEN {str1, str2} ELSE {}

\* The offset of the byte that differs, which AVX2 code often holds in an int.
OffsetOf(R, i, narrow) ==
  IF i = 0 THEN NONE
  ELSE IF routine \in narrow THEN ToInt(Tzcnt(R[i])) ELSE Tzcnt(R[i])

IntTails == {"memcmp_avx2", "memcmp_zen4"} \cup TunableAvx2

\* Registers that are compared before a loop is entered.
CompareAndGoOn(R, path, o) ==
  LET i == FirstHit(R)
  IN  /\ Loaded(R, i, {})
      /\ IF i # 0 THEN Compared(Tzcnt(R[i])) ELSE GoOn(path, o)

\* An iteration over four vectors of v bytes.
CompareGroup(path, v) ==
  LET R == Vecs(offset, 4, v)
      i == FirstHit(R)
  IN  /\ Loaded(R, i, Aligned)
      /\ IF i # 0 THEN Compared(OffsetOf(R, i, TunableAvx2))
         ELSE GoOn(path, offset + 4 * v)

\* The XOR of four vectors says only that one of them differs.
CompareReduced(path, v) ==
  LET R == Vecs(offset, 4, v)
  IN  /\ Loaded(R, 0, Aligned)
      /\ IF FirstHit(R) # 0 THEN Compared(Tzcnt(R[FirstHit(R)]))
         ELSE GoOn(path, offset + 4 * v)

\* Nothing is left, or the last vectors decide.
CompareTail(R) ==
  IF offset = size THEN load' = NoLoad /\ Compared(NONE)
  ELSE LET i == FirstHit(R)
       IN  Loaded(R, i, {}) /\ Compared(OffsetOf(R, i, IntTails))

\* The vectors of v bytes that cover what a loop has left.
rem_vecs(v) == ((size - offset) \div v) + (IF (size - offset) % v # 0 THEN 1 ELSE 0)

-----------------------------------------------------------------------------
(***************************************************************************)
(* _memcmp_avx2                                                            *)
(***************************************************************************)
SmallAvx2 ==
  /\ Called({"memcmp_avx2"})
  /\ size <= 4 * YMM_SZ
  /\ CompareAndReturn(
       IF size < YMM_SZ THEN WidestEnds(size)
       ELSE IF size <= 2 * YMM_SZ THEN EndVecs(size, 1, YMM_SZ)
       ELSE EndVecs(size, 2, YMM_SZ), {})

LargeAvx2 ==
  /\ Called({"memcmp_avx2"})
  /\ 4 * YMM_SZ < size
  /\ CompareAndGoOn(Vecs(0, 4, YMM_SZ),
       IF 8 * YMM_SZ < size THEN "memcmp_avx2_loop" ELSE "memcmp_avx2_tail",
       IF 8 * YMM_SZ < size THEN 4 * YMM_SZ ELSE 0)

\* size & (-4 * YMM_SZ)
WholeGroups == size - (size % (4 * YMM_SZ))

IterateAvx2 ==
  /\ pc = "memcmp_avx2_loop"
  /\ offset < WholeGroups
  /\ CompareGroup(pc, YMM_SZ)

TailAvx2 ==
  /\ \/ pc = "memcmp_avx2_loop" /\ WholeGroups <= offset
     \/ pc = "memcmp_avx2_tail"
  /\ CompareTail(LastVecs(size, 4, YMM_SZ))

-----------------------------------------------------------------------------
(***************************************************************************)
(* _memcmp_avx512 and __memcmp_zen4.  The test for mem1 = mem2, which only *)
(* saves the comparison of equal bytes, is left out.                       *)
(***************************************************************************)
SmallAvx512 ==
  /\ Called({"memcmp_avx512", "memcmp_zen4"})
  /\ size <= 4 * ZMM_SZ
  /\ CompareAndReturn(
       IF size <= ZMM_SZ THEN Vecs(0, 1, size)
       ELSE IF size <= 2 * ZMM_SZ THEN EndVecs(size, 1, ZMM_SZ)
       ELSE EndVecs(size, 2, ZMM_SZ), {})

LargeAvx512 ==
  /\ Called({"memcmp_avx512"})
  /\ 4 * ZMM_SZ < size
  /\ CompareAndGoOn(Vecs(0, 1, ZMM_SZ),
       IF 2 * (L1D \div 3) <= size THEN "memcmp_avx512_direct" ELSE "memcmp_avx512_xor",
       ZMM_SZ)

IterateAvx512 ==
  /\ offset < size - 4 * ZMM_SZ
  /\ \/ pc = "memcmp_avx512_direct" /\ CompareGroup(pc, ZMM_SZ)
     \/ pc = "memcmp_avx512_xor" /\ CompareReduced(pc, ZMM_SZ)

TailAvx512 ==
  /\ pc \in {"memcmp_avx512_direct", "memcmp_avx512_xor"}
  /\ size - 4 * ZMM_SZ <= offset
  /\ CompareTail(LastVecs(size, rem_vecs(ZMM_SZ), ZMM_SZ))

LargeZen4 ==
  /\ Called({"memcmp_zen4"})
  /\ 4 * ZMM_SZ < size
  /\ GoOn("memcmp_zen4_loop", 0)
  /\ UNCHANGED load

IterateZen4 ==
  /\ pc = "memcmp_zen4_loop"
  /\ offset < size - 4 * YMM_SZ
  /\ CompareGroup(pc, YMM_SZ)

TailZen4 ==
  /\ pc = "memcmp_zen4_loop"
  /\ size - 4 * YMM_SZ <= offset
  /\ CompareTail(LastVecs(size, rem_vecs(YMM_SZ), YMM_SZ))

-----------------------------------------------------------------------------
(***************************************************************************)
(* __memcmp_avx2_* and __memcmp_avx512_*.  The loop condition of the first *)
(* is "size >= offset", that of the others "size > offset".                *)
(***************************************************************************)
Tunable == TunableAvx2 \cup TunableAvx512

Vector == IF routine \in TunableAvx2 THEN YMM_SZ ELSE ZMM_SZ

\* Two to four bytes the AVX2 code compares as two words: the same bytes.
SmallTunable ==
  /\ Called(Tunable)
  /\ size <= 2 * Vector
  /\ CompareAndReturn(
       IF routine \in TunableAvx2 THEN WidestEnds(size) ELSE NarrowestEnds(size), {})

\* The first two vectors are loaded as those of the loop are.
MediumTunable ==
  /\ Called(Tunable)
  /\ 2 * Vector < size /\ size <= 4 * Vector
  /\ CompareAndReturn(EndVecs(size, 2, Vector), Aligned)

LargeTunable ==
  /\ Called(Tunable)
  /\ 4 * Vector < size
  /\ GoOn("tunable_loop", 0)
  /\ UNCHANGED load

\* Something is left.
MoreBytes == offset < size

\* Another group fits.
MoreGroups ==
  IF routine \in TunableAvx2 THEN offset <= size - 4 * Vector
                             ELSE offset < size - 4 * Vector

IterateTunable ==
  /\ pc = "tunable_loop"
  /\ MoreGroups
  /\ CompareGroup(pc, Vector)

TailTunable ==
  /\ pc = "tunable_loop"
  /\ ~MoreGroups
  /\ CompareTail(LastVecs(size, 4, Vector))

-----------------------------------------------------------------------------
Unit == CASE routine = "memcmp_erms_b" -> 1
          [] routine = "memcmp_erms_w" -> 2
          [] routine = "memcmp_erms_d" -> 4
          [] routine = "memcmp_erms_q" -> 8
          [] OTHER -> 0

\* __erms_cmpsb/w/d/q: repz cmps ends behind the first unit that differs, or
\* behind the last; the first bytes of that unit are subtracted.  size is an
\* int here.
RepCmps ==
  /\ Called(ErmsMemcmps)
  /\ LET units == ToInt(size) \div Unit
         end == Unit * Min({units, (first \div Unit) + 1})
     IN  /\ load' = [from |-> Min({0, end - Unit}), to |-> end, vec |-> 1, aligned |-> {}]
         /\ Compared(end - Unit)

\* __memcmp_threshold hands the call to a variant; the CPU has AVX-512 or not.
ChooseByThreshold ==
  /\ Called({"memcmp_threshold"})
  /\ IF RepStart < size /\ size < RepStop
     THEN routine' = "memcmp_erms_b"
     ELSE routine' \in {"memcmp_avx512_unaligned", "memcmp_avx2_unaligned"}
  /\ UNCHANGED <<str1, str2, size, first, last, pc, offset, vecs, load, ret>>

StepMemcmp ==
  \/ SmallAvx2 \/ LargeAvx2 \/ IterateAvx2 \/ TailAvx2
  \/ SmallAvx512 \/ LargeAvx512 \/ IterateAvx512 \/ TailAvx512
  \/ LargeZen4 \/ IterateZen4 \/ TailZen4
  \/ SmallTunable \/ MediumTunable \/ LargeTunable \/ IterateTunable \/ TailTunable
  \/ RepCmps \/ ChooseByThreshold

=============================================================================
