------------------------------- MODULE Memset -------------------------------
(***************************************************************************)
(* memset: the AVX2, AVX-512, zen4 and erms routines, and the variants a   *)
(* user selects (src/tunable).  memset loads nothing, so src is never used *)
(* and save stays empty; the thresholds a call reads are any combination   *)
(* of values, because another thread may be setting them in libmem_init.   *)
(***************************************************************************)
EXTENDS CopyRoutines

CONSTANTS
  LimitSets,  \* [l2, l3, rep_start, rep_stop, nt_start, nt_stop]
  Vals        \* the ints passed for the byte, each the set of its 64 bits when it
              \* is made a long: the sign is bit 31 and all those above

ASSUME ValsAssumption ==
  \A v \in Vals : v \subseteq 0 .. 63 /\ v \cap (31 .. 63) \in {{}, 31 .. 63}

VARIABLE val  \* the argument of that name, {} between calls

memsetVars == <<vars, val>>

Avx2Tunables == {"avx2_unaligned", "avx2_aligned_store", "avx2_nt_store"}
Avx512Tunables == {"avx512_unaligned", "avx512_aligned_store", "avx512_nt_store"}
ErmsTunables ==
  {"erms_b_aligned", "erms_w_aligned", "erms_d_aligned", "erms_q_aligned"}
Thresholds == {"threshold_avx2", "threshold_avx512"}

MemsetRoutines ==
  {"memset_avx2", "memset_avx512", "memset_avx512_erms", "memset_zen4"}
    \cup Avx2Tunables \cup Avx512Tunables \cup ErmsTunables \cup Thresholds

\* The register the routine stores.
Vec == IF routine \in {"memset_avx2"} \cup Avx2Tunables THEN YMM_SZ ELSE ZMM_SZ

\* A byte of memory that no address is the origin of: val's low byte, and any other.
Filled == MemSz
OtherByte == MemSz + 1

-----------------------------------------------------------------------------
FilledWith(m, O) == [a \in Addr |-> IF a - dst \in O THEN Filled ELSE m[a]]

Fill(O, at, kind) == mem' = FilledWith(mem, O) /\ Access(O, at, kind)

FillAndReturn(O) ==
  /\ Fill(O, 0, Unaligned)
  /\ ret' = dst
  /\ pc' = "done"
  /\ UNCHANGED <<dst, src, size, offset, loop, save, routine, limits>>

\* Fill O, then loop from `from' on with aligned or non-temporal stores.
FillAndLoop(path, O, from, vec, store_type) ==
  /\ Fill(O, 0, Unaligned)
  /\ loop' = Loop(4 * (Vec \div vec), vec, "UNALIGNED", store_type)
  /\ offset' = from
  /\ pc' = path
  /\ ret' = dst
  /\ UNCHANGED <<dst, src, size, save, routine, limits>>

\* One iteration too many, when the tail begins where the loop ends.
FillPastEnd(path, end) ==
  /\ pc = path
  /\ offset <= end
  /\ Fill(Block(offset, loop.step), offset, loop)
  /\ offset' = offset + loop.step
  /\ UNCHANGED <<callVars, pc, loop, save>>

\* A loop that does not advance.
FillStuck(path, end) ==
  /\ pc = path
  /\ offset < end
  /\ Fill(Block(offset, loop.step), offset, loop)
  /\ offset' = offset
  /\ UNCHANGED <<callVars, pc, loop, save>>

\* while (offset < end), and do .. while: its first test would be true.
FillIteration(path, end) ==
  /\ pc = path
  /\ offset < end
  /\ Fill(Block(offset, loop.step), offset, loop)
  /\ offset' = offset + loop.step
  /\ UNCHANGED <<callVars, pc, loop, save>>

FillTail(O, next) ==
  /\ Fill(O, 0, Unaligned)
  /\ pc' = next
  /\ UNCHANGED <<callVars, offset, loop, save>>

\* The ends of n bytes in the narrowest register of which two cover them.
FillEnds(n) == IF n < ZMM_SZ THEN NarrowEnds(n) ELSE ZmmEnds(n)

-----------------------------------------------------------------------------
(***************************************************************************)
(* _memset_avx2                                                            *)
(***************************************************************************)
SmallAvx2 ==
  /\ Called({"memset_avx2"})
  /\ size <= 8 * YMM_SZ
  /\ FillAndReturn( IF size <= 2 * YMM_SZ THEN FillEnds(size)
                    ELSE IF size <= 4 * YMM_SZ THEN Ends(2 * YMM_SZ, size)
                    ELSE Ends(4 * YMM_SZ, size) )

LargeAvx2 ==
  /\ Called({"memset_avx2"})
  /\ 8 * YMM_SZ < size
  /\ FillAndLoop("avx2", Block(0, 4 * YMM_SZ), AlignedWithin(4, YMM_SZ), YMM_SZ,
                 IF size <= limits.l3 THEN "ALIGNED" ELSE "STREAM")

FinishAvx2 ==
  /\ LoopOver("avx2", size - 4 * YMM_SZ)
  /\ FillTail(IF size = offset THEN {} ELSE LastVecs(4, YMM_SZ), "done")

(***************************************************************************)
(* _memset_avx512: the ends first, then a loop between them.               *)
(***************************************************************************)
SmallAvx512 ==
  /\ Called({"memset_avx512"})
  /\ size <= 8 * ZMM_SZ
  /\ FillAndReturn(Rest(size))

LargeAvx512 ==
  /\ Called({"memset_avx512"})
  /\ 8 * ZMM_SZ < size
  /\ FillAndLoop("avx512", Ends(4 * ZMM_SZ, size), AlignedWithin(4, ZMM_SZ),
                 ZMM_SZ, "ALIGNED")

FinishAvx512 == LoopOver("avx512", size - 4 * ZMM_SZ) /\ FillTail({}, "done")

(***************************************************************************)
(* _memset_avx512_erms and __memset_zen4: the tail is as many vectors as   *)
(* are left.                                                               *)
(***************************************************************************)
SmallErms ==
  /\ Called({"memset_avx512_erms"})
  /\ size <= 8 * ZMM_SZ
  /\ FillAndReturn(Rest(size))

RepStos ==
  /\ Called({"memset_avx512_erms"})
  /\ 8 * ZMM_SZ < size
  /\ limits.rep_start <= size /\ size <= limits.rep_stop
  /\ FillAndReturn(Block(0, 4 * ZMM_SZ)
       \cup Block(AlignedWithin(4, ZMM_SZ), size - AlignedWithin(4, ZMM_SZ)))

LargeErms ==
  /\ Called({"memset_avx512_erms"})
  /\ 8 * ZMM_SZ < size
  /\ size < limits.rep_start \/ limits.rep_stop < size
  /\ FillAndLoop("vectors", Block(0, 4 * ZMM_SZ), AlignedWithin(4, ZMM_SZ),
                 ZMM_SZ, IF size < limits.rep_start THEN "ALIGNED" ELSE "STREAM")

SmallZen4 ==
  /\ Called({"memset_zen4"})
  /\ size <= 8 * ZMM_SZ
  /\ FillAndReturn(
       IF size <= 4 * ZMM_SZ THEN Rest(size)
       ELSE Block(0, 4 * ZMM_SZ)
              \cup LastVecs(rem_vecs(size - 4 * ZMM_SZ, ZMM_SZ), ZMM_SZ))

LargeZen4 ==
  /\ Called({"memset_zen4"})
  /\ 8 * ZMM_SZ < size
  /\ FillAndLoop("vectors", Block(0, 4 * ZMM_SZ), AlignedWithin(4, ZMM_SZ),
                 IF size < limits.l2 THEN YMM_SZ ELSE ZMM_SZ, "ALIGNED")

FinishVectors ==
  /\ LoopOver("vectors", size - 4 * ZMM_SZ)
  /\ FillTail( IF offset = size THEN {}
               ELSE LastVecs(rem_vecs(size - offset, ZMM_SZ), ZMM_SZ), "done")

-----------------------------------------------------------------------------
(***************************************************************************)
(* The tunable variants.                                                   *)
(***************************************************************************)
Unaligneds == {"avx2_unaligned", "avx512_unaligned"}
AlignedStores == (Avx2Tunables \cup Avx512Tunables) \ Unaligneds

\* Only the AVX2 variants with temporal stores loop at twice the register.
TwoVectorsAreSmall == routine \notin {"avx2_unaligned", "avx2_aligned_store"}

SmallTunable ==
  /\ Called(Avx2Tunables \cup Avx512Tunables)
  /\ size < 2 * Vec \/ (size = 2 * Vec /\ TwoVectorsAreSmall)
  /\ FillAndReturn(FillEnds(size))

LargeUnaligned ==
  /\ Called(Unaligneds)
  /\ 2 * Vec < size \/ (size = 2 * Vec /\ ~TwoVectorsAreSmall)
  /\ IF size < 4 * Vec \/ (size = 4 * Vec /\ TwoVectorsAreSmall)
       THEN FillAndReturn(Ends(2 * Vec, size))
       ELSE FillAndLoop("between", Ends(4 * Vec, size), 4 * Vec, Vec, "UNALIGNED")

FinishUnaligned == LoopOver("between", size - 4 * Vec) /\ FillTail({}, "done")

LargeAligned ==
  /\ Called(AlignedStores)
  /\ 2 * Vec < size \/ (size = 2 * Vec /\ ~TwoVectorsAreSmall)
  /\ FillAndLoop("aligned", Block(0, Vec), AlignedWithin(1, Vec), Vec,
                 IF routine \in {"avx2_nt_store", "avx512_nt_store"}
                   THEN "STREAM" ELSE "ALIGNED")

\* The vectors that are left when fewer than four remain: two, then one more
\* if more than one is still missing.
AlignedRest(n) == IF n >= 2 * Vec
                    THEN 2 + (IF n - 2 * Vec > Vec THEN 1 ELSE 0)
                    ELSE IF n > Vec THEN 1 ELSE 0

FinishAligned ==
  /\ pc = "aligned"
  /\ size - offset < 4 * Vec
  /\ Fill(Block(offset, AlignedRest(size - offset) * Vec), offset, loop)
  /\ pc' = "last"
  /\ UNCHANGED <<callVars, offset, loop, save>>

FinishLast == pc = "last" /\ FillTail(LastVecs(1, Vec), "done")

\* rep stosb, stosw (for the double words too) and stosq.
Unit == CASE routine = "erms_b_aligned" -> 1
          [] routine \in {"erms_w_aligned", "erms_d_aligned"} -> 2
          [] routine = "erms_q_aligned" -> 8
          [] OTHER -> 1

\* B | B << n, and byte k of B.
Doubled(B, n) == B \cup { b + n : b \in B }
ByteOf(B, k) == { b \in 0 .. 7 : b + 8 * k \in B }

\* What is stored again and again: made of the int, not of its low byte.
Pattern == CASE Unit = 2 -> Doubled(val, 8)
             [] Unit = 8 -> Doubled(Doubled(Doubled(val, 8), 16), 32)
             [] OTHER -> val

RepStosTunable ==
  /\ Called(ErmsTunables)
  /\ LET O == Block(0, (size \div Unit) * Unit)
         Byte(i) == IF ByteOf(Pattern, i % Unit) = ByteOf(val, 0)
                         THEN Filled ELSE OtherByte
     IN  /\ mem' = [a \in Addr |-> IF a - dst \in O THEN Byte(a - dst) ELSE mem[a]]
         /\ Access(O, 0, Unaligned)
  /\ ret' = dst
  /\ pc' = "done"
  /\ UNCHANGED <<dst, src, size, offset, loop, save, routine, limits>>

\* __memset_threshold hands the call to a variant.
ChooseByThreshold ==
  /\ Called(Thresholds)
  /\ LET avx512 == routine = "threshold_avx512" IN
     routine' =
       IF limits.rep_start < size /\ size < limits.rep_stop THEN "erms_b_aligned"
       ELSE IF limits.nt_start < size /\ size < limits.nt_stop
         THEN IF avx512 THEN "avx512_nt_store" ELSE "avx2_nt_store"
         ELSE IF avx512 THEN "avx512_unaligned" ELSE "avx2_unaligned"
  /\ UNCHANGED <<copyVars, limits>>

-----------------------------------------------------------------------------
NoLimits ==
  [l2 |-> 0, l3 |-> 0, rep_start |-> 0, rep_stop |-> 0, nt_start |-> 0, nt_stop |-> 0]

Init == CopyInit /\ routine = "none" /\ limits = NoLimits /\ val = {}

\* The quad word variant is selected for whole quad words, and so on.
Allowed(r, c) ==
  /\ r \in {"erms_w_aligned", "erms_d_aligned"} => c.size % 2 = 0
  /\ r = "erms_q_aligned" => c.size % 8 = 0

CallMemset ==
  /\ pc = "idle"
  /\ \E c \in Calls, r \in MemsetRoutines :
       Allowed(r, c) /\ Call(c) /\ routine' = r
  /\ limits' \in LimitSets
  /\ val' \in Vals

ReturnMemset == Return /\ routine' = "none" /\ limits' = NoLimits /\ val' = {}

StepMemset ==
  \/ SmallAvx2 \/ LargeAvx2 \/ FinishAvx2
  \/ SmallAvx512 \/ LargeAvx512 \/ FinishAvx512
  \/ SmallErms \/ RepStos \/ LargeErms \/ SmallZen4 \/ LargeZen4 \/ FinishVectors
  \/ SmallTunable \/ LargeUnaligned \/ FinishUnaligned
  \/ LargeAligned \/ FinishAligned \/ FinishLast
  \/ RepStosTunable \/ ChooseByThreshold
  \/ FillIteration("avx2", size - 4 * YMM_SZ)
  \/ FillIteration("avx512", size - 4 * ZMM_SZ)
  \/ FillIteration("vectors", size - 4 * ZMM_SZ)
  \/ FillIteration("between", size - 4 * Vec)
  \/ FillIteration("aligned", size - 4 * Vec + 1)

Step == (StepMemset /\ UNCHANGED val) \/ ReturnMemset

Next == CallMemset \/ Step

\* A call that has been made is executed: the thread keeps running.
Spec == Init /\ [][Next]_memsetVars /\ WF_memsetVars(Step)

-----------------------------------------------------------------------------
TypeOK ==
  /\ mem \in [Addr -> Addr \cup {Filled, OtherByte}]
  /\ dst \in 0 .. MemSz /\ src \in 0 .. MemSz /\ size \in 0 .. MemSz /\ ret \in 0 .. MemSz
  /\ pc \in {"idle", "start", "avx2", "avx512", "vectors", "between", "aligned",
             "last", "done"}
  /\ offset \in 0 .. size
  /\ save = << >>
  /\ routine \in MemsetRoutines \cup {"none"}
  /\ val \in Vals \cup {{}}

\* rep stos of a word or a quad word repeats a val that is no byte as it is: right is
\* then only the first byte of each unit.
MayDiffer(a) ==
  routine \in ErmsTunables /\ (a - dst) % Unit # 0 /\ ~(val \subseteq 0 .. 7)

\* When memset returns, every byte of the range holds val's low byte and no byte beside
\* it has been written, however prologue, loop and tail overlap, whatever thresholds were
\* read and, but for the wide variants of rep stos, whatever int val is; the result is mem.
MemsetIsCorrect ==
  pc = "done" =>
    /\ ret = dst
    /\ \A a \in Addr :
         IF a - dst \notin 0 .. size - 1 THEN mem[a] = a
         ELSE mem[a] = Filled \/ (mem[a] = OtherByte /\ MayDiffer(a))

\* Every call returns.
MemsetReturns == (pc = "start") ~> (pc = "done")

=============================================================================
