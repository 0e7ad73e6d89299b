-------------------------------- MODULE Scan --------------------------------
(***************************************************************************)
(* strlen, strnlen, strchr and memchr: the AVX2 and AVX-512 routines, and  *)
(* zen4's strlen.  They look for the first stop in one buffer, str1.       *)
(*                                                                         *)
(* strlen and strchr are strnlen without the conditions on size: here      *)
(* their size is one that no offset reaches.                               *)
(***************************************************************************)
EXTENDS Compare

Strnlens == {"strnlen_avx2", "strnlen_avx512"}
Avx2Scans == {"strlen_avx2", "strnlen_avx2", "strchr_avx2"}
Avx512Scans == {"strlen_avx512", "strlen_zen4", "strnlen_avx512", "strchr_avx512"}
Avx2Memchrs == {"memchr_avx2", "memchr_avx2_strict"}
Avx512Memchrs == {"memchr_avx512", "memchr_avx512_strict"}
Memchrs == Avx2Memchrs \cup Avx512Memchrs
Scans == Avx2Scans \cup Avx512Scans \cup Memchrs

\* The vector of a routine.
ScanVec == IF routine \in Avx2Scans \cup Avx2Memchrs THEN YMM_SZ ELSE ZMM_SZ

\* The build with ALMEM_STRICT_BOUNDS.
Strict == routine \in {"memchr_avx2_strict", "memchr_avx512_strict"}

\* The bytes in front of str1 in its aligned vector, and those from str1 on.
Leading == str1 % ScanVec
Trailing == ScanVec - Leading

\* As in the routines of the other vector size.
AtPageEndYmm == PAGE_SZ - YMM_SZ < InPage(str1)

\* A vector at str1 would reach into the next page.
AtPageEnd == PAGE_SZ - ScanVec < InPage(str1)

\* AVX2's strnlen compares what it has found with maxlen.
Position(i) == IF routine = "strnlen_avx2" THEN AtStop(i) ELSE i

\* Registers that are all loaded before the first branch.
FindOrGoOn(R, aligned, path, o) ==
  LET i == FirstHit(R)
  IN  /\ Loaded(R, 0, aligned)
      /\ IF i # 0 THEN Compared(Position(Tzcnt(R[i]))) ELSE GoOn(path, o)

\* The same on a path without a loop.
FindAndReturn(R) ==
  LET i == FirstHit(R)
  IN  /\ Loaded(R, 0, {})
      /\ Compared(IF i = 0 THEN NONE ELSE Tzcnt(R[i]))

NothingLeft == load' = NoLoad /\ Compared(NONE)

ScanNothing ==
  /\ Called(Scans)
  /\ size = 0
  /\ NothingLeft

-----------------------------------------------------------------------------
(***************************************************************************)
(* _strlen_avx2, _strnlen_avx2 and _strchr_avx2.                           *)
(***************************************************************************)

\* The aligned vector that holds the first byte, what is in front of it being
\* shifted out of the mask; strnlen looks at the next if it is the last.
StartScanAtPageEndAvx2 ==
  /\ Called(Avx2Scans)
  /\ 0 < size
  /\ AtPageEnd
  /\ CompareOrGoOn(Vecs(-Leading, IF Trailing < size /\ size <= YMM_SZ THEN 2 ELSE 1,
                         YMM_SZ),
                   {}, YMM_SZ, "scan_line", Trailing)

StartScanAvx2 ==
  /\ Called(Avx2Scans)
  /\ 0 < size
  /\ ~AtPageEnd
  /\ CompareOrGoOn(Vecs(0, 1, YMM_SZ), {}, YMM_SZ, "scan_line", Trailing)

\* str & n is not set.
LowerHalf(n) == str1 % (2 * n) < n

\* One vector up to the next even one ...
LineAvx2 ==
  /\ pc = "scan_line"
  /\ IF LowerHalf(YMM_SZ)
     THEN CompareOrGoOn(Vecs(offset, 1, YMM_SZ),
                        IF offset + YMM_SZ <= size THEN {str1} ELSE {},
                        offset + YMM_SZ - 1, "scan_pair", offset + YMM_SZ)
     ELSE GoOn("scan_pair", offset) /\ UNCHANGED load

\* ... and two up to the next group of four.
PairAvx2 ==
  /\ pc = "scan_pair"
  /\ IF LowerHalf(2 * YMM_SZ) /\ offset + 2 * YMM_SZ <= size
     THEN FindOrGoOn(Vecs(offset, 2, YMM_SZ), {str1}, "scan_groups", offset + 2 * YMM_SZ)
     ELSE GoOn("scan_groups", offset) /\ UNCHANGED load

GroupAvx2 ==
  /\ pc = "scan_groups" /\ routine \in Avx2Scans
  /\ offset + 4 * YMM_SZ <= size
  /\ FindOrGoOn(Vecs(offset, 4, YMM_SZ), {str1}, pc, offset + 4 * YMM_SZ)

\* The last vectors one by one, also the one that only begins in the string.
LastScanAvx2 ==
  /\ pc = "scan_groups" /\ routine \in Avx2Scans
  /\ size < offset + 4 * YMM_SZ
  /\ IF offset < size
     THEN CompareOrGoOn(Vecs(offset, 1, YMM_SZ), {}, offset + YMM_SZ, pc, offset + YMM_SZ)
     ELSE NothingLeft

-----------------------------------------------------------------------------
(***************************************************************************)
(* _strlen_avx512, _strnlen_avx512, __strlen_zen4 and _strchr_avx512.      *)
(***************************************************************************)

\* A masked load up to the end of the page.
StartScanAtPageEndAvx512 ==
  /\ Called(Avx512Scans)
  /\ 0 < size
  /\ AtPageEnd
  /\ LET safe_bytes == Min({Trailing, size})
     IN  CompareOrGoOn(Vecs(0, 1, Min({Trailing, safe_bytes + Leading})), {},
                       Trailing, "scan_vecs", Trailing)

\* A vector, or a masked load of the size bytes.
StartScanAvx512 ==
  /\ Called(Avx512Scans)
  /\ 0 < size
  /\ ~AtPageEnd
  /\ CompareOrGoOn(Vecs(0, 1, Min({size, ZMM_SZ})), {},
                   IF size < ZMM_SZ THEN size ELSE Trailing, "scan_vecs", Trailing)

\* Seven vectors, and one to four up to the next group of four: what cnt_vec
\* counts down.
CountEnd ==
  LET seven == Trailing + 7 * ZMM_SZ
  IN  seven + 4 * ZMM_SZ - ((str1 + seven) % (4 * ZMM_SZ))

VectorAvx512 ==
  /\ pc = "scan_vecs"
  /\ offset < CountEnd /\ offset + ZMM_SZ <= size
  /\ FindOrGoOn(Vecs(offset, 1, ZMM_SZ), {str1}, pc, offset + ZMM_SZ)

LeaveVectorsAvx512 ==
  /\ pc = "scan_vecs"
  /\ CountEnd <= offset \/ size < offset + ZMM_SZ
  /\ GoOn("scan_groups", offset)
  /\ UNCHANGED load

GroupAvx512 ==
  /\ pc = "scan_groups" /\ routine \in Avx512Scans
  /\ offset + 4 * ZMM_SZ <= size
  /\ FindOrGoOn(Vecs(offset, 4, ZMM_SZ), {str1}, pc, offset + 4 * ZMM_SZ)

\* strnlen's last vectors, and a masked load of the last bytes.
LastScanAvx512 ==
  /\ pc = "scan_groups" /\ routine \in Avx512Scans
  /\ size < offset + 4 * ZMM_SZ
  /\ IF offset + ZMM_SZ <= size
     THEN FindOrGoOn(Vecs(offset, 1, ZMM_SZ), {str1}, pc, offset + ZMM_SZ)
     ELSE IF offset < size THEN CompareAndReturn(Vecs(offset, 1, size - offset), {})
     ELSE NothingLeft

-----------------------------------------------------------------------------
(***************************************************************************)
(* _memchr_avx2 and _memchr_avx512.                                        *)
(***************************************************************************)
\* Registers from either end, or up to three single bytes.
SmallMemchrStrict ==
  /\ Called({"memchr_avx2_strict"})
  /\ 0 < size /\ size <= YMM_SZ
  /\ LET regs == { r \in NarrowRegs : r < YMM_SZ /\ r <= size }
     IN  CompareAndReturn(IF size <= 3 THEN Vecs(0, size, 1)
                          ELSE EndVecs(size, 1, Max(regs)), {})

StartMemchrAvx2 ==
  /\ Called(Avx2Memchrs)
  /\ IF Strict THEN YMM_SZ < size ELSE 0 < size /\ ~AtPageEnd
  /\ CompareOrGoOn(Vecs(0, 1, YMM_SZ), {}, YMM_SZ, "memchr_rest", 0)

\* The aligned vector that holds the first byte, and the next one if size
\* reaches into it.
StartMemchrAtPageEndAvx2 ==
  /\ Called({"memchr_avx2"})
  /\ 0 < size
  /\ AtPageEnd
  /\ CompareOrGoOn(Vecs(-Leading, IF size <= Trailing THEN 1 ELSE 2, YMM_SZ), {str1},
                   Trailing + YMM_SZ, "memchr_rest", 0)

\* A whole vector if it lies in the page, or a masked load.
SmallMemchrAvx512 ==
  /\ Called(Avx512Memchrs)
  /\ 0 < size /\ size <= ZMM_SZ
  /\ CompareOrGoOn(Vecs(0, 1, IF AtPageEnd \/ Strict THEN size ELSE ZMM_SZ), {},
                   size, pc, 0)

MoreThanAVector ==
  pc = "memchr_rest" \/ (Called(Avx512Memchrs) /\ ZMM_SZ < size)

\* AVX2 code has compared the first vector already.
MediumMemchr ==
  /\ MoreThanAVector
  /\ size <= 4 * ScanVec
  /\ IF 2 * ScanVec < size THEN FindAndReturn(EndVecs(size, 2, ScanVec))
     ELSE CompareAndReturn(IF routine \in Avx2Memchrs THEN LastVecs(size, 1, ScanVec)
                           ELSE EndVecs(size, 1, ScanVec), {})

LargeMemchr ==
  /\ MoreThanAVector
  /\ 4 * ScanVec < size
  /\ FindOrGoOn(Vecs(0, 4, ScanVec), {},
       IF 8 * ScanVec < size THEN "memchr_loop" ELSE "memchr_tail",
       IF 8 * ScanVec < size THEN 4 * ScanVec - Leading ELSE 0)

IterateMemchr ==
  /\ pc = "memchr_loop"
  /\ offset <= size - 4 * ScanVec
  /\ FindOrGoOn(Vecs(offset, 4, ScanVec), {str1}, pc, offset + 4 * ScanVec)

TailMemchr ==
  /\ \/ pc = "memchr_loop" /\ size - 4 * ScanVec < offset
     \/ pc = "memchr_tail"
  /\ IF offset = size THEN NothingLeft
     ELSE FindAndReturn(LastVecs(size, 4, ScanVec))

StepScan ==
  \/ ScanNothing
  \/ StartScanAtPageEndAvx2 \/ StartScanAvx2
  \/ LineAvx2 \/ PairAvx2 \/ GroupAvx2 \/ LastScanAvx2
  \/ StartScanAtPageEndAvx512 \/ StartScanAvx512
  \/ VectorAvx512 \/ LeaveVectorsAvx512 \/ GroupAvx512 \/ LastScanAvx512
  \/ SmallMemchrStrict \/ StartMemchrAvx2 \/ StartMemchrAtPageEndAvx2
  \/ SmallMemchrAvx512 \/ MediumMemchr \/ LargeMemchr \/ IterateMemchr \/ TailMemchr

=============================================================================
