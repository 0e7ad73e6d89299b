------------------------------- MODULE Strcmp -------------------------------
(***************************************************************************)
(* strcmp and strncmp: the AVX2, generic AVX-512 and zen4 routines.  The   *)
(* end of a string is not known before it is read, and the page behind it  *)
(* may not be mapped: before a vector load the routines look how far away  *)
(* the end of the page is.                                                 *)
(*                                                                         *)
(* strcmp is strncmp without the conditions on size: here its size is one  *)
(* that no offset reaches.                                                 *)
(***************************************************************************)
EXTENDS Compare

Avx2Strcmps == {"strcmp_avx2", "strncmp_avx2"}
Avx512Strcmps == {"strcmp_avx512", "strncmp_avx512"}
Zen4Strcmps == {"strcmp_zen4", "strncmp_zen4"}
Strcmps == Avx2Strcmps \cup Avx512Strcmps \cup Zen4Strcmps

\* The vector of a routine, and the alignment its first loads establish.
Vec == IF routine \in Avx2Strcmps THEN YMM_SZ ELSE ZMM_SZ
Line == ZMM_SZ

\* Bytes left in str1's page and in str2's, whichever are fewer.
SafeBytes(o) == Min({LeftInPage(str1 + o), LeftInPage(str2 + o)})

\* offset1 and offset2, and the larger of them
Offset1 == str1 % Line
Offset2 == str2 % Line
MaxOffset == Max({Offset1, Offset2})
SameAlignment == Offset1 = Offset2

\* The bytes in front of it instead of those up to the next line.
FirstLineReversed == MaxOffset

\* The first offset at which one of the strings is aligned.
FirstLine == Line - MaxOffset

Both == {str1, str2}

ShiftedBy(R, o) == [i \in DOMAIN R |-> Reg(R[i].at + o, R[i].len)]

\* _strcmp_ble_ymm(str1 + o, str2 + o, n)
BleYmm(o, n) == ShiftedBy(NarrowestEnds(n), o)

PathBehindStart == IF SameAlignment THEN "lockstep" ELSE "chunk"

-----------------------------------------------------------------------------
(***************************************************************************)
(* The first loads of _strcmp_avx2 and _strcmp_avx512.                     *)
(***************************************************************************)

\* str2 is not looked at.
NearPageEndOfStr1 == PAGE_SZ - Line < InPage(str1)

\* The bits of PAGE_SZ - Line, by their values: PAGE_SZ is a power of two, and so is
\* every number that divides it.
LineBits == { b \in Line .. PAGE_SZ - 1 : PAGE_SZ % (2 * b) = 0 }
IsSet(a, b) == (a \div b) % 2 = 1

\* PAGE_SZ - Line < (PAGE_SZ - 1) & (str1 | str2): each of these bits is set in one of
\* the strings, and so is a lower one.
NearPageEnd ==
  /\ \A b \in LineBits : IsSet(str1, b) \/ IsSet(str2, b)
  /\ MaxOffset > 0

\* A vector, and narrower registers up to the line's end.
StartNearAvx2 ==
  /\ Called(Avx2Strcmps)
  /\ 0 < size
  /\ NearPageEnd
  /\ MaxOffset < YMM_SZ
  /\ LET R == Vecs(0, 1, YMM_SZ)
     IN  IF FirstHit(R) = 0 /\ size > YMM_SZ - MaxOffset
         THEN CompareOrGoOn(R \o BleYmm(YMM_SZ, YMM_SZ - MaxOffset), {}, 0,
                            PathBehindStart, FirstLine)
         ELSE CompareOrGoOn(R, {}, size, PathBehindStart, FirstLine)

StartVeryNearAvx2 ==
  /\ Called(Avx2Strcmps)
  /\ 0 < size
  /\ NearPageEnd
  /\ YMM_SZ <= MaxOffset
  /\ CompareOrGoOn(BleYmm(0, FirstLine), {}, FirstLine, PathBehindStart, FirstLine)

\* The second vector is only loaded if size reaches into it.
StartAvx2 ==
  /\ Called(Avx2Strcmps)
  /\ 0 < size
  /\ ~NearPageEnd
  /\ CompareOrGoOn(Vecs(0, IF size <= YMM_SZ THEN 1 ELSE 2, YMM_SZ), {},
                   2 * YMM_SZ, PathBehindStart, FirstLine)

\* A masked load up to the line's end.
StartNearAvx512 ==
  /\ Called(Avx512Strcmps)
  /\ 0 < size
  /\ NearPageEnd
  /\ CompareOrGoOn(Vecs(0, 1, FirstLine), {}, FirstLine, PathBehindStart, FirstLine)

StartAvx512 ==
  /\ Called(Avx512Strcmps)
  /\ 0 < size
  /\ ~NearPageEnd
  /\ CompareOrGoOn(Vecs(0, 1, ZMM_SZ), {}, ZMM_SZ, PathBehindStart, FirstLine)

StartEmpty ==
  /\ Called(Strcmps)
  /\ size = 0
  /\ load' = NoLoad
  /\ Compared(NONE)

-----------------------------------------------------------------------------
(***************************************************************************)
(* _strcmp_avx2 and _strcmp_avx512 on strings of the same alignment: four  *)
(* aligned vectors at a time.  strncmp looks at size once for all four,    *)
(* and size - 4 * Vec wraps around for the sizes that are smaller.         *)
(***************************************************************************)
Lockstep4 ==
  /\ pc = "lockstep"
  /\ offset < SizeMinus(4 * Vec)
  /\ CompareOrGoOn(Vecs(offset, 4, Vec), Both, offset + 4 * Vec, pc, offset + 4 * Vec)

LeaveLockstep4 ==
  /\ pc = "lockstep"
  /\ SizeMinus(4 * Vec) <= offset
  /\ GoOn("lockstep_1", offset)
  /\ UNCHANGED load

Lockstep1 ==
  /\ pc = "lockstep_1"
  /\ CompareOrGoOn(Vecs(offset, 1, Vec), Both, offset + Vec, pc, offset + Vec)

-----------------------------------------------------------------------------
(***************************************************************************)
(* Strings of different alignment: one of the two is aligned at offset,    *)
(* and the loads stop at the end of the other's page.                      *)
(***************************************************************************)
aligned_str == IF (str1 + offset) % Vec = 0 THEN str1 ELSE str2
unaligned_str == IF (str1 + offset) % Vec = 0 THEN str2 ELSE str1

EnterChunk ==
  /\ pc = "chunk"
  /\ vecs' = LeftInPage(unaligned_str + offset) \div Vec
  /\ pc' = "chunk_4"
  /\ UNCHANGED <<call, offset, load, ret>>

\* Only size is looked at.
SizeReachesFour == offset < SizeMinus(4 * Vec)

\* Four more vectors in the page, and size reaches them.
FourVecsLeft ==
  /\ vecs >= 4
  /\ IF routine \in Avx2Strcmps THEN offset < SizeMinus(4 * Vec)
                                ELSE offset + 4 * Vec <= size

Chunk4 ==
  /\ pc = "chunk_4"
  /\ FourVecsLeft
  /\ LET R == Vecs(offset, 4, Vec)
         i == FirstHit(R)
     IN  /\ Loaded(R, i, {aligned_str})
         /\ ret' = IF i # 0 THEN AtStop(Tzcnt(R[i])) ELSE ret
         /\ pc' = IF i # 0 THEN "done" ELSE pc
         /\ offset' = offset + 4 * Vec
         /\ vecs' = vecs - 4
  /\ UNCHANGED call

LeaveChunk4 ==
  /\ pc = "chunk_4"
  /\ ~FourVecsLeft
  /\ UNCHANGED load
  /\ IF size <= offset THEN Compared(NONE) ELSE GoOn("chunk_1", offset)

Chunk1 ==
  /\ pc = "chunk_1"
  /\ 0 < vecs
  /\ LET R == Vecs(offset, 1, Vec)
         i == FirstHit(R)
     IN  /\ Loaded(R, i, {aligned_str})
         /\ ret' = IF i # 0 THEN AtStop(Tzcnt(R[i])) ELSE ret
         /\ pc' = IF i # 0 \/ size <= offset + Vec THEN "done" ELSE pc
         /\ offset' = offset + Vec
         /\ vecs' = vecs - 1
  /\ UNCHANGED call

\* The last bytes of the unaligned string's page: behind them that string is
\* the aligned one.
CrossPage ==
  /\ pc = "chunk_1"
  /\ vecs = 0
  /\ LET n == Vec - ((unaligned_str + offset) % Vec)
         R == IF routine \in Avx2Strcmps THEN BleYmm(offset, n) ELSE Vecs(offset, 1, n)
     IN  CompareOrGoOn(R, {}, offset + n, "chunk", offset + n)

-----------------------------------------------------------------------------
(***************************************************************************)
(* __strcmp_zen4: the loads end at the end of either page.                 *)
(***************************************************************************)
StartZen4 ==
  /\ Called(Zen4Strcmps)
  /\ 0 < size
  /\ LET n == Min({SafeBytes(0), ZMM_SZ})
     IN  CompareOrGoOn(Vecs(0, 1, n), {}, n,
                       IF SameAlignment THEN "zen4_ramp" ELSE "zen4_page", FirstLine)

\* Three vectors ahead of the loop if size reaches them.
RampZen4 ==
  /\ pc = "zen4_ramp"
  /\ IF offset + 3 * ZMM_SZ <= size
     THEN CompareOrGoOn(Vecs(offset, 3, ZMM_SZ), Both, 0,
                        "zen4_page", offset + 3 * ZMM_SZ)
     ELSE GoOn("zen4_page", offset) /\ UNCHANGED load

\* while (offset < size): the vectors up to the end of the nearer page
PageZen4 ==
  /\ pc = "zen4_page"
  /\ offset < size
  /\ ZMM_SZ <= SafeBytes(offset)
  /\ vecs' = SafeBytes(offset) \div ZMM_SZ
  /\ pc' = "zen4_vecs"
  /\ UNCHANGED <<call, offset, load, ret>>

\* ... or the bytes, where no vector fits
CrossPageZen4 ==
  /\ pc = "zen4_page"
  /\ offset < size
  /\ SafeBytes(offset) < ZMM_SZ
  /\ CompareOrGoOn(Vecs(offset, 1, SafeBytes(offset)), {}, 0,
                   pc, offset + SafeBytes(offset))

ReachSizeZen4 ==
  /\ pc = "zen4_page"
  /\ size <= offset
  /\ load' = NoLoad
  /\ Compared(NONE)

\* VEC_4X_LOAD_COMPARE_REDUCE while there are four, then one by one.
VecsZen4 ==
  /\ pc = "zen4_vecs"
  /\ 0 < vecs
  /\ LET k == IF vecs >= 4 THEN 4 ELSE 1
         R == Vecs(offset, k, ZMM_SZ)
         i == FirstHit(R)
     IN  /\ Loaded(R, 0, IF SameAlignment THEN Both ELSE {})
         /\ ret' = IF i # 0 THEN AtStop(Tzcnt(R[i])) ELSE ret
         /\ pc' = IF i # 0 THEN "done" ELSE pc
         /\ offset' = offset + k * ZMM_SZ
         /\ vecs' = vecs - k
  /\ UNCHANGED call

LeaveVecsZen4 ==
  /\ pc = "zen4_vecs"
  /\ vecs = 0
  /\ GoOn("zen4_page", offset)
  /\ UNCHANGED load

StepStrcmp ==
  \/ StartEmpty \/ StartNearAvx2 \/ StartVeryNearAvx2 \/ StartAvx2
  \/ StartNearAvx512 \/ StartAvx512
  \/ Lockstep4 \/ LeaveLockstep4 \/ Lockstep1
  \/ EnterChunk \/ Chunk4 \/ LeaveChunk4 \/ Chunk1 \/ CrossPage
  \/ StartZen4 \/ RampZen4 \/ PageZen4 \/ CrossPageZen4 \/ ReachSizeZen4
  \/ VecsZen4 \/ LeaveVecsZen4

=============================================================================
