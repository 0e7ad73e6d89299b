------------------------------- MODULE Strspn -------------------------------
(***************************************************************************)
(* strspn: the AVX2 and AVX-512 routines.  They look in str1 for the first *)
(* byte that is not in accept, nor can the terminator be: these are its    *)
(* stops.  accept is the string of size bytes at str2.                     *)
(***************************************************************************)
EXTENDS Compare

Strspns == {"strspn_avx2", "strspn_avx512"}

SpanVec == IF routine = "strspn_avx2" THEN YMM_SZ ELSE ZMM_SZ
XMM_SZ == YMM_SZ \div 2

\* The bytes from str1 to the next address that vectors of v bytes are aligned at.
UpToNext(v) == v - (str1 % v)

\* A vector at a would reach into the next page.
CrossesPage(a, v) == PAGE_SZ - v < InPage(a)

\* accept fits into a register.
FitsXmm(n) == n <= XMM_SZ

\* Look at registers R one after the other.
SpanOrGoOn(R, aligned, path, o) ==
  LET i == FirstHit(R)
  IN  /\ Loaded(R, i, aligned)
      /\ IF i # 0 THEN Compared(Tzcnt(R[i])) ELSE GoOn(path, o)

\* No byte is accepted, or there is none.
SpanNothing ==
  /\ Called(Strspns)
  /\ size = 0 \/ first = 0
  /\ Loaded(Vecs(0, 1, 1), 1, {})
  /\ Compared(0)

\* A single byte is accepted: the aligned vector that holds the first byte.
SpanOneByte ==
  /\ Called(Strspns)
  /\ size = 1
  /\ SpanOrGoOn(Vecs(UpToNext(SpanVec) - SpanVec, 1, SpanVec), {str1}, "span_vecs",
                UpToNext(SpanVec))

\* What is read of accept: at the end of a page up to its terminator, or masked and
\* again if the page does not hold it; and the byte that tells whether it fits.
AcceptRead ==
  IF FitsXmm(size)
  THEN IF size = XMM_SZ THEN XMM_SZ + 1
       ELSE IF ~CrossesPage(str2, XMM_SZ) THEN XMM_SZ
       ELSE IF routine = "strspn_avx2" THEN size + 1
       ELSE IF size < LeftInPage(str2) THEN LeftInPage(str2) ELSE XMM_SZ
  ELSE size + 1

LoadAccept ==
  /\ Called(Strspns)
  /\ 1 < size
  /\ load' = [NoLoad EXCEPT !.to = AcceptRead]
  /\ GoOn(IF FitsXmm(size) THEN "span_index" ELSE "span_table", 0)

\* pcmpistri; near the end of the page byte by byte, or of a masked register.
SpanIndex ==
  /\ pc = "span_index"
  /\ SpanOrGoOn(IF ~CrossesPage(str1, XMM_SZ) THEN Vecs(0, 1, XMM_SZ)
                ELSE IF routine = "strspn_avx2" THEN Vecs(0, LeftInPage(str1), 1)
                ELSE Vecs(0, 1, LeftInPage(str1)),
                {}, "span_pairs", UpToNext(XMM_SZ))

SpanPair ==
  /\ pc = "span_pairs"
  /\ SpanOrGoOn(Vecs(offset, 2, XMM_SZ), {str1}, pc, offset + 2 * XMM_SZ)

\* A table of all bytes, looked up for four bytes one by one ...
SpanFourBytes ==
  /\ pc = "span_table" /\ routine = "strspn_avx2"
  /\ SpanOrGoOn(Vecs(offset, 4, 1), {}, pc, offset + 4)

\* ... or for the first vector, masked near the end of the page.
SpanFirstVector ==
  /\ pc = "span_table" /\ routine = "strspn_avx512"
  /\ SpanOrGoOn(Vecs(0, 1, IF CrossesPage(str1, ZMM_SZ) THEN LeftInPage(str1) ELSE ZMM_SZ),
                {}, "span_vecs", UpToNext(ZMM_SZ))

SpanVector ==
  /\ pc = "span_vecs"
  /\ SpanOrGoOn(Vecs(offset, 1, SpanVec), {str1}, pc, offset + SpanVec)

StepStrspn ==
  \/ SpanNothing \/ SpanOneByte \/ LoadAccept \/ SpanIndex \/ SpanPair
  \/ SpanFourBytes \/ SpanFirstVector \/ SpanVector

=============================================================================
