------------------------------- MODULE Strstr -------------------------------
(***************************************************************************)
(* strstr: the AVX2 and AVX-512 routines.  The stops of str1, the          *)
(* haystack, are zeros, its terminator first; the needle has size bytes.   *)
(* A block that is searched for the needle's first byte yields candidates, *)
(* which two filters thin out and strncmp decides on.                      *)
(*                                                                         *)
(* strchr, strlen of the needle and strncmp do what they promise.          *)
(***************************************************************************)
EXTENDS Compare

CONSTANT Haystacks(_, _)  \* memory at and behind a haystack, by the length of the
                          \* needle and its own

VARIABLE hay  \* that memory as seen with the needle in hand: the offsets of its first
              \* byte (heads), of these the ones where its second and its last byte
              \* follow in their places (seconds, lasts), and all of it (found);
              \* and whether the first byte is 0xff (filler)

NoHay == [heads |-> {}, seconds |-> {}, lasts |-> {}, found |-> {}, filler |-> FALSE]

Strstrs == {"strstr_avx2", "strstr_avx512"}

HayVec == IF routine = "strstr_avx2" THEN YMM_SZ ELSE ZMM_SZ

HayNearPageEnd == PAGE_SZ - HayVec < InPage(str1)

\* Up to the first aligned vector behind str1.
HayAhead == HayVec - (str1 % HayVec)

-----------------------------------------------------------------------------
\* The filters are loads of the whole block moved by one byte, and to the last: only
\* where they do not leave the page.
SecondFilter(o) == HayVec + 1 < LeftInPage(str1 + o)
LastFilter(o) == size <= PAGE_SZ \div 8 /\ HayVec + size < LeftInPage(str1 + o)

FilterRegs(o) ==
  (IF SecondFilter(o) THEN <<Reg(o + 1, HayVec)>> ELSE << >>)
    \o (IF LastFilter(o) THEN <<Reg(o + size - 1, HayVec)>> ELSE << >>)

Filtered(C, o) ==
  { c \in C : /\ SecondFilter(o) => c \in hay.seconds
              /\ LastFilter(o) => c \in hay.lasts }

\* Candidates from the terminator on, in register r, are not compared: AVX2 code cuts
\* the mask off there, AVX-512 code leaves out all that the terminator is too near to.
InHaystack(c, r) ==
  HasStop(r) => IF routine = "strstr_avx2" THEN c <= Tzcnt(r) ELSE c + size <= Tzcnt(r)

\* The block in r, whose filters start at offset o, with candidates C.
SearchOrGoOn(r, C, o, next) ==
  LET hits == { c \in Filtered(C, o) : InHaystack(c, r) /\ c \in hay.found }
  IN  /\ Loaded(<<r>> \o (IF C = {} THEN << >> ELSE FilterRegs(o)), 0, {})
      /\ IF hits # {} THEN Compared(Min(hits))
         ELSE IF HasStop(r) THEN Compared(NONE)
         ELSE GoOn("search", next)

Heads(r) == { c \in hay.heads : r.at <= c /\ c < r.at + r.len }

-----------------------------------------------------------------------------
\* The routine's own answers, and strchr's for a needle of one byte.
SearchShort ==
  /\ Called(Strstrs)
  /\ size <= 1 \/ first = 0
  /\ load' = [NoLoad EXCEPT !.to = 1]
  /\ LET hits == { c \in hay.found : c < first }
     IN  Compared(IF size = 0 THEN 0 ELSE IF hits = {} THEN NONE ELSE Min(hits))

\* The vector at str1; near the end of a page the aligned one that holds its first
\* byte, or a masked one.
FirstBlock ==
  IF ~HayNearPageEnd THEN Reg(0, HayVec)
  ELSE IF routine = "strstr_avx2" THEN Reg(HayAhead - HayVec, HayVec)
  ELSE Reg(0, HayAhead)

\* What takes the place of the bytes in the next page.  The mask of a masked load leaves
\* 0xff.  AVX2 code shifts the int that movemask returns to the right, which copies its
\* sign bit, the match of the page's last byte; of the zeros only the first one counts.
FilledUp ==
  IF HayNearPageEnd /\ ( IF routine = "strstr_avx2" THEN HayAhead - 1 \in hay.heads
                         ELSE hay.filler )
  THEN HayAhead .. HayVec - 1 ELSE {}

SearchFirstBlock ==
  /\ Called(Strstrs)
  /\ 1 < size /\ 0 < first
  /\ IF HasStop(FirstBlock) /\ Tzcnt(FirstBlock) < size
     THEN Loaded(<<FirstBlock>>, 0, {}) /\ Compared(NONE)
     ELSE SearchOrGoOn(FirstBlock,
            { c \in Heads(FirstBlock) : 0 <= c } \cup FilledUp, 0, HayAhead)

SearchBlock ==
  LET r == Reg(offset, HayVec)
  IN  /\ pc = "search"
      /\ SearchOrGoOn(r, Heads(r), offset, offset + HayVec)

StepStrstr == SearchShort \/ SearchFirstBlock \/ SearchBlock

=============================================================================
