----------------------------- MODULE MCReadOnly -----------------------------
(***************************************************************************)
(* Eight-byte AVX-512 registers and pages of 64 bytes, so that a page is a *)
(* few groups of four vectors long as it is for the real ones.             *)
(***************************************************************************)
EXTENDS ReadOnly

\* Around every size at which a path begins, and every remainder of a vector
\* and of a group of four.
MCMemcmpSizes ==
  (0 .. 18) \cup {23, 24, 25, 31, 32, 33, 35, 39, 40, 47, 48, 49, 63, 64, 65, 66, 72, 97}

\* The start of a page and of a line, near the end of each, and pairs of the
\* same alignment.
MCStarts == {0, 3, 11, 38, 51, 57, 59, 62}

\* Every step to a group of four, and the last vectors of a page.
MCScanStarts == {0, 3, 4, 8, 11, 16, 21, 27, 31, 38, 51, 56, 57, 59, 60, 61, 62, 63}

\* strcmp, strlen and strchr have no size.
NoSize == {SizeSpan - 1}

\* Behind the first stop: no other for a while, or no two equal bytes.
MCGaps == {0, 33}

\* One byte is accepted, a register's worth, or more; a haystack ends in every part
\* of its first vectors, and beyond them.
MCAccepts == {0, 1, 2, 3, 7}
MCNeedles == {0, 1, 2, 4, 8, 9}
MCHayLengths == {0, 1, 2, 4, 5, 8, 9, 14, 19, 33, 70}

\* Needles A M .. M Z in memory of other bytes and a terminator at len.  An occurrence
\* begins at o, in the string or behind its end, or there is none (-1).  In front of it
\* begins a candidate, which looks like the needle for so long.
Candidates(n, len, o) ==
  { c \in {0, 3, len - 2, len - 1} \X {"first", "second", "last", "middle"} :
      /\ 0 <= c[1] /\ 1 < n
      /\ LET upto == CASE c[2] = "first" -> 2
                       [] c[2] = "second" -> IF n < 3 THEN len ELSE 2
                       [] c[2] = "last" -> IF n < 3 THEN len ELSE n
                       [] c[2] = "middle" -> IF n < 4 THEN len ELSE n
         IN  /\ c[1] + upto <= len + (IF c[2] = "first" THEN 1 ELSE 0)
             /\ o # -1 => c[1] + (IF c[2] = "second" THEN 3 ELSE upto) <= o }

Occurrences(n, len) ==
  { o \in {-1, 0, 5, len - n, len - n - 1, len + 1, len + 2} :
      o = -1 \/ (0 <= o /\ o + n <= len) \/ len < o }

Seen(O, C, filler) ==
  [heads |-> O \cup { c[1] : c \in C },
   seconds |-> O \cup { c[1] : c \in { x \in C : x[2] \in {"second", "middle"} } },
   lasts |-> O \cup { c[1] : c \in { x \in C : x[2] \in {"last", "middle"} } },
   found |-> O, filler |-> filler]

\* The first byte of the needle is 0xff if it occurs behind the string, or it is not.
MCHaystacks(n, len) ==
  UNION { { Seen({o} \ {-1}, C, filler) :
              C \in { {} } \cup { {c} : c \in Candidates(n, len, o) },
              filler \in (IF len < o THEN BOOLEAN ELSE {FALSE}) } :
            o \in Occurrences(n, len) }

MCCalls ==
  { [routines |-> Memcmps \ (AlignedMemcmps \cup WideRepCmps),
     starts |-> {<<3, 3>>}, sizes |-> MCMemcmpSizes, firsts |-> 0 .. 97,
     gaps |-> MCGaps],
    \* the buffers of these are aligned, the sizes multiples of the unit
    [routines |-> AlignedMemcmps,
     starts |-> {<<8, 8>>}, sizes |-> MCMemcmpSizes, firsts |-> 0 .. 97,
     gaps |-> MCGaps],
    [routines |-> WideRepCmps,
     starts |-> {<<8, 8>>}, sizes |-> {8, 16}, firsts |-> 0 .. 17, gaps |-> MCGaps],
    [routines |-> {"strcmp_avx2", "strcmp_avx512", "strcmp_zen4"},
     starts |-> MCStarts \X MCStarts, sizes |-> NoSize,
     firsts |-> (0 .. 74) \cup {100, 140}, gaps |-> MCGaps],
    [routines |-> {"strncmp_avx2", "strncmp_avx512", "strncmp_zen4"},
     starts |-> MCStarts \X MCStarts,
     sizes |-> {0, 1, 3, 5, 8, 13, 31, 45, 64, 70},
     firsts |-> {0, 1, 2, 4, 5, 7, 8, 12, 13, 26, 30, 31, 33, 44, 50, 64, 69, 72},
     gaps |-> MCGaps],
    [routines |-> (Avx2Scans \cup Avx512Scans) \ Strnlens,
     starts |-> { <<s, s>> : s \in MCScanStarts }, sizes |-> NoSize,
     firsts |-> (0 .. 75) \cup (92 .. 106) \cup (124 .. 138) \cup {160},
     gaps |-> MCGaps],
    [routines |-> Strnlens,
     starts |-> { <<s, s>> : s \in MCScanStarts },
     sizes |-> (0 .. 13) \cup {16, 17, 24, 27, 31, 32, 56, 61, 64, 69, 96, 101, 128, 139},
     firsts |-> (0 .. 17) \cup {23, 24, 26, 30, 31, 33, 50, 59, 60, 63, 64, 68, 69, 80,
                               95, 100, 101, 127, 128, 138, 139, 150},
     gaps |-> MCGaps],
    [routines |-> Memchrs,
     starts |-> { <<s, s>> : s \in {0, 3, 51, 57, 60, 62} },
     sizes |-> MCMemcmpSizes, firsts |-> 0 .. 98, gaps |-> MCGaps],
    [routines |-> Strspns,
     starts |-> MCScanStarts \X {0, 61, 63}, sizes |-> MCAccepts \ {0},
     firsts |-> (0 .. 20) \cup {65}, gaps |-> {0}],
    \* where no byte is accepted, every byte stops it
    [routines |-> Strspns,
     starts |-> {0, 63} \X {0, 63}, sizes |-> {0}, firsts |-> {0}, gaps |-> {40}],
    [routines |-> Strstrs,
     starts |-> { <<s, s>> : s \in MCStarts }, sizes |-> MCNeedles,
     firsts |-> MCHayLengths, gaps |-> {0}] }

=============================================================================
