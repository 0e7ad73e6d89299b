------------------------------ MODULE ReadOnly ------------------------------
(***************************************************************************)
(* All the routines that compare or search, and what they promise.         *)
(***************************************************************************)
EXTENDS Memcmp, Strcmp, Scan, Strspn, Strstr

\* strcmp, strlen and strchr have no size.
NoSizes == {"strcmp_avx2", "strcmp_avx512", "strcmp_zen4", "strlen_avx2", "strlen_avx512",
            "strlen_zen4", "strchr_avx2", "strchr_avx512"}

\* The buffers of the aligned variants of memcmp, and of no others, are aligned; where no
\* byte is accepted, every byte stops strspn; and memory ends pages behind a string.
ASSUME CallsAssumption ==
  \A c \in CallSets :
    /\ c.routines \subseteq Memcmps \cup Strcmps \cup Scans \cup Strspns \cup Strstrs
    /\ c.starts \subseteq Nat \X Nat /\ c.firsts \subseteq Nat /\ c.gaps \subseteq Nat
    /\ \A f \in c.firsts : f + 2 * PAGE_SZ <= SizeSpan
    /\ c.routines \cap (Scans \cup Strstrs) # {} => \A s \in c.starts : s[1] = s[2]
    /\ c.routines \cap AlignedMemcmps # {} =>
         \A s \in c.starts : s[1] % ZMM_SZ = 0 /\ s[2] % ZMM_SZ = 0
    /\ c.routines \cap NoSizes # {} =>
         \A n \in c.sizes, f \in c.firsts : f + 8 * ZMM_SZ <= n
    /\ c.routines \cap (Strspns \cup Strstrs) # {} =>
         \A n \in c.sizes : n + 2 * PAGE_SZ <= SizeSpan
    /\ c.routines \cap Strspns # {} /\ 0 \in c.sizes => c.firsts = {0}

\* The needle, which has no terminator, occurs in a haystack or behind its terminator;
\* and where it occurs, all of its bytes are seen.
ASSUME HaystacksAssumption ==
  \A c \in CallSets : c.routines \cap Strstrs # {} =>
    \A n \in c.sizes, len \in c.firsts : \A h \in Haystacks(n, len) :
      /\ h.heads \subseteq Nat /\ h.found \subseteq h.heads
      /\ h.found \subseteq h.seconds \cap h.lasts
      /\ \A o \in h.found : o + n <= len \/ len < o

readVars == <<vars, hay>>

ReadInit ==
  /\ Init
  /\ IF routine \in Strstrs THEN hay \in Haystacks(size, first) ELSE hay = NoHay

\* Nothing is left to do, so that a routine that can neither go on nor return
\* is a deadlock.
Returned == pc = "done" /\ UNCHANGED readVars

Step ==
  /\ StepMemcmp \/ StepStrcmp \/ StepScan \/ StepStrspn \/ StepStrstr
  /\ UNCHANGED hay

Next == Step \/ Returned

Spec == ReadInit /\ [][Next]_readVars

-----------------------------------------------------------------------------
Loops ==
  {"memcmp_avx2_loop", "memcmp_avx2_tail", "memcmp_avx512_direct",
   "memcmp_avx512_xor", "memcmp_zen4_loop", "tunable_loop", "lockstep",
   "lockstep_1", "chunk", "chunk_4", "chunk_1", "zen4_ramp", "zen4_page",
   "zen4_vecs", "scan_line", "scan_pair", "scan_vecs", "scan_groups",
   "memchr_rest", "memchr_loop", "memchr_tail", "span_index", "span_pairs",
   "span_table", "span_vecs", "search"}

TypeOK ==
  /\ routine \in Memcmps \cup Strcmps \cup Scans \cup Strspns \cup Strstrs
  /\ str1 \in Nat /\ str2 \in Nat
  /\ size \in 0 .. SizeSpan - 1
  /\ pc \in {"start", "done"} \cup Loops
  /\ offset \in 0 .. SizeSpan - 1
  /\ vecs \in 0 .. PAGE_SZ \div YMM_SZ
  /\ load.to \in 0 .. SizeSpan - 1
  /\ ret = NONE \/ ret \in -Unit .. SizeSpan - 1

\* rep cmps subtracts the first bytes of a unit, and the bytes in front of the
\* buffers if there is no unit.
OutsideRepCmps == routine \notin ErmsMemcmps \/ (Unit = 1 /\ size > 0)

\* The first stop, for strstr the first occurrence of the needle in the string.
Expected ==
  IF routine \in Strspns THEN first
  ELSE IF routine \in Strstrs
    THEN LET O == { i \in hay.found : i + size <= first }
         IN  IF size = 0 THEN 0 ELSE IF O = {} THEN NONE ELSE Min(O)
  ELSE AtStop(first)

\* rep cmps sees the bytes behind the first difference in the same unit.
ResultIsRight ==
  \/ ret = Expected
  \/ Expected = NONE /\ routine \in ErmsMemcmps /\ ret \in 0 .. size - 1

\* strstr compares a candidate in the next page, which it has not looked at, with the
\* needle, and finds it behind the terminator that is there too.
FoundBehindEnd ==
  /\ routine \in Strstrs /\ Expected = NONE
  /\ ret \in FilledUp /\ first < ret

\* A comparison returns the difference of the first bytes that differ, a search the
\* first byte or bytes looked for, and neither has one if there is none among the
\* first n or before the terminator: a register that overlaps another, a vector
\* looked at out of order, a size checked late or a candidate filtered out never
\* makes it a later one.  Only strstr, where it has none to return, may return one
\* from the next page instead.
ComparesCorrectly ==
  pc = "done" /\ OutsideRepCmps => ResultIsRight \/ FoundBehindEnd

\* strstr finds nothing behind the terminator of the haystack.
StrstrStaysInString == pc = "done" /\ routine \in Strstrs => ResultIsRight

\* memcmp, and memchr built with strict bounds, read no byte outside of the
\* buffers that the caller gives them.
StaysInBuffers ==
  (routine \in Memcmps /\ OutsideRepCmps) \/ Strict =>
    0 <= load.from /\ load.to <= size

PageOf(a) == a \div PAGE_SZ

\* Loads from s touch no page in front of its own, and none behind the one of its byte i.
PagesUpTo(s, i) ==
  PageOf(s) <= PageOf(s + load.from) /\ PageOf(s + load.to - 1) <= PageOf(s + i)

OnlyPagesUpTo(i) == PagesUpTo(str1, i) /\ PagesUpTo(str2, i)

AcceptLoaded == pc \in {"span_index", "span_table"} /\ offset = 0

\* strcmp, strlen, strchr, strspn and strstr, and the functions with a bound for
\* strings that end, read only pages of the strings: no page is touched that lies
\* behind the one where they stop, or where the bytes to accept end.
StringsStayInPages ==
  /\ routine \in Strcmps \cup Avx2Scans \cup Avx512Scans \cup Strstrs => OnlyPagesUpTo(first)
  /\ routine \in Strspns =>
       IF AcceptLoaded THEN PagesUpTo(str2, size) ELSE PagesUpTo(str1, first)

\* strncmp's arrays need not end within their n bytes: no page behind the one
\* of the last of these is touched.
StrncmpStaysInPages ==
  routine \in {"strncmp_avx2", "strncmp_avx512", "strncmp_zen4"} /\ size > 0 =>
    OnlyPagesUpTo(Min({first, size - 1}))

\* The same for zen4's strncmp, which looks for the page's end before each load,
\* and for strnlen; and memchr touches only pages of its size bytes.
BoundedStayInPages ==
  /\ routine = "strncmp_zen4" => StrncmpStaysInPages
  /\ routine \in Strnlens /\ size > 0 => OnlyPagesUpTo(Min({first, size - 1}))
  /\ routine \in Memchrs /\ size > 0 => OnlyPagesUpTo(size - 1)

\* An aligned load is made at an aligned address, or it faults: the routines
\* reach their aligned loops at offsets that align one string or both.
NoAlignmentFault ==
  \A s \in load.aligned : (s + load.from) % load.vec = 0

\* While two strings of different alignment are compared, one of them is
\* aligned: the branch for none has no state to run in.
OneStringAligned ==
  pc \in {"chunk", "chunk_4", "chunk_1"} =>
    \E s \in {str1, str2} : (s + offset) % Vec = 0

\* The order of the steps that leave offset alone.
Rank ==
  CASE pc = "start" -> IF routine = "memcmp_threshold" THEN 5 ELSE 4
    [] pc \in {"lockstep", "chunk", "zen4_ramp", "scan_line", "memchr_rest",
                "span_index", "span_table"} -> 3
    [] pc \in {"chunk_4", "scan_pair", "scan_vecs", "memchr_tail"}
       \/ (pc = "zen4_vecs" /\ vecs = 0) -> 2
    [] pc = "zen4_page" -> 1
    [] OTHER -> 0

\* Every comparison and every search returns, for it can always take a step, a
\* step that does not end it gets further, and none goes past the first stop,
\* which is where a string ends: no string is read on and on, and no byte is
\* skipped.
EveryStepAdvances ==
  [][pc' # "done" =>
       /\ offset' <= first
       /\ offset < offset' \/ (offset = offset' /\ Rank' < Rank)]_readVars

=============================================================================
