------------------------------ MODULE Compare ------------------------------
(***************************************************************************)
(* What the functions that compare or search share.  Their data is what    *)
(* they see of it: the offsets at which they have to stop, because the     *)
(* bytes differ, the byte is the one looked for or the string ends.  The   *)
(* result depends on one offset, ret, or is NONE if nothing has stopped    *)
(* the routine: memcmp, strcmp and strncmp subtract the two bytes at ret,  *)
(* or return 0; memchr and strchr return its address, or NULL; strlen and  *)
(* strnlen return ret itself, or maxlen.                                   *)
(***************************************************************************)
EXTENDS Integers, Sequences, FiniteSetsExt

CONSTANTS
  ZMM_SZ,     \* bytes of an AVX-512 register
  NarrowRegs, \* sizes of the narrower ones: WORD_SZ .. YMM_SZ
  PAGE_SZ,    \* bytes of a page
  SizeSpan,   \* 2^64, the values of a size_t
  IntSpan,    \* 2^32, the values of an int
  CallSets    \* [routines, starts, sizes, firsts, gaps]: what the program calls
              \* with; starts are pairs of addresses, and a call's stops are
              \* first .. first + gap for a gap in gaps

YMM_SZ == ZMM_SZ \div 2

ASSUME SpanAssumption ==
  /\ ZMM_SZ \in Nat /\ ZMM_SZ > 2 /\ SizeSpan \in Nat
  /\ NarrowRegs \subseteq 1 .. ZMM_SZ - 1
  /\ PAGE_SZ > 2 * ZMM_SZ /\ PAGE_SZ % ZMM_SZ = 0
  /\ \A c \in CallSets : c.sizes \subseteq 0 .. SizeSpan - 1

\* Two registers of one width are enough for any number of bytes up to the widest's,
\* and but for two bytes, two narrower ones.
ASSUME RegsAssumption ==
  \A n \in 2 .. ZMM_SZ :
    \E s \in NarrowRegs : s <= n /\ n <= 2 * s /\ (s = n => n = 2)

\* A register has two halves and four quarters, and four registers divide a page.
ASSUME PageAssumption ==
  /\ ZMM_SZ % 4 = 0
  /\ PAGE_SZ \in Nat /\ PAGE_SZ % (4 * ZMM_SZ) = 0 /\ PAGE_SZ % (4 * YMM_SZ) = 0

VARIABLES
  routine,  \* the function called
  str1,     \* addresses of its buffers, in an address space each;
  str2,     \*   a search has str1 only, and str2 is the same
  size,     \* number of bytes to look at, at most
  first,    \* the offsets of the stops are
  last,     \*   first .. last
  pc,       \* "start", the loop running, or "done"
  offset,   \* the routine's offset
  vecs,     \* vecs_in_page
  load,     \* the offsets the last step has read, and the buffers of which it
            \* has read vectors of vec bytes, from the first on, with aligned loads
  ret       \* offset of the bytes whose difference is returned, or NONE

call == <<routine, str1, str2, size, first, last>>
vars == <<call, pc, offset, vecs, load, ret>>

NONE == -SizeSpan

NoLoad == [from |-> 0, to |-> 0, vec |-> 1, aligned |-> {}]

-----------------------------------------------------------------------------
(***************************************************************************)
(* The registers a routine fills: pairs of an offset and a length.         *)
(***************************************************************************)
Reg(o, n) == [at |-> o, len |-> n]

Vecs(o, k, v) == [i \in 1 .. k |-> Reg(o + (i - 1) * v, v)]

\* The last k vectors of n bytes, in the order of their offsets.
LastVecs(n, k, v) == Vecs(n - k * v, k, v)

\* k vectors at either end of n bytes.
EndVecs(n, k, v) == Vecs(0, k, v) \o LastVecs(n, k, v)

\* "size >= QWORD_SZ", "size >= DWORD_SZ" ...: the widest register that fits.
WidestEnds(n) ==
  IF n <= 1 THEN Vecs(0, 1, n)
  ELSE LET r == Max({ s \in NarrowRegs : s <= n }) IN EndVecs(n, 1, r)

\* "size <= 2 * WORD_SZ", "size <= 2 * DWORD_SZ" ...: the narrowest of which two do.
NarrowestEnds(n) ==
  IF n <= 1 THEN Vecs(0, 1, n)
  ELSE LET r == Min({ s \in NarrowRegs \cup {ZMM_SZ} : n <= 2 * s })
       IN  EndVecs(n, 1, r)

-----------------------------------------------------------------------------
HasStop(r) == r.at <= last /\ first < r.at + r.len

\* _tzcnt of the mask of register r: its first stop.
Tzcnt(r) == Max({first, r.at})

\* The registers are compared from the last to the first.
LastHit(R) == CHOOSE i \in 0 .. Len(R) :
                /\ i # 0 => HasStop(R[i])
                /\ \A j \in i + 1 .. Len(R) : ~HasStop(R[j])

\* The first of the registers that holds a stop; 0 if none does.
FirstHit(R) == CHOOSE i \in 0 .. Len(R) :
                 /\ i # 0 => HasStop(R[i])
                 /\ \A j \in 1 .. (IF i = 0 THEN Len(R) ELSE i - 1) : ~HasStop(R[j])

\* The registers read before the routine branches on the i-th.
Read(R, i) ==
  LET used == IF i = 0 THEN DOMAIN R ELSE 1 .. i
  IN  [from |-> Min({ R[j].at : j \in used } \cup {R[1].at}),
       to |-> Max({ R[j].at + R[j].len : j \in used })]

Loaded(R, i, aligned) ==
  load' = [from |-> Read(R, i).from, to |-> Read(R, i).to,
           vec |-> R[1].len, aligned |-> aligned]

\* An offset held in an int.
ToInt(x) == ((x + IntSpan \div 2) % IntSpan) - IntSpan \div 2

\* size - n in a size_t.
SizeMinus(n) == (size - n) % SizeSpan

InPage(a) == a % PAGE_SZ
LeftInPage(a) == PAGE_SZ - InPage(a)

-----------------------------------------------------------------------------
Called(routines) == pc = "start" /\ routine \in routines

\* The comparison is over with this result.
Compared(value) ==
  /\ ret' = value
  /\ pc' = "done"
  /\ UNCHANGED <<call, offset, vecs>>

\* offset is not moved on.
GoOnWhereItIs(path, o) ==
  /\ pc' = path
  /\ UNCHANGED <<call, offset, vecs, ret>>

\* Go on at offset o of a path.
GoOn(path, o) ==
  /\ pc' = path
  /\ offset' = o
  /\ UNCHANGED <<call, vecs, ret>>

\* The result for the first stop, and for none in the first size bytes.
AtStop(i) == IF i < size THEN i ELSE NONE

\* Look at registers R one after the other; without a stop, the routine is
\* done when it has covered size bytes, and otherwise goes on.
CompareOrGoOn(R, aligned, covered, path, o) ==
  LET i == FirstHit(R)
  IN  /\ Loaded(R, i, aligned)
      /\ IF i # 0 THEN Compared(AtStop(Tzcnt(R[i])))
         ELSE IF size <= covered THEN Compared(NONE)
         ELSE GoOn(path, o)

\* A path without a loop.
CompareAndReturn(R, aligned) ==
  LET i == FirstHit(R)
  IN  /\ Loaded(R, i, aligned)
      /\ Compared(IF i = 0 THEN NONE ELSE Tzcnt(R[i]))

\* The routines keep nothing between calls: a behaviour is one call, and any.
Init ==
  /\ \E c \in CallSets :
       /\ routine \in c.routines
       /\ \E s \in c.starts : str1 = s[1] /\ str2 = s[2]
       /\ size \in c.sizes
       /\ first \in c.firsts
       /\ \E gap \in c.gaps : last = first + gap
  /\ pc = "start"
  /\ offset = 0 /\ vecs = 0 /\ load = NoLoad /\ ret = NONE

=============================================================================
