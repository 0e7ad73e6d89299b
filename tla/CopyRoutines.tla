---------------------------- MODULE CopyRoutines ----------------------------
(***************************************************************************)
(* What the memcpy, mempcpy and memmove routines share: the arguments and  *)
(* cache limits of a call, the paths that are one head/tail group, and the *)
(* shape "prologue, loop, tail, kept vectors" of the longer ones.  The     *)
(* routines are modules of their own; Copies puts them together.           *)
(*                                                                         *)
(* pc is the label of the path running; its loop is over when offset has   *)
(* reached the bound that the path passed to the loop.                     *)
(***************************************************************************)
EXTENDS LoadStore

CONSTANTS
  ZMM_SZ,     \* bytes of an AVX-512 register
  NarrowRegs, \* sizes of the narrower ones: WORD_SZ .. YMM_SZ
  RemSz       \* range of rem_data: 2^16 (uint16_t), or what its mask keeps,
              \* 2^10 (0x3E0 with 0x1F, 0x3C0 with 0x3F)

YMM_SZ == ZMM_SZ \div 2

\* Each register is twice as wide as the next, and the narrowest is a WORD.
ASSUME ZmmAssumption ==
  /\ ZMM_SZ \in Nat /\ ZMM_SZ > 2
  /\ NarrowRegs \subseteq 2 .. ZMM_SZ - 1
  /\ \A s \in NarrowRegs \cup {ZMM_SZ} : s = 2 \/ \E t \in NarrowRegs : s = 2 * t

\* What is left behind a loop, at most eight vectors, is in the range of rem_data.
ASSUME RemSzAssumption == RemSz \in Nat /\ 8 * ZMM_SZ < RemSz

VARIABLES
  routine,  \* the function called
  limits    \* [nt_start, l1d, l2]: __nt_start_threshold and the cache sizes

callVars == <<dst, src, size, ret, routine, limits>>
vars == <<copyVars, routine, limits>>

\* mempcpy returns the end of the destination.
Mempcpys == {"mempcpy_avx2", "mempcpy_zen4", "mempcpy_zen5", "mempcpy_avx512",
             "mempcpy_tunable"}
Memmoves == {"memmove_zen4", "memmove_zen5", "memmove_avx512", "memmove_tunable"}

Result == IF routine \in Mempcpys THEN dst + size ELSE dst

-----------------------------------------------------------------------------
Shift(O, n) == { o + n : o \in O }

\* The narrower register whose two ends cover n bytes, n < 2 * its size.
NarrowEnds(n) ==
  IF n <= 1 THEN Block(0, n)
  ELSE UNION { Ends(s, n) : s \in { t \in NarrowRegs : t <= n /\ n < 2 * t } }

\* Four vectors from each end when two would do.
ZmmEndsTooWide(n) ==
  IF n <= 2 * ZMM_SZ THEN Ends(ZMM_SZ, n) ELSE Ends(4 * ZMM_SZ, n)

\* __load_store_le_2/4/8zmm_vec: the narrowest head/tail group for n bytes.
ZmmEnds(n) ==
  IF n <= 2 * ZMM_SZ THEN Ends(ZMM_SZ, n)
  ELSE IF n <= 4 * ZMM_SZ THEN Ends(2 * ZMM_SZ, n)
  ELSE Ends(4 * ZMM_SZ, n)

\* One vector where two are left.
RestOneVectorShort(n) ==
  IF n <= 2 * ZMM_SZ THEN Block(0, n) \cap Block(0, ZMM_SZ) ELSE ZmmEnds(n)

\* The n bytes a loop leaves: a masked vector, or a head/tail group.
Rest(n) == IF n <= ZMM_SZ THEN Block(0, n) ELSE ZmmEnds(n)

\* Number of vectors of v bytes that n bytes need, in uint16_t.
rem_vecs(n, v) ==
  ((n % RemSz) \div v) + (IF (n % RemSz) % v # 0 THEN 1 ELSE 0)

\* They leave out the very last.
LastVecsOneShort(k, v) == Block(size - k * v, k * v - v)

\* The last k vectors of v bytes.
LastVecs(k, v) == Block(size - k * v, k * v)

-----------------------------------------------------------------------------
Called(routines) == pc = "start" /\ routine \in routines

OneGroup(O) ==
  /\ MoveAndReturn(O, Result)
  /\ UNCHANGED <<routine, limits>>

\* A path that copies O, then loops from `from' on.
EnterLoop(path, O, l, from) ==
  /\ Move(O, 0, Unaligned)
  /\ loop' = l
  /\ offset' = from
  /\ pc' = path
  /\ ret' = Result
  /\ UNCHANGED <<dst, src, size, save, routine, limits>>

\* A path that forgets to keep them.
LoopWithoutKeeping(path, O, l, from) ==
  /\ save' = << >>
  /\ Access(O, 0, Unaligned)
  /\ loop' = l
  /\ offset' = from
  /\ pc' = path
  /\ ret' = Result
  /\ UNCHANGED <<mem, dst, src, size, routine, limits>>

\* A path that keeps the vectors O in registers, for its end.
KeepAndLoop(path, O, l, from) ==
  /\ save' = Load(O)
  /\ Access(O, 0, Unaligned)
  /\ loop' = l
  /\ offset' = from
  /\ pc' = path
  /\ ret' = Result
  /\ UNCHANGED <<mem, dst, src, size, routine, limits>>

\* One iteration of the path's loop.
IterateForward(path, end) ==
  /\ pc = path
  /\ Forward(end)
  /\ UNCHANGED <<callVars, pc, loop, save>>

IterateBackward(path, start) ==
  /\ pc = path
  /\ Backward(start)
  /\ UNCHANGED <<callVars, pc, loop, save>>

LoopOver(path, end) == pc = path /\ offset >= end
LoopOverBackward(path, start) == pc = path /\ offset <= start

\* What follows a loop: one group O (none if O is empty), then `next'.
AfterLoop(O, next) ==
  /\ Move(O, 0, Unaligned)
  /\ pc' = next
  /\ UNCHANGED <<callVars, offset, loop, save>>

\* The kept registers are stored last.
StoreKept ==
  /\ pc = "kept"
  /\ mem' = Stored(mem, dst, save)
  /\ Access(DOMAIN save, 0, Unaligned)
  /\ pc' = "done"
  /\ UNCHANGED <<callVars, offset, loop, save>>

-----------------------------------------------------------------------------
SameAlignment(vec) == src % vec = dst % vec

Disjoint == dst + size < src \/ src + size < dst

\* Rounded the wrong way.
AlignedWithinPlus(k, vec) == k * vec + (dst % vec)

\* The greatest offset up to k vectors at which the destination is aligned.
AlignedWithin(k, vec) == k * vec - (dst % vec)

=============================================================================
