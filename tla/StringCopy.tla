----------------------------- MODULE StringCopy -----------------------------
(***************************************************************************)
(* strcpy, strncpy, strcat and strncat: the AVX2 and AVX-512 routines and  *)
(* zen4's strcpy.  They look for the terminator of str1, the source, and   *)
(* copy what they have looked at to str2, the destination.                 *)
(*                                                                         *)
(* The source's stops are zeros: its terminator, first, and whatever zeros *)
(* follow it.  strcpy and strcat are strncpy without the conditions on     *)
(* size: here their size is one that no offset reaches.                    *)
(***************************************************************************)
EXTENDS Compare

CONSTANT DstLens  \* lengths of the strings appended to

ASSUME DstLensAssumption == DstLens \subseteq Nat

VARIABLES
  out,     \* content of the destination, by offset: the offset of the source
           \* byte written there, Nul, or Old
  dst_len, \* length of the string in the destination; 0 if none is needed
  at       \* offset in the destination to which the source's first byte goes

Nul == -1  \* a zero
Old == -2  \* a byte of the string in the destination

stringVars == <<vars, out, dst_len, at>>

Strcats == {"strcat_avx2", "strcat_avx512"}
Strncats == {"strncat_avx2", "strncat_avx512"}
Strcpys == {"strcpy_avx2", "strcpy_avx512", "strcpy_zen4"}
Strncpys == {"strncpy_avx2", "strncpy_avx2_strict", "strncpy_avx512"}
StringCopies == Strcats \cup Strncats \cup Strcpys \cup Strncpys

\* Strings, bounds and buffers of any length and at any address, if memory goes on
\* for a page behind them.  strcpy and strcat have no bound: their size is one that no
\* offset of theirs reaches.
ASSUME CallsAssumption ==
  \A c \in CallSets :
    /\ c.routines \subseteq StringCopies
    /\ c.starts \subseteq Nat \X Nat
    /\ c.firsts \subseteq Nat /\ c.gaps \subseteq Nat
    /\ \A f \in c.firsts, n \in DstLens \cup {0} : n + f + PAGE_SZ <= SizeSpan
    /\ c.routines \cap (Strcpys \cup Strcats) # {} =>
         \A s \in c.sizes, f \in c.firsts : f + 8 * ZMM_SZ <= s

Avx2 == routine \in {"strcat_avx2", "strcpy_avx2", "strncpy_avx2", "strncpy_avx2_strict"}

\* The build with ALMEM_STRICT_BOUNDS.
StrictStrncpy == routine = "strncpy_avx2_strict"

CopyVec == IF Avx2 THEN YMM_SZ ELSE ZMM_SZ
XMM_SZ == YMM_SZ \div 2

Least(x, y) == IF x < y THEN x ELSE y

\* The bytes up to the next vector instead.
LeadToNext == (-str1) % CopyVec

\* The bytes in front of the source in its aligned vector, and those from it on.
Lead == str1 % CopyVec

\* offset moved on by a vector before the loop.
AheadByAVector == 2 * CopyVec - Lead

Ahead == CopyVec - Lead

\* The test of the AVX2 source in the AVX-512 one.
NearEndOfPageYmm == PAGE_SZ - YMM_SZ < InPage(str1)

NearEndOfPage == PAGE_SZ - CopyVec < InPage(str1)

-----------------------------------------------------------------------------
(***************************************************************************)
(* The offsets that registers cover, and what is stored from them.         *)
(***************************************************************************)
Block(o, n) == o .. o + n - 1

Offsets(o, R) == UNION { Block(o + R[i].at, R[i].len) : i \in DOMAIN R }

\* strcpy_ble_ymm, or a masked store.
Short(o, n) == IF Avx2 /\ n < YMM_SZ THEN Offsets(o, NarrowestEnds(n)) ELSE Block(o, n)

Byte(i) == IF i \in first .. last THEN Nul ELSE i

\* Bytes O of the source and zeros Z have been stored, the latter last.
Store(O, Z) ==
  out' = [i \in DOMAIN out \cup { at + o : o \in O \cup Z } |->
            IF i - at \in Z THEN Nul ELSE IF i - at \in O THEN Byte(i - at) ELSE out[i]]

Keep == UNCHANGED <<call, vecs, ret, dst_len>>

StoreAndReturn(O, Z) ==
  /\ Store(O, Z)
  /\ pc' = "done"
  /\ Keep /\ UNCHANGED <<offset, at>>

\* The offset is forgotten.
StoreAndStay(O, path, o) ==
  /\ Store(O, {})
  /\ pc' = path
  /\ offset' = offset
  /\ Keep /\ UNCHANGED at

StoreAndGoOn(O, path, o) ==
  /\ Store(O, {})
  /\ pc' = path
  /\ offset' = o
  /\ Keep /\ UNCHANGED at

\* Four vectors at either end of fewer than four.
PadEndsTooWide(n) ==
  IF n < 2 * CopyVec \/ (Avx2 /\ n = 2 * CopyVec)
    THEN IF Avx2 THEN WidestEnds(n) ELSE Vecs(0, 1, n)
  ELSE EndVecs(n, 4, CopyVec)

\* The last vectors do not reach back to the loop's end.
PadEndsTwoVectors(n) ==
  IF n < 2 * CopyVec \/ (Avx2 /\ n = 2 * CopyVec)
    THEN IF Avx2 THEN WidestEnds(n) ELSE Vecs(0, 1, n)
  ELSE EndVecs(n, 2, CopyVec)

\* What _fill_null_avx2 and _fill_null_avx512 store outside of their loop.
PadEnds(n) ==
  IF n < 2 * CopyVec \/ (Avx2 /\ n = 2 * CopyVec)
    THEN IF Avx2 THEN WidestEnds(n) ELSE Vecs(0, 1, n)
  ELSE IF n <= 4 * CopyVec THEN EndVecs(n, 2, CopyVec)
  ELSE EndVecs(n, 4, CopyVec)

\* The end of the string is among the bytes O, its terminator in front of `end'.
\* strncpy pads the rest, if there is one.
StoreEnd(O, end) ==
  LET n == IF routine \in Strncpys /\ end < size THEN size - end ELSE 0
  IN  IF n <= 8 * CopyVec
      THEN StoreAndReturn(O, Offsets(end, PadEnds(n)))
      ELSE /\ Store(O, Offsets(end, PadEnds(n)))
           /\ pc' = "pad"
           /\ offset' = end + 4 * CopyVec - ((str2 + at + end) % CopyVec)
           /\ Keep /\ UNCHANGED at

\* An aligned store of four vectors of zeros.
Pad ==
  /\ pc = "pad"
  /\ load' = NoLoad
  /\ IF offset < size - 4 * CopyVec
     THEN /\ Store({}, Block(offset, 4 * CopyVec))
          /\ offset' = offset + 4 * CopyVec
          /\ Keep /\ UNCHANGED <<pc, at>>
     ELSE StoreAndReturn({}, {})

-----------------------------------------------------------------------------
(***************************************************************************)
(* Calls.  strlen, strnlen and memcpy do what they promise.                *)
(***************************************************************************)
CopyNothing ==
  /\ Called(Strncpys \cup Strncats)
  /\ size = 0
  /\ load' = NoLoad
  /\ StoreAndReturn({}, {})

StartStrcat ==
  /\ Called(Strcats)
  /\ at' = dst_len
  /\ pc' = "strcpy"
  /\ Keep /\ UNCHANGED <<offset, load, out>>

StartStrncat ==
  /\ Called(Strncats)
  /\ 0 < size
  /\ at' = dst_len
  /\ offset' = Least(first, size)
  /\ pc' = "memcpy"
  /\ load' = NoLoad
  /\ Keep /\ UNCHANGED out

AppendBytes ==
  /\ pc = "memcpy"
  /\ load' = [NoLoad EXCEPT !.to = offset]
  /\ StoreAndGoOn(Block(0, offset), "terminate", offset)

Terminate ==
  /\ pc = "terminate"
  /\ load' = NoLoad
  /\ StoreAndReturn({}, {offset})

\* strcpy, called by the program or by strcat, or strncpy.
Copying == (Called(Strcpys \cup Strncpys) \/ pc = "strcpy") /\ 0 < size

-----------------------------------------------------------------------------
(***************************************************************************)
(* _strncpy_small_avx2, for the size - o bytes from o on.                  *)
(***************************************************************************)
SmallReg(o) == NarrowestEnds(size - o)[1].len

\* A register of both halves is looked at.
SmallAtOnce(o) == ~StrictStrncpy /\ size - o <= XMM_SZ /\ 1 < size - o

SmallStrncpyAtOnce(o) ==
  LET R == Vecs(o, 1, 2 * SmallReg(o))
  IN  /\ SmallAtOnce(o)
      /\ Loaded(R, 1, {})
      /\ StoreEnd(Offsets(o, NarrowestEnds(size - o)),
                  IF HasStop(R[1]) THEN Tzcnt(R[1]) + 1 ELSE size)

\* The two halves, the second only if the string goes on.
SmallStrncpyByHalves(o) ==
  LET R == << Reg(o, SmallReg(o)), Reg(size - SmallReg(o), SmallReg(o)) >>
      i == FirstHit(R)
  IN  /\ ~SmallAtOnce(o)
      /\ Loaded(R, i, {})
      /\ StoreEnd(Offsets(0, IF i = 1 THEN <<R[1]>> ELSE R),
                  IF i = 0 THEN size ELSE Tzcnt(R[i]) + 1)

SmallStrncpy(o) == SmallStrncpyAtOnce(o) \/ SmallStrncpyByHalves(o)

StartSmallStrict ==
  /\ Copying
  /\ StrictStrncpy /\ size < YMM_SZ
  /\ SmallStrncpy(0)

-----------------------------------------------------------------------------
(***************************************************************************)
(* _strcpy_avx2, _strncpy_avx2, _strcpy_avx512, _strncpy_avx512 and        *)
(* __strcpy_zen4.                                                          *)
(***************************************************************************)

\* The string ends at first, and with it, or at size, what is stored from o on.
EndFrom(o) == StoreEnd(Short(o, Least(first + 1, size) - o), first + 1)

\* The vector in front of the first byte, or a masked one up to the page's end.
StartNearEndOfPage ==
  LET R == IF Avx2 THEN Vecs(-Lead, 1, YMM_SZ) ELSE Vecs(0, 1, Ahead)
  IN  /\ Copying
      /\ ~(StrictStrncpy /\ size < YMM_SZ)
      /\ NearEndOfPage
      /\ Loaded(R, 1, IF Avx2 THEN {str1} ELSE {})
      /\ IF HasStop(R[1]) THEN EndFrom(0)
         ELSE IF Avx2 /\ size < YMM_SZ /\ size <= Ahead
           THEN StoreAndReturn(Short(0, size), {})
         ELSE StoreAndGoOn({}, "first", 0)

AtFirst ==
  \/ pc = "first"
  \/ Copying /\ ~(StrictStrncpy /\ size < YMM_SZ) /\ ~NearEndOfPage

FirstSmall ==
  /\ AtFirst
  /\ Avx2 /\ size < YMM_SZ
  /\ SmallStrncpy(0)

\* The bytes that a mask leaves out are zeros, so that fewer than a vector always
\* end here.
FirstVector ==
  LET R == Vecs(0, 1, Least(size, CopyVec))
  IN  /\ AtFirst
      /\ ~(Avx2 /\ size < YMM_SZ)
      /\ Loaded(R, 1, {})
      /\ IF HasStop(R[1]) THEN EndFrom(0)
         ELSE IF size < CopyVec THEN StoreAndReturn(Block(0, size), {})
         ELSE StoreAndGoOn(Block(0, CopyVec), "vecs", Ahead)

\* Six or three vectors ...
CountedEnd == Ahead + (IF Avx2 THEN 6 ELSE 3) * CopyVec

\* ... and one to four more up to the next group of four.
GroupsBegin == CountedEnd + 4 * CopyVec - ((str1 + CountedEnd) % (4 * CopyVec))

\* The vector that ends with the terminator, the bytes before it a second time.
Overlapping == Block(first + 1 - CopyVec, CopyVec)

EndsOverlapping ==
  routine \in Strcpys \cup Strcats /\ (Avx2 \/ offset < CountedEnd)

Vector ==
  LET R == Vecs(offset, 1, CopyVec)
  IN  /\ pc = "vecs"
      /\ offset < GroupsBegin /\ offset < size
      /\ Loaded(R, 1, {str1})
      /\ IF HasStop(R[1])
           THEN IF EndsOverlapping THEN StoreEnd(Overlapping, first + 1)
                ELSE EndFrom(offset)
         ELSE IF size - offset < CopyVec
           THEN IF Avx2 THEN StoreAndReturn(Short(offset, size - offset), {})
                ELSE StoreAndGoOn(Short(offset, size - offset), pc, offset + CopyVec)
         ELSE StoreAndGoOn(Block(offset, CopyVec), pc, offset + CopyVec)

LeaveVectors ==
  /\ pc = "vecs"
  /\ GroupsBegin <= offset \/ size <= offset
  /\ load' = NoLoad
  /\ StoreAndGoOn({}, "groups", offset)

\* strcpy ends with the vectors in front of the terminator's; strncpy looks at
\* them again.
Group ==
  LET R == Vecs(offset, 4, CopyVec)
      i == FirstHit(R)
  IN  /\ pc = "groups"
      /\ offset + 4 * CopyVec <= size
      /\ Loaded(R, 0, {str1})
      /\ IF i = 0
           THEN StoreAndGoOn(Block(offset, 4 * CopyVec), pc, offset + 4 * CopyVec)
         ELSE IF routine \in Strncpys THEN StoreAndGoOn({}, "rest", offset)
         ELSE StoreEnd(Block(offset, (i - 1) * CopyVec) \cup Overlapping, first + 1)

LeaveGroups ==
  /\ pc = "groups"
  /\ size < offset + 4 * CopyVec
  /\ load' = NoLoad
  /\ StoreAndGoOn({}, "rest", offset)

\* handle_remaining: a vector; in AVX2 code all of it is stored.
RestVector ==
  LET R == Vecs(offset, 1, CopyVec)
  IN  /\ pc = "rest"
      /\ offset + CopyVec <= size
      /\ Loaded(R, 1, {})
      /\ IF ~HasStop(R[1])
           THEN StoreAndGoOn(Block(offset, CopyVec), pc, offset + CopyVec)
         ELSE IF Avx2 THEN StoreEnd(Block(offset, CopyVec), first + 1)
         ELSE EndFrom(offset)

RestSmall ==
  /\ pc = "rest"
  /\ offset < size /\ size < offset + CopyVec
  /\ IF Avx2 THEN SmallStrncpy(offset)
     ELSE LET R == Vecs(offset, 1, size - offset)
          IN  /\ Loaded(R, 1, {})
              /\ IF HasStop(R[1]) THEN EndFrom(offset)
                 ELSE StoreAndGoOn(Block(offset, size - offset), pc, offset + CopyVec)

NothingRests ==
  /\ pc = "rest"
  /\ size <= offset
  /\ load' = NoLoad
  /\ StoreAndReturn({}, {})

StepStringCopy ==
  \/ CopyNothing \/ StartStrcat \/ StartStrncat \/ AppendBytes \/ Terminate
  \/ StartSmallStrict \/ StartNearEndOfPage \/ FirstSmall \/ FirstVector
  \/ Vector \/ LeaveVectors \/ Group \/ LeaveGroups
  \/ RestVector \/ RestSmall \/ NothingRests \/ Pad

-----------------------------------------------------------------------------
\* A destination to append to holds a string.
Held(n) == [i \in 0 .. n |-> IF i < n THEN Old ELSE Nul]

StringInit ==
  /\ Init
  /\ at = 0
  /\ IF routine \in Strcats \cup Strncats
     THEN dst_len \in DstLens /\ out = Held(dst_len)
     ELSE dst_len = 0 /\ out = << >>

\* Nothing is left to do, so that a routine that can neither go on nor return
\* is a deadlock.
Returned == pc = "done" /\ UNCHANGED stringVars

Next == StepStringCopy \/ Returned

Spec == StringInit /\ [][Next]_stringVars

-----------------------------------------------------------------------------
Loops == {"strcpy", "memcpy", "terminate", "first", "vecs", "groups", "rest", "pad"}

TypeOK ==
  /\ routine \in StringCopies
  /\ pc \in {"start", "done"} \cup Loops
  /\ offset \in 0 .. SizeSpan - 1
  /\ at \in {0, dst_len}
  /\ DOMAIN out \subseteq 0 .. SizeSpan - 1
  /\ \A i \in DOMAIN out : out[i] \in 0 .. first - 1 \cup {Old, Nul}

\* strcpy, strncpy, strcat and strncat do what they promise, as if in one step:
\* whatever vectors overlap and whatever is stored twice, the destination gets
\* the string, the padding and nothing else.
Promise == INSTANCE StringSpec
  WITH pads <- routine \in Strncpys, len <- first, n <- size,
       out <- IF pc = "done" THEN out
              ELSE IF routine \in Strcats \cup Strncats THEN Held(dst_len) ELSE << >>,
       status <- IF pc = "done" THEN "copied" ELSE "called"

ImplementsStringSpec == Promise!Spec

\* When a loop goes on at offset, the string has not ended before it, and exactly
\* the bytes in front of it have been copied.
CopiedSoFar ==
  pc \in {"vecs", "groups", "rest"} =>
    LET copied == Least(offset, size)
    IN  /\ copied <= first
        /\ \A i \in DOMAIN out :
             out[i] = IF i < dst_len THEN Old ELSE i - dst_len
        /\ dst_len .. dst_len + copied - 1 \subseteq DOMAIN out

PageOf(a) == a \div PAGE_SZ

\* Only pages are read in which the source has a byte: none behind the one of its
\* terminator, or of the last of the n bytes.
ReadsOnlyStringsPages ==
  LET end == Least(first, size - 1)
  IN  size > 0 =>
        0 <= PageOf(str1 + load.from) /\ PageOf(str1 + load.to - 1) <= PageOf(str1 + end)

\* That holds for all but the strict-bounds strncpy of a few bytes, which reads no
\* byte behind the n.
StaysInSource ==
  IF StrictStrncpy /\ size < YMM_SZ
  THEN 0 <= load.from /\ load.to <= size
  ELSE ReadsOnlyStringsPages

\* Aligned loads and the padding's aligned stores are made at aligned addresses.
NoAlignmentFault ==
  /\ \A s \in load.aligned : (s + load.from) % load.vec = 0
  /\ pc = "pad" => (str2 + at + offset) % CopyVec = 0

\* Every call returns: each step goes on to a later part of the routine, or, in
\* front of the string's end (of the n bytes' end, if it pads), to a later offset.
Parts == <<"start", "strcpy", "memcpy", "terminate", "first", "vecs", "groups", "rest",
           "pad", "done">>

EveryStepAdvances ==
  [][ \E i, j \in DOMAIN Parts :
        /\ pc = Parts[i] /\ pc' = Parts[j]
        /\ \/ i < j
           \/ /\ i = j
              /\ offset < offset'
              /\ offset < (IF pc = "pad" THEN size ELSE Least(first + 1, size)) ]_stringVars

=============================================================================
