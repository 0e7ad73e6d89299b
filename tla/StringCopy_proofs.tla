--------------------------- MODULE StringCopy_proofs ---------------------------
(***************************************************************************)
(* strcpy, strncpy, strcat and strncat implement their promise for every   *)
(* string, bound, alignment, page offset and register size, and read no    *)
(* page in which the source has no byte.                                   *)
(***************************************************************************)
EXTENDS StringCopy, Arithmetic_proofs

-----------------------------------------------------------------------------
\* n registers are a sequence of length n.
LEMMA SeqOfLength ==
  ASSUME NEW S, NEW n \in Nat, NEW R \in [1 .. n -> S]
  PROVE  R \in Seq(S) /\ Len(R) = n
OBVIOUS

\* The registers tested in front of the one that hits hold no stop.
LEMMA FirstHitIsFirst ==
  ASSUME NEW R \in Seq([at : Int, len : Int])
  PROVE  /\ FirstHit(R) \in 0 .. Len(R)
         /\ FirstHit(R) # 0 => HasStop(R[FirstHit(R)])
         /\ \A j \in 1 .. (IF FirstHit(R) = 0 THEN Len(R) ELSE FirstHit(R) - 1) : ~HasStop(R[j])
<1> DEFINE T == { j \in 1 .. Len(R) : HasStop(R[j]) }
           Hit(i) == /\ i # 0 => HasStop(R[i])
                     /\ \A j \in 1 .. (IF i = 0 THEN Len(R) ELSE i - 1) : ~HasStop(R[j])
<1>1. \E i \in 0 .. Len(R) : Hit(i)
  <2>1. CASE T = {}
    <3>1. \A j \in 1 .. Len(R) : ~HasStop(R[j])
      BY <2>1
    <3>2. Hit(0) /\ 0 \in 0 .. Len(R)
      BY <3>1
    <3>. QED  BY <3>2
  <2>2. CASE T # {}
    <3>0. T \subseteq Nat
      OBVIOUS
    <3>1. PICK m \in T : \A y \in T : m <= y
      BY <2>2, <3>0, MinOfNats
    <3>3. m \in 1 .. Len(R) /\ HasStop(R[m])
      OBVIOUS
    <3>4. ASSUME NEW j \in 1 .. m - 1  PROVE ~HasStop(R[j])
      <4>1. j \notin T
        BY <3>1, <3>3
      <4>. QED  BY <3>3, <4>1
    <3>5. Hit(m) /\ m \in 0 .. Len(R)
      BY <3>3, <3>4
    <3>. QED  BY <3>5
  <2>. QED  BY <2>1, <2>2
<1>2. FirstHit(R) = CHOOSE i \in 0 .. Len(R) : Hit(i)
  BY DEF FirstHit
<1>. HIDE DEF Hit
<1>3. FirstHit(R) \in 0 .. Len(R) /\ Hit(FirstHit(R))
  BY <1>1, <1>2
<1>. QED  BY <1>3 DEF Hit

-----------------------------------------------------------------------------
LEMMA VecSizes ==
  /\ ZMM_SZ \in Nat /\ ZMM_SZ > 2
  /\ YMM_SZ \in Nat /\ YMM_SZ > 0 /\ 2 * YMM_SZ <= ZMM_SZ
  /\ CopyVec \in Nat /\ CopyVec > 0 /\ CopyVec <= ZMM_SZ
  /\ Avx2 => CopyVec = YMM_SZ
BY SpanAssumption DEF YMM_SZ, CopyVec

LEMMA OneVector ==
  ASSUME NEW o \in Int, NEW b \in Int, NEW n \in Int
  PROVE  Offsets(o, Vecs(b, 1, n)) = Block(o + b, n)
<1>1. DOMAIN Vecs(b, 1, n) = {1} /\ Vecs(b, 1, n)[1] = [at |-> b, len |-> n]
  BY DEF Vecs, Reg
<1>. QED  BY <1>1 DEF Offsets

LEMMA FirstEnd ==
  ASSUME NEW n \in Int, NEW v \in Int
  PROVE  EndVecs(n, 1, v)[1] = Reg(0, v)
BY DEF EndVecs, LastVecs, Vecs, Reg

LEMMA Ends1 ==
  ASSUME NEW o \in Int, NEW n \in Int, NEW v \in Int
  PROVE  Offsets(o, EndVecs(n, 1, v)) = Block(o, v) \cup Block(o + n - v, v)
<1> DEFINE R == EndVecs(n, 1, v)
<1>1. /\ DOMAIN R = 1 .. 2
      /\ R[1] = [at |-> 0, len |-> v] /\ R[2] = [at |-> n - v, len |-> v]
  BY DEF EndVecs, LastVecs, Vecs, Reg
<1>. HIDE DEF R
<1>2. Offsets(o, R) = Block(o, v) \cup Block(o + n - v, v)
  BY <1>1 DEF Offsets
<1>. QED  BY <1>2 DEF R

LEMMA Ends2 ==
  ASSUME NEW o \in Int, NEW n \in Int, NEW v \in Nat
  PROVE  Offsets(o, EndVecs(n, 2, v)) = Block(o, 2 * v) \cup Block(o + n - 2 * v, 2 * v)
<1> DEFINE R == EndVecs(n, 2, v)
<1>1. /\ DOMAIN R = 1 .. 4
      /\ R[1] = [at |-> 0, len |-> v] /\ R[2] = [at |-> v, len |-> v]
      /\ R[3] = [at |-> n - 2 * v, len |-> v] /\ R[4] = [at |-> n - v, len |-> v]
  BY DEF EndVecs, LastVecs, Vecs, Reg
<1>. HIDE DEF R
<1>2. Offsets(o, R) = Block(o, v) \cup Block(o + v, v)
                        \cup Block(o + n - 2 * v, v) \cup Block(o + n - v, v)
  BY <1>1 DEF Offsets
<1>3. Offsets(o, R) = Block(o, 2 * v) \cup Block(o + n - 2 * v, 2 * v)
  BY <1>2 DEF Block
<1>. QED  BY <1>3 DEF R

LEMMA Ends4 ==
  ASSUME NEW o \in Int, NEW n \in Int, NEW v \in Nat
  PROVE  Offsets(o, EndVecs(n, 4, v)) = Block(o, 4 * v) \cup Block(o + n - 4 * v, 4 * v)
<1> DEFINE R == EndVecs(n, 4, v)
<1>1. /\ DOMAIN R = 1 .. 8
      /\ R[1] = [at |-> 0, len |-> v] /\ R[2] = [at |-> v, len |-> v]
      /\ R[3] = [at |-> 2 * v, len |-> v] /\ R[4] = [at |-> 3 * v, len |-> v]
      /\ R[5] = [at |-> n - 4 * v, len |-> v] /\ R[6] = [at |-> n - 3 * v, len |-> v]
      /\ R[7] = [at |-> n - 2 * v, len |-> v] /\ R[8] = [at |-> n - v, len |-> v]
  BY DEF EndVecs, LastVecs, Vecs, Reg
<1>. HIDE DEF R
<1>2. Offsets(o, R) =
        Block(o, v) \cup Block(o + v, v) \cup Block(o + 2 * v, v) \cup Block(o + 3 * v, v)
          \cup Block(o + n - 4 * v, v) \cup Block(o + n - 3 * v, v)
          \cup Block(o + n - 2 * v, v) \cup Block(o + n - v, v)
  BY <1>1 DEF Offsets
<1>3. Offsets(o, R) = Block(o, 4 * v) \cup Block(o + n - 4 * v, 4 * v)
  BY <1>2 DEF Block
<1>. QED  BY <1>3 DEF R

-----------------------------------------------------------------------------
\* The widest register that fits covers n bytes from both ends.
LEMMA WidestCover ==
  ASSUME NEW o \in Int, NEW n \in 0 .. ZMM_SZ
  PROVE  Offsets(o, WidestEnds(n)) = Block(o, n)
<1>1. CASE n <= 1
  BY <1>1, OneVector, VecSizes DEF WidestEnds
<1>2. CASE n > 1
  <2> DEFINE T == { s \in NarrowRegs : s <= n }
             r == Max(T)
  <2>1. PICK s \in NarrowRegs : s <= n /\ n <= 2 * s
    BY <1>2, RegsAssumption, VecSizes
  <2>2. n \in Nat /\ T \subseteq 0 .. n /\ s \in T
    <3>1. NarrowRegs \subseteq Nat
      BY SpanAssumption
    <3>2. n \in Nat
      BY VecSizes
    <3>3. \A t \in T : t \in 0 .. n
      BY <3>1, <3>2
    <3>4. s \in T
      BY <2>1
    <3>. QED  BY <3>2, <3>3, <3>4
  <2>3. r \in T /\ s <= r
    BY <2>2, MaxOfNats
  <2>4. r \in Nat /\ r <= n /\ n <= 2 * r
    BY <2>1, <2>2, <2>3
  <2>5. WidestEnds(n) = EndVecs(n, 1, r)
    BY <1>2 DEF WidestEnds
  <2>. HIDE DEF r
  <2>6. Offsets(o, WidestEnds(n)) = Block(o, r) \cup Block(o + n - r, r)
    BY <2>4, <2>5, Ends1
  <2>. QED  BY <2>4, <2>6 DEF Block
<1>. QED  BY <1>1, <1>2, VecSizes

\* So does the narrowest of which two are enough.
LEMMA NarrowestCover ==
  ASSUME NEW o \in Int, NEW n \in 1 .. ZMM_SZ
  PROVE  /\ NarrowestEnds(n)[1].len \in 1 .. n
         /\ n <= 2 * NarrowestEnds(n)[1].len
         /\ Offsets(o, NarrowestEnds(n)) = Block(o, n)
<1>1. CASE n = 1
  <2>1. NarrowestEnds(n) = Vecs(0, 1, 1)
    BY <1>1 DEF NarrowestEnds
  <2>2. Vecs(0, 1, 1)[1].len = 1
    BY DEF Vecs, Reg
  <2>3. Offsets(o, Vecs(0, 1, 1)) = Block(o, 1)
    BY OneVector
  <2>4. NarrowestEnds(n)[1].len = 1 /\ Offsets(o, NarrowestEnds(n)) = Block(o, 1)
    BY <2>1, <2>2, <2>3
  <2>. QED  BY <1>1, <2>4
<1>2. CASE n > 1
  <2> DEFINE T == { s \in NarrowRegs \cup {ZMM_SZ} : n <= 2 * s }
             r == Min(T)
  <2>1. PICK s \in NarrowRegs : s <= n /\ n <= 2 * s
    BY <1>2, RegsAssumption, VecSizes
  <2>2. T \subseteq Nat /\ s \in T
    <3>1. NarrowRegs \subseteq Nat
      BY SpanAssumption
    <3>. QED  BY <2>1, <3>1, VecSizes
  <2>3. r \in T /\ r <= s
    BY <2>2, MinOfNats
  <2>4. r \in 1 .. n /\ n <= 2 * r
    BY <1>2, <2>1, <2>2, <2>3, VecSizes
  <2>5. NarrowestEnds(n) = EndVecs(n, 1, r)
    BY <1>2, VecSizes DEF NarrowestEnds
  <2>. HIDE DEF r
  <2>6. Offsets(o, NarrowestEnds(n)) = Block(o, r) \cup Block(o + n - r, r)
    BY <2>4, <2>5, Ends1
  <2>7. NarrowestEnds(n)[1].len = r
    <3>1. n \in Int /\ r \in Int
      BY <2>4
    <3>2. EndVecs(n, 1, r)[1] = Reg(0, r)
      BY <3>1, FirstEnd
    <3>. QED  BY <2>5, <3>2 DEF Reg
  <2>. QED  BY <2>4, <2>6, <2>7 DEF Block
<1>. QED  BY <1>1, <1>2, VecSizes

\* A short store writes its n bytes.
LEMMA ShortCovers ==
  ASSUME NEW o \in Int, NEW n \in 1 .. CopyVec
  PROVE  Short(o, n) = Block(o, n)
BY NarrowestCover, VecSizes DEF Short

\* The padding's vectors outside of its loop: all n bytes, or four vectors at
\* either end.
LEMMA PadCovers ==
  ASSUME NEW o \in Int, NEW n \in Nat
  PROVE  /\ n <= 8 * CopyVec => Offsets(o, PadEnds(n)) = Block(o, n)
         /\ n > 8 * CopyVec => Offsets(o, PadEnds(n)) =
              Block(o, 4 * CopyVec) \cup Block(o + n - 4 * CopyVec, 4 * CopyVec)
<1>. CopyVec \in Nat /\ CopyVec > 0
  BY VecSizes
<1>1. CASE n < 2 * CopyVec \/ (Avx2 /\ n = 2 * CopyVec)
  <2>1. CASE Avx2
    <3>1. n \in 0 .. ZMM_SZ
      BY <1>1, <2>1, VecSizes
    <3>. QED  BY <1>1, <2>1, <3>1, WidestCover DEF PadEnds
  <2>2. CASE ~Avx2
    BY <1>1, <2>2, OneVector DEF PadEnds
  <2>. QED  BY <2>1, <2>2
<1>2. CASE ~(n < 2 * CopyVec \/ (Avx2 /\ n = 2 * CopyVec)) /\ n <= 4 * CopyVec
  <2>1. Offsets(o, PadEnds(n)) = Block(o, 2 * CopyVec) \cup Block(o + n - 2 * CopyVec, 2 * CopyVec)
    BY <1>2, Ends2 DEF PadEnds
  <2>. QED  BY <1>2, <2>1 DEF Block
<1>3. CASE ~(n < 2 * CopyVec \/ (Avx2 /\ n = 2 * CopyVec)) /\ n > 4 * CopyVec
  <2>1. Offsets(o, PadEnds(n)) = Block(o, 4 * CopyVec) \cup Block(o + n - 4 * CopyVec, 4 * CopyVec)
    BY <1>3, Ends4 DEF PadEnds
  <2>. QED  BY <1>3, <2>1 DEF Block
<1>. QED  BY <1>1, <1>2, <1>3

-----------------------------------------------------------------------------
(***************************************************************************)
(* The inductive invariant.                                                *)
(***************************************************************************)
Appends == routine \in Strcats \cup Strncats

\* The bytes of the source that are copied, and those the destination receives.
Bytes == Least(first, size)

Received == IF routine \in Strncpys THEN size ELSE Bytes + 1

Target == Promise!Promised(routine \in Strncpys, first, size, dst_len)

CallInv ==
  /\ routine \in StringCopies
  /\ str1 \in Nat /\ str2 \in Nat /\ size \in Nat /\ first \in Nat /\ last \in Nat
  /\ dst_len \in Nat
  /\ first <= last
  /\ ~Appends => dst_len = 0
  /\ routine \in Strcpys \cup Strcats => first + 8 * ZMM_SZ <= size

\* The first o bytes have arrived, and the string does not end in them.  Where the
\* first goes, the terminator of the destination's string may be left.
CopiedUpTo(o) ==
  /\ o \in 0 .. Bytes
  /\ \A i \in 0 .. dst_len + o - 1 : i \in DOMAIN out
  /\ \A i \in DOMAIN out :
       \/ o = 0 /\ i = dst_len
       \/ /\ i \in 0 .. dst_len + Bytes - 1
          /\ out[i] = IF i < dst_len THEN Old ELSE i - dst_len

\* All but the zeros that the loop has yet to store.
Padded ==
  /\ routine \in Strncpys /\ at = 0
  /\ first < offset
  /\ (str2 + at + offset) % CopyVec = 0
  /\ \A i \in DOMAIN out : i \in 0 .. size - 1 /\ out[i] = Target[i]
  /\ \A i \in 0 .. size - 1 : i < offset \/ size - 4 * CopyVec <= i => i \in DOMAIN out

Ready ==
  /\ at = dst_len
  /\ routine \notin Strncats
  /\ 0 < size

IInv ==
  /\ CallInv
  /\ pc \in {"start", "done"} \cup Loops
  /\ offset \in Nat
  /\ pc = "start" => at = 0 /\ out = IF Appends THEN Held(dst_len) ELSE << >>
  /\ pc \in {"memcpy", "terminate"} =>
       /\ routine \in Strncats /\ at = dst_len
       /\ offset = Bytes
       /\ CopiedUpTo(IF pc = "memcpy" THEN 0 ELSE offset)
  /\ pc \in {"strcpy", "first"} => Ready /\ CopiedUpTo(0)
  /\ pc \in {"vecs", "groups", "rest"} =>
       /\ Ready
       /\ 0 < offset
       /\ CopyVec <= first /\ CopyVec <= size
       /\ (str1 + offset) % CopyVec = 0
       /\ CopiedUpTo(Least(offset, size))
  /\ pc = "rest" => routine \in Strncpys
  /\ pc = "pad" => Padded
  /\ pc = "done" => out = Target

-----------------------------------------------------------------------------
(***************************************************************************)
(* What a step keeps.                                                      *)
(***************************************************************************)
Kept == call' = call /\ dst_len' = dst_len

LEMMA CallKept ==
  ASSUME CallInv, Kept
  PROVE  /\ CallInv' /\ CopyVec' = CopyVec /\ Target' = Target /\ Bytes' = Bytes
         /\ Appends' = Appends
         /\ routine' = routine /\ size' = size /\ first' = first
         /\ str1' = str1 /\ str2' = str2 /\ dst_len' = dst_len
BY DEF Kept, call, CallInv, CopyVec, Avx2, Target, Bytes, Appends, Promise!Promised

LEMMA BytesBound ==
  ASSUME CallInv
  PROVE  /\ Bytes \in Nat /\ Bytes <= first /\ Bytes <= size
         /\ Bytes = first \/ Bytes = size
         /\ Received \in Nat
         /\ routine \notin Strncpys \cup Strncats => Bytes = first /\ first < size
BY VecSizes DEF CallInv, Bytes, Least, Received, StringCopies

LEMMA TargetIs ==
  ASSUME CallInv
  PROVE  Target = [ i \in 0 .. dst_len + Received - 1 |->
                      IF i < dst_len THEN Old ELSE IF i < dst_len + Bytes THEN i - dst_len
                      ELSE Nul ]
<1>1. routine \in Strncpys => ~Appends
  BY DEF Appends, Strncpys, Strcats, Strncats
<1>. QED
  BY <1>1, BytesBound
  DEF Target, Promise!Promised, Received, Bytes, Least, CallInv

LEMMA DoneHolds ==
  ASSUME CallInv, Kept, offset' \in Nat, pc' = "done", out' = Target
  PROVE  IInv'
BY CallKept DEF IInv

(***************************************************************************)
(* Stores complete the destination when they write all that is missing.    *)
(***************************************************************************)
LEMMA StoresComplete ==
  ASSUME CallInv, at = dst_len, NEW o, CopiedUpTo(o),
         NEW O, NEW Z, Store(O, Z),
         0 < Received,
         O \cup Z \subseteq 0 .. Received - 1,
         \A i \in o .. Received - 1 : i \in O \cup Z,
         \A i \in Z : Bytes <= i,
         \A i \in O \ Z : i < Bytes \/ i = first
  PROVE  out' = Target
<1>1. /\ dst_len \in Nat /\ first \in Nat /\ last \in Nat /\ size \in Nat /\ first <= last
      /\ Bytes \in Nat /\ Received \in Nat /\ Bytes <= first
      /\ o \in Nat /\ o <= Bytes
  BY BytesBound DEF CallInv, CopiedUpTo
<1>2. Bytes < Received \/ Bytes = Received
  BY BytesBound DEF Received
<1> DEFINE D == DOMAIN out \cup { at + i : i \in O \cup Z }
<1>3. D = 0 .. dst_len + Received - 1
  <2>1. ASSUME NEW i \in DOMAIN out  PROVE i \in 0 .. dst_len + Received - 1
    <3>1. CASE o = 0 /\ i = dst_len
      BY <1>1, <3>1
    <3>2. CASE i \in 0 .. dst_len + Bytes - 1
      BY <1>1, <1>2, <3>2
    <3>. QED  BY <3>1, <3>2 DEF CopiedUpTo
  <2>2. ASSUME NEW i \in O \cup Z  PROVE at + i \in 0 .. dst_len + Received - 1
    BY <1>1
  <2>3. ASSUME NEW i \in 0 .. dst_len + Received - 1  PROVE i \in D
    <3>1. CASE i < dst_len + o
      BY <1>1, <3>1 DEF CopiedUpTo
    <3>2. CASE dst_len + o <= i
      <4>1. i - dst_len \in o .. Received - 1
        BY <1>1, <3>2
      <4>2. i - dst_len \in O \cup Z /\ i = at + (i - dst_len)
        BY <1>1, <4>1
      <4>. QED  BY <4>2
    <3>. QED  BY <1>1, <3>1, <3>2
  <2>. QED  BY <2>1, <2>2, <2>3
<1> DEFINE new(i) == IF i - at \in Z THEN Nul ELSE IF i - at \in O THEN Byte(i - at) ELSE out[i]
<1>4. out' = [i \in 0 .. dst_len + Received - 1 |-> new(i)]
  BY <1>3 DEF Store
<1>5. ASSUME NEW i \in 0 .. dst_len + Received - 1
      PROVE  new(i) = IF i < dst_len THEN Old ELSE IF i < dst_len + Bytes THEN i - dst_len
                      ELSE Nul
  <2>1. CASE i - at \in Z
    BY <1>1, <2>1
  <2>2. CASE i - at \in O \ Z
    BY <1>1, <2>2 DEF Byte
  <2>3. CASE i - at \notin O \cup Z
    <3>1. i < dst_len + o
      BY <1>1, <2>3
    <3>2. i \in DOMAIN out /\ ~(o = 0 /\ i = dst_len)
      BY <1>1, <3>1 DEF CopiedUpTo
    <3>3. i \in 0 .. dst_len + Bytes - 1 /\ out[i] = IF i < dst_len THEN Old ELSE i - dst_len
      BY <3>2 DEF CopiedUpTo
    <3>. QED  BY <1>1, <2>3, <3>3
  <2>. QED  BY <2>1, <2>2, <2>3
<1>. HIDE DEF new
<1>. QED  BY <1>4, <1>5, TargetIs

-----------------------------------------------------------------------------
\* No offset is more than a vector behind the string or the n bytes.
OffsetWithin == offset <= first + CopyVec \/ offset <= size

\* The padding begins within the n bytes.
LEMMA StoreEndWithin ==
  ASSUME CallInv, Ready, offset \in Nat, OffsetWithin, NEW end, NEW O,
         end = first + 1 \/ end = size,
         StoreEnd(O, end)
  PROVE  OffsetWithin'
<1>1. /\ CopyVec \in Nat /\ CopyVec > 0 /\ size \in Nat /\ first \in Nat /\ str2 \in Nat
      /\ at \in Nat /\ end \in Nat
  BY VecSizes DEF CallInv, Ready
<1>2. Kept
  BY DEF StoreEnd, StoreAndReturn, Keep, Kept
<1>3. size' = size /\ first' = first /\ CopyVec' = CopyVec
  BY <1>2, CallKept
<1> DEFINE n == IF routine \in Strncpys /\ end < size THEN size - end ELSE 0
<1>4. CASE n <= 8 * CopyVec
  <2>1. offset' = offset
    BY <1>4 DEF StoreEnd, StoreAndReturn
  <2>. QED  BY <1>3, <2>1 DEF OffsetWithin
<1>5. CASE ~(n <= 8 * CopyVec)
  <2>1. offset' = end + 4 * CopyVec - ((str2 + at + end) % CopyVec)
    BY <1>5 DEF StoreEnd
  <2>2. PICK a \in Nat : a = str2 + at + end
    BY <1>1
  <2>3. a % CopyVec \in Nat
    BY <1>1
  <2>4. end + 8 * CopyVec < size
    BY <1>1, <1>5
  <2>. QED  BY <1>1, <1>3, <2>1, <2>2, <2>3, <2>4 DEF OffsetWithin
<1>. QED  BY <1>4, <1>5

-----------------------------------------------------------------------------
(***************************************************************************)
(* The end of the string has been found in front of end, or the n bytes    *)
(* end there: what StoreEnd stores completes the destination, but for the  *)
(* zeros its loop has yet to store.                                        *)
(***************************************************************************)
LEMMA StoreEndHolds ==
  ASSUME CallInv, Ready, offset \in Nat, NEW o, CopiedUpTo(o),
         NEW O, NEW end,
         end = first + 1 \/ (end = size /\ size <= first),
         O \subseteq 0 .. Received - 1,
         \A i \in O : i < end + 4 * CopyVec,
         \A i \in o .. end - 1 : i < Received => i \in O,
         StoreEnd(O, end)
  PROVE  IInv'
<1> DEFINE n == IF routine \in Strncpys /\ end < size THEN size - end ELSE 0
           Z == Offsets(end, PadEnds(n))
<1>1. /\ dst_len \in Nat /\ first \in Nat /\ size \in Nat /\ 0 < size
      /\ Bytes \in Nat /\ Bytes <= first /\ Bytes <= size /\ (Bytes = first \/ Bytes = size)
      /\ CopyVec \in Nat /\ CopyVec > 0
      /\ o \in 0 .. Bytes
  BY BytesBound, VecSizes DEF CallInv, CopiedUpTo, Ready
<1>2. \/ routine \in Strncpys /\ Received = size
      \/ /\ routine \notin Strncpys /\ Bytes = first /\ Received = first + 1
         /\ end = first + 1
  BY <1>1, BytesBound DEF Received, Ready
<1>3. end \in Nat /\ n \in Nat /\ Received \in Nat /\ 0 < Received
  BY <1>1, <1>2
<1>20. n = 0 => Received <= end
  BY <1>1, <1>2
<1>21. n > 0 => /\ routine \in Strncpys /\ end = first + 1 /\ Received = size /\ n = size - end
               /\ Bytes = first
  BY <1>1, <1>2
<1>22. Bytes <= end
  BY <1>1, <1>2
<1>4. /\ n <= 8 * CopyVec => Z = Block(end, n)
      /\ n > 8 * CopyVec => Z = Block(end, 4 * CopyVec) \cup Block(end + n - 4 * CopyVec, 4 * CopyVec)
  BY <1>3, PadCovers
<1>. HIDE DEF Z
<1>5. CASE n <= 8 * CopyVec
  <2>1. StoreAndReturn(O, Z)
    BY <1>5 DEF StoreEnd, Z
  <2>2. Z = end .. Received - 1
    BY <1>3, <1>20, <1>21, <1>4, <1>5 DEF Block
  <2>3. \A i \in Z : Bytes <= i
    BY <1>1, <1>22, <1>3, <2>2
  <2>4. \A i \in O \ Z : i < Bytes \/ i = first
    <3>. SUFFICES ASSUME NEW i \in O \ Z  PROVE i < Bytes \/ i = first
      OBVIOUS
    <3>1. i \in Nat /\ i < Received /\ i < end
      BY <1>3, <2>2
    <3>. QED  BY <1>1, <1>2, <3>1
  <2>5. \A i \in o .. Received - 1 : i \in O \cup Z
    BY <1>1, <1>3, <2>2
  <2>6. O \cup Z \subseteq 0 .. Received - 1
    BY <1>3, <2>2
  <2>7. Store(O, Z) /\ at = dst_len
    BY <2>1 DEF StoreAndReturn, Ready
  <2>8. out' = Target
    BY <1>3, <2>3, <2>4, <2>5, <2>6, <2>7, StoresComplete
  <2>. QED  BY <2>1, <2>8, DoneHolds DEF StoreAndReturn, Keep, Kept
<1>6. CASE n > 8 * CopyVec
  <2>1. /\ Store(O, Z)
        /\ pc' = "pad" /\ at' = at
        /\ offset' = end + 4 * CopyVec - ((str2 + at + end) % CopyVec)
        /\ Kept
    BY <1>1, <1>3, <1>6 DEF StoreEnd, Z, Keep, Kept
  <2>2. /\ routine \in Strncpys /\ end = first + 1 /\ Received = size /\ n = size - end
        /\ Bytes = first /\ dst_len = 0 /\ at = 0 /\ str2 \in Nat
    BY <1>21, <1>6, <1>1 DEF CallInv, Appends, Strncpys, Strcats, Strncats, Ready
  <2>3. Z = (end .. end + 4 * CopyVec - 1) \cup (size - 4 * CopyVec .. size - 1)
    BY <1>1, <1>4, <1>6, <2>2 DEF Block
  <2>4. (str2 + end) % CopyVec \in 0 .. CopyVec - 1
    BY <1>1, <2>2
  <2>5. offset' \in Nat /\ first < offset' /\ offset' <= end + 4 * CopyVec
    BY <1>1, <2>1, <2>2, <2>4
  <2>6. (str2 + at + offset') % CopyVec = 0
    <3> DEFINE x == str2 + end
               y == x - (x % CopyVec)
    <3>1. x \in Int /\ y \in Int /\ y % CopyVec = 0
      BY <1>1, <2>2, <2>4, RoundedDown
    <3>2. str2 + at + offset' = y + 4 * CopyVec /\ str2 + at + offset' \in Int
      BY <1>1, <2>1, <2>2, <2>4
    <3>. HIDE DEF y
    <3>3. (y + 4 * CopyVec) % CopyVec = 0
      BY <1>1, <3>1, AlignedFourOn
    <3>. QED  BY <3>2, <3>3
  <2>7. Target = [ i \in 0 .. size - 1 |-> IF i < first THEN i ELSE Nul ]
    BY <1>1, <2>2, TargetIs
  <2>8. DOMAIN out' = DOMAIN out \cup O \cup Z
    <3>1. DOMAIN out' = DOMAIN out \cup { 0 + i : i \in O \cup Z }
      BY <2>1, <2>2 DEF Store
    <3>2. O \cup Z \subseteq Int
      BY <1>1, <2>2, <2>3
    <3>. QED  BY <3>1, <3>2
  <2>9. \A i \in 0 .. size - 1 : i < offset' \/ size - 4 * CopyVec <= i => i \in DOMAIN out'
    <3>. SUFFICES ASSUME NEW i \in 0 .. size - 1, i < offset' \/ size - 4 * CopyVec <= i
                  PROVE  i \in DOMAIN out \cup O \cup Z
      BY <2>8
    <3>1. CASE i < o
      BY <1>1, <2>2, <3>1 DEF CopiedUpTo
    <3>2. CASE o <= i /\ i < end
      BY <1>1, <2>2, <3>2
    <3>3. CASE end <= i
      BY <1>1, <2>2, <2>3, <2>5, <3>3
    <3>. QED  BY <1>1, <2>2, <3>1, <3>2, <3>3
  <2>10. ASSUME NEW i \in DOMAIN out'  PROVE i \in 0 .. size - 1 /\ out'[i] = Target[i]
    <3>0. /\ i \in DOMAIN out \cup O \cup Z
          /\ out'[i] = IF i \in Z THEN Nul ELSE IF i \in O THEN Byte(i) ELSE out[i]
      <4>1. i \in DOMAIN out \cup O \cup Z
        BY <2>8
      <4>2. out'[i] = IF i - at \in Z THEN Nul ELSE IF i - at \in O THEN Byte(i - at) ELSE out[i]
        BY <2>1 DEF Store
      <4>3. DOMAIN out \subseteq Int
        BY <1>1, <2>2 DEF CopiedUpTo
      <4>4. i \in Int
        <5>1. O \subseteq Int
          BY <1>3
        <5>2. Z \subseteq Int
          BY <1>1, <1>3, <2>3
        <5>. QED  BY <4>1, <4>3, <5>1, <5>2
      <4>5. i - at = i
        BY <2>2, <4>4
      <4>. QED  BY <4>1, <4>2, <4>5
    <3>1. CASE i \in Z
      BY <1>1, <1>3, <1>6, <2>2, <2>3, <2>7, <3>0, <3>1
    <3>2. CASE i \in O \ Z
      <4>1. i \in 0 .. size - 1 /\ i < end
        <5>1. i \in 0 .. size - 1 /\ i < end + 4 * CopyVec
          BY <2>2, <3>2
        <5>2. i \notin end .. end + 4 * CopyVec - 1
          BY <2>3, <3>2
        <5>. QED  BY <1>1, <1>3, <5>1, <5>2
      <4>2. out'[i] = Byte(i)
        BY <3>0, <3>2
      <4>. QED  BY <1>1, <2>2, <2>7, <4>1, <4>2 DEF Byte, CallInv
    <3>3. CASE i \notin O \cup Z
      <4>1. i \in DOMAIN out
        BY <3>0, <3>3
      <4>2. ~(o = 0 /\ i = 0)
        BY <1>1, <2>2, <3>3
      <4>3. i \in 0 .. first - 1 /\ out[i] = i
        BY <1>1, <2>2, <4>1, <4>2 DEF CopiedUpTo
      <4>. QED  BY <1>1, <2>2, <2>7, <3>0, <3>3, <4>3
    <3>. QED  BY <3>0, <3>1, <3>2, <3>3
  <2>. QED
    BY <2>1, <2>2, <2>5, <2>6, <2>9, <2>10, CallKept DEF IInv, Padded, Loops
<1>. QED  BY <1>1, <1>5, <1>6

-----------------------------------------------------------------------------
(***************************************************************************)
(* What goes on.                                                           *)
(***************************************************************************)
LEMMA CopyGoesOn ==
  ASSUME CallInv, Kept, at = dst_len, NEW o, CopiedUpTo(o),
         NEW h \in Nat, o <= h, h <= Bytes,
         NEW O, O = Block(o, h - o), Store(O, {}),
         NEW c \in Nat, c <= h, h = 0 \/ 0 < c \/ 0 < o
  PROVE  CopiedUpTo(c)'
<1>1. /\ dst_len \in Nat /\ first \in Nat /\ last \in Nat /\ Bytes \in Nat /\ o \in Nat
      /\ Bytes <= first /\ o <= Bytes
  BY BytesBound DEF CallInv, CopiedUpTo
<1>2. O = o .. h - 1
  BY <1>1 DEF Block
<1>3. /\ DOMAIN out' = DOMAIN out \cup { at + i : i \in O }
      /\ \A i \in DOMAIN out' :
           out'[i] = IF i - at \in O THEN Byte(i - at) ELSE out[i]
  BY DEF Store
<1>4. ASSUME NEW i \in 0 .. dst_len + c - 1  PROVE i \in DOMAIN out'
  <2>1. CASE i < dst_len + o
    BY <1>1, <1>3, <2>1 DEF CopiedUpTo
  <2>2. CASE dst_len + o <= i
    <3>1. i - dst_len \in O /\ i = at + (i - dst_len)
      BY <1>1, <1>2, <2>2
    <3>. QED  BY <1>3, <3>1
  <2>. QED  BY <1>1, <2>1, <2>2
<1>5. ASSUME NEW i \in DOMAIN out'
      PROVE  \/ c = 0 /\ i = dst_len
             \/ /\ i \in 0 .. dst_len + Bytes - 1
                /\ out'[i] = IF i < dst_len THEN Old ELSE i - dst_len
  <2>1. CASE i - at \in O
    <3>2. i \in DOMAIN out \/ \E j \in O : i = at + j
      BY <1>3
    <3>3. DOMAIN out \subseteq Int
      BY <1>1 DEF CopiedUpTo
    <3>4. i \in Int
      BY <1>1, <1>2, <3>2, <3>3
    <3>5. out'[i] = Byte(i - at)
      BY <1>3, <2>1
    <3>6. o <= i - dst_len /\ i - dst_len < h /\ i - at = i - dst_len
      BY <1>1, <1>2, <2>1, <3>4
    <3>7. Byte(i - at) = i - dst_len
      BY <1>1, <3>4, <3>6 DEF Byte
    <3>. QED  BY <1>1, <3>4, <3>5, <3>6, <3>7
  <2>2. CASE i - at \notin O
    <3>1. i \in DOMAIN out /\ out'[i] = out[i]
      <4>1. \A j \in O : i # at + j
        BY <1>1, <1>2, <2>2
      <4>. QED  BY <1>3, <2>2, <4>1
    <3>2. ~(o = 0 /\ i = dst_len) \/ c = 0
      BY <1>1, <1>2, <2>2
    <3>. QED  BY <1>1, <3>1, <3>2 DEF CopiedUpTo
  <2>. QED  BY <2>1, <2>2
<1>6. c \in 0 .. Bytes
  BY <1>1
<1>. QED  BY <1>4, <1>5, <1>6, CallKept DEF CopiedUpTo

\* Nothing has been stored.
LEMMA NothingStored ==
  ASSUME CallInv, Kept, at = dst_len, NEW o, CopiedUpTo(o), Store({}, {})
  PROVE  CopiedUpTo(o)'
<1>1. o \in Nat /\ o <= Bytes /\ Bytes \in Nat
  BY BytesBound DEF CopiedUpTo
<1>2. {} = Block(o, o - o)
  BY <1>1 DEF Block
<1>. QED  BY <1>1, <1>2, CopyGoesOn

\* A register from o on, in front of which the string does not end.
LEMMA StopInVector ==
  ASSUME CallInv, NEW o \in Int, NEW n \in Int
  PROVE  /\ Vecs(o, 1, n)[1] = Reg(o, n)
         /\ o <= first => (HasStop(Reg(o, n)) <=> first < o + n)
         /\ o <= first => Tzcnt(Reg(o, n)) = first
BY MaxOfTwo DEF Vecs, Reg, HasStop, CallInv, Tzcnt

LEMMA EndFromHolds ==
  ASSUME CallInv, Ready, offset \in Nat, NEW o \in Nat, CopiedUpTo(o),
         o < size, first < o + CopyVec, EndFrom(o)
  PROVE  IInv'
<1> DEFINE k == Least(first + 1, size) - o
<1>1. /\ first \in Nat /\ size \in Nat /\ o <= first /\ CopyVec \in Nat /\ 0 < CopyVec
      /\ routine \in Strncpys => Received = size
      /\ routine \notin Strncpys => Received = first + 1 /\ first < size
  BY BytesBound, VecSizes DEF CallInv, CopiedUpTo, Received, Ready
<1>2. k \in 1 .. CopyVec /\ o + k <= first + 1 /\ o + k <= size
      /\ (o + k = first + 1 \/ o + k = size)
  BY <1>1 DEF Least
<1>. HIDE DEF k
<1>3. Short(o, k) = o .. o + k - 1
  <2>1. Short(o, k) = Block(o, k)
    BY <1>2, ShortCovers
  <2>. QED  BY <2>1 DEF Block
<1> DEFINE O == Short(o, k)
           end == first + 1
<1>4. O \subseteq 0 .. Received - 1
  BY <1>1, <1>2, <1>3
<1>5. \A i \in O : i < end + 4 * CopyVec
  BY <1>1, <1>2, <1>3
<1>6. \A i \in o .. end - 1 : i < Received => i \in O
  BY <1>1, <1>2, <1>3
<1>7. StoreEnd(O, end)
  BY DEF EndFrom, k
<1>8. end = first + 1
  OBVIOUS
<1>. HIDE DEF O, end
<1>. QED  BY <1>4, <1>5, <1>6, <1>7, <1>8, StoreEndHolds

-----------------------------------------------------------------------------
(***************************************************************************)
(* Calls.                                                                  *)
(***************************************************************************)
LEMMA ReadyToCopy ==
  ASSUME IInv, Copying \/ AtFirst
  PROVE  Ready /\ CopiedUpTo(0)
<1>1. CASE pc = "start"
  <2>1. routine \in Strcpys \cup Strncpys
    BY <1>1 DEF Copying, AtFirst, Called
  <2>2. ~Appends /\ routine \notin Strncats
    BY <2>1 DEF Appends, Strcats, Strncats, Strcpys, Strncpys
  <2>3. at = 0 /\ dst_len = 0 /\ out = << >>
    BY <1>1, <2>2 DEF IInv, CallInv
  <2>4. 0 < size
    BY <1>1 DEF Copying, AtFirst
  <2>. QED  BY <2>2, <2>3, <2>4, BytesBound DEF Ready, CopiedUpTo, IInv
<1>2. CASE pc \in {"strcpy", "first"}
  BY <1>2 DEF IInv
<1>. QED  BY <1>1, <1>2 DEF Copying, AtFirst, Called

LEMMA CopyNothingHolds ==
  ASSUME IInv, CopyNothing
  PROVE  IInv'
<1>1. /\ CallInv /\ size = 0 /\ at = 0 /\ out = IF Appends THEN Held(dst_len) ELSE << >>
      /\ routine \in Strncpys \cup Strncats
      /\ Kept /\ pc' = "done" /\ offset' \in Nat /\ Store({}, {})
  BY DEF IInv, CopyNothing, Called, StoreAndReturn, Keep, Kept
<1>2. Bytes = 0 /\ dst_len \in Nat
  BY <1>1, BytesBound DEF CallInv
<1>3. CASE routine \in Strncpys
  <2>1. ~Appends /\ dst_len = 0 /\ Received = 0
    BY <1>1, <1>3 DEF Appends, CallInv, Received, Strncpys, Strcats, Strncats
  <2>2. out = << >> /\ DOMAIN out = {}
    BY <1>1, <2>1
  <2>3. out' = [ i \in {} |-> Nul ]
    BY <1>1, <2>2 DEF Store
  <2>4. Target = [ i \in 0 .. -1 |-> Nul ]
    BY <1>1, <2>1, <1>2, TargetIs
  <2>5. out' = Target
    BY <2>3, <2>4
  <2>. QED  BY <1>1, <2>5, DoneHolds
<1>4. CASE routine \notin Strncpys
  <2>1. Appends /\ Received = 1
    BY <1>1, <1>2, <1>4 DEF Appends, Received
  <2>2. out = Held(dst_len)
    BY <1>1, <2>1
  <2>3. DOMAIN out = 0 .. dst_len
    BY <2>2 DEF Held
  <2>4. out' = [ i \in 0 .. dst_len |-> out[i] ]
    BY <1>1, <2>3 DEF Store
  <2>5. out' = [ i \in 0 .. dst_len |-> IF i < dst_len THEN Old ELSE Nul ]
    BY <2>2, <2>4 DEF Held
  <2>6. Target = [ i \in 0 .. dst_len |-> IF i < dst_len THEN Old ELSE Nul ]
    BY <1>1, <1>2, <2>1, TargetIs
  <2>7. out' = Target
    BY <2>5, <2>6
  <2>. QED  BY <1>1, <2>7, DoneHolds
<1>. QED  BY <1>3, <1>4

\* A string to append to holds nothing of the source yet.
LEMMA HeldIsNothing ==
  ASSUME CallInv, out = Held(dst_len)
  PROVE  CopiedUpTo(0)
BY BytesBound DEF CallInv, CopiedUpTo, Held

LEMMA StartStrcatHolds ==
  ASSUME IInv, StartStrcat
  PROVE  IInv'
<1>1. /\ CallInv /\ Kept /\ out' = out /\ offset' = offset /\ offset \in Nat
      /\ at' = dst_len /\ pc' = "strcpy" /\ routine \in Strcats /\ pc = "start"
  BY DEF StartStrcat, IInv, Keep, Kept, Called
<1>2. out = Held(dst_len)
  BY <1>1 DEF IInv, Appends
<1>3. CopiedUpTo(0)'
  BY <1>1, <1>2, HeldIsNothing, CallKept DEF CopiedUpTo
<1>4. Ready'
  BY <1>1, CallKept, BytesBound DEF Ready, Strcats, Strncats, CallInv, Strncpys
<1>. QED  BY <1>1, <1>3, <1>4, CallKept DEF IInv, Loops

LEMMA StartStrncatHolds ==
  ASSUME IInv, StartStrncat
  PROVE  IInv'
<1>1. /\ CallInv /\ Kept /\ out' = out /\ offset' = Bytes /\ offset' \in Nat
      /\ at' = dst_len /\ pc' = "memcpy" /\ routine \in Strncats /\ pc = "start"
  BY BytesBound DEF StartStrncat, IInv, Keep, Kept, Called, Bytes
<1>2. out = Held(dst_len)
  BY <1>1 DEF IInv, Appends
<1>3. CopiedUpTo(0)'
  BY <1>1, <1>2, HeldIsNothing, CallKept DEF CopiedUpTo
<1>. QED  BY <1>1, <1>3, CallKept DEF IInv, Loops

LEMMA AppendBytesHolds ==
  ASSUME IInv, AppendBytes
  PROVE  IInv'
<1>1. /\ CallInv /\ Kept /\ offset' = offset /\ offset = Bytes /\ offset \in Nat
      /\ at = dst_len /\ at' = dst_len /\ pc' = "terminate" /\ routine \in Strncats
      /\ CopiedUpTo(0) /\ Store(Block(0, offset), {})
  BY DEF AppendBytes, StoreAndGoOn, IInv, Keep, Kept
<1>2. PICK k \in Nat : k = offset
  BY <1>1
<1>3. CopiedUpTo(k)'
  <2>1. Block(0, k) = Block(0, k - 0) /\ Store(Block(0, k), {}) /\ 0 <= k /\ k <= Bytes
    BY <1>1, <1>2
  <2>2. k = 0 \/ 0 < k
    OBVIOUS
  <2>. QED  BY <1>1, <2>1, <2>2, CopyGoesOn
<1>. QED  BY <1>1, <1>2, <1>3, CallKept DEF IInv, Loops, CopiedUpTo

LEMMA TerminateHolds ==
  ASSUME IInv, Terminate
  PROVE  IInv'
<1>1. /\ CallInv /\ Kept /\ offset' = offset /\ offset = Bytes /\ offset \in Nat
      /\ at = dst_len /\ pc' = "done" /\ routine \in Strncats
      /\ CopiedUpTo(offset) /\ Store({}, {offset})
  BY DEF Terminate, StoreAndReturn, IInv, Keep, Kept
<1>2. Received = Bytes + 1
  BY <1>1 DEF Received, Strncats, Strncpys
<1>3. out' = Target
  BY <1>1, <1>2, StoresComplete, BytesBound
<1>. QED  BY <1>1, <1>3, DoneHolds

-----------------------------------------------------------------------------
(***************************************************************************)
(* The last bytes of strncpy.                                              *)
(***************************************************************************)
LEMMA SmallAtOnceHolds ==
  ASSUME CallInv, Ready, routine \in Strncpys, offset \in Nat,
         NEW o \in Nat, CopiedUpTo(o), o < size, size - o <= CopyVec,
         SmallStrncpyAtOnce(o)
  PROVE  IInv' /\ (OffsetWithin => OffsetWithin')
<1> DEFINE n == size - o
           s == SmallReg(o)
           O == Offsets(o, NarrowestEnds(n))
           end == IF HasStop(Vecs(o, 1, 2 * s)[1]) THEN Tzcnt(Vecs(o, 1, 2 * s)[1]) + 1 ELSE size
<1>1. /\ first \in Nat /\ size \in Nat /\ o <= first /\ CopyVec \in Nat /\ 0 < CopyVec
      /\ Received = size /\ n \in 1 .. ZMM_SZ
  BY BytesBound, VecSizes DEF CallInv, CopiedUpTo, Received
<1>2. s \in Nat /\ n <= 2 * s /\ O = o .. size - 1
  <2>1. s \in 1 .. n /\ n <= 2 * s /\ O = Block(o, n)
    BY <1>1, NarrowestCover DEF SmallReg
  <2>2. Block(o, n) = o .. size - 1
    BY <1>1 DEF Block
  <2>. QED  BY <1>1, <2>1, <2>2
<1>3. end = first + 1 \/ (end = size /\ size <= first)
  <2>1. 2 * s \in Int
    BY <1>2
  <2>2. /\ Vecs(o, 1, 2 * s)[1] = Reg(o, 2 * s)
        /\ HasStop(Reg(o, 2 * s)) <=> first < o + 2 * s
        /\ Tzcnt(Reg(o, 2 * s)) = first
    BY <1>1, <2>1, StopInVector
  <2>. QED  BY <1>1, <1>2, <2>2
<1>4. StoreEnd(O, end)
  BY DEF SmallStrncpyAtOnce
<1>. HIDE DEF O, end, s
<1>5. O \subseteq 0 .. Received - 1
  BY <1>1, <1>2
<1>6. \A i \in O : i < end + 4 * CopyVec
  BY <1>1, <1>2, <1>3
<1>7. \A i \in o .. end - 1 : i < Received => i \in O
  BY <1>1, <1>2, <1>3
<1>. QED  BY <1>3, <1>4, <1>5, <1>6, <1>7, StoreEndHolds, StoreEndWithin

LEMMA SmallByHalvesHolds ==
  ASSUME CallInv, Ready, routine \in Strncpys, offset \in Nat,
         NEW o \in Nat, CopiedUpTo(o), o < size, size - o <= CopyVec,
         SmallStrncpyByHalves(o)
  PROVE  IInv' /\ (OffsetWithin => OffsetWithin')
<1> DEFINE n == size - o
           s == SmallReg(o)
           R == << Reg(o, s), Reg(size - s, s) >>
           i == FirstHit(R)
           O == Offsets(0, IF i = 1 THEN <<R[1]>> ELSE R)
           end == IF i = 0 THEN size ELSE Tzcnt(R[i]) + 1
<1>1. /\ first \in Nat /\ last \in Nat /\ first <= last
      /\ size \in Nat /\ o <= first /\ CopyVec \in Nat /\ 0 < CopyVec
      /\ Received = size /\ n \in 1 .. ZMM_SZ
  BY BytesBound, VecSizes DEF CallInv, CopiedUpTo, Received
<1>2. s \in 1 .. n /\ n <= 2 * s
  BY <1>1, NarrowestCover DEF SmallReg
<1>3. StoreEnd(O, end)
  BY DEF SmallStrncpyByHalves
<1>. HIDE DEF s
<1>4. /\ DOMAIN R = 1 .. 2 /\ R[1] = [at |-> o, len |-> s]
      /\ R[2] = [at |-> size - s, len |-> s] /\ Len(R) = 2
      /\ R \in Seq([at : Int, len : Int])
  BY <1>1, <1>2 DEF Reg
<1>5. /\ i \in 0 .. 2
      /\ i # 0 => HasStop(R[i])
      /\ i # 1 => ~HasStop(R[1])
      /\ i = 0 => ~HasStop(R[2])
  <2>. HIDE DEF R
  <2>1. /\ i \in 0 .. Len(R)
        /\ i # 0 => HasStop(R[i])
        /\ \A j \in 1 .. (IF i = 0 THEN Len(R) ELSE i - 1) : ~HasStop(R[j])
    BY <1>4, FirstHitIsFirst
  <2>. HIDE DEF i
  <2>2. i \in 0 .. 2
    BY <1>4, <2>1
  <2>3. CASE i = 0
    BY <1>4, <2>1, <2>3
  <2>4. CASE i = 1
    BY <1>4, <2>1, <2>4
  <2>5. CASE i = 2
    BY <1>4, <2>1, <2>5
  <2>. QED  BY <2>2, <2>3, <2>4, <2>5
<1>. HIDE DEF R
<1>6. Offsets(0, <<R[1]>>) = o .. o + s - 1
  <2> DEFINE T == <<R[1]>>
  <2>1. DOMAIN T = {1} /\ T[1].at = o /\ T[1].len = s
    BY <1>4
  <2>. HIDE DEF T
  <2>2. Offsets(0, T) = Block(0 + o, s)
    BY <2>1 DEF Offsets
  <2>3. Block(0 + o, s) = o .. o + s - 1
    BY <1>1, <1>2 DEF Block
  <2>. QED  BY <2>2, <2>3 DEF T
<1>7. Offsets(0, R) = (o .. o + s - 1) \cup (size - s .. size - 1)
  <2>1. Offsets(0, R) = Block(0 + o, s) \cup Block(0 + (size - s), s)
    BY <1>4 DEF Offsets
  <2>2. Block(0 + o, s) = o .. o + s - 1
    BY <1>1, <1>2 DEF Block
  <2>3. Block(0 + (size - s), s) = size - s .. size - 1
    BY <1>1, <1>2 DEF Block
  <2>. QED  BY <2>1, <2>2, <2>3
<1>. HIDE DEF i
<1>8. CASE i = 0
  <2>1. end = size /\ size <= first
    BY <1>1, <1>2, <1>4, <1>5, <1>8 DEF HasStop
  <2>3. (o .. o + s - 1) \cup (size - s .. size - 1) = o .. size - 1
    <3>1. s \in Nat /\ o + s <= size /\ size <= o + 2 * s /\ size \in Nat
      BY <1>1, <1>2
    <3>2. \A j \in Int : (j \in o .. o + s - 1 \/ j \in size - s .. size - 1)
                            <=> j \in o .. size - 1
      BY <3>1
    <3>. QED  BY <3>2, <3>1
  <2>2. O = o .. size - 1
    <3>1. O = Offsets(0, R)
      BY <1>8
    <3>. QED  BY <1>7, <2>3, <3>1
  <2>. HIDE DEF O, end
  <2>5. O \subseteq 0 .. Received - 1
    BY <1>1, <2>2
  <2>6. \A j \in O : j < end + 4 * CopyVec
    BY <1>1, <2>1, <2>2
  <2>7. \A j \in o .. end - 1 : j < Received => j \in O
    BY <1>1, <2>1, <2>2
  <2>. QED  BY <1>3, <2>1, <2>5, <2>6, <2>7, StoreEndHolds, StoreEndWithin
<1>9. CASE i = 1
  <2>1. end = first + 1 /\ first < o + s
    <3>1. first < o + s
      BY <1>4, <1>5, <1>9 DEF HasStop
    <3>2. Tzcnt(R[1]) = Max({first, o})
      BY <1>4 DEF Tzcnt
    <3>3. Max({first, o}) = first
      BY <1>1, MaxOfTwo
    <3>. QED  BY <1>9, <3>1, <3>2, <3>3
  <2>2. O = o .. o + s - 1
    BY <1>6, <1>9
  <2>. HIDE DEF O, end
  <2>5. O \subseteq 0 .. Received - 1
    BY <1>1, <1>2, <2>2
  <2>6. \A j \in O : j < end + 4 * CopyVec
    BY <1>1, <1>2, <2>1, <2>2
  <2>7. \A j \in o .. end - 1 : j < Received => j \in O
    BY <1>1, <1>2, <2>1, <2>2
  <2>. QED  BY <1>3, <2>1, <2>5, <2>6, <2>7, StoreEndHolds, StoreEndWithin
<1>10. CASE i = 2
  <2>1. end = first + 1 /\ first < size /\ o + s <= first
    <3>1. first < size /\ o + s <= first
      BY <1>1, <1>2, <1>4, <1>5, <1>10 DEF HasStop
    <3>2. Tzcnt(R[2]) = Max({first, size - s})
      BY <1>4 DEF Tzcnt
    <3>3. Max({first, size - s}) = IF first < size - s THEN size - s ELSE first
      BY <1>1, <1>2, MaxOfTwo
    <3>4. Max({first, size - s}) = first
      BY <1>1, <1>2, <3>1, <3>3
    <3>. QED  BY <1>10, <3>1, <3>2, <3>4
  <2>3. (o .. o + s - 1) \cup (size - s .. size - 1) = o .. size - 1
    <3>1. s \in Nat /\ o + s <= size /\ size <= o + 2 * s /\ size \in Nat
      BY <1>1, <1>2
    <3>2. \A j \in Int : (j \in o .. o + s - 1 \/ j \in size - s .. size - 1)
                            <=> j \in o .. size - 1
      BY <3>1
    <3>. QED  BY <3>2, <3>1
  <2>2. O = o .. size - 1
    <3>1. O = Offsets(0, R)
      BY <1>10
    <3>. QED  BY <1>7, <2>3, <3>1
  <2>. HIDE DEF O, end
  <2>5. O \subseteq 0 .. Received - 1
    BY <1>1, <2>2
  <2>6. \A j \in O : j < end + 4 * CopyVec
    BY <1>1, <2>1, <2>2
  <2>7. \A j \in o .. end - 1 : j < Received => j \in O
    BY <1>1, <2>1, <2>2
  <2>. QED  BY <1>3, <2>1, <2>5, <2>6, <2>7, StoreEndHolds, StoreEndWithin
<1>. QED  BY <1>5, <1>8, <1>9, <1>10

LEMMA SmallHolds ==
  ASSUME CallInv, Ready, offset \in Nat, Avx2,
         NEW o \in Nat, CopiedUpTo(o), o < size, size - o < YMM_SZ, o = 0 \/ routine \in Strncpys,
         SmallStrncpy(o)
  PROVE  IInv' /\ (OffsetWithin => OffsetWithin')
<1>1. routine \in Strncpys
  <2>. SUFFICES ASSUME routine \notin Strncpys, o = 0  PROVE FALSE
    OBVIOUS
  <2>1. first + 8 * ZMM_SZ <= size /\ first \in Nat /\ size \in Nat
    BY DEF CallInv, Ready, StringCopies
  <2>. QED  BY <2>1, VecSizes
<1>2. size - o <= CopyVec
  BY VecSizes DEF CallInv
<1>. QED
  BY <1>1, <1>2, SmallAtOnceHolds, SmallByHalvesHolds DEF SmallStrncpy

LEMMA StartSmallStrictHolds ==
  ASSUME IInv, StartSmallStrict
  PROVE  IInv' /\ (OffsetWithin => OffsetWithin')
<1>1. CallInv /\ offset \in Nat /\ Ready /\ CopiedUpTo(0)
  BY ReadyToCopy DEF IInv, StartSmallStrict
<1>2. Avx2 /\ routine \in Strncpys /\ size < YMM_SZ /\ SmallStrncpy(0) /\ 0 < size
  BY DEF StartSmallStrict, StrictStrncpy, Avx2, Strncpys, Copying
<1>. QED  BY <1>1, <1>2, SmallHolds, VecSizes DEF CallInv

LEMMA FirstSmallHolds ==
  ASSUME IInv, FirstSmall
  PROVE  IInv' /\ (OffsetWithin => OffsetWithin')
<1>1. CallInv /\ offset \in Nat /\ Ready /\ CopiedUpTo(0)
  BY ReadyToCopy DEF IInv, FirstSmall
<1>2. Avx2 /\ size < YMM_SZ /\ SmallStrncpy(0) /\ 0 < size
  BY <1>1 DEF FirstSmall, Ready
<1>. QED  BY <1>1, <1>2, SmallHolds, VecSizes DEF CallInv

-----------------------------------------------------------------------------
(***************************************************************************)
(* The first vectors.                                                      *)
(***************************************************************************)

\* No offset that strcpy or strcat reaches is near its size.
LEMMA NoSizeReached ==
  ASSUME CallInv, Ready, routine \notin Strncpys
  PROVE  first + 8 * ZMM_SZ <= size
BY DEF CallInv, Ready, StringCopies

\* The n bytes end in front of the string's end.
LEMMA AllBytesHold ==
  ASSUME CallInv, Ready, routine \in Strncpys, offset \in Nat, NEW o, CopiedUpTo(o),
         size <= first, NEW O, O = o .. size - 1, StoreAndReturn(O, {})
  PROVE  IInv'
<1>1. /\ Store(O, {}) /\ Kept /\ pc' = "done" /\ offset' \in Nat /\ at = dst_len
  BY DEF StoreAndReturn, Keep, Kept, Ready
<1>2. Bytes = size /\ Received = size /\ size \in Nat /\ 0 < size /\ o \in Nat
  BY BytesBound DEF CallInv, Bytes, Least, Received, Ready, CopiedUpTo
<1>3. out' = Target
  <2>1. O \cup {} \subseteq 0 .. Received - 1
    BY <1>2
  <2>2. \A i \in o .. Received - 1 : i \in O \cup {}
    BY <1>2
  <2>3. \A i \in O \ {} : i < Bytes \/ i = first
    BY <1>2
  <2>. QED  BY <1>1, <1>2, <2>1, <2>2, <2>3, StoresComplete
<1>. QED  BY <1>1, <1>3, DoneHolds

LEMMA AheadAligned ==
  ASSUME CallInv
  PROVE  Ahead \in 1 .. CopyVec /\ (str1 + Ahead) % CopyVec = 0
<1>1. str1 \in Nat /\ CopyVec \in Nat /\ 0 < CopyVec /\ Lead \in 0 .. CopyVec - 1
  BY VecSizes DEF CallInv, Lead
<1>2. (str1 - Lead) % CopyVec = 0
  BY <1>1, RoundedDown DEF Lead
<1> DEFINE y == str1 - Lead
<1>3. y \in Int /\ y % CopyVec = 0 /\ str1 + Ahead = y + 1 * CopyVec /\ y + 1 * CopyVec \in Int
  BY <1>1, <1>2 DEF Ahead
<1>. HIDE DEF y
<1>4. (str1 + Ahead) % CopyVec = 0
  <2>1. (y + 1 * CopyVec) % CopyVec = 0
    BY <1>1, <1>3, AlignedStep
  <2>. QED  BY <1>3, <2>1
<1>. QED  BY <1>1, <1>4 DEF Ahead

\* A loop goes on at an aligned offset with nothing missing before it.
LEMMA GoingOn ==
  ASSUME CallInv, Ready, Kept, at' = at, offset' \in Nat, 0 < offset',
         pc' \in {"vecs", "groups", "rest"}, pc' = "rest" => routine \in Strncpys,
         CopyVec <= first, CopyVec <= size, (str1 + offset') % CopyVec = 0,
         NEW c, c = Least(offset', size), CopiedUpTo(c)'
  PROVE  IInv'
<1>1. Ready'
  BY CallKept DEF Ready
<1>2. CopiedUpTo(Least(offset, size))'
  <2>1. c = Least(offset, size)'
    BY CallKept DEF Least
  <2>. QED  BY <2>1 DEF CopiedUpTo
<1>3. CallInv' /\ CopyVec' = CopyVec /\ str1' = str1 /\ first' = first /\ size' = size
      /\ routine' = routine
  BY CallKept
<1>. QED  BY <1>1, <1>2, <1>3 DEF IInv, Loops

\* The string ends in the bytes looked at first, near the end of a page.
LEMMA NearEndStops ==
  ASSUME CallInv
  PROVE  LET R == IF Avx2 THEN Vecs(-Lead, 1, YMM_SZ) ELSE Vecs(0, 1, Ahead)
         IN  HasStop(R[1]) <=> first < Ahead
<1>1. /\ Ahead \in 1 .. CopyVec /\ CopyVec \in Nat /\ Lead \in 0 .. CopyVec - 1
      /\ Ahead = CopyVec - Lead /\ first \in Nat
  BY AheadAligned, VecSizes DEF Ahead, Lead, CallInv
<1>2. CASE Avx2
  <2>1. /\ Vecs(-Lead, 1, YMM_SZ)[1] = Reg(-Lead, YMM_SZ)
        /\ HasStop(Reg(-Lead, YMM_SZ)) <=> first < -Lead + YMM_SZ
    BY <1>1, StopInVector, VecSizes
  <2>. QED  BY <1>1, <1>2, <2>1, VecSizes
<1>3. CASE ~Avx2
  <2>1. /\ Vecs(0, 1, Ahead)[1] = Reg(0, Ahead)
        /\ HasStop(Reg(0, Ahead)) <=> first < 0 + Ahead
    BY <1>1, StopInVector
  <2>. QED  BY <1>1, <1>3, <2>1
<1>. QED  BY <1>2, <1>3

LEMMA StartNearEndOfPageHolds ==
  ASSUME IInv, StartNearEndOfPage
  PROVE  IInv'
<1> DEFINE R == IF Avx2 THEN Vecs(-Lead, 1, YMM_SZ) ELSE Vecs(0, 1, Ahead)
<1>1. CallInv /\ offset \in Nat /\ Ready /\ CopiedUpTo(0) /\ 0 < size /\ size \in Nat /\ first \in Nat
  BY ReadyToCopy DEF IInv, StartNearEndOfPage, CallInv, Copying
<1>2. Ahead \in 1 .. CopyVec /\ CopyVec \in Nat
  BY <1>1, AheadAligned, VecSizes
<1>3. HasStop(R[1]) <=> first < Ahead
  BY <1>1, NearEndStops
<1>4. IF HasStop(R[1]) THEN EndFrom(0)
      ELSE IF Avx2 /\ size < YMM_SZ /\ size <= Ahead
        THEN StoreAndReturn(Short(0, size), {})
      ELSE StoreAndGoOn({}, "first", 0)
  BY DEF StartNearEndOfPage
<1>. HIDE DEF R
<1>5. CASE HasStop(R[1])
  BY <1>1, <1>2, <1>3, <1>4, <1>5, EndFromHolds
<1>6. CASE ~HasStop(R[1]) /\ Avx2 /\ size < YMM_SZ /\ size <= Ahead
  <2>1. routine \in Strncpys
    BY <1>1, <1>6, NoSizeReached, VecSizes
  <2>2. Short(0, size) = Block(0, size)
    BY <1>1, <1>2, <1>6, ShortCovers
  <2>3. Block(0, size) = 0 .. size - 1
    BY <1>1 DEF Block
  <2>4. size <= first
    BY <1>1, <1>2, <1>3, <1>6
  <2>. QED  BY <1>1, <1>4, <1>6, <2>1, <2>2, <2>3, <2>4, AllBytesHold
<1>7. CASE ~HasStop(R[1]) /\ ~(Avx2 /\ size < YMM_SZ /\ size <= Ahead)
  <2>1. Store({}, {}) /\ pc' = "first" /\ offset' = 0 /\ Kept /\ at' = at
    BY <1>4, <1>7 DEF StoreAndGoOn, Keep, Kept
  <2>2. CopiedUpTo(0)'
    BY <1>1, <2>1, NothingStored DEF Ready
  <2>3. Ready'
    BY <1>1, <2>1, CallKept DEF Ready
  <2>. QED  BY <1>1, <2>1, <2>2, <2>3, CallKept DEF IInv, Loops
<1>. QED  BY <1>5, <1>6, <1>7

LEMMA FirstVectorHolds ==
  ASSUME IInv, FirstVector
  PROVE  IInv'
<1> DEFINE R == Vecs(0, 1, Least(size, CopyVec))
<1>1. CallInv /\ offset \in Nat /\ Ready /\ CopiedUpTo(0) /\ 0 < size /\ size \in Nat /\ first \in Nat
  BY ReadyToCopy DEF IInv, FirstVector, CallInv, Ready
<1>2. CopyVec \in Nat /\ CopyVec > 0 /\ Least(size, CopyVec) \in Nat
  BY <1>1, VecSizes DEF Least
<1>3. HasStop(R[1]) <=> first < Least(size, CopyVec)
  <2>1. /\ R[1] = Reg(0, Least(size, CopyVec))
        /\ HasStop(Reg(0, Least(size, CopyVec))) <=> first < 0 + Least(size, CopyVec)
    BY <1>1, <1>2, StopInVector
  <2>. QED  BY <1>1, <1>2, <2>1
<1>4. IF HasStop(R[1]) THEN EndFrom(0)
      ELSE IF size < CopyVec THEN StoreAndReturn(Block(0, size), {})
      ELSE StoreAndGoOn(Block(0, CopyVec), "vecs", Ahead)
  BY DEF FirstVector
<1>. HIDE DEF R
<1>5. CASE HasStop(R[1])
  <2>1. first < 0 + CopyVec
    BY <1>1, <1>2, <1>3, <1>5 DEF Least
  <2>. QED  BY <1>1, <1>4, <1>5, <2>1, EndFromHolds
<1>6. CASE ~HasStop(R[1]) /\ size < CopyVec
  <2>1. routine \in Strncpys
    BY <1>1, <1>2, <1>6, NoSizeReached, VecSizes
  <2>2. size <= first
    BY <1>1, <1>2, <1>3, <1>6 DEF Least
  <2>3. Block(0, size) = 0 .. size - 1
    BY <1>1 DEF Block
  <2>. QED  BY <1>1, <1>4, <1>6, <2>1, <2>2, <2>3, AllBytesHold
<1>7. CASE ~HasStop(R[1]) /\ CopyVec <= size
  <2>1. Store(Block(0, CopyVec), {}) /\ pc' = "vecs" /\ offset' = Ahead /\ Kept /\ at' = at
    BY <1>1, <1>2, <1>4, <1>7 DEF StoreAndGoOn, Keep, Kept
  <2>2. CopyVec <= first /\ CopyVec <= Bytes
    BY <1>1, <1>2, <1>3, <1>7 DEF Least, Bytes
  <2>3. Ahead \in 1 .. CopyVec /\ (str1 + Ahead) % CopyVec = 0
    BY <1>1, AheadAligned
  <2>4. PICK c \in Nat : c = Ahead
    BY <1>2, <2>3
  <2>5. PICK h \in Nat : h = CopyVec
    BY <1>2
  <2>6. CopiedUpTo(c)'
    <3>1. Block(0, CopyVec) = Block(0, h - 0) /\ 0 <= h /\ h <= Bytes /\ c <= h /\ 0 < c
      BY <1>2, <2>2, <2>3, <2>4, <2>5
    <3>. QED  BY <1>1, <2>1, <3>1, CopyGoesOn DEF Ready
  <2>7. c = Least(offset', size) /\ offset' \in Nat /\ 0 < offset' /\ (str1 + offset') % CopyVec = 0
    BY <1>1, <1>2, <1>7, <2>1, <2>3, <2>4 DEF Least
  <2>. QED  BY <1>1, <1>7, <2>1, <2>2, <2>6, <2>7, GoingOn
<1>. QED  BY <1>1, <1>2, <1>5, <1>6, <1>7

-----------------------------------------------------------------------------
(***************************************************************************)
(* The loops.                                                              *)
(***************************************************************************)
\* What the loops rely on.
InLoop ==
  /\ CallInv /\ Ready /\ offset \in Nat /\ 0 < offset
  /\ CopyVec <= first /\ CopyVec <= size
  /\ (str1 + offset) % CopyVec = 0
  /\ CopiedUpTo(Least(offset, size))

LEMMA LoopFacts ==
  ASSUME InLoop
  PROVE  /\ size \in Nat /\ first \in Nat /\ CopyVec \in Nat /\ 0 < CopyVec /\ CopyVec <= ZMM_SZ
         /\ Bytes \in Nat /\ Bytes <= first /\ Bytes <= size /\ (Bytes = first \/ Bytes = size)
         /\ at = dst_len
         /\ offset <= size => offset <= first /\ CopiedUpTo(offset)
         /\ size <= offset => size <= first /\ CopiedUpTo(size)
         /\ routine \notin Strncpys => first + 8 * ZMM_SZ <= size
         /\ routine \in Strncpys => Received = size
         /\ routine \notin Strncpys => Received = first + 1
<1>1. CallInv /\ Ready
  BY DEF InLoop
<1>2. /\ size \in Nat /\ first \in Nat /\ CopyVec \in Nat /\ 0 < CopyVec /\ CopyVec <= ZMM_SZ
      /\ Bytes \in Nat /\ Bytes <= first /\ Bytes <= size /\ (Bytes = first \/ Bytes = size)
      /\ at = dst_len /\ offset \in Nat
      /\ routine \notin Strncpys => first + 8 * ZMM_SZ <= size
      /\ routine \in Strncpys => Received = size
      /\ routine \notin Strncpys => Received = first + 1
  BY <1>1, BytesBound, VecSizes, NoSizeReached DEF InLoop, CallInv, Ready, Received
<1>3. Least(offset, size) <= Bytes
  BY <1>2 DEF InLoop, CopiedUpTo, Least
<1>4. offset <= size => Least(offset, size) = offset
  BY <1>2 DEF Least
<1>5. size <= offset => Least(offset, size) = size
  BY <1>2 DEF Least
<1>6. offset <= size => CopiedUpTo(offset)
  BY <1>4 DEF InLoop
<1>7. size <= offset => CopiedUpTo(size)
  BY <1>5 DEF InLoop
<1>8. (offset <= size => offset <= first) /\ (size <= offset => size <= first)
  BY <1>2, <1>3, <1>4, <1>5
<1>. QED  BY <1>2, <1>6, <1>7, <1>8

LEMMA StayAligned ==
  ASSUME CallInv, NEW o \in Int, NEW k \in Int, (str1 + o) % CopyVec = 0
  PROVE  (str1 + (o + k * CopyVec)) % CopyVec = 0
<1>1. str1 + o \in Int /\ CopyVec \in Nat /\ CopyVec > 0 /\ str1 \in Int
  BY VecSizes DEF CallInv
<1>2. PICK x \in Int : x = str1 + o
  BY <1>1
<1>3. PICK y \in Int : y = x + k * CopyVec
  BY <1>1, <1>2
<1>4. y % CopyVec = 0
  BY <1>1, <1>2, <1>3, AlignedStep, SMTT(30)
<1>5. str1 + (o + k * CopyVec) = y
  BY <1>1, <1>2, <1>3
<1>. QED  BY <1>4, <1>5

\* The bytes up to h are copied, where the loop goes on or the n bytes end.
LEMMA LoopGoesOn ==
  ASSUME InLoop, NEW h \in Nat, offset < size, offset <= h, h <= Bytes,
         NEW O, O = Block(offset, h - offset), StoreAndGoOn(O, pc', offset'),
         NEW k \in Nat, offset' = offset + k * CopyVec,
         h = offset' \/ (h = size /\ size <= offset'),
         pc' \in {"vecs", "groups", "rest"}, pc' = "rest" => routine \in Strncpys
  PROVE  IInv'
<1>1. CallInv /\ Ready /\ CopyVec <= first /\ CopyVec <= size /\ 0 < offset /\ offset \in Nat
      /\ (str1 + offset) % CopyVec = 0
  BY DEF InLoop
<1>2. Kept /\ at' = at /\ Store(O, {})
  BY DEF StoreAndGoOn, Keep, Kept
<1>3. CopiedUpTo(offset) /\ at = dst_len /\ size \in Nat /\ CopyVec \in Nat
  BY <1>1, LoopFacts DEF CallInv
<1>4. PICK a \in Nat : a = offset
  BY <1>1
<1>5. CopiedUpTo(h)'
  <2>1. CopiedUpTo(a) /\ O = Block(a, h - a) /\ a <= h /\ 0 < a
    BY <1>1, <1>3, <1>4
  <2>. QED  BY <1>1, <1>2, <1>3, <2>1, CopyGoesOn
<1>6. offset' \in Nat /\ 0 < offset'
  <2>1. k * CopyVec \in Nat
    BY <1>3
  <2>. QED  BY <1>1, <2>1
<1>7. h = Least(offset', size)
  <2>1. h <= size
    BY <1>1, <1>3, BytesBound
  <2>. QED  BY <1>3, <1>6, <2>1 DEF Least
<1>8. (str1 + offset') % CopyVec = 0
  BY <1>1, StayAligned
<1>. QED  BY <1>1, <1>2, <1>5, <1>6, <1>7, <1>8, GoingOn

\* Nothing is stored where the next loop begins.
LEMMA NextLoop ==
  ASSUME InLoop, StoreAndGoOn({}, pc', offset),
         pc' \in {"groups", "rest"}, pc' = "rest" => routine \in Strncpys
  PROVE  IInv'
<1>1. CallInv /\ Ready /\ CopyVec <= first /\ CopyVec <= size /\ 0 < offset /\ offset \in Nat
      /\ (str1 + offset) % CopyVec = 0 /\ CopiedUpTo(Least(offset, size)) /\ at = dst_len
  BY LoopFacts DEF InLoop
<1>2. Kept /\ at' = at /\ Store({}, {}) /\ offset' = offset
  BY DEF StoreAndGoOn, Keep, Kept
<1>3. PICK c : c = Least(offset, size)
  OBVIOUS
<1>4. CopiedUpTo(c)
  BY <1>1, <1>3
<1>5. CopiedUpTo(c)'
  BY <1>1, <1>2, <1>4, NothingStored
<1>6. c = Least(offset', size)
  BY <1>2, <1>3
<1>. QED  BY <1>1, <1>2, <1>5, <1>6, GoingOn

LEMMA VectorHolds ==
  ASSUME IInv, Vector
  PROVE  IInv'
<1> DEFINE R == Vecs(offset, 1, CopyVec)
<1>1. InLoop /\ pc = "vecs" /\ offset < size
  BY DEF IInv, Vector, InLoop
<1>2. /\ size \in Nat /\ first \in Nat /\ CopyVec \in Nat /\ 0 < CopyVec /\ offset \in Nat
      /\ CopyVec <= ZMM_SZ /\ ZMM_SZ \in Nat
      /\ CallInv /\ Ready /\ CopiedUpTo(offset) /\ offset <= first /\ CopyVec <= first
      /\ Bytes \in Nat /\ (Bytes = first \/ Bytes = size)
      /\ routine \notin Strncpys => first + 8 * ZMM_SZ <= size /\ Received = first + 1
  BY <1>1, LoopFacts, VecSizes DEF InLoop
<1>3. HasStop(R[1]) <=> first < offset + CopyVec
  BY <1>2, StopInVector
<1>4. IF HasStop(R[1])
        THEN IF EndsOverlapping THEN StoreEnd(Overlapping, first + 1) ELSE EndFrom(offset)
      ELSE IF size - offset < CopyVec
        THEN IF Avx2 THEN StoreAndReturn(Short(offset, size - offset), {})
             ELSE StoreAndGoOn(Short(offset, size - offset), pc, offset + CopyVec)
      ELSE StoreAndGoOn(Block(offset, CopyVec), pc, offset + CopyVec)
  BY DEF Vector
<1>. HIDE DEF R
<1>5. CASE HasStop(R[1]) /\ EndsOverlapping
  <2>1. routine \notin Strncpys
    BY <1>5 DEF EndsOverlapping, Strcpys, Strcats, Strncpys
  <2> DEFINE O == Overlapping
             end == first + 1
  <2>2. O = first + 1 - CopyVec .. first
    BY <1>2 DEF Overlapping, Block
  <2>3. O \subseteq 0 .. Received - 1
    BY <1>2, <2>1, <2>2
  <2>4. \A i \in O : i < end + 4 * CopyVec
    BY <1>2, <2>2
  <2>5. PICK a \in Nat : a = offset
    BY <1>2
  <2>6. \A i \in a .. end - 1 : i < Received => i \in O
    BY <1>2, <1>3, <1>5, <2>2, <2>5
  <2>7. StoreEnd(O, end) /\ CopiedUpTo(a) /\ end = first + 1
    BY <1>2, <1>4, <1>5, <2>5
  <2>. HIDE DEF O, end
  <2>. QED  BY <1>2, <2>3, <2>4, <2>6, <2>7, StoreEndHolds
<1>6. CASE HasStop(R[1]) /\ ~EndsOverlapping
  <2>1. PICK a \in Nat : a = offset
    BY <1>2
  <2>2. EndFrom(a) /\ CopiedUpTo(a) /\ a < size /\ first < a + CopyVec
    BY <1>1, <1>2, <1>3, <1>4, <1>6, <2>1
  <2>. QED  BY <1>2, <2>2, EndFromHolds
<1>7. CASE ~HasStop(R[1]) /\ size - offset < CopyVec
  <2>1. offset + CopyVec <= first /\ size <= first /\ Bytes = size /\ routine \in Strncpys
    BY <1>1, <1>2, <1>3, <1>7, BytesBound
  <2>2. Short(offset, size - offset) = Block(offset, size - offset)
    BY <1>1, <1>2, <1>7, ShortCovers
  <2>3. CASE Avx2
    <3>1. StoreAndReturn(Block(offset, size - offset), {})
      BY <1>4, <1>7, <2>2, <2>3
    <3>2. Block(offset, size - offset) = offset .. size - 1
      BY <1>2 DEF Block
    <3>3. PICK a \in Nat : a = offset
      BY <1>2
    <3>. QED  BY <1>2, <2>1, <3>1, <3>2, <3>3, AllBytesHold
  <2>4. CASE ~Avx2
    <3>1. StoreAndGoOn(Block(offset, size - offset), pc', offset') /\ pc' = "vecs"
          /\ offset' = offset + 1 * CopyVec
      BY <1>1, <1>2, <1>4, <1>7, <2>2, <2>4 DEF StoreAndGoOn
    <3>2. PICK h \in Nat : h = size
      BY <1>2
    <3>3. /\ Block(offset, size - offset) = Block(offset, h - offset)
          /\ offset <= h /\ h <= Bytes /\ h = size /\ size <= offset'
      BY <1>1, <1>2, <1>7, <2>1, <3>1, <3>2
    <3>. QED  BY <1>1, <3>1, <3>3, LoopGoesOn
  <2>. QED  BY <2>3, <2>4
<1>8. CASE ~HasStop(R[1]) /\ CopyVec <= size - offset
  <2>1. StoreAndGoOn(Block(offset, CopyVec), pc', offset') /\ pc' = "vecs"
        /\ offset' = offset + 1 * CopyVec
    BY <1>1, <1>2, <1>4, <1>8 DEF StoreAndGoOn
  <2>2. PICK h \in Nat : h = offset + CopyVec
    BY <1>2
  <2>3. /\ Block(offset, CopyVec) = Block(offset, h - offset)
        /\ offset <= h /\ h <= Bytes /\ h = offset'
    BY <1>1, <1>2, <1>3, <1>8, <2>1, <2>2
  <2>. QED  BY <1>1, <2>1, <2>3, LoopGoesOn
<1>. QED  BY <1>2, <1>5, <1>6, <1>7, <1>8

LEMMA LeaveVectorsHolds ==
  ASSUME IInv, LeaveVectors
  PROVE  IInv'
<1>1. InLoop /\ StoreAndGoOn({}, pc', offset) /\ pc' = "groups"
  BY DEF IInv, LeaveVectors, InLoop, StoreAndGoOn
<1>. QED  BY <1>1, NextLoop

LEMMA LeaveGroupsHolds ==
  ASSUME IInv, LeaveGroups
  PROVE  IInv'
<1>1. InLoop /\ StoreAndGoOn({}, pc', offset) /\ pc' = "rest" /\ size < offset + 4 * CopyVec
  BY DEF IInv, LeaveGroups, InLoop, StoreAndGoOn
<1>2. routine \in Strncpys
  <2>. SUFFICES ASSUME routine \notin Strncpys  PROVE FALSE
    OBVIOUS
  <2>1. /\ size \in Nat /\ first \in Nat /\ CopyVec \in Nat /\ CopyVec <= ZMM_SZ
        /\ first + 8 * ZMM_SZ <= size /\ offset \in Nat /\ ZMM_SZ \in Nat /\ 0 < CopyVec
        /\ (offset <= first \/ size <= first)
    BY <1>1, LoopFacts, VecSizes DEF InLoop
  <2>. QED  BY <1>1, <2>1
<1>. QED  BY <1>1, <1>2, NextLoop

\* A group of four vectors at o, and the stops in it.
LEMMA GroupStops ==
  ASSUME CallInv, NEW o \in Nat, o <= first, NEW i, i = FirstHit(Vecs(o, 4, CopyVec))
  PROVE  /\ i \in 0 .. 4
         /\ i = 0 => o + 4 * CopyVec <= first
         /\ i = 1 => first < o + CopyVec
         /\ i = 2 => o + CopyVec <= first /\ first < o + 2 * CopyVec
         /\ i = 3 => o + 2 * CopyVec <= first /\ first < o + 3 * CopyVec
         /\ i = 4 => o + 3 * CopyVec <= first /\ first < o + 4 * CopyVec
<1> DEFINE R == Vecs(o, 4, CopyVec)
<1>1. /\ first \in Nat /\ last \in Nat /\ first <= last
      /\ CopyVec \in Nat /\ 0 < CopyVec
  BY VecSizes DEF CallInv
<1>2. /\ R[1] = [at |-> o, len |-> CopyVec]
      /\ R[2] = [at |-> o + CopyVec, len |-> CopyVec]
      /\ R[3] = [at |-> o + 2 * CopyVec, len |-> CopyVec]
      /\ R[4] = [at |-> o + 3 * CopyVec, len |-> CopyVec]
      /\ DOMAIN R = 1 .. 4
  BY <1>1 DEF Vecs, Reg
<1>3. R \in Seq([at : Int, len : Int]) /\ Len(R) = 4
  <2>1. R = [j \in 1 .. 4 |-> R[j]]
    BY <1>1 DEF Vecs
  <2>2. \A j \in 1 .. 4 : R[j] \in [at : Int, len : Int]
    BY <1>1, <1>2
  <2>. HIDE DEF R
  <2>3. R \in [1 .. 4 -> [at : Int, len : Int]]
    BY <2>1, <2>2
  <2>. QED  BY <2>3, SeqOfLength, ZenonT(40)
<1>. HIDE DEF R
<1>4. /\ i \in 0 .. 4
      /\ i # 0 => HasStop(R[i])
      /\ \A j \in 1 .. (IF i = 0 THEN 4 ELSE i - 1) : ~HasStop(R[j])
  BY <1>3, FirstHitIsFirst DEF R
<1>5. /\ HasStop(R[1]) <=> o <= last /\ first < o + CopyVec
      /\ HasStop(R[2]) <=> o + CopyVec <= last /\ first < o + 2 * CopyVec
      /\ HasStop(R[3]) <=> o + 2 * CopyVec <= last /\ first < o + 3 * CopyVec
      /\ HasStop(R[4]) <=> o + 3 * CopyVec <= last /\ first < o + 4 * CopyVec
  BY <1>1, <1>2 DEF HasStop
<1>6. CASE i = 0
  <2>1. ~HasStop(R[1]) /\ ~HasStop(R[2]) /\ ~HasStop(R[3]) /\ ~HasStop(R[4])
    BY <1>4, <1>6
  <2>. QED  BY <1>1, <1>5, <1>6, <2>1
<1>7. CASE i = 1
  BY <1>1, <1>4, <1>5, <1>7
<1>8. CASE i = 2
  <2>1. ~HasStop(R[1]) /\ HasStop(R[2])
    BY <1>4, <1>8
  <2>. QED  BY <1>1, <1>5, <1>8, <2>1
<1>9. CASE i = 3
  <2>1. ~HasStop(R[1]) /\ ~HasStop(R[2]) /\ HasStop(R[3])
    BY <1>4, <1>9
  <2>. QED  BY <1>1, <1>5, <1>9, <2>1
<1>10. CASE i = 4
  <2>1. ~HasStop(R[1]) /\ ~HasStop(R[2]) /\ ~HasStop(R[3]) /\ HasStop(R[4])
    BY <1>4, <1>10
  <2>. QED  BY <1>1, <1>5, <1>10, <2>1
<1>. QED  BY <1>4, <1>6, <1>7, <1>8, <1>9, <1>10

LEMMA GroupHolds ==
  ASSUME IInv, Group
  PROVE  IInv'
<1>1. InLoop /\ pc = "groups" /\ offset + 4 * CopyVec <= size
  BY DEF IInv, Group, InLoop
<1>2. /\ size \in Nat /\ first \in Nat /\ CopyVec \in Nat /\ 0 < CopyVec /\ offset \in Nat
      /\ CallInv /\ Ready /\ CopyVec <= first
      /\ Bytes \in Nat /\ (Bytes = first \/ Bytes = size)
      /\ routine \notin Strncpys => Received = first + 1
  BY <1>1, LoopFacts DEF InLoop
<1>3. offset < size /\ CopiedUpTo(offset) /\ offset <= first
  BY <1>1, <1>2, LoopFacts
<1>4. PICK i : i = FirstHit(Vecs(offset, 4, CopyVec))
  OBVIOUS
<1>5. /\ i \in 0 .. 4
      /\ i = 0 => offset + 4 * CopyVec <= first
      /\ i = 1 => first < offset + CopyVec
      /\ i = 2 => offset + CopyVec <= first /\ first < offset + 2 * CopyVec
      /\ i = 3 => offset + 2 * CopyVec <= first /\ first < offset + 3 * CopyVec
      /\ i = 4 => offset + 3 * CopyVec <= first /\ first < offset + 4 * CopyVec
  BY <1>2, <1>3, <1>4, GroupStops
<1>6. IF i = 0 THEN StoreAndGoOn(Block(offset, 4 * CopyVec), pc, offset + 4 * CopyVec)
      ELSE IF routine \in Strncpys THEN StoreAndGoOn({}, "rest", offset)
      ELSE StoreEnd(Block(offset, (i - 1) * CopyVec) \cup Overlapping, first + 1)
  BY <1>4 DEF Group
<1>7. CASE i = 0
  <2>1. StoreAndGoOn(Block(offset, 4 * CopyVec), pc', offset') /\ pc' = "groups"
        /\ offset' = offset + 4 * CopyVec
    BY <1>1, <1>6, <1>7 DEF StoreAndGoOn
  <2>2. PICK h \in Nat : h = offset + 4 * CopyVec
    BY <1>2
  <2>3. /\ Block(offset, 4 * CopyVec) = Block(offset, h - offset)
        /\ offset <= h /\ h <= Bytes /\ h = offset'
    BY <1>1, <1>2, <1>5, <1>7, <2>1, <2>2
  <2>. QED  BY <1>1, <1>3, <2>1, <2>3, LoopGoesOn
<1>8. CASE i # 0 /\ routine \in Strncpys
  <2>1. StoreAndGoOn({}, pc', offset) /\ pc' = "rest"
    BY <1>6, <1>8 DEF StoreAndGoOn
  <2>. QED  BY <1>1, <1>8, <2>1, NextLoop
<1>9. CASE i # 0 /\ routine \notin Strncpys
  <2> DEFINE O == Block(offset, (i - 1) * CopyVec) \cup Overlapping
             end == first + 1
  <2>1. PICK m \in Nat : /\ m = (i - 1) * CopyVec
                         /\ offset + m <= first /\ first < offset + m + CopyVec
    <3>1. CASE i = 1
      <4>1. (i - 1) * CopyVec = 0
        BY <1>2, <3>1
      <4>. QED  BY <1>2, <1>3, <1>5, <3>1, <4>1
    <3>2. CASE i = 2
      BY <1>2, <1>5, <3>2
    <3>3. CASE i = 3
      BY <1>2, <1>5, <3>3
    <3>4. CASE i = 4
      BY <1>2, <1>5, <3>4
    <3>. QED  BY <1>5, <1>9, <3>1, <3>2, <3>3, <3>4
  <2>2. O = (offset .. offset + m - 1) \cup (first + 1 - CopyVec .. first)
    <3>1. Block(offset, m) = offset .. offset + m - 1
      BY DEF Block
    <3>2. Overlapping = first + 1 - CopyVec .. first
      BY <1>2 DEF Overlapping, Block
    <3>. QED  BY <2>1, <3>1, <3>2
  <2>3. O \subseteq 0 .. Received - 1
    BY <1>2, <1>9, <2>1, <2>2
  <2>4. \A j \in O : j < end + 4 * CopyVec
    BY <1>2, <2>1, <2>2
  <2>5. PICK a \in Nat : a = offset
    BY <1>2
  <2>6. \A j \in a .. end - 1 : j < Received => j \in O
    BY <1>2, <2>1, <2>2, <2>5
  <2>7. StoreEnd(O, end) /\ CopiedUpTo(a) /\ end = first + 1
    BY <1>3, <1>6, <1>9, <2>5
  <2>. HIDE DEF O, end
  <2>. QED  BY <1>2, <2>3, <2>4, <2>6, <2>7, StoreEndHolds
<1>. QED  BY <1>7, <1>8, <1>9

LEMMA RestVectorHolds ==
  ASSUME IInv, RestVector
  PROVE  IInv'
<1> DEFINE R == Vecs(offset, 1, CopyVec)
<1>1. InLoop /\ pc = "rest" /\ offset + CopyVec <= size /\ routine \in Strncpys
  BY DEF IInv, RestVector, InLoop
<1>2. /\ size \in Nat /\ first \in Nat /\ CopyVec \in Nat /\ 0 < CopyVec /\ offset \in Nat
      /\ CallInv /\ Ready /\ Received = size
      /\ Bytes \in Nat /\ (Bytes = first \/ Bytes = size)
  BY <1>1, LoopFacts DEF InLoop
<1>3. offset < size /\ CopiedUpTo(offset) /\ offset <= first
  BY <1>1, <1>2, LoopFacts
<1>4. HasStop(R[1]) <=> first < offset + CopyVec
  BY <1>2, <1>3, StopInVector
<1>5. IF ~HasStop(R[1]) THEN StoreAndGoOn(Block(offset, CopyVec), pc, offset + CopyVec)
      ELSE IF Avx2 THEN StoreEnd(Block(offset, CopyVec), first + 1)
      ELSE EndFrom(offset)
  BY DEF RestVector
<1>. HIDE DEF R
<1>6. CASE ~HasStop(R[1])
  <2>1. StoreAndGoOn(Block(offset, CopyVec), pc', offset') /\ pc' = "rest"
        /\ offset' = offset + 1 * CopyVec
    BY <1>1, <1>2, <1>5, <1>6 DEF StoreAndGoOn
  <2>2. PICK h \in Nat : h = offset + CopyVec
    BY <1>2
  <2>3. /\ Block(offset, CopyVec) = Block(offset, h - offset)
        /\ offset <= h /\ h <= Bytes /\ h = offset'
    BY <1>1, <1>2, <1>4, <1>6, <2>1, <2>2
  <2>. QED  BY <1>1, <1>3, <2>1, <2>3, LoopGoesOn
<1>7. CASE HasStop(R[1]) /\ Avx2
  <2> DEFINE O == Block(offset, CopyVec)
             end == first + 1
  <2>1. O = offset .. offset + CopyVec - 1
    BY DEF Block
  <2>2. O \subseteq 0 .. Received - 1
    BY <1>1, <1>2, <2>1
  <2>3. \A j \in O : j < end + 4 * CopyVec
    BY <1>2, <1>3, <2>1
  <2>4. PICK a \in Nat : a = offset
    BY <1>2
  <2>5. \A j \in a .. end - 1 : j < Received => j \in O
    BY <1>2, <1>4, <1>7, <2>1, <2>4
  <2>6. StoreEnd(O, end) /\ CopiedUpTo(a) /\ end = first + 1
    BY <1>3, <1>5, <1>7, <2>4
  <2>. HIDE DEF O, end
  <2>. QED  BY <1>2, <2>2, <2>3, <2>5, <2>6, StoreEndHolds
<1>8. CASE HasStop(R[1]) /\ ~Avx2
  <2>1. PICK a \in Nat : a = offset
    BY <1>2
  <2>2. EndFrom(a) /\ CopiedUpTo(a) /\ a < size /\ first < a + CopyVec
    BY <1>3, <1>4, <1>5, <1>8, <2>1
  <2>. QED  BY <1>2, <2>2, EndFromHolds
<1>. QED  BY <1>6, <1>7, <1>8

LEMMA RestSmallHolds ==
  ASSUME IInv, RestSmall
  PROVE  IInv'
<1> DEFINE R == Vecs(offset, 1, size - offset)
<1>1. InLoop /\ pc = "rest" /\ offset < size /\ size < offset + CopyVec /\ routine \in Strncpys
  BY DEF IInv, RestSmall, InLoop
<1>2. /\ size \in Nat /\ first \in Nat /\ CopyVec \in Nat /\ 0 < CopyVec /\ offset \in Nat
      /\ CallInv /\ Ready
      /\ Bytes \in Nat /\ (Bytes = first \/ Bytes = size)
  BY <1>1, LoopFacts DEF InLoop
<1>3. CopiedUpTo(offset) /\ offset <= first
  BY <1>1, <1>2, LoopFacts
<1>4. PICK a \in Nat : a = offset
  BY <1>2
<1>5. CASE Avx2
  <2>1. SmallStrncpy(a)
    BY <1>4, <1>5 DEF RestSmall
  <2>2. CopiedUpTo(a) /\ a < size /\ size - a < YMM_SZ
    BY <1>1, <1>2, <1>3, <1>4, <1>5, VecSizes
  <2>. QED  BY <1>1, <1>2, <1>5, <2>1, <2>2, SmallHolds
<1>6. CASE ~Avx2
  <2>1. HasStop(R[1]) <=> first < size
    <3>1. size - offset \in Int /\ offset + (size - offset) = size
      BY <1>2
    <3>2. /\ R[1] = Reg(offset, size - offset)
          /\ HasStop(Reg(offset, size - offset)) <=> first < offset + (size - offset)
      BY <1>2, <1>3, <3>1, StopInVector
    <3>. QED  BY <3>1, <3>2
  <2>2. IF HasStop(R[1]) THEN EndFrom(offset)
        ELSE StoreAndGoOn(Block(offset, size - offset), pc, offset + CopyVec)
    BY <1>6 DEF RestSmall
  <2>. HIDE DEF R
  <2>3. CASE HasStop(R[1])
    <3>1. EndFrom(a) /\ CopiedUpTo(a) /\ a < size /\ first < a + CopyVec
      BY <1>1, <1>2, <1>3, <1>4, <2>1, <2>2, <2>3
    <3>. QED  BY <1>2, <3>1, EndFromHolds
  <2>4. CASE ~HasStop(R[1])
    <3>1. StoreAndGoOn(Block(offset, size - offset), pc', offset') /\ pc' = "rest"
          /\ offset' = offset + 1 * CopyVec
      BY <1>1, <1>2, <2>2, <2>4 DEF StoreAndGoOn
    <3>2. PICK h \in Nat : h = size
      BY <1>2
    <3>3. /\ Block(offset, size - offset) = Block(offset, h - offset)
          /\ offset <= h /\ h <= Bytes /\ h = size /\ size <= offset'
      BY <1>1, <1>2, <2>1, <2>4, <3>1, <3>2
    <3>. QED  BY <1>1, <3>1, <3>3, LoopGoesOn
  <2>. QED  BY <2>3, <2>4
<1>. QED  BY <1>5, <1>6

LEMMA NothingRestsHolds ==
  ASSUME IInv, NothingRests
  PROVE  IInv'
<1>1. InLoop /\ pc = "rest" /\ size <= offset /\ routine \in Strncpys /\ StoreAndReturn({}, {})
  BY DEF IInv, NothingRests, InLoop
<1>2. CallInv /\ Ready /\ offset \in Nat /\ size \in Nat /\ CopiedUpTo(size) /\ size <= first
  BY <1>1, LoopFacts DEF InLoop
<1>3. PICK a \in Nat : a = size
  BY <1>2
<1>4. {} = a .. size - 1 /\ CopiedUpTo(a)
  BY <1>2, <1>3
<1>. QED  BY <1>1, <1>2, <1>4, AllBytesHold

-----------------------------------------------------------------------------
(***************************************************************************)
(* The padding's loop.                                                     *)
(***************************************************************************)
LEMMA PadHolds ==
  ASSUME IInv, Pad
  PROVE  IInv'
<1>1. /\ CallInv /\ Padded /\ offset \in Nat /\ size \in Nat /\ first \in Nat /\ str2 \in Nat
      /\ CopyVec \in Nat /\ 0 < CopyVec /\ dst_len \in Nat
  BY VecSizes DEF IInv, Pad, CallInv
<1>2. dst_len = 0 /\ at = 0 /\ Received = size /\ Bytes \in Nat /\ Bytes <= first
  BY <1>1, BytesBound DEF CallInv, Padded, Received, Appends, Strncpys, Strcats, Strncats
<1>3. Target = [ i \in 0 .. size - 1 |-> IF i < Bytes THEN i ELSE Nul ]
  BY <1>1, <1>2, TargetIs
<1>4. CASE offset < size - 4 * CopyVec
  <2> DEFINE Z == Block(offset, 4 * CopyVec)
  <2>1. Store({}, Z) /\ offset' = offset + 4 * CopyVec /\ pc' = "pad" /\ at' = at /\ Kept
    BY <1>4 DEF Pad, Keep, Kept
  <2>2. Z = offset .. offset + 4 * CopyVec - 1
    BY DEF Block
  <2>. HIDE DEF Z
  <2>3. /\ DOMAIN out' = DOMAIN out \cup { 0 + i : i \in Z }
        /\ \A i \in DOMAIN out' : out'[i] = IF i - 0 \in Z THEN Nul ELSE out[i]
    BY <1>2, <2>1 DEF Store
  <2>4. DOMAIN out' = DOMAIN out \cup Z
    BY <1>1, <2>2, <2>3
  <2>5. ASSUME NEW i \in DOMAIN out'  PROVE i \in 0 .. size - 1 /\ out'[i] = Target[i]
    <3>1. i \in 0 .. size - 1
      BY <1>1, <1>4, <2>2, <2>4 DEF Padded
    <3>2. CASE i \in Z
      BY <1>1, <1>2, <1>3, <2>2, <2>3, <3>1, <3>2 DEF Padded
    <3>3. CASE i \notin Z
      BY <1>1, <2>3, <2>4, <3>1, <3>3 DEF Padded
    <3>. QED  BY <3>1, <3>2, <3>3
  <2>6. ASSUME NEW i \in 0 .. size - 1, i < offset' \/ size - 4 * CopyVec <= i
        PROVE  i \in DOMAIN out'
    <3>1. i < offset \/ size - 4 * CopyVec <= i \/ i \in Z
      BY <1>1, <2>1, <2>2, <2>6
    <3>. QED  BY <1>1, <2>4, <3>1 DEF Padded
  <2>7. (str2 + at + offset') % CopyVec = 0
    <3>1. PICK x \in Int : x = str2 + at + offset
      BY <1>1, <1>2
    <3>2. PICK y \in Int : y = x + 4 * CopyVec
      BY <1>1
    <3>3. y % CopyVec = 0
      BY <1>1, <3>1, <3>2, AlignedStep DEF Padded
    <3>4. str2 + at + offset' = y
      BY <1>1, <1>2, <2>1, <3>1, <3>2
    <3>. QED  BY <3>3, <3>4
  <2>8. offset' \in Nat /\ first < offset' /\ routine \in Strncpys
    BY <1>1, <2>1 DEF Padded
  <2>9. Padded'
    BY <1>1, <1>2, <2>1, <2>5, <2>6, <2>7, <2>8, CallKept DEF Padded
  <2>. QED  BY <1>1, <2>1, <2>8, <2>9, CallKept DEF IInv, Loops
<1>5. CASE size - 4 * CopyVec <= offset
  <2>1. Store({}, {}) /\ offset' = offset /\ pc' = "done" /\ Kept
    BY <1>1, <1>5 DEF Pad, StoreAndReturn, Keep, Kept
  <2>2. DOMAIN out = 0 .. size - 1
    <3>1. ASSUME NEW i \in 0 .. size - 1  PROVE i \in DOMAIN out
      <4>1. i < offset \/ size - 4 * CopyVec <= i
        BY <1>1, <1>5
      <4>. QED  BY <1>1, <4>1 DEF Padded
    <3>. QED  BY <1>1, <3>1 DEF Padded
  <2>3. out' = [ i \in 0 .. size - 1 |-> out[i] ]
    BY <2>1, <2>2 DEF Store
  <2>4. \A i \in 0 .. size - 1 : out[i] = Target[i]
    BY <1>1, <2>2 DEF Padded
  <2>5. out' = Target
    BY <1>3, <2>3, <2>4
  <2>. QED  BY <1>1, <2>1, <2>5, DoneHolds
<1>. QED  BY <1>1, <1>4, <1>5

-----------------------------------------------------------------------------
(***************************************************************************)
(* The specification.                                                      *)
(***************************************************************************)
LEMMA InitHolds ==
  ASSUME StringInit
  PROVE  IInv
<1>1. PICK c \in CallSets :
        /\ routine \in c.routines
        /\ \E s \in c.starts : str1 = s[1] /\ str2 = s[2]
        /\ size \in c.sizes
        /\ first \in c.firsts
        /\ \E gap \in c.gaps : last = first + gap
  BY DEF StringInit, Init
<1>2. /\ c.routines \subseteq StringCopies
      /\ c.starts \subseteq Nat \X Nat
      /\ c.firsts \subseteq Nat /\ c.gaps \subseteq Nat
      /\ c.sizes \subseteq 0 .. SizeSpan - 1
      /\ c.routines \cap (Strcpys \cup Strcats) # {} =>
           \A s \in c.sizes, f \in c.firsts : f + 8 * ZMM_SZ <= s
  BY CallsAssumption, SpanAssumption
<1>3. str1 \in Nat /\ str2 \in Nat
  BY <1>1, <1>2
<1>4. size \in Nat /\ first \in Nat /\ last \in Nat /\ first <= last
  BY <1>1, <1>2
<1>5. routine \in StringCopies
  BY <1>1, <1>2
<1>6. routine \in Strcpys \cup Strcats => first + 8 * ZMM_SZ <= size
  BY <1>1, <1>2
<1>7. /\ dst_len \in Nat /\ (~Appends => dst_len = 0)
      /\ at = 0 /\ out = IF Appends THEN Held(dst_len) ELSE << >>
  <2>1. /\ at = 0
        /\ IF Appends THEN dst_len \in DstLens /\ out = Held(dst_len)
           ELSE dst_len = 0 /\ out = << >>
    BY DEF StringInit, Appends
  <2>2. CASE Appends
    BY <2>1, <2>2, DstLensAssumption
  <2>3. CASE ~Appends
    BY <2>1, <2>3
  <2>. QED  BY <2>2, <2>3
<1>8. pc = "start" /\ offset = 0
  BY DEF StringInit, Init
<1>9. CallInv
  BY <1>3, <1>4, <1>5, <1>6, <1>7 DEF CallInv
<1>. QED  BY <1>7, <1>8, <1>9 DEF IInv

LEMMA StepHolds ==
  ASSUME IInv, [Next]_stringVars
  PROVE  IInv'
<1>1. CASE CopyNothing         BY <1>1, CopyNothingHolds
<1>2. CASE StartStrcat         BY <1>2, StartStrcatHolds
<1>3. CASE StartStrncat        BY <1>3, StartStrncatHolds
<1>4. CASE AppendBytes         BY <1>4, AppendBytesHolds
<1>5. CASE Terminate           BY <1>5, TerminateHolds
<1>6. CASE StartSmallStrict    BY <1>6, StartSmallStrictHolds
<1>7. CASE StartNearEndOfPage  BY <1>7, StartNearEndOfPageHolds
<1>8. CASE FirstSmall          BY <1>8, FirstSmallHolds
<1>9. CASE FirstVector         BY <1>9, FirstVectorHolds
<1>10. CASE Vector             BY <1>10, VectorHolds
<1>11. CASE LeaveVectors       BY <1>11, LeaveVectorsHolds
<1>12. CASE Group              BY <1>12, GroupHolds
<1>13. CASE LeaveGroups        BY <1>13, LeaveGroupsHolds
<1>14. CASE RestVector         BY <1>14, RestVectorHolds
<1>15. CASE RestSmall          BY <1>15, RestSmallHolds
<1>16. CASE NothingRests       BY <1>16, NothingRestsHolds
<1>17. CASE Pad                BY <1>17, PadHolds
<1>18. CASE UNCHANGED stringVars
  <2>1. Kept /\ pc' = pc /\ offset' = offset /\ at' = at /\ out' = out
    BY <1>18 DEF stringVars, vars, Kept
  <2>2. \A o : CopiedUpTo(o) => CopiedUpTo(o)'
    BY <2>1, CallKept DEF CopiedUpTo, IInv
  <2>. QED
    BY <2>1, <2>2, CallKept DEF IInv, Ready, Padded, Held, Appends, Least, CopiedUpTo
<1>. QED
  BY <1>1, <1>2, <1>3, <1>4, <1>5, <1>6, <1>7, <1>8, <1>9, <1>10, <1>11, <1>12, <1>13,
     <1>14, <1>15, <1>16, <1>17, <1>18
  DEF Next, StepStringCopy, Returned

\* The invariant of the string copies holds in every reachable state.
THEOREM StringInvariance == Spec => []IInv
<1>1. StringInit => IInv
  BY InitHolds
<1>2. IInv /\ [Next]_stringVars => IInv'
  BY StepHolds
<1>. QED  BY <1>1, <1>2, PTL DEF Spec

\* Where a loop goes on, exactly the bytes in front of its offset have been copied
\* and the string does not end in them: for every string, bound, alignment and
\* register size.
THEOREM LoopsHaveCopied == Spec => []CopiedSoFar
<1>1. IInv => CopiedSoFar
  <2>. SUFFICES ASSUME IInv, pc \in {"vecs", "groups", "rest"}
                PROVE  LET copied == Least(offset, size)
                       IN  /\ copied <= first
                           /\ \A i \in DOMAIN out :
                                out[i] = IF i < dst_len THEN Old ELSE i - dst_len
                           /\ dst_len .. dst_len + copied - 1 \subseteq DOMAIN out
    BY DEF CopiedSoFar
  <2>1. InLoop
    BY DEF IInv, InLoop
  <2>2. PICK c : c = Least(offset, size)
    OBVIOUS
  <2>3. /\ CopiedUpTo(c) /\ Bytes \in Nat /\ Bytes <= first /\ dst_len \in Nat /\ first \in Nat
        /\ 0 < c
    BY <2>1, <2>2, LoopFacts DEF InLoop, CallInv, Least
  <2>. QED  BY <2>2, <2>3 DEF CopiedUpTo
<1>. QED  BY <1>1, StringInvariance, PTL

LEMMA StepKeeps ==
  ASSUME StepStringCopy
  PROVE  Kept /\ pc # "done"
BY DEF StepStringCopy, CopyNothing, StartStrcat, StartStrncat, AppendBytes, Terminate,
   StartSmallStrict, StartNearEndOfPage, FirstSmall, FirstVector, Vector, LeaveVectors,
   Group, LeaveGroups, RestVector, RestSmall, NothingRests, Pad, StoreAndReturn,
   StoreAndGoOn, StoreEnd, EndFrom, SmallStrncpy, SmallStrncpyAtOnce, SmallStrncpyByHalves,
   Keep, Kept, Called, Copying, AtFirst

\* strcpy, strncpy, strcat and strncat do what they promise, as if in one step: for
\* every string, bound, alignment, position in a page and register size.
THEOREM CopiesKeepPromise == Spec => ImplementsStringSpec
<1>1. StringInit => Promise!Init
  <2>. SUFFICES ASSUME StringInit  PROVE Promise!Init
    OBVIOUS
  <2>1. CallInv /\ pc = "start"
    BY InitHolds DEF IInv, StringInit, Init
  <2>. QED  BY <2>1 DEF Promise!Init, CallInv, Promise!Held, Promise!Empty, Held
<1>2. IInv /\ [Next]_stringVars => [Promise!Copy]_(Promise!vars)
  <2>. SUFFICES ASSUME IInv, [Next]_stringVars
                PROVE  [Promise!Copy]_(Promise!vars)
    OBVIOUS
  <2>1. IInv'
    BY StepHolds
  <2>2. CASE UNCHANGED stringVars
    BY <2>2 DEF stringVars, vars, call, Promise!vars, Held
  <2>3. CASE StepStringCopy
    <3>1. Kept /\ pc # "done"
      BY <2>3, StepKeeps
    <3>2. CASE pc' # "done"
      BY <3>1, <3>2 DEF Promise!vars, Kept, call, Held
    <3>3. CASE pc' = "done"
      <4>1. out' = Target
        BY <2>1, <3>1, <3>3, CallKept DEF IInv
      <4>. QED  BY <3>1, <3>3, <4>1 DEF Promise!Copy, Kept, call, Target
    <3>. QED  BY <3>2, <3>3
  <2>. QED  BY <2>2, <2>3 DEF Next, Returned
<1>. QED
  BY <1>1, <1>2, StringInvariance, PTL DEF Spec, ImplementsStringSpec, Promise!Spec

-----------------------------------------------------------------------------
(***************************************************************************)
(* Alignment.                                                              *)
(***************************************************************************)
LoadAligned == \A s \in load.aligned : (s + load.from) % load.vec = 0

\* A vector is read from its offset on, a group from its first vector's.
LEMMA ReadFromFirst ==
  ASSUME NEW o \in Int, NEW v \in Nat
  PROVE  /\ Read(Vecs(o, 1, v), 1).from = o /\ Vecs(o, 1, v)[1].len = v
         /\ Read(Vecs(o, 4, v), 0).from = o /\ Vecs(o, 4, v)[1].len = v
<1>1. Vecs(o, 1, v)[1] = [at |-> o, len |-> v] /\ DOMAIN Vecs(o, 1, v) = {1}
  BY DEF Vecs, Reg
<1>2. Read(Vecs(o, 1, v), 1).from = Min({o})
  <2>1. { Vecs(o, 1, v)[j].at : j \in 1 .. 1 } \cup {Vecs(o, 1, v)[1].at} = {o}
    BY <1>1
  <2>. QED  BY <2>1 DEF Read
<1>3. DOMAIN Vecs(o, 4, v) = 1 .. 4 /\ \A i \in 1 .. 4 : Vecs(o, 4, v)[i] = [at |-> o + (i - 1) * v, len |-> v]
  BY DEF Vecs, Reg
<1>4. Read(Vecs(o, 4, v), 0).from = Min({o, o + v, o + 2 * v, o + 3 * v})
  <2>1. { Vecs(o, 4, v)[j].at : j \in DOMAIN Vecs(o, 4, v) } \cup {Vecs(o, 4, v)[1].at}
          = {o, o + v, o + 2 * v, o + 3 * v}
    BY <1>3
  <2>. QED  BY <2>1 DEF Read
<1>5. Min({o, o + v, o + 2 * v, o + 3 * v}) = o
  BY DEF Min
<1>. QED  BY <1>1, <1>2, <1>3, <1>4, <1>5, MinOfOne

LEMMA AlignedLoad ==
  ASSUME CallInv, NEW o \in Int, NEW v \in Nat, v > 0, (str1 + o) % v = 0,
         Loaded(Vecs(o, 1, v), 1, {str1}) \/ Loaded(Vecs(o, 4, v), 0, {str1})
  PROVE  LoadAligned'
<1>1. load'.from = o /\ load'.vec = v /\ load'.aligned = {str1}
  <2>1. CASE Loaded(Vecs(o, 1, v), 1, {str1})
    BY <2>1, ReadFromFirst DEF Loaded
  <2>2. CASE Loaded(Vecs(o, 4, v), 0, {str1})
    BY <2>2, ReadFromFirst DEF Loaded
  <2>. QED  BY <2>1, <2>2
<1>. QED  BY <1>1 DEF LoadAligned

LEMMA LoadsAligned ==
  ASSUME IInv, LoadAligned, [Next]_stringVars
  PROVE  LoadAligned'
<1>1. CallInv /\ CopyVec \in Nat /\ CopyVec > 0 /\ offset \in Nat
  BY VecSizes DEF IInv
<1>2. CASE load' = NoLoad \/ load' = load
  BY <1>2 DEF NoLoad, LoadAligned
<1>3. CASE \E R, i : Loaded(R, i, {})
  BY <1>3 DEF Loaded, LoadAligned
<1>4. CASE AppendBytes
  BY <1>4 DEF AppendBytes, NoLoad, LoadAligned
<1>5. CASE StartNearEndOfPage /\ Avx2
  <2>1. CopyVec = YMM_SZ /\ YMM_SZ \in Nat /\ YMM_SZ > 0
    BY <1>5, VecSizes
  <2>2. Lead \in Nat /\ (str1 - Lead) % YMM_SZ = 0
    BY <1>1, <2>1, RoundedDown, DivMod DEF Lead, CallInv
  <2>3. PICK o \in Int : o = -Lead
    BY <2>2
  <2>4. Loaded(Vecs(o, 1, YMM_SZ), 1, {str1})
    BY <1>5, <2>3 DEF StartNearEndOfPage
  <2>5. str1 + o = str1 - Lead
    BY <1>1, <2>2, <2>3 DEF CallInv
  <2>6. PICK v \in Nat : v = YMM_SZ
    BY <2>1
  <2>7. v > 0 /\ (str1 + o) % v = 0 /\ Loaded(Vecs(o, 1, v), 1, {str1})
    BY <2>1, <2>2, <2>4, <2>5, <2>6
  <2>. QED  BY <1>1, <2>7, AlignedLoad
<1>6. CASE Vector
  <2>1. PICK o \in Int, v \in Nat : o = offset /\ v = CopyVec
    BY <1>1
  <2>2. v > 0 /\ (str1 + o) % v = 0 /\ Loaded(Vecs(o, 1, v), 1, {str1})
    BY <1>1, <1>6, <2>1 DEF IInv, Vector
  <2>. QED  BY <1>1, <2>2, AlignedLoad
<1>7. CASE Group
  <2>1. PICK o \in Int, v \in Nat : o = offset /\ v = CopyVec
    BY <1>1
  <2>2. v > 0 /\ (str1 + o) % v = 0 /\ Loaded(Vecs(o, 4, v), 0, {str1})
    BY <1>1, <1>7, <2>1 DEF IInv, Group
  <2>. QED  BY <1>1, <2>2, AlignedLoad
<1>. QED
  BY <1>2, <1>3, <1>4, <1>5, <1>6, <1>7
  DEF Next, Returned, StepStringCopy, CopyNothing, StartStrcat, StartStrncat, Terminate,
      StartSmallStrict, StartNearEndOfPage, FirstSmall, FirstVector, LeaveVectors,
      LeaveGroups, RestVector, RestSmall, NothingRests, Pad, SmallStrncpy,
      SmallStrncpyAtOnce, SmallStrncpyByHalves, stringVars, vars

\* Aligned loads, and the aligned stores of the padding, are made at aligned
\* addresses: for every string, bound, alignment and register size.
THEOREM StringCopiesAligned == Spec => []NoAlignmentFault
<1>1. StringInit => LoadAligned
  BY DEF StringInit, Init, NoLoad, LoadAligned
<1>2. IInv /\ LoadAligned /\ [Next]_stringVars => LoadAligned'
  BY LoadsAligned
<1>3. IInv /\ LoadAligned => NoAlignmentFault
  BY DEF IInv, LoadAligned, NoAlignmentFault, Padded
<1>. QED  BY <1>1, <1>2, <1>3, StringInvariance, PTL DEF Spec

-----------------------------------------------------------------------------
(***************************************************************************)
(* Progress.                                                               *)
(***************************************************************************)
GoesLater == \E i, j \in DOMAIN Parts : pc = Parts[i] /\ pc' = Parts[j] /\ i < j

GoesOnFurther ==
  /\ pc \in {"vecs", "groups", "rest", "pad"} /\ pc' = pc
  /\ offset < offset'
  /\ offset < (IF pc = "pad" THEN size ELSE Least(first + 1, size))

Advances == GoesLater \/ GoesOnFurther

\* The order of the parts, spelt out.
LEMMA PartsOrder ==
  ASSUME \/ pc = "start" /\ pc' \in {"strcpy", "memcpy", "first", "vecs", "pad", "done"}
         \/ pc = "strcpy" /\ pc' \in {"first", "vecs", "pad", "done"}
         \/ pc = "memcpy" /\ pc' = "terminate"
         \/ pc = "terminate" /\ pc' = "done"
         \/ pc = "first" /\ pc' \in {"vecs", "pad", "done"}
         \/ pc = "vecs" /\ pc' \in {"groups", "pad", "done"}
         \/ pc = "groups" /\ pc' \in {"rest", "pad", "done"}
         \/ pc = "rest" /\ pc' \in {"pad", "done"}
         \/ pc = "pad" /\ pc' = "done"
  PROVE  GoesLater
<1>1. /\ DOMAIN Parts = 1 .. 10
      /\ Parts[1] = "start" /\ Parts[2] = "strcpy" /\ Parts[3] = "memcpy"
      /\ Parts[4] = "terminate" /\ Parts[5] = "first" /\ Parts[6] = "vecs"
      /\ Parts[7] = "groups" /\ Parts[8] = "rest" /\ Parts[9] = "pad" /\ Parts[10] = "done"
  BY DEF Parts
<1>. QED  BY <1>1 DEF GoesLater

LEMMA AdvancesIsEnough ==
  ASSUME Advances
  PROVE  \E i, j \in DOMAIN Parts :
           /\ pc = Parts[i] /\ pc' = Parts[j]
           /\ \/ i < j
              \/ /\ i = j
                 /\ offset < offset'
                 /\ offset < (IF pc = "pad" THEN size ELSE Least(first + 1, size))
<1>1. CASE GoesLater
  BY <1>1 DEF GoesLater
<1>2. CASE GoesOnFurther
  <2>1. \E i \in DOMAIN Parts : pc = Parts[i]
    <3>1. DOMAIN Parts = 1 .. 10 /\ Parts[6] = "vecs" /\ Parts[7] = "groups"
          /\ Parts[8] = "rest" /\ Parts[9] = "pad"
      BY DEF Parts
    <3>. QED  BY <1>2, <3>1 DEF GoesOnFurther
  <2>. QED  BY <1>2, <2>1 DEF GoesOnFurther
<1>. QED  BY <1>1, <1>2 DEF Advances

LEMMA StoreEndLeaves ==
  ASSUME NEW O, NEW end, StoreEnd(O, end)
  PROVE  pc' \in {"pad", "done"}
BY DEF StoreEnd, StoreAndReturn

LEMMA SmallLeaves ==
  ASSUME NEW o, SmallStrncpy(o)
  PROVE  pc' \in {"pad", "done"}
BY StoreEndLeaves DEF SmallStrncpy, SmallStrncpyAtOnce, SmallStrncpyByHalves

LEMMA StepAdvances ==
  ASSUME IInv, StepStringCopy
  PROVE  Advances
<1>. USE DEF Advances
<1>1. CopyVec \in Nat /\ CopyVec > 0 /\ offset \in Nat /\ size \in Nat /\ first \in Nat
  BY VecSizes DEF IInv, CallInv
<1>2. CASE CopyNothing \/ StartStrcat \/ StartStrncat
  BY <1>2, PartsOrder DEF CopyNothing, StartStrcat, StartStrncat, Called, StoreAndReturn
<1>3. CASE AppendBytes \/ Terminate
  BY <1>3, PartsOrder DEF AppendBytes, Terminate, StoreAndGoOn, StoreAndReturn
<1>4. CASE StartSmallStrict \/ FirstSmall
  BY <1>4, SmallLeaves, PartsOrder DEF StartSmallStrict, FirstSmall, AtFirst, Copying, Called
<1>5. CASE StartNearEndOfPage \/ FirstVector
  <2>1. pc' \in {"first", "vecs", "pad", "done"} /\ (FirstVector => pc' # "first")
    BY <1>5, StoreEndLeaves
    DEF StartNearEndOfPage, FirstVector, EndFrom, StoreAndReturn, StoreAndGoOn
  <2>2. pc \in {"start", "strcpy"} \/ (FirstVector /\ pc = "first")
    BY <1>5 DEF StartNearEndOfPage, FirstVector, AtFirst, Copying, Called
  <2>. QED  BY <2>1, <2>2, PartsOrder, <1>5
<1>6. CASE Vector \/ Group \/ RestVector \/ (RestSmall /\ ~Avx2)
  <2>1. pc \in {"vecs", "groups", "rest"} /\ offset < size
    BY <1>1, <1>6 DEF Vector, Group, RestVector, RestSmall
  <2>2. offset < Least(first + 1, size)
    <3>1. InLoop
      BY <2>1 DEF IInv, InLoop
    <3>. QED  BY <1>1, <2>1, <3>1, LoopFacts DEF Least
  <2>3. \/ pc' \in {"pad", "done"}
        \/ pc = "groups" /\ pc' = "rest"
        \/ pc' = pc /\ (offset' = offset + CopyVec \/ offset' = offset + 4 * CopyVec)
    BY <1>6, StoreEndLeaves
    DEF Vector, Group, RestVector, RestSmall, EndFrom, StoreAndReturn, StoreAndGoOn
  <2>. QED  BY <1>1, <2>1, <2>2, <2>3, PartsOrder DEF GoesOnFurther
<1>7. CASE RestSmall /\ Avx2
  BY <1>7, SmallLeaves, PartsOrder DEF RestSmall
<1>8. CASE LeaveVectors \/ LeaveGroups \/ NothingRests
  BY <1>8, PartsOrder DEF LeaveVectors, LeaveGroups, NothingRests, StoreAndGoOn, StoreAndReturn
<1>9. CASE Pad
  <2>1. pc = "pad" /\ (pc' = "done" \/ (pc' = pc /\ offset' = offset + 4 * CopyVec
                                          /\ offset < size - 4 * CopyVec))
    BY <1>9 DEF Pad, StoreAndReturn
  <2>. QED  BY <1>1, <2>1, PartsOrder DEF GoesOnFurther
<1>. QED
  BY <1>2, <1>3, <1>4, <1>5, <1>6, <1>7, <1>8, <1>9 DEF StepStringCopy

\* Every call returns: each step goes on to a later part of the routine, or, in front
\* of the string's end, to a later offset, for every string, bound and alignment.
THEOREM StringStepsAdvance == Spec => EveryStepAdvances
<1> DEFINE Progress ==
             \E i, j \in DOMAIN Parts :
               /\ pc = Parts[i] /\ pc' = Parts[j]
               /\ \/ i < j
                  \/ /\ i = j
                     /\ offset < offset'
                     /\ offset < (IF pc = "pad" THEN size ELSE Least(first + 1, size))
<1>1. IInv /\ [Next]_stringVars => [Progress]_stringVars
  BY StepAdvances, AdvancesIsEnough DEF Next, Returned
<1>. QED  BY <1>1, StringInvariance, PTL DEF Spec, EveryStepAdvances

-----------------------------------------------------------------------------
(***************************************************************************)
(* What a load reaches.                                                    *)
(***************************************************************************)
LEMMA PageSizes ==
  /\ PAGE_SZ \in Nat /\ PAGE_SZ > 0
  /\ PAGE_SZ % CopyVec = 0 /\ PAGE_SZ % (4 * CopyVec) = 0
<1>1. PAGE_SZ \in Nat /\ PAGE_SZ > 0
  BY PageAssumption, SpanAssumption
<1>2. PAGE_SZ % (4 * CopyVec) = 0
  BY PageAssumption DEF CopyVec
<1>3. PAGE_SZ % CopyVec = 0
  <2>1. PICK v \in Nat : v = CopyVec /\ v > 0
    BY VecSizes
  <2>2. PICK k \in Int : PAGE_SZ = (4 * v) * k
    <3>1. 4 * v \in Nat /\ 4 * v > 0 /\ PAGE_SZ % (4 * v) = 0
      BY <1>2, <2>1
    <3>. QED  BY <1>1, <3>1, DivMod
  <2>3. PAGE_SZ = (4 * k) * v /\ 4 * k \in Int
    BY <2>1, <2>2
  <2>4. ((4 * k) * v) % v = 0
    BY <2>1, <2>3, MultipleIsAligned
  <2>. QED  BY <2>1, <2>3, <2>4
<1>. QED  BY <1>1, <1>2, <1>3

SmallAndStrict == StrictStrncpy /\ size < YMM_SZ

\* The offset of the last byte that may be needed.
End == Least(first, size - 1)

Fits(f, t) ==
  IF SmallAndStrict THEN 0 <= f /\ t <= size
  ELSE size > 0 =>
         0 <= PageOf(str1 + f) /\ PageOf(str1 + t - 1) <= PageOf(str1 + End)

LEMMA FitsIsEnough ==
  ASSUME CallInv, Kept, Fits(load'.from, load'.to)
  PROVE  StaysInSource'
<1>1. /\ size' = size /\ first' = first /\ str1' = str1 /\ routine' = routine
  BY CallKept
<1>. QED
  BY <1>1 DEF StaysInSource, ReadsOnlyStringsPages, Fits, SmallAndStrict, StrictStrncpy, End,
     PageOf, Least

LEMMA NothingFits ==
  ASSUME CallInv
  PROVE  Fits(0, 0)
<1>1. str1 \in Nat /\ size \in Nat /\ first \in Nat
  BY DEF CallInv
<1>. SUFFICES ASSUME size > 0
              PROVE  0 <= PageOf(str1 + 0) /\ PageOf(str1 + 0 - 1) <= PageOf(str1 + End)
  BY <1>1 DEF Fits
<1>2. End \in Nat
  BY <1>1 DEF End, Least
<1>3. (str1 + 0 - 1) \div PAGE_SZ <= (str1 + End) \div PAGE_SZ
  BY <1>1, <1>2, DivMonotone, PageSizes
<1>4. 0 \div PAGE_SZ = 0
  BY PageSizes
<1>5. 0 \div PAGE_SZ <= (str1 + 0) \div PAGE_SZ
  BY <1>1, DivMonotone, PageSizes
<1>. QED  BY <1>3, <1>4, <1>5 DEF PageOf

\* No byte behind the last one that may be needed.
LEMMA FitsUpToEnd ==
  ASSUME CallInv, NEW f \in Nat, NEW t \in Int, t - 1 <= End, 0 < size
  PROVE  Fits(f, t)
<1>1. str1 \in Nat /\ size \in Nat /\ first \in Nat /\ End \in Nat /\ End < size
  BY DEF CallInv, End, Least
<1>2. (str1 + t - 1) \div PAGE_SZ <= (str1 + End) \div PAGE_SZ
  BY <1>1, DivMonotone, PageSizes
<1>3. 0 \div PAGE_SZ = 0
  BY PageSizes
<1>4. 0 \div PAGE_SZ <= (str1 + f) \div PAGE_SZ
  BY <1>1, DivMonotone, PageSizes
<1>. QED  BY <1>1, <1>2, <1>3, <1>4 DEF PageOf, Fits

InOnePage(s, n) == PageOf(str1 + s + n - 1) = PageOf(str1 + s)

\* A block of n bytes that lies in one page and begins with one that may be needed.
LEMMA FitsInBlock ==
  ASSUME CallInv, ~SmallAndStrict, 0 < size,
         NEW f \in Int, 0 <= str1 + f, NEW t \in Int,
         NEW s \in Int, s <= End, NEW n \in Nat, t <= s + n,
         InOnePage(s, n)
  PROVE  Fits(f, t)
<1>1. str1 \in Nat /\ End \in Int /\ CallInv
  BY DEF CallInv, End, Least
<1>2. (str1 + t - 1) \div PAGE_SZ <= (str1 + s + n - 1) \div PAGE_SZ
  BY <1>1, DivMonotone, PageSizes
<1>3. (str1 + s) \div PAGE_SZ <= (str1 + End) \div PAGE_SZ
  BY <1>1, DivMonotone, PageSizes
<1>4. 0 \div PAGE_SZ = 0
  BY PageSizes
<1>5. 0 \div PAGE_SZ <= (str1 + f) \div PAGE_SZ
  BY <1>1, DivMonotone, PageSizes
<1>6. /\ (str1 + t - 1) \div PAGE_SZ \in Int /\ (str1 + s + n - 1) \div PAGE_SZ \in Int
      /\ (str1 + End) \div PAGE_SZ \in Int
  BY <1>1, DivMod, PageSizes
<1>. QED  BY <1>2, <1>3, <1>4, <1>5, <1>6 DEF PageOf, Fits, InOnePage

\* Up to where registers are read.
LEMMA ReadOfVectors ==
  ASSUME NEW o \in Int, NEW v \in Nat
  PROVE  /\ Read(Vecs(o, 1, v), 1).from = o /\ Read(Vecs(o, 1, v), 1).to = o + v
         /\ Read(Vecs(o, 4, v), 0).from = o /\ Read(Vecs(o, 4, v), 0).to = o + 4 * v
<1>1. Vecs(o, 1, v)[1] = [at |-> o, len |-> v] /\ DOMAIN Vecs(o, 1, v) = {1}
  BY DEF Vecs, Reg
<1>2. Read(Vecs(o, 1, v), 1).to = Max({o + v})
  <2>1. { Vecs(o, 1, v)[j].at + Vecs(o, 1, v)[j].len : j \in 1 .. 1 } = {o + v}
    BY <1>1
  <2>. QED  BY <2>1 DEF Read
<1>3. Max({o + v}) = o + v
  BY DEF Max
<1>4. DOMAIN Vecs(o, 4, v) = 1 .. 4 /\ \A i \in 1 .. 4 : Vecs(o, 4, v)[i] = [at |-> o + (i - 1) * v, len |-> v]
  BY DEF Vecs, Reg
<1>5. Read(Vecs(o, 4, v), 0).to = Max({o + v, o + 2 * v, o + 3 * v, o + 4 * v})
  <2>1. { Vecs(o, 4, v)[j].at + Vecs(o, 4, v)[j].len : j \in DOMAIN Vecs(o, 4, v) }
          = {o + v, o + 2 * v, o + 3 * v, o + 4 * v}
    BY <1>4
  <2>. QED  BY <2>1 DEF Read
<1>6. Max({o + v, o + 2 * v, o + 3 * v, o + 4 * v}) = o + 4 * v
  BY DEF Max
<1>. QED  BY <1>2, <1>3, <1>5, <1>6, ReadFromFirst

-----------------------------------------------------------------------------
(***************************************************************************)
(* The invariant about pages.                                              *)
(***************************************************************************)
PageInv ==
  /\ pc = "first" =>
       /\ ~SmallAndStrict
       /\ Ahead <= first
       /\ Avx2 /\ size < YMM_SZ => Ahead < size
  /\ pc = "vecs" => offset <= GroupsBegin \/ size <= offset
  /\ pc = "groups" => (str1 + offset) % (4 * CopyVec) = 0 \/ size <= offset

\* The bytes of a first vector, when it may be loaded from the first byte.
LEMMA FirstFits ==
  ASSUME IInv, PageInv, AtFirst, ~SmallAndStrict,
         NEW t \in Int, t <= CopyVec, pc = "first" => t <= size \/ Ahead < size
  PROVE  Fits(0, t)
<1>1. /\ CallInv /\ str1 \in Nat /\ size \in Nat /\ first \in Nat /\ 0 < size
      /\ CopyVec \in Nat /\ CopyVec > 0 /\ End = Least(first, size - 1)
      /\ End \in Nat
  BY ReadyToCopy, VecSizes DEF IInv, CallInv, End, Least, AtFirst, Copying, Ready
<1>2. CASE Copying /\ ~NearEndOfPage
  <2>1. (str1 % PAGE_SZ) + CopyVec <= PAGE_SZ
    <3>1. str1 % PAGE_SZ \in Int
      BY <1>1, PageSizes, DivMod
    <3>. QED  BY <1>1, <1>2, <3>1, PageSizes DEF NearEndOfPage, InPage
  <2>2. (str1 + CopyVec - 1) \div PAGE_SZ = str1 \div PAGE_SZ
    BY <1>1, <2>1, BytesInOnePage, PageSizes
  <2>3. InOnePage(0, CopyVec)
    BY <1>1, <2>2 DEF PageOf, InOnePage
  <2>. QED  BY <1>1, <2>3, FitsInBlock
<1>3. CASE pc = "first"
  <2>1. Ahead <= first /\ Ahead \in 1 .. CopyVec /\ (str1 + Ahead) % CopyVec = 0
    BY <1>1, <1>3, AheadAligned DEF PageInv
  <2>2. CASE size <= Ahead
    <3>1. t - 1 <= End
      BY <1>1, <1>3, <2>1, <2>2 DEF Least
    <3>. QED  BY <1>1, <3>1, FitsUpToEnd
  <2>3. CASE Ahead < size
    <3>1. Ahead <= End
      BY <1>1, <2>1, <2>3 DEF Least
    <3>2. PICK a \in Int, v \in Nat : a = Ahead /\ v = CopyVec
      BY <1>1, <2>1
    <3>3. a <= End /\ t <= a + v /\ (str1 + a) % v = 0 /\ v > 0
      BY <1>1, <2>1, <3>1, <3>2
    <3>4. InOnePage(a, v)
      <4>1. PAGE_SZ % v = 0 /\ str1 + a \in Int
        BY <1>1, <3>2, PageSizes
      <4>. QED  BY <3>3, <4>1, BlockInOnePage, PageSizes DEF PageOf, InOnePage
    <3>5. PICK f \in Int : f = 0 /\ 0 <= str1 + f
      BY <1>1
    <3>6. Fits(f, t)
      BY <1>1, <3>3, <3>4, <3>5, FitsInBlock
    <3>. QED  BY <3>5, <3>6
  <2>. QED  BY <1>1, <2>1, <2>2, <2>3
<1>. QED  BY <1>2, <1>3 DEF AtFirst, SmallAndStrict

\* The loads of _strncpy_small_avx2.
LEMMA SmallReads ==
  ASSUME CallInv, NEW o \in Nat, o < size, size - o < YMM_SZ, SmallStrncpy(o)
  PROVE  /\ load'.from = o /\ load'.to \in Int /\ load'.to <= o + YMM_SZ
         /\ StrictStrncpy => load'.to <= size
<1> DEFINE n == size - o
           s == SmallReg(o)
<1>1. /\ size \in Nat /\ n \in 1 .. ZMM_SZ /\ YMM_SZ \in Nat /\ ZMM_SZ \in Nat
  BY VecSizes DEF CallInv
<1>2. s \in 1 .. n /\ n <= 2 * s
  BY <1>1, NarrowestCover DEF SmallReg
<1>. HIDE DEF s
<1>3. CASE SmallStrncpyAtOnce(o)
  <2>1. ~StrictStrncpy /\ n <= XMM_SZ /\ Loaded(Vecs(o, 1, 2 * s), 1, {})
    BY <1>3 DEF SmallStrncpyAtOnce, SmallAtOnce, s
  <2>2. XMM_SZ \in Int /\ 2 * XMM_SZ <= YMM_SZ
    BY <1>1 DEF XMM_SZ
  <2>3. 2 * s \in Nat /\ 2 * s <= YMM_SZ
    BY <1>1, <1>2, <2>1, <2>2
  <2>4. PICK w \in Nat : w = 2 * s
    BY <2>3
  <2>5. Loaded(Vecs(o, 1, w), 1, {})
    BY <2>1, <2>4
  <2>6. load'.from = o /\ load'.to = o + w
    <3>1. Read(Vecs(o, 1, w), 1).from = o /\ Read(Vecs(o, 1, w), 1).to = o + w
      BY <2>4, ReadOfVectors
    <3>. QED  BY <2>5, <3>1 DEF Loaded
  <2>. QED  BY <1>1, <2>1, <2>3, <2>4, <2>6
<1>4. CASE SmallStrncpyByHalves(o)
  <2> DEFINE R == << Reg(o, s), Reg(size - s, s) >>
             i == FirstHit(R)
  <2>1. Loaded(R, i, {})
    BY <1>4 DEF SmallStrncpyByHalves, s
  <2>2. R \in Seq([at : Int, len : Int]) /\ Len(R) = 2
    BY <1>1, <1>2 DEF Reg
  <2>3. i \in 0 .. 2
    BY <2>2, FirstHitIsFirst
  <2>. HIDE DEF i
  <2>4. R[1].at = o /\ R[1].len = s /\ R[2].at = size - s /\ R[2].len = s
    BY DEF Reg
  <2>5. DOMAIN R = 1 .. 2
    OBVIOUS
  <2>. HIDE DEF R
  <2>6. CASE i = 1
    <3>1. /\ { R[j].at : j \in 1 .. 1 } \cup {R[1].at} = {o}
          /\ { R[j].at + R[j].len : j \in 1 .. 1 } = {o + s}
      BY <2>4
    <3>2. Read(R, i).from = Min({o}) /\ Read(R, i).to = Max({o + s})
      BY <2>6, <3>1 DEF Read
    <3>3. Min({o}) = o /\ Max({o + s}) = o + s
      BY <1>1, <1>2 DEF Min, Max
    <3>. QED  BY <1>1, <1>2, <2>1, <3>2, <3>3 DEF Loaded
  <2>7. CASE i # 1
    <3>1. (IF i = 0 THEN DOMAIN R ELSE 1 .. i) = 1 .. 2
      BY <2>3, <2>5, <2>7
    <3>2. /\ { R[j].at : j \in 1 .. 2 } \cup {R[1].at} = {o, size - s}
          /\ { R[j].at + R[j].len : j \in 1 .. 2 } = {o + s, size}
      BY <1>1, <1>2, <2>4
    <3>3. Read(R, i).from = Min({o, size - s}) /\ Read(R, i).to = Max({o + s, size})
      BY <3>1, <3>2 DEF Read
    <3>4. Min({o, size - s}) = o
      BY <1>1, <1>2 DEF Min
    <3>5. Max({o + s, size}) = size
      BY <1>1, <1>2, MaxOfTwo
    <3>. QED  BY <1>1, <1>2, <2>1, <3>3, <3>4, <3>5 DEF Loaded
  <2>. QED  BY <2>6, <2>7
<1>. QED  BY <1>3, <1>4 DEF SmallStrncpy

-----------------------------------------------------------------------------
(***************************************************************************)
(* The groups begin at a multiple of their size.                           *)
(***************************************************************************)
LEMMA GroupsBeginAligned ==
  ASSUME CallInv
  PROVE  /\ GroupsBegin \in Int /\ Ahead <= GroupsBegin
         /\ (str1 + GroupsBegin) % (4 * CopyVec) = 0
         /\ (str1 + GroupsBegin) % CopyVec = 0
<1>1. /\ str1 \in Nat /\ CopyVec \in Nat /\ CopyVec > 0 /\ Ahead \in 1 .. CopyVec
  BY VecSizes, AheadAligned DEF CallInv
<1>2. PICK v \in Nat : v = CopyVec /\ v > 0
  BY <1>1
<1>3. PICK c \in Nat : c = CountedEnd /\ Ahead <= c
  BY <1>1 DEF CountedEnd
<1>4. PICK w \in Nat : w = 4 * v /\ w > 0
  BY <1>2
<1>5. PICK x \in Int : x = str1 + c
  BY <1>1
<1>6. x % w \in 0 .. w - 1
  BY <1>4, DivMod
<1>7. GroupsBegin = c + w - (x % w)
  BY <1>2, <1>3, <1>4, <1>5 DEF GroupsBegin
<1>8. (x - (x % w)) % w = 0
  BY <1>4, RoundedDown
<1>9. PICK y \in Int : y = x - (x % w)
  BY <1>6
<1>10. PICK z \in Int : z = y + w
  BY <1>4
<1>11. z % w = 0
  BY <1>4, <1>8, <1>9, <1>10, AlignedNext
<1>12. str1 + GroupsBegin = z
  BY <1>1, <1>3, <1>4, <1>5, <1>6, <1>7, <1>9, <1>10
<1>13. z % v = 0
  BY <1>2, <1>4, <1>11, MultipleOfFour
<1>14. GroupsBegin \in Int /\ Ahead <= GroupsBegin
  BY <1>1, <1>3, <1>4, <1>6, <1>7
<1>. QED  BY <1>2, <1>4, <1>11, <1>12, <1>13, <1>14

LEMMA PlacesKept ==
  ASSUME CallInv, Kept
  PROVE  /\ Ahead' = Ahead /\ GroupsBegin' = GroupsBegin /\ CopyVec' = CopyVec
         /\ SmallAndStrict' = SmallAndStrict /\ Avx2' = Avx2
         /\ str1' = str1 /\ size' = size /\ first' = first /\ routine' = routine
BY CallKept
DEF Ahead, Lead, GroupsBegin, CountedEnd, Avx2, SmallAndStrict, StrictStrncpy, Kept, call

\* One more vector, or group, from an aligned offset on.
LEMMA NextAligned ==
  ASSUME CallInv, NEW o \in Nat, NEW v \in Nat, v > 0, (str1 + o) % v = 0
  PROVE  (str1 + (o + v)) % v = 0
<1>1. PICK x \in Int : x = str1 + o
  BY DEF CallInv
<1>2. (x + v) % v = 0
  BY <1>1, AlignedNext
<1>3. str1 + (o + v) = x + v
  BY <1>1 DEF CallInv
<1>. QED  BY <1>2, <1>3

LEMMA PagesInductive ==
  ASSUME IInv, PageInv, [Next]_stringVars
  PROVE  PageInv'
<1>1. /\ CallInv /\ CopyVec \in Nat /\ CopyVec > 0 /\ Ahead \in 1 .. CopyVec
      /\ offset \in Nat /\ size \in Nat /\ first \in Nat /\ str1 \in Nat
      /\ GroupsBegin \in Int /\ Ahead <= GroupsBegin
  BY VecSizes, AheadAligned, GroupsBeginAligned DEF IInv, CallInv
<1>2. CASE UNCHANGED stringVars
  BY <1>2 DEF stringVars, vars, call, PageInv, Ahead, Lead, GroupsBegin, CountedEnd, Avx2,
       SmallAndStrict, StrictStrncpy, CopyVec
<1>3. CASE StepStringCopy
  <2>1. /\ Ahead' = Ahead /\ GroupsBegin' = GroupsBegin /\ CopyVec' = CopyVec
        /\ SmallAndStrict' = SmallAndStrict /\ Avx2' = Avx2
        /\ str1' = str1 /\ size' = size /\ first' = first /\ routine' = routine
    BY <1>1, <1>3, StepKeeps, PlacesKept
  <2>2. CASE pc' = "first"
    <3>1. StartNearEndOfPage /\ ~SmallAndStrict
      BY <1>3, <2>2, StoreEndLeaves, SmallLeaves
      DEF StepStringCopy, CopyNothing, StartStrcat, StartStrncat, AppendBytes, Terminate,
        StartSmallStrict, StartNearEndOfPage, FirstSmall, FirstVector, Vector, LeaveVectors,
        Group, LeaveGroups, RestVector, RestSmall, NothingRests, Pad, StoreAndReturn,
        StoreAndGoOn, EndFrom, SmallAndStrict
    <3>2. Ahead <= first
      BY <1>1, <2>2, <3>1, NearEndStops, StoreEndLeaves
      DEF StartNearEndOfPage, EndFrom, StoreAndReturn
    <3>3. Avx2 /\ size < YMM_SZ => Ahead < size
      BY <1>1, <2>2, <3>1, StoreEndLeaves
      DEF StartNearEndOfPage, EndFrom, StoreAndReturn
    <3>. QED  BY <2>1, <2>2, <3>1, <3>2, <3>3 DEF PageInv
  <2>3. CASE pc' = "vecs"
    <3>1. (FirstVector /\ offset' = Ahead) \/ (Vector /\ offset' = offset + CopyVec)
      BY <1>3, <2>3, StoreEndLeaves, SmallLeaves
      DEF StepStringCopy, CopyNothing, StartStrcat, StartStrncat, AppendBytes, Terminate,
        StartSmallStrict, StartNearEndOfPage, FirstSmall, FirstVector, Vector, LeaveVectors,
        Group, LeaveGroups, RestVector, RestSmall, NothingRests, Pad, StoreAndReturn,
        StoreAndGoOn, EndFrom
    <3>2. CASE FirstVector /\ offset' = Ahead
      BY <1>1, <2>1, <2>3, <3>2 DEF PageInv
    <3>3. CASE Vector /\ offset' = offset + CopyVec
      <4>1. offset < GroupsBegin /\ (str1 + offset) % CopyVec = 0
        BY <3>3 DEF Vector, IInv
      <4>2. PICK x \in Int, y \in Int, v \in Nat :
              x = str1 + offset /\ y = str1 + GroupsBegin /\ v = CopyVec
        BY <1>1
      <4>3. x + v <= y
        <5>1. x < y /\ x % v = 0 /\ y % v = 0 /\ v > 0
          BY <1>1, <4>1, <4>2, GroupsBeginAligned
        <5>. QED  BY <5>1, AlignedGap
      <4>4. offset + CopyVec <= GroupsBegin
        BY <1>1, <4>2, <4>3
      <4>. QED  BY <2>1, <2>3, <3>3, <4>4 DEF PageInv
    <3>. QED  BY <3>1, <3>2, <3>3
  <2>4. CASE pc' = "groups"
    <3>1. (LeaveVectors /\ offset' = offset) \/ (Group /\ offset' = offset + 4 * CopyVec)
      BY <1>3, <2>4, StoreEndLeaves, SmallLeaves
      DEF StepStringCopy, CopyNothing, StartStrcat, StartStrncat, AppendBytes, Terminate,
        StartSmallStrict, StartNearEndOfPage, FirstSmall, FirstVector, Vector, LeaveVectors,
        Group, LeaveGroups, RestVector, RestSmall, NothingRests, Pad, StoreAndReturn,
        StoreAndGoOn, EndFrom
    <3>2. CASE LeaveVectors /\ offset' = offset
      <4>1. offset = GroupsBegin \/ size <= offset
        BY <1>1, <3>2 DEF LeaveVectors, PageInv
      <4>2. CASE offset = GroupsBegin
        <5>1. (str1 + offset) % (4 * CopyVec) = 0
          BY <1>1, <4>2, GroupsBeginAligned
        <5>. QED  BY <2>1, <2>4, <3>2, <5>1 DEF PageInv
      <4>3. CASE size <= offset
        BY <2>1, <2>4, <3>2, <4>3 DEF PageInv
      <4>. QED  BY <4>1, <4>2, <4>3
    <3>3. CASE Group /\ offset' = offset + 4 * CopyVec
      <4>1. (str1 + offset) % (4 * CopyVec) = 0
        BY <1>1, <3>3 DEF Group, PageInv
      <4>2. PICK w \in Nat : w = 4 * CopyVec /\ w > 0
        BY <1>1
      <4>3. (str1 + (offset + w)) % w = 0
        BY <1>1, <4>1, <4>2, NextAligned
      <4>. QED  BY <2>1, <2>4, <3>3, <4>2, <4>3 DEF PageInv
    <3>. QED  BY <3>1, <3>2, <3>3
  <2>. QED  BY <2>2, <2>3, <2>4 DEF PageInv
<1>. QED  BY <1>2, <1>3 DEF Next, Returned

-----------------------------------------------------------------------------
(***************************************************************************)
(* What each step loads.                                                   *)
(***************************************************************************)
LEMMA LoadedVector ==
  ASSUME NEW o \in Int, NEW v \in Nat, NEW S,
         Loaded(Vecs(o, 1, v), 1, S)
  PROVE  load'.from = o /\ load'.to = o + v
<1>1. Read(Vecs(o, 1, v), 1).from = o /\ Read(Vecs(o, 1, v), 1).to = o + v
  BY ReadOfVectors
<1>. QED  BY <1>1 DEF Loaded

LEMMA LoadedGroup ==
  ASSUME NEW o \in Int, NEW v \in Nat, NEW S,
         Loaded(Vecs(o, 4, v), 0, S)
  PROVE  load'.from = o /\ load'.to = o + 4 * v
<1>1. Read(Vecs(o, 4, v), 0).from = o /\ Read(Vecs(o, 4, v), 0).to = o + 4 * v
  BY ReadOfVectors
<1>. QED  BY <1>1 DEF Loaded

\* In the loops, a load from an aligned offset on.
LEMMA LoopLoadFits ==
  ASSUME IInv, pc \in {"vecs", "groups", "rest"}, offset < size,
         NEW t \in Int, NEW v \in {CopyVec, 4 * CopyVec}, t <= offset + v,
         (str1 + offset) % v = 0
  PROVE  Fits(offset, t)
<1>1. InLoop
  BY DEF IInv, InLoop
<1>2. /\ CallInv /\ size \in Nat /\ first \in Nat /\ offset \in Nat /\ str1 \in Nat
      /\ offset <= first /\ CopyVec <= size
  BY <1>1, LoopFacts DEF InLoop, CallInv
<1>3. ~SmallAndStrict
  BY <1>2, VecSizes DEF SmallAndStrict, StrictStrncpy, Avx2
<1>4. offset <= End /\ 0 < size /\ 0 <= str1 + offset
  BY <1>2 DEF End, Least
<1>5. PICK w \in Nat : w = v /\ w > 0
  BY VecSizes
<1>6. InOnePage(offset, w)
  <2>1. PAGE_SZ % w = 0 /\ str1 + offset \in Int /\ (str1 + offset) % w = 0
    BY <1>2, <1>5, PageSizes
  <2>. QED  BY <1>5, <2>1, BlockInOnePage, PageSizes DEF PageOf, InOnePage
<1>7. t <= offset + w
  BY <1>5
<1>. QED  BY <1>2, <1>3, <1>4, <1>6, <1>7, FitsInBlock

LEMMA NearEndFits ==
  ASSUME IInv, StartNearEndOfPage
  PROVE  Fits(load'.from, load'.to)
<1>1. /\ CallInv /\ str1 \in Nat /\ size \in Nat /\ first \in Nat /\ 0 < size
      /\ CopyVec \in Nat /\ CopyVec > 0 /\ End \in Nat
  BY VecSizes DEF IInv, CallInv, End, Least, StartNearEndOfPage, Copying
<1>2. ~SmallAndStrict
  BY DEF StartNearEndOfPage, SmallAndStrict
<1>3. /\ Lead \in 0 .. CopyVec - 1 /\ Lead <= str1 /\ (str1 - Lead) % CopyVec = 0
      /\ Ahead = CopyVec - Lead
  BY <1>1, RoundedDown, DivMod DEF Lead, Ahead
<1>4. PICK s \in Int : s = -Lead
  BY <1>3
<1>5. PICK v \in Nat : v = CopyVec /\ v > 0
  BY <1>1
<1>6. InOnePage(s, v)
  <2>1. PAGE_SZ % v = 0 /\ str1 + s \in Int /\ str1 + s = str1 - Lead /\ (str1 + s) % v = 0
    BY <1>1, <1>3, <1>4, <1>5, PageSizes
  <2>. QED  BY <1>5, <2>1, BlockInOnePage, PageSizes DEF PageOf, InOnePage
<1>7. s <= End /\ 0 <= str1 + s
  BY <1>1, <1>3, <1>4
<1>8. CASE Avx2
  <2>1. Loaded(Vecs(s, 1, v), 1, {str1})
    BY <1>4, <1>5, <1>8, VecSizes DEF StartNearEndOfPage
  <2>2. load'.from = s /\ load'.to = s + v
    BY <2>1, LoadedVector
  <2>3. Fits(s, s + v)
    BY <1>1, <1>2, <1>6, <1>7, FitsInBlock
  <2>. QED  BY <2>2, <2>3
<1>9. CASE ~Avx2
  <2>1. PICK w \in Nat : w = Ahead /\ w = s + v
    BY <1>3, <1>4, <1>5
  <2>2. Loaded(Vecs(0, 1, w), 1, {})
    BY <1>9, <2>1 DEF StartNearEndOfPage
  <2>3. load'.from = 0 /\ load'.to = w
    BY <2>2, LoadedVector
  <2>4. PICK f \in Int : f = 0 /\ 0 <= str1 + f
    BY <1>1
  <2>5. Fits(f, w)
    BY <1>1, <1>2, <1>6, <1>7, <2>1, <2>4, FitsInBlock
  <2>. QED  BY <2>3, <2>4, <2>5
<1>. QED  BY <1>8, <1>9

LEMMA StepFits ==
  ASSUME IInv, PageInv, StepStringCopy, load' # load
  PROVE  Fits(load'.from, load'.to)
<1>1. /\ CallInv /\ str1 \in Nat /\ size \in Nat /\ first \in Nat /\ offset \in Nat
      /\ CopyVec \in Nat /\ CopyVec > 0 /\ CopyVec <= ZMM_SZ
      /\ YMM_SZ \in Nat /\ (Avx2 => CopyVec = YMM_SZ)
  BY VecSizes DEF IInv, CallInv
<1>2. CASE load' = NoLoad
  BY <1>1, <1>2, NothingFits DEF NoLoad
<1>3. CASE AppendBytes
  <2>1. load'.from = 0 /\ load'.to = offset /\ offset = Bytes /\ routine \in Strncats
    BY <1>3 DEF AppendBytes, NoLoad, IInv
  <2>2. CASE size = 0
    BY <2>1, <2>2 DEF Fits, SmallAndStrict, StrictStrncpy, Strncats
  <2>3. CASE size # 0
    <3>1. offset - 1 <= End /\ 0 < size
      BY <1>1, <2>1, <2>3 DEF Bytes, End, Least
    <3>. QED  BY <1>1, <2>1, <3>1, FitsUpToEnd
  <2>. QED  BY <2>2, <2>3
<1>4. CASE StartSmallStrict
  <2>1. SmallAndStrict /\ SmallStrncpy(0) /\ 0 < size
    BY <1>4 DEF StartSmallStrict, SmallAndStrict, Copying
  <2>2. load'.from = 0 /\ load'.to <= size
    BY <1>1, <2>1, SmallReads DEF SmallAndStrict
  <2>. QED  BY <2>1, <2>2 DEF Fits
<1>5. CASE StartNearEndOfPage
  BY <1>5, NearEndFits
<1>6. CASE FirstSmall
  <2>1. /\ AtFirst /\ Avx2 /\ size < YMM_SZ /\ SmallStrncpy(0)
        /\ ~SmallAndStrict /\ 0 < size
        /\ pc = "first" => Ahead < size
    BY <1>6 DEF FirstSmall, AtFirst, SmallAndStrict, PageInv, Copying, IInv, Ready
  <2>2. load'.from = 0 /\ load'.to \in Int /\ load'.to <= CopyVec
    BY <1>1, <2>1, SmallReads
  <2>. QED  BY <2>1, <2>2, FirstFits
<1>7. CASE FirstVector
  <2>1. AtFirst /\ ~SmallAndStrict
    BY <1>7 DEF FirstVector, AtFirst, SmallAndStrict, PageInv
  <2>2. PICK t \in Nat : t = Least(size, CopyVec) /\ t <= size /\ t <= CopyVec
    BY <1>1 DEF Least
  <2>3. Loaded(Vecs(0, 1, t), 1, {})
    BY <1>7, <2>2 DEF FirstVector
  <2>4. load'.from = 0 /\ load'.to = t
    BY <2>3, LoadedVector
  <2>. QED  BY <2>1, <2>2, <2>4, FirstFits
<1>8. CASE Vector \/ RestVector
  <2>1. /\ pc \in {"vecs", "rest"} /\ offset < size /\ (str1 + offset) % CopyVec = 0
        /\ \E S : Loaded(Vecs(offset, 1, CopyVec), 1, S)
    BY <1>1, <1>8 DEF Vector, RestVector, IInv
  <2>2. load'.from = offset /\ load'.to = offset + CopyVec
    BY <1>1, <2>1, LoadedVector
  <2>. QED  BY <1>1, <2>1, <2>2, LoopLoadFits
<1>9. CASE Group
  <2>1. /\ pc = "groups" /\ offset < size /\ (str1 + offset) % (4 * CopyVec) = 0
        /\ Loaded(Vecs(offset, 4, CopyVec), 0, {str1})
    BY <1>1, <1>9 DEF Group, PageInv
  <2>2. load'.from = offset /\ load'.to = offset + 4 * CopyVec
    BY <1>1, <2>1, LoadedGroup
  <2>. QED  BY <1>1, <2>1, <2>2, LoopLoadFits
<1>10. CASE RestSmall
  <2>1. /\ pc = "rest" /\ offset < size /\ (str1 + offset) % CopyVec = 0
        /\ size - offset < CopyVec
    BY <1>1, <1>10 DEF RestSmall, IInv
  <2>2. load'.from = offset /\ load'.to \in Int /\ load'.to <= offset + CopyVec
    <3>1. CASE Avx2
      BY <1>1, <1>10, <2>1, <3>1, SmallReads DEF RestSmall
    <3>2. CASE ~Avx2
      <4>1. PICK n \in Nat : n = size - offset
        BY <1>1, <2>1
      <4>2. Loaded(Vecs(offset, 1, n), 1, {})
        BY <1>10, <3>2, <4>1 DEF RestSmall
      <4>3. load'.from = offset /\ load'.to = offset + n
        BY <1>1, <4>2, LoadedVector
      <4>. QED  BY <1>1, <2>1, <4>1, <4>3
    <3>. QED  BY <3>1, <3>2
  <2>. QED  BY <1>1, <2>1, <2>2, LoopLoadFits
<1>. QED
  BY <1>2, <1>3, <1>4, <1>5, <1>6, <1>7, <1>8, <1>9, <1>10
  DEF StepStringCopy, CopyNothing, StartStrcat, StartStrncat, Terminate, LeaveVectors,
      LeaveGroups, NothingRests, Pad

-----------------------------------------------------------------------------
\* Only pages are read in which the source has a byte, and with strict bounds no byte
\* behind the n of a few: for every string, bound, position in a page, register size
\* and page size.
THEOREM StringCopiesStayInSource == Spec => []StaysInSource
<1>1. StringInit => PageInv /\ StaysInSource
  <2>. SUFFICES ASSUME StringInit  PROVE PageInv /\ StaysInSource
    OBVIOUS
  <2>1. CallInv /\ pc = "start" /\ load = NoLoad
    BY InitHolds DEF IInv, StringInit, Init
  <2>2. Fits(0, 0)
    BY <2>1, NothingFits
  <2>. QED
    BY <2>1, <2>2
    DEF PageInv, Fits, StaysInSource, ReadsOnlyStringsPages, SmallAndStrict, End, NoLoad
<1>2. IInv /\ PageInv /\ StaysInSource /\ [Next]_stringVars => PageInv' /\ StaysInSource'
  <2>. SUFFICES ASSUME IInv, PageInv, StaysInSource, [Next]_stringVars
                PROVE  PageInv' /\ StaysInSource'
    OBVIOUS
  <2>1. PageInv'
    BY PagesInductive
  <2>2. CallInv
    BY DEF IInv
  <2>3. CASE UNCHANGED stringVars
    BY <2>1, <2>3
    DEF stringVars, vars, call, StaysInSource, ReadsOnlyStringsPages, StrictStrncpy, PageOf
  <2>4. CASE StepStringCopy
    <3>1. Kept
      BY <2>4, StepKeeps
    <3>2. Fits(load'.from, load'.to)
      <4>1. CASE load' = load
        BY <4>1
        DEF Fits, StaysInSource, ReadsOnlyStringsPages, SmallAndStrict, End
      <4>2. CASE load' # load
        BY <2>4, <4>2, StepFits
      <4>. QED  BY <4>1, <4>2
    <3>. QED  BY <2>1, <2>2, <3>1, <3>2, FitsIsEnough
  <2>. QED  BY <2>3, <2>4 DEF Next, Returned
<1>. QED  BY <1>1, <1>2, StringInvariance, PTL DEF Spec

-----------------------------------------------------------------------------
(***************************************************************************)
(* Types.                                                                  *)
(***************************************************************************)
\* The destination is as the caller left it.
Untouched == \A i \in DOMAIN out : out[i] \in {Old, Nul}

TypeInv ==
  /\ size < SizeSpan /\ dst_len + first + PAGE_SZ <= SizeSpan
  /\ at \in {0, dst_len}
  /\ OffsetWithin
  /\ pc \in {"start", "strcpy", "memcpy", "first"} \/ (pc = "terminate" /\ offset = 0) =>
       Untouched

LEMMA NothingTouched ==
  ASSUME Untouched, Store({}, {})
  PROVE  Untouched'
BY DEF Untouched, Store

LEMMA SmallKeepsAt ==
  ASSUME NEW o, SmallStrncpy(o)
  PROVE  at' = at
BY DEF SmallStrncpy, SmallStrncpyAtOnce, SmallStrncpyByHalves, StoreEnd, StoreAndReturn

LEMMA TypesFollow ==
  ASSUME IInv, TypeInv
  PROVE  TypeOK
<1>1. /\ CopyVec \in Nat /\ CopyVec < PAGE_SZ /\ SizeSpan \in Nat /\ PAGE_SZ \in Nat
      /\ CallInv /\ size \in Nat /\ first \in Nat /\ dst_len \in Nat /\ offset \in Nat
      /\ Bytes \in Nat /\ Bytes <= first /\ Received \in Nat
      /\ dst_len + Received <= SizeSpan /\ dst_len + first + PAGE_SZ <= SizeSpan
      /\ size < SizeSpan
  <2>1. CallInv /\ offset \in Nat
    BY DEF IInv
  <2>2. routine \in Strncpys => dst_len = 0
    BY <2>1 DEF CallInv, Appends, Strncpys, Strcats, Strncats
  <2>. QED
    BY <2>1, <2>2, SpanAssumption, PageAssumption, VecSizes, BytesBound
    DEF TypeInv, CallInv, Received
<1>2. offset \in 0 .. SizeSpan - 1
  BY <1>1 DEF TypeInv, OffsetWithin
<1> DEFINE Contents == 0 .. first - 1 \cup {Old, Nul}
           Good(i) == i \in 0 .. SizeSpan - 1 /\ out[i] \in Contents
<1>3. ASSUME NEW o, CopiedUpTo(o), o = 0 => Untouched, NEW i \in DOMAIN out  PROVE Good(i)
  <2>1. CASE o = 0 /\ i = dst_len
    BY <1>1, <1>3, <2>1 DEF Untouched
  <2>2. CASE i \in 0 .. dst_len + Bytes - 1 /\ out[i] = IF i < dst_len THEN Old ELSE i - dst_len
    BY <1>1, <2>2
  <2>. QED  BY <1>3, <2>1, <2>2 DEF CopiedUpTo
<1>4. ASSUME NEW i \in 0 .. dst_len + Received - 1, out[i] = Target[i]  PROVE Good(i)
  BY <1>1, <1>4, TargetIs
<1>. HIDE DEF Good
<1>5. ASSUME NEW i \in DOMAIN out  PROVE Good(i)
  <2>1. CASE pc = "start"
    <3>1. out[i] \in {Old, Nul}
      BY <2>1 DEF TypeInv, Untouched
    <3>2. i \in 0 .. dst_len
      BY <2>1, <1>1 DEF IInv, Held
    <3>. QED  BY <1>1, <3>1, <3>2 DEF Good
  <2>2. CASE pc \in {"strcpy", "first", "memcpy"}
    BY <1>3, <2>2 DEF IInv, TypeInv
  <2>3. CASE pc = "terminate"
    BY <1>3, <2>3 DEF IInv, TypeInv
  <2>4. CASE pc \in {"vecs", "groups", "rest"}
    <3>1. CopiedUpTo(Least(offset, size)) /\ Least(offset, size) # 0
      BY <1>1, <2>4 DEF IInv, Ready, Least
    <3>. QED  BY <1>3, <3>1
  <2>5. CASE pc = "pad"
    <3>1. Received = size /\ dst_len = 0
      BY <1>1, <2>5
      DEF IInv, Padded, Received, CallInv, Appends, Strncpys, Strcats, Strncats
    <3>2. i \in 0 .. size - 1 /\ out[i] = Target[i]
      BY <2>5 DEF IInv, Padded
    <3>. QED  BY <1>1, <1>4, <3>1, <3>2
  <2>6. CASE pc = "done"
    <3>1. out = Target
      BY <2>6 DEF IInv
    <3>2. i \in 0 .. dst_len + Received - 1
      BY <1>1, <3>1, TargetIs
    <3>. QED  BY <1>4, <3>1, <3>2
  <2>. QED  BY <2>1, <2>2, <2>3, <2>4, <2>5, <2>6 DEF IInv, Loops
<1>6. routine \in StringCopies /\ pc \in {"start", "done"} \cup Loops /\ at \in {0, dst_len}
  BY <1>1 DEF IInv, TypeInv, CallInv
<1>. QED  BY <1>2, <1>5, <1>6 DEF TypeOK, Good

\* Where the source is read on to its end, a step goes no further than a vector behind it.
LEMMA StepWithin ==
  ASSUME IInv, IInv', OffsetWithin, StepStringCopy
  PROVE  OffsetWithin'
<1>1. /\ CopyVec \in Nat /\ CopyVec > 0 /\ size \in Nat /\ first \in Nat /\ str2 \in Nat
      /\ offset \in Nat /\ CallInv
  BY VecSizes DEF IInv, CallInv
<1>2. Kept /\ size' = size /\ first' = first /\ CopyVec' = CopyVec
  BY <1>1, StepKeeps, CallKept
<1>3. offset' = offset => OffsetWithin'
  BY <1>2 DEF OffsetWithin
<1>4. CASE CopyNothing \/ StartStrcat \/ AppendBytes \/ Terminate \/ LeaveVectors
           \/ LeaveGroups \/ NothingRests
  BY <1>3, <1>4
  DEF CopyNothing, StartStrcat, AppendBytes, Terminate, LeaveVectors, LeaveGroups,
      NothingRests, StoreAndReturn, StoreAndGoOn
<1>5. CASE StartStrncat
  BY <1>1, <1>2, <1>5 DEF StartStrncat, Least, OffsetWithin
<1>6. CASE StartSmallStrict \/ FirstSmall
  BY <1>6, StartSmallStrictHolds, FirstSmallHolds
<1>7. ASSUME NEW o, EndFrom(o), Ready  PROVE OffsetWithin'
  BY <1>1, <1>7, StoreEndWithin DEF EndFrom
<1>8. CASE StartNearEndOfPage \/ FirstVector
  <2>1. Ready
    BY <1>8, ReadyToCopy DEF StartNearEndOfPage, FirstVector, AtFirst, IInv
  <2>2. Ahead \in 1 .. CopyVec
    BY <1>1, AheadAligned
  <2>3. EndFrom(0) \/ offset' \in {offset, 0, Ahead}
    BY <1>8 DEF StartNearEndOfPage, FirstVector, StoreAndReturn, StoreAndGoOn
  <2>. QED  BY <1>1, <1>2, <1>3, <1>7, <2>1, <2>2, <2>3 DEF OffsetWithin
<1>9. CASE Vector \/ Group \/ RestVector \/ (RestSmall /\ ~Avx2)
  <2>1. pc \in {"vecs", "groups", "rest"} /\ offset < size
    BY <1>1, <1>9 DEF Vector, Group, RestVector, RestSmall
  <2>2. InLoop
    BY <2>1 DEF IInv, InLoop
  <2>3. Ready
    BY <2>2 DEF InLoop
  <2>4. \/ EndFrom(offset)
        \/ \E O : StoreEnd(O, first + 1)
        \/ offset' = offset
        \/ offset' = offset + CopyVec /\ pc' \in {"vecs", "rest"}
        \/ offset' = offset + 4 * CopyVec /\ offset + 4 * CopyVec <= size
    BY <1>9 DEF Vector, Group, RestVector, RestSmall, StoreAndReturn, StoreAndGoOn
  <2>5. CASE \E O : StoreEnd(O, first + 1)
    BY <1>1, <2>3, <2>5, StoreEndWithin
  <2>6. CASE offset' = offset + CopyVec /\ pc' \in {"vecs", "rest"}
    <3>1. InLoop'
      BY <2>6 DEF IInv, InLoop
    <3>2. CopiedUpTo(Least(offset, size))'
      BY <3>1 DEF InLoop
    <3>3. Least(offset', size) <= first
      BY <1>1, <1>2, <3>2, BytesBound, CallKept DEF CopiedUpTo, Least
    <3>. QED  BY <1>1, <1>2, <2>1, <2>6, <3>3 DEF Least, OffsetWithin
  <2>. QED  BY <1>1, <1>2, <1>3, <1>7, <2>3, <2>4, <2>5, <2>6 DEF OffsetWithin
<1>10. CASE RestSmall /\ Avx2
  <2>1. InLoop /\ pc = "rest" /\ offset < size /\ size < offset + CopyVec /\ routine \in Strncpys
    BY <1>10 DEF IInv, RestSmall, InLoop
  <2>2. PICK a \in Nat : a = offset
    BY <1>1
  <2>3. SmallStrncpy(a) /\ Ready
    BY <1>10, <2>1, <2>2 DEF RestSmall, InLoop
  <2>4. CopiedUpTo(a) /\ a < size /\ size - a < YMM_SZ
    BY <1>1, <1>10, <2>1, <2>2, LoopFacts, VecSizes
  <2>. QED  BY <1>1, <1>10, <2>1, <2>3, <2>4, SmallHolds
<1>11. CASE Pad
  BY <1>1, <1>2, <1>3, <1>11 DEF Pad, StoreAndReturn, OffsetWithin
<1>. QED
  BY <1>4, <1>5, <1>6, <1>8, <1>9, <1>10, <1>11 DEF StepStringCopy

LEMMA StepKeepsTypes ==
  ASSUME IInv, IInv', TypeInv, [Next]_stringVars
  PROVE  TypeInv'
<1>1. CASE UNCHANGED stringVars
  BY <1>1 DEF stringVars, vars, call, TypeInv, OffsetWithin, CopyVec, Avx2, Untouched
<1>2. CASE StepStringCopy
  <2>1. Kept /\ CallInv
    BY <1>2, StepKeeps DEF IInv
  <2>2. /\ size' = size /\ first' = first /\ dst_len' = dst_len
    BY <2>1, CallKept
  <2>3. OffsetWithin'
    BY <1>2, StepWithin DEF TypeInv
  <2>4. at' \in {0, dst_len}
    BY <1>2, SmallKeepsAt
    DEF TypeInv, StepStringCopy, CopyNothing, StartStrcat, StartStrncat, AppendBytes,
        Terminate, StartSmallStrict, StartNearEndOfPage, FirstSmall, FirstVector, Vector,
        LeaveVectors, Group, LeaveGroups, RestVector, RestSmall, NothingRests, Pad,
        StoreAndReturn, StoreAndGoOn, StoreEnd, EndFrom, Keep
  <2>5. ASSUME pc' \in {"start", "strcpy", "memcpy", "first"}
               \/ (pc' = "terminate" /\ offset' = 0)
        PROVE  Untouched'
    <3>1. CASE StartStrcat \/ StartStrncat
      BY <3>1 DEF StartStrcat, StartStrncat, Called, TypeInv, Untouched
    <3>2. CASE AppendBytes
      <4>1. Store({}, {}) /\ Untouched
        BY <2>5, <3>2 DEF AppendBytes, StoreAndGoOn, TypeInv, Block
      <4>. QED  BY <4>1, NothingTouched
    <3>3. CASE StartNearEndOfPage
      <4>1. Store({}, {}) /\ Untouched
        BY <2>5, <3>3, StoreEndLeaves
        DEF StartNearEndOfPage, StoreAndGoOn, StoreAndReturn, EndFrom, TypeInv, Copying, Called
      <4>. QED  BY <4>1, NothingTouched
    <3>4. CASE ~(StartStrcat \/ StartStrncat \/ AppendBytes \/ StartNearEndOfPage)
      <4>1. pc' \in {"vecs", "groups", "rest", "pad", "done"}
        BY <1>2, <3>4, StoreEndLeaves, SmallLeaves
        DEF StepStringCopy, CopyNothing, Terminate, StartSmallStrict, FirstSmall,
            FirstVector, Vector, LeaveVectors, Group, LeaveGroups, RestVector, RestSmall,
            NothingRests, Pad, StoreAndReturn, StoreAndGoOn, EndFrom
      <4>. QED  BY <2>5, <4>1
    <3>. QED  BY <3>1, <3>2, <3>3, <3>4
  <2>. QED  BY <2>2, <2>3, <2>4, <2>5 DEF TypeInv
<1>. QED  BY <1>1, <1>2 DEF Next, Returned

LEMMA InitialTypes ==
  ASSUME StringInit
  PROVE  TypeInv
<1>1. IInv
  BY InitHolds
<1>2. PICK c \in CallSets : size \in c.sizes /\ first \in c.firsts
  BY DEF StringInit, Init
<1>3. /\ pc = "start" /\ offset = 0 /\ at = 0
      /\ dst_len \in DstLens \cup {0}
      /\ out = IF Appends THEN Held(dst_len) ELSE << >>
  BY DEF StringInit, Init, Appends
<1>4. size < SizeSpan /\ dst_len + first + PAGE_SZ <= SizeSpan
  <2>1. size \in 0 .. SizeSpan - 1 /\ dst_len + first + PAGE_SZ <= SizeSpan
    BY <1>2, <1>3, CallsAssumption, SpanAssumption
  <2>. QED  BY <2>1, SpanAssumption
<1>5. OffsetWithin
  BY <1>1, <1>3 DEF IInv, CallInv, OffsetWithin
<1>6. Untouched
  <2>1. CASE Appends
    BY <1>3, <2>1 DEF Held, Untouched
  <2>2. CASE ~Appends
    <3>1. DOMAIN out = {}
      BY <1>3, <2>2
    <3>. QED  BY <3>1 DEF Untouched
  <2>. QED  BY <2>1, <2>2
<1>. QED  BY <1>3, <1>4, <1>5, <1>6 DEF TypeInv

\* Every offset, and every offset in the destination that is written, is a size_t, and the
\* destination receives bytes of the string and zeros only: for every string, bound,
\* alignment and register size.
THEOREM StringCopiesTypes == Spec => []TypeOK
<1>1. StringInit => TypeInv
  BY InitialTypes
<1>2. IInv /\ IInv' /\ TypeInv /\ [Next]_stringVars => TypeInv'
  BY StepKeepsTypes
<1>3. IInv /\ TypeInv => TypeOK
  BY TypesFollow
<1>. QED  BY <1>1, <1>2, <1>3, StringInvariance, PTL DEF Spec

=============================================================================
