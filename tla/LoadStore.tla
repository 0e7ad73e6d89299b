----------------------------- MODULE LoadStore -----------------------------
(***************************************************************************)
(* The register-level building blocks of the copy routines                 *)
(* (base_impls/load_store_impls.h): every block copy of the library is a   *)
(* group of vector loads from load_addr followed, behind a compiler        *)
(* barrier, by a group of stores of the same registers at the same offsets *)
(* from store_addr.                                                        *)
(*                                                                         *)
(* No copy routine inspects a data byte, so a byte is represented by its   *)
(* ORIGIN: the address at which it lay when the routine was called.  In    *)
(* particular mem[a] = a says that a still holds its initial byte, whatever*)
(* that byte is, so one run of the model stands for all buffer contents.   *)
(***************************************************************************)
EXTENDS Integers

CONSTANTS
  MemSz,  \* number of bytes of the address space in view
  Calls   \* the argument records [dst, src, size] the routine is called with

Addr == 0 .. MemSz - 1

\* A caller owns both of the buffers it passes.
ASSUME MemSzAssumption == MemSz \in Nat

ASSUME CallsAssumption ==
  \A c \in Calls :
    /\ c.dst \in Nat /\ c.src \in Nat /\ c.size \in Nat
    /\ c.dst + c.size <= MemSz
    /\ c.src + c.size <= MemSz

VARIABLES
  mem,     \* [Addr -> Addr]: the origin of the byte each address holds
  dst,     \* arguments of the call in progress
  src,
  size,
  ret,     \* the value in rax
  pc,      \* the point the routine has reached
  offset,  \* loop variable: "offset" of a forward, "size" of a backward loop
  loop,    \* the load/store loop running
  save,    \* registers loaded before a loop and stored after it
  acc      \* ghost: the last group of memory accesses

copyVars == <<mem, dst, src, size, ret, pc, offset, loop, save, acc>>

Untouched == [a \in Addr |-> a]

\* The memory after n bytes have been moved from s to d: what memcpy and
\* memmove promise.
Moved(d, s, n) ==
  [a \in Addr |-> IF a - d \in 0 .. n - 1 THEN s + (a - d) ELSE a]

\* The bytes O of a source s as they were at the call.
Original(s, O) == [i \in O |-> s + i]

\* Memory m part way through a copy of n bytes from s to d: exactly the bytes
\* D have been delivered, and nothing else has been written.
Partial(m, d, s, n, D) ==
  /\ d \in Nat /\ s \in Nat /\ n \in Nat
  /\ d + n <= MemSz /\ s + n <= MemSz
  /\ D \subseteq 0 .. n - 1
  /\ m \in [Addr -> Addr]
  /\ \A i \in D : m[d + i] = s + i
  /\ \A a \in Addr : a - d \notin D => m[a] = a

\* Of the copy in progress exactly the bytes D have been delivered.
Progress(D) == Partial(mem, dst, src, size, D)

-----------------------------------------------------------------------------
(***************************************************************************)
(* Offsets touched by one load/store group.                                *)
(***************************************************************************)

\* n consecutive bytes from offset o
Block(o, n) == o .. o + n - 1

\* The first k and the last k of n bytes: VEC_2X/4X/8X_LOAD_STORE_HEAD_TAIL
\* with k = 1, 2 and 4 vectors.
Ends(k, n) == Block(0, k) \cup Block(n - k, k)

\* The registers a group of loads fills, keyed by the offset of each byte.
Load(O) == [i \in O |-> mem[src + i]]

\* Memory m after registers r have been stored at d.
Stored(m, d, r) == [a \in Addr |-> IF a - d \in DOMAIN r THEN r[a - d] ELSE m[a]]

\* Memory m after the bytes O from s have been loaded, and stored at d.
Transferred(m, d, s, O) ==
  [a \in Addr |-> IF a - d \in O THEN m[s + (a - d)] ELSE m[a]]

-----------------------------------------------------------------------------
(***************************************************************************)
(* Load/store loops.  A loop moves "step" bytes per iteration with vectors *)
(* of "vec" bytes; ALIGNED and STREAM (non-temporal) instructions fault    *)
(* unless the address is a multiple of vec.                                *)
(***************************************************************************)
Loop(vecs, vec, ld, st) ==
  [step |-> vecs * vec, vec |-> vec, ld |-> ld, st |-> st]

Unaligned == Loop(0, 1, "UNALIGNED", "UNALIGNED")

\* One load/store group over the offsets O whose first vector is at `at'.
Access(O, at, kind) ==
  acc' = [off |-> O, at |-> at, kind |-> kind]

Move(O, at, kind) ==
  /\ mem' = Transferred(mem, dst, src, O)
  /\ Access(O, at, kind)

\* VEC_nX_LOAD_STORE_LOOP: one iteration of "while (offset < end)".
Forward(end) ==
  /\ offset < end
  /\ Move(Block(offset, loop.step), offset, loop)
  /\ offset' = offset + loop.step

\* A backward loop that runs into its first iteration's vectors.
BackwardTooFar(start) ==
  /\ 0 < offset
  /\ Move(Block(offset - loop.step, loop.step), offset - loop.step, loop)
  /\ offset' = offset - loop.step

\* A backward loop that forgets to count its bytes.
BackwardStuck(start) ==
  /\ start < offset
  /\ Move(Block(offset - loop.step, loop.step), offset - loop.step, loop)
  /\ offset' = offset

\* VEC_nX_LOAD_STORE_LOOP_BKWD: one iteration of "while (start < size)",
\* size being the bytes that are left.
Backward(start) ==
  /\ start < offset
  /\ Move(Block(offset - loop.step, loop.step), offset - loop.step, loop)
  /\ offset' = offset - loop.step

-----------------------------------------------------------------------------
(***************************************************************************)
(* Calling and returning.  Between calls the program may write anything    *)
(* into its buffers: every byte is tagged by its address again.            *)
(***************************************************************************)
NoAccess == [off |-> {}, at |-> 0, kind |-> Unaligned]

CopyInit ==
  /\ mem = Untouched
  /\ dst = 0 /\ src = 0 /\ size = 0 /\ ret = 0
  /\ pc = "idle"
  /\ offset = 0
  /\ loop = Unaligned
  /\ save = << >>
  /\ acc = NoAccess

Call(c) ==
  /\ pc = "idle"
  /\ dst' = c.dst /\ src' = c.src /\ size' = c.size
  /\ pc' = "start"
  /\ UNCHANGED <<mem, ret, offset, loop, save, acc>>

Return ==
  /\ pc = "done"
  /\ mem' = Untouched
  /\ dst' = 0 /\ src' = 0 /\ size' = 0 /\ ret' = 0
  /\ pc' = "idle"
  /\ offset' = 0
  /\ loop' = Unaligned
  /\ save' = << >>
  /\ acc' = NoAccess

\* A path of the routine that is a single load/store group.
MoveAndReturn(O, value) ==
  /\ Move(O, 0, Unaligned)
  /\ ret' = value
  /\ pc' = "done"
  /\ UNCHANGED <<dst, src, size, offset, loop, save>>

-----------------------------------------------------------------------------
(***************************************************************************)
(* What every copy routine must satisfy, whatever its branches.            *)
(***************************************************************************)

\* No load and no store of a routine leaves the bytes its caller passed:
\* the overlapping head/tail groups and the last loop iteration are placed
\* so that they end exactly at the buffers' ends.
InBounds == acc.off \subseteq 0 .. size - 1

\* The loops that use aligned or non-temporal instructions are entered only
\* with an offset that makes every address they touch aligned; otherwise
\* the instruction faults.
NoAlignmentFault ==
  /\ acc.kind.ld # "UNALIGNED" => (src + acc.at) % acc.kind.vec = 0
  /\ acc.kind.st # "UNALIGNED" => (dst + acc.at) % acc.kind.vec = 0

\* While a routine is running, an overlapping copy never destroys the last
\* copy of a byte it still has to deliver: each byte is already in place,
\* still at its source, or in a register that will be stored.
NothingLost ==
  pc # "idle" =>
    \A i \in 0 .. size - 1 :
      \/ mem[dst + i] = src + i
      \/ mem[src + i] = src + i
      \/ i \in DOMAIN save /\ save[i] = src + i

=============================================================================
