------------------------------ MODULE CopySpec ------------------------------
(***************************************************************************)
(* What memcpy, mempcpy and memmove promise: between the call and the      *)
(* return the destination receives, in one indivisible step, the bytes the *)
(* source held at the call, no other byte changes, and the result is dst   *)
(* (memcpy, memmove) or dst + size (mempcpy).                              *)
(***************************************************************************)
EXTENDS Integers

CONSTANTS MemSz, ReturnsEnd

Addr == 0 .. MemSz - 1

VARIABLES mem, dst, src, size, ret, status

vars == <<mem, dst, src, size, ret, status>>

Untouched == [a \in Addr |-> a]

Init ==
  /\ mem = Untouched
  /\ dst = 0 /\ src = 0 /\ size = 0 /\ ret = 0
  /\ status = "idle"

\* Any two buffers of the caller's, apart, overlapping or equal.
Call ==
  /\ status = "idle"
  /\ dst' \in Nat /\ src' \in Nat /\ size' \in Nat
  /\ dst' + size' <= MemSz /\ src' + size' <= MemSz
  /\ status' = "called"
  /\ UNCHANGED <<mem, ret>>

Copy ==
  /\ status = "called"
  /\ mem' = [a \in Addr |->
               IF a - dst \in 0 .. size - 1 THEN mem[src + (a - dst)] ELSE mem[a]]
  /\ ret' = IF ReturnsEnd THEN dst + size ELSE dst
  /\ status' = "copied"
  /\ UNCHANGED <<dst, src, size>>

Return ==
  /\ status = "copied"
  /\ status' = "idle"
  /\ mem' = Untouched
  /\ dst' = 0 /\ src' = 0 /\ size' = 0 /\ ret' = 0

Next == Call \/ Copy \/ Return

\* What may happen, and what must.
Safety == Init /\ [][Next]_vars

Spec == Safety /\ WF_vars(Copy) /\ WF_vars(Return)

=============================================================================
