----------------------------- MODULE StringSpec -----------------------------
(***************************************************************************)
(* What strcpy, strncpy, strcat and strncat promise: in one indivisible    *)
(* step the destination receives a copy of the source's string behind the  *)
(* string it holds already, strncpy fills the rest of its n bytes with     *)
(* zeros, the others end it with one, and no byte beside these changes.    *)
(*                                                                         *)
(* out is the destination: the content of each of its bytes that has one,  *)
(* which is the offset of a source byte, Old or Nul.                       *)
(***************************************************************************)
EXTENDS Integers

CONSTANTS
  Old,  \* a byte of the string that strcat appends to
  Nul   \* the terminator, and every byte of the padding

VARIABLES
  pads,     \* whether the function is strncpy
  len,      \* length of the source's string
  n,        \* its bound; as large as no string for strcpy and strcat
  dst_len,  \* length of the string in the destination; 0 for strcpy and strncpy
  out,
  status

vars == <<pads, len, n, dst_len, out, status>>

\* A destination to append to holds a string.
Empty == << >>
Held(k) == [i \in 0 .. k |-> IF i < k THEN Old ELSE Nul]

Promised(pad, l, bound, k) ==
  LET copied == IF l < bound THEN l ELSE bound
  IN  [i \in 0 .. (IF pad THEN bound - 1 ELSE k + copied) |->
         IF i < k THEN Old ELSE IF i < k + copied THEN i - k ELSE Nul]

Init ==
  /\ pads \in BOOLEAN
  /\ len \in Nat /\ n \in Nat /\ dst_len \in Nat
  /\ out \in {Empty, Held(dst_len)}
  /\ status = "called"

Copy ==
  /\ status = "called"
  /\ out' = Promised(pads, len, n, dst_len)
  /\ status' = "copied"
  /\ UNCHANGED <<pads, len, n, dst_len>>

Spec == Init /\ [][Copy]_vars

=============================================================================
