------------------------------ MODULE MCMemset ------------------------------
(***************************************************************************)
(* Eight-byte ZMM and four-byte YMM registers: paths change at 8, 16, 32   *)
(* and 64 bytes.  The destination aligned to a ZMM or a YMM register or    *)
(* to neither, one byte behind or before a ZMM boundary; sizes on both     *)
(* sides of every change and with every remainder of a vector.             *)
(***************************************************************************)
EXTENDS Memset

RedZone == 8

MCSizes ==
  0 .. 4 \cup {7, 8, 9, 12, 15, 16, 17, 31, 32, 33, 35, 47, 48, 49} \cup 63 .. 73
    \cup {80, 95, 96, 97, 104, 128}

MCCalls ==
  { [dst |-> RedZone + a, src |-> 0, size |-> n] :
      a \in {0, 1, 4, 7}, n \in MCSizes }

\* No range at all; a middle range; everything streamed; everything rep stos.
MCLimits ==
  { [l2 |-> 0, l3 |-> 0,
     rep_start |-> 0, rep_stop |-> 0, nt_start |-> 0, nt_stop |-> 0],
    [l2 |-> 96, l3 |-> 96,
     rep_start |-> 70, rep_stop |-> 96, nt_start |-> 70, nt_stop |-> 1000],
    [l2 |-> 96, l3 |-> 1000,
     rep_start |-> 1000, rep_stop |-> 1000, nt_start |-> 16, nt_stop |-> 1000],
    [l2 |-> 0, l3 |-> 0,
     rep_start |-> 0, rep_stop |-> 1000, nt_start |-> 0, nt_stop |-> 0] }

\* 5, and -128, which is no byte.
MCVals == {{0, 2}, 7 .. 63}

=============================================================================
