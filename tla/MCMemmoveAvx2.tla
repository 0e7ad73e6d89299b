--------------------------- MODULE MCMemmoveAvx2 ---------------------------
(***************************************************************************)
(* A small memmove: four-byte vectors, so that 8 * YMM_SZ = 32 and sizes   *)
(* up to 66 run the loops up to four times; every distance between the     *)
(* buffers from fully apart to equal, on both sides; every alignment.      *)
(***************************************************************************)
EXTENDS MemmoveAvx2

\* free bytes around the buffers, where a stray access would land
RedZone == 16

MCSizes == 0 .. 18 \cup 31 .. 36 \cup 47 .. 50 \cup 63 .. 66

MCDistances == 0 .. 8 \cup 15 .. 20 \cup 30 .. 36 \cup 46 .. 52 \cup 62 .. 68

MCCalls ==
  { [dst |-> a + d, src |-> a, size |-> n] :
      a \in RedZone .. RedZone + YMM_SZ - 1, d \in MCDistances, n \in MCSizes }
  \cup
  { [dst |-> a, src |-> a + d, size |-> n] :
      a \in RedZone .. RedZone + YMM_SZ - 1, d \in MCDistances, n \in MCSizes }

=============================================================================
