------------------------------ MODULE MCCopies ------------------------------
(***************************************************************************)
(* Four-byte vectors: paths change at 8, 16, 32 and 64 bytes.  The sizes    *)
(* above leave every number of vectors to a tail, and the limits select,   *)
(* between them, every loop of every routine.                              *)
(***************************************************************************)
EXTENDS Copies

RedZone == 8

MCSizes ==
  {0, 1, 3, 4, 7, 8, 9, 15, 16, 17, 31, 32, 33, 36, 39, 42, 45, 48, 64, 65, 70,
   75, 82, 90, 97}

MCDistances == {0, 1, 4, 6, 17, 36, 71, 100}

MCCalls ==
  { [dst |-> a + d, src |-> a, size |-> n] :
      a \in RedZone .. RedZone + ZMM_SZ - 1, d \in MCDistances, n \in MCSizes }
  \cup
  { [dst |-> a, src |-> a + d, size |-> n] :
      a \in RedZone .. RedZone + ZMM_SZ - 1, d \in MCDistances, n \in MCSizes }

\* The loops of the tunable variants run above 32 bytes; 8, 16 and 40 are whole
\* numbers of every rep-movs unit.
MCTunableSizes == {0, 1, 3, 7, 8, 9, 16, 17, 32, 33, 35, 38, 40, 52, 65}

MCTunableDistances == {0, 1, 4, 6, 17, 40, 66}

MCTunableCalls ==
  { [dst |-> a + d, src |-> a, size |-> n] :
      a \in RedZone .. RedZone + ZMM_SZ - 1, d \in MCTunableDistances, n \in MCTunableSizes }
  \cup
  { [dst |-> a, src |-> a + d, size |-> n] :
      a \in RedZone .. RedZone + ZMM_SZ - 1, d \in MCTunableDistances, n \in MCTunableSizes }

\* The system's configuration, and two of a user's, who leaves the cache sizes
\* unknown: a low threshold, and the 0 of an accepted LIBMEM_OPERATION.
MCLimits ==
  { [nt_start |-> 90, l1d |-> 48, l2 |-> 64],
    [nt_start |-> 64, l1d |-> 0, l2 |-> 0],
    [nt_start |-> 0, l1d |-> 0, l2 |-> 0] }

\* Each of the three ranges of a tunable call empty, in the middle, and reaching
\* its bound.
MCThresholds ==
  { [rep_start |-> 8, rep_stop |-> 33, nt_start |-> 38, nt_stop |-> 1000],
    [rep_start |-> 0, rep_stop |-> 0, nt_start |-> 0, nt_stop |-> 52] }

=============================================================================
