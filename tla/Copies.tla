------------------------------- MODULE Copies -------------------------------
(***************************************************************************)
(* The AVX2, zen4, generic AVX-512 and zen5 copy routines and the tunable  *)
(* variants, any of which may be the one a call is dispatched to.  The     *)
(* limits a call runs under are whatever libmem_init has configured by     *)
(* then.                                                                   *)
(***************************************************************************)
EXTENDS MemcpyAvx2, MemcpyZen4, MemcpyAvx512, TunableCopies

CONSTANTS
  LimitSets,     \* values limits may have
  ThresholdSets, \* [rep_start, rep_stop, nt_start, nt_stop] of a user
  TunableCalls   \* the calls that the tunable variants execute

ASSUME TunableCallsAssumption ==
  \A c \in TunableCalls :
    /\ c.dst \in Nat /\ c.src \in Nat /\ c.size \in Nat
    /\ c.dst + c.size <= MemSz
    /\ c.src + c.size <= MemSz

copiesVars == <<vars, variant>>

Optimized == Avx2Routines \cup Zen4Routines \cup Avx512Routines \cup ErmsRoutines
Variants == VectorVariants \cup ErmsVariants \cup {"threshold"}

\* The other variants read no limit.
NoLimits == [nt_start |-> 0, l1d |-> 0, l2 |-> 0]

\* Only memmove may be called with overlapping buffers.
Allowed(r, c) ==
  r \in Memmoves \/ c.dst + c.size <= c.src \/ c.src + c.size <= c.dst

\* The arguments of the call.
With(c) == dst = c.dst /\ src = c.src /\ size = c.size

CallOptimized ==
  /\ \E c \in Calls, r \in Optimized : Allowed(r, c) /\ With(c) /\ routine = r
  /\ limits \in LimitSets
  /\ variant = "none"

CallTunable ==
  /\ \E c \in TunableCalls, r \in TunableRoutines, v \in Variants :
       Allowed(r, c) /\ Granted(v, c) /\ With(c) /\ routine = r /\ variant = v
  /\ IF variant = "threshold" THEN limits \in ThresholdSets ELSE limits = NoLimits

\* The routines keep nothing between calls: a behaviour is one call, and any.
Init ==
  /\ mem = Untouched /\ ret = 0 /\ offset = 0
  /\ loop = Unaligned /\ save = << >> /\ acc = NoAccess
  /\ pc = "start"
  /\ CallOptimized \/ CallTunable

StepOptimized ==
  /\ StepAvx2 \/ StepZen4 \/ StepAvx512 \/ StepErms \/ StoreKept
  /\ UNCHANGED variant

Step == StepOptimized \/ StepTunable

\* Nothing is left to do.
Returned == pc = "done" /\ UNCHANGED copiesVars

Next == Step \/ Returned

\* A call that has been made is executed: the thread keeps running.
Spec == Init /\ [][Next]_copiesVars /\ WF_copiesVars(Step)

-----------------------------------------------------------------------------
Paths ==
  {"avx2_l1", "avx2_far", "zen4_backward", "zen4_forward", "zen4_disjoint",
   "avx512_backward_aligned", "avx512_backward", "avx512_forward",
   "avx512_disjoint", "avx512_rest", "zen5_backward", "zen5_forward",
   "zen5_forward_large", "zen5_vector", "zen5_stream", "between", "forward",
   "backward", "rep", "rep_back"}

TypeOK ==
  /\ mem \in [Addr -> Addr]
  /\ dst \in 0 .. MemSz /\ src \in 0 .. MemSz /\ size \in 0 .. MemSz
  /\ ret \in -1 .. MemSz  \* -1: the last byte of no bytes at address 0 (RepMovsBack)
  /\ pc \in {"start", "kept", "done"} \cup Paths
  /\ offset \in 0 .. size
  /\ DOMAIN save \subseteq 0 .. size - 1
  /\ routine \in Optimized \cup TunableRoutines
  /\ variant \in Variants \cup {"none"}
  /\ limits \in LimitSets \cup ThresholdSets \cup {NoLimits}

\* When a copy returns, the destination holds the bytes the source held at
\* the call and every other byte is as it was: for every split of the size
\* into prologue, iterations, tail and kept vectors, and for memmove under
\* every overlap.  memcpy and memmove return the destination, mempcpy its end,
\* but for the variants by rep movs.
CopyIsCorrect ==
  pc = "done" =>
    /\ mem = Moved(dst, src, size)
    /\ variant \notin ErmsVariants => ret = Result

\* Every call returns: no loop of any path runs forever.
CallsReturn == (pc = "start") ~> (pc = "done")

=============================================================================
