----------------------------- MODULE LibmemInit -----------------------------
(***************************************************************************)
(* The constructor libmem_init of the tunable build (libmem.c): it reads   *)
(* the CPU's features, parses LIBMEM_OPERATION and LIBMEM_THRESHOLD, sets  *)
(* the size thresholds and redirects the function pointers, one after the  *)
(* other, from the C library's functions to the library's own.  Any thread *)
(* may already be calling through a pointer while it runs.                 *)
(*                                                                         *)
(* A process may exec a program of the same name afterwards: the child     *)
(* runs the constructor again, on the environment its parent left it.      *)
(***************************************************************************)
EXTENDS Integers, Sequences

CONSTANTS
  Cpus,          \* processors: [amd, ebx, ecx, l2, l3], the registers of cpuid
                 \* leaf 7 as the sets of the feature bits they have
  Envs,          \* environments: [operation, threshold], each NULL or the
                 \* comma-separated fields of the variable's value
  NULL,
  ULLONG_MAX,    \* 2^64 - 1
  UINT_MAX,      \* 0xffffffff, the thresholds' static initialiser
  PastEnd,       \* characters that may lie behind the end of a literal
  MaxExecs       \* bound: generations of children

ASSUME LimitsAssumption ==
  /\ UINT_MAX \in Nat /\ ULLONG_MAX \in Nat /\ 32 < UINT_MAX
  /\ UINT_MAX < ULLONG_MAX

ASSUME CpusAssumption ==
  \A c \in Cpus : c.l2 \in 2048 .. ULLONG_MAX /\ c.l3 \in c.l2 .. ULLONG_MAX

ASSUME MaxExecsAssumption == MaxExecs \in Nat

\* A variable is absent, or a sequence of fields.
Environments ==
  [operation : {NULL} \cup Seq(STRING), threshold : {NULL} \cup Seq(STRING)]

ASSUME EnvsAssumption == Envs \subseteq Environments

\* func_index (libmem.h), in the order dispatcher_init assigns the pointers;
\* the first TUN_FUNC_COUNT of them have tunable variants.
Funcs == << "memcpy", "mempcpy", "memmove", "memset", "memcmp", "memchr",
            "strcpy", "strncpy", "strcmp", "strncmp", "strcat", "strncat",
            "strstr", "strlen", "strnlen", "strchr", "strspn" >>
TUN_FUNC_COUNT == 5
FuncNames == { Funcs[i] : i \in 1 .. Len(Funcs) }

CpuVariants == {"zen1", "zen2", "zen3", "zen4", "zen5", "system"}

VARIABLES
  cpu, env,
  pc,
  features,        \* zen_info.zen_cpu_features: the features ENABLED
  zen_thresholds,  \* zen_info.zen_thresholds
  user_config,     \* [operation: set of flags, src_aln, dst_aln, threshold]
  active_operation_cfg, active_threshold_cfg,
  thresholds,      \* __repmov_start_threshold and the five others
  variant,         \* the _<func>_variant pointers
  next,            \* index of the pointer dispatcher_init assigns next
  given,           \* ghost: the environment this process started with
  parents          \* ghost: the configurations its parents had, oldest first

ghosts == <<given, parents>>

vars == <<cpu, env, pc, features, zen_thresholds, user_config,
          active_operation_cfg, active_threshold_cfg, thresholds, variant,
          next, ghosts>>

ThresholdNames ==
  {"repmov_start", "repmov_stop", "repstore_start", "repstore_stop",
   "nt_start", "nt_stop"}

AllThresholds(v) == [t \in ThresholdNames |-> v]

-----------------------------------------------------------------------------
(***************************************************************************)
(* strtok and strtoull, over the fields of a value.                        *)
(***************************************************************************)

\* strtok(s, ",") skips empty fields: the position of the field it returns,
\* or 0 when it returns NULL.
NextToken(fields, from) ==
  LET found == { i \in from .. Len(fields) : fields[i] # "" }
  IN  IF found = {} THEN 0 ELSE CHOOSE i \in found : \A j \in found : i <= j

\* strtok(NULL, ":"), the last call: all that is left, NULL when it is empty.
RestToken(fields, from) ==
  IF from > Len(fields) \/ (from = Len(fields) /\ fields[from] = "")
    THEN 0 ELSE from

\* A parser that leaves the environment alone.
Kept(fields) == fields

\* strtok overwrites the delimiter behind the first token: the variable's
\* value ends there from then on, for getenv and for an exec'd program.
Truncated(fields) ==
  LET i == NextToken(fields, 1)
  IN  IF i = 0 THEN fields ELSE SubSeq(fields, 1, i)

\* Taking a negative number for what it says.
SignedNumber(field, base) ==
  IF field = "10" THEN 10
  ELSE IF field = "20" THEN 20
  ELSE IF field = "0x20" /\ base = 0 THEN 32
  ELSE IF field = "-1" THEN -1
  ELSE 0

\* The number a field starts with; none is 0, and -1 wraps around.
strtoull(field, base) ==
  IF field = "10" THEN 10
  ELSE IF field = "20" THEN 20
  ELSE IF field = "0x20" /\ base = 0 THEN 32
  ELSE IF field = "-1" THEN ULLONG_MAX
  ELSE 0

\* The i-th character of a word; its terminator is the empty string.
Char(word, i) == IF i > Len(word) THEN "" ELSE SubSeq(word, i, i)

\* string_compare stops BEHIND the first character in which the words differ,
\* and compares what follows; a token that continues where the literal ends
\* is compared with the character "past" behind the literal.
string_compare(token, word, past) ==
  LET i == CHOOSE n \in 1 .. Len(token) + 1 :
             /\ n > Len(token) \/ Char(token, n) # Char(word, n)
             /\ \A m \in 1 .. n - 1 : Char(token, m) = Char(word, m)
  IN  IF i > Len(token) THEN i > Len(word)
      ELSE Char(token, i + 1) = IF i > Len(word) THEN past ELSE Char(word, i + 1)

\* The letter a field starts with; anything else counts as unaligned.
Alignment(field) ==
  LET c == Char(field, 1) IN IF c \in {"w", "d", "q", "x", "y", "n"} THEN c ELSE "u"

-----------------------------------------------------------------------------
NoUserConfig ==
  [operation |-> {}, src_aln |-> "u", dst_aln |-> "u",
   threshold |-> AllThresholds(0)]

\* The library's data as the loader maps it.
Loaded ==
  /\ pc = "is_amd"
  /\ features = {}
  /\ zen_thresholds = AllThresholds(0)
  /\ user_config = NoUserConfig
  /\ active_operation_cfg = "SYS_CFG" /\ active_threshold_cfg = "SYS_CFG"
  /\ thresholds = AllThresholds(UINT_MAX)
  /\ variant = [f \in FuncNames |-> "system"]
  /\ next = 1

Init ==
  /\ cpu \in Cpus /\ env \in Envs
  /\ Loaded
  /\ given = env /\ parents = << >>

\* Reading the features before the vendor is known.
CapabilitiesFirst ==
  /\ pc = "is_amd"
  /\ pc' = IF cpu.amd THEN "get_cpu_capabilities" ELSE "dispatcher_init"
  /\ features' = (cpu.ebx \cup cpu.ecx) \cap {"avx512", "avx2", "vpclmul"}
  /\ UNCHANGED <<cpu, env, zen_thresholds, user_config,
                 active_operation_cfg, active_threshold_cfg, thresholds,
                 variant, next, ghosts>>

\* is_amd(): on another vendor's CPU only the dispatcher runs.
is_amd ==
  /\ pc = "is_amd"
  /\ pc' = IF cpu.amd THEN "get_cpu_capabilities" ELSE "dispatcher_init"
  /\ UNCHANGED <<cpu, env, features, zen_thresholds, user_config,
                 active_operation_cfg, active_threshold_cfg, thresholds,
                 variant, next, ghosts>>

\* The register of leaf 7 in which each feature is looked for.
FeatureBits ==
  (cpu.ebx \cap {"avx512", "avx2", "erms"})
    \cup (cpu.ecx \cap {"movdiri", "vpclmul", "rdpid", "rdseed"})

get_cpu_capabilities ==
  /\ pc = "get_cpu_capabilities"
  /\ features' = FeatureBits
  /\ pc' = "parse_operation"
  /\ UNCHANGED <<cpu, env, zen_thresholds, user_config,
                 active_operation_cfg, active_threshold_cfg, thresholds,
                 variant, next, ghosts>>

-----------------------------------------------------------------------------
\* The operation a token is taken for: the first of the three it matches.
CpuOperation(token, past) ==
  IF string_compare(token, "avx512", past) THEN {"avx512"}
  ELSE IF string_compare(token, "avx2", past) THEN {"avx2"}
  ELSE IF string_compare(token, "erms", past) THEN {"erms"}
  ELSE {}

\* Accepting the variable before its last field has been read.
OperationOfTwoFields(fields, past) ==
  LET i  == NextToken(fields, 1)
      j  == NextToken(fields, i + 1)
      op == IF i = 0 THEN {} ELSE CpuOperation(fields[i], past)
  IN  [ok  |-> op # {} /\ j # 0,
       op  |-> op,
       src |-> IF op # {} /\ j # 0 THEN Alignment(fields[j]) ELSE "u",
       dst |-> "u"]

\* What parse_env_operation_cfg stores: every field read before the parser
\* gives up stays stored, but the configuration counts only if all are read.
Operation(fields, past) ==
  LET i  == NextToken(fields, 1)
      j  == NextToken(fields, i + 1)
      k  == RestToken(fields, j + 1)
      op == IF i = 0 THEN {} ELSE CpuOperation(fields[i], past)
  IN  [ok  |-> op # {} /\ j # 0 /\ k # 0,
       op  |-> op,
       src |-> IF op # {} /\ j # 0 THEN Alignment(fields[j]) ELSE "u",
       dst |-> IF op # {} /\ j # 0 /\ k # 0 THEN Alignment(fields[k]) ELSE "u"]

parse_env_operation_cfg ==
  /\ pc = "parse_operation"
  /\ IF env.operation = NULL
       THEN UNCHANGED <<env, user_config, active_operation_cfg>>
       ELSE \E past \in PastEnd :
              LET o == Operation(env.operation, past)
              IN  /\ env' = [env EXCEPT !.operation = Truncated(@)]
                  /\ user_config' = [user_config EXCEPT !.operation = o.op,
                                       !.src_aln = o.src, !.dst_aln = o.dst]
                  /\ active_operation_cfg' = IF o.ok THEN "USR_CFG" ELSE "SYS_CFG"
  /\ pc' = "parse_threshold"
  /\ UNCHANGED <<cpu, features, zen_thresholds, active_threshold_cfg,
                 thresholds, variant, next, ghosts>>

\* The positions of the four fields of LIBMEM_THRESHOLD, 0 from the first
\* that is missing.
ThresholdTokens(fields) ==
  LET i == NextToken(fields, 1)
      j == IF i = 0 THEN 0 ELSE NextToken(fields, i + 1)
      k == IF j = 0 THEN 0 ELSE NextToken(fields, j + 1)
      l == IF k = 0 THEN 0 ELSE RestToken(fields, k + 1)
  IN  << i, j, k, l >>

\* The number at position i of the value, or what was stored before.
Read(fields, i, base, old) == IF i = 0 THEN old ELSE strtoull(fields[i], base)

\* Accepting the variable whatever it holds.
AnyThreshold(fields) == TRUE

\* The four fields are there; what they hold is not looked at.
AcceptedThreshold(fields) == ThresholdTokens(fields)[4] # 0

\* Called only when LIBMEM_OPERATION was not accepted.
parse_env_threshold_cfg ==
  /\ pc = "parse_threshold"
  /\ IF active_operation_cfg = "USR_CFG" \/ env.threshold = NULL
       THEN UNCHANGED <<env, user_config, active_threshold_cfg>>
       ELSE LET s == env.threshold
                p == ThresholdTokens(s)
            IN  /\ env' = [env EXCEPT !.threshold = Truncated(@)]
                /\ user_config' = [user_config EXCEPT
                     !.threshold.repmov_start = Read(s, p[1], 10, @),
                     !.threshold.repmov_stop  = Read(s, p[2], 10, @),
                     !.threshold.nt_start     = Read(s, p[3], 0, @),
                     !.threshold.nt_stop      = Read(s, p[4], 0, @)]
                /\ active_threshold_cfg' =
                     IF AcceptedThreshold(s) THEN "USR_CFG" ELSE "SYS_CFG"
  /\ pc' = "compute_thresholds"
  /\ UNCHANGED <<cpu, features, zen_thresholds, active_operation_cfg,
                 thresholds, variant, next, ghosts>>

-----------------------------------------------------------------------------
\* compute_sys_thresholds: erms bounds from the caches, non-temporal copies
\* from three quarters of the L3 cache, or all of it on Zen5.
SysThresholds ==
  LET erms == "erms" \in features
  IN  [repmov_start   |-> IF erms THEN 2 * 1024 ELSE 0,
       repmov_stop    |-> IF erms THEN cpu.l2 ELSE 0,
       repstore_start |-> IF erms THEN cpu.l2 ELSE 0,
       repstore_stop  |-> IF erms THEN cpu.l3 ELSE 0,
       nt_start       |-> IF "movdiri" \in features
                            THEN cpu.l3 ELSE (cpu.l3 \div 4) * 3,
       nt_stop        |-> ULLONG_MAX]

\* Skipped when the user configured either of the variables.
compute_sys_thresholds ==
  /\ pc = "compute_thresholds"
  /\ zen_thresholds' =
       IF active_operation_cfg = "SYS_CFG" /\ active_threshold_cfg = "SYS_CFG"
         THEN SysThresholds ELSE zen_thresholds
  /\ pc' = "configure_thresholds"
  /\ UNCHANGED <<cpu, env, features, user_config, active_operation_cfg,
                 active_threshold_cfg, thresholds, variant, next, ghosts>>

\* The thresholds a user can set; rep-store keeps what it had.
UserSet == {"repmov_start", "repmov_stop", "nt_start", "nt_stop"}

configure_thresholds ==
  /\ pc = "configure_thresholds"
  /\ thresholds' =
       [t \in ThresholdNames |->
          IF active_threshold_cfg = "SYS_CFG" THEN zen_thresholds[t]
          ELSE IF t \in UserSet THEN user_config.threshold[t]
          ELSE thresholds[t]]
  /\ pc' = "dispatcher_init"
  /\ UNCHANGED <<cpu, env, features, zen_thresholds, user_config,
                 active_operation_cfg, active_threshold_cfg, variant, next,
                 ghosts>>

-----------------------------------------------------------------------------
\* Trusting the feature bit that only Zen5 has.
ResolvedByNewestBit(f) ==
  IF "movdiri" \in f THEN "zen5"
  ELSE IF "avx512" \in f THEN "zen4"
  ELSE IF "avx2" \in f /\ "vpclmul" \in f THEN "zen3"
  ELSE "system"

\* The CPU variant of a set of features, newest first.
libmem_cpu_resolver(f) ==
  IF "avx512" \in f
    THEN IF "movdiri" \in f THEN "zen5" ELSE "zen4"
    ELSE IF "avx2" \notin f THEN "system"
    ELSE IF "vpclmul" \in f THEN "zen3"
    ELSE IF "rdpid" \in f THEN "zen2"
    ELSE IF "rdseed" \in f THEN "zen1"
    ELSE "system"

\* The vector variant of a pair of alignments: the non-temporal ones first.
VectorKind(s, d) ==
  CASE s = "n" -> IF d = "n" THEN "NON_TEMPORAL" ELSE "NON_TEMPORAL_LOAD"
    [] s # "n" /\ d = "n" -> "NON_TEMPORAL_STORE"
    [] s = "y" /\ d # "n" -> IF d = "y" THEN "ALIGNED" ELSE "ALIGNED_LOAD"
    [] s \notin {"n", "y"} /\ d = "y" -> "ALIGNED_STORE"
    [] OTHER -> "UNALIGNED"

\* The rep-movs variant: as wide as both sides are aligned.
ErmsKind(s, d) ==
  CASE s = d /\ s \in {"q", "x", "y"} -> "MOVSQ"
    [] s = d /\ s = "d" -> "MOVSD"
    [] s = d /\ s = "w" -> "MOVSW"
    [] OTHER -> "MOVSB"

\* The tunable variant the user asks for, or UNKNOWN.
libmem_tunable_resolver ==
  LET u == user_config
  IN  CASE active_operation_cfg = "USR_CFG" /\ u.operation = {"avx2"} ->
             "AVX2_" \o VectorKind(u.src_aln, u.dst_aln)
        [] active_operation_cfg = "USR_CFG" /\ u.operation = {"avx512"} ->
             "AVX512_" \o VectorKind(u.src_aln, u.dst_aln)
        [] active_operation_cfg = "USR_CFG" /\ u.operation = {"erms"} ->
             "ERMS_" \o ErmsKind(u.src_aln, u.dst_aln)
        [] active_operation_cfg # "USR_CFG" /\ active_threshold_cfg = "USR_CFG" ->
             "THRESHOLD"
        [] OTHER -> "UNKNOWN"

\* dispatcher_init, first pass: one pointer after the other is redirected to
\* the CPU's variant; the tunable pass follows only if there is a tunable.
AssignCpuVariant ==
  /\ pc = "dispatcher_init"
  /\ variant' = [variant EXCEPT ![Funcs[next]] = libmem_cpu_resolver(features)]
  /\ IF next < Len(Funcs)
       THEN next' = next + 1 /\ UNCHANGED pc
       ELSE /\ next' = 1
            /\ pc' = IF libmem_tunable_resolver = "UNKNOWN"
                       THEN "done" ELSE "tunables"
  /\ UNCHANGED <<cpu, env, features, zen_thresholds, user_config,
                 active_operation_cfg, active_threshold_cfg, thresholds, ghosts>>

\* Restarting the tunable functions from the C library's.
BackToSystem == "system"

\* libmem_cpu_impls[func][cpu_var_idx]: the table of the first pass again.
SecondChoice == libmem_cpu_resolver(features)

\* dispatcher_init, second pass, over the functions with tunable variants.
AssignTunableVariant ==
  /\ pc = "tunables"
  /\ variant' = [variant EXCEPT ![Funcs[next]] = SecondChoice]
  /\ IF next < TUN_FUNC_COUNT
       THEN next' = next + 1 /\ UNCHANGED pc
       ELSE next' = 1 /\ pc' = "done"
  /\ UNCHANGED <<cpu, env, features, zen_thresholds, user_config,
                 active_operation_cfg, active_threshold_cfg, thresholds, ghosts>>

\* The program execs another: the library is loaded afresh, and its
\* environment is the one this process leaves.
Exec ==
  /\ pc = "done"
  /\ Len(parents) < MaxExecs
  /\ pc' = "is_amd"
  /\ features' = {}
  /\ zen_thresholds' = AllThresholds(0)
  /\ user_config' = NoUserConfig
  /\ active_operation_cfg' = "SYS_CFG" /\ active_threshold_cfg' = "SYS_CFG"
  /\ thresholds' = AllThresholds(UINT_MAX)
  /\ variant' = [f \in FuncNames |-> "system"]
  /\ next' = 1
  /\ parents' = Append(parents, [operation |-> active_operation_cfg,
                                 threshold |-> active_threshold_cfg])
  /\ given' = env
  /\ UNCHANGED <<cpu, env>>

-----------------------------------------------------------------------------
libmem_init ==
  \/ is_amd \/ get_cpu_capabilities
  \/ parse_env_operation_cfg \/ parse_env_threshold_cfg
  \/ compute_sys_thresholds \/ configure_thresholds
  \/ AssignCpuVariant \/ AssignTunableVariant

Next == libmem_init \/ Exec

Spec == Init /\ [][Next]_vars

-----------------------------------------------------------------------------
Configs == {"SYS_CFG", "USR_CFG"}
Alignments == {"u", "w", "d", "q", "x", "y", "n"}
ThresholdSets == [ThresholdNames -> 0 .. ULLONG_MAX]
UserConfigs ==
  [operation : SUBSET {"avx512", "avx2", "erms"},
   src_aln : Alignments, dst_aln : Alignments, threshold : ThresholdSets]

TypeOK ==
  /\ cpu \in Cpus
  /\ pc \in {"is_amd", "get_cpu_capabilities", "parse_operation",
             "parse_threshold", "compute_thresholds", "configure_thresholds",
             "dispatcher_init", "tunables", "done"}
  /\ features \subseteq
       {"avx512", "avx2", "erms", "movdiri", "vpclmul", "rdpid", "rdseed"}
  /\ zen_thresholds \in ThresholdSets /\ thresholds \in ThresholdSets
  /\ user_config \in UserConfigs
  /\ active_operation_cfg \in Configs /\ active_threshold_cfg \in Configs
  /\ variant \in [FuncNames -> CpuVariants]
  /\ next \in 1 .. Len(Funcs)
  /\ pc = "tunables" => next <= TUN_FUNC_COUNT
  /\ Len(parents) <= MaxExecs

\* The features a variant's instructions need.
Needs(v) ==
  IF v \in {"zen4", "zen5"} THEN {"avx512"}
  ELSE IF v \in {"zen1", "zen2", "zen3"} THEN {"avx2"}
  ELSE {}

\* At every moment, also while the constructor is half way through the
\* pointers, each of them leads to code the processor can execute: whatever
\* call arrives, from whichever thread.
RunnableVariants == \A f \in FuncNames : Needs(variant[f]) \subseteq cpu.ebx

\* The number in the field of LIBMEM_THRESHOLD that stands for a threshold; there is
\* none for the two of rep stos.
Asked(t) ==
  LET p == ThresholdTokens(given.threshold)
      Field(k, base) == strtoull(given.threshold[p[k]], base)
  IN  CASE t = "repmov_start" -> Field(1, 10)
        [] t = "repmov_stop"  -> Field(2, 10)
        [] t = "nt_start"     -> Field(3, 0)
        [] t = "nt_stop"      -> Field(4, 0)
        [] OTHER              -> UINT_MAX

\* What a threshold is to be: zero if LIBMEM_OPERATION was accepted, what the user asked
\* for if LIBMEM_THRESHOLD was, and else what the caches give.
InForce(t) ==
  CASE active_operation_cfg = "USR_CFG" -> 0
    [] active_operation_cfg # "USR_CFG" /\ active_threshold_cfg = "USR_CFG" -> Asked(t)
    [] OTHER -> SysThresholds[t]

\* No function of the library's own is reachable before all the thresholds it may read are
\* what they are to be, and none changes while it is: those the user asked for are read
\* out of the environment the process was given, which strtok has cut by then.  Under an
\* accepted LIBMEM_THRESHOLD the rep-store thresholds, which the erms memset reads too,
\* are what they were initialised with.
ConfiguredBeforeUse ==
  \A f \in FuncNames :
    variant[f] # "system" => \A t \in ThresholdNames : thresholds[t] = InForce(t)

\* A pointer in use by other threads changes at most once in a process, from
\* the C library's function: never between two of the library's own, nor back.
RedirectedOnce ==
  [][ (pc # "done" \/ pc' = "done") =>
        \A f \in FuncNames : variant'[f] # variant[f] => variant[f] = "system" ]_vars

\* A variable with too few fields configures nothing: the parser gives up at
\* the missing field, with part of user_config already stored, and the system
\* thresholds are in force.
PartialConfigIgnored ==
  (pc = "done" /\ cpu.amd) =>
    /\ given.operation # NULL /\ Len(given.operation) < 3
         => active_operation_cfg = "SYS_CFG"
    /\ given.threshold # NULL /\ Len(given.threshold) < 4
         => active_threshold_cfg = "SYS_CFG"
    /\ active_operation_cfg = "SYS_CFG" /\ active_threshold_cfg = "SYS_CFG"
         => thresholds = SysThresholds

\* AMD_ZEN_CPU_RESOLVER: the choice the ifunc build makes, straight from the
\* registers of cpuid.
IfuncVariant ==
  IF "avx512" \in cpu.ebx
    THEN IF "movdiri" \in cpu.ecx THEN "zen5" ELSE "zen4"
    ELSE IF "avx2" \notin cpu.ebx THEN "system"
    ELSE IF "vpclmul" \in cpu.ecx THEN "zen3"
    ELSE IF "rdpid" \in cpu.ecx THEN "zen2"
    ELSE IF "rdseed" \in cpu.ecx THEN "zen1"
    ELSE "system"

\* On AMD processors the tunable build and the ifunc build end up running the
\* same variant of every function.
AgreesWithIfunc ==
  (pc = "done" /\ cpu.amd) => \A f \in FuncNames : variant[f] = IfuncVariant

\* Parsing wears the environment out: strtok cuts an accepted variable down
\* to its first field, so an exec'd program falls back to the system
\* configuration, by the third generation altogether.
TuningWearsOff ==
  /\ \A i \in 1 .. Len(parents) :
       /\ parents[i].operation = "USR_CFG" => active_operation_cfg = "SYS_CFG"
       /\ parents[i].threshold = "USR_CFG" => active_threshold_cfg = "SYS_CFG"
  /\ Len(parents) = 2 =>
       active_operation_cfg = "SYS_CFG" /\ active_threshold_cfg = "SYS_CFG"

-----------------------------------------------------------------------------
(***************************************************************************)
(* What the documentation and the comments say, and the code does not do.  *)
(***************************************************************************)

\* "pick the tunable implementation only with valid tunable config": a user
\* who tunes a variable gets the variant asked for, in the five functions
\* that have tunable variants.
TunableSelected ==
  (pc = "done" /\ libmem_tunable_resolver # "UNKNOWN") =>
    \A i \in 1 .. TUN_FUNC_COUNT :
      variant[Funcs[i]] = libmem_tunable_resolver

\* A Zen1 processor, which has AVX2 and RDSEED and neither RDPID nor
\* VPCLMULQDQ, runs the zen1 variants.
IsZen1 ==
  /\ cpu.amd
  /\ {"avx2", "rdseed"} \subseteq cpu.ebx /\ "avx512" \notin cpu.ebx
  /\ {"vpclmul", "rdpid"} \cap cpu.ecx = {}

Zen1Detected ==
  (pc = "done" /\ IsZen1) => \A f \in FuncNames : variant[f] = "zen1"

\* "non-temporal moves threshold = 3/4 of L3 cache": unless LIBMEM_THRESHOLD
\* says otherwise, non-temporal copies start from a large part of the L3.
NtMovesAreLarge ==
  (pc = "done" /\ cpu.amd /\ active_threshold_cfg = "SYS_CFG") =>
    thresholds["nt_start"] >= (cpu.l3 \div 4) * 3

\* "A best-fit solution for the underlying micro-architecture will be chosen
\* if the tunable is in an invalid format": no word but the three documented
\* ones is ever taken for an operation.
InvalidOperationIgnored ==
  (pc = "done" /\ active_operation_cfg = "USR_CFG") =>
    given.operation[NextToken(given.operation, 1)] \in {"avx512", "avx2", "erms"}

=============================================================================
