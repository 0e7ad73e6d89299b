-------------------------- MODULE LibmemInit_proofs --------------------------
(***************************************************************************)
(* What holds of libmem_init on every processor and in every environment:  *)
(* no pointer ever leads to code the processor cannot run, and none of the *)
(* library's own functions is reachable before the thresholds are set.     *)
(***************************************************************************)
EXTENDS LibmemInit, Arithmetic_proofs

BeforeDispatch ==
  {"is_amd", "get_cpu_capabilities", "parse_operation", "parse_threshold",
   "compute_thresholds", "configure_thresholds"}

\* The numbers a variable's field can stand for.
Parsed == {0, 10, 20, 32, ULLONG_MAX}

\* What the two parsers can make of the environment.
ParsedConfigs ==
  [operation : SUBSET {"avx512", "avx2", "erms"},
   src_aln : Alignments, dst_aln : Alignments,
   threshold : [ThresholdNames -> Parsed]]

\* The features in use are features the processor has, and another vendor's
\* are not used at all.
FeaturesReal ==
  /\ features = {} \/ features = FeatureBits
  /\ ~cpu.amd => features = {}
  /\ ~cpu.amd => pc \in {"is_amd", "dispatcher_init", "tunables", "done"}

\* Every pointer is the C library's function or the CPU's variant, and the
\* former until the dispatcher runs.
PointersResolved ==
  /\ variant \in [FuncNames -> CpuVariants]
  /\ \A f \in FuncNames : variant[f] \in {"system", libmem_cpu_resolver(features)}
  /\ pc \in BeforeDispatch => \A f \in FuncNames : variant[f] = "system"

\* What is stored of the environment is what the parsers can make of it.
ConfigParsed == user_config \in ParsedConfigs

\* The inductive invariant.
IInv == FeaturesReal /\ PointersResolved /\ ConfigParsed

\* The resolver asks for the features its choice needs.
LEMMA ResolverIsSafe ==
  ASSUME NEW f
  PROVE  /\ Needs(libmem_cpu_resolver(f)) \subseteq f
         /\ libmem_cpu_resolver(f) \in CpuVariants
  BY DEF Needs, libmem_cpu_resolver, CpuVariants

\* Without features the resolver falls back to the C library.
LEMMA ResolverOfNothing == libmem_cpu_resolver({}) = "system"
  BY DEF libmem_cpu_resolver

\* A field stands for one of a few numbers, whatever its text.
LEMMA ParsedIsFinite ==
  ASSUME NEW field, NEW base
  PROVE  strtoull(field, base) \in Parsed
  BY DEF strtoull, Parsed

\* A field that is missing leaves what was stored before.
LEMMA ReadIsParsed ==
  ASSUME NEW s, NEW i, NEW base, NEW old \in Parsed
  PROVE  Read(s, i, base, old) \in Parsed
  BY ParsedIsFinite DEF Read

\* Whatever an alignment field holds, an alignment is stored.
LEMMA AlignmentIsKnown ==
  ASSUME NEW field
  PROVE  Alignment(field) \in Alignments
  BY DEF Alignment, Alignments

-----------------------------------------------------------------------------
(***************************************************************************)
(* The invariant holds when the library is loaded, and every action keeps  *)
(* it.                                                                     *)
(***************************************************************************)

\* The state the loader maps satisfies the invariant.
LEMMA InitHolds ==
  ASSUME Init
  PROVE  IInv
<1>1. FeaturesReal
  BY DEF Init, Loaded, FeaturesReal
<1>2. PointersResolved
  BY DEF Init, Loaded, PointersResolved, CpuVariants
<1>3. ConfigParsed
  BY DEF Init, Loaded, ConfigParsed, NoUserConfig, AllThresholds, Parsed,
         BeforeDispatch, ThresholdNames, ParsedConfigs, Alignments
<1>. QED  BY <1>1, <1>2, <1>3 DEF IInv

\* Another vendor's processor goes straight to the dispatcher, without any
\* feature.
LEMMA VendorKeeps ==
  ASSUME IInv, is_amd
  PROVE  IInv'
<1>. USE DEF IInv, is_amd
<1>1. FeaturesReal'
  BY DEF FeaturesReal, FeatureBits
<1>2. PointersResolved'
  BY DEF PointersResolved, BeforeDispatch
<1>3. ConfigParsed'
  BY DEF ConfigParsed
<1>. QED  BY <1>1, <1>2, <1>3

\* Reading the features changes what the resolver will answer while no
\* pointer has been redirected yet.
LEMMA CapabilitiesKeep ==
  ASSUME IInv, get_cpu_capabilities
  PROVE  IInv'
<1>. USE DEF IInv, get_cpu_capabilities
<1>1. FeaturesReal'
  BY DEF FeaturesReal, FeatureBits
<1>2. PointersResolved'
  BY DEF PointersResolved, BeforeDispatch
<1>3. ConfigParsed'
  BY DEF ConfigParsed
<1>. QED  BY <1>1, <1>2, <1>3

\* Parsing LIBMEM_OPERATION touches neither features, pointers nor thresholds.
LEMMA OperationKeeps ==
  ASSUME IInv, parse_env_operation_cfg
  PROVE  IInv'
<1>. USE DEF IInv, parse_env_operation_cfg
<1>1. FeaturesReal'
  BY DEF FeaturesReal, FeatureBits
<1>2. PointersResolved'
  BY DEF PointersResolved, BeforeDispatch
<1>3. user_config' \in ParsedConfigs
  <2>1. user_config \in ParsedConfigs
    BY DEF ConfigParsed
  <2>2. CASE env.operation = NULL
    BY <2>1, <2>2
  <2>3. CASE env.operation # NULL
    <3>0. PICK past \in PastEnd :
            LET o == Operation(env.operation, past)
            IN  user_config' = [user_config EXCEPT !.operation = o.op,
                                  !.src_aln = o.src, !.dst_aln = o.dst]
      BY <2>3
    <3>. DEFINE o == Operation(env.operation, past)
    <3>1. /\ o.op \in SUBSET {"avx512", "avx2", "erms"}
          /\ o.src \in Alignments /\ o.dst \in Alignments
      BY AlignmentIsKnown, "u" \in Alignments DEF Operation, CpuOperation, Alignments
    <3>2. user_config' = [user_config EXCEPT !.operation = o.op,
                            !.src_aln = o.src, !.dst_aln = o.dst]
      BY <3>0
    <3>. HIDE DEF o
    <3>. QED  BY <2>1, <3>1, <3>2 DEF ParsedConfigs
  <2>. QED  BY <2>2, <2>3
<1>4. ConfigParsed'
  BY <1>3 DEF ConfigParsed
<1>. QED  BY <1>1, <1>2, <1>4

\* What is parsed out of LIBMEM_THRESHOLD is a number, whatever the text.
LEMMA ThresholdKeeps ==
  ASSUME IInv, parse_env_threshold_cfg
  PROVE  IInv'
<1>. USE DEF IInv, parse_env_threshold_cfg
<1>1. FeaturesReal'
  BY DEF FeaturesReal, FeatureBits
<1>2. PointersResolved'
  BY DEF PointersResolved, BeforeDispatch
<1>3. user_config' \in ParsedConfigs
  <2>1. user_config \in ParsedConfigs
    BY DEF ConfigParsed
  <2>2. CASE active_operation_cfg = "USR_CFG" \/ env.threshold = NULL
    BY <2>1, <2>2
  <2>3. CASE ~(active_operation_cfg = "USR_CFG" \/ env.threshold = NULL)
    <3>. DEFINE s == env.threshold
                p == ThresholdTokens(s)
                t == user_config.threshold
                r1 == Read(s, p[1], 10, t.repmov_start)
                r2 == Read(s, p[2], 10, t.repmov_stop)
                r3 == Read(s, p[3], 0, t.nt_start)
                r4 == Read(s, p[4], 0, t.nt_stop)
    <3>1. t \in [ThresholdNames -> Parsed]
      BY <2>1 DEF ParsedConfigs
    <3>2. {r1, r2, r3, r4} \subseteq Parsed
      BY <3>1, ReadIsParsed DEF ThresholdNames
    <3>3. user_config' = [user_config EXCEPT
            !.threshold.repmov_start = r1, !.threshold.repmov_stop = r2,
            !.threshold.nt_start = r3, !.threshold.nt_stop = r4]
      BY <2>3
    <3>. HIDE DEF r1, r2, r3, r4
    <3>. QED  BY <2>1, <3>2, <3>3 DEF ParsedConfigs, ThresholdNames
  <2>. QED  BY <2>2, <2>3
<1>4. ConfigParsed'
  BY <1>3 DEF ConfigParsed
<1>. QED  BY <1>1, <1>2, <1>4

\* Computing and configuring the thresholds touches neither features nor pointers.
LEMMA ComputeKeeps ==
  ASSUME IInv, compute_sys_thresholds
  PROVE  IInv'
<1>. USE DEF IInv, compute_sys_thresholds
<1>1. FeaturesReal'
  BY DEF FeaturesReal, FeatureBits
<1>2. PointersResolved'
  BY DEF PointersResolved, BeforeDispatch
<1>3. ConfigParsed'
  BY DEF ConfigParsed
<1>. QED  BY <1>1, <1>2, <1>3

LEMMA ConfigureKeeps ==
  ASSUME IInv, configure_thresholds
  PROVE  IInv'
<1>. USE DEF IInv, configure_thresholds
<1>1. FeaturesReal'
  BY DEF FeaturesReal, FeatureBits
<1>2. PointersResolved'
  BY DEF PointersResolved, BeforeDispatch
<1>3. ConfigParsed'
  BY DEF ConfigParsed
<1>. QED  BY <1>1, <1>2, <1>3

\* A redirected pointer leads to the resolver's choice.
LEMMA RedirectionKeeps ==
  ASSUME PointersResolved, NEW g,
         variant' = [variant EXCEPT ![g] = libmem_cpu_resolver(features)],
         features' = features, pc' \notin BeforeDispatch
  PROVE  PointersResolved'
<1>1. libmem_cpu_resolver(features) \in CpuVariants
  BY ResolverIsSafe
<1>2. variant' \in [FuncNames -> CpuVariants]
  BY <1>1 DEF PointersResolved
<1>3. ASSUME NEW f \in FuncNames
      PROVE  variant'[f] \in {"system", libmem_cpu_resolver(features)}
  BY <1>3 DEF PointersResolved
<1>. QED  BY <1>2, <1>3 DEF PointersResolved

\* The first pass of the dispatcher.
LEMMA CpuPassKeeps ==
  ASSUME IInv, AssignCpuVariant
  PROVE  IInv'
<1>. USE DEF IInv, AssignCpuVariant
<1>0. pc' \in {"dispatcher_init", "tunables", "done"}
  OBVIOUS
<1>1. FeaturesReal'
  BY <1>0 DEF FeaturesReal, FeatureBits
<1>2. PointersResolved'
  BY <1>0, RedirectionKeeps DEF BeforeDispatch
<1>3. ConfigParsed'
  BY DEF ConfigParsed
<1>. QED  BY <1>1, <1>2, <1>3

\* The second pass repeats the choice of the first.
LEMMA TunablePassKeeps ==
  ASSUME IInv, AssignTunableVariant
  PROVE  IInv'
<1>. USE DEF IInv, AssignTunableVariant
<1>0. pc' \in {"tunables", "done"}
  OBVIOUS
<1>1. FeaturesReal'
  BY <1>0 DEF FeaturesReal, FeatureBits
<1>2. PointersResolved'
  BY <1>0, RedirectionKeeps DEF BeforeDispatch, SecondChoice
<1>3. ConfigParsed'
  BY DEF ConfigParsed
<1>. QED  BY <1>1, <1>2, <1>3

\* A child starts from the state the loader maps.
LEMMA ExecKeeps ==
  ASSUME IInv, Exec
  PROVE  IInv'
<1>. USE DEF IInv, Exec
<1>1. FeaturesReal'
  BY DEF FeaturesReal
<1>2. PointersResolved'
  BY DEF PointersResolved, CpuVariants
<1>3. ConfigParsed'
  BY DEF ConfigParsed, NoUserConfig, AllThresholds, Parsed, BeforeDispatch,
         ThresholdNames, ParsedConfigs, Alignments
<1>. QED  BY <1>1, <1>2, <1>3

-----------------------------------------------------------------------------
\* The invariant of the constructor holds in every reachable state.
THEOREM Invariance == Spec => []IInv
<1>1. Init => IInv
  BY InitHolds
<1>2. IInv /\ [Next]_vars => IInv'
  <2>. SUFFICES ASSUME IInv, [Next]_vars  PROVE IInv'
    OBVIOUS
  <2>1. CASE is_amd                   BY <2>1, VendorKeeps
  <2>2. CASE get_cpu_capabilities     BY <2>2, CapabilitiesKeep
  <2>3. CASE parse_env_operation_cfg  BY <2>3, OperationKeeps
  <2>4. CASE parse_env_threshold_cfg  BY <2>4, ThresholdKeeps
  <2>5. CASE compute_sys_thresholds   BY <2>5, ComputeKeeps
  <2>6. CASE configure_thresholds     BY <2>6, ConfigureKeeps
  <2>7. CASE AssignCpuVariant         BY <2>7, CpuPassKeeps
  <2>8. CASE AssignTunableVariant     BY <2>8, TunablePassKeeps
  <2>9. CASE Exec                     BY <2>9, ExecKeeps
  <2>10. CASE UNCHANGED vars
    BY <2>10 DEF vars, IInv, FeaturesReal, FeatureBits, PointersResolved,
                 ConfigParsed
  <2>. QED  BY <2>1, <2>2, <2>3, <2>4, <2>5, <2>6, <2>7, <2>8, <2>9, <2>10
            DEF Next, libmem_init
<1>. QED  BY <1>1, <1>2, PTL DEF Spec

\* On every processor, in every environment and at every moment of the
\* constructor, a call through any of the pointers reaches code that the
\* processor can execute.
THEOREM AlwaysRunnable == Spec => []RunnableVariants
<1>1. IInv => RunnableVariants
  <2>. SUFFICES ASSUME IInv, NEW f \in FuncNames
                PROVE  Needs(variant[f]) \subseteq cpu.ebx
    BY DEF RunnableVariants
  <2>1. variant[f] \in {"system", libmem_cpu_resolver(features)}
    BY DEF IInv, PointersResolved
  <2>2. Needs(variant[f]) \subseteq features
    BY <2>1, ResolverIsSafe DEF Needs
  <2>3. features \cap {"avx2", "avx512"} \subseteq cpu.ebx
    BY DEF IInv, FeaturesReal, FeatureBits
  <2>4. Needs(variant[f]) \subseteq {"avx2", "avx512"}
    BY DEF Needs
  <2>. QED  BY <2>2, <2>3, <2>4
<1>. QED  BY <1>1, Invariance, PTL

-----------------------------------------------------------------------------
\* A pointer in use changes at most once in a process: the second pass of the
\* dispatcher assigns what the first did.
THEOREM PointersRedirectedOnce == Spec => RedirectedOnce
<1> DEFINE Once == (pc # "done" \/ pc' = "done") =>
             \A f \in FuncNames : variant'[f] # variant[f] => variant[f] = "system"
<1>1. ASSUME IInv, [Next]_vars
      PROVE  [Once]_vars
  <2>1. CASE AssignCpuVariant
    BY <1>1, <2>1 DEF IInv, PointersResolved, AssignCpuVariant
  <2>2. CASE AssignTunableVariant
    BY <1>1, <2>2 DEF IInv, PointersResolved, AssignTunableVariant, SecondChoice
  <2>3. CASE Exec
    BY <2>3 DEF Exec
  <2>4. CASE variant' = variant
    BY <2>4
  <2>. QED
    BY <1>1, <2>1, <2>2, <2>3, <2>4
    DEF Next, libmem_init, is_amd, get_cpu_capabilities, parse_env_operation_cfg,
        parse_env_threshold_cfg, compute_sys_thresholds, configure_thresholds, vars
<1>. QED  BY <1>1, Invariance, PTL DEF Spec, RedirectedOnce

-----------------------------------------------------------------------------
\* The dispatcher has redirected the pointers in front of next to the choice for
\* the processor's features.
Redirected ==
  /\ next \in 1 .. Len(Funcs)
  /\ pc \in BeforeDispatch => next = 1
  /\ pc = "dispatcher_init" =>
       \A i \in 1 .. next - 1 : variant[Funcs[i]] = libmem_cpu_resolver(features)
  /\ pc \in {"tunables", "done"} =>
       \A i \in 1 .. Len(Funcs) : variant[Funcs[i]] = libmem_cpu_resolver(features)
  /\ pc = "tunables" => next <= TUN_FUNC_COUNT
  /\ cpu.amd /\ pc \notin {"is_amd", "get_cpu_capabilities"} => features = FeatureBits
  /\ pc \in BeforeDispatch \cup {"dispatcher_init", "tunables", "done"}

LEMMA FuncsLen == Len(Funcs) = 17
  BY DEF Funcs

LEMMA FuncsInNames == \A i \in 1 .. Len(Funcs) : Funcs[i] \in FuncNames
  BY DEF FuncNames

LEMMA RedirectedInductive ==
  ASSUME IInv, Redirected, [Next]_vars
  PROVE  Redirected'
<1>. USE FuncsLen DEF Redirected
<1>1. CASE is_amd
  BY <1>1 DEF is_amd, BeforeDispatch, IInv, FeaturesReal, FeatureBits
<1>2. CASE get_cpu_capabilities
  BY <1>2 DEF get_cpu_capabilities, BeforeDispatch, FeatureBits
<1>3. CASE parse_env_operation_cfg
  BY <1>3 DEF parse_env_operation_cfg, BeforeDispatch, FeatureBits
<1>4. CASE parse_env_threshold_cfg
  BY <1>4 DEF parse_env_threshold_cfg, BeforeDispatch, FeatureBits
<1>5. CASE compute_sys_thresholds
  BY <1>5 DEF compute_sys_thresholds, BeforeDispatch, FeatureBits
<1>6. CASE configure_thresholds
  BY <1>6 DEF configure_thresholds, BeforeDispatch, FeatureBits
<1>7. CASE AssignCpuVariant
  <2>1. variant \in [FuncNames -> CpuVariants]
    BY DEF IInv, PointersResolved
  <2>2. \A i \in 1 .. next : variant'[Funcs[i]] = libmem_cpu_resolver(features)
    BY <1>7, <2>1, FuncsInNames DEF AssignCpuVariant
  <2>3. pc' # "dispatcher_init" => next = Len(Funcs)
    BY <1>7 DEF AssignCpuVariant
  <2>. QED
    BY <1>7, <2>2, <2>3 DEF AssignCpuVariant, BeforeDispatch, FeatureBits, TUN_FUNC_COUNT
<1>8. CASE AssignTunableVariant
  <2>1. variant \in [FuncNames -> CpuVariants]
    BY DEF IInv, PointersResolved
  <2>2. \A i \in 1 .. Len(Funcs) : variant'[Funcs[i]] = libmem_cpu_resolver(features)
    BY <1>8, <2>1, FuncsInNames DEF AssignTunableVariant, SecondChoice
  <2>. QED
    BY <1>8, <2>2 DEF AssignTunableVariant, BeforeDispatch, FeatureBits, TUN_FUNC_COUNT
<1>9. CASE Exec
  BY <1>9 DEF Exec, BeforeDispatch
<1>10. CASE UNCHANGED vars
  BY <1>10 DEF vars, FeatureBits
<1>. QED
  BY <1>1, <1>2, <1>3, <1>4, <1>5, <1>6, <1>7, <1>8, <1>9, <1>10 DEF Next, libmem_init

\* The two builds look for the same bits in the same order.
LEMMA SameChoice == libmem_cpu_resolver(FeatureBits) = IfuncVariant
  BY DEF libmem_cpu_resolver, FeatureBits, IfuncVariant

\* On every AMD processor the constructor ends with each function redirected to the
\* variant that the ifunc build chooses.
THEOREM BuildsAgree == Spec => []AgreesWithIfunc
<1>1. Init => Redirected
  BY FuncsLen DEF Init, Loaded, Redirected, BeforeDispatch
<1>2. IInv /\ Redirected /\ [Next]_vars => Redirected'
  BY RedirectedInductive
<1>3. Redirected => AgreesWithIfunc
  BY SameChoice DEF Redirected, AgreesWithIfunc, FuncNames
<1>. QED  BY <1>1, <1>2, <1>3, Invariance, PTL DEF Spec

-----------------------------------------------------------------------------
(***************************************************************************)
(* What becomes of a user's configuration.                                 *)
(***************************************************************************)

\* The parsers' states that have not looked at a variable.
Unread == {"is_amd", "get_cpu_capabilities", "parse_operation"}

\* A variable in which strtok finds no second field, so that none is accepted.
OneField(v) == v = NULL \/ NextToken(v, NextToken(v, 1) + 1) = 0

ConfigTyped ==
  /\ cpu \in Cpus
  /\ env \in Environments /\ given \in Environments
  /\ active_operation_cfg \in Configs /\ active_threshold_cfg \in Configs
  /\ zen_thresholds \in ThresholdSets /\ thresholds \in ThresholdSets
  /\ parents \in Seq([operation : Configs, threshold : Configs])
  /\ Len(parents) <= MaxExecs

SysConfigured == active_operation_cfg = "SYS_CFG" /\ active_threshold_cfg = "SYS_CFG"

\* A variable is accepted where it is parsed, as the process was given it, and only if
\* it has all its fields; the thresholds are the system's unless one is accepted.
Accepting ==
  /\ pc \in Unread =>
       env.operation = given.operation /\ active_operation_cfg = "SYS_CFG"
  /\ pc \in Unread \cup {"parse_threshold"} =>
       env.threshold = given.threshold /\ active_threshold_cfg = "SYS_CFG"
  /\ given.operation # NULL /\ Len(given.operation) < 3
       => active_operation_cfg = "SYS_CFG"
  /\ given.threshold # NULL /\ Len(given.threshold) < 4
       => active_threshold_cfg = "SYS_CFG"
  /\ ~cpu.amd => SysConfigured
  /\ active_threshold_cfg = "USR_CFG" => active_operation_cfg = "SYS_CFG"
  /\ pc = "configure_thresholds" /\ SysConfigured => zen_thresholds = SysThresholds
  /\ cpu.amd /\ pc \notin BeforeDispatch /\ SysConfigured => thresholds = SysThresholds

\* What has been parsed has one field left, and stays so in the children.
WornOut ==
  /\ cpu.amd /\ (pc \notin Unread \/ Len(parents) >= 1) => OneField(env.operation)
  /\ cpu.amd /\ pc \notin Unread \cup {"parse_threshold"}
       /\ active_operation_cfg = "SYS_CFG" => OneField(env.threshold)
  /\ Len(parents) >= 1 => active_operation_cfg = "SYS_CFG"
  /\ Len(parents) >= 2 =>
       active_threshold_cfg = "SYS_CFG" /\ (cpu.amd => OneField(env.threshold))
  /\ \A i \in 1 .. Len(parents) :
       parents[i].threshold = "USR_CFG" =>
         active_threshold_cfg = "SYS_CFG" /\ OneField(env.threshold)

ConfigInv == ConfigTyped /\ Accepting /\ WornOut

\* strtok returns the first field that is not empty, from where it stands.
Blank(field) == field = ""

LEMMA TokenIsFirst ==
  ASSUME NEW s, NEW n \in Nat, n = Len(s), NEW from \in Nat, NEW t, t = NextToken(s, from)
  PROVE  \/ t = 0 /\ \A k \in from .. n : Blank(s[k])
         \/ t \in from .. n /\ ~Blank(s[t]) /\ \A k \in from .. t - 1 : Blank(s[k])
<1> DEFINE found == { i \in from .. Len(s) : s[i] # "" }
<1>2. t = IF found = {} THEN 0 ELSE CHOOSE i \in found : \A j \in found : i <= j
  BY Zenon DEF NextToken
<1>3. found \subseteq from .. n /\ \A i \in from .. n : i \in found <=> ~Blank(s[i])
  BY Zenon DEF Blank
<1>. HIDE DEF found
<1>4. CASE found = {}
  BY <1>2, <1>3, <1>4
<1>5. CASE found # {}
  <2>1. found \subseteq Nat
    BY <1>3
  <2>2. \E i \in found : \A j \in found : i <= j
    BY <1>5, <2>1, LeastOfNats
  <2>3. t \in found /\ \A j \in found : t <= j
    BY <1>2, <1>5, <2>2, Zenon
  <2>. QED  BY <1>3, <2>1, <2>3
<1>. QED  BY <1>4, <1>5

LEMMA NextTokenIsBehind ==
  ASSUME NEW s, NEW n \in Nat, n = Len(s), NEW from \in Nat,
         NEW t, t = NextToken(s, from + 1), t # 0
  PROVE  t \in from + 1 .. n
<1>1. PICK f \in Nat : f = from + 1
  OBVIOUS
<1>. QED  BY <1>1, TokenIsFirst

\* strtok leaves one field.
LEMMA TruncationLeavesOne ==
  ASSUME NEW s \in Seq(STRING)
  PROVE  Truncated(s) \in Seq(STRING) /\ OneField(Truncated(s))
<1>1. PICK n, i : n = Len(s) /\ i = NextToken(s, 1) /\ n \in Nat
  OBVIOUS
<1>2. CASE i = 0
  BY <1>1, <1>2 DEF Truncated, OneField
<1>3. CASE i # 0
  <2>1. i \in 1 .. n /\ ~Blank(s[i]) /\ \A k \in 1 .. i - 1 : Blank(s[k])
    BY <1>1, <1>3, TokenIsFirst
  <2>2. PICK t : t = SubSeq(s, 1, i)
    OBVIOUS
  <2>3. t \in Seq(STRING) /\ Len(t) = i /\ \A k \in 1 .. i : t[k] = s[k]
    BY <1>1, <2>1, <2>2
  <2>4. Truncated(s) = t
    BY <1>1, <1>3, <2>2 DEF Truncated
  <2>5. NextToken(t, 1) = i
    <3>1. PICK j : j = NextToken(t, 1)
      OBVIOUS
    <3>2. \/ j = 0 /\ \A k \in 1 .. i : Blank(t[k])
          \/ j \in 1 .. i /\ ~Blank(t[j])
      BY <1>1, <2>1, <2>3, <3>1, TokenIsFirst
    <3>3. j \in 1 .. i /\ ~Blank(s[j])
      BY <2>1, <2>3, <3>2
    <3>4. j \notin 1 .. i - 1
      BY <2>1, <3>3
    <3>. QED  BY <2>1, <3>1, <3>3, <3>4
  <2>6. NextToken(t, i + 1) = 0
    <3>1. i \in Nat
      BY <1>1, <2>1
    <3>2. SUFFICES ASSUME NextToken(t, i + 1) # 0
                   PROVE  FALSE
      OBVIOUS
    <3>3. NextToken(t, i + 1) \in i + 1 .. i
      BY <2>3, <3>1, <3>2, NextTokenIsBehind
    <3>. QED  BY <3>1, <3>3
  <2>. QED  BY <2>3, <2>4, <2>5, <2>6 DEF OneField
<1>. QED  BY <1>2, <1>3

LEMMA RestIsBehind ==
  ASSUME NEW s, NEW n \in Nat, n = Len(s), NEW from \in Nat, RestToken(s, from) # 0
  PROVE  from <= n
<1>1. ~(from > Len(s))
  BY Zenon DEF RestToken
<1>. QED  BY <1>1

\* LIBMEM_OPERATION is accepted with three fields, LIBMEM_THRESHOLD with four.
LEMMA OperationHasThree ==
  ASSUME NEW s \in Seq(STRING), NEW past, Operation(s, past).ok
  PROVE  Len(s) >= 3 /\ (s # NULL => ~OneField(s))
<1>1. PICK i, j, k : /\ i = NextToken(s, 1) /\ j = NextToken(s, i + 1)
                     /\ k = RestToken(s, j + 1)
  OBVIOUS
<1>2. i # 0 /\ j # 0 /\ k # 0
  BY <1>1 DEF Operation
<1>3. PICK n \in Nat : n = Len(s)
  OBVIOUS
<1>4. i \in 1 .. n
  BY <1>1, <1>2, <1>3, TokenIsFirst
<1>5. j \in i + 1 .. n
  BY <1>1, <1>2, <1>3, <1>4, NextTokenIsBehind
<1>6. j + 1 <= n
  <2>1. PICK f \in Nat : f = j + 1
    BY <1>4, <1>5
  <2>. QED  BY <1>1, <1>2, <1>3, <2>1, RestIsBehind
<1>. QED  BY <1>1, <1>2, <1>3, <1>4, <1>5, <1>6 DEF OneField

LEMMA ThresholdHasFour ==
  ASSUME NEW s \in Seq(STRING), AcceptedThreshold(s)
  PROVE  Len(s) >= 4 /\ (s # NULL => ~OneField(s))
<1>1. PICK i, j : i = NextToken(s, 1) /\ j = IF i = 0 THEN 0 ELSE NextToken(s, i + 1)
  OBVIOUS
<1>2. PICK k : k = IF j = 0 THEN 0 ELSE NextToken(s, j + 1)
  OBVIOUS
<1>3. k # 0 /\ RestToken(s, k + 1) # 0
  BY <1>1, <1>2 DEF AcceptedThreshold, ThresholdTokens
<1>4. i # 0 /\ j # 0
  BY <1>1, <1>2, <1>3
<1>5. PICK n \in Nat : n = Len(s)
  OBVIOUS
<1>6. i \in 1 .. n
  BY <1>1, <1>4, <1>5, TokenIsFirst
<1>7. j \in i + 1 .. n
  BY <1>1, <1>4, <1>5, <1>6, NextTokenIsBehind
<1>8. k \in j + 1 .. n
  BY <1>2, <1>3, <1>4, <1>5, <1>6, <1>7, NextTokenIsBehind
<1>9. k + 1 <= n
  <2>1. PICK f \in Nat : f = k + 1
    BY <1>6, <1>7, <1>8
  <2>. QED  BY <1>3, <1>5, <2>1, RestIsBehind
<1>. QED  BY <1>1, <1>4, <1>5, <1>6, <1>7, <1>8, <1>9 DEF OneField

-----------------------------------------------------------------------------
\* The values a variable takes on its way through the parsers.
LEMMA ValuesTyped ==
  ASSUME ConfigTyped
  PROVE  /\ env.operation = NULL \/ env.operation \in Seq(STRING)
         /\ env.threshold = NULL \/ env.threshold \in Seq(STRING)
         /\ DOMAIN env = {"operation", "threshold"}
BY DEF ConfigTyped, Environments

LEMMA RecordOfSix ==
  ASSUME NEW S, NEW a \in S, NEW b \in S, NEW c \in S, NEW d \in S, NEW e \in S, NEW f \in S
  PROVE  [repmov_start |-> a, repmov_stop |-> b, repstore_start |-> c,
          repstore_stop |-> d, nt_start |-> e, nt_stop |-> f] \in [ThresholdNames -> S]
BY DEF ThresholdNames

LEMMA SysThresholdsTyped ==
  ASSUME cpu \in Cpus
  PROVE  SysThresholds \in ThresholdSets
<1> DEFINE S == 0 .. ULLONG_MAX
           A == IF "erms" \in features THEN 2 * 1024 ELSE 0
           B == IF "erms" \in features THEN cpu.l2 ELSE 0
           C == IF "erms" \in features THEN cpu.l3 ELSE 0
           D == IF "movdiri" \in features THEN cpu.l3 ELSE (cpu.l3 \div 4) * 3
<1>1. /\ cpu.l2 \in 2048 .. ULLONG_MAX /\ cpu.l3 \in cpu.l2 .. ULLONG_MAX
      /\ ULLONG_MAX \in Nat
  BY CpusAssumption, LimitsAssumption
<1>2. 0 \in S /\ 2 * 1024 \in S /\ cpu.l2 \in S /\ cpu.l3 \in S
      /\ (cpu.l3 \div 4) * 3 \in S /\ ULLONG_MAX \in S
  BY <1>1
<1>. HIDE DEF S
<1>3. A \in S /\ B \in S /\ C \in S
  BY <1>2, Zenon
<1>4. D \in S
  BY <1>2, Zenon
<1>5. SysThresholds = [repmov_start |-> A, repmov_stop |-> B, repstore_start |-> B,
                       repstore_stop |-> C, nt_start |-> D, nt_stop |-> ULLONG_MAX]
  BY Zenon DEF SysThresholds
<1>. HIDE DEF A, B, C, D
<1>6. SysThresholds \in [ThresholdNames -> S]
  BY <1>2, <1>3, <1>4, <1>5, RecordOfSix, Zenon
<1>. QED  BY <1>6, Zenon DEF ThresholdSets, S

\* The parts of the invariant that a step leaves alone when it neither parses nor execs.
LEMMA VariablesKept ==
  ASSUME ConfigInv, NEW next_pc, pc' = next_pc,
         UNCHANGED <<cpu, env, active_operation_cfg, active_threshold_cfg, ghosts>>,
         zen_thresholds' \in ThresholdSets, thresholds' \in ThresholdSets,
         next_pc \in Unread => pc \in Unread,
         next_pc \in Unread \cup {"parse_threshold"}
           => pc \in Unread \cup {"parse_threshold"},
         cpu.amd /\ next_pc \notin Unread => pc \notin Unread,
         cpu.amd /\ next_pc \notin Unread \cup {"parse_threshold"}
           => pc \notin Unread \cup {"parse_threshold"},
         next_pc # "configure_thresholds" \/ zen_thresholds' = SysThresholds'
           \/ ~SysConfigured,
         next_pc \in BeforeDispatch \/ thresholds' = SysThresholds'
           \/ ~SysConfigured \/ ~cpu.amd
  PROVE  ConfigInv'
<1>. USE DEF ConfigInv, ghosts
<1>1. ConfigTyped'
  BY DEF ConfigTyped
<1>2. Accepting'
  BY DEF Accepting, SysConfigured, ConfigTyped
<1>3. WornOut'
  BY DEF WornOut, OneField
<1>. QED  BY <1>1, <1>2, <1>3

LEMMA ParsedInRange == Parsed \subseteq 0 .. ULLONG_MAX
BY LimitsAssumption DEF Parsed

\* Every step but those of the parsers and an exec.
LEMMA OthersKeep ==
  ASSUME IInv, ConfigInv,
         \/ is_amd \/ get_cpu_capabilities \/ compute_sys_thresholds \/ configure_thresholds
         \/ AssignCpuVariant \/ AssignTunableVariant \/ UNCHANGED vars
  PROVE  ConfigInv'
<1>0. /\ zen_thresholds \in ThresholdSets /\ thresholds \in ThresholdSets
      /\ SysThresholds \in ThresholdSets
  BY SysThresholdsTyped DEF ConfigInv, ConfigTyped
<1>1. CASE is_amd
  BY <1>0, <1>1, VariablesKept DEF is_amd, Unread, BeforeDispatch
<1>2. CASE get_cpu_capabilities
  BY <1>0, <1>2, VariablesKept DEF get_cpu_capabilities, Unread, BeforeDispatch
<1>3. CASE compute_sys_thresholds
  <2>1. SysThresholds' = SysThresholds /\ (SysConfigured => zen_thresholds' = SysThresholds)
    BY <1>3 DEF compute_sys_thresholds, SysThresholds, SysConfigured
  <2>2. zen_thresholds' \in ThresholdSets
    BY <1>0, <1>3 DEF compute_sys_thresholds
  <2>. QED
    BY <1>0, <1>3, <2>1, <2>2, VariablesKept
    DEF compute_sys_thresholds, Unread, BeforeDispatch
<1>4. CASE configure_thresholds
  <2>1. SysThresholds' = SysThresholds
    BY <1>4 DEF configure_thresholds, SysThresholds
  <2>2. SysConfigured => zen_thresholds = SysThresholds
    BY <1>4 DEF configure_thresholds, ConfigInv, Accepting
  <2>3. SysConfigured => thresholds' = zen_thresholds
    BY <1>0, <1>4 DEF configure_thresholds, SysConfigured, ThresholdSets
  <2>4. thresholds' \in ThresholdSets
    <3>1. user_config.threshold \in [ThresholdNames -> 0 .. ULLONG_MAX]
      BY ParsedInRange DEF IInv, ConfigParsed, ParsedConfigs
    <3>. QED  BY <1>0, <1>4, <3>1 DEF configure_thresholds, ThresholdSets
  <2>. QED
    BY <1>0, <1>4, <2>1, <2>2, <2>3, <2>4, VariablesKept
    DEF configure_thresholds, Unread, BeforeDispatch
<1>5. CASE AssignCpuVariant \/ AssignTunableVariant
  <2>1. pc \in {"dispatcher_init", "tunables"} /\ pc' \in {"dispatcher_init", "tunables", "done"}
    BY <1>5 DEF AssignCpuVariant, AssignTunableVariant
  <2>2. SysThresholds' = SysThresholds /\ thresholds' = thresholds
        /\ zen_thresholds' = zen_thresholds
        /\ UNCHANGED <<cpu, env, active_operation_cfg, active_threshold_cfg, ghosts>>
    BY <1>5 DEF AssignCpuVariant, AssignTunableVariant, SysThresholds
  <2>3. SysConfigured /\ cpu.amd => thresholds = SysThresholds
    BY <2>1 DEF ConfigInv, Accepting, BeforeDispatch
  <2>. QED  BY <1>0, <2>1, <2>2, <2>3, VariablesKept DEF Unread, BeforeDispatch
<1>6. CASE UNCHANGED vars
  BY <1>6 DEF vars, ghosts, ConfigInv, ConfigTyped, Accepting, SysConfigured, SysThresholds,
              WornOut, OneField
<1>. QED  BY <1>1, <1>2, <1>3, <1>4, <1>5, <1>6

LEMMA OperationParsed ==
  ASSUME IInv, ConfigInv, parse_env_operation_cfg
  PROVE  ConfigInv'
<1>0. /\ pc = "parse_operation" /\ pc' = "parse_threshold" /\ cpu.amd
      /\ UNCHANGED <<cpu, features, zen_thresholds, active_threshold_cfg, thresholds, ghosts>>
  BY DEF parse_env_operation_cfg, IInv, FeaturesReal
<1>1. /\ env.operation = given.operation /\ active_operation_cfg = "SYS_CFG"
      /\ env.threshold = given.threshold /\ active_threshold_cfg = "SYS_CFG"
  BY <1>0 DEF ConfigInv, Accepting, Unread
<1>2. PICK v : v = env.operation /\ (v = NULL \/ v \in Seq(STRING))
  BY ValuesTyped DEF ConfigInv
<1>3. /\ env' \in Environments /\ env'.threshold = env.threshold
      /\ OneField(env'.operation)
      /\ active_operation_cfg' \in Configs
      /\ active_operation_cfg' = "USR_CFG" => v # NULL /\ Len(v) >= 3 /\ ~OneField(v)
  <2>1. env \in Environments
    BY DEF ConfigInv, ConfigTyped
  <2>2. CASE v = NULL
    <3>1. env' = env /\ active_operation_cfg' = active_operation_cfg
      BY <1>2, <2>2 DEF parse_env_operation_cfg
    <3>. QED  BY <1>1, <1>2, <2>1, <2>2, <3>1 DEF OneField, Configs
  <2>3. CASE v # NULL
    <3>1. PICK past :
            /\ env' = [env EXCEPT !.operation = Truncated(v)]
            /\ active_operation_cfg' = IF Operation(v, past).ok THEN "USR_CFG" ELSE "SYS_CFG"
      BY <1>2, <2>3, Zenon DEF parse_env_operation_cfg
    <3>2. PICK t : t = Truncated(v) /\ t \in Seq(STRING) /\ OneField(t)
      BY <1>2, <2>3, TruncationLeavesOne
    <3>3. env' \in Environments /\ env'.threshold = env.threshold /\ env'.operation = t
      BY <2>1, <3>1, <3>2 DEF Environments
    <3>4. Operation(v, past).ok => v # NULL /\ Len(v) >= 3 /\ ~OneField(v)
      BY <1>2, <2>3, OperationHasThree
    <3>. QED  BY <3>1, <3>2, <3>3, <3>4, Zenon DEF Configs
  <2>. QED  BY <2>2, <2>3
<1>4. ConfigTyped'
  BY <1>0, <1>3 DEF ConfigInv, ConfigTyped, ghosts
<1>5. Accepting'
  BY <1>0, <1>1, <1>2, <1>3
  DEF ConfigInv, ConfigTyped, Configs, Accepting, Unread, BeforeDispatch, SysConfigured, ghosts
<1>6. WornOut'
  <2>1. Len(parents) >= 1 => active_operation_cfg' = "SYS_CFG"
    BY <1>0, <1>2, <1>3 DEF ConfigInv, WornOut, Configs
  <2>. QED  BY <1>0, <1>3, <2>1 DEF ConfigInv, WornOut, Unread, OneField, ghosts
<1>. QED  BY <1>4, <1>5, <1>6 DEF ConfigInv

LEMMA ThresholdParsed ==
  ASSUME IInv, ConfigInv, parse_env_threshold_cfg
  PROVE  ConfigInv'
<1>0. /\ pc = "parse_threshold" /\ pc' = "compute_thresholds" /\ cpu.amd
      /\ UNCHANGED <<cpu, features, zen_thresholds, active_operation_cfg, thresholds, ghosts>>
  BY DEF parse_env_threshold_cfg, IInv, FeaturesReal
<1>1. env.threshold = given.threshold /\ active_threshold_cfg = "SYS_CFG"
  BY <1>0 DEF ConfigInv, Accepting
<1>2. PICK v : v = env.threshold /\ (v = NULL \/ v \in Seq(STRING))
  BY ValuesTyped DEF ConfigInv
<1>3. /\ env' \in Environments /\ env'.operation = env.operation
      /\ active_operation_cfg = "SYS_CFG" \/ OneField(v) => OneField(env'.threshold)
      /\ active_threshold_cfg' \in Configs
      /\ active_threshold_cfg' = "USR_CFG" =>
           /\ v # NULL /\ Len(v) >= 4 /\ ~OneField(v)
           /\ active_operation_cfg = "SYS_CFG"
  <2>1. env \in Environments /\ active_operation_cfg \in Configs
    BY DEF ConfigInv, ConfigTyped
  <2>2. CASE active_operation_cfg = "USR_CFG" \/ v = NULL
    <3>1. env' = env /\ active_threshold_cfg' = active_threshold_cfg
      BY <1>2, <2>2 DEF parse_env_threshold_cfg
    <3>. QED  BY <1>1, <1>2, <2>1, <2>2, <3>1 DEF OneField, Configs
  <2>3. CASE ~(active_operation_cfg = "USR_CFG" \/ v = NULL)
    <3>1. /\ env' = [env EXCEPT !.threshold = Truncated(v)]
          /\ active_threshold_cfg' = IF AcceptedThreshold(v) THEN "USR_CFG" ELSE "SYS_CFG"
      BY <1>2, <2>3, Zenon DEF parse_env_threshold_cfg
    <3>2. PICK t : t = Truncated(v) /\ t \in Seq(STRING) /\ OneField(t)
      BY <1>2, <2>3, TruncationLeavesOne
    <3>3. env' \in Environments /\ env'.operation = env.operation /\ env'.threshold = t
      BY <2>1, <3>1, <3>2 DEF Environments
    <3>4. AcceptedThreshold(v) => v # NULL /\ Len(v) >= 4 /\ ~OneField(v)
      BY <1>2, <2>3, ThresholdHasFour
    <3>5. active_operation_cfg = "SYS_CFG"
      BY <2>1, <2>3 DEF Configs
    <3>. QED  BY <3>1, <3>2, <3>3, <3>4, <3>5, Zenon DEF Configs
  <2>. QED  BY <2>2, <2>3
<1>4. ConfigTyped'
  BY <1>0, <1>3 DEF ConfigInv, ConfigTyped, ghosts
<1>5. Accepting'
  BY <1>0, <1>1, <1>2, <1>3
  DEF ConfigInv, ConfigTyped, Configs, Accepting, Unread, BeforeDispatch, SysConfigured, ghosts
<1>6. WornOut'
  <2>1. /\ Len(parents) >= 2 => OneField(v)
        /\ \A i \in 1 .. Len(parents) : parents[i].threshold = "USR_CFG" => OneField(v)
    BY <1>0, <1>2 DEF ConfigInv, WornOut
  <2>2. OneField(v) => active_threshold_cfg' = "SYS_CFG" /\ OneField(env'.threshold)
    BY <1>3 DEF Configs
  <2>3. active_operation_cfg = "SYS_CFG" => OneField(env'.threshold)
    BY <1>3
  <2>4. /\ OneField(env.operation)
        /\ Len(parents) >= 1 => active_operation_cfg = "SYS_CFG"
    BY <1>0 DEF ConfigInv, WornOut, Unread
  <2>. QED  BY <1>0, <1>3, <2>1, <2>2, <2>3, <2>4 DEF WornOut, OneField, ghosts
<1>. QED  BY <1>4, <1>5, <1>6 DEF ConfigInv

\* A child is configured by what its ancestors have left of the environment.
LEMMA ChildConfigured ==
  ASSUME ConfigInv, Exec
  PROVE  ConfigInv'
<1>0. /\ pc = "done" /\ pc' = "is_amd" /\ UNCHANGED <<cpu, env>> /\ given' = env
      /\ active_operation_cfg' = "SYS_CFG" /\ active_threshold_cfg' = "SYS_CFG"
      /\ zen_thresholds' = AllThresholds(0) /\ thresholds' = AllThresholds(UINT_MAX)
      /\ Len(parents) < MaxExecs
  BY DEF Exec
<1>1. PICK p : /\ p = [operation |-> active_operation_cfg, threshold |-> active_threshold_cfg]
               /\ parents' = Append(parents, p)
  BY DEF Exec
<1>2. /\ parents \in Seq([operation : Configs, threshold : Configs])
      /\ p \in [operation : Configs, threshold : Configs]
      /\ p.threshold = active_threshold_cfg
  BY <1>1 DEF ConfigInv, ConfigTyped
<1>3. PICK n \in Nat : n = Len(parents)
  BY <1>2
<1>4. /\ parents' \in Seq([operation : Configs, threshold : Configs])
      /\ Len(parents') = n + 1
      /\ \A i \in 1 .. n : parents'[i] = parents[i]
      /\ parents'[n + 1] = p
  BY <1>1, <1>2, <1>3
<1>5. ConfigTyped'
  <2>1. AllThresholds(0) \in ThresholdSets /\ AllThresholds(UINT_MAX) \in ThresholdSets
    BY LimitsAssumption DEF AllThresholds, ThresholdSets
  <2>2. Len(parents') <= MaxExecs
    BY <1>0, <1>3, <1>4, MaxExecsAssumption
  <2>. QED  BY <1>0, <1>4, <2>1, <2>2 DEF ConfigInv, ConfigTyped, Configs
<1>6. Accepting'
  BY <1>0 DEF Accepting, Unread, BeforeDispatch, SysConfigured
<1>7. active_threshold_cfg = "USR_CFG" => cpu.amd /\ active_operation_cfg = "SYS_CFG"
  BY DEF ConfigInv, Accepting, SysConfigured
<1>8. /\ cpu.amd => OneField(env.operation)
      /\ cpu.amd /\ active_operation_cfg = "SYS_CFG" => OneField(env.threshold)
      /\ n >= 1 => active_operation_cfg = "SYS_CFG"
      /\ \A i \in 1 .. n : parents[i].threshold = "USR_CFG" => OneField(env.threshold)
  BY <1>0, <1>3 DEF ConfigInv, WornOut, Unread
<1>9. \A i \in 1 .. n + 1 : parents'[i].threshold = "USR_CFG" => OneField(env.threshold)
  <2>1. ASSUME NEW i \in 1 .. n + 1, parents'[i].threshold = "USR_CFG"
        PROVE  OneField(env.threshold)
    <3>1. CASE i \in 1 .. n
      BY <1>4, <1>8, <2>1, <3>1
    <3>2. CASE i = n + 1
      BY <1>2, <1>4, <1>7, <1>8, <2>1, <3>2
    <3>. QED  BY <3>1, <3>2
  <2>. QED  BY <2>1
<1>10. WornOut'
  <2>1. n + 1 >= 2 => n >= 1
    OBVIOUS
  <2>. QED  BY <1>0, <1>4, <1>8, <1>9, <2>1 DEF WornOut, Unread, OneField
<1>. QED  BY <1>5, <1>6, <1>10 DEF ConfigInv

LEMMA ConfigInitially ==
  ASSUME Init
  PROVE  ConfigInv
<1>1. ConfigTyped
  <2>1. AllThresholds(0) \in ThresholdSets /\ AllThresholds(UINT_MAX) \in ThresholdSets
    BY LimitsAssumption DEF AllThresholds, ThresholdSets
  <2>2. env \in Environments
    BY EnvsAssumption DEF Init
  <2>3. Len(parents) <= MaxExecs /\ parents \in Seq([operation : Configs, threshold : Configs])
    BY MaxExecsAssumption DEF Init
  <2>. QED  BY <2>1, <2>2, <2>3 DEF ConfigTyped, Init, Loaded, Configs
<1>2. Accepting
  BY DEF Accepting, Init, Loaded, Unread, BeforeDispatch, SysConfigured
<1>3. WornOut
  BY DEF WornOut, Init, Loaded, Unread
<1>. QED  BY <1>1, <1>2, <1>3 DEF ConfigInv

\* What a process makes of its environment, and what it leaves of it for a child: the
\* second inductive invariant of the constructor.
THEOREM Configured == Spec => []ConfigInv
<1>1. IInv /\ ConfigInv /\ [Next]_vars => ConfigInv'
  BY OthersKeep, OperationParsed, ThresholdParsed, ChildConfigured, Zenon DEF Next, libmem_init
<1>. QED  BY <1>1, ConfigInitially, Invariance, PTL DEF Spec

(***************************************************************************)
(* The thresholds on their way from the variable, or from the caches, to   *)
(* where the routines read them.                                           *)
(***************************************************************************)
Carried ==
  /\ pc \in BeforeDispatch => thresholds = AllThresholds(UINT_MAX)
  /\ pc \in BeforeDispatch \ {"configure_thresholds"} => zen_thresholds = AllThresholds(0)
  /\ pc = "configure_thresholds" =>
       zen_thresholds = IF SysConfigured THEN SysThresholds ELSE AllThresholds(0)
  /\ active_threshold_cfg = "USR_CFG" =>
       \A t \in UserSet : user_config.threshold[t] = Asked(t)
  /\ cpu.amd /\ pc \notin BeforeDispatch => \A t \in ThresholdNames : thresholds[t] = InForce(t)

\* A field that is there is read.
LEMMA AcceptedIsRead ==
  ASSUME NEW s, AcceptedThreshold(s), NEW base, NEW old, NEW k \in 1 .. 4
  PROVE  Read(s, ThresholdTokens(s)[k], base, old) = strtoull(s[ThresholdTokens(s)[k]], base)
<1>1. ThresholdTokens(s)[k] # 0
  BY DEF AcceptedThreshold, ThresholdTokens
<1>. QED  BY <1>1 DEF Read

LEMMA ThresholdCarried ==
  ASSUME IInv, ConfigInv, Carried, parse_env_threshold_cfg
  PROVE  Carried'
<1>1. /\ pc = "parse_threshold" /\ pc' = "compute_thresholds"
      /\ zen_thresholds' = zen_thresholds /\ thresholds' = thresholds /\ given' = given
      /\ active_threshold_cfg = "SYS_CFG" /\ env.threshold = given.threshold
  BY DEF parse_env_threshold_cfg, ghosts, ConfigInv, Accepting
<1>2. ASSUME active_threshold_cfg' = "USR_CFG"
      PROVE  \A t \in UserSet : user_config.threshold[t]' = Asked(t)'
  <2> DEFINE s == env.threshold
             p == ThresholdTokens(s)
             u == user_config.threshold
             r1 == Read(s, p[1], 10, u.repmov_start)
             r2 == Read(s, p[2], 10, u.repmov_stop)
             r3 == Read(s, p[3], 0, u.nt_start)
             r4 == Read(s, p[4], 0, u.nt_stop)
  <2>1. /\ AcceptedThreshold(s)
        /\ user_config' = [user_config EXCEPT
              !.threshold.repmov_start = r1, !.threshold.repmov_stop = r2,
              !.threshold.nt_start = r3, !.threshold.nt_stop = r4]
    BY <1>1, <1>2 DEF parse_env_threshold_cfg
  <2>2. /\ r1 = strtoull(s[p[1]], 10) /\ r2 = strtoull(s[p[2]], 10)
        /\ r3 = strtoull(s[p[3]], 0) /\ r4 = strtoull(s[p[4]], 0)
    BY <2>1, AcceptedIsRead
  <2>3. user_config \in ParsedConfigs
    BY DEF IInv, ConfigParsed
  <2>4. /\ user_config'.threshold["repmov_start"] = r1
        /\ user_config'.threshold["repmov_stop"] = r2
        /\ user_config'.threshold["nt_start"] = r3
        /\ user_config'.threshold["nt_stop"] = r4
    <3>. HIDE DEF r1, r2, r3, r4
    <3>. QED  BY <2>1, <2>3 DEF ParsedConfigs, ThresholdNames
  <2>5. s = given'.threshold
    BY <1>1
  <2>6. /\ Asked("repmov_start")' = r1 /\ Asked("repmov_stop")' = r2
        /\ Asked("nt_start")' = r3 /\ Asked("nt_stop")' = r4
    BY <2>2, <2>5 DEF Asked
  <2>. HIDE DEF r1, r2, r3, r4
  <2>. QED  BY <2>4, <2>6 DEF UserSet
<1>. QED  BY <1>1, <1>2 DEF Carried, BeforeDispatch

LEMMA SysThresholdsOf ==
  ASSUME cpu' = cpu, features' = features
  PROVE  SysThresholds' = SysThresholds
BY DEF SysThresholds

LEMMA ConfigureCarried ==
  ASSUME ConfigInv, Carried, configure_thresholds
  PROVE  Carried'
<1>1. /\ pc = "configure_thresholds" /\ pc' = "dispatcher_init"
      /\ zen_thresholds' = zen_thresholds /\ user_config' = user_config /\ given' = given
      /\ active_operation_cfg' = active_operation_cfg
      /\ active_threshold_cfg' = active_threshold_cfg
      /\ thresholds' = [t \in ThresholdNames |->
                          IF active_threshold_cfg = "SYS_CFG" THEN zen_thresholds[t]
                          ELSE IF t \in UserSet THEN user_config.threshold[t]
                          ELSE thresholds[t]]
      /\ SysThresholds' = SysThresholds
  BY SysThresholdsOf DEF configure_thresholds, ghosts
<1>2. /\ active_operation_cfg \in Configs /\ active_threshold_cfg \in Configs
      /\ active_threshold_cfg = "USR_CFG" => active_operation_cfg = "SYS_CFG"
  BY DEF ConfigInv, ConfigTyped, Accepting
<1>3. \A t \in ThresholdNames : Asked(t)' = Asked(t)
  BY <1>1 DEF Asked
<1>4. ASSUME NEW t \in ThresholdNames  PROVE thresholds'[t] = InForce(t)
  <2>1. CASE active_operation_cfg = "USR_CFG"
    <3>1. thresholds'[t] = zen_thresholds[t] /\ zen_thresholds = AllThresholds(0)
      BY <1>1, <1>2, <2>1 DEF Carried, Configs, SysConfigured
    <3>. QED  BY <2>1, <3>1 DEF AllThresholds, InForce
  <2>2. CASE active_threshold_cfg = "USR_CFG"
    <3>1. t \in UserSet => user_config.threshold[t] = Asked(t)
      BY <2>2 DEF Carried
    <3>2. t \notin UserSet => thresholds[t] = UINT_MAX /\ Asked(t) = UINT_MAX
      BY <1>1 DEF Carried, BeforeDispatch, AllThresholds, Asked, UserSet
    <3>. QED  BY <1>1, <1>2, <2>2, <3>1, <3>2 DEF InForce, Configs
  <2>3. CASE SysConfigured
    <3>1. thresholds'[t] = zen_thresholds[t] /\ zen_thresholds = SysThresholds
      BY <1>1, <2>3 DEF Carried, SysConfigured
    <3>. QED  BY <2>3, <3>1 DEF InForce, SysConfigured
  <2>. QED  BY <1>2, <2>1, <2>2, <2>3 DEF Configs, SysConfigured
<1>5. \A t \in ThresholdNames : InForce(t)' = InForce(t)
  BY <1>1, <1>3 DEF InForce
<1>6. UserSet \subseteq ThresholdNames
  BY DEF UserSet, ThresholdNames
<1>. QED  BY <1>1, <1>3, <1>4, <1>5, <1>6 DEF Carried, BeforeDispatch

LEMMA OthersCarry ==
  ASSUME IInv, ConfigInv, Carried,
         \/ is_amd \/ get_cpu_capabilities \/ parse_env_operation_cfg
         \/ compute_sys_thresholds \/ AssignCpuVariant \/ AssignTunableVariant
         \/ Exec \/ UNCHANGED vars
  PROVE  Carried'
<1>1. CASE is_amd \/ get_cpu_capabilities \/ parse_env_operation_cfg
  <2>1. /\ pc \in Unread /\ pc' \in BeforeDispatch \cup {"dispatcher_init"}
        /\ pc' = "dispatcher_init" => ~cpu.amd
        /\ pc' # "configure_thresholds" /\ cpu' = cpu
        /\ zen_thresholds' = zen_thresholds /\ thresholds' = thresholds
        /\ active_threshold_cfg' = active_threshold_cfg
    BY <1>1 DEF is_amd, get_cpu_capabilities, parse_env_operation_cfg, Unread, BeforeDispatch
  <2>2. active_threshold_cfg = "SYS_CFG"
    BY <2>1 DEF ConfigInv, Accepting
  <2>. QED  BY <2>1, <2>2 DEF Carried, Unread, BeforeDispatch
<1>2. CASE compute_sys_thresholds
  <2>1. /\ pc = "compute_thresholds" /\ pc' = "configure_thresholds"
        /\ thresholds' = thresholds /\ user_config' = user_config /\ given' = given
        /\ active_operation_cfg' = active_operation_cfg
        /\ active_threshold_cfg' = active_threshold_cfg
        /\ zen_thresholds' = IF SysConfigured THEN SysThresholds ELSE zen_thresholds
        /\ SysThresholds' = SysThresholds
    BY <1>2, SysThresholdsOf DEF compute_sys_thresholds, ghosts, SysConfigured
  <2>2. \A t \in UserSet : Asked(t)' = Asked(t)
    BY <2>1 DEF Asked
  <2>3. SysConfigured' <=> SysConfigured
    BY <2>1 DEF SysConfigured
  <2>. QED  BY <2>1, <2>2, <2>3 DEF Carried, BeforeDispatch
<1>3. CASE AssignCpuVariant \/ AssignTunableVariant \/ UNCHANGED vars
  <2>1. /\ pc' = pc \/ (pc \notin BeforeDispatch /\ pc' \notin BeforeDispatch)
        /\ cpu' = cpu /\ zen_thresholds' = zen_thresholds /\ thresholds' = thresholds
        /\ user_config' = user_config /\ given' = given
        /\ active_operation_cfg' = active_operation_cfg
        /\ active_threshold_cfg' = active_threshold_cfg
        /\ SysThresholds' = SysThresholds
    BY <1>3, SysThresholdsOf
    DEF AssignCpuVariant, AssignTunableVariant, vars, ghosts, BeforeDispatch
  <2>2. \A t \in ThresholdNames \cup UserSet : Asked(t)' = Asked(t)
    BY <2>1 DEF Asked
  <2>3. \A t \in ThresholdNames : InForce(t)' = InForce(t)
    BY <2>1, <2>2 DEF InForce
  <2>4. (SysConfigured' <=> SysConfigured) /\ "configure_thresholds" \in BeforeDispatch
    BY <2>1 DEF SysConfigured, BeforeDispatch
  <2>. QED  BY <2>1, <2>2, <2>3, <2>4 DEF Carried
<1>4. CASE Exec
  BY <1>4 DEF Exec, Carried, BeforeDispatch
<1>. QED  BY <1>1, <1>2, <1>3, <1>4

\* On every processor and in every environment, a pointer that leads to a function of the
\* library's own is published after all the thresholds have got the values the process's
\* environment or the processor's caches ask for; the rep-store ones, for which
\* LIBMEM_THRESHOLD has no field, keep their initialisers if that variable is accepted.
THEOREM ThresholdsBeforePointers == Spec => []ConfiguredBeforeUse
<1>1. Init => Carried
  <2>. SUFFICES ASSUME Init
                PROVE  Carried
    OBVIOUS
  <2>. QED  BY DEF Init, Loaded, Carried, BeforeDispatch
<1>2. IInv /\ ConfigInv /\ Carried /\ [Next]_vars => Carried'
  BY ThresholdCarried, ConfigureCarried, OthersCarry, Zenon DEF Next, libmem_init
<1>3. ASSUME IInv, Carried
      PROVE  ConfiguredBeforeUse
  <2>. SUFFICES ASSUME NEW f \in FuncNames, variant[f] # "system"
                PROVE  \A t \in ThresholdNames : thresholds[t] = InForce(t)
    BY DEF ConfiguredBeforeUse
  <2>1. libmem_cpu_resolver(features) # "system" /\ pc \notin BeforeDispatch
    BY <1>3 DEF IInv, PointersResolved
  <2>2. cpu.amd
    BY <1>3, <2>1, ResolverOfNothing DEF IInv, FeaturesReal
  <2>. QED  BY <1>3, <2>1, <2>2 DEF Carried
<1>. QED  BY <1>1, <1>2, <1>3, Invariance, Configured, PTL DEF Spec

\* The constructor's state keeps its shape in every process: the library's data, what the
\* parsers make of any text, and the dispatcher's index.
THEOREM InitTyped == Spec => []TypeOK
<1>1. Init => Redirected
  BY FuncsLen DEF Init, Loaded, Redirected, BeforeDispatch
<1>2. IInv /\ Redirected /\ [Next]_vars => Redirected'
  BY RedirectedInductive
<1>3. ASSUME IInv, ConfigInv, Redirected
      PROVE  TypeOK
  <2>1. user_config \in UserConfigs
    <3>1. user_config \in ParsedConfigs
      BY <1>3 DEF IInv, ConfigParsed
    <3>. QED  BY <3>1, ParsedInRange DEF ParsedConfigs, UserConfigs, ThresholdSets
  <2>2. features \subseteq
          {"avx512", "avx2", "erms", "movdiri", "vpclmul", "rdpid", "rdseed"}
    BY <1>3 DEF IInv, FeaturesReal, FeatureBits
  <2>3. variant \in [FuncNames -> CpuVariants]
    BY <1>3 DEF IInv, PointersResolved
  <2>4. /\ next \in 1 .. Len(Funcs) /\ (pc = "tunables" => next <= TUN_FUNC_COUNT)
        /\ pc \in BeforeDispatch \cup {"dispatcher_init", "tunables", "done"}
    BY <1>3 DEF Redirected
  <2>. QED
    BY <1>3, <2>1, <2>2, <2>3, <2>4 DEF TypeOK, ConfigInv, ConfigTyped, BeforeDispatch
<1>. QED  BY <1>1, <1>2, <1>3, Invariance, Configured, PTL DEF Spec

\* A variable with too few fields, whatever they hold, configures nothing, and unless one
\* is accepted the thresholds of an AMD processor are those computed from its caches.
THEOREM PartialIgnored == Spec => []PartialConfigIgnored
<1>1. ConfigInv => PartialConfigIgnored
  BY DEF ConfigInv, Accepting, PartialConfigIgnored, BeforeDispatch, SysConfigured
<1>. QED  BY <1>1, Configured, PTL

\* An accepted variable is cut down to one field and never accepted again by a child, and
\* the third generation is not tuned at all.
THEOREM TuningIsLost == Spec => []TuningWearsOff
<1>1. ConfigInv => TuningWearsOff
  <2>. SUFFICES ASSUME ConfigInv
                PROVE  TuningWearsOff
    OBVIOUS
  <2>1. PICK n \in Nat : n = Len(parents)
    BY DEF ConfigInv, ConfigTyped
  <2>2. ASSUME NEW i \in 1 .. n
        PROVE  /\ active_operation_cfg = "SYS_CFG"
               /\ parents[i].threshold = "USR_CFG" => active_threshold_cfg = "SYS_CFG"
    BY <2>1, <2>2 DEF ConfigInv, WornOut
  <2>3. n = 2 => active_operation_cfg = "SYS_CFG" /\ active_threshold_cfg = "SYS_CFG"
    BY <2>1 DEF ConfigInv, WornOut
  <2>. QED  BY <2>1, <2>2, <2>3 DEF TuningWearsOff
<1>. QED  BY <1>1, Configured, PTL

=============================================================================
