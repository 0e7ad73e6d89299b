# Verification of AOCL-LibMem

AOCL-LibMem replaces the C library's memory and string functions with variants
for AMD processors.  This directory holds TLA+ models of the library, TLC
configurations that check them on small instances, and TLAPS proofs.  A name in
`monospace` is a definition of a module or a name of the source; paths are
relative to the repository.

## 1. The system

| Component | State it keeps | Operations | Status |
|---|---|---|---|
| load/store building blocks (`src/base_impls/load_store*.h`) | none; registers within a call | block groups, head/tail groups, forward and backward loops, masked loads | the part the optimized copies use |
| memcpy, mempcpy, memmove (`src/isa/*/optimized`, `src/uarch/zen4`) | none across calls; reads thresholds and cache sizes | one routine per processor generation | modelled |
| constructor (`src/libmem.c`, `cpu_features.c`, `cache_info.c`, `threshold.c`) | `zen_info`, six thresholds, two `active_*_cfg` | `libmem_init` | modelled |
| environment parser (`src/env_parser.c`) | `user_config`; the environment itself, which `strtok` cuts | two parsers | modelled |
| tunable dispatcher (`src/libmem_dispatcher.c`, `libmem_iface.c`) | 17 function pointers | two resolvers, `dispatcher_init` | modelled |
| ifunc dispatcher (`src/libmem_ifunc_dispatcher.c`) | the loader's relocations | one resolver per function | the resolver, for comparison |
| memset | none; reads the rep-store thresholds and cache sizes | AVX2, AVX-512, erms and zen4 forms, six tunable ones | modelled |
| strcpy, strncpy, strcat, strncat | none | page-bounded scan and copy, padding | modelled |
| memcmp, strcmp, strncmp | none; the zen5 memcmp reads the cache size | vector compare, for strings page-bounded | modelled |
| memchr, strlen, strnlen, strchr | none | aligned, page-bounded scan | modelled |
| strstr, strspn | none | scan with a second look at each candidate; length of a span of accepted bytes | modelled |
| tunable variants (`src/tunable`) | none; read the thresholds | vector, rep-movs and threshold forms of memcpy, mempcpy, memmove, memset, memcmp | modelled; never selected (run `tunable_selected`) |
| system variants (`src/system`) | a `dlopen` handle within a call | forward to the C library | not modelled (section 5) |
| tools (`tools`) | - | validator, benchmarks, plots | not part of the library's behaviour |

**How they interact.** A program calls through a function pointer
(`_memcpy_variant`) that initially leads to a wrapper of the C library's
function.  The constructor, run by the loader, computes thresholds into global
variables and then redirects the pointers; it is not synchronised with calls
that other threads may already make.  The routines read the thresholds and the
cache sizes to choose among their paths; nothing else is shared.

**What is hard.**
- *Ordering inside a copy.*  memmove must never destroy a source byte before it
  has been read.  The optimized paths load both ends before storing either, keep
  one to five vectors in registers across a whole loop, and choose a direction.
- *Boundaries.*  Prologue, loop, tail and kept vectors must cover every size
  without gap or overrun, with aligned instructions only at aligned addresses.
- *Interleaving.*  Pointers and thresholds are published one after the other
  while other threads call.
- *Partial and malformed configuration*, parsed by functions that write into
  the environment they read.
- *Agreement* of two dispatchers that decide the same question separately.

## 2. Modules

| Module | Models |
|---|---|
| `LoadStore` | registers, memory, block groups and loops; the properties every copy must have |
| `CopySpec` | the abstract promise of memcpy, mempcpy, memmove: one indivisible copy |
| `MemmoveAvx2` (+ `MCMemmoveAvx2`, `MemmoveAvx2_proofs`) | `_memmove_avx2`; refines `CopySpec`; the proofs begin with what a group of loads and stores does to a copy in progress |
| `Arithmetic_proofs`, `CopyRoutines_proofs` | lemmas on quotients, multiples of a register's size and pages, and on what groups of registers cover |
| `CopyRoutines` | the parts the other copies share |
| `MemcpyAvx2`, `MemcpyZen4`, `MemcpyAvx512` | their routines |
| `TunableCopies` | the variants of memcpy, mempcpy and memmove a user can select |
| `Copies` (+ `MCCopies`, `Copies_proofs`) | the composition: any of these routines and variants, under any thresholds |
| `Memset` (+ `MCMemset`, `Memset_proofs`) | every memset, the selectable ones included |
| `Compare` | what comparisons and searches share: registers, the data as they see it, the calls |
| `Memcmp`, `Strcmp` | memcmp, the selectable ones included; strcmp and strncmp |
| `Scan` | memchr, strlen, strnlen, strchr |
| `Strspn`, `Strstr` | strspn, strstr |
| `ReadOnly` (+ `MCReadOnly`, `ReadOnly_proofs`) | the composition of these five, and what a comparison or a search promises |
| `StringSpec` | the abstract promise of strcpy, strncpy, strcat, strncat: one indivisible copy with its terminator or padding |
| `StringCopy` (+ `MCStringCopy`, `StringCopy_proofs`) | their nine routines; refines `StringSpec` |
| `LibmemInit` (+ `MCLibmemInit`, `LibmemInit_proofs`) | constructor, parser, thresholds and both dispatchers |

### 2.1 Copies

*Data.*  No copy routine looks at a byte, so a byte is represented by the address
it had when the routine was called (its origin).  `mem[a] = b` says that address
`a` now holds the byte that was at `b`; a single run therefore covers all
contents.  Correctness is `mem = Moved(dst, src, size)`: right bytes in the
destination *and* not a byte changed elsewhere.

*Steps.*  One action is one group of loads followed by its stores
(`Transferred`): the macros of `load_store_impls.h` put a compiler barrier
between the two, so within a group everything is read before anything is
written.  One loop iteration is one action, `Forward` or `Backward`.  Registers
that outlive a group are the variable `save`, whose domain is the set of source
offsets they hold; the alignment class of each instruction is part of the
`loop` record and checked by `NoAlignmentFault`.  The masked loads of the AVX-512
code are groups of exactly the bytes of the mask.  Prefetches, register clean-up
and logging have no effect on the state and are left out.  `rep movsb` is one
group: it is used on disjoint buffers only.

*Control.*  `pc` names the path of the routine: `start`, one label per loop,
`kept` when only the registers of `save` are left to be stored, `done`.
`CallMemmove` is the program; between calls it may write anything, which tags
each byte with its own address again and so returns to the initial memory.
`Copies` and `ReadOnly` leave calls in sequence out: the routines keep nothing
from one call to the next, so a behaviour starts with any call (`CallOptimized`,
`CallTunable`) and ends when it has returned.  The thresholds of a call are
arbitrary members of `NtStarts`, `LimitSets` and `ThresholdSets`.

*Tunable variants.*  `TunableCopies` has one variable more, the variant that
executes.  The AVX2 and the AVX-512 files differ in the register size only, so
one model with the size `ZMM_SZ` stands for both.  What distinguishes the seven
vector variants is data: the instruction of the loads and of the stores, the side
whose alignment the loop establishes, the vectors kept.  `ChooseByThreshold` and
`AvoidStreaming` hand the call on to another variant, as the code does by a tail
call.  rep movs is a loop of units of 1, 2, 4 or 8 bytes, upwards or downwards,
because memmove uses it on overlapping buffers.  `Granted` states what
`docs/User_Guide.md` demands of whoever selects a variant: aligned buffers for
`aligned` and `nt`, whole units for `erms_w`, `erms_d` and `erms_q`.

*memset.*  `Memset` uses the same memory, and nothing is loaded.  `val` is an int as
the set of its bits, those a sign extension to 64 bits adds among them.  All routines
but two reduce it to its low byte before they store it: in memory this byte is the
token `Filled`, the origin of no address.  rep stos of words and quad words builds its
pattern from the int as it is: `Pattern` is made as `base_impls/memset_erms_impls.h`
makes it, of shifted copies or-ed together (`Doubled`), and a byte of it that is not
val's low byte is the token `OtherByte`.  A do-while loop is modelled as
a while loop: it is entered with sizes above eight vectors only, for which the
first test would be true.

*Comparisons and searches.*  What a comparison sees of its data is where it has to stop: the
offsets at which the bytes differ or `str1` ends.  They are `first .. last`,
so that a vector, or a group of them reduced to one mask, may hold any number
of stops, and one that is skipped is missed or found too late.  The value of a
comparison is the difference of two bytes at one offset, `ret`; the right one
is `first`, or none if `first` is not below `size`.  A step is the loads that
precede a branch; `load` keeps the interval it has read, with the vectors' size
and the buffers loaded by aligned instructions.  strcmp and strncmp are one
source, compiled twice; so here strcmp is strncmp with a size no offset
reaches.  Addresses are offsets into the first page of each string, as a
comparison looks at nothing above that.  The test for `mem1 == mem2` is left
out, as it only saves the comparison.  The branch of strcmp for two strings of
which neither is aligned is not modelled either: `OneStringAligned` shows that
it is never reached.

A search stops at the byte it looks for: the terminator for strlen and strnlen,
the terminator or the character for strchr, which looks at the byte at `ret`
once more to tell them apart, the character for memchr.  strlen and strchr are
strnlen without the conditions on its size.  The loads of the AVX2 code that
start in front of a string, in the aligned vector that holds its first byte,
have negative offsets.  The two counts of vectors of the AVX-512 code, seven
and then up to the next group of four, are one loop up to `CountEnd`: nothing
happens between them but strnlen's masked load of a rest, which the end of the
routine does as well.

*strspn.*  The bytes accepted are a string of `size` bytes at `str2`, so the
length of that string, loaded up to a page's end first, decides between the
two searches the code has.  A stop is a byte of `str1` that is not accepted.
The terminator is one, so `first` may be either.

*strstr.*  `hay` says where the bytes of the haystack equal the needle's first
byte (`heads`), its second one (`seconds`) and its last one (`lasts`), and where
the whole needle occurs (`found`).  These are what the filters look at, one block
on and at the distance of the needle's last byte; they are consistent with each
other, as bytes are.  strchr, strlen and strncmp, which strstr calls, do here
what they promise: their own models are `Scan` and `Strcmp`.  Near the end of a page
the first block has bits for bytes it has not loaded, `FilledUp`.  The AVX2 code shifts
the signed int that `movemask` returns, and so repeats the match of the page's last
byte, if it is one, in every position of the next page; in the AVX-512 code the lanes
left out by the masked load are 0xff, which is no terminator but may be the needle's
first byte (`hay.filler`).  These candidates are filtered by nothing, and if the needle
occurs at one of them behind the terminator, it is returned: `strstr_stays_in_string`
finds that in both, and `ComparesCorrectly` allows this result, and no other, besides
the right one (`FoundBehindEnd`).

The build without strict bounds is modelled, and for memchr and strncpy, the only
ones of these functions that it changes, the one with strict bounds too.

*String copies.*  `StringCopy` knows its source as a search does, by the offset
of the terminator and the bytes behind it, and has in addition the destination:
`out` maps each of its bytes that has been written to the offset of the source
byte it received, to `Nul`, or to `Old` if it belongs to the string that strcat
appends to; `at` is where the copy begins in it.  Bytes behind the terminator
that are stored with it (strncpy stores whole vectors, and pads afterwards) are
distinguished from zeros, unless they lie in `first .. last` and so may be zeros
themselves.  A step is a group of loads, the branch on them and the stores of
that branch.  The lanes that a mask leaves out are zeros, so in the AVX-512
strncpy of less than a vector the first vector always ends the string.
`StoreEnd` is the common end: the registers `O` are stored, then the eight
overlapping vectors of the padding, if there is any, and `Pad` is an iteration
of its aligned loop.  strcat and strncat are strlen, strnlen and memcpy, which
keep their promises, in front of, or instead of, the same strcpy.

*Widths.*  The vector size is a constant; 4 in the runs, so that all boundaries
(2, 4, 8 and 16 vectors) lie within 70 bytes.  `RemSz` is the modulus of the
narrow remainders; `LargeMove` and `VecMovBase` stand for the 26 KB and 2 KB
of the zen5 code.

### 2.2 Initialisation

Each call that `libmem_init` makes is an action, and so is each assignment of a
function pointer, because other threads see it.  A processor is a record of what
cpuid leaf 7 returns; an environment gives each variable as the sequence of
its comma-separated fields.  `strtok` is modelled by what it does: it skips
empty fields, returns NULL when none is left, and writes a terminator behind
the first token, so the variable is shorter from then on.  `strtoull` maps
text to numbers with wrap-around and 0 for no digits.  `string_compare` is
translated as written (it compares the characters *behind* the first
difference); the character that may lie behind a literal is any of `PastEnd`.
`Exec` replaces the process by a child of the same program, which inherits the
environment as it has become.

Two ghost variables, `given` and `parents`, remember what a process started with
and how its ancestors were configured.

## 3. Runs

| Run | Shows | States |
|---|---|---|
| `memmove_avx2` | memmove is correct, in bounds, aligned, loses nothing, and implements `CopySpec` (with liveness) | 91 000 |
| `copies` | the same for the eleven other optimized routines and the twelve selectable variants of each copy, under their documented preconditions; every call returns | 210 000 |
| `memset` | every memset fills its range with the low byte of `val` and writes nothing else, and returns; the wide variants of rep stos do if `val` is a byte | 55 000 |
| `libmem_init` | no pointer leads to code the CPU cannot run or to code before all its thresholds are what the environment or the caches ask for; each pointer changes once; partial configuration is ignored; both dispatchers agree | 41 000 |
| `read_only` | every memcmp, strcmp and strncmp finds the first difference, every memchr, strlen, strnlen and strchr the first byte it looks for, strstr the first occurrence (or one behind the terminator, see section 2), strspn the first byte not accepted; all stay in their buffers or pages, make aligned loads at aligned addresses, and advance with every step | 2 000 000 |
| `string_copy` | every strcpy, strncpy, strcat and strncat implements `StringSpec`: the copy, its terminator and padding, and not a byte beside; they stay in the string's pages, make aligned accesses at aligned addresses, and advance with every step | 186 000 |
| `tunable_selected` | *violated*: the tunable pass of `dispatcher_init` reads the CPU table again | |
| `zen1_detected` | *violated*: RDSEED is tested in ECX, it is a bit of EBX | |
| `nt_moves_are_large` | *violated*: with `LIBMEM_OPERATION` accepted, the non-temporal threshold is 0 | |
| `invalid_operation_ignored` | *violated*: `avx3` is accepted as `avx2` | |
| `strncmp_stays_in_pages` | *violated*: for small sizes `size - 4 * YMM_SZ` wraps around, and strncmp loads vectors from the page behind the one where its `n` bytes end | |
| `strstr_stays_in_string` | *violated*: near the end of a page both forms of strstr make candidates of bytes they have not loaded, AVX2 by the sign bit of a mask, AVX-512 for needles that begin with 0xff, and may return a pointer behind the haystack's terminator | |

**Why the bounds are enough.**
`memmove_avx2`: with four-byte vectors, sizes 0-18, 31-36, 47-50 and 63-66
take every path and run its loop zero to twelve bytes past up to four
iterations; the distances cover equal, overlapping by any number of vectors,
touching and apart, on both sides; all four alignments of either buffer occur
with each.  16 free bytes lie around the buffers so that a stray store is seen.
The threshold is 0, in the middle or out of reach.  The proofs remove these
bounds altogether.
`copies`: 25 sizes leave each number of vectors, whole and partial, to each
tail; the limits are the configurations the constructor can leave, and between
them they select every loop.  `RemSz` is 16 vectors, the least the code's masks
keep.  The proofs remove these bounds, too, for all but the return of every call.
For the tunable variants: distances from equal through one byte, part of a vector, one,
three and four vectors and touching to apart; sizes that leave 0, 1 and 3
bytes, and every number of vectors, behind the loop, and that are on the end
points of the configured ranges.
`memset`: registers of 4 and 8 bytes, ranges aligned to either register, to neither, and
one byte behind and before a ZMM boundary; each size from the last small one on for more
than a vector; limits that select each
loop, and sizes equal to them; a `val` that is a byte, and a negative one of which the
byte behind the low one is another, so that each pattern differs where it can.
`read_only`: registers of 8, 4 and 2 bytes and pages of 64, in which a page
holds two groups of four vectors; the memcmp sizes lie around every threshold
and leave each number of vectors and part of a vector to each tail, and the
first stop is at every offset, or none.  The strings start at the beginning,
inside and near the end of a line and of a page, in all pairs, some of the same
alignment; the first stop is at every offset up to a page and beyond the next.
Behind it either no byte differs for a while or all do.  The searches start in
every alignment to a group of four that takes another path, and in the last
vectors of a page; the stops of strlen and strchr lie at every offset through
the counted vectors and the first groups behind them.  The accepted bytes of
strspn are none, one, less and more than a vector, at the start and at the end of
a page; needles are of one byte to more than a vector, their candidates one or
two, true or false, on either side of a page's end and of the terminator.
`SizeSpan` and `IntSpan`
are far above all sizes but wrap as a `size_t` and an `int` do.
`string_copy`: AVX-512 registers of 16 bytes, AVX2 ones of 8 and pages of 64, so
that each register down to two bytes is a different one and a page holds one
group of four AVX-512 vectors.  The sources start at the beginning of a page and
of a line, inside one and in the last vectors of a page; the lengths are around
each vector through the counted ones and two groups behind them; the bounds of
strncpy leave every remainder of a vector, are above and below the length,
and pad nothing, less than one vector, up to eight, and several iterations; all
bounds and lengths up to 20 occur in all pairs.  The destination has two
alignments, and the string appended to is empty or not.  The proofs remove
these bounds.
`libmem_init`: one processor of each generation, one with AVX-512 switched off
and one of another vendor; each variable absent, complete, short, misspelt or
with empty fields; three generations of processes, after which the environment
does not change any more.  The numbers keep their order
(2 KB < L2 < L3 < 0xffffffff < 2^64 - 1), not their size.
`CHECK_DEADLOCK FALSE` appears in this component's configurations only: the
constructor ends.

**Fairness.**  `WF_vars(Step)`: a thread inside a routine keeps executing; no
call is ever forced.  The constructor needs none, as all that is said of it is safety.
The comparisons, searches and string copies need none: that they
return is the action property `EveryStepAdvances` (each step that does not end
the routine increases the offset, or keeps it and comes later in a fixed
order, and never passes the first stop, or, while it pads, the size) together with the absence of deadlock,
for `Returned` is enabled at the end only.  There is no other fairness, and none of
it concerns the order of threads.

**What is visible to other threads.**  `RunnableVariants` and
`ConfiguredBeforeUse` are invariants of every intermediate state, not of the end
of the constructor, so they speak about calls that arrive at any moment.
`ConfiguredBeforeUse` compares all six thresholds, from the first redirected pointer
on, with `InForce`, which is derived from the processor and from the environment as the
process was given it: the thresholds themselves come out of a variable that the parser
cuts while it reads it, through `user_config` or `zen_info`.  `InForce` says too what the
code leaves as it was: 0 in all of them if LIBMEM_OPERATION is accepted, and the static
initialiser 0xffffffff in the two rep-store thresholds, for which LIBMEM_THRESHOLD has
no field, if that variable is.  memset reads the latter; it is correct with any
(`MemsetIsCorrect`).

## 4. Proofs

All theorems are checked by TLAPS without any assumption other than the named
`ASSUME`s of the modules: a caller of memmove owns both buffers
(`CallsAssumption` of `LoadStore`, `TunableCallsAssumption`), every register is twice the next narrower
one (`RegsAssumption`, `ZmmAssumption`), eight vectors fit the counter of what a
loop leaves (`RemSzAssumption`), thresholds are natural numbers, and cache sizes are
ordered; a variable of the environment is absent or any sequence of fields
(`EnvsAssumption`); addresses, lengths and bounds of the string copies are any natural
numbers, of which the "bound" of strcpy and strcat is one that no offset reaches, and
memory goes on for a page behind the string and behind the copy
(`CallsAssumption` of `StringCopy`, `DstLensAssumption`); four registers divide a
page (`PageAssumption`); those of the comparisons and searches likewise
(`CallsAssumption` of `ReadOnly`), where memory ends two pages behind any string, the
buffers of the aligned memcmp variants are aligned as their users must align them, and
an occurrence of strstr's needle has its first, second and last byte and does not
contain the haystack's terminator (`HaystacksAssumption`).  Three theorems have a
hypothesis besides (`ResultsAreRight`, `LoadsStayInBuffers`, `ReadTypes`), `IntSizes`: the
routines that hold a size or an offset in an `int` (`IntSized`) are called with sizes
below 2^31.  The code does not ask for it; without it
the result is another byte's (section 5).

| Theorem | States |
|---|---|
| `TypeCorrect`, `MemmoveCorrect`, `MemmoveInBounds` | `TypeOK`, `MoveIsCorrect`, `InBounds` of `_memmove_avx2`, for every vector width, size, overlap and threshold |
| `MemmoveLosesNothing`, `LoopsKeepTheirInvariant` | `NothingLost`, `LoopInvariant` |
| `MemmoveAligned` | `NoAlignmentFault`: aligned and streaming instructions meet aligned addresses only |
| `MemmoveImplements` | the safety of `ImplementsCopy` (`Abstract!Safety`): every step of `_memmove_avx2` is a step of `CopySpec`, or none |
| `Invariance` | the inductive invariant of the constructor |
| `AlwaysRunnable` | `RunnableVariants`: no pointer leads to instructions the processor lacks |
| `ThresholdsBeforePointers` | `ConfiguredBeforeUse`: no function of the library's own is reachable before all six thresholds are what the processor or the environment asks for (with the initialisers of the rep-store ones under an accepted LIBMEM_THRESHOLD) |
| `PointersRedirectedOnce` | `RedirectedOnce`: a pointer in use changes at most once in a process |
| `BuildsAgree` | `AgreesWithIfunc`: on AMD processors both dispatchers choose the same variants |
| `Configured`, `InitTyped` | the invariant of the environment and the thresholds, and `TypeOK` of the constructor |
| `PartialIgnored` | `PartialConfigIgnored`: a variable with too few fields configures nothing, whatever they hold |
| `TuningIsLost` | `TuningWearsOff`: an accepted variable is not accepted again by a child, and the third generation is not tuned |
| `ReadInvariant`, `ReadTypes` | the inductive invariant of the comparisons and searches, and `TypeOK` under `IntSizes` |
| `ResultsAreRight` | `ComparesCorrectly`: memcmp, strcmp, strncmp, memchr, strlen, strnlen, strchr, strspn and strstr have the result they promise, for every size, position of the stops, alignment, position in a page, register size and page size, under `IntSizes`; but for strstr's `FoundBehindEnd` and the rep-cmps variants in `OutsideRepCmps` |
| `EveryStepGetsFurther` | `EveryStepAdvances`: each of their steps gets further, none past the first stop |
| `SomeStringIsAligned` | `OneStringAligned`: strcmp's branch for two unaligned strings has no state to run in |
| `NoAlignmentFaults` | `NoAlignmentFault` of the comparisons and searches: aligned loads at aligned addresses |
| `LoadsStayInBuffers` | `StaysInBuffers`: memcmp, and memchr built with strict bounds, load nothing beside their buffers, under `IntSizes` |
| `LoadsStayInPages` | `StringsStayInPages`: strcmp, strlen, strchr, strspn, strstr, and the bounded functions on strings that end, touch no page but the strings' own, for every alignment, position in a page and page size |
| `BoundedLoadsStayInPages` | `BoundedStayInPages`: zen4's strncmp, strnlen and memchr touch no page behind the last byte that their size lets them look at |
| `CopiesInvariance`, `CopiesTyped` | the inductive invariant of the other copies, and `TypeOK` |
| `CopiesCorrect`, `CopiesInBounds`, `CopiesAligned`, `CopiesLoseNothing` | `CopyIsCorrect`, `InBounds`, `NoAlignmentFault`, `NothingLost` of the eleven routines and every selectable variant, for every size, overlap, alignment, register size, cache size and threshold |
| `MemsetInvariance`, `MemsetTyped` | the inductive invariant of the memsets, and `TypeOK` |
| `MemsetCorrect`, `MemsetInBounds`, `MemsetAligned` | `MemsetIsCorrect`, `InBounds`, `NoAlignmentFault` of every memset, the selectable ones included, for every size, alignment, threshold, register size and int `val`; of the wide variants of rep stos, where `val` is no byte, only the first byte of each unit is right |
| `StringInvariance`, `StringCopiesTypes` | the inductive invariant of the string copies, and `TypeOK` |
| `LoopsHaveCopied` | `CopiedSoFar`: where a loop goes on, exactly the bytes before its offset have been copied |
| `CopiesKeepPromise` | `ImplementsStringSpec`: strcpy, strncpy, strcat and strncat implement the indivisible copy, for every string, bound, alignment, position in a page and register size |
| `StringCopiesAligned` | `NoAlignmentFault` of the string copies: aligned loads, and the padding's aligned stores, at aligned addresses |
| `StringStepsAdvance` | `EveryStepAdvances`: each step comes closer to the end |
| `StringCopiesStayInSource` | `StaysInSource`: no page is read in which the source has no byte, except by strncpy of fewer than 32 bytes built with strict bounds, of which only reads behind the `n` bytes are excluded |

*memmove.*  `MoveIsCorrect` speaks of the last state only and is not inductive.
The inductive invariant is `TypeOK`, `LoopInvariant` and, for the last states,
`MoveIsCorrect` itself: between two iterations the bytes delivered are exactly
those on one side of `offset` (with, for buffers apart, both ends), and the kept
registers hold what their source held at the call.  Everything about memory
goes through one predicate, `Partial(m, d, s, n, D)`: of a copy of `n` bytes
exactly the set `D` has been delivered.  `TransferDelivers` and `StoreDelivers` say how
a group over offsets `O` extends `D` to `D \cup O`, provided the bytes it loads
have not been overwritten; that proviso is what the choice of direction
guarantees, and each loop's lemma proves it from the distance of the buffers.
`NothingLost` follows from the same invariant.  `MemmoveAligned` adds to it
`AlignInv`: in the disjoint loops `dst + offset` is a multiple of the register
size, and so is `src + offset` if the loop loads with aligned instructions;
both hold at the first offset, which rounds `dst` down, and an iteration
advances by four registers (`AlignedStep`).  For `MemmoveImplements` the same invariant
does: while the routine runs the abstract memory is untouched, a step that does not end
it keeps the arguments (`RoutineKeepsArguments`), and in the state after one that does
`MoveIsCorrect` says that memory is what the abstract copy makes of an untouched one
(`LastStepCopies`).

*Initialisation.*  The inductive invariant `IInv` says that the features in use
are the processor's, that each pointer is the C library's function or
the resolver's choice for those features (and the former until the dispatcher
runs).  On another vendor's processor no features are set, so the resolver
answers `system`.
`AgreesWithIfunc` speaks of a process whose constructor has ended, which `IInv`
does not know; `Redirected` strengthens it by the pointers already redirected at
each position of the dispatcher's passes.  `RedirectedOnce` is a consequence of
one step: the tunable pass reads the table of the first pass again, so the value
it assigns is the one the pointer has.
What becomes of the environment is a second invariant, `ConfigInv`, that needs
nothing of the first.  Its ground is what `strtok` does to a text: parsing leaves
one field of a variable that had any (`TruncationLeavesOne`), and a variable is
accepted only if it has three fields for an operation or four for thresholds
(`OperationHasThree`, `ThresholdHasFour`).  So what a process accepts its children cannot
(`WornOut`), which `Exec` hands on, because a child starts with the environment
its parent has left.  `ThresholdsBeforePointers` needs both and a third, `Carried`,
which follows each threshold: until they are configured the initialisers are in place;
an accepted LIBMEM_THRESHOLD was read whole (`AcceptedIsRead`) and from the value the
process was given, because nobody has cut it before; zen_info holds what the caches
give only if neither variable was accepted; and when the dispatcher starts on an AMD
processor, the only kind on which it redirects anything, all six are `InForce`.

*The other copies.*  Twenty loops of eleven routines and a dozen variants share one
invariant, because they differ in four things only, and `LoopInv` has one conjunct
for each.  `Directed`: where the buffers may lie, which the choice of the path
guarantees (apart; or the destination in front of the source, for loops that run
forwards; or behind it).  `Fits`: how much an iteration moves and how much the size
leaves room for.  `AlignedAt`: the offset is a multiple of the register's size from
whichever buffer the loop needs aligned, and a step is a whole number of registers.
`KeepsEnd`: the loops of memmove that stop short of the end have kept the rest in
registers.  Memory is `Delivering(m, d, s, n, G, T)`: the bytes `G` are in place and
nothing outside `T` has been written.  Two sets are needed because the groups of
these routines overlap: bytes written by one group are written again by the next, and
bytes that are kept are overwritten before they are stored.  `SourceIntact` is the
heart of it: in a loop that runs as `Directed` says, the source of a byte that has
not been reached has not been reached either.  From there each action has a lemma
about its numbers: the group in front of a loop covers everything up to the loop's
first offset (`EnterKeeps`, `KeepKeeps`); an iteration stays in bounds because the
loop stops one group in front of the end (`ForwardKeeps`, `BackwardKeeps`); and a
tail, of as many vectors as `rem_vecs` counts, or as the kept registers leave, covers
what the loop has not (`VecsDone`, `VecsLeft`, `DownKept`, `UpKept`).

*memset.*  Memory goes through `Filling(m, d, n, D)`: at least the bytes `D` of the
range hold the low byte of `val`, and no byte beside the range has been written.  Between two
iterations `D` is `LoopFilled`, the bytes before `offset` and, in the routines that
fill both ends first, the last four vectors; before the last store of the aligned
variants it is all but one vector.  `FillExtends` is the only lemma about memory;
the rest, shared with the other copies in `CopyRoutines_proofs`, are about numbers:
which groups cover `n` bytes (`NarrowCover`, `ZmmCover`), that the vectors `rem_vecs`
counts cover what a loop leaves and are no more than it can leave (`RemVecs`), that the loops start aligned (`LoopStart`) and, for zen4's
YMM stores behind a ZMM prologue, that what is aligned for the wider register is
for the narrower (`HalvesAligned`).  rep stos is the one step that may store another byte:
`PatternIsRight` shows that the first byte of a pattern is val's low byte, because all
that is or-ed to it is shifted past it, and that all its bytes are if `val` has no other.

*String copies.*  `ImplementsStringSpec` says that the step to `done` leaves the
whole destination right, so the invariant has to say how much of it is right
before: `CopiedUpTo(o)`, the bytes up to `o` have arrived, the string does not
end in them and nothing else has changed; in the padding loop `Padded`, everything
but the zeros between `offset` and the last four vectors is in place.  In the
loops, the invariant has in addition that `str1 + offset` is a multiple of the
register's size and that at least one vector has been copied, without which
the vector that ends with the terminator would begin in front of the buffer.
The first lemmas of `StringCopy_proofs` show what sets of registers cover (`NarrowestCover`: two
overlapping registers of one width are all the bytes up to the widest's;
`PadCovers`: the eight vectors of the padding), and that the register in which
`tzcnt` finds the stop holds `first` (`FirstHitIsFirst`).  The two lemmas that
carry the argument are `StoresComplete`, stores that cover what is missing
make `out` the promised string whatever they overlap with, and `StoreEndHolds`,
the same with padding; each action has one lemma, which shows that its registers
fulfil their conditions.  For `StringCopiesStayInSource` the invariant is
strengthened by `PageInv`: who comes to the unmasked first vector from the test
at a page's end knows that the string goes on behind that end; the counted
vectors end exactly where the groups begin (`GroupsBeginAligned`, `AlignedGap`); and
in the groups `str1 + offset` is a multiple of four registers, so that a group lies
in one page (`BlockInOnePage`).  `TypeInv` serves `StringCopiesTypes`: no offset is more
than a vector behind the string or the `n` bytes, which makes it a `size_t` (the groups
of a `strcpy` could otherwise count on), and the destination is as the caller left it up
to the first store, so that every byte in it is the caller's, the string's or a zero.

*Comparisons and searches.*  `ComparesCorrectly` speaks of the last state only.  The
inductive invariant says of a routine still running that no stop lies behind it, `offset
<= first`, and what its loop needs besides: `Reached` has a conjunct for each family.
`OfMemcmp` keeps what a tail relies on, that more than a group is there, and where
a path has compared the front already, that the first stop is not in it; `OfStrcmp`,
that one string, or both, are aligned at `offset`, and that the vectors counted still
lie in the page of the other one; `OfScan`, how far the counted vectors are from the
groups; `OfStrstr`, that no occurrence of the needle has been passed, although
candidates have been filtered out and the filters may be left out near the end of a
page; what is found there is an occurrence in any case, in front of the terminator or
one of `FilledUp` (`Answers`).  The lemma that carries the results is `HitIsFirst`: if the registers looked at
leave no byte out between `offset` and an `e` (`Covers`; they may overlap and come in
any order in which each begins where one in front of it ends, or sooner), then the first
one with a stop holds `first`, and if none has one, `first` is not in front of `e`.  An
action's lemma shows that its registers cover what lies between the old offset and the
new one, or the end; the outcome lemmas (`CompareOutcome`, `GroupOutcome`, `TailOutcome`)
make of it either the promised result or the invariant at the new offset.  What is not
about registers is about pages and multiples of a register's size: that strcmp,
when it has reached the end of one string's page, goes on at an offset that aligns that
string, and that the vectors counted from there do not leave the page (`VecsCounted`).
Where they read is a matter of the registers alone: what a step has loaded begins where
one of the registers it has used begins and ends where one of them ends (`ReadIs`), so
that `StaysInBuffers` follows from registers that lie in the buffer (`InsideKept`, and
`CallStays` for what the call fixes); `NoAlignmentFault`, from the alignment the
invariant has for each loop.  The page properties need one more idea, that a load is
justified in one of two ways.  Registers that end within `LeftInPage` of a byte that may
be looked at end in its page (`EndOfPage`, `BlockReaches`): the first loads, the counted
vectors, the groups of four, the filters.  And an aligned register begins and ends in
one page, and is looked at only if those in front of it have no stop, so that its first
byte is one of the string (`AlignedReach`).  `Limit` is what a byte that may be looked at
is for the routine: not behind the first stop, nor, where the size is a promise, behind
the last of `size` bytes.  The test at a page's end in strcmp is on the bits that both
addresses have together, and so may be wrong; `FarFromPageEnd` shows that it errs on
one side only: if either string is in the last line of its page, and not at that line's
beginning, the test says so.  `ReadTypes` asks of the same facts only that nothing is
far behind: a load lies in the buffer, or ends in the page of a byte that may be looked
at and so less than a page behind that byte (`EndsNear`), and what is returned is a
position that was looked at, one of strstr's candidates, or what rep cmps makes of a
buffer without a unit (`RepCmpsTypes`).

*Only model-checked:* liveness, which needs fairness: `CallsReturn`, `MemsetReturns`
and the fair part of `ImplementsCopy`.  Every other property of a passing
run is a theorem.

## 5. Not modelled, and why

- Weak ordering of non-temporal stores: a second thread and store buffers are
  needed, and then the model is one of the processor; memory here is what the
  thread that copies sees.
- The system variants: `dlopen` and `dlsym` wrappers without state of their own;
  their only decision is the test for NULL.
- Sizes of 2^31 bytes and more, for which the tails of some memcmps truncate an
  offset to an int: `ToInt` has the truncation, the run's bounds do
  not reach it, and `ResultsAreRight` excludes it by `IntSizes`.
- Where the compiler puts the results of inline assembly whose constraints do
  not name the register written (`"=rax"` allows any): rax is assumed for repz
  cmps.
- `__builtin_cpu_is` in the ifunc build: the compiler's own table.
- FSRM: it is read from cpuid and used by nothing.
- Performance: prefetch distances, choice of loops.
- The tools: the validator and the benchmarks test the library from outside.

Deviations that the models contain but no run states, all in code that the
dispatcher never selects or that no document promises otherwise:
- The rep-movs memcpy returns `dst + size`, and the byte-wise backward memmove may
  return `dst + size - 1`: `CopyIsCorrect` asks nothing of the value these
  (`ErmsVariants`) return.
- memcmp by words or larger units subtracts the first bytes of the unit that
  differs, and so returns 0 if only a later byte does: `ComparesCorrectly` leaves
  these out (`OutsideRepCmps`).
- memset by words, double or quad words builds its pattern from the int `val`: for a
  `val` that is no byte, all bytes of a unit but the first may be wrong, and
  `MemsetIsCorrect` asks nothing of them (`MayDiffer`).
- strncpy of fewer than 32 bytes, built with strict bounds, loads its halves
  without a test for the page's end, and so may touch the page behind a string
  that is shorter than its `n`: `StaysInSource` asks of this path only that it
  reads no byte behind the `n`, which is what `BUILD_RUN.md` means by strict
  bounds, and not that it is safe at page boundaries as well.

## 6. Plan

Done: `LoadStore`, `MemmoveAvx2` with its refinement and proofs; the other copies, proved;
`LibmemInit` with its proofs; `TunableCopies`; `Memset`, proved; `Compare`, `Memcmp`,
`Strcmp`, `Scan`, `Strspn`, `Strstr`, `ReadOnly`, proved; `StringCopy` with its refinement,
proved.

Left: the refinement of `CopySpec` by `Copies`, of which `CopiesCorrect` is the essential
part (in `Copies` a behaviour is one call, and the abstract copy would have no more
steps than the one that theorem is about).
