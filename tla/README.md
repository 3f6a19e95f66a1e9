# NGCCM4 in TLA+

NGCCM4 builds post-quantum key-encapsulation schemes (DKE, ZEN), a key exchange
(ADKEX) and their m4 versions for a Cortex-M4 board (STM32F4 Discovery) or for
QEMU (mps2-an386), runs them, and collects cycles, stack use and test verdicts.
This directory models the parts of it whose correctness depends on order: the
make build, the benchmark script, the cycle clock, the stack measurement, the key
exchange and its KEM, the reconciliation of key bits, the sampling of the public
matrix, the 16-bit arithmetic on polynomials and the encryption under ZEN. TLC checks
the models on small instances; TLAPS proves the theorems listed below for every
value of the constants.

`PROJECT.json` lists the components, the runs with their properties, the map from
definitions to source lines, the hazards, the findings and the theorems.

    tlc -workers 2 -config HalClock.cfg HalClock     # a run: cfg and module, see PROJECT.json
    tlapm HalClockProofs.tla                         # the proofs of a module

## 1. Inventory

| Component | State | Operations | Interacts with | Where |
|---|---|---|---|---|
| Make build (`Makefile`, `mk/`) | files of `obj`, `elf`, `bin` with their times, the stamp of the configuration | `platform-sync`, compile, archive, link, convert; failure, interrupt | called by both scripts; produces what is flashed | `BuildSync` |
| Benchmark runner (`benchmark_schemes.py`) | position in the loops over implementations and runs, captured text, statuses, exit status | build, open port, flash, read, time out, run QEMU, read code size, summarise | make, OpenOCD, the serial line, QEMU | `Benchmark` |
| Application drivers (`speed.c`, `hashing.c`, `stack.c`, `test.c`) | where the program is, what it printed | print a value, fail and halt, finish with `#` | the runner reads what they print; they call the schemes and the clock | `Benchmark`, `HalClock`, `AdKex`, `StackMeasure` |
| Stack measurement and heap (`stack.c`, `__wrap__sbrk`) | canary size, the painted bytes, heap end, sizes reported | paint, call, scan, retry with a larger canary | the measured call and interrupts write on the paint; the heap moves towards it | `StackMeasure` |
| HAL cycle clock (`hal-stm32f4.c`, `hal-mps2.c`) | SysTick counter, pending interrupt, 64-bit overflow count | `hal_setup`, `hal_get_time`, the interrupt handler | preempts the measured program | `HalClock`, `CycleClock` |
| ADKEX | buffers `sta`, `skb`, `pkb`, messages, keys of callers; the generator | key generation, pass 1, pass 2, derivation by both | DKE KEM, DRNG; messages through whatever transport the callers have | `AdKex` |
| DKE KEM | none between calls | `KeyGen`, `Encaps`, `Decaps` | CPA scheme, hashing | `DkeKem` |
| DKE reconciliation | none | `getsignal`, `apply_signal`, `fromsignal`, `mod2` | CPA scheme | `Reconcile` |
| DKE samplers | XOF position, block, candidates gathered, coefficients | squeeze, reject, gather, multiply | hashing | `MatrixSampler` |
| DKE polynomial arithmetic | none; coefficients in 16 bits | transforms, base multiplication, accumulation, reductions | the CPA scheme orders them | `DkePoly` |
| m4 assembly | registers | the same, and Keccak, SM3, SHA-256 | | control of `matacc_asm.S` in `MatrixSampler` |
| ZEN KEM | none between calls; the nonce within key generation | key generation with retries and inversion, encryption, decryption with correction | | `ZenPke` |
| DRNG, randombytes | V, C, reseed counter; buffer and position | instantiate, generate | all schemes | not modelled; a source of distinct draws in `AdKex` |
| Hashing | none, or the sponge and its position | hash, XOF, successive squeezes | all schemes | symbolic; position of `pseudoXOF_squeeze` in `MatrixSampler` |
| Console and board setup | none | print, configure clocks | | not modelled |
| Discovery, summaries | none | list schemes, average | make | not modelled |
| Linker scripts, device table; bundled libraries | | | | not modelled |

What is hard in them:

* **Interleaving.** The clock's count is two words, changed by an interrupt handler
  between any two of the reader's loads. Make with several jobs looks at files
  while a recipe removes them. The board prints while the script flashes it.
* **Failure and restart.** Make is interrupted between emptying and writing its
  stamp; a link fails after its objects were rebuilt; a tool hangs or dies.
* **Messages.** A key-exchange message may be late, repeated, handed to somebody
  else or damaged; every API call overwrites buffers of the caller.
* **Streams in pieces.** A squeeze goes on where the last one ended, with a
  position counted in bytes by one implementation and in SM3 calls by another.
* **Edges of numbers.** A rounded division by a magic constant, parities of centred
  remainders, a counter of gatherings of four; sums in 16 bits that are reduced only
  now and then, with a margin that depends on the modulus.
* **Shared memory without a guard.** The stack driver paints towards a heap that grows;
  its limit is measured in one frame and used in another, and every failure of a call
  looks like a canary that was too small.

Correct means: a clock reading is a time inside the call; a successful `make`
leaves images of the current sources and configuration; a value is filed under
the implementation that printed it and a failure is told by the exit status; keys
agree exactly when both peers saw the same exchange and never coincide otherwise;
reconciled bits agree under the noise the parameters allow; reference and m4
sample the same matrix from a seed; a reported stack size covers what the call
wrote; no intermediate sum of the polynomial arithmetic leaves its 16 bits; an
inverse modulo 2 is an inverse, and what decryption can correct it corrects.

## 2. The modules

`HalClock` is composed with `CycleClock` by refinement, `AdKex` instantiates
`DkeKem`. The other models are independent: `Benchmark` takes from the build only
that it succeeds or fails, and the programs it runs only by what they print.
Modules with a name in `...Proofs` hold theorems and proofs, those in `MC...` the
constants of the runs. `DkeCpaProofs` is about two modules, `Reconcile` and
`MatrixSampler`, the parts of the CPA scheme besides the arithmetic; so that both can be
extended there, the names that would clash begin with R in `Reconcile` (`RSpec`, `RInit`,
`RTypeOK`).

### HalClock, CycleClock

`HalClock` splits `hal_get_time` into its volatile accesses: the two words of
`overflowcnt` (`LoadBeforeLo`, `LoadBeforeHi`), the counter (`LoadValue`), the low
word again, the comparison and the return or retry. `Tick` is one count of SysTick
and sets the pending interrupt on wrap, `SysTickHandler` is the handler and runs
between any two accesses (`Cpu`: at most `MaxLate` accesses complete while an
exception pends, and at most `MaxGap` ticks pass between two steps of the processor). `SetupReadOld`, `SetupSeesOverflow`, `SetupPolls` are the wait in the
STM32F4 setup; mps2 returns at once. The counter runs down from `Period - 1`, the
words wrap at `WordMod`. `CycleClock` is what a reader of the clock may rely on: a
call that reads the time once, at one instant.

### AdKex, DkeKem

Values are symbolic: a public key, ciphertext or session key is a record of the
draws it was computed from, so two are equal exactly when the bytes are, up to
collisions of hashes. `DkeKem` is the Fujisaki-Okamoto transform with implicit
rejection; a ciphertext may be `Exact`, `Near` (damaged so little that
reconciliation still gives the same secret) or `Far`. `AdKex` has one action per
API call that changes a buffer. Every call draws its coins first, so `Draw` is the
generator. A message once sent stays in the set of messages: it may be lost,
delivered late, to somebody else, or again; `DamageM1` and `DamageM2` add damaged
copies. Callers may restart a pass over old buffers and publish a new key at any
time. `Failing` is the set of coins whose encapsulation has too much noise.

### BuildSync

A file has the configuration and the version of the source it was made from; which
files are newer than which is a relation, since make compares times only. `StartMake`,
`Look`, `UpToDate`, `StartJob`, `FinishJob`, `FailJob`, `Fail`, `Succeed` are GNU make: a
run has a number of job slots, looks at each target once its prerequisites are settled,
decides by times, and uses what it saw. `SyncStart`, `SyncCompare`, `SyncRemove`,
`SyncWrite` are the recipe of `platform-sync`, the stamp being emptied before it is
written; what waits for it is `WaitsForSync`, the linker script does not. `Edit` changes
a source; `Interrupt` stops everything between any two steps. A recipe that fails leaves its
old output, none, or, if it is an ELF file, the one that LD wrote before SIZE failed (the
makefiles have no `.DELETE_ON_ERROR`). The linker script's own source (`mps2-an386.mk:32`)
is taken never to change, and the configurations differ in no macro it contains, so the
script made from it is the same for all. A stamp left empty by an
interrupt is remembered in `torn`: the next run then finds no previous configuration and
removes nothing, which the makefile cannot avoid as written. The properties about what the
files hold except that state, so they speak of every interrupt but that one.

### Benchmark

The script on one side (`Build`, `Open`, the steps of flashing, `Read`, `TimeOut`,
`RunCommand`, `CodeSize`, `Conclude`, `NextRun`, `Summarise`), the board on the other
(`PrintLine`, and the ways to fail): the board is not told when a capture ends, so a program
left running prints into the next capture. A target is an implementation and an
application. `speed.c` that fails prints why and halts (`FailAndHalt`); `hashing.c` prints and
fails alike and goes by the same name. `stack.c` returns before it measures anything
(`ReturnEarly`) or, when the measurement failed, prints the reason and still `#`, without
a value (`GiveUp`, `SendDone`). `FailedOutputs` are the same outputs under QEMU, which ends
with success all the same. A make that is missing ends the script with a traceback. `Read` is one round of the loop with the
deadline; `Parse`, `Outcome`, `Measurements` translate what the script makes of the
text.

### StackMeasure

An address is its distance below the stack pointer of a round. `Fill` paints up to
`canary`, `Call` writes a frame that may have holes or hold the canary's own value, lets
an interrupt push at some depth, and lets the heap grow and its data be written; `Check`
is the scan, during which an interrupt may push again, `Compare` the comparison of the
secrets. `Main` enlarges the canary after any failure, up to a limit it measures from its
own frame (`Limit`), and gives up when the canary already was that limit. `marks` and
`deep` remember what the call really did, `deepest` and `failed` what any call of any
round did. That the heap leaves its room to the deepest call is a guard of `Call`: what
follows when they meet is not modelled.

### Reconcile

One coefficient from kB and kA to the signal and the two key bits, in the integers
the code computes with: 32-bit products with a rounding constant, 16-bit Barrett
reduction, centred remainders. The path by which kA comes to differ from kB (NTT,
compression, error polynomials) is the noise `e`.

### DkePoly

One coefficient `r` on its way through the forward transform, a sum of `K` products, the
inverse transform and the final additions, in the order of `dkecpa.c`. The factors of a
product may be unpacked from 12 (DKE-512: 13) bits, so they may pass Q, up to 4095 (8191),
and so may what the forward transform starts from. What it meets is
any value up to `width`, which bounds the other coefficients of the polynomial; `want` is
what exact arithmetic modulo Q makes of the same operations, `lost` whether a store did
not fit its 16 bits. Which coefficients meet is not modelled, so that the transforms are
transforms is not shown; that no step loses anything is.

### ZenPke

Key generation takes candidates by a one-byte nonce shared by two loops (`RetryF`,
`TestG`) until f is invertible modulo 2 and modulo q and g modulo q; `AcceptF` and
`InvertLevel` are `FastInversion`, which doubles the degree at each level. `Encrypt` adds
any blur (h s + e) to the message and compresses, `Multiply` and `SimpleDecode` are
decryption with its correction of coefficients that left the centred range. Polynomials
are functions from exponents. The transforms are the products they compute, except for
what `poly_intt` (`ntt.c:84`) leaves of them: its last multiplication returns coefficients
up to 707 and not up to q / 2, so a coefficient may be at either of two representatives
(`Fars`, `Leave`); and its layers add in 16 bits without a reduction in between, so a sum may
wrap and leave the product off by something (`Wraps`).

### MatrixSampler

One matrix entry. A stream is the set `good` of candidates whose value is below q; a
candidate is named by its place. `Squeeze` copies the next blocks and advances the
stream, by bytes in the reference, by whole SM3 outputs in m4. `NextGroup` takes a
group of bytes, `Test` a candidate of it, `Store` appends a coefficient or, in matacc,
gathers it and multiplies when four are gathered (`Gather`). The two implementations
run one after the other on the same stream.

## 3. The runs

| Run | Instance | What it shows |
|---|---|---|
| `clock` | period 17, words modulo 2, gap and latency 1, 60 ticks, both boards | `ReadingExact`, `ReadingsMonotone`, `OneRetry`, refinement of `CycleClock` (`ReadsAtomically`), `ClockProceeds` |
| `adkex` | 2 initiators, 2 responders, 2 servers (symmetric), 5 draws, or 4 and a damaged message | `KeysAgree` (keys are equal exactly when both saw the same exchange and reconciliation did not fail), `KeysDistinct`, `ImplicitRejection` |
| `build` | 2 applications with a shared library, 2 configurations, 3 runs of make with 1 or 2 slots and any goals, 2 mishaps (edits, errors, interrupts) | `NeverMixed`, `StampCovers`, `SuccessNotStale`, `SerialIsFresh`; every run ends: `WorkShrinks`, `NeverStuck` |
| `build_parallel_lost` | 2 applications with libraries of their own, 2 slots, 2 runs, no mishap | finding: `SuccessIsFresh` is violated |
| `stack` | 2 calls of depth 4 and 1, the first with a hole; frame 2, increment 3, room 7 of which the heap takes up to 2 | `ReportExact`, `PaintSparesHeap`, `FailsForAReason`, `Ends` |
| `bench_loop` | 1 implementation with 2 applications, speed and stack; board once, board twice with `--fail-fast`, QEMU twice; 1 iteration | `CaptureExact`, `ExitTells`, `Ends` |
| `reconcile` | all coefficients, both coins, noise 0, 1 and at and past the bound with both signs, 3 sizes | `BitsAgree`, `SignalHides` |
| `poly` | DKE-256: q = 3329, 7 layers, 4 products; factors 0, 3328 and 4095, the largest unpacked value; every meeting with the largest values of either sign and one between | `Exact`, `NothingLost`, `SentCanonical` |
| `poly_lost` | DKE-512: q = 7681, one pair of factors whose reduced product is large | finding: `Exact` is violated |
| `sampler` | N = 4, gatherings of 2, groups of 3 bytes with 2 candidates, the first 14 bytes undecided, 2 kinds of blocks | `InBounds`, `FirstAccepted`, `SameMatrix`, `Ends` |
| `zen` | degree 16, q = 769, 6 candidates, 3 nonces, 3 messages, spikes of 97 or -97 at up to two exponents; products at either representative, with one wrapped sum or none | `Inverts`, `EvenDecrypts`, `KeyGenEnds` |
| `zen_error` | the same | finding: `OneErrorCorrected` is violated |

The runs of `HalClock`, `AdKex`, `BuildSync`, `StackMeasure`, `Benchmark`, `Reconcile` and
`MatrixSampler` check the type invariant of their module too. Bounds and why they are
enough:

* `clock`: 17 is the least period under which a call is short against it
  (`ClockAssumption`), as on the board, where the period is 2^24 and a call takes tens of
  cycles. Words modulo 2 make the carry from the low to the high word, one in 2^56 cycles
  on the board, happen every second wrap. 60 ticks are three wraps. The theorem on
  `OneRetry` asks for more than 13 times `Gap` (here 2), that is a period above 26; the run shows
  that with these gaps 17 will do too. `ClockAssumption` alone does not imply it: with
  period 41 and gaps of 4 the loop can repeat twice.
* `adkex`: a full exchange needs three draws (server key, pass 1, pass 2). Five leave
  room for a second attempt on one side, or a second server key, while the first is
  under way; each wrong pairing involves two of a kind, which the two peers per role
  give. With a damaged message four draws still leave one too many.
* `build`: a stale file needs one run to make it, one to change or fail and one to be
  believed: three runs. Two configurations and two mishaps, of one kind or of two, can
  fall at any point of them. Two applications share a library, so that jobs wait for
  each other. After two mishaps a run has two slots or two goals, not both (`Light`).
* `stack`: the first call is deeper than the smallest canary and leaves a hole exactly
  where that ends, which is how a size comes out too small; the limit is met both
  exactly and past an increment, and moves while the heap grows.
* `bench_loop`: a program left running can disturb only the next capture, hence two
  targets, one of each application, since they fail in different ways; two runs of a target
  are distinguished from the last by `--runs`.
* `reconcile`: exhaustive in coefficient and coin; between the noise values checked, the
  theorem covers all.
* `poly`: bounds are reached at the extreme values of both signs, and the theorems cover
  those between.
* `sampler`: the reference has two blocks first and m4 one, as in DKE-128; 14 undecided
  candidates cover two refills of m4 and one of the reference. From there all
  candidates are accepted, so sampling ends; in `Ends` this is an assumption, a stream
  can reject for ever.
* `zen`: degree 16 has two doublings in `FastInversion` and messages of four bits;
  three nonces make the nonce come round while either loop is searching. Two spikes that meet
  in a product with f carry a coefficient past q / 2, one does not, so messages with no,
  one and two errors occur.

Each property of a passing run has a mutant in `PROJECT.json`: an operator beside the
one it alters, standing for a plausible slip in that code, under which TLC finds the
property violated.

### Fairness

* `HalClock`: weak fairness of the clock, of the handler (the interrupt is taken when
  pending and not masked) and of the processor. The program is the only thread.
* `BuildSync`: none in `build`. That a run of make ends is stated without fairness: every
  step of it shrinks a measure (`WorkShrinks`), and until it is over there is a step to
  take (`NeverStuck`). `FairSpec` (processes run; edits, failures and interrupts need not
  come) is used by `build_parallel_lost`.
* `Benchmark`: weak fairness of the script. The board is not fair: it may never print
  again, which is why deadlines matter. Timeouts end waits because the script looks at
  its deadline in every round.
* `StackMeasure`, `MatrixSampler`, `ZenPke`: a sequential program takes its next step.
* `AdKex`, `Reconcile` and `DkePoly` have safety properties only.

Deadlock is not checked where a system really ends: a finished script, a sampled
polynomial, an exhausted bound.

## 4. Findings

1. **Parallel make can succeed without an image.** `platform-sync` is an ordinary
   prerequisite beside the images, so with two job slots make may look at the old images
   before the recipe has removed them, and exit 0 with nothing left
   (`build_parallel_lost`). What is left is never stale or mixed (`SuccessNotStale`,
   `NeverMixed`). With one slot the order of prerequisites saves it (`SerialIsFresh`).
2. **A sum of the DKE-512 products can leave 16 bits** (`poly_lost`). At
   `polyvec.c:51` a coefficient adds eight reduced products before the reduction. With
   q = 7681 each can be as large as 4284, and 8 * 4284 = 34272 is more than 2^15. Random
   coefficients hardly ever get there. DKE-128 and DKE-256 cannot: `TwoSizesCovered`.
3. **ZEN decryption does not correct a single error** (`zen_error`). A place without an
   error selects exponent 0, not nothing (`pke.c:201`), so the inverse of f is added once
   for each place without an error: nothing is corrected unless the number of errors is
   even (`EvenDecrypts`).

Observed while modelling, and without a statement of the repository they contradict or
a run of their own:

* Output of one implementation can be filed under the next: the input buffer is emptied
  before OpenOCD has halted the board (`benchmark_schemes.py:359`). `CaptureExact` says
  when a capture can be trusted: when the board was silent at its start.
* A tool that hangs can end the whole script: the output of a timeout is bytes and is
  joined to text (`benchmark_schemes.py:392`); `FlashTimesOut` and `RunCommand` have the
  traceback as an outcome.
* An interrupt between emptying and writing the stamp leaves a stamp of no
  configuration, and the next `make` keeps the old objects (`torn`). No property
  catches it: they except exactly this state.
* The stack driver's largest canary may run over the heap by the difference of the two
  frames and what the heap grew; that takes a call that came within `STACK_SIZE_INCR` of the
  heap end, or a round that failed for another reason (`PaintSparesHeap`). A call deeper than
  the canary is accepted if it left the canary's far end as it was (`ReportExact`).
* A measurement of `stack.c` that failed prints the reason and then `#`
  (`crypto_kem/stack.c:149`), so the script counts its capture as a success, without values.
* The DKE-512 blocks are 192 bytes in the reference and 96 in m4, groups are 13 bytes, and
  each implementation drops the bytes left at the end of a block. They sample the same
  polynomial as long as m4 needs no second refill. `SameMatrix` has that condition;
  without it TLC shows two different polynomials. A refill at all has negligible
  probability.
* Under QEMU `fail_and_halt` reaches a trap, whose handler ends QEMU with success: the capture
  is counted, and only the missing values tell.
* The sums of ZEN's `poly_intt` can wrap (`ntt.c:95`): a coefficient of the last layer is a
  sum of 128 results of `base_mul`, each of up to six terms of about q / 2. `ntt.c` itself,
  run outside this project on 20 million random products, did so in three of them. A wrap in
  the last layer moves one coefficient by 655, that is by -114 modulo q, which decryption
  takes as noise; `EvenErrors` covers whatever a wrap leaves, as `Flipped` counts it as errors.
  By the same token `EvenDecrypts`, whose premise counts the errors of the product as computed,
  says nothing of a wrong product; `ProductCentred` does.
* The Keccak code counts under `PROFILE_HASHING`, the build sets `HASHING_PROFILE`.

## 5. The proofs

Nothing is assumed but the named assumptions on the constants (`ClockAssumption`,
`SizeAssumption`, `LayoutAssumption`, ...), which TLC evaluates in the runs, and the hypotheses a theorem
states. Three assumptions are about more than types and sizes: in `BuildSync` the targets
are finitely many, as in any makefile, and the value `None` of a missing file is no
content of a file; in `Benchmark` the implementations are distinct, and there is at least one of
them and at least one target, as discovery and `main` (line 715) see to; in `ZenPke` twice a proper divisor of `N4` divides
`N4` too, which says that it is a power of two, as the three values of `params.h` are.

**HalClockProofs.** The inductive invariant `IInv` ties the overflow count, the pending
interrupt and the counter to the true time, and says for each place in `hal_get_time`
what the words loaded so far are worth: they are the count at their load, and if the
count has moved since, the second load of the low word will differ. It needs
that a call is shorter than a period, so that the low word cannot come round. From it:
`ClockTypes`, `ClockExact` (a reading is the time at which the counter was loaded),
`ClockMonotone`, and `ClockIsAtomic`, the refinement of `CycleClock`. `ClockRetriesOnce` has
the hypothesis that a period is longer than 13 of the longest gaps between two steps: a
round that is repeated has met an overflow not long ago (`RetryInv`), and the repeated round
is over before the next one.

**AdKexProofs.** `IInv` says where each value came from: draws are used once and for one
purpose; a key or message in any buffer is the one the call with that draw made; a
damaged message differs from the message it was made from in the damaged part only. That a
draw determines its user is what makes the other properties follow: `ExchangeAgrees`,
`ExchangeDistinct`, `ExchangeRejects`, `ExchangeTypes`, for any peers, draws and
damage.

**BuildSyncProofs.** An existing file is current for the sources and the stamp, or shows
that it is not: a prerequisite is missing or newer, or the stamp names another
configuration (`Dated`). While make runs, what it remembers of a file agrees with the
tree, unless `platform-sync` has removed the file since; then everything that is left was
made by the run itself (`Removed`). With one slot nothing is looked at before
`platform-sync` is done. This holds for any targets, libraries, configurations, slots and
any number of runs, edits, failures and interrupts (`BuildInvariant`), and gives
`LinksNeverMix`, `StampTells`, `NoStaleImage`, `SerialMakeIsFresh` and `BuildTypes`.
That a run of make ends is proved in two halves: every step of make shrinks the measure
of what is left to do (`RunsEnd`, which needs that the targets are finite), and until the
run is over some step of make has its guard satisfied (`RunsGoOn`): of the targets not
settled one has all its prerequisites settled, since they are ordered, or a job is running.
`RunsGoOn` is about the guards written out, `StepOpen`; they agree with `ENABLED Make`, which the
run checks as `NeverStuck`, in every state of the run's instance.

**StackMeasureProofs.** Before a call the paint is whole but for what an interrupt
pushed (`PaintInv`); after it every byte that changed was changed by the call, an
interrupt or the heap (`MarkInv`); the canary is no longer than what main saw of the
room and its frame (`CanaryInv`); and it is at most an increment longer than the deepest call
so far, unless a round failed for another reason or that call already came within an
increment of the heap (`SearchInv`), since main enlarges it only after the call reached its
far end, or the far end lay in the heap. From it `StackReports`, `StackPaint`, `StackFailures` and
`StackTypes`, for any calls, frames, increments and growth. That the search ends is proved in
two halves: every step lowers what the limit can still move or, with that unchanged, the steps
left of the round (`SearchEnds`; heap growth counts twice, because a limit that falls below
the canary makes one more round), and until it is over a step has its guard satisfied
(`SearchGoesOn`), since the scan stops somewhere on every paint (`ScanStops`). The second
has the hypothesis `Fits`: the heap leaves its room to the deepest call.

**BenchmarkProofs.** The position of the loops says how many targets have ended, and main
counts their failures (`Position`, `Counted`); hence `ExitStatusTells`. After a flush, what
can be read was printed by the program flashed or by the one it replaced; had that one
stopped, the lines read followed by those still to be read are exactly what the new one
has printed, the reason it gave for failing and a `#` behind that included (`Flushed`). Only
`stack.c` sends `#` after a failure, and it fails right behind its header (`Failing`). So the
first `#` is the end of a whole execution, in which `parse_metrics` finds every value
(`ParseWhole`), or of a `stack.c` that gave up, in which it finds none: this is
`CapturesExact`. It holds for any implementations, targets, command lines and numbers of
measurements (`BenchmarkInvariant`), with `BenchmarkTypes`. `ScriptEnds`: every step, of the
script or of the board, lowers the targets and code sizes to come, then the stages of the
target, the lines not read, the lines not printed. That there is a step until the end needs
no theorem: the actions of each stage leave no case open.

**DkePolyProofs.** Under `SumsFit` (Largest + Layers Q and 2 K Q are below 2^15) bounds on
the coefficient and on those it meets, growing by less than Q per layer and 2 Q per product,
are an inductive invariant (`SumsInvariant`), so every store keeps its value:
`SumsKeepTheirBits`. Under `ConstantsRight` (QInv is the inverse of Q modulo 2^16, the Barrett
constant is accurate enough) each reduction is a congruence modulo Q, so the coefficient
stays the exact one: `ArithmeticIsExact`; and the Barrett result is centred, so one
conditional addition makes it standard: `SentIsCanonical`. `TwoSizesCovered` shows that the
parameters of DKE-128 and DKE-256 satisfy both hypotheses, with transforms that start from
unpacked coefficients up to 4095.

**DkeCpaProofs**, first part: `Reconcile`. The signal depends on the rest of k + coin alone, and what
reconciliation leaves is at most half a step and the coin (`ResponderRest`), from bounds
on the multiplications by the constants of `reduce.c` and `poly.c`. Twice a tolerable noise
added to that rest does not leave the centred range, so the parity stays and both get the same bit.
Each coefficient and coin has a twin, the coefficient moved by one and the other coin,
with the same sum and so the same signal, whose rest is one away: `Hiding`.
An invariant of the steps carries both to the program: `KeyBitsAgree`, `ReconcileTypes`.

Second part: `MatrixSampler`. For every set of sizes: `Types` and `Bounds`, by an invariant
(`Shapes`) in which matacc's polynomial always holds whole gatherings, so that another
fits as long as it is not full. `Looked` is the set of candidates an implementation ever
looks at: those of the groups that fit in its first buffer or in a refill. An
implementation stands at a place of the stream (`Here`) before which exactly as many of
these are accepted as it has taken (`Pinned`), because the bytes behind the lanes of a
group and behind the last group of a buffer are in no such group (`BehindLanes`,
`BehindGroups`): buffers do not overlap (`BuffersApart`). The rank of a candidate, the number
of accepted ones before it, grows by at most one from a byte to the next and determines an
accepted candidate, so that no induction over the stream is needed. Where blocks are
whole groups, both implementations look at every candidate (`WholeLooked`): `EachInOrder`.
Where they are not (DKE-512), m4 looks at what the reference looks at until the end of its
first refill, because the first buffers are equally long and a refill of m4 is no longer
than one of the reference (`ShortenedLooked`, `LayoutAssumption`). Both cases give `Agreement`,
which is `SameMatrix` without a further hypothesis. `SamplingEnds` has the measure of sampling:
the bytes before the first candidate accepted for certain and the coefficients missing, less
what the group begun will take away; a refill brings no byte back and holds a group.

**ZenPkeProofs.** A polynomial over {0,1} is the set of its exponents, a product counts
pairs of terms by the parity of their number. The laws of products modulo x^n + 1
(commutative, associative, distributive, and compatible with folding to a smaller degree)
are proved for every n by counting sets in two ways (`OddRows`); a least counterexample
stands for each induction. The operators of the model are then linked to sets (`Times2Is`,
`FoldIs`, `DivideIs`, ...). `Inverts` alone is not inductive: a level must know that the
quotient k it goes on with is the right one. The invariant `Doubling` says
1 + f finv = (x^level + 1) k modulo x^N4 + 1. The division at a level is exact, because what
it divides folds to 0, and the square of x^n + 1 is x^2n + 1 modulo 2, so one level gives the
next (`LevelDoubles`); that the code divides f and not f + 1 makes no difference, since the
division drops the remainder 1 (`LevelOne`). `Inversion` is `Inverts` for every candidate and
every N4 that is a power of two. For decryption, the parities of a are message times f but
for the set `Flipped`; when all errors are correctable, `Correction` is `Flipped` plus 1 if their
number is odd (`CorrectionIs`), because an even number of places less an odd number of errors
leaves an odd number of places without one, and each selects exponent 0. Multiplied by the
inverse, an even number of errors cancels: `EvenErrors`, whichever representatives `poly_intt`
left and whatever its wrapped sums added. An odd number leaves the inverse
itself, which is not 0: `OddErrors` says that the message is then wrong always, for every
key, message and blur, of which finding 3 is one case. `KeyGenEndsBy`: under the condition
of `KeyGenEnds` a step of key generation lowers the nonces and levels left to try, because the
nonce is one past the candidate tested and comes round to every value (`NearerByOne`). That
condition counts the terms of f with its signs, the code those of f folded modulo 2: folding
keeps the parity (`FoldParity`, from `SumParity` for sums and from counting in rows), so a nonce
is accepted exactly if it is suitable (`AcceptedIs`).
`ProductCentred` is about the integers decoding starts from. `poly_intt` leaves either of two
representatives of a coefficient; one Montgomery reduction multiplies their difference or sum
by MONT and divides by 2^16. The theorem says that the result is the product of x^(N/2) + 1,
the ciphertext and f modulo Q plus what wrapped sums added, whichever representatives were left,
and at most Q2 + `Edge` (384 + 4 for the constants of `ntt.h`): it is the representative nearest to
zero, whose parity decoding reads, unless it lies within `Edge` of the end of that range. Its
hypothesis `ReductionsRight` is what `ntt.h` says of its constants, and true of them: 769 times
-767 is 1 modulo 2^16, 171 is 2^16 modulo 769, and 384 is at most the 707 a coefficient reaches.
That the reduction's division is exact is `MontgomeryDivides`; that the quotient is right
modulo Q needs no primality of Q, only its inverse modulo 2^16 (`QuotientOfMultiple`).

Out of the prover's reach, and left to TLC: liveness (`ClockProceeds`, `KeyGenEnds`, the
`Ends` of three modules), `NeverStuck` in its form with `ENABLED` (the guards it stands for are
`RunsGoOn`), and induction over data. Of `KeyGenEnds` and the three `Ends` the part without
fairness is proved for every value of the constants: each step lowers a natural, or naturals
in a lexicographic order (`SearchEnds`, `ScriptEnds`, `SamplingEnds`, `KeyGenEndsBy`), so there are
finitely many.

## 6. Not modelled

* Most lines of the repository are libopencm3 and the CMSDK and CMSIS headers: tables of
  device registers, third-party and without behaviour. What can be modelled is the code
  of the schemes, the HALs and the scripts, a few thousand lines beside them.
* The structure of the transforms (which coefficients meet in which layer), Keccak, SM3,
  SHA-256, and their assembly: straight-line code over hundreds of words with fixed
  tables; there is no small instance and no control. `DkePoly` has the bounds and the
  reductions of the transforms.
* Packing, compression, binomial sampling: tables of bits.
* The KEM around `ZenPke` (its rejection by a mask), and ZEN's sampling: the former has the
  shape of `DkeKem`.
* The DRNG and `randombytes`: hash generators whose outputs differ because the hash does;
  `AdKex` takes them as a source of distinct draws.
* Failure of `malloc` in hashing, samplers and DRNG: `_sbrk` of both HALs never fails. The
  heap that meets the stack itself is where `StackMeasure` ends.
* Variables that the stamp does not name, and headers that objects do not depend on: what
  is missing is missing from a list, with no dynamics.
* Discovery of schemes, averages, layout of tables and logs: sequential scripts without
  state. Linker scripts: static layout.
* The multiplication inside matacc: only what it is given and when.

## 7. Plan

Done: `HalClock` with `CycleClock`, `AdKex` over `DkeKem`, `BuildSync`, `Benchmark`,
`StackMeasure`, `Reconcile`, `DkePoly`, `MatrixSampler` and `ZenPke`, with proofs for each.

Next, most important first:

1. `ZenKem`: decapsulation by mask over `ZenPke` and the values of `DkeKem`.
2. `Drng`: V, C and the reseed counter at a small width: an instantiation that failed is
   not used, the counter does not pass its bound unseen.
