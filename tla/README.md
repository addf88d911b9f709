# Verification of microfat

microfat packs several builds of one Go program, one per microarchitecture level, behind a small
launcher stub into one executable. At start the stub selects a build and runs it from a sealed memfd
or from a verified cache entry. Around that core the repository holds the packer, the in-place
transformations of deployed executables, an installer and updater, and much benchmark and release
tooling.

This directory holds TLA+ modules for the parts where order, failure or arithmetic is hard to test,
the TLC configurations that check them on small instances, and proofs that TLAPS checks. All paths
below are relative to the repository root. `PROJECT.json` lists, for each definition, the source lines
it models.

    tlc -config CacheDispatchFaults.cfg MCCacheDispatch     # one run
    tlapm CacheDispatchProofs.tla                           # one proof module

## 1. Inventory

### Parts that hold state and are modelled

| Part | State | Operations | What makes it hard |
|---|---|---|---|
| Launcher dispatch, cache materialization (`cmd/microfat-stub`, `internal/cache`, `internal/memfd`) | the digest's entry in the cache directory, staging files, a memfd and descriptors per process | look up, verify, execute, create/fill/seal a memfd, materialize by temp file, fsync and rename, repair of corrupt entries, fallback | processes share the directory without a lock; each system call may fail; a process may die anywhere; some failures permit a fallback and others do not |
| Lifecycle transaction (`internal/lifecycle`) | source and destination paths, inodes with content, mtime and attributes, a staged file, a flock per inode | snapshot, lock, stage, transform, apply and read back metadata, recheck, rename or create-only publication, directory sync | the lock is on an inode that a rename replaces; deployers take no lock; power loss before the directory sync |
| Installation store (`internal/install`, `internal/update`, `cmd/microfat-install`) | owner record, generations, `current` link, public links, staging names, the lock | inspect, choose a version, validate under the lock, claim, stage, publish, activate, publish links, uninstall, clean up | what was observed without the lock is used under it; interruptions at each step must be recoverable |
| Pack (`internal/pack`) | private input copies, dictionary, job queue, goroutines, staging files, spool counter, temporary output | snapshot and validate inputs, train, plan, admit workers, compress, choose a candidate, append, index, sync, rename | goroutines finish in any order, one failing cancels the rest; memory and spool limits; inputs edited meanwhile |
| Image format and trim (`internal/format`, `TrimBinary`) | an image: trailer, index, dictionary, variants | read and bounds-check, trim, read again | int64 sums of values taken from a file |
| Start of a payload (`internal/microarch`, `internal/cgroup`, `cmd/microfat-stub`, `runtimeinit`, `runtimeinfo`, the runtime part of `microfat doctor`) | the environment, the container's limits, the Go runtime's settings | detect and select, build the environment of a path, inspect, start, tune again and again | limits change between reads; several sources of each setting; small-integer arithmetic; reports about what has not happened yet |
| Build (`internal/builder`, ABI inspection of `internal/pack`, `internal/codec`, `microfat pack` and `pgo-pack`) | manifest, compiler environment, worker goroutines, staged files, accounts of the inspection, the request to the packager | validate, find the stub, compile concurrently, check twice, inspect ELF files under budgets, choose codecs, publish | first error cancels the others; files rewritten under it; offsets taken from a file; settings from five places |
| Prewarm (`microfat prewarm`, `--microfat:prewarm`, `internal/pack/prewarm_plan.go`, cache directory selection of `internal/format` and `internal/cache`) | cache directories and their entries, selections, byte caps, plans | choose a directory, observe, plan, publish, verify | a plan is made from an observation that may be stale; the directory is chosen again by every command |

### How they interact

Build checks and assembles a request and hands it to Pack, which writes an image in the format that
FatImage reads. A launcher reads that image, selects a variant and builds its environment (Startup), and
runs the payload through CacheDispatch; Prewarm publishes the same cache entries ahead of it. `trim` and
`optimize` run a transformation of an image inside a Lifecycle transaction. Install places released
products in a store, which StubSource reads when a build looks for its launcher stub. Lifecycle and
Install make the same promise about histories and power loss, stated once in `DurableHistory`.

The parts that are not modelled are in section 7.

## 2. Modules

| Module | Models | Theorems |
|---|---|---|
| `LaunchContract` | abstract: what a launcher promises | |
| `CacheDispatch` | launchers and prewarmers over one cache entry | `CacheDispatchInvariant`, `CacheDispatchRoutes`, `CacheDispatchProofs` |
| `DurableHistory` | abstract: a history of updates, some durable, some reported | `DurableHistoryProofs` |
| `Lifecycle` | transactions on one deployed executable | |
| `Install` | operations on one installation store | |
| `Pack` | one call of `Pack` with its goroutines | |
| `FatImage` | reading, bounds checking and trimming an image | `FatImageProofs` |
| `Microarch` | levels, their requirements, detection and selection (operators) | |
| `Cgroup` | discovery of container limits and the budgets derived from them (operators) | |
| `RuntimeTuning` | the launcher's environment, `AutoTune`, and what reports on them (operators) | |
| `Startup` | one start, from the launcher's first check to repeated tuning | |
| `ElfAbi` | inspection of one ELF file under budgets (operators) | |
| `AbiPolicy` | comparison of the variants' ABI reports (operators) | |
| `Codec` | codec, level, concurrency and memory of an encoder (operators) | `CodecProofs` |
| `Manifest` | validation, compiler environment, build settings, packer options (operators) | |
| `StubSource` | discovery of the launcher stub (operators) | |
| `Build` | one run of `microfat pack` or `pgo-pack` with its workers | |
| `Prewarm` | commands that plan, prewarm and verify the cache | |

Each `MCx` module extends `x` with the sets a configuration needs. An operator whose name ends in
`_Something` next to an operation is a faulty variant of it; no specification uses it. It is there to
show that a property notices that fault when the operation is replaced by it.

`Lifecycle`, `Install`, `Startup`, `Build` and `Prewarm` take `Scenes`, and `Pack` a set `Requests`: a behaviour starts by choosing
one, which fixes who takes part, what is asked of them, what may fail and how often others interfere.
One run thus covers several circumstances, each small enough to be explored completely. Processes
outside the chosen scene are `absent`. Where `Scenes` is a tuple of sets, the sets are only a way to keep
their members comparable for TLC.

### CacheDispatch

One step is one system call that others can see, or one local stage. `pc[p]` names the stage;
`entry` is the inode the digest names and `file[i]` what an inode holds: `good` (complete, synced and
verified), `written` (complete and not yet synced), `partial`, `corrupt`, `noexec` (without the
owner-execute bit, which the code checks before the content and repairs like a corrupt entry) or `unsafe` (symlink, special file, foreign owner, unsafe mode). `Lookup*` is
`executeExistingCache`, `Memfd*` is `executeViaMemfd`, `ResolveCacheDir` to `CacheExec` are
`executeViaCache` with `OpenAndValidateAtFDWithOpener` and `materializeAndOpenVariantAtFD`.
`MemfdFailed` is the fallback decision of `executeVariant`. A process materializes at most once, so its
staging inode is named by the process. Removing a staging file, and removing a published name that does
not validate, may fail without notice (`tmp[p] = "stuck"`).

`LaunchContract` says that each process starts at most one verified image, on a path its mode permits,
and that what has ended stays ended. `CacheDispatch` maps onto it by reading `pc` and the last attempt.

### Lifecycle

`Execute` step by step. `link` is the directory, `disk` what of it survives a power loss, `data[i]` the
transformations in an inode's content, `attrs[i]` its mode bits and extended attributes, by kind.
Deployers overwrite, replace, unlink or hard-link the file at any moment, up to `scene.outside` times.
`raced` is a history variable: it records that someone moved between the last check and the rename,
a window the code cannot close. The staged file of a transaction that fails may stay when its removal
fails too.

### Install

An operation observes the store (`Observe` to `InspectCurrent`), chooses a version (`Choose`), waits for
the lock, validates that the store is what it observed (`Validate`) and then applies or uninstalls.
`scratch` holds temporary names left behind, `disk` what survives a power loss, `lineage` is a history
variable with the activations a generation was built on. `Inspect` reads the owner record and then the
rest of the store in two steps, and an uninstaller compares a public link and removes it in two steps, so
others can come in between; removals of temporary names may fail. The download is one step without effect on
the store. Ancestor directory checks and root identities are left out.

### Pack

The calling goroutine moves `pc` from `snapshot` to `rename`; goroutine `w` of the pool moves `wpc[w]`.
A frame is a variant, the content it was made from, whether a dictionary was used, and a size in blocks
that the request fixes. Options are those `validateOptions` accepts; it rejects the others before
anything is changed. `Return` stands for the deferred removals of every way out; each of them is best
effort in the code, so with the fault `remove` any of the files may stay. The memory estimates use the constants of `parallel.go` and `admission.go` in MiB.

### FatImage

One step checks the trailer and header fields, the dictionary, or one variant (one pass of the loop of
`validateVariantBounds`). `Plus` and `Minus` wrap as int64 does, at a width given by `MaxInt`. `Trim(k)`
writes the image that keeps variant `k` and hands it to a reader again. The byte encoding is abstracted
to the fields and their sizes, and an entry has the constant size `EntrySize`. In the code an entry's
size depends on its strings: `TrimBinary` may write the codec name into an entry that left it empty,
which makes that entry four bytes longer. No check depends on an entry's exact size other than the
limit on the index.

### Startup, with Microarch, Cgroup and RuntimeTuning

One step is one stage of a start, or one reading of the container: the launcher's checks and selection
(`Start`), the attempts of each execution path with the environment built for it (`TryCache`, `TryMemfd`,
`MaterializeCache`), `Execve` with what the Go runtime makes of its three variables, and each call of
`runtimeinit` (`CallAutoTune`). `ChangeLimits` moves the container's limits between any two of them.
`InspectImage` and `RunDoctor` predict the start before it happens. A level is a pair of its spelling and
what normalization leaves of it; a decimal byte size is its digits and its unit, and `ParseByteSize` is
modelled digit by digit because rounding is what `ByteSizeIsExact` is about. A container is the sequence
of its directories up to the mount, with files that hold a number, `max`, nothing or junk.

### Build, with ElfAbi, AbiPolicy, Codec, Manifest and StubSource

`Main` is the goroutine of the command, `Work(w)` one worker of `compileVariantsConcurrently`, `Cancel` the
caller, `Edit` another process writing to a file that the run reads. A file's content is an ELF image, its
Go build settings, and a history field with the target it was really compiled for. An ELF image is a
record with its size, header fields, program headers and what lies at the offsets they lead to, so every
bounds check of `abi.go` has something to refuse; the account of an inspection records what it charged,
what it examined and whether it read outside of the file. The comparison of reports charges each sentence
to the report budget. The packager's own goroutines are those of `Pack` and are one step per variant here.

### Prewarm

One step looks at, or publishes, one entry; the steps inside a publication are those of CacheDispatch.
Every command chooses its directory again (`ResolveCacheDir`: explicit directory, environment, XDG, home,
temporary directory, each with its creation, ownership and mode checks). `Disturb` is another process that
removes, damages or replaces an entry. `Reopen` removes an entry that does not validate, or fails to. `span` and `epoch` are history variables: they say which changes
of the disk fall between the first step of one command and the last of another, and whose they were.

## 3. Runs

States are distinct states. With two workers a run takes between a second and about two minutes.

| Run | Configuration | States | Question |
|---|---|---|---|
| `cache_faults` | `CacheDispatchFaults` | 358,763 | two processes, all modes, all initial entries, all failures and kills: is only a verified image started, is nothing half-written published, is each path tried once, is nothing left behind, does each launch follow the contract? |
| `cache_storm` | `CacheDispatchStorm` | 138,882 | three fault-free processes on an entry that is missing, good or not executable: do all succeed, does a good entry stay? |
| `cache_repair_race` | `CacheDispatchRepair` | violated | two launchers repair one corrupt entry: do both succeed? No, see section 6 |
| `lifecycle` | `Lifecycle` | 595,396 | two transactions with each call failing, kills and power loss; three in-place transactions without faults; one transaction over all attribute combinations and both policies; two transactions and two moves of deployers; two create-only transactions, one move and power loss: is what is published whole and with the right attributes, is only the content that was transformed replaced, do reported successes survive, does one of several contenders succeed, does each call return? |
| `install_faults` | `InstallFaults` | 325,176 | two operations with failures, cancellation, timeouts, kills and power loss: is the selection always complete, each interruption recoverable, each outcome what it says? |
| `install_race` | `InstallRace` | 1,355,068 | three operations that select a release; two operations while others change entries or damage the selected generation: is a stale observation ever acted on, or something touched that is not owned? |
| `install_resume` | `InstallResume` | violated | an installation killed and run again: do durable links lead to products? No, see section 6 |
| `pack` | `Pack` | 225,060 | three variants on one to three goroutines with failures and kills; removals that fail; inputs edited twice, and power loss; dictionary gains below, at and above its cost, with the spool limit reached; estimates around each memory threshold: one determined artifact of what was validated, limits kept, a clean return? |
| `fat_image` | `FatImage` | 497,865 | boundary values in each field of an image, read, trimmed and read again |
| `startup` | `Startup` | 387,196 | processors with all but one or two features, policies, containers of both versions, users' settings, repeated tuning while limits change: does the best runnable variant run, do tuned limits fit every declared ceiling, do the user's settings win, do inspection and payload report what happened, are byte sizes exact? |
| `build` | `Build` | 241,181 | builds of one to three variants on two workers with failing and deviating compilers, cancellation and edits; ELF images with each defect and each pair of declarations; hosts with an ordinary, managed, dispatched or shadowed CLI; compression settings from five places; encoders around each memory threshold: is what is published what manifest, ABI policy and documented precedence say, and does the error name its cause? |
| `prewarm` | `Prewarm` | 866,264 | plan, prewarm and verify one after the other and at once, by command line and launcher, over every state of directories and entries, with one interference, also between a plan and the prewarming: do plans come true, is what was prepared found, is nothing written that was not admitted? |

The properties of each run and their wording are in the modules, each under a comment that names the
code it is about.

Deadlock is checked except in the CacheDispatch, FatImage and Startup runs, where the system simply stops
when all processes have ended, the reader has decided or the payload makes no further call. The other modules have a stuttering disjunct for
that case, so a deadlock there is a real one.

### Bounds and why they are enough

- *Processes.* Races in this code involve an actor, one that disturbs it, and at most one more that
  profits from the disturbance; the shared state is one entry, one file or one store. Two processes are
  used with all faults, three without. The theorems on CacheDispatch hold for any number.
- *Symmetry.* `install_race` and `cache_repair_race` identify states that differ by a permutation of the
  operations or launchers: the actions and the properties of these runs quantify over them and compare them
  only for equality, and no liveness is checked there. No other run uses symmetry.
- *Environment.* `scene.outside = 2` and `req.edits = 2` allow a change and its reversal, the pattern that
  defeats comparisons.
- *Releases and products.* Two versions give older, equal and newer; two products give a state in which
  one link is published and the other not. The three-operation scene of `install_race` and
  `install_resume` use one product. The three-operation scene has the kinds install, update and update-to,
  the scene with interference all kinds but update-to; uninstalling is explored with two operations.
- *Variants.* Three variants behind three goroutines give all completion orders; two suffice where the
  question is about inputs or sizes.
- *Integers.* `FatImage` uses five-bit integers, so that sums wrap within the boundary values; its
  theorems hold for every width. In `Pack`, `MaxInt` is 4000 MiB, so that a 2000 MiB payload saturates
  the estimate. `Startup` uses 12-bit integers, pages of 16 bytes and containers of 40 to 3000 bytes, so that
  reserves, rounding and saturation all occur; `Build` bounds offsets by `MaxWord`, which takes the place of
  2^64, and lowers the inspection budgets until each can be exceeded by a small file: a file with ordinary
  build information stays below the limits on strings, records and the shared budget, and one more string or
  record exceeds each of them in turn.
- *Commands.* Three prewarm commands are the plan, the prewarming and the verification that a claim
  relates. One interference may fall anywhere around them; where it makes a plan stale, prewarming has to
  find out by itself.

### Fairness

`cache_storm`, `lifecycle` and the Install runs assume weak fairness of each process's own
steps: each is a sequential program whose system calls return, run by a scheduler that
does not starve it. Nothing is assumed of kills, power loss, edits, deployers, cancellation and lock timeouts: they may or may not
happen. An installer that waits for the lock ends because the holder releases it, not because of its
timeout. The other CacheDispatch runs, Pack, FatImage, Startup, Build and Prewarm check safety only and assume no
fairness. That every call of Pack and every command of Build and Prewarm ends rests on two facts instead: there is no deadlock
before the end, which TLC checks, and each step of a goroutine or command consumes a job, an entry or a
stage, so that there are finitely many.

### Modelling assumptions

- A power loss keeps what was synced. In Lifecycle an entry of a directory may be written back at any
  earlier moment; in Install, entries made in the store directory reach the disk in the order they were
  made, and the bin directory's entries in any order.
- A write in place changes the modification time: two writes within one clock tick of the filesystem
  are not modelled.
- The caller of a transaction holds the source open, so its inode number is not reused.
- A verification of content (SHA-256) has no false positives.

## 4. Proofs

### CacheDispatchInvariant, CacheDispatchRoutes, CacheDispatchProofs

The first two modules define the inductive invariant and show that it holds, the third derives the
properties. It proves, for any number of processes, any modes, any initial entry and any set of faults:

| Theorem | Establishes |
|---|---|
| `OnlyVerifiedImagesRun` | `RunsVerifiedImage` |
| `PublicationIsComplete` | `PublishedIsComplete` |
| `UnsafeEntriesAreKept` | `UnsafeEntryIsKept` |
| `EndedLaunchesAreClean` | `NothingLeftBehind` |
| `PathsAreTriedOnce` | `EachPathTriedOnce` |
| `CacheIsAFallback` | `CacheTouchedOnlyOnFallback`, an action property |
| `LaunchesFollowTheContract` | `CacheDispatch` implements `LaunchContract` |

They rest on `InodeAssumption` (staging inodes, the old inode and "no file" differ) and
`ChoiceAssumption` (constants are chosen from the named sets). None of the properties is inductive:
that a published file is complete depends on nobody else reaching it before the rename, and that an
executed descriptor is good depends on when it was checked. The inductive invariant `IInv` adds
- `StagingIsPrivate`: before its rename nobody else names or opens a process's staging file;
- `NamedIsComplete`: staging files that are named or open are good;
- `Holds`: which descriptor, memfd and staging name a process holds at each stage;
- `Route`: which attempts and errors lead to each stage;
- `RunningImage`: what a running process executed;
- `UnsafeStops`: which stages cannot be reached while the entry is unsafe.

`StepFrame` and `StepMoves` describe once what any operation does to the other processes and to the
store; most parts of the invariant then follow from them, instead of from every operation again.
`RoutePreserved` and `UnsafeStopsPreserved` go through the operations themselves.

### FatImageProofs

For every integer width, number of variants and set of images:

| Theorem | Establishes |
|---|---|
| `TypesHold` | `TypeOK`: the positions the reader keeps and all fields of a trimmed image are int64 values |
| `BoundsAreSound` | `AcceptedIsSound`: ranges of an accepted index lie before the index and apart from each other, as integers |
| `TrimIsReadable` | `TrimmedIsReadable`: an image written by `TrimBinary` is not rejected |

They rest on `FatImageConstants` (sizes are natural numbers, trailer and header are not empty). Because
the loop over variants is a sequence of steps, its loop invariant is the inductive invariant `Inv`: what
each stage has established, that all variants before `next` are sound, and that `lastEnd` is where the
last of them ends. The subtractions in the bounds checks are shown not to wrap first; the sums are then
sums of integers.

### CodecProofs

`LZ4EncoderFits`: for every payload size, number of processors and memory cap, the buffers an LZ4 encoder
may hold fit what `lz4EncoderWorkspace` reserved at admission, and when `computeLZ4Concurrency` allows
several workers in a capped process, their buffers and the payload fit under the cap. The run `build`
checks the same operator, `EncoderFits`, on every variant it encodes, where the limits may have changed
since admission (`EncodersFit`). `Min` is a choice from a set, so lemmas about the least of two, three and
four numbers come first; `ConcurrencyBounds` then bounds the workers by the cap, and the rest is linear
arithmetic. The only assumptions are the types of the arguments.

### DurableHistoryProofs

`ReportsSurvive`: in every system that follows a durable history, `ReportedSurvive` holds: a success that
was reported is in effect now and after any power loss. The inductive invariant adds that what is
durable is part of the history. The runs `lifecycle` and `install_faults` check that Lifecycle and
Install follow a durable history (`IsDurableHistory`), so on those instances no reported update is lost;
that they follow it for all instances is not proved.

### Only model-checked

Liveness under fairness (`EntrySettles`, `Termination`), which is out of the
prover's reach; `SoundLaunchSucceeds`; everything about Lifecycle, Install and Pack, including that
Lifecycle and Install implement `DurableHistory`; and everything about Startup, Build and Prewarm but the
theorem above. `ElfAbi` follows chains of records with recursive operators, which excludes it, `AbiPolicy`
and `Build` from the prover (it keeps offsets and sizes of the records, more than the properties on variants
need, because the accounting of an inspection is charged by them); what `Microarch`, `Cgroup` and `RuntimeTuning` compute is checked against
reference definitions over the scenes of `MCStartup`.

## 5. Hazards

`PROJECT.json` lists the forty places where this code could most likely go wrong in ways a unit test
hardly reaches, each with the properties that would notice. Five more that no property covers:

- a change of mode or attributes of a source during a transformation, which `publishTransaction` does not
  promise to notice (`internal/lifecycle/transaction.go:312`);
- the limit of 1024 entries in a store, which repeated interruptions could fill
  (`internal/install/transaction.go:381`);
- PIDs recycled while a benchmark's cgroup is drained, and a cgroup repopulated after it was found empty
  (`internal/benchmarkcleanup/tree_linux.go:199`, `drain.go:47`);
- a child's end and the notice of its last line, selected in either order
  (`benchmarks/process/process.go:142`);
- assets of a draft release changed between the last comparison and the publication
  (`internal/releaseworkflow/finalize.go:189`).

## 6. Disagreements between code and documentation

- **Concurrent repair of a corrupt entry** (`cache_repair_race`). A launcher that found the entry
  corrupt removes it by name (`internal/cache/cache_unix.go:128`). If another launcher has renamed its
  repaired file into place since, that file is removed, and the other launcher's reopen fails: an
  explicit cache-mode launch of a sound payload fails. `docs/troubleshooting.md:117` says the mode
  "Creates missing cache and repairs corrupt safe regular entries". No unverified image is started. The
  `cache_storm` run leaves the corrupt entry out for this reason, and for no other.
- **Resumed first installation** (`install_resume`). An installation killed between the rename to
  `current` and the sync of the store leaves a selection that is not durable. The next run finds it
  healthy, does not sync the store (`internal/install/transaction.go:293`), and publishes and syncs the
  public links; a power loss can then keep the links and lose the selection. `docs/installation.md:144`
  says "A first-install interruption may leave fewer public links, all pointing to complete products;
  rerun the installer to complete them."
  This needs a kill in a window of one call, followed by a power loss before the store is written back.

Four more disagreements are narrow, and are exceptions in the statement of a property rather than runs of
their own:

- **Uninstalling** (`NothingUnasked`). `docs/installation.md:157` says "Uninstall removes only matching owned
  entrypoint links". The link is compared and then removed by name (`internal/install/uninstall.go:33`), so
  what somebody puts in its place in between is removed.
- **Links that outlive their claim** (`InterruptionsAreRecoverable`). After the power loss of `install_resume`
  the links can also outlive the owner record; an installation then takes them for somebody else's and returns
  `ErrConflict`, and running it again does not help. That needs more operations in a row than the runs have,
  so the exception is not reached within their bounds.
- **Empty settings** (`UserSettingsWin`). `docs/troubleshooting.md:54` says "An explicit Go environment
  variable wins even when its value is empty". The launcher and the doctor do that, but `AutoTune` in the
  payload takes an empty value for unset and applies its own (`runtimeinit/runtimeinit.go:290`, `:299`, `:309`).
- **Unknown executable** (`StubBelongsToInstallation`). When `os.Executable` fails, the native lookup ends
  with an ordinary error and the stub may be taken from `PATH`, also for a managed installation.
  `docs/design/installation-discovery-contract.md:103` says that managed discovery fails "instead of falling
  through to G2 or an unrelated PATH stub", and does not mention this case.

## 7. Not modelled

The `components` list of `PROJECT.json` names each part with its reason. What is left is the tooling around
the product:

- **One process, one pass over data, nothing shared.** Benchmark statistics, reports and comparisons, host
  detection, SBOM documents, release archives and contracts, runtime qualification, development gates. A
  module would restate their checks one by one; there is no order of steps to get wrong.
- **State kept by a remote service.** The release workflow, the download client and the Homebrew tooling see
  only requests and answers of a service. What that service does between two requests would be invented.
- **Concurrent, and without a module so far.** Benchmark process supervision (`benchmarks/process`) and the
  cleanup of benchmark cgroups (`internal/benchmarkcleanup`) do race with the processes they supervise. They
  serve the project's own CI hosts and no product calls them, so the shipped parts came first. A module for
  the two together is the natural next step.
- **Drivers.** Command-line parsing, printing, the commands `info`, `verify` and `extract`, which only call
  what is modelled, examples, test programs and test support.

Within the modelled parts: the byte encoding of the index (fields and sizes are kept), compression itself
(library code), the parsing of YAML, JSON and `/proc` text (a file parses or does not), the non-Linux
variants of platform files, ancestor directory checks of the installer, `ResolveInstallationExecutable` and
`DetectStubProfile` of the stub discovery, and the metrics of the Go runtime.

Proofs that would add most next: Lifecycle's `PublishedIsSound` and its implementation of `DurableHistory`,
Install's `SelectedIsComplete`, Pack's `BudgetsHold` and `ReturnsClean` for any number of goroutines, and
lemmas about the budgets of `Cgroup`.
