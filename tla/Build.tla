------------------------------- MODULE Build --------------------------------
(***************************************************************************)
(* One run of "microfat pack" or "microfat pgo-pack" (cmd/microfat and     *)
(* internal/builder): the flags and the manifest are checked and the stub  *)
(* found, workers compile the variants concurrently and check what the     *)
(* compiler made, the staged files are checked again and handed to the     *)
(* packager, which snapshots them, checks the snapshots and their ABI, and *)
(* encodes and publishes.  Meanwhile the caller may cancel, and another    *)
(* process may write to the files the run reads.                           *)
(*                                                                         *)
(* A file's content is a record: elf names an ELF image, settings are its  *)
(* Go build settings and built the target it was really compiled for.      *)
(***************************************************************************)
EXTENDS AbiPolicy, Manifest, StubSource

CONSTANTS Scenes,    \* a tuple of sets of scenes
          Workers,   \* the processors, and at most this many compile
          HostOf(_), \* the host of that name
          Elf(_),    \* the ELF image of that name
          Declares(_) \* what it asks of the system: system, linkage, interpreter, libraries, versions

VARIABLES
    scene,      \* command line, manifest file, host, compiler, intruder and encoder hosts
    pc,         \* where the run is
    req,        \* what it was asked for, once accepted
    cancelled,  \* the caller's context
    stopped,    \* the context of the workers
    queue,      \* levels to compile
    worker,     \* each worker: where it is, and at which level
    firstErr,   \* the error recorded first
    files,      \* the files to package: content and identity
    compiled,   \* level -> identity of the file that was checked
    snaps,      \* path -> content of its snapshot
    accounts,   \* what inspecting each snapshot came to, lowest level first
    encoded,    \* level -> codec, encoder setting and concurrency
    output,     \* the published file
    tmp,        \* the build directory exists
    edits,      \* writes by another process so far
    err         \* what the command returns

vars == <<scene, pc, req, cancelled, stopped, queue, worker, firstErr, files, compiled, snaps, accounts, encoded,
          output, tmp, edits, err>>

NoRequest == <<>>
NoOutput == <<>>
Manifests == scene.o.manifest   \* the variants are compiled from a manifest

Init ==
    /\ \E i \in DOMAIN Scenes : scene \in Scenes[i]
    /\ pc = "start" /\ req = NoRequest /\ cancelled = FALSE /\ stopped = FALSE
    /\ queue = <<>> /\ worker = [w \in 1 .. Workers |-> [at |-> "done", level |-> "", why |-> ""]] /\ firstErr = ""
    /\ files = scene.files /\ compiled = <<>> /\ snaps = <<>> /\ accounts = <<>> /\ encoded = <<>>
    /\ output = NoOutput /\ tmp = FALSE /\ edits = 0 /\ err = ""

-----------------------------------------------------------------------------
(* Admission. *)

\* The checks of newPackCmd and newPgoPackCmd before either form.
FlagError(o) ==
    IF ~o.epoch THEN "epoch"
    ELSE IF o.emptyStub THEN "usage"
    ELSE IF o.format # 2 THEN "version"
    ELSE IF o.dict /\ o.profitable THEN "dictionary"
    ELSE "none"

StubOptions(o, m) ==
    [cliStub |-> o.stub, cliProfile |-> o.stubProfile, stub |-> m.stub, profile |-> m.profile[2], dir |-> m.dir]

Answer(e, r) == [err |-> e, req |-> r]

\* What follows a step that may have failed.
After(step, Continue(_)) == IF step.err # "none" THEN Answer(step.err, NoRequest) ELSE Continue(step)

\* BuildAndPack up to the build directory: the manifest is validated again, as a copy.
RequestPack(s, m) ==
    After(ResolveStub(HostOf(s.host), StubOptions(s.o, m), m.arch[2]), LAMBDA stub :
        Answer("none", [arch |-> m.arch[2], stub |-> stub.path, paths |-> [l \in Levels(m) |-> l], m |-> <<m>>,
                        options |-> AssembleCompression(m, s.o),
                        choices |-> AssembleVariantCompression(m, Overrides(s.o.overrides))]))

BuildAndPack(s, loaded) ==
    After(ValidateManifest(loaded), LAMBDA again :
        IF s.o.output = "" /\ again.m.output = "" THEN Answer("usage", NoRequest) ELSE RequestPack(s, again.m))

\* runManifestPack, and the same steps of newPgoPackCmd.
RunManifestPack(s) ==
    After(LoadManifest(s.file), LAMBDA file :
        IF ~ValidOverrides(file.m.arch[2], Levels(file.m), s.o.overrides) THEN Answer("override", NoRequest)
        ELSE BuildAndPack(s, file.m))

\* runDirectPack: the variants are files named on the command line.
RunDirectPack(s) ==
    LET v == s.o.variants
        arch == IF s.o.arch = NoWord THEN "amd64" ELSE CanonicalArch(s.o.arch[2])
        levels == {Normalize(v[i][1]) : i \in DOMAIN v}
        options == AssembleCompression(NoManifest, s.o)
        given == Overrides(s.o.overrides)
    IN  IF NormalizeTargetOS(s.o.os) # "linux" THEN Answer("os", NoRequest)
        ELSE IF arch \notin {"amd64", "arm64"} THEN Answer("arch", NoRequest)
        ELSE IF ~IsInjective([i \in DOMAIN v |-> v[i][1]]) THEN Answer("usage", NoRequest)
        ELSE IF ~ValidOverrides(arch, levels, s.o.overrides) THEN Answer("override", NoRequest)
        ELSE After(ResolveStub(HostOf(s.host), StubOptions(s.o, NoManifest), arch), LAMBDA stub :
             IF s.o.output = "" \/ v = <<>> THEN Answer("usage", NoRequest)
             ELSE IF \E l \in levels : Rank(arch, l) < 0 THEN Answer("level", NoRequest)
             ELSE IF Cardinality(levels) # Len(v) THEN Answer("duplicate", NoRequest)
             ELSE Answer("none", [arch |-> arch, stub |-> stub.path, m |-> <<>>, options |-> options,
                                  paths |-> [l \in levels |-> v[CHOOSE i \in DOMAIN v : Normalize(v[i][1]) = l][2]],
                                  choices |-> [l \in levels |-> IF l \in DOMAIN given THEN given[l] ELSE NoChoice]]))

\* "pgo-pack" is "pack" that must have a manifest.
Admit(s) ==
    IF FlagError(s.o) # "none" THEN Answer(FlagError(s.o), NoRequest)
    ELSE IF s.o.manifest THEN RunManifestPack(s)
    ELSE IF s.o.pgo THEN Answer("usage", NoRequest)
    ELSE RunDirectPack(s)

\* A return removes the build directory unless it is to be kept.
Return(e) == pc' = "done" /\ err' = e /\ tmp' = (tmp /\ scene.o.keep)

Proceed(a) ==
    /\ req' = a.req
    /\ IF a.err # "none" THEN Return(a.err)
       ELSE IF ~Manifests THEN pc' = "snapshot" /\ UNCHANGED <<err, tmp>>
       ELSE IF ~scene.outputDir THEN Return("io")
       ELSE pc' = "profiles" /\ tmp' = TRUE /\ UNCHANGED err

Start ==
    /\ pc = "start"
    /\ Proceed(Admit(scene))
    /\ UNCHANGED <<scene, cancelled, stopped, queue, worker, firstErr, files, compiled, snaps, accounts, encoded, output, edits>>

-----------------------------------------------------------------------------
(* Compilation. *)

Built == req.m[1]
Variant(level) == Built.variants[CHOOSE i \in DOMAIN Built.variants : Built.variants[i].level[2] = level]
PGO(level) == ResolveVariantPGO(Built, Variant(level), scene.disk)

\* The number of workers: as asked for, or one per processor, at most one per variant.
Concurrency ==
    LET asked == IF scene.o.concurrency > 0 THEN scene.o.concurrency ELSE Workers
    IN  Max({1, Min({asked, Len(Built.variants), Workers})})

\* resolveAllVariantPGOs, and the workers are started.
ResolveAllVariantPGOs ==
    /\ pc = "profiles"
    /\ IF \E l \in Levels(Built) : PGO(l) = <<"missing">>
       THEN Return("profile not found") /\ UNCHANGED <<queue, worker>>
       ELSE /\ pc' = "compile"
            /\ queue' = [i \in DOMAIN Built.variants |-> Built.variants[i].level[2]]
            /\ worker' = [w \in DOMAIN worker |->
                            [worker[w] EXCEPT !.at = IF w <= Concurrency THEN "idle" ELSE "done"]]
            /\ UNCHANGED <<err, tmp>>
    /\ UNCHANGED <<scene, req, cancelled, stopped, firstErr, files, compiled, snaps, accounts, encoded, output, edits>>

WorkerState == <<scene, pc, req, cancelled, snaps, accounts, encoded, output, tmp, edits, err>>

Halted == cancelled \/ stopped

\* Under the lock: only the first error counts.
Record(w, why) ==
    /\ firstErr' = IF firstErr # "" THEN firstErr ELSE IF cancelled THEN "cancelled" ELSE why
    /\ worker' = [worker EXCEPT ![w].at = "done"]

Take(w) ==
    /\ pc = "compile" /\ worker[w].at = "idle"
    /\ IF queue = <<>>
       THEN worker' = [worker EXCEPT ![w].at = "done"] /\ UNCHANGED <<queue, firstErr>>
       ELSE /\ queue' = Tail(queue)
            /\ IF Halted THEN Record(w, "stopped")
               ELSE worker' = [worker EXCEPT ![w] = [at |-> "building", level |-> Head(queue), why |-> ""]] /\ UNCHANGED firstErr
    /\ UNCHANGED <<stopped, files, compiled>> /\ UNCHANGED WorkerState

\* The compiler (external) builds for the environment it is given, unless the
\* scene has it fail or make something else.
GoBuild(level) ==
    LET env == BuildGoCommand(Built, Variant(level), PGO(level), scene.ambient, scene.disk).env
        tier == TierKey(req.arch)
        how == scene.compiler[level]
    IN  IF how.does = "other" THEN how.other
        ELSE [how.other EXCEPT !.built = env[tier],
                               !.settings = <<<<"GOOS", env["GOOS"]>>, <<"GOARCH", env["GOARCH"]>>, <<tier, env[tier]>>>>]

\* It is killed when the workers are stopped.
Compile(w) ==
    /\ worker[w].at = "building"
    /\ \/ /\ Halted \/ scene.compiler[worker[w].level].does = "fail"
          /\ worker' = [worker EXCEPT ![w].at = "failed", ![w].why = "compile"]
          /\ UNCHANGED files
       \/ /\ scene.compiler[worker[w].level].does # "fail"
          /\ worker' = [worker EXCEPT ![w].at = "built"]
          /\ files' = (worker[w].level :> [content |-> GoBuild(worker[w].level), id |-> 0]) @@ files
    /\ UNCHANGED <<stopped, queue, firstErr, compiled>> /\ UNCHANGED WorkerState

\* ValidateArtifactBuildInfo of the file; its identity is kept.
CheckArtifact(w) ==
    /\ worker[w].at = "built"
    /\ LET l == worker[w].level
       IN  IF l \in DOMAIN files /\ ValidateArtifactBuildInfo(files[l].content.settings, "linux", req.arch, l)
           THEN compiled' = (l :> files[l].id) @@ compiled /\ worker' = [worker EXCEPT ![w].at = "idle"]
           ELSE worker' = [worker EXCEPT ![w].at = "failed", ![w].why = "artifact"] /\ UNCHANGED compiled
    /\ UNCHANGED <<stopped, queue, firstErr, files>> /\ UNCHANGED WorkerState

Fail_CancelFirst(w) ==
    /\ worker[w].at = "failed"
    /\ IF ~stopped THEN stopped' = TRUE /\ UNCHANGED <<firstErr, worker>>
       ELSE Record(w, worker[w].why) /\ UNCHANGED stopped
    /\ UNCHANGED <<queue, files, compiled>> /\ UNCHANGED WorkerState

Fail(w) ==
    /\ worker[w].at = "failed"
    /\ Record(w, worker[w].why)
    /\ stopped' = (stopped \/ firstErr = "")
    /\ UNCHANGED <<queue, files, compiled>> /\ UNCHANGED WorkerState

\* compileVariantsConcurrently returns, and BuildAndPack looks at its context again.
Join ==
    /\ pc = "compile" /\ \A w \in DOMAIN worker : worker[w].at = "done"
    /\ IF firstErr # "" THEN Return(firstErr)
       ELSE IF cancelled THEN Return("cancelled")
       ELSE IF DOMAIN compiled # Levels(Built) THEN Return("incomplete")
       ELSE pc' = "verify" /\ UNCHANGED <<err, tmp>>
    /\ stopped' = TRUE
    /\ UNCHANGED <<scene, req, cancelled, queue, worker, firstErr, files, compiled, snaps, accounts, encoded, output, edits>>

VerifyStagedIdentities ==
    /\ pc = "verify"
    /\ IF \E l \in DOMAIN compiled : l \notin DOMAIN files \/ files[l].id # compiled[l] THEN Return("modified")
       ELSE IF cancelled THEN Return("cancelled")
       ELSE pc' = "snapshot" /\ UNCHANGED <<err, tmp>>
    /\ UNCHANGED <<scene, req, cancelled, stopped, queue, worker, firstErr, files, compiled, snaps, accounts, encoded, output, edits>>

-----------------------------------------------------------------------------
(* Packaging; the module Pack has the output file and the dictionary. *)

PackState == <<scene, req, cancelled, stopped, queue, worker, firstErr, files, compiled, edits>>

VariantValidator_None(level, content) == TRUE

\* Only a build supplies one.
VariantValidator(level, content) ==
    Manifests => ValidateArtifactBuildInfo(content.settings, "linux", req.arch, level)

\* snapshotInputs: the stub first, a path once, each snapshot checked, in any order.
Unsnapped == {l \in DOMAIN req.paths : req.paths[l] \notin DOMAIN snaps}

SnapshotStub ==
    /\ pc = "snapshot"
    /\ LET stub == HostOf(scene.host).stubs[req.stub]
       IN  IF scene.o.skip \/ ValidateELFBinary(Elf(stub), "linux", req.arch).err = "none"
           THEN pc' = "variants" /\ UNCHANGED <<err, tmp>>
           ELSE Return("stub")
    /\ UNCHANGED <<snaps, accounts, encoded, output>> /\ UNCHANGED PackState

Snapshot(l) ==
    /\ pc = "variants" /\ l \in Unsnapped
    /\ LET p == req.paths[l]
           c == files[p].content
           users == {k \in DOMAIN req.paths : req.paths[k] = p}
       IN  IF p \notin DOMAIN files THEN Return("missing") /\ UNCHANGED snaps
           ELSE IF ~scene.o.skip /\ ValidateELFBinary(Elf(c.elf), "linux", req.arch).err # "none"
                THEN Return("elf") /\ UNCHANGED snaps
           ELSE IF \E k \in users : ~VariantValidator(k, c) THEN Return("artifact") /\ UNCHANGED snaps
           ELSE snaps' = (p :> c) @@ snaps /\ UNCHANGED <<pc, err, tmp>>
    /\ UNCHANGED <<accounts, encoded, output>> /\ UNCHANGED PackState

\* sortVariantLevels.
SortedLevels == SetToSortSeq(DOMAIN req.paths, LAMBDA a, b : Rank(req.arch, a) < Rank(req.arch, b))

\* The snapshots are inspected in order, until one fails, on one shared account.
InspectAll(levels) ==
    FoldLeft(LAMBDA done, l :
               LET used == IF done = <<>> THEN 0 ELSE Last(done).shared
               IN  IF done # <<>> /\ Last(done).err # "none" THEN done
                   ELSE Append(done, InspectELFABI(Elf(snaps[req.paths[l]].elf), used)),
             <<>>, levels)

Reports(done, levels) == [i \in DOMAIN done |-> [level |-> levels[i]] @@ done[i].report]

\* validatePayloadABIs.
AcceptOutcome(e) == IF e # "none" THEN Return(e) ELSE pc' = "encode" /\ UNCHANGED <<err, tmp>>

CompareInspected(done) ==
    /\ accounts' = done
    /\ IF Last(done).err # "none" THEN Return(Last(done).err)
       ELSE AcceptOutcome(CompareVariantABIs(Reports(done, SortedLevels), scene.o.mixed).err)

ValidatePayloadABIs ==
    /\ pc = "variants" /\ Unsnapped = {}
    /\ IF scene.o.skip THEN AcceptOutcome("none") /\ UNCHANGED accounts ELSE CompareInspected(InspectAll(SortedLevels))
    /\ UNCHANGED <<snaps, encoded, output>> /\ UNCHANGED PackState

\* The next variant is encoded under the limits that hold now; those of the
\* cgroup are read once in a process.
EncodeVariant ==
    /\ pc = "encode" /\ \E l \in DOMAIN req.paths : l \notin DOMAIN encoded
    /\ LET l == SortedLevels[Cardinality(DOMAIN encoded) + 1]
           size == snaps[req.paths[l]].size
           c == ResolveVariantCompression(req.options, req.choices[l], size)
           setting == MapLevel(c.algo, c.level)
       IN  IF c.err # "none" THEN Return(c.err) /\ UNCHANGED encoded
           ELSE IF setting = "error" THEN Return("level not known") /\ UNCHANGED encoded
           ELSE /\ \E host \in scene.encoders :
                     LET res == ResolveCodecResources(host)
                         plan == CASE c.algo = "lz4"  -> [single |-> FALSE, concurrency |-> ComputeLZ4Concurrency(size, res)]
                                   [] c.algo = "zstd" -> ComputeZstdEncodePlan(size, setting, req.options.dict, res)
                                   [] OTHER           -> [single |-> TRUE, concurrency |-> 1]
                     IN  encoded' = (l :> [algo |-> c.algo, level |-> c.level, setting |-> setting, size |-> size,
                                           res |-> res, plan |-> plan]) @@ encoded
                /\ UNCHANGED <<pc, err, tmp>>
    /\ UNCHANGED <<snaps, accounts, output>> /\ UNCHANGED PackState

Publish ==
    /\ pc = "encode" /\ DOMAIN encoded = DOMAIN req.paths
    /\ output' = <<[l \in DOMAIN req.paths |-> snaps[req.paths[l]]]>>
    /\ IF scene.stdout THEN Return("none") ELSE Return("printing")
    /\ UNCHANGED <<snaps, accounts, encoded>> /\ UNCHANGED PackState

-----------------------------------------------------------------------------
(* The outside world. *)

Cancel ==
    /\ scene.cancels /\ ~cancelled /\ pc \in {"profiles", "compile", "verify"}
    /\ cancelled' = TRUE
    /\ UNCHANGED <<scene, pc, req, stopped, queue, worker, firstErr, files, compiled, snaps, accounts, encoded,
                   output, tmp, edits, err>>

\* Another process rewrites a file, which may look untouched, replaces or removes it.
Edit(p) ==
    /\ edits < scene.maxEdits /\ p \in DOMAIN files /\ pc \in {"compile", "verify", "snapshot", "variants"}
    /\ \/ \E c \in scene.intrusions, id \in {files[p].id, edits + 1} : files' = [files EXCEPT ![p] = [content |-> c, id |-> id]]
       \/ files' = Restrict(files, DOMAIN files \ {p})
    /\ edits' = edits + 1
    /\ UNCHANGED <<scene, pc, req, cancelled, stopped, queue, worker, firstErr, compiled, snaps, accounts, encoded,
                   output, tmp, err>>

Work(w) == Take(w) \/ Compile(w) \/ CheckArtifact(w) \/ Fail(w)

Main ==
    \/ Start \/ ResolveAllVariantPGOs \/ Join \/ VerifyStagedIdentities
    \/ SnapshotStub \/ ValidatePayloadABIs \/ EncodeVariant \/ Publish
    \/ \E l \in (IF req = NoRequest THEN {} ELSE DOMAIN req.paths) : Snapshot(l)

Next ==
    \/ Main
    \/ \E w \in DOMAIN worker : Work(w)
    \/ Cancel
    \/ \E p \in DOMAIN files : Edit(p)
    \/ pc = "done" /\ UNCHANGED vars

Spec == Init /\ [][Next]_vars

-----------------------------------------------------------------------------
(* Properties. *)

\* Looking into a file stays within the file and within every budget, and what
\* is charged for strings, on the file's account and on the one the variants
\* share, is what was looked at: a refund gives back what a scan did not use
\* (scanBoundedCString, refundStringScan and the accounts of abi.go).
InspectionIsAccounted ==
    \A i \in DOMAIN accounts :
        LET a == accounts[i]
        IN  /\ ~a.outside
            /\ a.scan = a.examined
            /\ a.shared = (IF i = 1 THEN 0 ELSE accounts[i - 1].shared) + a.meta
            /\ a.scan + a.str <= 2 * AbiLimits.strings /\ a.meta <= AbiLimits.meta /\ a.shared <= AbiLimits.shared
            /\ a.recs <= AbiLimits.records

\* Nothing is published that says it was built for another system, wherever in
\* the data its build information lies; and what is published without an
\* override runs on the same systems whichever variant is picked: no two
\* variants need different libraries, interpreters or versions, whichever of
\* them is compared first (checkGoBuildInfoSegmentReaderAt, validatePayloadABIs,
\* CompareVariantABIs and all the parsing below them).
AcceptedVariantsAgree ==
    output # NoOutput /\ ~scene.o.skip =>
        \A l, k \in DOMAIN output[1] :
            LET a == Declares(output[1][l].elf)
                b == Declares(output[1][k].elf)
            IN  /\ a.os = "linux"
                /\ ~scene.o.mixed =>
                      /\ a.libraries = b.libraries
                      /\ {a.linkage, b.linkage} # {"static", "dynamic"}
                      /\ a.linkage = "dynamic" /\ b.linkage = "dynamic" => a.interpreter = b.interpreter
                      /\ a.known /\ b.known => a.versions = b.versions

\* A build publishes every variant of its manifest, each compiled for the tier
\* it is published as, whatever the compiler did, the environment and the
\* manifest said and other processes wrote to the staged files meanwhile
\* (compileVariantsConcurrently, verifyStagedIdentities, VariantValidator).
PackagedMatchesManifest ==
    output # NoOutput /\ Manifests =>
        /\ DOMAIN output[1] = Levels(Built)
        /\ \A l \in Levels(Built) : MatchDeclaredTier(req.arch, output[1][l].built, l)

\* The error a build returns is its cause, not the echo of the cancellation
\* that the cause set off in the other workers: a cancellation is reported
\* only to a caller who cancelled, a compiler or artifact error only when a
\* compiler failed or something else than it was asked for was there.  An
\* error leaves nothing published, except when only printing failed, and no
\* build directory stays behind unasked.
ReportedErrorIsTheCause ==
    pc = "done" =>
        /\ err = "cancelled" => cancelled
        /\ err = "compile" => \E l \in Levels(Built) : scene.compiler[l].does = "fail"
        /\ err = "artifact" => edits > 0 \/ \E l \in Levels(Built) : scene.compiler[l].does = "other"
        /\ err = "modified" => edits > 0
        /\ err \notin {"stopped", "incomplete"}
        /\ (output # NoOutput) <=> (err \in {"none", "printing"})
        /\ tmp => scene.o.keep

\* The file this CLI was started from: its own image, or the one a launcher took it from.
Launched(h) == LET p == IF IsDispatchedTarget(h, h.exe) THEN h.env.original ELSE h.exe IN EvalSymlinks(h.disk, p)

\* A stub that was not named comes from where the CLI was installed.  A CLI of
\* a managed generation takes the stub of that same generation or none, as long
\* as it can tell its own path: where os.Executable fails, nothing is known of a
\* generation and PATH is searched (origin.go:74-77, stub.go:189-191).  A stub
\* is taken from beside the launched file only when that file holds the very
\* payload that runs, whatever the inherited environment claims; any other
\* stub is the first usable one of PATH (findSiblingStub, origin.go).
StubBelongsToInstallation ==
    req # NoRequest /\ scene.o.stub = NoPath /\ (Manifests => Built.stub = NoPath) =>
        LET h == HostOf(scene.host)
            from == Launched(h)
            beside == from # NoPath /\ Dir(req.stub) = Dir(from)
            native == ~h.procReadable \/ ~IsDispatchedTarget(h, h.exe)
        IN  /\ IsGenerationPath(from) /\ (native => h.exeKnown) => beside /\ ValidateDiscoveryGeneration(h.disk, from)
            /\ beside /\ IsDispatchedTarget(h, h.exe) =>
                   \/ \E v \in DOMAIN FileAt(h.disk, from).variants : FileAt(h.disk, from).variants[v] = h.self
                   \/ Dir(req.stub) \in ToSet(h.env.path)
            /\ ~beside => Dir(req.stub) \in ToSet(h.env.path) /\ IsAbs(req.stub)
            /\ InspectCandidateELF(h.disk, req.stub, req.arch)

FirstGiven(s, nothing) ==
    LET i == SelectInSeq(s, LAMBDA e : e # nothing) IN IF i = 0 THEN nothing ELSE s[i]

\* The codec, level and profile of a variant by the order in docs/cli-reference.md:433-458.
Contract(l) ==
    LET root == IF Manifests THEN Built.compression ELSE NoCompression
        own == IF Manifests THEN Variant(l).compression ELSE NoCompression
        named == SelectSeq(scene.o.overrides, LAMBDA r : r[1][2] = l)
        cli == IF named = <<>> THEN <<>> ELSE named[1][2]
        spec == FirstGiven(<<cli, own.codec, scene.o.codec, root.codec>>, <<>>)
        profile == FirstGiven(<<own.profile[2], scene.o.profile[2], root.profile[2], "balanced">>, "")
        level == FirstGiven(<<Inline(cli), own.level, IF cli = <<>> THEN Inline(own.codec) ELSE "",
                              scene.o.level, Inline(scene.o.codec), root.level, Inline(spec)>>, "")
        small == encoded[l].size < LatencyThreshold
        algo == IF spec # <<>> THEN spec[1]
                ELSE IF profile = "latency" THEN IF small THEN "none" ELSE "lz4" ELSE "zstd"
        omitted == [size |-> "best", balanced |-> "better", latency |-> ""]
    IN  [algo |-> algo, level |-> IF level = "" /\ algo = "zstd" THEN omitted[profile] ELSE level]

\* Each variant is encoded by the documented order of precedence over the
\* command line and the manifest, although it is applied in three places, one
\* scope after the other (assemblePackOptions, assembleVariantCompression,
\* resolveVariantCompression); and no scope turns both dictionary modes on.
CompressionFollowsPrecedence ==
    /\ \A l \in DOMAIN encoded : [algo |-> encoded[l].algo, level |-> encoded[l].level] = Contract(l)
    /\ req # NoRequest => ~(req.options.dict /\ req.options.profitable)

\* Whatever the limits are by the time a variant is encoded, the buffers its
\* encoder may hold (one per queued block, one draining, one pending) fit what
\* admission reserved; and when several workers share a capped process, they
\* fit in the cap together with the payload (computeLZ4Concurrency).
EncodersFit ==
    \A l \in DOMAIN encoded :
        LET e == encoded[l]
        IN  e.algo = "lz4" => EncoderFits(e.size, e.res, e.plan.concurrency)
=============================================================================
