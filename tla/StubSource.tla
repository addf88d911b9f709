----------------------------- MODULE StubSource -----------------------------
(***************************************************************************)
(* Where a build takes the launcher stub from (stub.go and origin.go of    *)
(* internal/builder, discovery.go of internal/install): an explicit path,  *)
(* the directory of the CLI that runs, or PATH.  The CLI may itself be a   *)
(* payload that a launcher started from memory or from its cache; then the *)
(* launcher's hints name the file it came from, and are checked.           *)
(*                                                                         *)
(* A path is the sequence of its components; "." starts a relative path.   *)
(* A disk maps paths to files and symbolic links to what they resolve to.  *)
(* A host is a disk, the image that runs, its environment and options.     *)
(***************************************************************************)
EXTENDS Integers, Sequences, FiniteSets, SequencesExt

CONSTANTS GenerationIds,  \* what idPattern matches
          HostArch        \* runtime.GOARCH

NoPath == <<>>
IsAbs(p) == p # NoPath /\ p[1] # "."
Clean(p) == ".." \notin ToSet(p)
Dir(p) == Front(p)
Base(p) == Last(p)

NoFile == [kind |-> "none", exec |-> FALSE, elf |-> FALSE, machine |-> "none", digest |-> "", arch |-> "", variants |-> <<>>]
FileAt(disk, p) == IF p \in DOMAIN disk.files THEN disk.files[p] ELSE NoFile

\* filepath.EvalSymlinks, NoPath for an error.
EvalSymlinks(disk, p) ==
    LET q == IF p \in DOMAIN disk.links THEN disk.links[p] ELSE p
    IN  IF FileAt(disk, q).kind = "none" THEN NoPath ELSE q

Regular(disk, p) == p # NoPath /\ FileAt(disk, p).kind = "file"

Found(path) == [err |-> "none", path |-> path]
Failed(err) == [err |-> err, path |-> NoPath]

-----------------------------------------------------------------------------
(* Managed installations. *)

Products == {"microfat", "microfat-stub", "microfat-stub-minimal"}

IsGenerationPath(p) == Len(p) >= 3 /\ p[Len(p) - 2] = "generations" /\ p[Len(p) - 1] \in GenerationIds

\* inspectDiscoveryGeneration: the store, its owner record, the record of the
\* generation and the digest of each product.
ValidateDiscoveryGeneration(disk, physical) ==
    LET dir == Dir(physical)
        path == Dir(Dir(dir))
        store == disk.stores[path]
        gen == store.generations[Base(dir)]
    IN  /\ path \in DOMAIN disk.stores
        /\ store.safe /\ store.owner.valid /\ store.owner.uid = store.uid /\ store.owner.store = path
        /\ ~IsPrefix(store.owner.bin, path) /\ ~IsPrefix(path, store.owner.bin)
        /\ Base(dir) \in DOMAIN store.generations /\ gen.valid /\ gen.id = Base(dir)
        /\ \A n \in Products : Regular(disk, Append(dir, n)) /\ FileAt(disk, Append(dir, n)).digest = gen.files[n]

Managed(disk, original, physical) ==
    \/ IsGenerationPath(original) \/ IsGenerationPath(physical)
    \/ FileAt(disk, Append(Dir(physical), "generation.json")).kind # "none"

\* ValidateDiscovery: a launch from a managed installation names a physical generation.
ValidateDiscovery(disk, original, physical) ==
    Managed(disk, original, physical) =>
        /\ original = physical /\ IsAbs(physical) /\ Clean(physical)
        /\ IsGenerationPath(physical) /\ Base(physical) = "microfat"
        /\ ValidateDiscoveryGeneration(disk, physical)

-----------------------------------------------------------------------------
(* The directory of the CLI that runs. *)

\* "/memfd:name (deleted)".
IsMemfdTarget(target) == Len(target) = 3 /\ target[1] = "memfd:" /\ target[2] # "" /\ target[3] = "(deleted)"

CandidateCacheRoots(env) ==
    {r \in {env.cacheDir} : r # NoPath}
        \cup {d \in {IF env.xdg # NoPath THEN Append(env.xdg, "microfat") ELSE env.home \o <<".cache", "microfat">>} :
                env.xdg # NoPath \/ env.home # NoPath}
        \cup {<<"tmp", ".microfat-uid">>}

EvalAncestorSymlinks(disk, p) ==
    IF EvalSymlinks(disk, p) # NoPath THEN EvalSymlinks(disk, p)
    ELSE IF Len(p) > 1 /\ EvalSymlinks(disk, Dir(p)) # NoPath THEN Append(EvalSymlinks(disk, Dir(p)), Base(p))
    ELSE p

IsInsideCache(h, target) ==
    \E r \in CandidateCacheRoots(h.env) :
        IsStrictPrefix(EvalAncestorSymlinks(h.disk, r), EvalAncestorSymlinks(h.disk, target))

IsDispatchedTarget(h, target) == IsMemfdTarget(target) \/ IsInsideCache(h, target)

\* os.Executable may not know the path: then nothing is known of a generation either.
ResolveNativeInstallationDirectory(h) ==
    LET real == IF EvalSymlinks(h.disk, h.exe) # NoPath THEN EvalSymlinks(h.disk, h.exe) ELSE h.exe
    IN  IF ~h.exeKnown THEN Failed("other")
        ELSE IF ValidateDiscovery(h.disk, h.exe, real) THEN Found(Dir(real)) ELSE Failed("discovery")

\* The launcher's hints agree with the image that runs.
ValidateDispatchedPayloadEnvironment(h) ==
    LET mode == IF h.env.execMode # "" THEN h.env.execMode ELSE h.env.dispatchMode
    IN  /\ mode \in {"memfd", "cache"}
        /\ h.env.variant # ""
        /\ h.env.size > 0 /\ h.env.size = h.self.size
        /\ h.env.digest # "" /\ h.env.digest = h.self.digest

\* ... and so does the index of the file they name.
VerifyIndex(h, file) ==
    /\ file.arch = HostArch
    /\ h.env.variant \in DOMAIN file.variants
    /\ file.variants[h.env.variant] = h.self

VerifyOriginalExecutable(h) ==
    LET orig == h.env.original
        physical == EvalSymlinks(h.disk, orig)
    IN  IF ~IsAbs(orig) THEN Failed("other")
        ELSE IF physical = NoPath THEN Failed(IF IsGenerationPath(orig) THEN "discovery" ELSE "other")
        ELSE IF ~ValidateDiscovery(h.disk, orig, physical) THEN Failed("discovery")
        ELSE IF ~Regular(h.disk, physical) \/ ~VerifyIndex(h, FileAt(h.disk, physical))
             THEN Failed(IF Managed(h.disk, orig, physical) THEN "discovery" ELSE "other")
        ELSE Found(Dir(physical))

ResolveInstallationDirectory(h) ==
    IF ~h.procReadable \/ ~IsDispatchedTarget(h, h.exe) THEN ResolveNativeInstallationDirectory(h)
    ELSE IF ValidateDispatchedPayloadEnvironment(h) THEN VerifyOriginalExecutable(h)
    ELSE Failed(IF IsGenerationPath(h.env.original) THEN "discovery" ELSE "other")

-----------------------------------------------------------------------------
(* The stub. *)

StubCompanionName(profile) == IF profile = "minimal" THEN "microfat-stub-minimal" ELSE "microfat-stub"

StubMachine == [amd64 |-> "x86_64", arm64 |-> "aarch64"]

\* inspectCandidateELF, of the file a candidate resolves to.
InspectCandidateELF(disk, p, arch) ==
    LET f == FileAt(disk, EvalSymlinks(disk, p))
    IN  Regular(disk, EvalSymlinks(disk, p)) /\ f.elf /\ f.machine = StubMachine[arch]

ResolveExplicitStub(h, stub, base) ==
    LET p == IF IsAbs(stub) THEN stub ELSE base \o Tail(stub)
    IN  IF Regular(h.disk, EvalSymlinks(h.disk, p)) THEN Found(p) ELSE Failed("notfound")

FindSiblingStub_NoWrap(h, name, arch) ==
    LET dir == ResolveInstallationDirectory(h)
        candidate == Append(dir.path, name)
    IN  IF dir.err # "none" THEN Failed(IF dir.err = "discovery" THEN "discovery" ELSE "notfound")
        ELSE IF InspectCandidateELF(h.disk, candidate, arch) THEN Found(candidate)
        ELSE Failed("notfound")

\* A managed installation that lacks a usable stub is an error of its own.
FindSiblingStub(h, name, arch) ==
    LET dir == ResolveInstallationDirectory(h)
        candidate == Append(dir.path, name)
    IN  IF dir.err # "none" THEN Failed(IF dir.err = "discovery" THEN "discovery" ELSE "notfound")
        ELSE IF InspectCandidateELF(h.disk, candidate, arch) THEN Found(candidate)
        ELSE Failed(IF IsGenerationPath(Append(dir.path, "microfat")) THEN "discovery" ELSE "notfound")

\* findStubInPATH: the first absolute entry with a usable executable.
FindStubInPATH(h, name, arch) ==
    LET usable(dir) ==
            /\ IsAbs(dir) /\ InspectCandidateELF(h.disk, Append(dir, name), arch)
            /\ FileAt(h.disk, EvalSymlinks(h.disk, Append(dir, name))).exec
        i == SelectInSeq(h.env.path, usable)
    IN  IF i = 0 THEN Failed("notfound") ELSE Found(Append(h.env.path[i], name))

OrElse(found, other) == IF found.err = "notfound" THEN other ELSE found

DiscoverCompanionStub(h, name, arch) == OrElse(FindSiblingStub(h, name, arch), FindStubInPATH(h, name, arch))

\* ResolveStubWithOptions; the profiles are canonical when they are not empty.
ResolveStub(h, o, arch) ==
    LET profile == IF o.cliProfile # "" THEN o.cliProfile ELSE IF o.profile # "" THEN o.profile ELSE "full"
    IN  IF ~{o.cliProfile, o.profile} \subseteq {"", "full", "minimal"} THEN Failed("profile")
        ELSE IF o.cliStub # NoPath THEN ResolveExplicitStub(h, o.cliStub, h.cwd)
        ELSE IF o.stub # NoPath THEN ResolveExplicitStub(h, o.stub, o.dir)
        ELSE DiscoverCompanionStub(h, StubCompanionName(profile), arch)
=============================================================================
