---------------------------- MODULE CacheDispatch ----------------------------
(***************************************************************************)
(* Launchers and prewarmers of one payload digest over one shared cache    *)
(* directory.  A launcher (cmd/microfat-stub) runs the selected variant    *)
(* from a verified cache entry or from a sealed memfd; it and the          *)
(* prewarmer publish the entry through internal/cache.  One step is one    *)
(* system call that another process can see, or one local stage of the     *)
(* launch.  A process materializes at most once, so its temporary file's   *)
(* inode is named by the process itself; Old is the inode found at start.  *)
(***************************************************************************)
EXTENDS Naturals, Sequences

CONSTANTS Procs,            \* launchers and prewarmers
          Old,              \* the inode the entry names initially
          NoFile,           \* no inode
          Modes,            \* the modes the processes may be started in
          InitialEntries,   \* the states the entry may be found in
          Payloads,         \* the states of the payload in a process's image
          Faults            \* the operations the environment may fail

ExecModes == {"auto", "cache", "memfd", "prewarm"}
EntryStates == {"missing", "good", "corrupt", "noexec", "unsafe"}
FaultKinds == {"budget", "memfd_create", "memfd_write", "memfd_seal", "memfd_exec",
               "dir", "open", "inspect", "read", "unlink", "io", "cache_exec", "crash"}

ASSUME InodeAssumption == Old \notin Procs /\ NoFile \notin Procs \cup {Old}
ASSUME ChoiceAssumption ==
    /\ Modes \subseteq ExecModes
    /\ InitialEntries \subseteq EntryStates
    /\ Payloads \subseteq {"sound", "damaged"}
    /\ Faults \subseteq FaultKinds

Inodes == Procs \cup {Old}

VARIABLES mode,     \* mode[p]: MICROFAT_EXEC_MODE, or "prewarm"
          payload,  \* payload[p]: "sound" or "damaged" bytes in p's image
          file,     \* file[i]: what inode i holds
          entry,    \* the inode named by the digest in the cache directory
          tmp,      \* tmp[p]: p's .exec-*.tmp file
          pc,       \* pc[p]: the next stage of p
          fd,       \* fd[p]: the inode p holds an open cache descriptor of
          mem,      \* mem[p]: p's memfd
          tried,    \* tried[p]: the execve calls made, in order
          errs,     \* errs[p]: the failures p reports, in order
          touched   \* touched[p]: p entered a stage that may write the cache

vars == <<mode, payload, file, entry, tmp, pc, fd, mem, tried, errs, touched>>
inputs == <<mode, payload>>
store == <<file, entry, tmp>>

FileStates == {"none", "partial", "written", "good", "corrupt", "noexec", "unsafe"}
Sentinels == {"ErrMemoryBudget", "ErrMemfdCreate", "ErrMemfdExtract", "ErrMemfdSealingFailed",
              "ErrExecve", "ErrCacheInit", "ErrCacheWrite", "ErrCacheExtract"}
\* A staging file is absent, in use (or abandoned by a killed process), or stuck:
\* the deferred removal was made and failed.
StagingStates == {"none", "staged", "stuck"}
Routes == Seq({"cache", "memfd"})     \* execve calls, by path
Reports == Seq(Sentinels)
Stages == {"start", "lookup", "lookup_verify", "lookup_exec",
           "mem_budget", "mem_create", "mem_extract", "mem_seal", "mem_exec",
           "dir", "open", "verify", "unlink", "budget", "replace", "temp", "write",
           "sync", "rename", "reopen", "reverify", "drop", "exec"}
Terminal == {"running", "failed", "done", "crashed"}

-----------------------------------------------------------------------------
(* Shared helpers. *)

Goto(p, l) == pc' = [pc EXCEPT ![p] = l]

CanFail(f) == f \in Faults

\* The process reports the error and exits; deferred closes and the deferred
\* removal of the temporary file happen on the way out.
Fail(p, report) ==
    /\ Goto(p, "failed")
    /\ errs' = [errs EXCEPT ![p] = report]
    /\ fd' = [fd EXCEPT ![p] = NoFile]
    /\ mem' = [mem EXCEPT ![p] = "none"]

FailWith(p, e) == Fail(p, Append(errs[p], e))

\* Seeded bug: the digest of a cached file is not compared.
Verdict_SkipsDigest(i) ==
    CASE file[i] = "unsafe" -> "unsafe"
      [] file[i] = "noexec" -> "noexec"
      [] OTHER              -> "ok"

\* validateOpenedDescriptor on the open inode i: metadata, owner-execute bit,
\* then size and digest.
Verdict(i) ==
    CASE file[i] = "unsafe" -> "unsafe"
      [] file[i] = "noexec" -> "noexec"
      [] file[i] = "good"   -> "ok"
      [] OTHER              -> "corrupt"

\* A failing pread makes verifyCachedFD report a mismatch.
Verdicts(i) ==
    {Verdict(i)} \cup (IF CanFail("read") /\ Verdict(i) = "ok" THEN {"corrupt"} ELSE {})

\* validateCacheMetadata on the inode the name refers to.
EntryIsUnsafe == entry # NoFile /\ file[entry] = "unsafe"

\* classifyFailedCacheOpen: an open that fails on a present entry is a plain
\* error, or a refusal when the metadata is unsafe or cannot be inspected.
OpenOutcomes ==
    IF entry = NoFile THEN {"absent"}
    ELSE {"opened"}
         \cup (IF CanFail("open") /\ ~EntryIsUnsafe THEN {"error"} ELSE {})
         \cup (IF CanFail("inspect") \/ (CanFail("open") /\ EntryIsUnsafe)
               THEN {"refused"} ELSE {})

\* Seeded bug: a denied warm-cache execve is not remembered.
Hit_Forgotten(p) == FALSE

\* A launcher that already failed to execute a warm cache entry.
Hit(p) == tried[p] # <<>> /\ tried[p][1] = "cache"

\* Memfd failures after which a cold auto launch may not fall back to the cache.
TerminalMemfdErrors == {"ErrMemoryBudget", "ErrMemfdExtract"}

-----------------------------------------------------------------------------
(* executeVariant and executeExistingCache. *)

Init ==
    /\ mode \in [Procs -> Modes]
    /\ payload \in [Procs -> Payloads]
    /\ \E s \in InitialEntries :
          /\ entry = IF s = "missing" THEN NoFile ELSE Old
          /\ file = [i \in Inodes |-> IF i = Old /\ s # "missing" THEN s ELSE "none"]
    /\ tmp = [p \in Procs |-> "none"]
    /\ pc = [p \in Procs |-> "start"]
    /\ fd = [p \in Procs |-> NoFile]
    /\ mem = [p \in Procs |-> "none"]
    /\ tried = [p \in Procs |-> <<>>]
    /\ errs = [p \in Procs |-> <<>>]
    /\ touched = [p \in Procs |-> FALSE]

FirstStage(m) ==
    CASE m = "auto"  -> "lookup"
      [] m = "memfd" -> "mem_budget"
      [] OTHER       -> "dir"

ExecuteVariant(p) ==
    /\ pc[p] = "start"
    /\ Goto(p, FirstStage(mode[p]))
    /\ UNCHANGED <<inputs, store, fd, mem, tried, errs, touched>>

\* Read-only discovery; an unresolvable directory is a miss.
LookupOpen(p) ==
    /\ pc[p] = "lookup"
    /\ \E o \in OpenOutcomes \cup (IF CanFail("dir") THEN {"absent"} ELSE {}) :
          \/ /\ o \in {"absent", "error"}
             /\ Goto(p, "mem_budget")
             /\ UNCHANGED <<fd, mem, errs>>
          \/ o = "refused" /\ FailWith(p, "ErrCacheWrite")
          \/ /\ o = "opened"
             /\ fd' = [fd EXCEPT ![p] = entry]
             /\ Goto(p, "lookup_verify")
             /\ UNCHANGED <<mem, errs>>
    /\ UNCHANGED <<inputs, store, tried, touched>>

\* removeOnCorrupt is false here: a corrupt entry is a miss and stays.
LookupVerify(p) ==
    /\ pc[p] = "lookup_verify"
    /\ \E v \in Verdicts(fd[p]) :
          \/ v = "unsafe" /\ FailWith(p, "ErrCacheWrite")
          \/ /\ v = "ok"
             /\ Goto(p, "lookup_exec")
             /\ UNCHANGED <<fd, mem, errs>>
          \/ /\ v \in {"corrupt", "noexec"}
             /\ fd' = [fd EXCEPT ![p] = NoFile]
             /\ Goto(p, "mem_budget")
             /\ UNCHANGED <<mem, errs>>
    /\ UNCHANGED <<inputs, store, tried, touched>>

LookupExec(p) ==
    /\ pc[p] = "lookup_exec"
    /\ tried' = [tried EXCEPT ![p] = Append(@, "cache")]
    /\ \/ Goto(p, "running") /\ UNCHANGED <<fd, errs>>
       \/ /\ CanFail("cache_exec")
          /\ errs' = [errs EXCEPT ![p] = Append(@, "ErrExecve")]
          /\ fd' = [fd EXCEPT ![p] = NoFile]
          /\ Goto(p, "mem_budget")
    /\ UNCHANGED <<inputs, store, mem, touched>>

-----------------------------------------------------------------------------
(* executeViaMemfd. *)

\* What executeVariant does with an error of executeViaMemfd.
MemfdFailed(p, e) ==
    \/ /\ mode[p] = "memfd" \/ Hit(p) \/ e \in TerminalMemfdErrors
       /\ FailWith(p, e)
    \/ /\ mode[p] = "auto" /\ ~Hit(p) /\ e \notin TerminalMemfdErrors
       /\ errs' = [errs EXCEPT ![p] = Append(@, e)]
       /\ mem' = [mem EXCEPT ![p] = "none"]
       /\ Goto(p, "dir")
       /\ UNCHANGED fd

\* One stage of executeViaMemfd that has no effect outside the process.
MemfdStage(p, here, next, memfd, ok, e, fault) ==
    /\ pc[p] = here
    /\ \/ /\ ok
          /\ mem' = [mem EXCEPT ![p] = memfd]
          /\ Goto(p, next)
          /\ UNCHANGED <<fd, errs>>
       \/ (~ok \/ CanFail(fault)) /\ MemfdFailed(p, e)
    /\ UNCHANGED <<inputs, store, tried, touched>>

MemfdBudget(p) ==
    MemfdStage(p, "mem_budget", "mem_create", "none", TRUE, "ErrMemoryBudget", "budget")

MemfdCreate(p) ==
    MemfdStage(p, "mem_create", "mem_extract", "empty", TRUE, "ErrMemfdCreate", "memfd_create")

\* extractVariantToWriter compares size and digest before it reports success.
MemfdExtract(p) ==
    MemfdStage(p, "mem_extract", "mem_seal", "verified", payload[p] = "sound",
               "ErrMemfdExtract", "memfd_write")

\* Seeded bug: a failed seal is ignored and the memfd is executed unsealed.
MemfdSeal_Ignored(p) ==
    /\ pc[p] = "mem_seal"
    /\ mem' \in {[mem EXCEPT ![p] = "sealed"], mem}
    /\ Goto(p, "mem_exec")
    /\ UNCHANGED <<inputs, store, fd, tried, errs, touched>>

MemfdSeal(p) ==
    MemfdStage(p, "mem_seal", "mem_exec", "sealed", TRUE, "ErrMemfdSealingFailed", "memfd_seal")

MemfdExec(p) ==
    /\ pc[p] = "mem_exec"
    /\ tried' = [tried EXCEPT ![p] = Append(@, "memfd")]
    /\ \/ Goto(p, "running") /\ UNCHANGED <<fd, mem, errs>>
       \/ CanFail("memfd_exec") /\ MemfdFailed(p, "ErrExecve")
    /\ UNCHANGED <<inputs, store, touched>>

-----------------------------------------------------------------------------
(* executeViaCache, PrewarmVariantWithDict, and the materialization they    *)
(* share.                                                                   *)

\* Where a verified descriptor goes: the launcher executes it, the prewarmer
\* closes it and reports the entry.
Deliver(p) ==
    \/ /\ mode[p] # "prewarm"
       /\ Goto(p, "exec")
       /\ UNCHANGED <<fd, mem, errs>>
    \/ /\ mode[p] = "prewarm"
       /\ Goto(p, "done")
       /\ fd' = [fd EXCEPT ![p] = NoFile]
       /\ UNCHANGED <<mem, errs>>

\* No usable entry: only the launcher checks its extraction budget again.
AfterMiss(p) == IF mode[p] = "prewarm" THEN "replace" ELSE "budget"

\* The mutating resolution creates or tightens the cache directory.
ResolveCacheDir(p) ==
    /\ pc[p] = "dir"
    /\ touched' = [touched EXCEPT ![p] = TRUE]
    /\ \/ Goto(p, "open") /\ UNCHANGED <<fd, mem, errs>>
       \/ CanFail("dir") /\ FailWith(p, "ErrCacheInit")
    /\ UNCHANGED <<inputs, store, tried>>

OpenEntry(p) ==
    /\ pc[p] = "open"
    /\ \E o \in OpenOutcomes :
          \/ /\ o \in {"absent", "error"}
             /\ Goto(p, AfterMiss(p))
             /\ UNCHANGED <<fd, mem, errs>>
          \/ o = "refused" /\ FailWith(p, "ErrCacheWrite")
          \/ /\ o = "opened"
             /\ fd' = [fd EXCEPT ![p] = entry]
             /\ Goto(p, "verify")
             /\ UNCHANGED <<mem, errs>>
    /\ UNCHANGED <<inputs, store, tried, touched>>

\* Seeded bug: an entry without the owner-execute bit is unlinked as well.
VerifyEntry_RemovesNoexec(p) ==
    /\ pc[p] = "verify"
    /\ \E v \in Verdicts(fd[p]) :
          \/ v = "unsafe" /\ FailWith(p, "ErrCacheWrite")
          \/ v = "ok" /\ Deliver(p)
          \/ /\ v \in {"corrupt", "noexec"}
             /\ fd' = [fd EXCEPT ![p] = NoFile]
             /\ Goto(p, IF mode[p] # "prewarm" THEN "unlink" ELSE AfterMiss(p))
             /\ UNCHANGED <<mem, errs>>
    /\ UNCHANGED <<inputs, store, tried, touched>>

\* The launcher passes removeOnCorrupt, the prewarmer does not.
VerifyEntry(p) ==
    /\ pc[p] = "verify"
    /\ \E v \in Verdicts(fd[p]) :
          \/ v = "unsafe" /\ FailWith(p, "ErrCacheWrite")
          \/ v = "ok" /\ Deliver(p)
          \/ /\ v \in {"corrupt", "noexec"}
             /\ fd' = [fd EXCEPT ![p] = NoFile]
             /\ Goto(p, IF v = "corrupt" /\ mode[p] # "prewarm" THEN "unlink" ELSE AfterMiss(p))
             /\ UNCHANGED <<mem, errs>>
    /\ UNCHANGED <<inputs, store, tried, touched>>

\* onCorrupt: unlinkat by name, after the descriptor is closed; its error is
\* ignored.
RemoveCorrupt(p) ==
    /\ pc[p] = "unlink"
    /\ entry' \in {NoFile} \cup (IF CanFail("unlink") THEN {entry} ELSE {})
    /\ Goto(p, AfterMiss(p))
    /\ UNCHANGED <<inputs, file, tmp, fd, mem, tried, errs, touched>>

\* A budget failure here is returned without the memfd failure before it.
CacheBudget(p) ==
    /\ pc[p] = "budget"
    /\ \/ Goto(p, "replace") /\ UNCHANGED <<fd, mem, errs>>
       \/ CanFail("budget") /\ Fail(p, <<"ErrCacheExtract">>)
    /\ UNCHANGED <<inputs, store, tried, touched>>

ValidateReplacement(p) ==
    /\ pc[p] = "replace"
    /\ \/ /\ ~EntryIsUnsafe
          /\ Goto(p, "temp")
          /\ UNCHANGED <<fd, mem, errs>>
       \/ /\ CanFail("inspect") \/ EntryIsUnsafe
          /\ FailWith(p, "ErrCacheWrite")
    /\ UNCHANGED <<inputs, store, tried, touched>>

\* Seeded bug: the staging file survives a failed materialization.
DropTemp_LeavesFile(p, e) == FailWith(p, e) /\ UNCHANGED <<tmp, file>>

\* A failed stage of materialization removes the temporary file; the error of
\* that deferred unlinkat is ignored, and the file then stays.
DropTemp(p, e) ==
    /\ FailWith(p, e)
    /\ \/ /\ tmp' = [tmp EXCEPT ![p] = "none"]
          /\ file' = [file EXCEPT ![p] = "none"]
       \/ /\ CanFail("unlink")
          /\ tmp' = [tmp EXCEPT ![p] = "stuck"]
          /\ UNCHANGED file

CreateTemp(p) ==
    /\ pc[p] = "temp"
    /\ \/ /\ tmp' = [tmp EXCEPT ![p] = "staged"]
          /\ file' = [file EXCEPT ![p] = "partial"]
          /\ Goto(p, "write")
          /\ UNCHANGED <<fd, mem, errs>>
       \/ CanFail("io") /\ FailWith(p, "ErrCacheWrite") /\ UNCHANGED <<file, tmp>>
    /\ UNCHANGED <<inputs, entry, tried, touched>>

\* Seeded bug: the file is published without being synchronized.
WritePayload_SkipsSync(p) ==
    /\ pc[p] = "write"
    /\ \/ /\ payload[p] = "sound"
          /\ file' = [file EXCEPT ![p] = "written"]
          /\ Goto(p, "rename")
          /\ UNCHANGED <<tmp, fd, mem, errs>>
       \/ (payload[p] = "damaged" \/ CanFail("io")) /\ DropTemp(p, "ErrCacheExtract")
    /\ UNCHANGED <<inputs, entry, tried, touched>>

\* The payload is hashed while it is written and compared before publication.
WritePayload(p) ==
    /\ pc[p] = "write"
    /\ \/ /\ payload[p] = "sound"
          /\ file' = [file EXCEPT ![p] = "written"]
          /\ Goto(p, "sync")
          /\ UNCHANGED <<tmp, fd, mem, errs>>
       \/ (payload[p] = "damaged" \/ CanFail("io")) /\ DropTemp(p, "ErrCacheExtract")
    /\ UNCHANGED <<inputs, entry, tried, touched>>

\* chmod, fsync and close.
SyncTemp(p) ==
    /\ pc[p] = "sync"
    /\ \/ /\ file' = [file EXCEPT ![p] = "good"]
          /\ Goto(p, "rename")
          /\ UNCHANGED <<tmp, fd, mem, errs>>
       \/ CanFail("io") /\ DropTemp(p, "ErrCacheWrite")
    /\ UNCHANGED <<inputs, entry, tried, touched>>

Rename(p) ==
    /\ pc[p] = "rename"
    /\ \/ /\ entry' = p
          /\ tmp' = [tmp EXCEPT ![p] = "none"]
          /\ Goto(p, "reopen")
          /\ UNCHANGED <<file, fd, mem, errs>>
       \/ CanFail("io") /\ DropTemp(p, "ErrCacheWrite") /\ UNCHANGED entry
    /\ UNCHANGED <<inputs, tried, touched>>

\* The published name is opened again and fully validated; any failure goes on
\* to remove the name.
Reopen(p) ==
    /\ pc[p] = "reopen"
    /\ \E o \in OpenOutcomes :
          \/ /\ o # "opened"
             /\ Goto(p, "drop")
             /\ UNCHANGED fd
          \/ /\ o = "opened"
             /\ fd' = [fd EXCEPT ![p] = entry]
             /\ Goto(p, "reverify")
    /\ UNCHANGED <<inputs, store, mem, tried, errs, touched>>

Reverify(p) ==
    /\ pc[p] = "reverify"
    /\ \E v \in Verdicts(fd[p]) :
          \/ v = "ok" /\ Deliver(p)
          \/ /\ v # "ok"
             /\ fd' = [fd EXCEPT ![p] = NoFile]
             /\ Goto(p, "drop")
             /\ UNCHANGED <<mem, errs>>
    /\ UNCHANGED <<inputs, store, tried, touched>>

DropEntry(p) ==
    /\ pc[p] = "drop"
    /\ entry' \in {NoFile} \cup (IF CanFail("unlink") THEN {entry} ELSE {})
    /\ FailWith(p, "ErrCacheWrite")
    /\ UNCHANGED <<inputs, file, tmp, tried, touched>>

CacheExec(p) ==
    /\ pc[p] = "exec"
    /\ tried' = [tried EXCEPT ![p] = Append(@, "cache")]
    /\ \/ Goto(p, "running") /\ UNCHANGED <<fd, mem, errs>>
       \/ CanFail("cache_exec") /\ FailWith(p, "ErrExecve")
    /\ UNCHANGED <<inputs, store, touched>>

\* A killed process leaves its temporary file behind.
Crash(p) ==
    /\ CanFail("crash")
    /\ pc[p] \notin Terminal
    /\ Goto(p, "crashed")
    /\ fd' = [fd EXCEPT ![p] = NoFile]
    /\ mem' = [mem EXCEPT ![p] = "none"]
    /\ UNCHANGED <<inputs, store, tried, errs, touched>>

Step(p) ==
    \/ ExecuteVariant(p) \/ LookupOpen(p) \/ LookupVerify(p) \/ LookupExec(p)
    \/ MemfdBudget(p) \/ MemfdCreate(p) \/ MemfdExtract(p) \/ MemfdSeal(p) \/ MemfdExec(p)
    \/ ResolveCacheDir(p) \/ OpenEntry(p) \/ VerifyEntry(p) \/ RemoveCorrupt(p)
    \/ CacheBudget(p) \/ ValidateReplacement(p) \/ CreateTemp(p) \/ WritePayload(p)
    \/ SyncTemp(p) \/ Rename(p) \/ Reopen(p) \/ Reverify(p) \/ DropEntry(p) \/ CacheExec(p)

Next == \E p \in Procs : Step(p) \/ Crash(p)

Spec == Init /\ [][Next]_vars

\* A launcher is one sequential program, so a process that can run its next
\* stage eventually does.
FairSpec == Spec /\ \A p \in Procs : WF_vars(Step(p))

-----------------------------------------------------------------------------
(* Properties. *)

TypeOK ==
    /\ mode \in [Procs -> Modes]
    /\ payload \in [Procs -> Payloads]
    /\ file \in [Inodes -> FileStates]
    /\ entry \in Inodes \cup {NoFile}
    /\ tmp \in [Procs -> StagingStates]
    /\ pc \in [Procs -> Stages \cup Terminal]
    /\ fd \in [Procs -> Inodes \cup {NoFile}]
    /\ mem \in [Procs -> {"none", "empty", "verified", "sealed"}]
    /\ tried \in [Procs -> Routes]
    /\ errs \in [Procs -> Reports]
    /\ touched \in [Procs -> BOOLEAN]

\* Every image a launcher starts is the selected payload: the cache descriptor
\* it executes names a fully verified inode, and a memfd is sealed before the
\* execve (executeExistingCache, executeViaCache, executeViaMemfd).
RunsVerifiedImage ==
    \A p \in Procs : pc[p] = "running" =>
        LET path == tried[p][Len(tried[p])] IN
        \/ path = "cache" /\ fd[p] \in Inodes /\ file[fd[p]] = "good"
        \/ path = "memfd" /\ mem[p] = "sealed"

\* The digest names no half-written or unsynced file: what a process publishes
\* was complete, verified and fsynced before the rename, whichever processes
\* crash or fail around it (materializeAndOpenVariantAtFD).
PublishedIsComplete == entry \in Procs => file[entry] = "good"

\* An unsafe entry (symlink, special file, foreign owner, unsafe mode) is never
\* executed, replaced or removed by any mode.
UnsafeEntryIsKept ==
    file[Old] = "unsafe" => entry = Old /\ \A p \in Procs : pc[p] = "running" => fd[p] # Old

\* A launch tries each path at most once: a warm entry that cannot execute is
\* followed by one memfd attempt and no second cache attempt, and a forced mode
\* never takes the other path (executeVariant).
EachPathTriedOnce ==
    \A p \in Procs :
        /\ \A i, j \in DOMAIN tried[p] : i # j => tried[p][i] # tried[p][j]
        /\ mode[p] = "cache" => \A i \in DOMAIN tried[p] : tried[p][i] = "cache"
        /\ mode[p] = "memfd" => \A i \in DOMAIN tried[p] : tried[p][i] = "memfd"
        /\ mode[p] = "prewarm" => tried[p] = <<>>

\* A process that ended without being killed closed its cache descriptor and
\* memfd and removed its staging file, whichever stage failed; a staging file
\* stays only where the removal itself failed, and then no process has it under
\* the digest name or open (the deferred cleanup of
\* materializeAndOpenVariantAtFD).
NothingLeftBehind ==
    \A p \in Procs :
        /\ pc[p] \in {"failed", "done"} =>
              tmp[p] # "staged" /\ fd[p] = NoFile /\ mem[p] = "none"
        /\ tmp[p] = "stuck" =>
              CanFail("unlink") /\ entry # p /\ \A q \in Procs : fd[q] # p

\* The cache is written on behalf of an automatic launch only after memfd
\* creation, sealing or execution failed on a cache miss; budget and extraction
\* failures are terminal, and a forced memfd launch never touches the cache.
CacheTouchedOnlyOnFallback ==
    [][\A p \in Procs : ~touched[p] /\ touched'[p] =>
          \/ mode[p] \in {"cache", "prewarm"}
          \/ /\ mode[p] = "auto"
             /\ ~Hit(p)
             /\ errs[p] \in {<<"ErrMemfdCreate">>, <<"ErrMemfdSealingFailed">>, <<"ErrExecve">>}]_vars

\* Without faults a launch or prewarm of a sound payload fails only when the
\* entry is unsafe, however many processes populate the cache at once.
SoundLaunchSucceeds ==
    \A p \in Procs :
        pc[p] = "failed" => Faults # {} \/ payload[p] = "damaged" \/ file[Old] = "unsafe"

\* Once a cache-mode launcher or a prewarmer with a sound payload has worked on
\* a cache that was not corrupt, a good entry stays published for good.
EntrySettles ==
    (\E p \in Procs : mode[p] \in {"cache", "prewarm"}) =>
        <>[](entry # NoFile /\ file[entry] = "good")

-----------------------------------------------------------------------------
(* The launchers implement the launch contract. *)

absStatus ==
    [p \in Procs |-> IF pc[p] = "running" THEN "running"
                     ELSE IF pc[p] \in Terminal THEN "ended" ELSE "pending"]

absImage ==
    [p \in Procs |->
        IF pc[p] # "running" THEN <<>>
        ELSE LET path == tried[p][Len(tried[p])]
                 sound == IF path = "cache" THEN fd[p] \in Inodes /\ file[fd[p]] = "good"
                          ELSE mem[p] = "sealed"
             IN <<path, IF sound THEN "verified" ELSE "unverified">>]

Contract == INSTANCE LaunchContract WITH status <- absStatus, image <- absImage

\* Each process pursues its launch contract: one verified image on a permitted
\* path, at most once.
ImplementsContract == Contract!AbsSpec

=============================================================================
