------------------------------- MODULE Install -------------------------------
(***************************************************************************)
(* The installation store of internal/install: installers, updaters and    *)
(* uninstallers observe it without a lock, download for a while, and then  *)
(* change it under the lock if it is still what they observed.  A store    *)
(* holds an owner record, immutable generations and a current link; the    *)
(* public entrypoints in the bin directory point through current.  A       *)
(* process publishes at most one generation, which is named by it, as is   *)
(* the owner record it writes.                                             *)
(***************************************************************************)
EXTENDS Naturals, Sequences, FiniteSets

CONSTANTS Procs,      \* operations
          Base,       \* the generation and owner of a store that exists already
          None,       \* nothing
          MaxVersion, \* releases are 1 .. MaxVersion
          Scenes      \* the circumstances of the behaviours

\* "downgrade" and "update-to" carry --version and --allow-downgrade, "repair"
\* carries --version.
KindSet == {"install", "repair", "downgrade", "update", "update-to", "uninstall"}
FaultKinds == {"io", "remove", "cancel", "timeout", "kill", "power"}

ASSUME InstallNames == Base \notin Procs /\ None \notin Procs \cup {Base}
ASSUME InstallChoices ==
    /\ MaxVersion \in Nat \ {0}
    /\ \A s \in Scenes :
          /\ s.procs \subseteq Procs                               \* the operations that run
          /\ s.kinds \subseteq KindSet                             \* their kinds
          /\ s.products \in Seq(STRING) /\ s.products # <<>>       \* public entrypoints
          /\ s.faults \subseteq FaultKinds                         \* what the environment may do
          /\ s.outside \in Nat                                    \* bound on changes by others

Gens == Procs \cup {Base}
Versions == 1 .. MaxVersion

VARIABLES scene,     \* the circumstances, which stay as they are
          kind, version,  \* the request of each operation; version[g] is also g's release
          owner,     \* the owner record
          current,   \* the generation current names
          gendir,    \* the generations directory exists
          gens,      \* gens[g]: the state of generations/g
          entry,     \* entry[n]: what the bin directory holds under n
          disk,      \* what is known to survive a power loss
          scratch,   \* scratch[p]: the temporary names p has left in the store
          lock,      \* the holder of .lock
          pc,        \* pc[p]: the next stage of p, or how it ended
          at,        \* at[p]: the product p works on
          running,   \* running[p]: the generation an updater was started from
          snap,      \* snap[p]: the observed owner, current target and current generation,
                     \* and the temporary owner records an unclaimed store was seen with
          activated, \* activated[p]: Result.Activated
          error,     \* error[p]: the error p returned
          lineage,   \* lineage[g]: the activations g builds on (history)
          outside    \* changes by others

request == <<scene, kind, version>>
store == <<owner, current, gendir, gens, entry, disk>>
local == <<at, running, snap, activated, error, lineage>>
vars == <<request, store, scratch, lock, pc, local, outside>>

Products == scene.products
Names == {Products[k] : k \in 1 .. Len(Products)}

Terminal == {"done", "failed", "crashed", "absent"}

-----------------------------------------------------------------------------
(* Helpers. *)

Goto(p, l) == pc' = [pc EXCEPT ![p] = l]

CanFail(f) == f \in scene.faults

Release_Leaks(p) == UNCHANGED lock

Release(p) == lock' = IF lock = p THEN None ELSE lock

\* An error return: the deferred calls remove the staging directory and the
\* temporary link, ignoring a failure to do so, and close the lock.  A temporary
\* owner record is left.
Fail(p, e) ==
    /\ Goto(p, "failed")
    /\ error' = [error EXCEPT ![p] = e]
    /\ \/ scratch' = [scratch EXCEPT ![p] = @ \ {"stage", "current"}]
       \/ CanFail("remove") /\ UNCHANGED scratch
    /\ Release(p)
    /\ UNCHANGED <<request, store, at, running, snap, activated, lineage, outside>>

\* A step that only moves on.
Move(p, l) ==
    Goto(p, l) /\ UNCHANGED <<request, store, scratch, lock, local, outside>>

IsUpdate(p) == kind[p] \in {"update", "update-to"}

\* readGeneration and verifyGeneration.
Readable(g) == gens[g] \notin {"absent", "badmeta"}
Verified(g) == gens[g] \in {"ok", "unsynced"}

\* validateUnclaimed: a store without an owner holds nothing but its lock and
\* interrupted owner records.
Unclaimed_LockOnly == current = None /\ ~gendir /\ \A p \in Procs : scratch[p] = {}

Unclaimed ==
    /\ current = None /\ ~gendir
    /\ \A p \in Procs : scratch[p] \subseteq {"owner"}

\* checkEntrypoints: an unmanaged or modified entry is a conflict, and so is
\* any entry before the store is owned.
EntrypointsOK(owned) == \A n \in Names : entry[n] = "missing" \/ (owned /\ entry[n] = "owned")

\* checkExistingLinks.
LinksComplete == \A n \in Names : entry[n] = "owned"

\* checkUpdateSnapshot.
UpdateSnapshotOK(p) ==
    /\ owner = snap[p].owner
    /\ current = snap[p].current /\ Verified(current)
    /\ LinksComplete

\* syncDir(store, "."): the owner record, the current link, the directory.
StoreSynced == [disk EXCEPT !.owner = owner, !.current = current, !.gendir = gendir]

NoSnap == [owner |-> None, target |-> None, current |-> None, records |-> {}]

-----------------------------------------------------------------------------
(* Inspect, InspectUpdate and the choice of a version, without the lock. *)

Init ==
    /\ scene \in Scenes
    /\ kind \in {f \in [Procs -> KindSet] :
                   \A p \in Procs : IF p \in scene.procs THEN f[p] \in scene.kinds ELSE f[p] = "uninstall"}
    /\ version \in {v \in [Gens -> Versions] : \A p \in Procs : kind[p] = "uninstall" => v[p] = 1}
    /\ \E installed \in BOOLEAN :
          /\ owner = IF installed THEN Base ELSE None
          /\ current = IF installed THEN Base ELSE None
          /\ gendir = installed
          /\ gens = [g \in Gens |-> IF installed /\ g = Base THEN "ok" ELSE "absent"]
          /\ entry = [n \in Names |-> IF installed THEN "owned" ELSE "missing"]
    /\ disk = [owner |-> owner, current |-> current, gendir |-> gendir, gens |-> gens, entry |-> entry]
    /\ scratch = [p \in Procs |-> {}]
    /\ lock = None
    /\ pc = [p \in Procs |-> IF p \in scene.procs THEN "start" ELSE "absent"]
    /\ at = [p \in Procs |-> 1]
    /\ running = [p \in Procs |-> None]
    /\ snap = [p \in Procs |-> NoSnap]
    /\ activated = [p \in Procs |-> FALSE]
    /\ error = [p \in Procs |-> "none"]
    /\ lineage = [g \in Gens \cup {None} |-> <<>>]
    /\ outside = 0

\* An updater runs from the generation that was selected when it was started.
Start(p) ==
    /\ pc[p] = "start"
    /\ IF ~IsUpdate(p) THEN Move(p, "owner")
       ELSE IF current = None THEN Fail(p, "ErrOwnership")
       ELSE /\ running' = [running EXCEPT ![p] = current]
            /\ Goto(p, "observe")
            /\ UNCHANGED <<request, store, scratch, lock, at, snap, activated, error, lineage, outside>>

\* ReadInstallation: the running and the selected generation and the links ...
Observe(p) ==
    /\ pc[p] = "observe"
    /\ IF owner = None \/ ~Readable(running[p]) THEN Fail(p, "ErrOwnership")
       ELSE IF ~Verified(running[p]) THEN Fail(p, "ErrCorrupt")
       ELSE IF current = None THEN Fail(p, "ErrChanged")
       ELSE IF ~Verified(current) THEN Fail(p, "ErrCorrupt")
       ELSE IF ~LinksComplete THEN Fail(p, "ErrConflict")
       ELSE /\ snap' = [snap EXCEPT ![p].owner = owner, ![p].target = current, ![p].current = current]
            /\ Goto(p, "reobserve")
            /\ UNCHANGED <<request, store, scratch, lock, at, running, activated, error, lineage, outside>>

\* ... and the selection again; a process of another generation is stale.
Reobserve(p) ==
    /\ pc[p] = "reobserve"
    /\ IF current # snap[p].target \/ running[p] # snap[p].target THEN Fail(p, "ErrChanged")
       ELSE Move(p, "owner")

\* Inspect reads the owner record; ...
InspectOwner(p) ==
    /\ pc[p] = "owner"
    /\ IF IsUpdate(p) /\ owner \notin {None, snap[p].owner} THEN Fail(p, "ErrChanged")
       ELSE /\ snap' = [snap EXCEPT ![p].owner = owner]
            /\ Goto(p, IF owner = None THEN "unclaimed" ELSE "target")
            /\ UNCHANGED <<request, store, scratch, lock, at, running, activated, error, lineage, outside>>

\* ... without one, validateUnclaimed lists the store, by now perhaps claimed, ...
InspectUnclaimed(p) ==
    /\ pc[p] = "unclaimed"
    /\ IF owner # None \/ ~Unclaimed THEN Fail(p, "ErrOwnership")
       ELSE /\ snap' = [snap EXCEPT ![p].records = {q \in Procs : "owner" \in scratch[q]}]
            /\ Goto(p, "records")
            /\ UNCHANGED <<request, store, scratch, lock, at, running, activated, error, lineage, outside>>

\* ... and looks at each record it listed, which the claim may have renamed.
InspectRecords(p) ==
    /\ pc[p] = "records"
    /\ IF \E q \in snap[p].records : "owner" \notin scratch[q] THEN Fail(p, "ErrNotExist")
       ELSE IF IsUpdate(p) THEN Fail(p, "ErrChanged")
       ELSE IF kind[p] = "uninstall" THEN Fail(p, "ErrOwnership")
       ELSE Move(p, "choose")

\* With an owner, it reads the target of current, ...
InspectTarget(p) ==
    /\ pc[p] = "target"
    /\ IF IsUpdate(p) /\ current = None THEN Fail(p, "ErrChanged")
       ELSE /\ snap' = [snap EXCEPT ![p].target = current]
            /\ Goto(p, IF current = None THEN "choose" ELSE "current")
            /\ UNCHANGED <<request, store, scratch, lock, at, running, activated, error, lineage, outside>>

\* ... and the generation current names by then.
InspectCurrent(p) ==
    LET seen == IF Readable(current) THEN current ELSE None
    IN  /\ pc[p] = "current"
        /\ IF IsUpdate(p) /\ seen # snap[p].current THEN Fail(p, "ErrChanged")
           ELSE /\ snap' = [snap EXCEPT ![p].current = seen]
                /\ Goto(p, "choose")
                /\ UNCHANGED <<request, store, scratch, lock, at, running, activated, error, lineage, outside>>

\* checkVersion for the installer, the comparison in run for the updater.
Choose(p) ==
    LET seen == snap[p].current
        older == seen # None /\ version[p] < version[seen]
        unreadable == snap[p].target # None /\ seen = None
    IN  /\ pc[p] = "choose"
        /\ CASE kind[p] = "uninstall" -> Move(p, "lock")
             [] IsUpdate(p) ->
                   IF version[p] = version[seen] \/ (older /\ kind[p] = "update")
                   THEN Move(p, "done") ELSE Move(p, "lock")
             [] OTHER ->
                   IF unreadable /\ kind[p] # "repair" THEN Fail(p, "ErrCorrupt")
                   ELSE IF older /\ kind[p] # "downgrade" THEN Fail(p, "downgrade")
                   ELSE Move(p, "lock")

-----------------------------------------------------------------------------
(* openOperation: the lock, and the observation checked under it. *)

\* The lock is polled until it is free ...
Lock(p) ==
    /\ pc[p] = "lock"
    /\ lock = None
    /\ lock' = p
    /\ Goto(p, "validate")
    /\ UNCHANGED <<request, store, scratch, local, outside>>

\* ... or the context is canceled, or its time is up.
LockCanceled(p) ==
    /\ pc[p] = "lock"
    /\ CanFail("cancel") \/ (CanFail("timeout") /\ lock # None)
    /\ Fail(p, "canceled")

Validate(p) ==
    /\ pc[p] = "validate"
    /\ IF owner # snap[p].owner \/ current # snap[p].target THEN Fail(p, "ErrChanged")
       ELSE IF owner = None /\ ~Unclaimed THEN Fail(p, "ErrOwnership")
       ELSE IF IsUpdate(p) /\ ~UpdateSnapshotOK(p) THEN Fail(p, "ErrChanged")
       ELSE Move(p, IF kind[p] = "uninstall" THEN "remove" ELSE "entrypoints")

-----------------------------------------------------------------------------
(* apply. *)

CheckEntrypoints(p) ==
    /\ pc[p] = "entrypoints"
    /\ IF ~EntrypointsOK(snap[p].owner # None) THEN Fail(p, "ErrConflict")
       ELSE Move(p, IF snap[p].owner = None THEN "ownerwrite" ELSE "cleanup")

\* initializeOwner: a temporary record, which a failure leaves behind, ...
WriteOwner(p) ==
    /\ pc[p] = "ownerwrite"
    /\ scratch' = [scratch EXCEPT ![p] = @ \cup {"owner"}]
    /\ \/ /\ Goto(p, "ownerrename")
          /\ UNCHANGED <<lock, error>>
       \/ /\ CanFail("io")
          /\ Goto(p, "failed")
          /\ error' = [error EXCEPT ![p] = "io"]
          /\ Release(p)
    /\ UNCHANGED <<request, store, at, running, snap, activated, lineage, outside>>

\* ... renamed ...
RenameOwner(p) ==
    /\ pc[p] = "ownerrename"
    /\ \/ CanFail("io") /\ Fail(p, "io")
       \/ /\ owner' = p
          /\ scratch' = [scratch EXCEPT ![p] = @ \ {"owner"}]
          /\ Goto(p, "ownersync")
          /\ UNCHANGED <<request, current, gendir, gens, entry, disk, lock, local, outside>>

\* ... and made durable before anything else is written.
SyncOwner(p) ==
    /\ pc[p] = "ownersync"
    /\ \/ CanFail("io") /\ Fail(p, "io")
       \/ /\ disk' = StoreSynced
          /\ Goto(p, "cleanup")
          /\ UNCHANGED <<request, owner, current, gendir, gens, entry, scratch, lock, local, outside>>

\* cleanupStaging removes what interrupted operations left in the store.
CleanupStaging_Skipped(p) == pc[p] = "cleanup" /\ Move(p, "reuse")

CleanupStaging(p) ==
    /\ pc[p] = "cleanup"
    /\ \/ CanFail("io") /\ Fail(p, "io")
       \/ /\ scratch' = [q \in Procs |-> {}]
          /\ Goto(p, "reuse")
          /\ UNCHANGED <<request, store, lock, local, outside>>

\* reusableGeneration: a healthy selection of the requested release is kept;
\* a damaged one needs an explicit repair.
ReuseGeneration(p) ==
    /\ pc[p] = "reuse"
    /\ IF current = None THEN Move(p, "stage")
       ELSE IF ~Verified(current)
            THEN IF kind[p] = "repair" THEN Move(p, "stage") ELSE Fail(p, "ErrCorrupt")
       ELSE IF version[current] # version[p] THEN Move(p, "stage")
       ELSE Move(p, IF IsUpdate(p) THEN "confirm" ELSE "link")

\* stage: the generations directory, whose creation syncs the store, ...
MakeGenerations(p) ==
    /\ pc[p] = "stage"
    /\ gendir' = TRUE
    /\ \/ /\ disk' = IF gendir THEN disk ELSE [StoreSynced EXCEPT !.gendir = TRUE]
          /\ Goto(p, "copy")
          /\ UNCHANGED <<lock, error>>
       \/ /\ CanFail("io")
          /\ Goto(p, "failed")
          /\ error' = [error EXCEPT ![p] = "io"]
          /\ Release(p)
          /\ UNCHANGED disk
    /\ UNCHANGED <<request, owner, current, gens, entry, scratch, at, running, snap, activated, lineage,
                   outside>>

\* ... a private staging directory ...
StageGeneration(p) ==
    /\ pc[p] = "copy"
    /\ \/ CanFail("io") /\ Fail(p, "io")
       \/ /\ scratch' = [scratch EXCEPT ![p] = @ \cup {"stage"}]
          /\ Goto(p, "publish")
          /\ UNCHANGED <<request, store, lock, local, outside>>

\* ... into which every product is copied, checked and flushed; the complete
\* directory is renamed to generations/ID ...
PublishGeneration_Unsynced(p) ==
    /\ pc[p] = "publish"
    /\ gens' = [gens EXCEPT ![p] = "unsynced"]
    /\ scratch' = [scratch EXCEPT ![p] = @ \ {"stage"}]
    /\ Goto(p, "gensync")
    /\ UNCHANGED <<request, owner, current, gendir, entry, disk, lock, local, outside>>

PublishGeneration(p) ==
    /\ pc[p] = "publish"
    /\ \/ CanFail("io") /\ Fail(p, "io")
       \/ /\ gens' = [gens EXCEPT ![p] = "ok"]
          /\ scratch' = [scratch EXCEPT ![p] = @ \ {"stage"}]
          /\ Goto(p, "gensync")
          /\ UNCHANGED <<request, owner, current, gendir, entry, disk, lock, local, outside>>

\* ... and the rename is made durable.
SyncGenerations(p) ==
    /\ pc[p] = "gensync"
    /\ \/ CanFail("io") /\ Fail(p, "io")
       \/ /\ disk' = [disk EXCEPT !.gens = gens]
          /\ Goto(p, "preactivate")
          /\ UNCHANGED <<request, owner, current, gendir, gens, entry, scratch, lock, local, outside>>

Preactivate(p) ==
    /\ pc[p] = "preactivate"
    /\ \/ CanFail("cancel") /\ Fail(p, "canceled")
       \/ IF ~EntrypointsOK(TRUE) THEN Fail(p, "ErrConflict")
          ELSE Move(p, IF IsUpdate(p) THEN "recheck" ELSE "symlink")

RecheckUpdate(p) ==
    /\ pc[p] = "recheck"
    /\ IF UpdateSnapshotOK(p) THEN Move(p, "symlink") ELSE Fail(p, "ErrChanged")

LinkTemporary(p) ==
    /\ pc[p] = "symlink"
    /\ \/ CanFail("io") /\ Fail(p, "io")
       \/ /\ scratch' = [scratch EXCEPT ![p] = @ \cup {"current"}]
          /\ Goto(p, "activate")
          /\ UNCHANGED <<request, store, lock, local, outside>>

\* The rename of the temporary link to current is the activation; it can be
\* canceled until then.
Activate(p) ==
    /\ pc[p] = "activate"
    /\ \/ CanFail("cancel") /\ Fail(p, "canceled")
       \/ CanFail("io") /\ Fail(p, "io")
       \/ /\ current' = p
          /\ lineage' = [lineage EXCEPT ![p] = Append(lineage[snap[p].target], p)]
          /\ activated' = [activated EXCEPT ![p] = TRUE]
          /\ scratch' = [scratch EXCEPT ![p] = @ \ {"current"}]
          /\ Goto(p, "actsync")
          /\ UNCHANGED <<request, owner, gendir, gens, entry, disk, lock, at, running, snap, error, outside>>

SyncActivation_Skipped(p) ==
    pc[p] = "actsync" /\ Move(p, IF IsUpdate(p) THEN "confirm" ELSE "link")

SyncActivation(p) ==
    /\ pc[p] = "actsync"
    /\ \/ CanFail("io") /\ Fail(p, "io")
       \/ /\ disk' = StoreSynced
          /\ Goto(p, IF IsUpdate(p) THEN "confirm" ELSE "link")
          /\ UNCHANGED <<request, owner, current, gendir, gens, entry, scratch, lock, local, outside>>

\* completeEntrypoints of an update only confirms the links.
ConfirmLinks(p) ==
    /\ pc[p] = "confirm"
    /\ IF ~LinksComplete THEN Fail(p, "ErrConflict")
       ELSE /\ Goto(p, "done")
            /\ Release(p)
            /\ UNCHANGED <<request, store, scratch, local, outside>>

\* publishEntrypoints, one product after the other: a missing link is created,
\* an existing one must be ours.
PublishEntrypoint(p) ==
    LET n == Products[at[p]]
    IN  /\ pc[p] = "link"
        /\ \/ CanFail("io") /\ Fail(p, "io")
           \/ /\ entry[n] = "missing"
              /\ entry' = [entry EXCEPT ![n] = "owned"]
              /\ Goto(p, "linksync")
              /\ UNCHANGED <<request, owner, current, gendir, gens, disk, scratch, lock, local, outside>>
           \/ /\ entry[n] # "missing"
              /\ IF EntrypointsOK(TRUE) THEN Move(p, "linksync") ELSE Fail(p, "ErrConflict")

\* Move on to the next product, or return.
NextProduct(p, l) ==
    IF at[p] < Len(Products)
    THEN /\ at' = [at EXCEPT ![p] = @ + 1]
         /\ Goto(p, l)
         /\ UNCHANGED lock
    ELSE /\ Goto(p, "done")
         /\ Release(p)
         /\ UNCHANGED at

SyncEntrypoint(p) ==
    /\ pc[p] = "linksync"
    /\ \/ CanFail("io") /\ Fail(p, "io")
       \/ /\ disk' = [disk EXCEPT !.entry = entry]
          /\ NextProduct(p, "link")
          /\ UNCHANGED <<request, owner, current, gendir, gens, entry, scratch, running, snap, activated, error,
                         lineage, outside>>

-----------------------------------------------------------------------------
(* Uninstall. *)

\* Move on to the next product, or to the final sync.
NextRemoval(p) ==
    IF at[p] < Len(Products)
    THEN at' = [at EXCEPT ![p] = @ + 1] /\ Goto(p, "remove")
    ELSE Goto(p, "removesync") /\ UNCHANGED at

\* Seeded bug: what is there is not compared with the owned link.
CheckRemoval_Any(p) ==
    /\ pc[p] = "remove"
    /\ IF entry[Products[at[p]]] = "missing" THEN NextRemoval(p)
       ELSE Goto(p, "unlink") /\ UNCHANGED at
    /\ UNCHANGED <<request, store, scratch, lock, running, snap, activated, error, lineage, outside>>

\* One product after the other: only an unchanged owned link is to be removed.
CheckRemoval(p) ==
    LET n == Products[at[p]]
    IN  /\ pc[p] = "remove"
        /\ \/ /\ entry[n] = "missing"
              /\ NextRemoval(p)
              /\ UNCHANGED error
           \/ /\ entry[n] = "foreign" \/ CanFail("io")
              /\ error' = [error EXCEPT ![p] = "ErrConflict"]
              /\ NextRemoval(p)
           \/ /\ entry[n] = "owned"
              /\ Goto(p, "unlink")
              /\ UNCHANGED <<at, error>>
        /\ UNCHANGED <<request, store, scratch, lock, running, snap, activated, lineage, outside>>

\* It is removed by name, whatever the name refers to by then.
RemoveEntrypoint(p) ==
    LET n == Products[at[p]]
    IN  /\ pc[p] = "unlink"
        /\ \/ /\ entry[n] # "missing"
              /\ entry' = [entry EXCEPT ![n] = "missing"]
              /\ UNCHANGED error
           \/ /\ entry[n] = "missing" \/ CanFail("io")
              /\ error' = [error EXCEPT ![p] = "io"]
              /\ UNCHANGED entry
        /\ NextRemoval(p)
        /\ UNCHANGED <<request, owner, current, gendir, gens, disk, scratch, lock, running, snap, activated,
                       lineage, outside>>

\* The joined failures of all products and of the final sync are returned.
SyncRemoval(p) ==
    /\ pc[p] = "removesync"
    /\ Release(p)
    /\ \/ /\ disk' = [disk EXCEPT !.entry = entry]
          /\ Goto(p, IF error[p] = "none" THEN "done" ELSE "failed")
          /\ UNCHANGED error
       \/ /\ CanFail("io")
          /\ error' = [error EXCEPT ![p] = "io"]
          /\ Goto(p, "failed")
          /\ UNCHANGED disk
    /\ UNCHANGED <<request, owner, current, gendir, gens, entry, scratch, at, running, snap, activated, lineage,
                   outside>>

-----------------------------------------------------------------------------
(* The environment. *)

\* The process dies: the kernel releases its lock, temporary names stay.
Kill(p) ==
    /\ CanFail("kill")
    /\ pc[p] \notin Terminal \cup {"start"}
    /\ Goto(p, "crashed")
    /\ Release(p)
    /\ UNCHANGED <<request, store, scratch, local, outside>>

\* Every running process dies.  Each directory entry that was not synced may
\* be as it was on disk, though entries of the store directory reach the disk
\* in the order they were made, so nothing staged survives without the
\* generations directory; an interrupted rename may show its old name, and
\* content that was not flushed is lost.
PowerLoss ==
    /\ CanFail("power")
    /\ \E p \in Procs : pc[p] \notin Terminal \cup {"start"}
    /\ owner' \in {owner, disk.owner}
    /\ current' \in {current, disk.current}
    /\ gendir' \in {gendir, disk.gendir}
    /\ gendir' # disk.gendir => owner' = owner
    /\ current' # disk.current => owner' = owner /\ gendir' = gendir
    /\ \E lost \in SUBSET {g \in Gens : gens[g] # "absent" /\ disk.gens[g] = "absent"} :
          gens' = [g \in Gens |-> IF g \in lost \/ ~gendir' THEN "absent"
                                  ELSE IF gens[g] = "unsynced" THEN "badmeta" ELSE gens[g]]
    /\ \E undone \in SUBSET {n \in Names : entry[n] # disk.entry[n]} :
          entry' = [n \in Names |-> IF n \in undone THEN disk.entry[n] ELSE entry[n]]
    /\ disk' = [owner |-> owner', current |-> current', gendir |-> gendir', gens |-> gens', entry |-> entry']
    /\ scratch' = [p \in Procs |-> (IF gendir' THEN {"owner", "stage", "current"} ELSE {"owner"}) \cap
                      (scratch[p]
                       \cup (IF p = owner /\ p # owner' THEN {"owner"} ELSE {})
                       \cup (IF p = current /\ p # current' THEN {"current"} ELSE {})
                       \cup (IF gens[p] # "absent" /\ gens'[p] = "absent" THEN {"stage"} ELSE {}))]
    /\ lock' = None
    /\ pc' = [p \in Procs |-> IF pc[p] \in Terminal \cup {"start"} THEN pc[p] ELSE "crashed"]
    /\ UNCHANGED <<request, local, outside>>

\* Others change the bin directory or damage the selected generation.
Replace(n, e) ==
    /\ entry' = [entry EXCEPT ![n] = e]
    /\ disk' = [disk EXCEPT !.entry[n] = e]
    /\ UNCHANGED gens

Damage(g, how) ==
    /\ g # None
    /\ gens' = [gens EXCEPT ![g] = how]
    /\ disk' = [disk EXCEPT !.gens[g] = how]
    /\ UNCHANGED entry

Outside ==
    /\ outside < scene.outside
    /\ \/ \E n \in Names, e \in {"foreign", "missing"} : entry[n] # e /\ Replace(n, e)
       \/ \E how \in {"badfile", "badmeta"} : Damage(current, how)
    /\ outside' = outside + 1
    /\ UNCHANGED <<request, owner, current, gendir, scratch, lock, pc, local>>

Ended == \A p \in Procs : pc[p] \in Terminal

Step(p) ==
    \/ Start(p) \/ Observe(p) \/ Reobserve(p) \/ InspectOwner(p) \/ InspectUnclaimed(p) \/ InspectRecords(p)
    \/ InspectTarget(p) \/ InspectCurrent(p)
    \/ Choose(p) \/ Lock(p) \/ Validate(p) \/ CheckEntrypoints(p)
    \/ WriteOwner(p) \/ RenameOwner(p) \/ SyncOwner(p) \/ CleanupStaging(p) \/ ReuseGeneration(p)
    \/ MakeGenerations(p) \/ StageGeneration(p) \/ PublishGeneration(p) \/ SyncGenerations(p)
    \/ Preactivate(p) \/ RecheckUpdate(p) \/ LinkTemporary(p) \/ Activate(p) \/ SyncActivation(p)
    \/ ConfirmLinks(p) \/ PublishEntrypoint(p) \/ SyncEntrypoint(p) \/ CheckRemoval(p)
    \/ RemoveEntrypoint(p) \/ SyncRemoval(p)

Next ==
    \/ \E p \in Procs : Step(p) \/ LockCanceled(p) \/ Kill(p)
    \/ PowerLoss
    \/ Outside
    \/ Ended /\ UNCHANGED vars

\* Every system call returns.  Nobody is owed a cancellation: an operation ends
\* because the lock it waits for is released.
Spec == Init /\ [][Next]_vars /\ \A p \in Procs : WF_vars(Step(p))

-----------------------------------------------------------------------------
(* Properties. *)

\* The selected generation is complete, now and after a power loss, unless
\* others damaged it: stage flushes and publishes it before apply activates it.
SelectedIsComplete ==
    outside = 0 =>
        /\ current # None => gens[current] = "ok"
        /\ disk.current # None => disk.gens[disk.current] = "ok"

\* A public link that survives a power loss leads to a complete product: apply
\* publishes links after the selection they go through is durable.
LinksReachProducts ==
    outside = 0 /\ (\E n \in Names : disk.entry[n] = "owned") =>
        disk.current # None /\ disk.gens[disk.current] = "ok"

\* Activations form one history, each built on the selection its operation
\* had observed before it took the lock, and none that was reported as
\* successful is taken back by a power loss.
History == INSTANCE DurableHistory WITH
    Writers <- Procs,
    history <- lineage[current],
    durable <- lineage[disk.current],
    reported <- {p \in Procs : activated[p] /\ pc[p] = "done"}

IsDurableHistory == History!HSpec

\* Nothing is done that was not asked for.  Without --allow-downgrade no activation
\* selects an older release than the one selected at that moment, however long ago the
\* versions were compared; only an explicit repair may replace a release whose metadata
\* it could not read.  An updater confirms links and never repairs them, and never
\* claims a store.  And no operation replaces an entry it does not own, or removes
\* one, but for what others put in place of an owned link between the Readlink and
\* the Remove of an uninstaller.
NothingUnasked ==
    [][/\ \A n \in Names : entry[n] = "foreign" /\ outside' = outside =>
             \/ entry'[n] = "foreign"
             \/ \E p \in Procs : pc[p] = "unlink" /\ Products[at[p]] = n /\ pc'[p] # "unlink"
       /\ \A p \in Procs :
          /\ pc[p] # "unlink" /\ pc'[p] = "unlink" => entry[Products[at[p]]] = "owned"
          /\ ~activated[p] /\ activated'[p] /\ kind[p] \notin {"downgrade", "update-to"} =>
                \/ current = None
                \/ version[p] >= version[current]
                \/ kind[p] = "repair" /\ snap[p].current = None
          /\ IsUpdate(p) /\ pc'[p] # pc[p] /\ pc'[p] # "crashed" => entry' = entry /\ owner' = owner]_vars

\* Success means what it says, if nobody else interfered: an installer leaves
\* the requested release selected, all links in place and no leftovers of
\* interrupted operations; an uninstaller leaves no owned link.  Links are
\* durable by then, and so is a selection the operation made itself.  A failure
\* before the activation leaves the selection alone and cleans up the staging
\* directory and the temporary link, unless their removal failed; then the next
\* installation that succeeds has removed them.
OutcomeMeansIt ==
    [][\A p \in Procs :
          /\ outside = 0 /\ pc[p] # "done" /\ pc'[p] = "done" =>
                CASE kind[p] = "uninstall" -> \A n \in Names : {entry'[n], disk'.entry[n]} = {"missing"}
                  [] IsUpdate(p) -> activated[p] => current = p /\ LinksComplete
                  [] OTHER -> /\ version[current] = version[p]
                              /\ activated[p] => disk.current = current
                              /\ \A n \in Names : {entry'[n], disk'.entry[n]} = {"owned"}
                              /\ \A q \in Procs : scratch[q] = {}
          /\ pc[p] # "failed" /\ pc'[p] = "failed" =>
                /\ CanFail("remove") \/ scratch'[p] \subseteq {"owner"}
                /\ ~activated[p] => p \notin {current', disk'.current}]_vars

\* No interruption leaves a store that a later installation refuses: without
\* interference it fails only because the store changed, a downgrade was not
\* allowed, it was canceled, or the system failed it.  ErrOwnership is returned
\* only when the store was claimed between the two reads of Inspect, so that the
\* next attempt finds its owner.  The one exception: a power loss takes back a
\* claim that no operation before it had made durable, but not the links
\* published through it (LinksReachProducts), and every installation takes those
\* for somebody else's.
InterruptionsAreRecoverable ==
    [][\A p \in Procs :
          outside = 0 /\ kind[p] \in {"install", "repair", "downgrade"} /\ error'[p] # error[p] =>
             /\ error'[p] # "ErrCorrupt"
             /\ error'[p] = "ErrOwnership" => owner # None
             /\ error'[p] = "ErrConflict" => owner = None /\ \E n \in Names : entry[n] = "owned"]_vars

\* Every operation returns.
Termination == \A p \in Procs : <>(pc[p] \in Terminal)
=============================================================================
