------------------------------ MODULE Lifecycle ------------------------------
(***************************************************************************)
(* The transactions of internal/lifecycle: trim and optimize replace an    *)
(* executable in place or publish a derivative at a new path, while other  *)
(* transactions, deployers that take no lock, kills and power loss         *)
(* interfere.  One step is one system call another process can see.  A     *)
(* transaction stages one file, so its inode is named by the process; the  *)
(* caller holds the source open, so an inode number is never reused while  *)
(* a snapshot refers to it.                                                *)
(***************************************************************************)
EXTENDS Naturals, Sequences, FiniteSets

CONSTANTS Procs,         \* the transactions
          Orig,          \* the inode deployed initially
          Ext,           \* an inode a deployer may put in place
          NoFile,        \* no inode, no lock owner
          Scenes         \* the circumstances of the behaviours

IntentSet == {"replace-source", "create-only"}
PolicySet == {"strict", "strip"}
FaultKinds == {"io", "transform", "metadata", "drift", "norename2", "remove", "dirsync", "kill", "power"}
\* What the metadata policies tell apart: owner-execute and group-write bits,
\* special bits, and kinds of extended attributes.
Features == {"x", "gw", "setid", "sticky", "user", "selinux", "cap", "ima", "acl"}

ASSUME LifecycleInodes ==
    /\ Orig \notin Procs /\ Ext \notin Procs /\ Orig # Ext
    /\ NoFile \notin Procs \cup {Orig, Ext}
ASSUME LifecycleChoices ==
    \A s \in Scenes :
        /\ s.procs \subseteq Procs                   \* the transactions that run
        /\ s.intents \subseteq IntentSet             \* their publication intents
        /\ s.policies \subseteq PolicySet            \* their metadata policies
        /\ s.plain \in BOOLEAN                      \* the deployed file is an ordinary executable
        /\ s.faults \subseteq FaultKinds             \* operations the environment may fail
        /\ s.outside \in Nat                        \* bound on the steps of deployers

Inodes == Procs \cup {Orig, Ext}
Paths == {"src", "dst", "alias"}

VARIABLES scene,     \* the circumstances, which stay as they are
          intent, policy, breakLinks,  \* the request of each transaction
          link,      \* link[n]: the inode path n names
          disk,      \* disk[n]: the inode path n names after a power loss
          data,      \* data[i]: the deliveries and transformations in i's content
          state,     \* state[i]: how far i's content was written and flushed
          mtime,     \* mtime[i]: changes whenever the content is written in place
          attrs,     \* attrs[i]: mode bits and extended attributes
          staged,    \* staged[p]: the staging name exists
          lock,      \* lock[i]: the holder of the flock on inode i
          pc,        \* pc[p]: the next stage of p, or how it ended
          snap,      \* snap[p]: what TakeSourceSnapshot recorded
          lockfd,    \* lockfd[p]: the inode p opened to lock
          error,     \* error[p]: the sentinel p returned
          outside,   \* steps deployers have taken
          raced      \* raced[p]: a deployer, or a transaction that a deployer raced,
                     \* moved between p's last check and its rename

request == <<scene, intent, policy, breakLinks>>
names == <<link, disk>>
inodes == <<data, state, mtime, attrs>>
vars == <<request, names, inodes, staged, lock, pc, snap, lockfd, error, outside, raced>>

Terminal == {"done", "undurable", "failed", "crashed", "absent"}
NoSnap == [ino |-> NoFile, mtime |-> 0, nlink |-> 0, attrs |-> {}]

-----------------------------------------------------------------------------
(* Helpers. *)

Goto(p, l) == pc' = [pc EXCEPT ![p] = l]

CanFail(f) == f \in scene.faults

Dest(p) == IF intent[p] = "replace-source" THEN "src" ELSE "dst"

Nlink(i) == Cardinality({n \in Paths : link[n] = i}) + (IF i \in Procs /\ staged[i] THEN 1 ELSE 0)

Unlock(p) == lock' = [i \in Inodes |-> IF lock[i] = p THEN NoFile ELSE lock[i]]

\* The staging name is removed with os.Remove, whose error is ignored.
DropStaged(p) ==
    \/ staged' = [staged EXCEPT ![p] = FALSE]
    \/ CanFail("remove") /\ UNCHANGED staged

\* An error return: the deferred calls remove the staged file and unlock.
Fail(p, e) ==
    /\ Goto(p, "failed")
    /\ error' = [error EXCEPT ![p] = e]
    /\ DropStaged(p)
    /\ Unlock(p)
    /\ UNCHANGED <<request, names, inodes, snap, lockfd, outside, raced>>

\* ValidateSnapshot: what strict refuses to carry over.
Unsafe(pol, as) == pol = "strict" /\ as \cap {"setid", "cap", "ima", "acl"} # {}

\* applyMetadata: what the derivative shall carry.
Target(pol, as) == IF pol = "strict" THEN as ELSE {"x"}

\* verifyReadback: exact, but for a SELinux label the system adds by itself.
ReadbackOK(pol, as, found) ==
    /\ found \ {"selinux"} = Target(pol, as) \ {"selinux"}
    /\ pol = "strict" /\ "selinux" \in as => "selinux" \in found

-----------------------------------------------------------------------------
(* Execute. *)

Init ==
    /\ scene \in Scenes
    /\ intent \in {f \in [Procs -> IntentSet] :
                     \A p \in Procs : IF p \in scene.procs THEN f[p] \in scene.intents ELSE f[p] = "create-only"}
    /\ policy \in {f \in [Procs -> PolicySet] :
                     \A p \in Procs : IF p \in scene.procs THEN f[p] \in scene.policies ELSE f[p] = "strip"}
    /\ breakLinks \in {f \in [Procs -> BOOLEAN] : \A p \in Procs \ scene.procs : ~f[p]}
    /\ link = [n \in Paths |-> IF n = "src" THEN Orig ELSE NoFile]
    /\ disk = link
    /\ data = [i \in Inodes |-> <<>>]
    /\ state = [i \in Inodes |-> IF i = Orig THEN "synced" ELSE "absent"]
    /\ mtime = [i \in Inodes |-> 0]
    /\ \E as \in IF scene.plain THEN {{"x"}} ELSE SUBSET Features : attrs = [i \in Inodes |-> IF i = Orig THEN as ELSE {}]
    /\ staged = [p \in Procs |-> FALSE]
    /\ lock = [i \in Inodes |-> NoFile]
    /\ pc = [p \in Procs |-> IF p \in scene.procs THEN "start" ELSE "absent"]
    /\ snap = [p \in Procs |-> NoSnap]
    /\ lockfd = [p \in Procs |-> NoFile]
    /\ error = [p \in Procs |-> "none"]
    /\ outside = 0
    /\ raced = [p \in Procs |-> FALSE]

\* The caller opens the source; TakeSourceSnapshot and ValidateSnapshot look
\* at the open file.
TakeSourceSnapshot(p) ==
    LET i == link["src"]
    IN  /\ pc[p] = "start"
        /\ IF i = NoFile THEN Fail(p, "other")
           ELSE IF Unsafe(policy[p], attrs[i]) THEN Fail(p, "ErrUnsafeMetadata")
           ELSE /\ snap' = [snap EXCEPT ![p] = [ino |-> i, mtime |-> mtime[i],
                                                nlink |-> Nlink(i), attrs |-> attrs[i]]]
                /\ Goto(p, "match")
                /\ UNCHANGED <<request, names, inodes, staged, lock, lockfd, error, outside, raced>>

\* resolveTargetAndSnapshot: the path must still name the open file.
ResolveTarget(p) ==
    /\ pc[p] = "match"
    /\ IF link["src"] # snap[p].ino THEN Fail(p, "ErrSourceModified")
       ELSE IF intent[p] = "replace-source" /\ snap[p].nlink > 1 /\ ~breakLinks[p]
            THEN Fail(p, "ErrHardLinkDetected")
       ELSE /\ Goto(p, IF intent[p] = "replace-source" THEN "lockopen" ELSE "stage")
            /\ UNCHANGED <<request, names, inodes, staged, lock, snap, lockfd, error, outside, raced>>

\* acquireAdvisoryLock: open whatever the path names by now ...
LockOpen(p) ==
    /\ pc[p] = "lockopen"
    /\ IF link["src"] = NoFile THEN Fail(p, "other")
       ELSE /\ lockfd' = [lockfd EXCEPT ![p] = link["src"]]
            /\ Goto(p, "lock")
            /\ UNCHANGED <<request, names, inodes, staged, lock, snap, error, outside, raced>>

\* ... and try to lock that inode without waiting.
LockTry(p) ==
    /\ pc[p] = "lock"
    /\ IF lock[lockfd[p]] # NoFile THEN Fail(p, "ErrConcurrentTransformation")
       ELSE /\ lock' = [lock EXCEPT ![lockfd[p]] = p]
            /\ Goto(p, "stage")
            /\ UNCHANGED <<request, names, inodes, staged, snap, lockfd, error, outside, raced>>

\* CreateTemp in the destination directory, chmod 0600, ACLs stripped.
CreateStaged(p) ==
    /\ pc[p] = "stage"
    /\ \/ CanFail("io") /\ Fail(p, "other")
       \/ /\ staged' = [staged EXCEPT ![p] = TRUE]
          /\ state' = [state EXCEPT ![p] = "partial"]
          /\ Goto(p, "transform")
          /\ UNCHANGED <<request, names, data, mtime, attrs, lock, snap, lockfd, error, outside, raced>>

\* The callback reads the open source and writes the staged file.
Transform(p) ==
    /\ pc[p] = "transform"
    /\ \/ CanFail("transform") /\ Fail(p, "other")
       \/ /\ data' = [data EXCEPT ![p] = Append(data[snap[p].ino], p)]
          /\ state' = [state EXCEPT ![p] = "unsynced"]
          /\ Goto(p, "apply")
          /\ UNCHANGED <<request, names, mtime, attrs, staged, lock, snap, lockfd, error, outside, raced>>

\* applyMetadata: chown, setxattr, chmod.  "drift": the system gives the file
\* one more or one fewer attribute than it was asked for.
ApplyMetadata(p) ==
    LET t == Target(policy[p], snap[p].attrs)
    IN  /\ pc[p] = "apply"
        /\ \/ CanFail("metadata") /\ Fail(p, "other")
           \/ /\ \/ attrs' = [attrs EXCEPT ![p] = t]
                 \/ /\ CanFail("drift")
                    /\ \E f \in Features :
                          attrs' = [attrs EXCEPT ![p] = (t \cup {f}) \ (t \cap {f})]
              /\ Goto(p, "verify")
              /\ UNCHANGED <<request, names, data, state, mtime, staged, lock, snap, lockfd, error,
                             outside, raced>>

VerifyReadback(p) ==
    /\ pc[p] = "verify"
    /\ IF ~ReadbackOK(policy[p], snap[p].attrs, attrs[p]) THEN Fail(p, "ErrReadbackVerification")
       ELSE /\ Goto(p, "sync")
            /\ UNCHANGED <<request, names, inodes, staged, lock, snap, lockfd, error, outside, raced>>

\* staged.Sync() and Close(), before any publication.
SyncStaged_Skipped(p) ==
    /\ pc[p] = "sync"
    /\ Goto(p, IF intent[p] = "replace-source" THEN "check" ELSE "noreplace")
    /\ UNCHANGED <<request, names, inodes, staged, lock, snap, lockfd, error, outside, raced>>

SyncStaged(p) ==
    /\ pc[p] = "sync"
    /\ \/ CanFail("io") /\ Fail(p, "other")
       \/ /\ state' = [state EXCEPT ![p] = "synced"]
          /\ Goto(p, IF intent[p] = "replace-source" THEN "check" ELSE "noreplace")
          /\ UNCHANGED <<request, names, data, mtime, attrs, staged, lock, snap, lockfd, error,
                         outside, raced>>

\* publishTransaction in place: stat the target again ...
CheckSource_InodeOnly(p) ==
    /\ pc[p] = "check"
    /\ IF link["src"] # snap[p].ino THEN Fail(p, "ErrSourceModified")
       ELSE /\ Goto(p, "rename")
            /\ UNCHANGED <<request, names, inodes, staged, lock, snap, lockfd, error, outside, raced>>

CheckSource_AnyLink(p) ==
    /\ pc[p] = "check"
    /\ IF link["src"] # snap[p].ino \/ mtime[snap[p].ino] # snap[p].mtime
       THEN Fail(p, "ErrSourceModified")
       ELSE IF Nlink(snap[p].ino) >= 1 /\ ~breakLinks[p] THEN Fail(p, "ErrHardLinkDetected")
       ELSE /\ Goto(p, "rename")
            /\ UNCHANGED <<request, names, inodes, staged, lock, snap, lockfd, error, outside, raced>>

CheckSource(p) ==
    /\ pc[p] = "check"
    /\ IF link["src"] # snap[p].ino \/ mtime[snap[p].ino] # snap[p].mtime
       THEN Fail(p, "ErrSourceModified")
       ELSE IF Nlink(snap[p].ino) > 1 /\ ~breakLinks[p] THEN Fail(p, "ErrHardLinkDetected")
       ELSE /\ Goto(p, "rename")
            /\ UNCHANGED <<request, names, inodes, staged, lock, snap, lockfd, error, outside, raced>>

\* ... and rename over it.
Rename(p) ==
    /\ pc[p] = "rename"
    /\ \/ CanFail("io") /\ Fail(p, "other")
       \/ /\ link' = [link EXCEPT !["src"] = p]
          /\ staged' = [staged EXCEPT ![p] = FALSE]
          /\ raced' = [q \in Procs |-> raced[q] \/ (raced[p] /\ pc[q] = "rename")]
          /\ Goto(p, "dirsync")
          /\ UNCHANGED <<request, disk, inodes, lock, snap, lockfd, error, outside>>

\* publishCreateOnly: renameat2 with RENAME_NOREPLACE.
RenameNoReplace(p) ==
    /\ pc[p] = "noreplace"
    /\ \/ CanFail("io") /\ Fail(p, "other")
       \/ /\ CanFail("norename2")
          /\ Goto(p, "link")
          /\ UNCHANGED <<request, names, inodes, staged, lock, snap, lockfd, error, outside, raced>>
       \/ IF link["dst"] # NoFile THEN Fail(p, "ErrDestinationExists")
          ELSE /\ link' = [link EXCEPT !["dst"] = p]
               /\ staged' = [staged EXCEPT ![p] = FALSE]
               /\ Goto(p, "dirsync")
               /\ UNCHANGED <<request, disk, inodes, lock, snap, lockfd, error, outside, raced>>

\* The fallback where the filesystem lacks RENAME_NOREPLACE: link, which never
\* replaces, ...
LinkDest_Retries(p) ==
    /\ pc[p] = "link"
    /\ IF link["dst"] # NoFile
       THEN Goto(p, "noreplace") /\ UNCHANGED link
       ELSE Goto(p, "unstage") /\ link' = [link EXCEPT !["dst"] = p]
    /\ UNCHANGED <<request, disk, inodes, staged, lock, snap, lockfd, error, outside, raced>>

LinkDest(p) ==
    /\ pc[p] = "link"
    /\ \/ CanFail("io") /\ Fail(p, "other")
       \/ IF link["dst"] # NoFile THEN Fail(p, "ErrDestinationExists")
          ELSE /\ link' = [link EXCEPT !["dst"] = p]
               /\ Goto(p, "unstage")
               /\ UNCHANGED <<request, disk, inodes, staged, lock, snap, lockfd, error, outside, raced>>

\* ... then a best-effort removal of the staging name.
RemoveStaged(p) ==
    /\ pc[p] = "unstage"
    /\ Goto(p, "dirsync")
    /\ DropStaged(p)
    /\ UNCHANGED <<request, names, inodes, lock, snap, lockfd, error, outside, raced>>

\* Seeded bug: success is reported without the sync.
SyncDirectory_Skipped(p) ==
    /\ pc[p] = "dirsync"
    /\ Unlock(p)
    /\ Goto(p, "done")
    /\ UNCHANGED <<request, names, inodes, staged, snap, lockfd, error, outside, raced>>

\* syncDirectory, the return and the deferred unlock.  A failed sync reports
\* ErrDurabilitySyncFailed although the file is published.
SyncDirectory(p) ==
    /\ pc[p] = "dirsync"
    /\ Unlock(p)
    /\ \/ /\ disk' = [disk EXCEPT ![Dest(p)] = link[Dest(p)]]
          /\ Goto(p, "done")
          /\ UNCHANGED error
       \/ /\ CanFail("dirsync")
          /\ Goto(p, "undurable")
          /\ error' = [error EXCEPT ![p] = "ErrDurabilitySyncFailed"]
          /\ UNCHANGED disk
    /\ UNCHANGED <<request, link, inodes, staged, snap, lockfd, outside, raced>>

-----------------------------------------------------------------------------
(* The environment. *)

\* The process dies: the kernel drops its lock, nothing is cleaned up.
Kill(p) ==
    /\ CanFail("kill")
    /\ pc[p] \notin Terminal \cup {"start"}
    /\ Goto(p, "crashed")
    /\ Unlock(p)
    /\ UNCHANGED <<request, names, inodes, staged, snap, lockfd, error, outside, raced>>

\* The filesystem writes a directory entry back on its own.
WriteBack(n) ==
    /\ disk[n] # link[n]
    /\ disk' = [disk EXCEPT ![n] = link[n]]
    /\ UNCHANGED <<request, link, inodes, staged, lock, pc, snap, lockfd, error, outside, raced>>

\* Every running process dies, names fall back to what reached the disk, and
\* content that was not flushed is lost.
PowerLoss ==
    /\ CanFail("power")
    /\ \E p \in Procs : pc[p] \notin Terminal \cup {"start"} \/ disk # link
    /\ link' = disk
    /\ state' = [i \in Inodes |-> IF state[i] \in {"partial", "unsynced"} THEN "torn" ELSE state[i]]
    /\ staged' = [p \in Procs |-> staged[p] \/ \E n \in Paths : link[n] = p /\ disk[n] # p]
    /\ lock' = [i \in Inodes |-> NoFile]
    /\ pc' = [p \in Procs |-> IF pc[p] \in Terminal \cup {"start"} THEN pc[p] ELSE "crashed"]
    /\ UNCHANGED <<request, disk, data, mtime, attrs, snap, lockfd, error, outside, raced>>

\* Deployers, who take no lock: they write the deployed file in place, replace
\* or unlink it, give it a second name, move it aside and back, or put a file at
\* the destination.
Deploy_Overwrite ==
    /\ link["src"] # NoFile
    /\ data' = [data EXCEPT ![link["src"]] = <<Ext>>]
    /\ mtime' = [mtime EXCEPT ![link["src"]] = @ + 1]
    /\ UNCHANGED <<names, state, attrs>>

Deploy_Put(n) ==
    /\ state[Ext] = "absent"
    /\ n = "dst" => link[n] = NoFile
    /\ state' = [state EXCEPT ![Ext] = "synced"]
    /\ data' = [data EXCEPT ![Ext] = <<Ext>>]
    /\ attrs' = [attrs EXCEPT ![Ext] = {"x"}]
    /\ link' = [link EXCEPT ![n] = Ext]
    /\ disk' = [disk EXCEPT ![n] = Ext]
    /\ UNCHANGED mtime

Deploy_Unlink ==
    /\ link["src"] # NoFile
    /\ link' = [link EXCEPT !["src"] = NoFile]
    /\ UNCHANGED <<disk, inodes>>

Deploy_HardLink ==
    /\ link["src"] # NoFile /\ link["alias"] = NoFile
    /\ link' = [link EXCEPT !["alias"] = link["src"]]
    /\ UNCHANGED <<disk, inodes>>

\* A rename between two names of one inode does nothing.
Deploy_Move(from, to) ==
    /\ link[from] # NoFile /\ link[from] # link[to]
    /\ link' = [link EXCEPT ![to] = link[from], ![from] = NoFile]
    /\ UNCHANGED <<disk, inodes>>

Deploy ==
    /\ outside < scene.outside
    /\ \/ Deploy_Overwrite \/ Deploy_Put("src") \/ Deploy_Put("dst") \/ Deploy_Unlink
       \/ Deploy_HardLink \/ Deploy_Move("src", "alias") \/ Deploy_Move("alias", "src")
    /\ outside' = outside + 1
    /\ raced' = [p \in Procs |-> raced[p] \/ pc[p] = "rename"]
    /\ UNCHANGED <<request, staged, lock, pc, snap, lockfd, error>>

Ended == \A p \in Procs : pc[p] \in Terminal

Step(p) ==
    \/ TakeSourceSnapshot(p) \/ ResolveTarget(p) \/ LockOpen(p) \/ LockTry(p) \/ CreateStaged(p)
    \/ Transform(p) \/ ApplyMetadata(p) \/ VerifyReadback(p) \/ SyncStaged(p) \/ CheckSource(p)
    \/ Rename(p) \/ RenameNoReplace(p) \/ LinkDest(p) \/ RemoveStaged(p) \/ SyncDirectory(p)

Next ==
    \/ \E p \in Procs : Step(p) \/ Kill(p)
    \/ \E n \in Paths : WriteBack(n)
    \/ PowerLoss
    \/ Deploy
    \/ Ended /\ UNCHANGED vars

\* Nothing in Execute waits: every system call returns.
Spec == Init /\ [][Next]_vars /\ \A p \in Procs : WF_vars(Step(p))

-----------------------------------------------------------------------------
(* Properties. *)

\* All or nothing: whatever happens, power loss included, a path names a file whose
\* content is complete and flushed (publishTransaction comes after staged.Sync()), and
\* a transaction that returned an error before publishing left no name and no lock, and
\* no staged file either unless the removal itself failed.
AllOrNothing ==
    /\ \A n \in Paths : {link[n], disk[n]} \subseteq {i \in Inodes : state[i] = "synced"} \cup {NoFile}
    /\ \A p \in Procs : pc[p] = "failed" =>
          /\ staged[p] => CanFail("remove")
          /\ \A n \in Paths : p \notin {link[n], disk[n]}
          /\ \A i \in Inodes : lock[i] # p

\* A published derivative carries exactly the attributes of the source that was
\* snapshot, or exactly an executable bit under strip, but for an SELinux label
\* of the system's choice; and never an elevated bit, a capability, an integrity
\* claim or an ACL, whatever happened to the staged file before verifyReadback.
DerivativeMetadata ==
    \A p \in Procs : (\E n \in Paths : link[n] = p) =>
        LET expected == IF policy[p] = "strict" THEN snap[p].attrs ELSE {"x"}
        IN  /\ attrs[p] \in {expected, expected \cup {"selinux"}}
            /\ attrs[p] \cap {"setid", "cap", "ima", "acl"} = {}

\* What a path names is sound: complete, flushed, and with the metadata of its source.
PublishedIsSound == AllOrNothing /\ DerivativeMetadata

\* Other people's files are safe.  A replacement publishes the transformation of
\* exactly the content it replaces, and severs a hard link only on request: the
\* recheck in publishTransaction leaves deployers only the window before the rename,
\* and only a transaction raced in that window can disturb another one.  And an
\* existing destination is never replaced by a create-only transaction, on either
\* path of publishCreateOnly; only a power loss may take back an entry that was not
\* durable yet.
ReplacesOnlyWhatItRead ==
    [][/\ \A p \in Procs :
             pc[p] = "rename" /\ pc'[p] = "dirsync" /\ ~raced[p] =>
                /\ link["src"] # NoFile
                /\ data[p] = Append(data[link["src"]], p)
                /\ Nlink(link["src"]) = 1 \/ breakLinks[p]
       /\ link["dst"] # NoFile => link'["dst"] \in {link["dst"], disk["dst"]}]_vars

\* Among transactions, without deployers, the deployed file is a history in
\* which no update is lost and no reported success is taken back: the flock
\* and the recheck order them although each locks the inode it found.
History == INSTANCE DurableHistory WITH
    Writers <- Procs,
    history <- IF scene.outside = 0 THEN data[link["src"]] ELSE <<>>,
    durable <- IF scene.outside = 0 THEN data[disk["src"]] ELSE <<>>,
    reported <- {p \in Procs : scene.outside = 0 /\ intent[p] = "replace-source" /\ pc[p] = "done"}

IsDurableHistory == History!HSpec

\* In-place transactions never all give up in favour of each other: without
\* deployers, when all have ended, one was not refused because of a lock, a
\* change or a link that another transaction made.
SomeoneSucceeds ==
    Ended /\ outside = 0 /\ (\E p \in Procs : intent[p] = "replace-source") =>
        \E p \in Procs :
            /\ intent[p] = "replace-source"
            /\ error[p] \notin {"ErrConcurrentTransformation", "ErrSourceModified", "ErrHardLinkDetected"}

\* Every call of Execute returns, whatever the other transactions and deployers do.
Termination == <>Ended
=============================================================================
