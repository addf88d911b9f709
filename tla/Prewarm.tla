------------------------------ MODULE Prewarm -------------------------------
(***************************************************************************)
(* Commands that prepare the payload cache ahead of a launch: "microfat    *)
(* prewarm", which can also plan or verify, and the launcher's own         *)
(* --microfat:prewarm (cmd/microfat/prewarm.go, meta_full.go of            *)
(* cmd/microfat-stub, prewarm_plan.go and pack.go of internal/pack).       *)
(* Several of them, and other processes, work on the same directories.     *)
(* One step looks at or publishes one entry; the steps inside a            *)
(* publication are those of CacheDispatch.                                 *)
(*                                                                         *)
(* A level is a pair <<spelling, level>>.  A directory has a kind, an      *)
(* owner, permissive write bits, an operation that fails on it, and a      *)
(* state for each digest.                                                  *)
(***************************************************************************)
EXTENDS Microarch, FiniteSetsExt, SequencesExt

CONSTANTS Procs,      \* the commands of a scene
          Digests, SizeOf(_),   \* payload digests and how many bytes have them
          Decoders,   \* codecs this build can decode
          Scenes      \* a tuple of sets of scenes

VARIABLES
    scene,    \* the image, the environment, the commands, and what may go wrong
    disk,     \* directories by name
    at,       \* at[p]: the next step of command p
    todo,     \* todo[p]: the variants it has still to look at
    dir,      \* dir[p]: the cache directory it uses
    results,  \* results[p]: what it has found out or prepared, in order
    err,      \* err[p]: how it ended
    wrote,    \* wrote[p]: the digests it published
    epoch,    \* changes of the disk so far
    span,     \* span[p]: the epochs it ran from and to, and its own changes
    before,   \* before[p]: the commands that had ended when it started
    edits     \* changes by other processes so far

vars == <<scene, disk, at, todo, dir, results, err, wrote, epoch, span, before, edits>>

NoDir == ""
NoCap == -1

Image == scene.image
Command(p) == scene.commands[p]
Entry(i) == Image.variants[i]

Init ==
    /\ \E i \in DOMAIN Scenes : scene \in Scenes[i]
    /\ disk = scene.disk
    /\ at = [p \in Procs |-> IF p \in DOMAIN scene.commands THEN "start" ELSE "done"]
    /\ todo = [p \in Procs |-> <<>>] /\ dir = [p \in Procs |-> NoDir] /\ results = [p \in Procs |-> <<>>]
    /\ err = [p \in Procs |-> ""] /\ wrote = [p \in Procs |-> {}]
    /\ epoch = 0 /\ span = [p \in Procs |-> [from |-> 0, to |-> 0, own |-> 0]]
    /\ before = [p \in Procs |-> {}] /\ edits = 0

-----------------------------------------------------------------------------
(* Cache directories (internal/format). *)

Resolved(e, d, newDisk) == [err |-> e, dir |-> d, disk |-> newDisk]

\* prepareCacheDir; a file in the way, or a parent that cannot be written, is an error.
PrepareCacheDir(dk, d, materialize) ==
    IF ~materialize \/ dk[d].kind \in {"dir", "link"} THEN Resolved("none", d, dk)
    ELSE IF dk[d].kind = "file" \/ dk[d].fails = "mkdir" THEN Resolved("mkdir", NoDir, dk)
    ELSE Resolved("none", d, [dk EXCEPT ![d].kind = "dir", ![d].mine = TRUE, ![d].loose = FALSE])

\* Write permission for others is taken away on the open descriptor where that is allowed.
OpenAndValidateCacheDir(dk, d, remediate) ==
    LET found == dk[d]
    IN  IF found.kind = "missing" THEN Resolved("absent", NoDir, dk)
        ELSE IF found.kind # "dir" THEN Resolved("insecure", NoDir, dk)
        ELSE IF found.fails = "open" THEN Resolved("unavailable", NoDir, dk)
        ELSE IF ~found.mine THEN Resolved("insecure", NoDir, dk)
        ELSE IF ~found.loose THEN Resolved("none", d, dk)
        ELSE IF ~remediate THEN Resolved("insecure", NoDir, dk)
        ELSE IF found.fails = "chmod" THEN Resolved("unavailable", NoDir, dk)
        ELSE Resolved("none", d, [dk EXCEPT ![d].loose = FALSE])

\* One candidate: it is prepared, then opened.
TryCacheDir(dk, d, materialize, remediate) ==
    LET prepared == PrepareCacheDir(dk, d, materialize)
    IN  IF prepared.err # "none" THEN prepared ELSE OpenAndValidateCacheDir(prepared.disk, d, remediate)

\* The directory that was asked for: by the caller, else by the environment.
Explicit(custom) == IF custom # NoDir THEN custom ELSE scene.env.cacheDir

Candidates ==
    (IF scene.env.xdg # NoDir THEN <<scene.env.xdg>> ELSE IF scene.env.home # NoDir THEN <<scene.env.home>> ELSE <<>>)
        \o <<scene.env.tmp>>

ResolveCacheDir_NoFallback(dk, custom, materialize) ==
    LET d == Explicit(custom)
        try(r, c) == IF r.err = "none" THEN r ELSE TryCacheDir(r.disk, c, materialize, materialize)
    IN  IF d # NoDir THEN TryCacheDir(dk, d, materialize, FALSE)
        ELSE IF ~materialize THEN TryCacheDir(dk, Head(Candidates), FALSE, FALSE)
        ELSE FoldLeft(try, Resolved("init", NoDir, dk), Candidates)

\* resolveCacheDirFD: an explicit directory is taken as it is or refused, the
\* candidates are tried in order and put right where possible.
ResolveCacheDir(dk, custom, materialize) ==
    LET d == Explicit(custom)
        try(r, c) == IF r.err = "none" THEN r
                     ELSE LET t == TryCacheDir(r.disk, c, materialize, materialize)
                          IN  IF t.err = "none" THEN t ELSE Resolved("init", NoDir, t.disk)
    IN  IF d # NoDir THEN TryCacheDir(dk, d, materialize, FALSE)
        ELSE FoldLeft(try, Resolved("init", NoDir, dk), Candidates)

-----------------------------------------------------------------------------
(* Cache entries (internal/cache). *)

\* OpenAndValidateVariantAtFD of entry e in an open directory: size and digest
\* are those of what the entry holds.
OpenAndValidateVariant(d, e) ==
    LET state == disk[d].entries[e.sha]
    IN  CASE state = "missing" -> "absent"
          [] state = "unsafe"  -> "unsafe"
          [] state = "locked"  -> "error"
          [] state = "good"    -> IF e.size = SizeOf(e.sha) THEN "ok" ELSE "corrupt"
          [] OTHER             -> "corrupt"

\* classifyObservationError.
Classify(e) ==
    CASE e \in {"unsafe", "insecure"} -> "unsafe"
      [] e = "absent"  -> "missing"
      [] e = "corrupt" -> "corrupt_safe"
      [] OTHER         -> "unavailable"

\* ObserveVariant: the directory is looked up for each entry, and stays named
\* when it was asked for but cannot be used.
ObserveVariant(custom, e) ==
    LET r == ResolveCacheDir(disk, custom, FALSE)
        v == OpenAndValidateVariant(r.dir, e)
    IN  IF r.err # "none" THEN [status |-> Classify(r.err), path |-> Explicit(custom)]
        ELSE [status |-> IF v = "ok" THEN "valid" ELSE Classify(v), path |-> r.dir]

\* VerifyVariant in the directory that was resolved before.
VerifyVariant(d, e) ==
    LET r == OpenAndValidateCacheDir(disk, d, FALSE)
        v == IF r.err = "none" THEN OpenAndValidateVariant(d, e) ELSE r.err
    IN  [status |-> IF v = "ok" THEN "valid" ELSE IF v = "absent" THEN "missing" ELSE "corrupted",
         path |-> r.dir]

-----------------------------------------------------------------------------
(* Admission. *)

\* FindVariant: the entry of a level, however it is spelled.
FindVariant(level) == {i \in DOMAIN Image.variants : Normalize(Entry(i).level) = Normalize(level)}

\* A digest counts once.
UniqueBytes(indices) ==
    LET first == {i \in indices : \A j \in indices : Entry(j).sha = Entry(i).sha => i <= j}
    IN  MapThenSumSet(LAMBDA i : Entry(i).size, first)

Conflict(indices) == \E i, j \in indices : Entry(i).sha = Entry(j).sha /\ Entry(i).size # Entry(j).size

SelectPrewarmVariants_ZeroIsNoCap(indices, cap) ==
    CASE Conflict(indices) -> "accounting"
      [] ~Conflict(indices) /\ cap > 0 /\ UniqueBytes(indices) > cap -> "limit"
      [] OTHER -> "none"

\* selectPrewarmVariants, ValidatePrewarmAdmission: a cap of zero admits nothing.
SelectPrewarmVariants(indices, cap) ==
    CASE Conflict(indices) -> "accounting"
      [] ~Conflict(indices) /\ cap # NoCap /\ UniqueBytes(indices) > cap -> "limit"
      [] OTHER -> "none"

\* The variant selected for this host, if there is one (module Microarch).
HostVariant == IF scene.selected = NoLevel THEN {} ELSE FindVariant(scene.selected)

\* selectLevels of the command line, {} for an error.
SelectLevels(c) ==
    IF c.all THEN DOMAIN Image.variants ELSE IF c.level # NoLevel THEN FindVariant(c.level) ELSE HostVariant

\* parsePrewarmArgs of the launcher on the words behind "=", {} for an error.
ParsePrewarmArgs(words) ==
    LET named == {w \in ToSet(words) : Normalize(w) \notin {"verify", "all", "json", ""}}
        every == \E w \in ToSet(words) : Normalize(w) = "all"
        levels == UNION {FindVariant(w) : w \in named} \cup (IF every THEN DOMAIN Image.variants ELSE {})
    IN  IF \E w \in named : FindVariant(w) = {} THEN {} ELSE IF levels # {} THEN levels ELSE HostVariant

\* readPrewarmDictionary: the image has none, or its digest is right.
ReadPrewarmDictionary == Image.dict # "damaged"

Asked(c) == IF c.by = "cli" THEN SelectLevels(c) ELSE ParsePrewarmArgs(c.words)

\* The launcher verifies when a word says so, or a flag behind it.
Does(c) ==
    IF c.by = "stub" /\ \E w \in ToSet(c.words) : Normalize(w) = "verify" THEN "verify" ELSE c.does

\* parsePrewarmLimit: without the option there is no cap; the launcher has none.
CapOf(c) == IF c.by = "cli" /\ c.limit = "given" THEN c.cap ELSE NoCap

Custom(c) == IF c.by = "cli" THEN c.dir ELSE NoDir

-----------------------------------------------------------------------------
(* Steps of a command. *)

Changes(newDisk) ==
    /\ disk' = newDisk
    /\ epoch' = IF newDisk # disk THEN epoch + 1 ELSE epoch

\* Keeps the span up to date: own counts the changes of p itself.
Ran(p) ==
    span' = [span EXCEPT ![p] = [from |-> IF at[p] = "start" THEN epoch ELSE @.from, to |-> epoch', own |-> @.own + (epoch' - epoch)]]

Goto(p, stage) == at' = [at EXCEPT ![p] = stage] /\ Ran(p) /\ UNCHANGED err
End(p, e) == at' = [at EXCEPT ![p] = "done"] /\ err' = [err EXCEPT ![p] = e] /\ Ran(p)

Refuse(p, e) == End(p, e) /\ UNCHANGED <<todo, dir>>

\* The options are checked and the variants selected.  The command line admits
\* the selection, and unless it verifies reads the dictionary, before it looks
\* for a directory; the launcher finds its directory first.
Start(p) ==
    LET c == Command(p)
        admitted == IF c.by = "cli" THEN SelectPrewarmVariants(Asked(c), CapOf(c)) ELSE "none"
    IN  /\ at[p] = "start" /\ \A q \in scene.order[p] : at[q] = "done"
        /\ before' = [before EXCEPT ![p] = {q \in DOMAIN scene.commands : at[q] = "done"}]
        /\ UNCHANGED <<scene, disk, results, wrote, epoch, edits>>
        /\ IF c.by = "cli" /\ c.limit = "bad" THEN Refuse(p, "usage")
           ELSE IF ~Image.fat THEN Refuse(p, "format")
           ELSE IF Asked(c) = {} THEN Refuse(p, "level")
           ELSE IF admitted # "none" THEN Refuse(p, admitted)
           ELSE IF c.by = "cli" /\ Does(c) # "verify" /\ ~ReadPrewarmDictionary THEN Refuse(p, "dictionary")
           ELSE /\ todo' = [todo EXCEPT ![p] = SetToSortSeq(Asked(c), <)]
                /\ dir' = [dir EXCEPT ![p] = Custom(c)]
                /\ Goto(p, CASE Does(c) = "plan" -> "plan"
                             [] Does(c) = "prewarm" /\ Custom(c) # NoDir -> "check"
                             [] OTHER -> "resolve")

\* The directory is resolved once; prewarming creates or repairs it.  The
\* launcher then selects the entries and reads the dictionary.
Resolve(p) ==
    LET c == Command(p)
        r == ResolveCacheDir(disk, Custom(c), Does(c) = "prewarm")
        extracts == c.by = "stub" /\ Does(c) = "prewarm"
    IN  /\ at[p] = "resolve"
        /\ Changes(r.disk)
        /\ IF r.err # "none" THEN Refuse(p, "directory")
           ELSE IF extracts /\ SelectPrewarmVariants(Asked(c), NoCap) # "none" THEN Refuse(p, "accounting")
           ELSE IF extracts /\ ~ReadPrewarmDictionary THEN Refuse(p, "dictionary")
           ELSE /\ dir' = [dir EXCEPT ![p] = r.dir]
                /\ Goto(p, IF Does(c) = "verify" THEN "verify" ELSE "check")
                /\ UNCHANGED todo
        /\ UNCHANGED <<scene, results, wrote, before, edits>>

Result(e, o, possible, can) ==
    [sha |-> e.sha, size |-> e.size, status |-> o.status, path |-> o.path, possible |-> possible, can |-> can]

\* The variant in hand has its result.
Completed(p, result, stage) ==
    /\ results' = [results EXCEPT ![p] = Append(@, result)]
    /\ todo' = [todo EXCEPT ![p] = Tail(@)]
    /\ Goto(p, stage)

HasDecoder(e) == e.codec \in Decoders

\* One pass of PlanPrewarmBinary: a digest is observed once, and one that an
\* earlier level would prepare can be reused.
PlanEntry(p) ==
    LET e == Entry(Head(todo[p]))
        same == SelectSeq(results[p], LAMBDA r : r.sha = e.sha)
        o == IF same = <<>> THEN ObserveVariant(Custom(Command(p)), e) ELSE [status |-> same[1].status, path |-> same[1].path]
        possible == HasDecoder(e) /\ o.status \in {"valid", "missing", "corrupt_safe"}
        reuse == \E r \in ToSet(same) : r.possible
    IN  /\ at[p] = "plan" /\ todo[p] # <<>>
        /\ UNCHANGED <<scene, disk, dir, wrote, epoch, before, edits>>
        /\ Completed(p, Result(e, o, possible, o.status = "valid" \/ possible \/ reuse), "plan")

PlanBytes_PerLevel(p, states) ==
    FoldLeft(LAMBDA sum, r : IF r.status \in states THEN sum + r.size ELSE sum, 0, results[p])

\* The totals of a plan: the bytes of its digests in one of these states.
PlanBytes(p, states) ==
    MapThenSumSet(LAMBDA r : r[2], {<<r.sha, r.size>> : r \in {x \in ToSet(results[p]) : x.status \in states}})

VerifyEntry(p) ==
    LET e == Entry(Head(todo[p]))
        v == VerifyVariant(dir[p], e)
        valid == v.status = "valid"
    IN  /\ at[p] = "verify" /\ todo[p] # <<>>
        /\ UNCHANGED <<scene, disk, dir, wrote, epoch, before, edits>>
        /\ Completed(p, Result(e, v, valid, valid), "verify")

Prepared(p, e) == Result(e, [status |-> "valid", path |-> dir[p]], TRUE, TRUE)

\* A failure of PrewarmVariantWithDict; the launcher drops the earlier results.
FailAt(p, e) ==
    /\ End(p, e)
    /\ results' = [results EXCEPT ![p] = IF Command(p).by = "cli" THEN @ ELSE <<>>]
    /\ UNCHANGED todo

\* PrewarmVariantWithDict up to the decision to extract.
CheckEntry(p) ==
    LET e == Entry(Head(todo[p]))
        r == ResolveCacheDir(disk, dir[p], TRUE)
        v == OpenAndValidateVariant(dir[p], e)
    IN  /\ at[p] = "check" /\ todo[p] # <<>>
        /\ Changes(r.disk)
        /\ IF r.err # "none" THEN FailAt(p, "directory")
           ELSE IF v = "ok" THEN Completed(p, Prepared(p, e), "check")
           ELSE IF v = "unsafe" THEN FailAt(p, "unsafe")
           ELSE IF ~HasDecoder(e) THEN FailAt(p, "codec")
           ELSE Goto(p, "publish") /\ UNCHANGED <<todo, results>>
        /\ UNCHANGED <<scene, dir, wrote, before, edits>>

\* MaterializeVariantAtFD up to the rename; the digest is compared before.
Publish(p) ==
    LET e == Entry(Head(todo[p]))
    IN  /\ at[p] = "publish"
        /\ \/ /\ OpenAndValidateVariant(dir[p], e) # "unsafe" /\ e.sound
              /\ Changes([disk EXCEPT ![dir[p]].entries[e.sha] = "good"])
              /\ wrote' = [wrote EXCEPT ![p] = @ \cup {e.sha}]
              /\ Goto(p, "reopen") /\ UNCHANGED <<todo, results>>
           \/ /\ OpenAndValidateVariant(dir[p], e) = "unsafe" \/ ~e.sound \/ scene.full
              /\ UNCHANGED <<disk, wrote, epoch>> /\ FailAt(p, "write")
        /\ UNCHANGED <<scene, dir, before, edits>>

\* ... and the entry is opened and validated again.  One that is not sound is
\* removed, unless the removal fails, which nobody is told.
Reopen(p) ==
    LET e == Entry(Head(todo[p]))
    IN  /\ at[p] = "reopen"
        /\ IF OpenAndValidateVariant(dir[p], e) = "ok"
           THEN UNCHANGED <<disk, epoch>> /\ Completed(p, Prepared(p, e), "check")
           ELSE /\ \E left \in {"missing", disk[dir[p]].entries[e.sha]} : Changes([disk EXCEPT ![dir[p]].entries[e.sha] = left])
                /\ FailAt(p, "write")
        /\ UNCHANGED <<scene, dir, wrote, before, edits>>

\* printPrewarmPlan, printPrewarmVerification and handlePrewarmVerify: the exit status.
PrintPrewarmPlan(found) == IF \A r \in found : r.can THEN "none" ELSE "entries"
PrintPrewarmVerification(found) == IF \A r \in found : r.status = "valid" THEN "none" ELSE "entries"

Finish(p) ==
    /\ at[p] \in {"plan", "verify", "check"} /\ todo[p] = <<>>
    /\ UNCHANGED <<scene, disk, todo, dir, results, wrote, epoch, before, edits>>
    /\ End(p, CASE at[p] = "plan"   -> PrintPrewarmPlan(ToSet(results[p]))
                [] at[p] = "verify" -> PrintPrewarmVerification(ToSet(results[p]))
                [] OTHER            -> "none")

\* Another process damages, removes or replaces an entry, or opens a directory to others.
Disturb ==
    /\ edits < scene.maxEdits
    /\ \E d \in {x \in DOMAIN disk : disk[x].kind = "dir"} :
          \/ \E h \in Digests, s \in {"missing", "corrupt", "unsafe", "locked"} :
                disk[d].entries[h] # s /\ disk' = [disk EXCEPT ![d].entries[h] = s]
          \/ ~disk[d].loose /\ disk' = [disk EXCEPT ![d].loose = TRUE]
    /\ edits' = edits + 1 /\ epoch' = epoch + 1
    /\ UNCHANGED <<scene, at, todo, dir, results, err, wrote, span, before>>

Step(p) ==
    Start(p) \/ Resolve(p) \/ PlanEntry(p) \/ VerifyEntry(p) \/ CheckEntry(p) \/ Publish(p) \/ Reopen(p) \/ Finish(p)

AllDone == \A p \in Procs : at[p] = "done"

Next ==
    \/ \E p \in Procs : Step(p)
    \/ Disturb /\ ~AllDone
    \/ AllDone /\ UNCHANGED vars

Spec == Init /\ [][Next]_vars

-----------------------------------------------------------------------------
(* Properties. *)

Ended(p, does) == p \in DOMAIN scene.commands /\ at[p] = "done" /\ Does(Command(p)) = does

\* q ran after p and nobody else changed the disk in between.
Follows(p, q) == p \in before[q] /\ span[q].to - span[p].from = span[p].own + span[q].own

SameSelection(p, q) == Asked(Command(p)) = Asked(Command(q)) /\ CapOf(Command(p)) = CapOf(Command(q))

NothingFails ==
    ~scene.full /\ (\A d \in DOMAIN disk : disk[d].fails = "none") /\ \A i \in DOMAIN Image.variants : Entry(i).sound

\* A plan tells what prewarming will do.  When the same selection is prewarmed
\* afterwards in the directory that was planned, nobody else changes the cache
\* from the start of the plan to the end of the prewarming, the file system
\* works and the payloads in the image are sound (a plan does not decode them),
\* then prewarming succeeds if the plan did, and extracts just the bytes the plan
\* says; a plan that fails on something else than an entry that could not be
\* looked at is right too (PlanPrewarmBinary, describePrewarmEntry and
\* PrewarmBinaryWithOptions).  What a plan is worth once the cache has changed
\* is no part of this: PreparedIsFound holds then, too.
PlanPredictsPrewarm ==
    \A p, q \in Procs :
        /\ Ended(p, "plan") /\ Ended(q, "prewarm") /\ Follows(p, q) /\ SameSelection(p, q) /\ NothingFails
        /\ results[p] # <<>> /\ \A r \in ToSet(results[p]) : r.path = dir[q]
        => /\ err[p] = "none" =>
                 err[q] = "none" /\ MapThenSumSet(SizeOf, wrote[q]) = PlanBytes(p, {"missing", "corrupt_safe"})
           /\ err[p] # "none" /\ (\A r \in ToSet(results[p]) : r.status # "unavailable") => err[q] # "none"

Refusals == {"usage", "format", "level", "limit", "accounting", "dictionary"}

\* What was prepared is found.  A later verification or plan that asks for the
\* same directory, or leaves the choice to the same environment, looks into the
\* directory that prewarming used and finds every entry it reported valid, also
\* when prewarming failed later on, had to create or repair the directory, or
\* moved on to the next candidate; and after a prewarming that succeeded it
\* succeeds itself on the same levels.  The cache may have changed before the
\* prewarming began: what an earlier plan saw is not taken for what is there
\* (resolveCacheDirFD, PrewarmVariantWithDict, VerifyCacheBinary).
PreparedIsFound ==
    \A q, r \in Procs :
        Ended(q, "prewarm") /\ (Ended(r, "verify") \/ Ended(r, "plan")) /\ Follows(q, r)
            /\ Explicit(Custom(Command(q))) = Explicit(Custom(Command(r)))
        => /\ \A x \in ToSet(results[q]), y \in ToSet(results[r]) :
                 x.sha = y.sha => y.status = "valid" /\ y.path = x.path
           /\ err[q] = "none" /\ Asked(Command(r)) \subseteq Asked(Command(q)) /\ err[r] \notin Refusals => err[r] = "none"

\* Only what was admitted is written.  A plan or a verification changes nothing,
\* nor does a command line that was refused; the payloads a command publishes
\* are ones it selected and fit under its cap; and a directory that somebody
\* named is never made tighter (ValidatePrewarmAdmission, ObserveVariant,
\* OpenAndValidateCacheDirFD).
OnlyAdmittedIsWritten ==
    \A p \in DOMAIN scene.commands :
        LET c == Command(p)
        IN  /\ Does(c) # "prewarm" => span[p].own = 0
            /\ c.by = "cli" /\ err[p] \in Refusals => span[p].own = 0
            /\ wrote[p] \subseteq {Entry(i).sha : i \in Asked(c)}
            /\ c.by = "cli" /\ CapOf(c) # NoCap => MapThenSumSet(SizeOf, wrote[p]) <= CapOf(c)
            /\ \A d \in DOMAIN disk \ ToSet(Candidates) : scene.disk[d].loose => disk[d].loose
=============================================================================
