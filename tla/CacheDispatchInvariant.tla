----------------------- MODULE CacheDispatchInvariant -----------------------
(* The inductive invariant of CacheDispatch, and that each step keeps the    *)
(* parts of it that are about the store and the descriptors.                *)
EXTENDS CacheDispatch, TLAPS, SequenceTheorems

-----------------------------------------------------------------------------
(* The inductive invariant. *)

\* A process has not published before its rename: nothing else can name its
\* staging inode, which it may therefore still write or discard.
Unpublished ==
    {"start", "lookup", "lookup_verify", "lookup_exec",
     "mem_budget", "mem_create", "mem_extract", "mem_seal", "mem_exec",
     "dir", "open", "verify", "unlink", "budget", "replace", "temp", "write", "sync", "rename"}

LookupStages == {"start", "lookup", "lookup_verify", "lookup_exec"}
MemfdStages == {"mem_budget", "mem_create", "mem_extract", "mem_seal", "mem_exec"}
MaterializeStages == {"open", "verify", "unlink", "budget", "replace", "temp", "write", "sync",
                      "rename", "reopen", "reverify", "drop", "exec"}
OpenedStages == {"lookup_verify", "lookup_exec", "verify", "reverify", "exec"}

StagingIsPrivate ==
    \A p \in Procs : pc[p] \in Unpublished =>
        /\ entry # p
        /\ \A q \in Procs : fd[q] # p
        /\ pc[p] = "rename" => file[p] = "good"

\* A staging file that could not be removed is reached by nobody.
LeftoverIsPrivate ==
    \A p \in Procs : tmp[p] = "stuck" => entry # p /\ \A q \in Procs : fd[q] # p

\* Only complete files are named by the digest or held open.
NamedIsComplete ==
    /\ entry \in Procs => file[entry] = "good"
    /\ \A q \in Procs : fd[q] \in Procs => file[fd[q]] = "good"

\* What process q holds, stage by stage: an open descriptor has been checked
\* before it can be executed, a memfd is sealed before it can be executed, a
\* staging file is in use only between its creation and its rename, and one that
\* could not be removed belongs to a process that reported a failure.
HoldsOf(q) ==
    /\ pc[q] \in OpenedStages => fd[q] \in Inodes
    /\ pc[q] \notin OpenedStages \cup {"running"} => fd[q] = NoFile
    /\ pc[q] \in {"lookup_exec", "exec"} => file[fd[q]] = "good"
    /\ pc[q] = "mem_exec" => mem[q] = "sealed"
    /\ pc[q] \notin MemfdStages \cup {"running", "crashed"} => mem[q] = "none"
    /\ tmp[q] = "staged" => pc[q] \in {"write", "sync", "rename", "crashed"}
    /\ tmp[q] = "stuck" => pc[q] = "failed" /\ CanFail("unlink")

Holds == \A q \in Procs : HoldsOf(q)

\* Two attempts, in order.
Both(s, x, y) == Len(s) = 2 /\ s[1] = x /\ s[2] = y

\* What a running process executed, and that it holds it.
RunningImage ==
    \A q \in Procs : pc[q] = "running" =>
        \/ /\ tried[q] = <<"cache">> \/ Both(tried[q], "memfd", "cache")
           /\ fd[q] \in Inodes
           /\ file[fd[q]] = "good"
        \/ /\ tried[q] = <<"memfd">> \/ Both(tried[q], "cache", "memfd")
           /\ mem[q] = "sealed"
           /\ fd[q] = NoFile

\* The execve calls and errors behind process q, stage by stage.
RouteOf(q) ==
    /\ pc[q] \in LookupStages => tried[q] = <<>> /\ errs[q] = <<>>
    /\ pc[q] \in LookupStages \ {"start"} => mode[q] = "auto"
    /\ pc[q] \in MemfdStages =>
          \/ mode[q] \in {"auto", "memfd"} /\ tried[q] = <<>> /\ errs[q] = <<>>
          \/ mode[q] = "auto" /\ tried[q] = <<"cache">> /\ errs[q] = <<"ErrExecve">>
    /\ pc[q] = "dir" =>
          \/ mode[q] \in {"cache", "prewarm"} /\ tried[q] = <<>> /\ errs[q] = <<>>
          \/ /\ mode[q] = "auto" /\ tried[q] = <<>>
             /\ errs[q] \in {<<"ErrMemfdCreate">>, <<"ErrMemfdSealingFailed">>}
          \/ mode[q] = "auto" /\ tried[q] = <<"memfd">> /\ errs[q] = <<"ErrExecve">>
    /\ pc[q] \in MaterializeStages =>
          \/ mode[q] # "memfd" /\ tried[q] = <<>>
          \/ mode[q] = "auto" /\ tried[q] = <<"memfd">>
    /\ pc[q] = "exec" => mode[q] # "prewarm"
    /\ pc[q] \in Terminal =>
          \/ tried[q] = <<>>
          \/ mode[q] \in {"auto", "cache"} /\ tried[q] = <<"cache">>
          \/ mode[q] \in {"auto", "memfd"} /\ tried[q] = <<"memfd">>
          \/ /\ mode[q] = "auto"
             /\ Both(tried[q], "cache", "memfd") \/ Both(tried[q], "memfd", "cache")

Route == \A q \in Procs : RouteOf(q)

\* An unsafe entry stops every process before a stage that could replace it.
UnsafeStops ==
    file[Old] = "unsafe" =>
        /\ entry = Old
        /\ \A q \in Procs :
              /\ pc[q] \notin {"lookup_exec", "unlink", "temp", "write", "sync",
                               "rename", "reopen", "reverify", "drop", "exec"}
              /\ fd[q] \in {Old, NoFile}

IInv ==
    /\ TypeOK /\ StagingIsPrivate /\ LeftoverIsPrivate /\ NamedIsComplete /\ Holds
    /\ RunningImage /\ Route /\ UnsafeStops


-----------------------------------------------------------------------------
(* Type correctness. *)

\* The names a step may write are labels, sentinels and paths.
LEMMA Names ==
    /\ {"lookup", "lookup_verify", "lookup_exec", "mem_budget", "mem_create", "mem_extract",
         "mem_seal", "mem_exec", "dir", "open", "verify", "unlink", "budget", "replace", "temp",
         "write", "sync", "rename", "reopen", "reverify", "drop", "exec",
         "running", "failed", "done", "crashed"} \subseteq Stages \cup Terminal
    /\ {"ErrMemoryBudget", "ErrMemfdCreate", "ErrMemfdExtract", "ErrMemfdSealingFailed",
         "ErrExecve", "ErrCacheInit", "ErrCacheWrite", "ErrCacheExtract"} \subseteq Sentinels
  BY DEF Stages, Terminal, Sentinels

\* Appending to one process's log keeps the logs typed.
LEMMA LogTyped ==
    ASSUME NEW S, NEW log \in [Procs -> Seq(S)], NEW p \in Procs, NEW e \in S
    PROVE  /\ [log EXCEPT ![p] = Append(log[p], e)] \in [Procs -> Seq(S)]
           /\ [log EXCEPT ![p] = Append(@, e)] \in [Procs -> Seq(S)]
  <1>1. Append(log[p], e) \in Seq(S)
    BY AppendProperties
  <1> QED BY <1>1

\* Reporting an error keeps what it writes typed.
LEMMA FailTyped ==
    ASSUME TypeOK, NEW p \in Procs, NEW e \in Sentinels, FailWith(p, e)
    PROVE  /\ pc' \in [Procs -> Stages \cup Terminal]
           /\ fd' \in [Procs -> Inodes \cup {NoFile}]
           /\ mem' \in [Procs -> {"none", "empty", "verified", "sealed"}]
           /\ errs' \in [Procs -> Reports]
  <1>1. errs' \in [Procs -> Reports]
    BY LogTyped DEF TypeOK, Reports, FailWith, Fail
  <1> QED BY <1>1, Names DEF TypeOK, FailWith, Fail, Goto

\* So does what executeVariant does with a memfd failure.
LEMMA MemfdFailedTyped ==
    ASSUME TypeOK, NEW p \in Procs, NEW e \in Sentinels, MemfdFailed(p, e)
    PROVE  /\ pc' \in [Procs -> Stages \cup Terminal]
           /\ fd' \in [Procs -> Inodes \cup {NoFile}]
           /\ mem' \in [Procs -> {"none", "empty", "verified", "sealed"}]
           /\ errs' \in [Procs -> Reports]
  <1>1. CASE FailWith(p, e)
    BY <1>1, FailTyped
  <1>2. CASE /\ errs' = [errs EXCEPT ![p] = Append(@, e)]
             /\ mem' = [mem EXCEPT ![p] = "none"]
             /\ Goto(p, "dir")
             /\ UNCHANGED fd
    <2>1. errs' \in [Procs -> Reports]
      BY <1>2, LogTyped DEF TypeOK, Reports
    <2> QED BY <1>2, <2>1, Names DEF TypeOK, Goto
  <1> QED BY <1>1, <1>2 DEF MemfdFailed

\* Every operation keeps each variable in its type.
LEMMA TypePreserved ==
    ASSUME TypeOK, NEW p \in Procs, Step(p) \/ Crash(p)
    PROVE  TypeOK'
  <1> USE DEF TypeOK, Goto, FileStates, inputs, store
  <1>a. \A e \in Sentinels : FailWith(p, e) =>
          /\ pc' \in [Procs -> Stages \cup Terminal]
          /\ fd' \in [Procs -> Inodes \cup {NoFile}]
          /\ mem' \in [Procs -> {"none", "empty", "verified", "sealed"}]
          /\ errs' \in [Procs -> Reports]
    BY FailTyped
  <1>b. \A e \in Sentinels : MemfdFailed(p, e) =>
          /\ pc' \in [Procs -> Stages \cup Terminal]
          /\ fd' \in [Procs -> Inodes \cup {NoFile}]
          /\ mem' \in [Procs -> {"none", "empty", "verified", "sealed"}]
          /\ errs' \in [Procs -> Reports]
    BY MemfdFailedTyped
  <1>c. /\ \A e \in Sentinels : [errs EXCEPT ![p] = Append(@, e)] \in [Procs -> Reports]
        /\ \A e \in {"cache", "memfd"} :
              [tried EXCEPT ![p] = Append(@, e)] \in [Procs -> Routes]
    BY LogTyped DEF Routes, Reports
  <1>d. [errs EXCEPT ![p] = <<"ErrCacheExtract">>] \in [Procs -> Reports]
    <2>1. <<"ErrCacheExtract">> \in Reports
      BY Names DEF Reports
    <2> QED BY <2>1
  <1>e. /\ p \in Inodes
        /\ \A b \in StagingStates : [tmp EXCEPT ![p] = b] \in [Procs -> StagingStates]
        /\ {"none", "staged", "stuck"} \subseteq StagingStates
    BY DEF Inodes, StagingStates
  <1>1. CASE ExecuteVariant(p)
    BY <1>1, Names DEF ExecuteVariant, FirstStage
  <1>2. CASE LookupOpen(p)
    BY <1>2, <1>a, Names DEF LookupOpen, OpenOutcomes, CanFail, Inodes
  <1>3. CASE LookupVerify(p)
    BY <1>3, <1>a, Names DEF LookupVerify
  <1>4. CASE LookupExec(p)
    <2>1. tried' \in [Procs -> Routes]
      BY <1>4, <1>c, Zenon DEF LookupExec
    <2>3. "ErrExecve" \in Sentinels
      BY Names
    <2>4. errs' \in [Procs -> Reports]
      <3>1. errs' = errs \/ errs' = [errs EXCEPT ![p] = Append(@, "ErrExecve")]
        BY <1>4 DEF LookupExec
      <3> QED BY <1>c, <2>3, <3>1, Zenon
    <2>2. pc' \in [Procs -> Stages \cup Terminal] /\ fd' \in [Procs -> Inodes \cup {NoFile}]
      BY <1>4, Names DEF LookupExec
    <2> QED BY <1>4, <2>1, <2>2, <2>4 DEF LookupExec
  <1>5. CASE MemfdBudget(p)
    BY <1>5, <1>b, Names DEF MemfdBudget, MemfdStage
  <1>6. CASE MemfdCreate(p)
    BY <1>6, <1>b, Names DEF MemfdCreate, MemfdStage
  <1>7. CASE MemfdExtract(p)
    BY <1>7, <1>b, Names DEF MemfdExtract, MemfdStage
  <1>8. CASE MemfdSeal(p)
    BY <1>8, <1>b, Names DEF MemfdSeal, MemfdStage
  <1>9. CASE MemfdExec(p)
    <2>1. tried' \in [Procs -> Routes]
      BY <1>9, <1>c, Zenon DEF MemfdExec
    <2>2. /\ pc' \in [Procs -> Stages \cup Terminal] /\ fd' \in [Procs -> Inodes \cup {NoFile}]
          /\ mem' \in [Procs -> {"none", "empty", "verified", "sealed"}] /\ errs' \in [Procs -> Reports]
      BY <1>9, <1>b, Names DEF MemfdExec
    <2> QED BY <1>9, <2>1, <2>2 DEF MemfdExec
  <1>10. CASE ResolveCacheDir(p)
    BY <1>10, <1>a, Names DEF ResolveCacheDir
  <1>11. CASE OpenEntry(p)
    BY <1>11, <1>a, Names DEF OpenEntry, OpenOutcomes, CanFail, AfterMiss, Inodes
  <1>12. CASE VerifyEntry(p)
    BY <1>12, <1>a, Names DEF VerifyEntry, Deliver, AfterMiss
  <1>13. CASE RemoveCorrupt(p)
    BY <1>13, Names DEF RemoveCorrupt, AfterMiss, CanFail
  <1>14. CASE CacheBudget(p)
    BY <1>14, <1>d, Names DEF CacheBudget, Fail
  <1>15. CASE ValidateReplacement(p)
    BY <1>15, <1>a, Names DEF ValidateReplacement
  <1>16. CASE CreateTemp(p)
    <2>1. file' \in [Inodes -> FileStates] /\ tmp' \in [Procs -> StagingStates]
      BY <1>16, <1>e, ZenonT(40) DEF CreateTemp
    <2>2. /\ pc' \in [Procs -> Stages \cup Terminal]
          /\ fd' \in [Procs -> Inodes \cup {NoFile}]
          /\ mem' \in [Procs -> {"none", "empty", "verified", "sealed"}]
          /\ errs' \in [Procs -> Reports]
      BY <1>16, <1>a, Names DEF CreateTemp
    <2> QED BY <1>16, <1>e, <2>1, <2>2 DEF CreateTemp
  <1>17. CASE WritePayload(p)
    <2>1. file' \in [Inodes -> FileStates] /\ tmp' \in [Procs -> StagingStates]
      BY <1>17, <1>e, ZenonT(40) DEF WritePayload, DropTemp
    <2>2. /\ pc' \in [Procs -> Stages \cup Terminal]
          /\ fd' \in [Procs -> Inodes \cup {NoFile}]
          /\ mem' \in [Procs -> {"none", "empty", "verified", "sealed"}]
          /\ errs' \in [Procs -> Reports]
      BY <1>17, <1>a, Names DEF WritePayload, DropTemp
    <2> QED BY <1>17, <1>e, <2>1, <2>2 DEF WritePayload, DropTemp
  <1>18. CASE SyncTemp(p)
    <2>1. file' \in [Inodes -> FileStates] /\ tmp' \in [Procs -> StagingStates]
      BY <1>18, <1>e, ZenonT(40) DEF SyncTemp, DropTemp
    <2>2. /\ pc' \in [Procs -> Stages \cup Terminal]
          /\ fd' \in [Procs -> Inodes \cup {NoFile}]
          /\ mem' \in [Procs -> {"none", "empty", "verified", "sealed"}]
          /\ errs' \in [Procs -> Reports]
      BY <1>18, <1>a, Names DEF SyncTemp, DropTemp
    <2> QED BY <1>18, <1>e, <2>1, <2>2 DEF SyncTemp, DropTemp
  <1>19. CASE Rename(p)
    <2>1. file' \in [Inodes -> FileStates] /\ tmp' \in [Procs -> StagingStates]
      BY <1>19, <1>e, ZenonT(40) DEF Rename, DropTemp
    <2>2. /\ pc' \in [Procs -> Stages \cup Terminal]
          /\ fd' \in [Procs -> Inodes \cup {NoFile}]
          /\ mem' \in [Procs -> {"none", "empty", "verified", "sealed"}]
          /\ errs' \in [Procs -> Reports]
      BY <1>19, <1>a, Names DEF Rename, DropTemp
    <2> QED BY <1>19, <1>e, <2>1, <2>2 DEF Rename, DropTemp
  <1>20. CASE Reopen(p)
    BY <1>20, Names DEF Reopen, OpenOutcomes, CanFail
  <1>21. CASE Reverify(p)
    BY <1>21, Names DEF Reverify, Deliver
  <1>22. CASE DropEntry(p)
    BY <1>22, <1>a, Names DEF DropEntry
  <1>23. CASE CacheExec(p)
    <2>1. tried' \in [Procs -> Routes]
      BY <1>23, <1>c, Zenon DEF CacheExec
    <2>2. /\ pc' \in [Procs -> Stages \cup Terminal] /\ fd' \in [Procs -> Inodes \cup {NoFile}]
          /\ mem' \in [Procs -> {"none", "empty", "verified", "sealed"}] /\ errs' \in [Procs -> Reports]
      BY <1>23, <1>a, Names DEF CacheExec
    <2> QED BY <1>23, <2>1, <2>2 DEF CacheExec
  <1>24. CASE Crash(p)
    BY <1>24, Names DEF Crash, CanFail
  <1> HIDE DEF TypeOK, Goto, FileStates, inputs, store
  <1> QED BY <1>1, <1>2, <1>3, <1>4, <1>5, <1>6, <1>7, <1>8, <1>9, <1>10, <1>11, <1>12, <1>13, <1>14, <1>15, <1>16, <1>17, <1>18, <1>19, <1>20, <1>21, <1>22, <1>23, <1>24, ZenonT(40) DEF Step

-----------------------------------------------------------------------------
(* What one step may change. *)

\* A step of p writes only p's own state, p's staging inode and the entry.
Frame(p) ==
    /\ mode' = mode
    /\ payload' = payload
    /\ \A q \in Procs \ {p} :
          /\ pc'[q] = pc[q] /\ fd'[q] = fd[q] /\ mem'[q] = mem[q]
          /\ tried'[q] = tried[q] /\ errs'[q] = errs[q] /\ tmp'[q] = tmp[q]
    /\ \A q \in Procs \ {p} : touched'[q] = touched[q]
    /\ \A i \in Inodes \ {p} : file'[i] = file[i]

\* What a step of p may do to the store and to p's descriptor: the staging inode
\* is written only before it is published, the entry is renamed to it or
\* removed, and a descriptor is opened on the entry.
Moves(p) ==
    /\ \/ file' = file
       \/ pc[p] \in {"temp", "write", "sync", "rename"}
    /\ \/ entry' = entry
       \/ entry' = NoFile /\ pc[p] \in {"unlink", "drop"}
       \/ entry' = p /\ pc[p] = "rename" /\ pc'[p] = "reopen" /\ file' = file
    /\ \/ fd'[p] = fd[p]
       \/ fd'[p] = NoFile
       \/ fd'[p] = entry /\ entry # NoFile
    /\ pc'[p] \in Unpublished => pc[p] \in Unpublished
    /\ pc'[p] = "rename" => file'[p] = "good"
    /\ tmp'[p] = "stuck" =>
          pc[p] \in {"write", "sync", "rename"} /\ entry' = entry /\ fd'[p] = NoFile

\* What a step of p records of its execve calls.
Attempts(p) ==
    /\ \/ /\ tried'[p] = tried[p]
          /\ pc[p] \in {"lookup_exec", "mem_exec", "exec"} => pc'[p] = "crashed"
          /\ pc'[p] # "running"
       \/ /\ tried'[p] = Append(tried[p], "cache")
          /\ \/ pc[p] = "lookup_exec" /\ pc'[p] \in {"running", "mem_budget"}
             \/ pc[p] = "exec" /\ pc'[p] \in {"running", "failed"}
       \/ /\ tried'[p] = Append(tried[p], "memfd")
          /\ pc[p] = "mem_exec" /\ pc'[p] \in {"running", "failed", "dir"}
    /\ pc'[p] = "running" => fd'[p] = fd[p] /\ mem'[p] = mem[p]

\* Reporting an error ends p and closes what it held.
LEMMA FailEffect ==
    ASSUME TypeOK, NEW p \in Procs, NEW report, Fail(p, report)
    PROVE  /\ pc'[p] = "failed" /\ fd'[p] = NoFile /\ mem'[p] = "none"
           /\ \A q \in Procs \ {p} :
                 pc'[q] = pc[q] /\ fd'[q] = fd[q] /\ mem'[q] = mem[q] /\ errs'[q] = errs[q]
  BY DEF TypeOK, Fail, Goto

\* So it does with the errors met before.
LEMMA FailWithEffect ==
    ASSUME TypeOK, NEW p \in Procs, NEW e, FailWith(p, e)
    PROVE  /\ pc'[p] = "failed" /\ fd'[p] = NoFile /\ mem'[p] = "none"
           /\ \A q \in Procs \ {p} :
                 pc'[q] = pc[q] /\ fd'[q] = fd[q] /\ mem'[q] = mem[q] /\ errs'[q] = errs[q]
  BY FailEffect DEF FailWith

\* A memfd failure ends p or sends it to the cache without a memfd.
LEMMA MemfdFailedEffect ==
    ASSUME TypeOK, NEW p \in Procs, NEW e, MemfdFailed(p, e)
    PROVE  /\ \/ pc'[p] = "failed" /\ fd'[p] = NoFile
              \/ pc'[p] = "dir" /\ fd'[p] = fd[p]
           /\ mem'[p] = "none"
           /\ \A q \in Procs \ {p} :
                 pc'[q] = pc[q] /\ fd'[q] = fd[q] /\ mem'[q] = mem[q] /\ errs'[q] = errs[q]
  <1>1. CASE FailWith(p, e)
    BY <1>1, FailWithEffect
  <1>2. CASE /\ errs' = [errs EXCEPT ![p] = Append(@, e)]
             /\ mem' = [mem EXCEPT ![p] = "none"]
             /\ Goto(p, "dir")
             /\ UNCHANGED fd
    BY <1>2 DEF TypeOK, Goto
  <1> QED BY <1>1, <1>2 DEF MemfdFailed

\* Each operation of p leaves the other processes alone.
LEMMA StepFrame ==
    ASSUME TypeOK, NEW p \in Procs, Step(p) \/ Crash(p)
    PROVE  /\ Frame(p)
           /\ pc[p] \notin Terminal
           /\ touched'[p] = touched[p] \/ pc[p] = "dir"
  <1> USE DEF TypeOK, Goto, inputs, store, Frame, Inodes, Terminal
  <1>1. CASE ExecuteVariant(p)
    BY <1>1 DEF ExecuteVariant
  <1>2. CASE LookupOpen(p)
    BY <1>2, FailWithEffect DEF LookupOpen
  <1>3. CASE LookupVerify(p)
    BY <1>3, FailWithEffect DEF LookupVerify
  <1>4. CASE LookupExec(p)
    BY <1>4 DEF LookupExec
  <1>5. CASE MemfdBudget(p)
    BY <1>5, MemfdFailedEffect DEF MemfdBudget, MemfdStage
  <1>6. CASE MemfdCreate(p)
    BY <1>6, MemfdFailedEffect DEF MemfdCreate, MemfdStage
  <1>7. CASE MemfdExtract(p)
    BY <1>7, MemfdFailedEffect DEF MemfdExtract, MemfdStage
  <1>8. CASE MemfdSeal(p)
    BY <1>8, MemfdFailedEffect DEF MemfdSeal, MemfdStage
  <1>9. CASE MemfdExec(p)
    BY <1>9, MemfdFailedEffect DEF MemfdExec
  <1>10. CASE ResolveCacheDir(p)
    BY <1>10, FailWithEffect DEF ResolveCacheDir
  <1>11. CASE OpenEntry(p)
    BY <1>11, FailWithEffect DEF OpenEntry
  <1>12. CASE VerifyEntry(p)
    BY <1>12, FailWithEffect DEF VerifyEntry, Deliver
  <1>13. CASE RemoveCorrupt(p)
    BY <1>13 DEF RemoveCorrupt
  <1>14. CASE CacheBudget(p)
    BY <1>14, FailEffect DEF CacheBudget
  <1>15. CASE ValidateReplacement(p)
    BY <1>15, FailWithEffect DEF ValidateReplacement
  <1>16. CASE CreateTemp(p)
    BY <1>16, FailWithEffect DEF CreateTemp
  <1>17. CASE WritePayload(p)
    BY <1>17, FailWithEffect DEF WritePayload, DropTemp
  <1>18. CASE SyncTemp(p)
    BY <1>18, FailWithEffect DEF SyncTemp, DropTemp
  <1>19. CASE Rename(p)
    BY <1>19, FailWithEffect DEF Rename, DropTemp
  <1>20. CASE Reopen(p)
    BY <1>20 DEF Reopen
  <1>21. CASE Reverify(p)
    BY <1>21 DEF Reverify, Deliver
  <1>22. CASE DropEntry(p)
    BY <1>22, FailWithEffect DEF DropEntry
  <1>23. CASE CacheExec(p)
    BY <1>23, FailWithEffect DEF CacheExec
  <1>24. CASE Crash(p)
    BY <1>24 DEF Crash
  <1> HIDE DEF TypeOK, Goto, inputs, store, Frame, Inodes, Terminal
  <1> QED BY <1>1, <1>2, <1>3, <1>4, <1>5, <1>6, <1>7, <1>8, <1>9, <1>10, <1>11, <1>12, <1>13, 
            <1>14, <1>15, <1>16, <1>17, <1>18, <1>19, <1>20, <1>21, <1>22, <1>23, <1>24, ZenonT(40) DEF Step

\* It moves the store as described, and leaves p holding what its next stage
\* needs.
LEMMA StepMoves ==
    ASSUME TypeOK, NEW p \in Procs, HoldsOf(p), Step(p) \/ Crash(p)
    PROVE  /\ Moves(p) /\ Attempts(p)
           /\ fd[p] \in Inodes /\ file'[fd[p]] = file[fd[p]] => HoldsOf(p)'
           /\ fd[p] = NoFile => HoldsOf(p)'
  <1> USE DEF TypeOK, Goto, inputs, store, Moves, Attempts, HoldsOf, Inodes, Unpublished,
              OpenedStages, MemfdStages, Terminal
  <1>1. CASE ExecuteVariant(p)
    BY <1>1 DEF ExecuteVariant, FirstStage
  <1>2. CASE LookupOpen(p)
    BY <1>2, FailWithEffect DEF LookupOpen, OpenOutcomes
  <1>3. CASE LookupVerify(p)
    BY <1>3, FailWithEffect DEF LookupVerify, Verdicts, Verdict
  <1>4. CASE LookupExec(p)
    BY <1>4 DEF LookupExec
  <1>5. CASE MemfdBudget(p)
    BY <1>5, MemfdFailedEffect DEF MemfdBudget, MemfdStage
  <1>6. CASE MemfdCreate(p)
    BY <1>6, MemfdFailedEffect DEF MemfdCreate, MemfdStage
  <1>7. CASE MemfdExtract(p)
    BY <1>7, MemfdFailedEffect DEF MemfdExtract, MemfdStage
  <1>8. CASE MemfdSeal(p)
    BY <1>8, MemfdFailedEffect DEF MemfdSeal, MemfdStage
  <1>9. CASE MemfdExec(p)
    BY <1>9, MemfdFailedEffect DEF MemfdExec
  <1>10. CASE ResolveCacheDir(p)
    BY <1>10, FailWithEffect DEF ResolveCacheDir
  <1>11. CASE OpenEntry(p)
    BY <1>11, FailWithEffect DEF OpenEntry, OpenOutcomes, AfterMiss
  <1>12. CASE VerifyEntry(p)
    BY <1>12, FailWithEffect DEF VerifyEntry, Verdicts, Verdict, Deliver, AfterMiss
  <1>13. CASE RemoveCorrupt(p)
    BY <1>13 DEF RemoveCorrupt, AfterMiss
  <1>14. CASE CacheBudget(p)
    BY <1>14, FailEffect DEF CacheBudget
  <1>15. CASE ValidateReplacement(p)
    BY <1>15, FailWithEffect DEF ValidateReplacement
  <1>16. CASE CreateTemp(p)
    BY <1>16, FailWithEffect DEF CreateTemp
  <1>17. CASE WritePayload(p)
    BY <1>17, FailWithEffect DEF WritePayload, DropTemp
  <1>18. CASE SyncTemp(p)
    BY <1>18, FailWithEffect DEF SyncTemp, DropTemp
  <1>19. CASE Rename(p)
    BY <1>19, FailWithEffect DEF Rename, DropTemp
  <1>20. CASE Reopen(p)
    BY <1>20 DEF Reopen, OpenOutcomes
  <1>21. CASE Reverify(p)
    BY <1>21 DEF Reverify, Verdicts, Verdict, Deliver
  <1>22. CASE DropEntry(p)
    BY <1>22, FailWithEffect DEF DropEntry
  <1>23. CASE CacheExec(p)
    <2>1. /\ pc[p] = "exec" /\ tried' = [tried EXCEPT ![p] = Append(@, "cache")]
          /\ UNCHANGED <<mode, payload, file, entry, tmp, touched>>
      BY <1>23 DEF CacheExec
    <2>2. CASE Goto(p, "running") /\ UNCHANGED <<fd, mem, errs>>
      BY <2>1, <2>2
    <2>3. CASE FailWith(p, "ErrExecve")
      BY <2>1, <2>3, FailWithEffect
    <2> QED BY <1>23, <2>2, <2>3 DEF CacheExec
  <1>24. CASE Crash(p)
    BY <1>24 DEF Crash
  <1> HIDE DEF TypeOK, Goto, inputs, store, Moves, Attempts, HoldsOf, Inodes, Unpublished,
               OpenedStages, MemfdStages, Terminal
  <1> QED BY <1>1, <1>2, <1>3, <1>4, <1>5, <1>6, <1>7, <1>8, <1>9, <1>10, <1>11, <1>12, <1>13, 
            <1>14, <1>15, <1>16, <1>17, <1>18, <1>19, <1>20, <1>21, <1>22, <1>23, <1>24, ZenonT(40) DEF Step

-----------------------------------------------------------------------------
(* Each part of the invariant is preserved. *)

\* What a step does in a state of the invariant.
LEMMA StepFacts ==
    ASSUME IInv, NEW p \in Procs, Step(p) \/ Crash(p)
    PROVE  Frame(p) /\ Moves(p) /\ Attempts(p) /\ pc[p] \notin Terminal
  <1>1. TypeOK /\ HoldsOf(p)
    BY Zenon DEF IInv, Holds
  <1>2. Frame(p) /\ pc[p] \notin Terminal
    BY <1>1, StepFrame, Zenon
  <1>3. Moves(p) /\ Attempts(p)
    BY <1>1, StepMoves, Zenon
  <1> QED BY <1>2, <1>3

\* Nobody but its owner reaches an unpublished staging inode.
LEMMA StagingIsPrivatePreserved ==
    ASSUME IInv, NEW p \in Procs, Step(p) \/ Crash(p)
    PROVE  StagingIsPrivate'
  <1> SUFFICES ASSUME NEW r \in Procs, pc'[r] \in Unpublished
               PROVE  /\ entry' # r
                      /\ \A q \in Procs : fd'[q] # r
                      /\ pc'[r] = "rename" => file'[r] = "good"
    BY DEF StagingIsPrivate
  <1>1. Frame(p) /\ Moves(p) /\ StagingIsPrivate
    BY StepFacts DEF IInv
  <1>2. pc[r] \in Unpublished
    BY <1>1 DEF Frame, Moves
  <1>3. entry' # r
    BY <1>1, <1>2, InodeAssumption DEF StagingIsPrivate, Moves, Unpublished
  <1>4. \A q \in Procs : fd'[q] # r
    BY <1>1, <1>2, InodeAssumption DEF StagingIsPrivate, Frame, Moves
  <1>5. pc'[r] = "rename" => file'[r] = "good"
    BY <1>1 DEF StagingIsPrivate, Frame, Moves, Inodes, Unpublished
  <1> QED BY <1>3, <1>4, <1>5

\* Nobody reaches a staging inode that its owner could not remove.
LEMMA LeftoverIsPrivatePreserved ==
    ASSUME IInv, NEW p \in Procs, Step(p) \/ Crash(p)
    PROVE  LeftoverIsPrivate'
  <1> SUFFICES ASSUME NEW r \in Procs, tmp'[r] = "stuck"
               PROVE  entry' # r /\ \A q \in Procs : fd'[q] # r
    BY DEF LeftoverIsPrivate
  <1>1. Frame(p) /\ Moves(p) /\ StagingIsPrivate /\ LeftoverIsPrivate
    BY StepFacts DEF IInv
  <1>2. CASE r = p
    <2>1. /\ pc[p] \in {"write", "sync", "rename"}
          /\ entry' = entry /\ fd'[p] = NoFile
      BY <1>1, <1>2 DEF Moves
    <2>2. entry # p /\ \A q \in Procs : fd[q] # p
      BY <1>1, <2>1 DEF StagingIsPrivate, Unpublished
    <2> QED BY <1>1, <1>2, <2>1, <2>2, InodeAssumption DEF Frame
  <1>3. CASE r # p
    <2>1. entry # r /\ \A q \in Procs : fd[q] # r
      BY <1>1, <1>3 DEF Frame, LeftoverIsPrivate
    <2> QED BY <1>1, <1>3, <2>1, InodeAssumption DEF Frame, Moves
  <1> QED BY <1>2, <1>3

\* A named or open staging inode was good and is not written any more.
LEMMA NamedIsCompletePreserved ==
    ASSUME IInv, NEW p \in Procs, Step(p) \/ Crash(p)
    PROVE  NamedIsComplete'
  <1>1. Frame(p) /\ Moves(p) /\ StagingIsPrivate /\ NamedIsComplete
    BY StepFacts DEF IInv
  <1>2. \A r \in Procs : r = entry \/ (\E q \in Procs : fd[q] = r) => file'[r] = file[r]
    BY <1>1 DEF StagingIsPrivate, Frame, Moves, Inodes, Unpublished
  <1>3. entry' \in Procs => file'[entry'] = "good"
    BY <1>1, <1>2, InodeAssumption DEF Moves, NamedIsComplete, StagingIsPrivate, Unpublished
  <1>4. \A q \in Procs : fd'[q] \in Procs => file'[fd'[q]] = "good"
    BY <1>1, <1>2, InodeAssumption DEF NamedIsComplete, Frame, Moves
  <1> QED BY <1>3, <1>4 DEF NamedIsComplete

\* An inode that is open stays as it was.
LEMMA OpenedIsStable ==
    ASSUME IInv, NEW p \in Procs, Step(p) \/ Crash(p), NEW q \in Procs, fd[q] \in Inodes
    PROVE  file'[fd[q]] = file[fd[q]]
  BY StepFacts DEF IInv, StagingIsPrivate, Frame, Moves, Inodes, Unpublished

\* Each process holds what its stage needs.
LEMMA HoldsPreserved ==
    ASSUME IInv, NEW p \in Procs, Step(p) \/ Crash(p)
    PROVE  Holds'
  <1>1. TypeOK /\ Holds /\ Frame(p)
    BY StepFacts DEF IInv
  <1>2. ASSUME NEW q \in Procs \ {p}
        PROVE  HoldsOf(q)'
    <2>1. HoldsOf(q) /\ (fd[q] \in Inodes => file'[fd[q]] = file[fd[q]])
      BY <1>1, OpenedIsStable DEF Holds
    <2> QED BY <1>1, <2>1 DEF HoldsOf, Frame, OpenedStages
  <1>3. HoldsOf(p)'
    <2>1. fd[p] \in Inodes => file'[fd[p]] = file[fd[p]]
      BY OpenedIsStable
    <2>2. fd[p] \in Inodes \/ fd[p] = NoFile
      BY <1>1 DEF TypeOK
    <2> QED BY <1>1, <2>1, <2>2, StepMoves DEF Holds
  <1> QED BY <1>2, <1>3 DEF Holds

\* One and two attempts.
LEMMA AppendFacts ==
    /\ Append(<<>>, "cache") = <<"cache">>
    /\ Append(<<>>, "memfd") = <<"memfd">>
    /\ Both(Append(<<"cache">>, "memfd"), "cache", "memfd")
    /\ Both(Append(<<"memfd">>, "cache"), "memfd", "cache")
    /\ Append(<<>>, "ErrMemfdCreate") = <<"ErrMemfdCreate">>
    /\ Append(<<>>, "ErrMemfdSealingFailed") = <<"ErrMemfdSealingFailed">>
    /\ Append(<<>>, "ErrExecve") = <<"ErrExecve">>
  BY DEF Both

\* A tuple of one attempt.
LEMMA OneAttempt == <<"cache">> # <<>> /\ <<"cache">>[1] = "cache"
  OBVIOUS

\* The tuples a step may append to.
LEMMA TriedBefore ==
    ASSUME IInv, NEW p \in Procs
    PROVE  /\ pc[p] = "lookup_exec" => tried[p] = <<>>
           /\ pc[p] = "mem_exec" => tried[p] \in {<<>>, <<"cache">>}
           /\ pc[p] = "exec" => tried[p] \in {<<>>, <<"memfd">>}
  BY ZenonT(40) DEF IInv, Route, RouteOf, LookupStages, MemfdStages, MaterializeStages

\* The image a launcher starts was verified on the way.
LEMMA RunningImagePreserved ==
    ASSUME IInv, NEW p \in Procs, Step(p) \/ Crash(p)
    PROVE  RunningImage'
  <1> DEFINE Runs(q) == \/ /\ tried[q] = <<"cache">> \/ Both(tried[q], "memfd", "cache")
                           /\ fd[q] \in Inodes
                           /\ file[fd[q]] = "good"
                        \/ /\ tried[q] = <<"memfd">> \/ Both(tried[q], "cache", "memfd")
                           /\ mem[q] = "sealed"
                           /\ fd[q] = NoFile
  <1>a. Frame(p) /\ Moves(p) /\ Attempts(p)
    BY StepFacts
  <1>b. \A q \in Procs : fd[q] \in Inodes => file'[fd[q]] = file[fd[q]]
    BY OpenedIsStable
  <1>1. ASSUME NEW q \in Procs \ {p}, pc'[q] = "running"
        PROVE  Runs(q)'
    <2>1. Runs(q)
      BY <1>a, <1>1 DEF IInv, RunningImage, Frame
    <2>2. fd'[q] = fd[q] /\ tried'[q] = tried[q] /\ mem'[q] = mem[q]
      BY <1>a, <1>1 DEF Frame
    <2> QED BY <2>1, <2>2, <1>b DEF Both
  <1>2. ASSUME pc'[p] = "running"
        PROVE  Runs(p)'
    <2>a. /\ fd'[p] = fd[p] /\ mem'[p] = mem[p]
          /\ \/ tried'[p] = Append(tried[p], "cache") /\ pc[p] \in {"lookup_exec", "exec"}
             \/ tried'[p] = Append(tried[p], "memfd") /\ pc[p] = "mem_exec"
      BY <1>2, <1>a DEF Attempts
    <2>1. CASE tried'[p] = Append(tried[p], "cache") /\ pc[p] \in {"lookup_exec", "exec"}
      <3>1. tried'[p] = <<"cache">> \/ Both(tried'[p], "memfd", "cache")
        <4>1. tried[p] = <<>> \/ tried[p] = <<"memfd">>
          BY <2>1, TriedBefore
        <4>2. Append(<<>>, "cache") = <<"cache">> /\ Both(Append(<<"memfd">>, "cache"), "memfd", "cache")
          BY AppendFacts
        <4> QED BY <2>1, <4>1, <4>2, Zenon
      <3>2. fd[p] \in Inodes /\ file[fd[p]] = "good"
        BY <2>1 DEF IInv, Holds, HoldsOf, OpenedStages
      <3> QED BY <2>a, <3>1, <3>2, <1>b DEF Both
    <2>2. CASE tried'[p] = Append(tried[p], "memfd") /\ pc[p] = "mem_exec"
      <3>1. tried'[p] = <<"memfd">> \/ Both(tried'[p], "cache", "memfd")
        <4>1. tried[p] = <<>> \/ tried[p] = <<"cache">>
          BY <2>2, TriedBefore
        <4>2. Append(<<>>, "memfd") = <<"memfd">> /\ Both(Append(<<"cache">>, "memfd"), "cache", "memfd")
          BY AppendFacts
        <4> QED BY <2>2, <4>1, <4>2, Zenon
      <3>2. fd[p] = NoFile /\ mem[p] = "sealed"
        BY <2>2 DEF IInv, Holds, HoldsOf, OpenedStages
      <3> QED BY <2>a, <3>1, <3>2 DEF Both
    <2> QED BY <2>a, <2>1, <2>2
  <1> QED BY <1>1, <1>2 DEF RunningImage, Both

\* An unsafe entry is refused wherever it is met.
LEMMA UnsafeStopsPreserved ==
    ASSUME IInv, NEW p \in Procs, Step(p) \/ Crash(p)
    PROVE  UnsafeStops'
  <1> USE DEF Goto, inputs, store
  <1>a. Frame(p) /\ Moves(p) /\ Attempts(p)
    BY StepFacts
  <1> SUFFICES ASSUME file[Old] = "unsafe"
               PROVE  /\ entry' = Old
                      /\ \A q \in Procs :
                            /\ pc'[q] \notin {"lookup_exec", "unlink", "temp", "write", "sync",
                                              "rename", "reopen", "reverify", "drop", "exec"}
                            /\ fd'[q] \in {Old, NoFile}
    BY <1>a, InodeAssumption DEF UnsafeStops, Frame, Inodes
  <1>b. /\ entry = Old
        /\ \A q \in Procs :
              /\ pc[q] \notin {"lookup_exec", "unlink", "temp", "write", "sync",
                               "rename", "reopen", "reverify", "drop", "exec"}
              /\ fd[q] \in {Old, NoFile}
    BY Zenon DEF IInv, UnsafeStops
  <1>c. entry' = Old /\ \A q \in Procs : fd'[q] \in {Old, NoFile}
    <2>1. entry' = Old /\ fd'[p] \in {Old, NoFile}
      BY <1>a, <1>b DEF Moves
    <2>2. \A q \in Procs \ {p} : fd'[q] = fd[q]
      BY <1>a DEF Frame
    <2> QED BY <1>b, <2>1, <2>2
  <1> SUFFICES pc'[p] \notin {"lookup_exec", "unlink", "temp", "write", "sync",
                              "rename", "reopen", "reverify", "drop", "exec"}
    <2>1. \A q \in Procs \ {p} : pc'[q] = pc[q]
      BY <1>a DEF Frame
    <2> QED BY <1>b, <1>c, <2>1
  <1>d. /\ pc \in [Procs -> Stages \cup Terminal]
        /\ pc[p] \in {"lookup_verify", "verify"} => fd[p] = Old
        /\ EntryIsUnsafe
    BY <1>b, InodeAssumption DEF IInv, TypeOK, Holds, HoldsOf, OpenedStages, EntryIsUnsafe, Inodes
  <1>1. CASE ExecuteVariant(p)
    BY <1>1, <1>b, <1>d DEF ExecuteVariant, FirstStage
  <1>2. CASE LookupOpen(p)
    BY <1>2, <1>b, <1>d DEF LookupOpen, OpenOutcomes, Fail, FailWith
  <1>3. CASE LookupVerify(p)
    BY <1>3, <1>b, <1>d DEF LookupVerify, Verdicts, Verdict, Fail, FailWith
  <1>4. CASE LookupExec(p)
    BY <1>4, <1>b, <1>d DEF LookupExec
  <1>5. CASE MemfdBudget(p)
    BY <1>5, <1>b, <1>d DEF MemfdBudget, MemfdStage, MemfdFailed, Fail, FailWith
  <1>6. CASE MemfdCreate(p)
    BY <1>6, <1>b, <1>d DEF MemfdCreate, MemfdStage, MemfdFailed, Fail, FailWith
  <1>7. CASE MemfdExtract(p)
    BY <1>7, <1>b, <1>d DEF MemfdExtract, MemfdStage, MemfdFailed, Fail, FailWith
  <1>8. CASE MemfdSeal(p)
    BY <1>8, <1>b, <1>d DEF MemfdSeal, MemfdStage, MemfdFailed, Fail, FailWith
  <1>9. CASE MemfdExec(p)
    BY <1>9, <1>b, <1>d DEF MemfdExec, MemfdFailed, Fail, FailWith
  <1>10. CASE ResolveCacheDir(p)
    BY <1>10, <1>b, <1>d DEF ResolveCacheDir, Fail, FailWith
  <1>11. CASE OpenEntry(p)
    BY <1>11, <1>b, <1>d DEF OpenEntry, OpenOutcomes, Fail, FailWith, AfterMiss
  <1>12. CASE VerifyEntry(p)
    BY <1>12, <1>b, <1>d DEF VerifyEntry, Verdicts, Verdict, Deliver, AfterMiss, Fail, FailWith
  <1>13. CASE RemoveCorrupt(p)
    BY <1>13, <1>b, <1>d DEF RemoveCorrupt, AfterMiss
  <1>14. CASE CacheBudget(p)
    BY <1>14, <1>b, <1>d DEF CacheBudget, Fail
  <1>15. CASE ValidateReplacement(p)
    BY <1>15, <1>b, <1>d DEF ValidateReplacement, Fail, FailWith
  <1>16. CASE CreateTemp(p)
    BY <1>16, <1>b, <1>d DEF CreateTemp, Fail, FailWith
  <1>17. CASE WritePayload(p)
    BY <1>17, <1>b, <1>d DEF WritePayload, DropTemp, Fail, FailWith
  <1>18. CASE SyncTemp(p)
    BY <1>18, <1>b, <1>d DEF SyncTemp, DropTemp, Fail, FailWith
  <1>19. CASE Rename(p)
    BY <1>19, <1>b, <1>d DEF Rename, DropTemp, Fail, FailWith
  <1>20. CASE Reopen(p)
    BY <1>20, <1>b, <1>d DEF Reopen, OpenOutcomes
  <1>21. CASE Reverify(p)
    BY <1>21, <1>b, <1>d DEF Reverify, Verdicts, Verdict, Deliver
  <1>22. CASE DropEntry(p)
    BY <1>22, <1>b, <1>d DEF DropEntry, Fail, FailWith
  <1>23. CASE CacheExec(p)
    BY <1>23, <1>b, <1>d DEF CacheExec, Fail, FailWith
  <1>24. CASE Crash(p)
    BY <1>24, <1>b, <1>d DEF Crash
  <1> HIDE DEF Goto, inputs, store
  <1> QED BY <1>1, <1>2, <1>3, <1>4, <1>5, <1>6, <1>7, <1>8, <1>9, <1>10, <1>11, <1>12, <1>13, 
            <1>14, <1>15, <1>16, <1>17, <1>18, <1>19, <1>20, <1>21, <1>22, <1>23, <1>24, ZenonT(40) DEF Step
=============================================================================
