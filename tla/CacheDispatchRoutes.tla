------------------------- MODULE CacheDispatchRoutes ------------------------
(* Each stage of a launch is reached with the attempts and errors that lead  *)
(* to it, which completes the induction.                                     *)
EXTENDS CacheDispatchInvariant

\* A process that ends without a further attempt keeps its route.
LEMMA EndKeepsRoute ==
    ASSUME NEW p \in Procs, RouteOf(p), mode' = mode, tried'[p] = tried[p],
           pc[p] \in Stages, pc'[p] \in Terminal
    PROVE  RouteOf(p)'
  <1>1. /\ pc'[p] \notin LookupStages /\ pc'[p] \notin MemfdStages /\ pc'[p] \notin MaterializeStages
        /\ pc'[p] # "dir" /\ pc'[p] # "exec"
    BY DEF Terminal, LookupStages, MemfdStages, MaterializeStages
  <1>2. pc[p] \in LookupStages \/ pc[p] \in MemfdStages \/ pc[p] = "dir" \/ pc[p] \in MaterializeStages
    BY DEF Stages, LookupStages, MemfdStages, MaterializeStages
  <1>3. \/ tried[p] = <<>>
        \/ mode[p] \in {"auto", "cache"} /\ tried[p] = <<"cache">>
        \/ mode[p] \in {"auto", "memfd"} /\ tried[p] = <<"memfd">>
    BY <1>2, Zenon DEF RouteOf
  <1> QED BY <1>1, <1>3, Zenon DEF RouteOf

\* So does one that goes on with the cache.
LEMMA CacheKeepsRoute ==
    ASSUME NEW p \in Procs, RouteOf(p), mode' = mode, tried'[p] = tried[p],
           pc[p] \in MaterializeStages \cup {"dir"}, pc'[p] \in MaterializeStages,
           pc'[p] = "exec" => mode[p] # "prewarm"
    PROVE  RouteOf(p)'
  <1>1. pc'[p] \notin LookupStages /\ pc'[p] \notin MemfdStages /\ pc'[p] \notin Terminal /\ pc'[p] # "dir"
    BY DEF Terminal, LookupStages, MemfdStages, MaterializeStages
  <1>2. \/ mode[p] # "memfd" /\ tried[p] = <<>>
        \/ mode[p] = "auto" /\ tried[p] = <<"memfd">>
    <2>1. CASE pc[p] = "dir"
      <3>1. /\ mode[p] \in {"auto", "cache", "prewarm"}
            /\ tried[p] = <<>> \/ (mode[p] = "auto" /\ tried[p] = <<"memfd">>)
        BY <2>1, Zenon DEF RouteOf
      <3>2. mode[p] # "memfd"
        BY <3>1
      <3> QED BY <3>1, <3>2, Zenon
    <2>2. CASE pc[p] \in MaterializeStages
      BY <2>2, Zenon DEF RouteOf
    <2> QED BY <2>1, <2>2
  <1> QED BY <1>1, <1>2, Zenon DEF RouteOf

\* Each stage is reached with the attempts and errors that lead to it.
LEMMA RoutePreserved ==
    ASSUME IInv, NEW p \in Procs, Step(p) \/ Crash(p)
    PROVE  Route'
  <1> USE DEF Goto, inputs, store, LookupStages, MemfdStages, MaterializeStages, Terminal
  <1>a. Frame(p) /\ Moves(p) /\ Attempts(p)
    BY StepFacts
  <1> SUFFICES RouteOf(p)'
    <2>1. ASSUME NEW q \in Procs \ {p}
          PROVE  RouteOf(q)'
      <3>1. RouteOf(q)
        BY DEF IInv, Route
      <3> QED BY <1>a, <3>1 DEF RouteOf, Frame, Both
    <2> QED BY <2>1 DEF Route
  <1>b. RouteOf(p)
    BY DEF IInv, Route
  <1>c. /\ pc \in [Procs -> Stages \cup Terminal] /\ tried \in [Procs -> Routes]
        /\ errs \in [Procs -> Reports]
    BY DEF IInv, TypeOK
  <1>e. TypeOK
    BY DEF IInv
  <1>d. mode[p] \in ExecModes
    BY ChoiceAssumption DEF IInv, TypeOK
  <1>f. ASSUME pc[p] \in MaterializeStages \cup {"dir"}, pc[p] # "exec",
               pc'[p] \in MaterializeStages \cup {"failed", "done"}, pc'[p] = "exec" => mode[p] # "prewarm"
        PROVE  RouteOf(p)'
    <2>1. mode' = mode /\ tried'[p] = tried[p]
      BY <1>f, <1>a DEF Frame, Attempts
    <2>2. pc[p] \in Stages
      BY <1>f DEF Stages
    <2>3. CASE pc'[p] \in MaterializeStages
      BY <1>b, <1>f, <2>1, <2>3, CacheKeepsRoute
    <2>4. CASE pc'[p] \in {"failed", "done"}
      BY <1>b, <2>1, <2>2, <2>4, EndKeepsRoute
    <2> QED BY <1>f, <2>3, <2>4
  <1>1. CASE ExecuteVariant(p)
    BY <1>1, <1>a, <1>b, <1>c, <1>d DEF ExecuteVariant, FirstStage, RouteOf, Frame, ExecModes
  <1>2. CASE LookupOpen(p)
    BY <1>2, <1>a, <1>b, <1>c, FailWithEffect, <1>e DEF LookupOpen, OpenOutcomes, RouteOf, Frame
  <1>3. CASE LookupVerify(p)
    BY <1>3, <1>a, <1>b, <1>c, FailWithEffect, <1>e DEF LookupVerify, Verdicts, Verdict, RouteOf, Frame
  <1>4. CASE LookupExec(p)
    <2>1. pc'[p] = "running" \/ pc'[p] = "mem_budget"
      BY <1>4, <1>c DEF LookupExec
    <2>2. tried'[p] = <<"cache">>
      BY <1>4, <1>b, <1>c, AppendFacts DEF LookupExec, RouteOf
    <2>3. pc'[p] = "mem_budget" => errs'[p] = <<"ErrExecve">>
      BY <1>4, <1>b, <1>c, AppendFacts DEF LookupExec, RouteOf
    <2> QED BY <1>4, <1>a, <1>b, <2>1, <2>2, <2>3 DEF LookupExec, RouteOf, Frame
  <1>5. CASE MemfdBudget(p)
    <2>1. CASE pc'[p] = "failed" /\ tried'[p] = tried[p]
      BY <1>5, <2>1, <1>a, <1>b DEF MemfdBudget, MemfdStage, RouteOf, Frame
    <2>2. CASE pc'[p] = "mem_create" /\ tried'[p] = tried[p] /\ errs'[p] = errs[p]
      BY <1>5, <2>2, <1>a, <1>b DEF MemfdBudget, MemfdStage, RouteOf, Frame
    <2> QED BY <1>5, <1>c, <2>1, <2>2 DEF MemfdBudget, MemfdStage, MemfdFailed, Fail, FailWith, TerminalMemfdErrors
  <1>6. CASE MemfdCreate(p)
    <2>1. CASE pc'[p] = "failed" /\ tried'[p] = tried[p]
      BY <1>6, <2>1, <1>a, <1>b DEF MemfdCreate, MemfdStage, RouteOf, Frame
    <2>2. CASE pc'[p] = "mem_extract" /\ tried'[p] = tried[p] /\ errs'[p] = errs[p]
      BY <1>6, <2>2, <1>a, <1>b DEF MemfdCreate, MemfdStage, RouteOf, Frame
    <2>3. CASE /\ pc'[p] = "dir" /\ mode[p] = "auto" /\ ~Hit(p)
               /\ tried'[p] = tried[p] /\ errs'[p] = Append(errs[p], "ErrMemfdCreate")
      <3>1. tried[p] = <<>> /\ errs[p] = <<>>
        <4>1. pc[p] \in MemfdStages
          BY <1>6 DEF MemfdCreate, MemfdStage
        <4>2. tried[p] # <<"cache">>
          BY <2>3, OneAttempt, ZenonT(40) DEF Hit
        <4> QED BY <4>1, <4>2, <1>b DEF RouteOf
      <3>2. errs'[p] = <<"ErrMemfdCreate">>
        BY <2>3, <3>1, AppendFacts
      <3> QED BY <2>3, <3>1, <3>2, <1>a DEF RouteOf, Frame
    <2> QED BY <1>6, <1>c, <2>1, <2>2, <2>3 DEF MemfdCreate, MemfdStage, MemfdFailed, Fail, FailWith
  <1>7. CASE MemfdExtract(p)
    <2>1. CASE pc'[p] = "failed" /\ tried'[p] = tried[p]
      BY <1>7, <2>1, <1>a, <1>b DEF MemfdExtract, MemfdStage, RouteOf, Frame
    <2>2. CASE pc'[p] = "mem_seal" /\ tried'[p] = tried[p] /\ errs'[p] = errs[p]
      BY <1>7, <2>2, <1>a, <1>b DEF MemfdExtract, MemfdStage, RouteOf, Frame
    <2> QED BY <1>7, <1>c, <2>1, <2>2 DEF MemfdExtract, MemfdStage, MemfdFailed, Fail, FailWith, TerminalMemfdErrors
  <1>8. CASE MemfdSeal(p)
    <2>1. CASE pc'[p] = "failed" /\ tried'[p] = tried[p]
      BY <1>8, <2>1, <1>a, <1>b DEF MemfdSeal, MemfdStage, RouteOf, Frame
    <2>2. CASE pc'[p] = "mem_exec" /\ tried'[p] = tried[p] /\ errs'[p] = errs[p]
      BY <1>8, <2>2, <1>a, <1>b DEF MemfdSeal, MemfdStage, RouteOf, Frame
    <2>3. CASE /\ pc'[p] = "dir" /\ mode[p] = "auto" /\ ~Hit(p)
               /\ tried'[p] = tried[p] /\ errs'[p] = Append(errs[p], "ErrMemfdSealingFailed")
      <3>1. tried[p] = <<>> /\ errs[p] = <<>>
        <4>1. pc[p] \in MemfdStages
          BY <1>8 DEF MemfdSeal, MemfdStage
        <4>2. tried[p] # <<"cache">>
          BY <2>3, OneAttempt, ZenonT(40) DEF Hit
        <4> QED BY <4>1, <4>2, <1>b DEF RouteOf
      <3>2. errs'[p] = <<"ErrMemfdSealingFailed">>
        BY <2>3, <3>1, AppendFacts
      <3> QED BY <2>3, <3>1, <3>2, <1>a DEF RouteOf, Frame
    <2> QED BY <1>8, <1>c, <2>1, <2>2, <2>3 DEF MemfdSeal, MemfdStage, MemfdFailed, Fail, FailWith
  <1>9. CASE MemfdExec(p)
    <2>1. tried'[p] = Append(tried[p], "memfd") /\ pc[p] = "mem_exec"
      BY <1>9, <1>c DEF MemfdExec
    <2>2. CASE tried[p] = <<>>
      <3>1. tried'[p] = <<"memfd">>
        BY <2>1, <2>2, AppendFacts
      <3>2. pc'[p] = "dir" => mode[p] = "auto" /\ errs'[p] = Append(errs[p], "ErrExecve")
        BY <1>9, <1>c DEF MemfdExec, MemfdFailed, Fail, FailWith
      <3>3. errs[p] = <<>>
        BY <2>1, <2>2, <1>b DEF RouteOf
      <3>4. pc'[p] = "dir" => errs'[p] = <<"ErrExecve">>
        BY <3>2, <3>3, AppendFacts
      <3>5. pc'[p] \in {"running", "failed", "dir"}
        BY <1>9, <1>c DEF MemfdExec, MemfdFailed, Fail, FailWith
      <3> QED BY <2>1, <3>1, <3>2, <3>4, <3>5, <1>a, <1>b, ZenonT(40) DEF RouteOf, Frame
    <2>3. CASE mode[p] = "auto" /\ tried[p] = <<"cache">>
      <3>1. Both(tried'[p], "cache", "memfd")
        <4>1. Both(Append(<<"cache">>, "memfd"), "cache", "memfd")
          BY AppendFacts
        <4> QED BY <2>1, <2>3, <4>1, Zenon
      <3>2. Hit(p)
        BY <2>3 DEF Hit
      <3>3. pc'[p] \in {"running", "failed"}
        BY <1>9, <3>2, <1>c DEF MemfdExec, MemfdFailed, Fail, FailWith
      <3> QED BY <2>3, <3>1, <3>3, <1>a DEF RouteOf, Frame, Both
    <2> QED BY <2>1, <2>2, <2>3, <1>b DEF RouteOf
  <1>10. CASE ResolveCacheDir(p)
    <2>1. /\ pc[p] \in MaterializeStages \cup {"dir"} /\ pc[p] # "exec"
          /\ pc'[p] \in MaterializeStages \cup {"failed", "done"} /\ (pc'[p] = "exec" => mode[p] # "prewarm")
      BY <1>10, <1>c, <1>e, FailWithEffect DEF ResolveCacheDir
    <2> QED BY <2>1, <1>f
  <1>11. CASE OpenEntry(p)
    <2>1. /\ pc[p] \in MaterializeStages \cup {"dir"} /\ pc[p] # "exec"
          /\ pc'[p] \in MaterializeStages \cup {"failed", "done"} /\ (pc'[p] = "exec" => mode[p] # "prewarm")
      BY <1>11, <1>c, <1>e, FailWithEffect DEF OpenEntry, AfterMiss
    <2> QED BY <2>1, <1>f
  <1>12. CASE VerifyEntry(p)
    <2>1. /\ pc[p] \in MaterializeStages \cup {"dir"} /\ pc[p] # "exec"
          /\ pc'[p] \in MaterializeStages \cup {"failed", "done"} /\ (pc'[p] = "exec" => mode[p] # "prewarm")
      BY <1>12, <1>c, <1>e, FailWithEffect DEF VerifyEntry, Deliver, AfterMiss
    <2> QED BY <2>1, <1>f
  <1>13. CASE RemoveCorrupt(p)
    <2>1. /\ pc[p] \in MaterializeStages \cup {"dir"} /\ pc[p] # "exec"
          /\ pc'[p] \in MaterializeStages \cup {"failed", "done"} /\ (pc'[p] = "exec" => mode[p] # "prewarm")
      BY <1>13, <1>c, <1>e DEF RemoveCorrupt, AfterMiss
    <2> QED BY <2>1, <1>f
  <1>14. CASE CacheBudget(p)
    <2>1. /\ pc[p] \in MaterializeStages \cup {"dir"} /\ pc[p] # "exec"
          /\ pc'[p] \in MaterializeStages \cup {"failed", "done"} /\ (pc'[p] = "exec" => mode[p] # "prewarm")
      BY <1>14, <1>c, <1>e, FailEffect DEF CacheBudget
    <2> QED BY <2>1, <1>f
  <1>15. CASE ValidateReplacement(p)
    <2>1. /\ pc[p] \in MaterializeStages \cup {"dir"} /\ pc[p] # "exec"
          /\ pc'[p] \in MaterializeStages \cup {"failed", "done"} /\ (pc'[p] = "exec" => mode[p] # "prewarm")
      BY <1>15, <1>c, <1>e, FailWithEffect DEF ValidateReplacement
    <2> QED BY <2>1, <1>f
  <1>16. CASE CreateTemp(p)
    <2>1. /\ pc[p] \in MaterializeStages \cup {"dir"} /\ pc[p] # "exec"
          /\ pc'[p] \in MaterializeStages \cup {"failed", "done"} /\ (pc'[p] = "exec" => mode[p] # "prewarm")
      BY <1>16, <1>c, <1>e, FailWithEffect DEF CreateTemp
    <2> QED BY <2>1, <1>f
  <1>17. CASE WritePayload(p)
    <2>1. /\ pc[p] \in MaterializeStages \cup {"dir"} /\ pc[p] # "exec"
          /\ pc'[p] \in MaterializeStages \cup {"failed", "done"} /\ (pc'[p] = "exec" => mode[p] # "prewarm")
      BY <1>17, <1>c, <1>e, FailWithEffect DEF WritePayload, DropTemp
    <2> QED BY <2>1, <1>f
  <1>18. CASE SyncTemp(p)
    <2>1. /\ pc[p] \in MaterializeStages \cup {"dir"} /\ pc[p] # "exec"
          /\ pc'[p] \in MaterializeStages \cup {"failed", "done"} /\ (pc'[p] = "exec" => mode[p] # "prewarm")
      BY <1>18, <1>c, <1>e, FailWithEffect DEF SyncTemp, DropTemp
    <2> QED BY <2>1, <1>f
  <1>19. CASE Rename(p)
    <2>1. /\ pc[p] \in MaterializeStages \cup {"dir"} /\ pc[p] # "exec"
          /\ pc'[p] \in MaterializeStages \cup {"failed", "done"} /\ (pc'[p] = "exec" => mode[p] # "prewarm")
      BY <1>19, <1>c, <1>e, FailWithEffect DEF Rename, DropTemp
    <2> QED BY <2>1, <1>f
  <1>20. CASE Reopen(p)
    <2>1. /\ pc[p] \in MaterializeStages \cup {"dir"} /\ pc[p] # "exec"
          /\ pc'[p] \in MaterializeStages \cup {"failed", "done"} /\ (pc'[p] = "exec" => mode[p] # "prewarm")
      BY <1>20, <1>c, <1>e DEF Reopen
    <2> QED BY <2>1, <1>f
  <1>21. CASE Reverify(p)
    <2>1. /\ pc[p] \in MaterializeStages \cup {"dir"} /\ pc[p] # "exec"
          /\ pc'[p] \in MaterializeStages \cup {"failed", "done"} /\ (pc'[p] = "exec" => mode[p] # "prewarm")
      BY <1>21, <1>c, <1>e DEF Reverify, Deliver
    <2> QED BY <2>1, <1>f
  <1>22. CASE DropEntry(p)
    <2>1. /\ pc[p] \in MaterializeStages \cup {"dir"} /\ pc[p] # "exec"
          /\ pc'[p] \in MaterializeStages \cup {"failed", "done"} /\ (pc'[p] = "exec" => mode[p] # "prewarm")
      BY <1>22, <1>c, <1>e, FailWithEffect DEF DropEntry
    <2> QED BY <2>1, <1>f
  <1>23. CASE CacheExec(p)
    <2>1. tried'[p] = Append(tried[p], "cache") /\ pc'[p] \in {"running", "failed"}
      BY <1>23, <1>c DEF CacheExec, Fail, FailWith
    <2>2. CASE tried[p] = <<>>
      <3>1. tried'[p] = <<"cache">>
        BY <2>1, <2>2, AppendFacts
      <3>2. mode[p] \in {"auto", "cache"}
        BY <1>23, <2>2, <1>b, <1>d DEF CacheExec, RouteOf, ExecModes
      <3> QED BY <2>1, <3>1, <3>2, <1>a, ZenonT(40) DEF RouteOf, Frame
    <2>3. CASE mode[p] = "auto" /\ tried[p] = <<"memfd">>
      <3>1. Both(tried'[p], "memfd", "cache")
        <4>1. Both(Append(<<"memfd">>, "cache"), "memfd", "cache")
          BY AppendFacts
        <4> QED BY <2>1, <2>3, <4>1, Zenon
      <3> QED BY <2>1, <2>3, <3>1, <1>a DEF RouteOf, Frame, Both
    <2> QED BY <1>23, <2>2, <2>3, <1>b DEF CacheExec, RouteOf
  <1>24. CASE Crash(p)
    <2>1. pc[p] \in Stages /\ pc'[p] = "crashed" /\ tried'[p] = tried[p] /\ mode' = mode
      BY <1>24, <1>c DEF Crash
    <2> QED BY <1>b, <2>1, EndKeepsRoute
  <1> HIDE DEF Goto, inputs, store, LookupStages, MemfdStages, MaterializeStages, Terminal
  <1> QED BY <1>1, <1>2, <1>3, <1>4, <1>5, <1>6, <1>7, <1>8, <1>9, <1>10, <1>11, <1>12, <1>13, 
            <1>14, <1>15, <1>16, <1>17, <1>18, <1>19, <1>20, <1>21, <1>22, <1>23, <1>24, ZenonT(40) DEF Step

-----------------------------------------------------------------------------
(* The invariant holds in every reachable state. *)

\* No process has started: every part of the invariant holds.
LEMMA InitIInv == Init => IInv
  <1> SUFFICES ASSUME Init
               PROVE  IInv
    OBVIOUS
  <1>1. <<>> \in Routes /\ <<>> \in Reports
    BY DEF Routes, Reports
  <1>2. TypeOK
    <2>1. PICK s \in InitialEntries :
             /\ entry = IF s = "missing" THEN NoFile ELSE Old
             /\ file = [i \in Inodes |-> IF i = Old /\ s # "missing" THEN s ELSE "none"]
      BY DEF Init
    <2>2. s = "missing" \/ s \in FileStates
      BY ChoiceAssumption DEF EntryStates, FileStates
    <2>3. file \in [Inodes -> FileStates] /\ entry \in Inodes \cup {NoFile}
      BY <2>1, <2>2 DEF Inodes, FileStates
    <2> QED BY <1>1, <2>3 DEF Init, TypeOK, Stages, StagingStates
  <1>3. StagingIsPrivate /\ LeftoverIsPrivate /\ NamedIsComplete
    BY InodeAssumption DEF Init, StagingIsPrivate, LeftoverIsPrivate, NamedIsComplete
  <1>4. Holds /\ RunningImage
    BY DEF Init, Holds, HoldsOf, OpenedStages, MemfdStages, RunningImage
  <1>5. Route
    BY DEF Init, Route, RouteOf, LookupStages, MemfdStages, MaterializeStages, Terminal
  <1>6. UnsafeStops
    BY DEF Init, UnsafeStops, Inodes
  <1> QED BY <1>2, <1>3, <1>4, <1>5, <1>6 DEF IInv

\* Every step preserves the invariant.
LEMMA NextIInv == IInv /\ [Next]_vars => IInv'
  <1> SUFFICES ASSUME IInv, [Next]_vars
               PROVE  IInv'
    OBVIOUS
  <1>1. CASE UNCHANGED vars
    <2>1. TypeOK' /\ StagingIsPrivate' /\ LeftoverIsPrivate' /\ NamedIsComplete' /\ UnsafeStops'
      BY <1>1 DEF vars, IInv, TypeOK, StagingIsPrivate, LeftoverIsPrivate, NamedIsComplete, UnsafeStops
    <2>2. Holds' /\ RunningImage'
      BY <1>1 DEF vars, IInv, Holds, HoldsOf, RunningImage, Both
    <2>3. ASSUME NEW q \in Procs
          PROVE  RouteOf(q)'
      BY <1>1 DEF vars, IInv, Route, RouteOf, Both
    <2> QED BY <2>1, <2>2, <2>3 DEF IInv, Route
  <1>2. CASE Next
    <2>1. PICK p \in Procs : Step(p) \/ Crash(p)
      BY <1>2 DEF Next
    <2>2. TypeOK
      BY DEF IInv
    <2> QED BY <2>1, <2>2, TypePreserved, StagingIsPrivatePreserved, LeftoverIsPrivatePreserved,
               NamedIsCompletePreserved, HoldsPreserved, RunningImagePreserved, RoutePreserved,
               UnsafeStopsPreserved DEF IInv
  <1> QED BY <1>1, <1>2

\* The inductive invariant of the launch and cache protocol.
THEOREM Invariance == Spec => []IInv
  BY InitIInv, NextIInv, PTL DEF Spec
=============================================================================
