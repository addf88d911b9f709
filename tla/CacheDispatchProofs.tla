------------------------- MODULE CacheDispatchProofs ------------------------
(* The properties of CacheDispatch, for every value of its constants.        *)
EXTENDS CacheDispatchRoutes

\* The last attempt of a running process.
LEMMA LastAttempt ==
    /\ \A s : s = <<"cache">> \/ Both(s, "memfd", "cache") => s[Len(s)] = "cache"
    /\ \A s : s = <<"memfd">> \/ Both(s, "cache", "memfd") => s[Len(s)] = "memfd"
  BY DEF Both

\* Attempts that end with the cache are not those that end with a memfd.
LEMMA AttemptsDiffer ==
    ASSUME NEW s
    PROVE  /\ s = <<"cache">> \/ Both(s, "memfd", "cache") =>
                 s # <<>> /\ s # <<"memfd">> /\ ~Both(s, "cache", "memfd")
           /\ s = <<"memfd">> \/ Both(s, "cache", "memfd") =>
                 s # <<>> /\ s # <<"cache">> /\ ~Both(s, "memfd", "cache")
  <1>1. s = <<>> => s # <<"cache">> /\ s # <<"memfd">> /\ ~Both(s, "memfd", "cache") /\ ~Both(s, "cache", "memfd")
    BY DEF Both
  <1>2. "cache" # "memfd"
    OBVIOUS
  <1> QED BY <1>1, <1>2, LastAttempt

\* Launchers execute only a verified cache entry or a sealed memfd.
THEOREM OnlyVerifiedImagesRun == Spec => []RunsVerifiedImage
  <1>1. IInv => RunsVerifiedImage
    <2>1. IInv => RunningImage
      BY DEF IInv
    <2> QED BY <2>1, LastAttempt, Zenon DEF RunningImage, RunsVerifiedImage
  <1> QED BY <1>1, Invariance, PTL

\* The digest never names an incomplete file.
THEOREM PublicationIsComplete == Spec => []PublishedIsComplete
  <1>1. IInv => PublishedIsComplete
    BY DEF IInv, NamedIsComplete, PublishedIsComplete
  <1> QED BY <1>1, Invariance, PTL

\* No mode executes, replaces or removes an unsafe entry.
THEOREM UnsafeEntriesAreKept == Spec => []UnsafeEntryIsKept
  <1>1. IInv => UnsafeEntryIsKept
    BY InodeAssumption DEF IInv, UnsafeStops, RunningImage, UnsafeEntryIsKept, Inodes
  <1> QED BY <1>1, Invariance, PTL

\* A launch that ends by itself holds nothing open and has removed its staging
\* file, or tried to; one it could not remove is reached by nobody.
THEOREM EndedLaunchesAreClean == Spec => []NothingLeftBehind
  <1>1. IInv => NothingLeftBehind
    BY DEF IInv, Holds, HoldsOf, LeftoverIsPrivate, OpenedStages, MemfdStages, NothingLeftBehind
  <1> QED BY <1>1, Invariance, PTL

\* A launch tries each path at most once and forced modes keep to theirs.
THEOREM PathsAreTriedOnce == Spec => []EachPathTriedOnce
  <1>1. ASSUME IInv, NEW p \in Procs
        PROVE  /\ \A i, j \in DOMAIN tried[p] : i # j => tried[p][i] # tried[p][j]
               /\ mode[p] = "cache" => \A i \in DOMAIN tried[p] : tried[p][i] = "cache"
               /\ mode[p] = "memfd" => \A i \in DOMAIN tried[p] : tried[p][i] = "memfd"
               /\ mode[p] = "prewarm" => tried[p] = <<>>
    <2>1. RouteOf(p) /\ pc[p] \in Stages \cup Terminal
      BY <1>1 DEF IInv, TypeOK, Route
    <2>2. \/ tried[p] = <<>>
          \/ mode[p] \in {"auto", "cache"} /\ tried[p] = <<"cache">>
          \/ mode[p] \in {"auto", "memfd"} /\ tried[p] = <<"memfd">>
          \/ /\ mode[p] = "auto"
             /\ Both(tried[p], "cache", "memfd") \/ Both(tried[p], "memfd", "cache")
      BY <2>1 DEF RouteOf, LookupStages, MemfdStages, MaterializeStages, Stages
    <2>3. DOMAIN tried[p] = 1..Len(tried[p])
      BY <1>1 DEF IInv, TypeOK, Routes
    <2>4. CASE mode[p] = "auto" /\ (Both(tried[p], "cache", "memfd") \/ Both(tried[p], "memfd", "cache"))
      BY <2>3, <2>4 DEF Both
    <2>5. CASE tried[p] = <<>>
      BY <2>5
    <2>6. CASE mode[p] \in {"auto", "cache"} /\ tried[p] = <<"cache">>
      BY <2>6
    <2>7. CASE mode[p] \in {"auto", "memfd"} /\ tried[p] = <<"memfd">>
      BY <2>7
    <2> QED BY <2>2, <2>4, <2>5, <2>6, <2>7, Zenon
  <1>2. IInv => EachPathTriedOnce
    BY <1>1 DEF EachPathTriedOnce
  <1> QED BY <1>2, Invariance, PTL

\* Only the mutating directory resolution marks the cache as touched.
LEMMA TouchedMoves ==
    ASSUME IInv, NEW p \in Procs, Step(p) \/ Crash(p)
    PROVE  /\ \A q \in Procs \ {p} : touched'[q] = touched[q]
           /\ touched'[p] = touched[p] \/ pc[p] = "dir"
  <1>1. TypeOK
    BY DEF IInv
  <1> QED BY <1>1, StepFrame DEF Frame

\* The cache is written for an automatic launch only after an eligible memfd
\* failure on a cache miss.
THEOREM CacheIsAFallback == Spec => CacheTouchedOnlyOnFallback
  <1> DEFINE Eligible(p) ==
        \/ mode[p] \in {"cache", "prewarm"}
        \/ /\ mode[p] = "auto"
           /\ ~Hit(p)
           /\ errs[p] \in {<<"ErrMemfdCreate">>, <<"ErrMemfdSealingFailed">>, <<"ErrExecve">>}
  <1>1. ASSUME IInv, NEW p \in Procs, pc[p] = "dir"
        PROVE  Eligible(p)
    <2>1. \/ mode[p] \in {"cache", "prewarm"}
          \/ /\ mode[p] = "auto" /\ (tried[p] = <<>> \/ tried[p] = <<"memfd">>)
             /\ errs[p] \in {<<"ErrMemfdCreate">>, <<"ErrMemfdSealingFailed">>, <<"ErrExecve">>}
      BY <1>1, ZenonT(40) DEF IInv, Route, RouteOf
    <2>2. tried[p] = <<>> \/ tried[p] = <<"memfd">> => ~Hit(p)
      BY DEF Hit
    <2> QED BY <2>1, <2>2, Zenon
  <1>2. ASSUME IInv, [Next]_vars
        PROVE  [\A p \in Procs : ~touched[p] /\ touched'[p] => Eligible(p)]_vars
    <2>1. CASE Next
      <3>1. PICK r \in Procs : Step(r) \/ Crash(r)
        BY <2>1 DEF Next
      <3>2. ASSUME NEW p \in Procs, ~touched[p], touched'[p]
            PROVE  Eligible(p)
        <4>1. pc[p] = "dir"
          BY <1>2, <3>1, <3>2, TouchedMoves
        <4> QED BY <1>1, <1>2, <4>1
      <3> QED BY <3>2
    <2> QED BY <1>2, <2>1
  <1> QED BY <1>2, Invariance, PTL DEF Spec, CacheTouchedOnlyOnFallback

-----------------------------------------------------------------------------
(* The protocol implements the launch contract. *)

\* A running process executes a verified image on a path of its mode.
PermittedImages ==
    \A p \in Procs : pc[p] = "running" =>
        \E path \in Contract!PermittedPaths(mode[p]) : absImage[p] = <<path, "verified">>

\* The attempts of a running process end in a path its mode permits.
LEMMA RunningIsPermitted == IInv => PermittedImages
  <1> SUFFICES ASSUME IInv, NEW p \in Procs, pc[p] = "running"
               PROVE  \E path \in Contract!PermittedPaths(mode[p]) : absImage[p] = <<path, "verified">>
    BY DEF PermittedImages
  <1>1. RouteOf(p) /\ pc[p] \in Terminal
    BY DEF IInv, Route, Terminal
  <1>2. CASE /\ tried[p] = <<"cache">> \/ Both(tried[p], "memfd", "cache")
             /\ fd[p] \in Inodes
             /\ file[fd[p]] = "good"
    <2>1. tried[p][Len(tried[p])] = "cache"
      BY <1>2, LastAttempt, ZenonT(40)
    <2>2. absImage[p] = <<"cache", "verified">>
      BY <1>2, <2>1 DEF absImage
    <2>3. mode[p] \in {"auto", "cache"}
      BY <1>1, <1>2, AttemptsDiffer, ZenonT(40) DEF RouteOf
    <2> QED BY <2>2, <2>3 DEF Contract!PermittedPaths
  <1>3. CASE /\ tried[p] = <<"memfd">> \/ Both(tried[p], "cache", "memfd")
             /\ mem[p] = "sealed"
    <2>1. tried[p][Len(tried[p])] = "memfd"
      BY <1>3, LastAttempt, ZenonT(40)
    <2>2. absImage[p] = <<"memfd", "verified">>
      BY <1>3, <2>1 DEF absImage
    <2>3. mode[p] \in {"auto", "memfd"}
      BY <1>1, <1>3, AttemptsDiffer, ZenonT(40) DEF RouteOf
    <2> QED BY <2>2, <2>3 DEF Contract!PermittedPaths
  <1> QED BY <1>2, <1>3 DEF IInv, RunningImage

\* The stage a step of p leads to decides what it is in the contract.
LEMMA StepsOfTheContract ==
    ASSUME IInv, IInv', NEW p \in Procs, Step(p) \/ Crash(p)
    PROVE  [Contract!AbsNext]_<<mode, absStatus, absImage>>
  <1>a. Frame(p) /\ mode' = mode
    BY StepFacts DEF Frame
  <1>b. pc[p] \notin Terminal
    BY StepFacts
  <1>c. \A q \in Procs \ {p} : absStatus'[q] = absStatus[q] /\ absImage'[q] = absImage[q]
    <2> SUFFICES ASSUME NEW q \in Procs \ {p}
                 PROVE  absStatus'[q] = absStatus[q] /\ absImage'[q] = absImage[q]
      OBVIOUS
    <2>1. pc'[q] = pc[q] /\ fd'[q] = fd[q] /\ mem'[q] = mem[q] /\ tried'[q] = tried[q]
      BY <1>a DEF Frame
    <2>2. fd[q] \in Inodes => file'[fd[q]] = file[fd[q]]
      BY OpenedIsStable
    <2> QED BY <2>1, <2>2 DEF absStatus, absImage
  <1>d. absStatus[p] = "pending" /\ absImage[p] = <<>>
    BY <1>b DEF absStatus, absImage, Terminal
  <1>e. /\ absStatus = [q \in Procs |-> absStatus[q]] /\ absImage = [q \in Procs |-> absImage[q]]
        /\ absStatus' = [q \in Procs |-> absStatus'[q]] /\ absImage' = [q \in Procs |-> absImage'[q]]
    BY DEF absStatus, absImage
  <1>1. CASE pc'[p] \notin Terminal
    <2>1. absStatus'[p] = "pending" /\ absImage'[p] = <<>>
      BY <1>1 DEF absStatus, absImage, Terminal
    <2>2. absStatus' = absStatus
      BY <1>c, <1>d, <1>e, <2>1
    <2>3. absImage' = absImage
      BY <1>c, <1>d, <1>e, <2>1
    <2> QED BY <1>a, <2>2, <2>3
  <1>2. CASE pc'[p] \in Terminal \ {"running"}
    <2>1. absStatus'[p] = "ended" /\ absImage'[p] = <<>>
      BY <1>2 DEF absStatus, absImage, Terminal
    <2>2. absStatus' = [absStatus EXCEPT ![p] = "ended"]
      BY <1>c, <1>e, <2>1
    <2>3. absImage' = absImage
      BY <1>c, <1>d, <1>e, <2>1
    <2>4. Contract!End(p)
      BY <1>a, <1>d, <2>2, <2>3 DEF Contract!End
    <2> QED BY <2>4 DEF Contract!AbsNext
  <1>3. CASE pc'[p] = "running"
    <2>1. absStatus'[p] = "running"
      BY <1>3 DEF absStatus
    <2>2. absStatus' = [absStatus EXCEPT ![p] = "running"]
      BY <1>c, <1>e, <2>1
    <2>3. \E path \in Contract!PermittedPaths(mode[p]) : absImage'[p] = <<path, "verified">>
      <3>1. PermittedImages'
        BY RunningIsPermitted, PTL
      <3> QED BY <1>3, <1>a, <3>1 DEF PermittedImages
    <2>4. \E path \in Contract!PermittedPaths(mode[p]) :
             absImage' = [absImage EXCEPT ![p] = <<path, "verified">>]
      <3>1. PICK path \in Contract!PermittedPaths(mode[p]) : absImage'[p] = <<path, "verified">>
        BY <2>3
      <3>2. absImage' = [absImage EXCEPT ![p] = <<path, "verified">>]
        BY <1>c, <1>e, <3>1
      <3> QED BY <3>2, ZenonT(40)
    <2>5. Contract!Start(p)
      BY <1>a, <1>d, <2>2, <2>4, ZenonT(40) DEF Contract!Start
    <2> QED BY <2>5 DEF Contract!AbsNext
  <1> QED BY <1>1, <1>2, <1>3

\* Each process pursues its launch contract to one verified image on a path its
\* mode permits, or to an end without one.
THEOREM LaunchesFollowTheContract == Spec => ImplementsContract
  <1>1. Init => Contract!AbsInit
    BY ChoiceAssumption, ZenonT(40) DEF Init, Contract!AbsInit, absStatus, absImage, Terminal, ExecModes,
       Contract!ExecModes
  <1>2. ASSUME IInv, IInv', [Next]_vars
        PROVE  [Contract!AbsNext]_<<mode, absStatus, absImage>>
    <2>1. CASE UNCHANGED vars
      BY <2>1 DEF vars, absStatus, absImage
    <2>2. CASE Next
      BY <1>2, <2>2, StepsOfTheContract DEF Next
    <2> QED BY <1>2, <2>1, <2>2
  <1> QED BY <1>1, <1>2, Invariance, PTL
      DEF Spec, ImplementsContract, Contract!AbsSpec, Contract!absVars

=============================================================================
