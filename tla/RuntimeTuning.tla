---------------------------- MODULE RuntimeTuning ----------------------------
(***************************************************************************)
(* The environment a launcher hands to the payload, what the payload's     *)
(* runtimeinit.AutoTune makes of it, and the readers that report on both:  *)
(* runtimeinfo in the payload, --microfat:info and microfat doctor before  *)
(* it starts.  A setting is a pair <<kind, value>>; Unset is absence.      *)
(***************************************************************************)
EXTENDS Microarch, Cgroup

CONSTANTS Page, MaxPayloadSize

Unset == <<"unset", 0>>
Empty == <<"empty", 0>>
Bytes(n) == <<"bytes", n>>
Num(n) == <<"num", n>>

\* No WithGOGC option was given.
NoGOGC == -2

GoKeys == {"GOMEMLIMIT", "GOMAXPROCS", "GOGC"}

-----------------------------------------------------------------------------
\* The launcher

\* Equal identities, one clean AT_SECURE entry, and no file capability (or no support for any).
CheckLauncherPrivilege(h) ==
    h.ids = "equal" /\ h.auxv = "clean" /\ h.caps \in {"none", "unsupported"}

ResolveRequestedExecMode(user) ==
    LET asked == IF user.execMode = "" THEN user.dispatchMode ELSE user.execMode
    IN  IF asked \in {"cache", "memfd"} THEN asked ELSE "auto"

RuntimeAutotuneStatus(user) ==
    CASE user.autotune = "off" -> "disabled"
      [] user.dryRun           -> "dry-run"
      [] OTHER                 -> "enabled"

FindVariant(image, spelled) ==
    LET same == {i \in DOMAIN image.levels : Normalize(image.levels[i]) = Normalize(spelled)}
    IN  image.levels[CHOOSE i \in same : \A j \in same : i <= j]

\* Mutant: the memory file counts as storage outside the container.
NothingRetained(size, m) == 0

RuntimeRetainedExecutableBytes(size, m) ==
    IF m # "memfd" \/ size <= 0 \/ size > MaxPayloadSize THEN 0 ELSE PageRound(size, Page)

\* The user's live heap estimate; a size that does not parse counts as none.
LiveHeap(user) == IF user.heap.unit = "none" THEN 0 ELSE ParseByteSize(user.heap).v

\* One engine for dispatch and inspection; an inherited GOMEMLIMIT decides about batch collection.
ResolveRuntimeTuning(limits, user, size, m, go) ==
    LET l == [limits EXCEPT !.retained = RuntimeRetainedExecutableBytes(size, m)]
        p == ApplyCPUPolicy(
               ResolveTuningPlan(l, user.ratio, DefaultMemoryRatio, DefaultMinHeadroom,
                                 ParseGCProfile(user.profile).v, LiveHeap(user)),
               ResolveCPUPolicy(user.cpu, "static"))
    IN  IF go["GOMEMLIMIT"] = Unset THEN p
        ELSE ResolveBatchGOGC(p, RuntimeMemoryLimit(go["GOMEMLIMIT"]))

PlannedSetting(plan, key) ==
    CASE key = "GOMEMLIMIT" -> IF plan.mem = None THEN Unset ELSE Bytes(plan.mem)
      [] key = "GOMAXPROCS" -> IF plan.procs = 0 THEN Unset ELSE Num(plan.procs)
      [] key = "GOGC"       -> IF ~ plan.gc THEN Unset ELSE IF plan.gogc = Off THEN <<"off", 0>> ELSE Num(plan.gogc)

\* Mutant: an empty variable is overwritten.
OverwriteEmpty(go, plan) ==
    [k \in GoKeys |-> IF go[k] \notin {Unset, Empty} THEN go[k] ELSE PlannedSetting(plan, k)]

\* A key that is present, even empty, is the user's.
ApplyRuntimeTuningPlan(go, plan) ==
    [k \in GoKeys |-> IF go[k] # Unset THEN go[k] ELSE PlannedSetting(plan, k)]

InternalKeys == {"ORIGINAL_EXE", "SELECTED_VARIANT", "HOST_ARCH", "HOST_LEVEL", "EXEC_MODE",
    "DISPATCH_MODE", "SELECTED_SHA256", "SELECTED_SIZE", "POLICY_APPLIED", "OVERRIDE_REASON",
    "CGROUP_VERSION", "CGROUP_LIMIT_BYTES", "CGROUP_HIGH_BYTES", "CGROUP_EFFECTIVE_LIMIT_BYTES",
    "CGROUP_CPUS", "CGROUP_GOMEMLIMIT", "CGROUP_GOMAXPROCS", "CGROUP_GOGC", "CGROUP_GC_PROFILE",
    "CGROUP_GOGC_SKIPPED_REASON"}

Present(key, on, value) == IF on THEN key :> value ELSE <<>>
Positive(v) == IF v = None THEN 0 ELSE v

PopulateCgroupEnviron(limits) ==
    "CGROUP_VERSION" :> Num(limits.version)
    @@ "CGROUP_LIMIT_BYTES" :> Num(Positive(limits.max))
    @@ Present("CGROUP_HIGH_BYTES", limits.high # None, Num(limits.high))
    @@ Present("CGROUP_EFFECTIVE_LIMIT_BYTES", EffectiveMemoryLimit(limits) # None, Num(EffectiveMemoryLimit(limits)))
    @@ "CGROUP_CPUS" :> <<"quota", limits.cpu>>

\* Mutant: metadata of the launcher above is kept where this launch writes none.
KeepMetadata(meta) == meta

\* What an inherited environment keeps of the metadata of the launcher above it: nothing.
Inherited(meta) == [k \in DOMAIN meta \ InternalKeys |-> meta[k]]

BuildAutoTunedEnviron(sc, s, m, limits) ==
    LET u    == sc.user
        ident == "ORIGINAL_EXE" :> <<"text", sc.self>>
                 @@ "SELECTED_VARIANT" :> <<"text", FindVariant(sc.image, s.variant)>>
                 @@ "HOST_ARCH" :> <<"text", Detect(sc.hw).arch>> @@ "HOST_LEVEL" :> <<"text", Detect(sc.hw).level>>
                 @@ "EXEC_MODE" :> <<"text", m>> @@ "DISPATCH_MODE" :> <<"text", m>>
                 @@ "SELECTED_SIZE" :> Num(sc.image.size)
                 @@ Present("POLICY_APPLIED", s.applied # "", <<"text", s.applied>>)
                 @@ Inherited(sc.parent)
        plan == ResolveRuntimeTuning(limits, u, sc.image.size, m, u.go)
        told == PopulateCgroupEnviron(limits)
                @@ Present("CGROUP_GOMEMLIMIT", plan.mem # None, PlannedSetting(plan, "GOMEMLIMIT"))
                @@ Present("CGROUP_GOMAXPROCS", plan.procs # 0, PlannedSetting(plan, "GOMAXPROCS"))
                @@ Present("CGROUP_GOGC", plan.gc, PlannedSetting(plan, "GOGC"))
                @@ Present("CGROUP_GC_PROFILE", plan.profile # "default", <<"text", plan.profile>>)
                @@ Present("CGROUP_GOGC_SKIPPED_REASON", u.go["GOGC"] = Unset /\ plan.skipped, <<"text", "no ceiling">>)
    IN  IF limits.err \/ limits.version = 0
        THEN [go |-> u.go, meta |-> ident]
        ELSE [go   |-> IF RuntimeAutotuneStatus(u) = "enabled" THEN ApplyRuntimeTuningPlan(u.go, plan) ELSE u.go,
              meta |-> ident @@ told]

-----------------------------------------------------------------------------
\* runtimeinit

\* The options of an AutoTune call over the defaults; values out of range are ignored.
Configure(o, user) ==
    [ratio    |-> IF ValidRatio(o.ratio) THEN o.ratio ELSE DefaultMemoryRatio,
     headroom |-> IF o.headroom > 0 THEN o.headroom ELSE DefaultMinHeadroom,
     profile  |-> IF o.profile # "" THEN o.profile ELSE "default",
     heap     |-> IF o.heap > 0 THEN o.heap ELSE 0,
     gogc     |-> o.gogc,
     dryRun   |-> IF o.dryRun = "" THEN user.dryRun ELSE o.dryRun = "on",
     cpu      |-> ResolveCPUPolicy(user.cpu, ResolveCPUPolicy(o.cpu, "static"))]

\* An environment profile or estimate that parses wins over the option.
ResolveProfileAndLiveHeap(cfg, user) ==
    [profile |-> IF user.profile # "" /\ ~ ParseGCProfile(user.profile).err
                 THEN ParseGCProfile(user.profile).v ELSE cfg.profile,
     heap    |-> IF LiveHeap(user) > 0 THEN LiveHeap(user) ELSE cfg.heap]

\* An empty variable counts as unset here.
IsSet(v) == v \notin {Unset, Empty}

\* A limit that stays in force is asked of the runtime, never read from the environment.
ResolveGOGCPlan(plan, cfg, go, current) ==
    LET batch == IF plan.profile = "batch_etl" /\ cfg.gogc = NoGOGC /\ ~ IsSet(go["GOGC"])
                 THEN ResolveBatchGOGC(plan, IF IsSet(go["GOMEMLIMIT"]) \/ plan.mem = None THEN current ELSE plan.mem)
                 ELSE plan
    IN  IF cfg.gogc = NoGOGC THEN batch ELSE [batch EXCEPT !.gogc = cfg.gogc, !.gc = TRUE]

\* Storage that cannot be measured leaves no basis for a budget, unless the ceiling is zero.
WithRetained(limits, retained) ==
    IF retained # None THEN [limits EXCEPT !.retained = retained]
    ELSE IF EffectiveMemoryLimit(limits) = 0 THEN limits
    ELSE [limits EXCEPT !.max = None, !.high = None]

Skip(dry) == [mem |-> None, procs |-> 0, gc |-> 0, memApplied |-> FALSE, procsApplied |-> FALSE,
              gcApplied |-> FALSE, dryRun |-> dry, tuned |-> FALSE]

\* The result of a call and the runtime it leaves.
ApplyTuningPlan(plan, go, dry, r) ==
    LET mem   == ~ dry /\ ~ IsSet(go["GOMEMLIMIT"]) /\ plan.mem # None
        procs == ~ dry /\ ~ IsSet(go["GOMAXPROCS"]) /\ plan.procs > 0
        gc    == ~ dry /\ ~ IsSet(go["GOGC"]) /\ plan.gc
    IN  [runtime |-> [mem |-> IF mem THEN plan.mem ELSE r.mem, procs |-> IF procs THEN plan.procs ELSE r.procs,
                      gc |-> IF gc THEN plan.gogc ELSE r.gc],
         result  |-> [mem |-> IF mem \/ dry THEN plan.mem ELSE None, procs |-> IF procs \/ dry THEN plan.procs ELSE 0,
                      gc |-> IF gc \/ (dry /\ plan.gc) THEN plan.gogc ELSE 0, memApplied |-> mem,
                      procsApplied |-> procs, gcApplied |-> gc, dryRun |-> dry, tuned |-> TRUE]]

AutoTune(o, user, go, limits, retained, r) ==
    LET cfg  == Configure(o, user)
        act  == ResolveProfileAndLiveHeap(cfg, user)
        plan == ApplyCPUPolicy(ResolveTuningPlan(WithRetained(limits, retained), user.ratio, cfg.ratio,
                                                 cfg.headroom, act.profile, act.heap), cfg.cpu)
    IN  IF user.autotune = "off" \/ limits.err \/ limits.version = 0
        THEN [runtime |-> r, result |-> Skip(cfg.dryRun)]
        ELSE ApplyTuningPlan(ResolveGOGCPlan(plan, cfg, go, r.mem), go, cfg.dryRun, r)

\* How the Go runtime starts from its environment; a malformed GOMEMLIMIT ends the process.
GoRuntime(go) ==
    [mem   |-> IF go["GOMEMLIMIT"][1] = "bytes" THEN go["GOMEMLIMIT"][2] ELSE MaxInt64,
     procs |-> IF go["GOMAXPROCS"][1] = "num" /\ go["GOMAXPROCS"][2] > 0 THEN go["GOMAXPROCS"][2] ELSE 0,
     gc    |-> CASE go["GOGC"][1] = "off" -> Off [] go["GOGC"][1] = "num" -> go["GOGC"][2] [] OTHER -> 100]

-----------------------------------------------------------------------------
\* runtimeinfo: what the payload can read back of its launch.

Field(status, value) == [status |-> status, value |-> value]

TextField(meta, key) ==
    IF key \in DOMAIN meta THEN Field("present", meta[key]) ELSE Field("missing", Unset)

EnumField(meta, key, supported) ==
    LET f == TextField(meta, key)
    IN  IF f.status = "present" /\ f.value[2] \notin supported THEN Field("unsupported", Unset) ELSE f

IntegerField(meta, key, minimum) ==
    LET f == TextField(meta, key)
    IN  IF f.status = "present" /\ ~ (f.value[1] = "num" /\ f.value[2] >= minimum)
        THEN Field("invalid", Unset) ELSE f

GCField(meta, key) ==
    LET f == TextField(meta, key)
    IN  IF f.status = "present" /\ f.value[1] = "off" THEN Field("present", Num(Off)) ELSE IntegerField(meta, key, 0)

ReadLauncher(meta) ==
    [variant |-> TextField(meta, "SELECTED_VARIANT"), arch |-> EnumField(meta, "HOST_ARCH", {"amd64", "arm64"}),
     level |-> TextField(meta, "HOST_LEVEL"), execMode |-> EnumField(meta, "EXEC_MODE", {"memfd", "cache"}),
     dispatchMode |-> EnumField(meta, "DISPATCH_MODE", {"memfd", "cache"}), size |-> IntegerField(meta, "SELECTED_SIZE", 1),
     original |-> TextField(meta, "ORIGINAL_EXE"), policy |-> TextField(meta, "POLICY_APPLIED")]

ReadCgroup(meta) ==
    LET v == IntegerField(meta, "CGROUP_VERSION", 0)
    IN  [version |-> IF v.status = "present" /\ v.value[2] \notin {1, 2} THEN Field("unsupported", Unset) ELSE v,
         max |-> IntegerField(meta, "CGROUP_LIMIT_BYTES", 0), high |-> IntegerField(meta, "CGROUP_HIGH_BYTES", 0),
         effective |-> IntegerField(meta, "CGROUP_EFFECTIVE_LIMIT_BYTES", 0), cpus |-> TextField(meta, "CGROUP_CPUS"),
         memory |-> TextField(meta, "CGROUP_GOMEMLIMIT"), procs |-> IntegerField(meta, "CGROUP_GOMAXPROCS", 1),
         gc |-> GCField(meta, "CGROUP_GOGC"), profile |-> EnumField(meta, "CGROUP_GC_PROFILE", GCProfiles),
         skipped |-> TextField(meta, "CGROUP_GOGC_SKIPPED_REASON")]

-----------------------------------------------------------------------------
\* Inspection

\* --microfat:info: one candidate environment per execution path the launch may take.
BuildRuntimeInfo(user, size, limits) ==
    LET asked == ResolveRequestedExecMode(user)
        known == ~ limits.err /\ limits.version # 0
    IN  {[mode |-> m,
          go   |-> IF known /\ RuntimeAutotuneStatus(user) = "enabled"
                   THEN ApplyRuntimeTuningPlan(user.go, ResolveRuntimeTuning(limits, user, size, m, user.go))
                   ELSE user.go] : m \in IF asked = "auto" THEN {"cache", "memfd"} ELSE {asked}}

\* microfat doctor refuses an input it cannot parse, which a launch ignores.
DoctorInputsOK(user) ==
    /\ ~ ParseGCProfile(user.profile).err
    /\ user.heap.unit = "none" \/ ~ ParseByteSize(user.heap).err

BuildDoctorTuningPreview(user, limits) ==
    LET known == ~ limits.err /\ limits.version # 0
        p == ApplyCPUPolicy(ResolveTuningPlan(limits, user.ratio, DefaultMemoryRatio, DefaultMinHeadroom,
                                              ParseGCProfile(user.profile).v, LiveHeap(user)),
                            ResolveCPUPolicy(user.cpu, "static"))
        plan == IF user.go["GOMEMLIMIT"] = Unset THEN p
                ELSE ResolveBatchGOGC(p, RuntimeMemoryLimit(user.go["GOMEMLIMIT"]))
    IN  [k \in GoKeys |-> IF user.go[k] # Unset \/ ~ known \/ RuntimeAutotuneStatus(user) # "enabled"
                          THEN user.go[k] ELSE PlannedSetting(plan, k)]
=============================================================================
