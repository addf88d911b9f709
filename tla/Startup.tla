------------------------------- MODULE Startup -------------------------------
(***************************************************************************)
(* One start of a fat binary from the launcher's first check to the tuned  *)
(* payload: selection of the variant, the environment built for the        *)
(* execution path actually taken, the Go runtime's own start, and the      *)
(* payload's calls of runtimeinit.  The container's limits may change      *)
(* between the steps, each of which reads them anew.  The same scene can   *)
(* first be inspected (--microfat:info, microfat doctor), which predicts   *)
(* what the launch will do.                                                *)
(***************************************************************************)
EXTENDS RuntimeTuning

CONSTANT Scenes   \* a tuple of sets of scenes

VARIABLES
    scene,   \* host, image, environment, options and container of this start
    cg,      \* the container's files, as they are now
    pc,      \* start, dispatch, exec, running, or how it ended
    sel,     \* result of the selection
    tried,   \* execution paths tried, the current one last
    env,     \* the payload's environment: Go settings and launcher metadata
    rt,      \* the payload's Go runtime: memory limit, processors, GC percentage
    calls,   \* results of the payload's AutoTune calls, oldest first
    seen,    \* what the inspections said, with the container they saw
    basis    \* the container as it was read for the memory and the CPU setting in force

vars == <<scene, cg, pc, sel, tried, env, rt, calls, seen, basis>>

NoEnv == [go |-> [k \in GoKeys |-> Unset], meta |-> <<>>]
NoRuntime == [mem |-> MaxInt64, procs |-> 0, gc |-> 100]

Selections ==
    SelectVariantForHost(scene.image.arch, Detect(scene.hw), scene.image.levels,
                         ReadPolicyFromEnv(scene.policy), ReadCPUInfo(scene.cpuinfo))

Mode == tried[Len(tried)]

Init ==
    /\ \E i \in DOMAIN Scenes : scene \in Scenes[i]
    /\ cg = scene.cg
    /\ pc = "start" /\ sel = Refused("none") /\ tried = <<>>
    /\ env = NoEnv /\ rt = NoRuntime /\ calls = <<>> /\ basis = [mem |-> cg, cpu |-> cg]
    /\ seen = [info |-> <<>>, doctor |-> <<>>]

\* The orchestrator rewrites the container's limits.
ChangeLimits ==
    /\ pc \notin {"failed", "crashed", "answered"}
    /\ cg' \in scene.later \ {cg}
    /\ UNCHANGED <<scene, pc, sel, tried, env, rt, calls, seen, basis>>

\* Someone runs the binary with --microfat:info first.
InspectImage ==
    /\ pc = "start" /\ scene.inspect /\ seen.info = <<>> /\ CheckLauncherPrivilege(scene.proc)
    /\ \E s \in Selections :
         seen' = [seen EXCEPT !.info = <<[cg |-> cg, cands |->
                    IF s.err # "" THEN {} ELSE BuildRuntimeInfo(scene.user, scene.image.size, ReadLimits(cg))]>>]
    /\ UNCHANGED <<scene, cg, pc, sel, tried, env, rt, calls, basis>>

\* Someone runs microfat doctor in the same container.
RunDoctor ==
    /\ pc = "start" /\ scene.inspect /\ seen.doctor = <<>>
    /\ seen' = [seen EXCEPT !.doctor = <<[cg |-> cg, ok |-> DoctorInputsOK(scene.user),
                                          go |-> BuildDoctorTuningPreview(scene.user, ReadLimits(cg))]>>]
    /\ UNCHANGED <<scene, cg, pc, sel, tried, env, rt, calls, basis>>

\* Commands that answer without a compatible variant; the others need one.
SelectionFreeCommands == {"help", "info", "prewarm"}
MetaCommands == SelectionFreeCommands \cup {"trim", "trim-to", "optimize", "optimize-to"}

Start ==
    /\ pc = "start"
    /\ IF ~ CheckLauncherPrivilege(scene.proc)
       THEN pc' = "failed" /\ UNCHANGED sel
       ELSE \E s \in Selections :
              /\ sel' = s
              /\ pc' = CASE s.err # ""   -> IF scene.command \in SelectionFreeCommands THEN "answered" ELSE "failed"
                         [] scene.command \in MetaCommands -> "answered"
                         [] OTHER -> "dispatch"
    /\ UNCHANGED <<scene, cg, tried, env, rt, calls, seen, basis>>

\* The environment is built again for every path that is tried.
Try(m) ==
    /\ env' = BuildAutoTunedEnviron(scene, sel, m, ReadLimits(cg))
    /\ basis' = [mem |-> cg, cpu |-> cg]
    /\ tried' = Append(tried, m)
    /\ pc' = "exec"
    /\ UNCHANGED <<scene, cg, sel, rt, calls, seen>>

Requested == ResolveRequestedExecMode(scene.user)

\* A verified entry that is already cached, or the materialising path the user asked for.
TryCache ==
    /\ pc = "dispatch" /\ Requested \in {"auto", "cache"} /\ tried = <<>>
    /\ Try("cache")

TryMemfd ==
    /\ pc = "dispatch"
    /\ \/ Requested = "memfd" /\ tried = <<>>
       \/ Requested = "auto" /\ tried \in {<<>>, <<"cache">>}
    /\ Try("memfd")

\* A sealed memory file that could not run falls back to the cache, unless the cache was tried.
MaterializeCache ==
    /\ pc = "dispatch" /\ Requested = "auto" /\ tried = <<"memfd">>
    /\ Try("cache")

ExecFails ==
    /\ pc = "exec"
    /\ pc' = "dispatch"
    /\ UNCHANGED <<scene, cg, sel, tried, env, rt, calls, seen, basis>>

\* Extraction failed, or no path is left.
GiveUp ==
    /\ pc = "dispatch"
    /\ pc' = "failed"
    /\ UNCHANGED <<scene, cg, sel, tried, env, rt, calls, seen, basis>>

Execve ==
    /\ pc = "exec"
    /\ IF env.go["GOMEMLIMIT"][1] = "bad"
       THEN pc' = "crashed" /\ UNCHANGED rt
       ELSE pc' = "running" /\ rt' = GoRuntime(env.go)
    /\ UNCHANGED <<scene, cg, sel, tried, env, calls, seen, basis>>

\* The program changes a variable of its own environment; the runtime does not notice.
Setenv ==
    /\ pc = "running" /\ scene.setenv # Unset /\ env.go["GOMEMLIMIT"] # scene.setenv
    /\ env' = [env EXCEPT !.go["GOMEMLIMIT"] = scene.setenv]
    /\ UNCHANGED <<scene, cg, pc, sel, tried, rt, calls, seen, basis>>

\* The kernel's account of the running executable, None when it cannot be read.
RetainedExecutableMemory ==
    IF scene.unmeasured THEN None ELSE IF Mode = "memfd" THEN PageRound(scene.image.size, Page) ELSE 0

CallAutoTune ==
    /\ pc = "running" /\ Len(calls) < Len(scene.options)
    /\ LET t == AutoTune(scene.options[Len(calls) + 1], scene.user, env.go, ReadLimits(cg),
                         RetainedExecutableMemory, rt)
       IN  /\ rt' = t.runtime
           /\ calls' = Append(calls, t.result)
           /\ basis' = [mem |-> IF t.result.memApplied THEN cg ELSE basis.mem,
                        cpu |-> IF t.result.procsApplied THEN cg ELSE basis.cpu]
    /\ UNCHANGED <<scene, cg, pc, sel, tried, env, seen>>

Next ==
    \/ ChangeLimits \/ InspectImage \/ RunDoctor \/ Start
    \/ TryCache \/ TryMemfd \/ MaterializeCache \/ ExecFails \/ GiveUp \/ Execve
    \/ Setenv \/ CallAutoTune

Spec == Init /\ [][Next]_vars

-----------------------------------------------------------------------------
\* The instructions a build of a level may use.
Instructions(arch, level) ==
    CASE arch = "arm64" -> CollectARM64Requirements(level)
      [] level = "v1" -> {} [] level = "v2" -> X86v2
      [] level = "v3" -> X86v2 \cup X86v3 [] level = "v4" -> X86v2 \cup X86v3 \cup X86v4

\* What the user's policy leaves of the embedded levels.
Permitted(l) ==
    LET p == scene.policy
        Below(cap) == Rank(scene.hw.arch, l) <= Rank(scene.hw.arch, Normalize(cap))
    IN  IF p.force # NoLevel THEN l = Normalize(p.force)
        ELSE /\ l \notin {Normalize(d) : d \in p.disabled}
             /\ p.max = NoLevel \/ Rank(scene.hw.arch, Normalize(p.max)) = Unknown \/ Below(p.max)
             /\ (p.avx512 \/ p.policy \in DownclockPolicies) /\ SkylakeX(ReadCPUInfo(scene.cpuinfo))
                /\ scene.hw.arch = "amd64" /\ EvaluateAMD64(CurrentX86Features(scene.hw)) = "v4" => l # "v4"

Running == pc \in {"running", "exec"}

\* The variant handed to execve uses no instruction the processor lacks and respects the user's
\* policy, and no better embedded variant that the probes show to be runnable was passed over
\* (microarch.go SelectVariantForHost, the level tables and the probes together).
SelectionIsBest ==
    Running =>
        LET arch == scene.hw.arch
            l    == Normalize(sel.variant)
        IN  /\ CheckLauncherPrivilege(scene.proc)
            /\ sel.variant \in {scene.image.levels[i] : i \in DOMAIN scene.image.levels}
            /\ Instructions(arch, l) \subseteq scene.hw.feats
            /\ Permitted(l)
            /\ \A i \in DOMAIN scene.image.levels :
                 LET k == Normalize(scene.image.levels[i])
                 IN  Rank(arch, k) > Rank(arch, l) => ~ Permitted(k) \/ ~ Instructions(arch, k) \subseteq Detect(scene.hw).feats

\* The finite ceilings and the quotas the files of a container declare on the way to its root.
Declared(c) ==
    CASE c.layout = "v2" -> {c.dirs[i].max : i \in DOMAIN c.dirs} \cup {c.dirs[i].high : i \in DOMAIN c.dirs}
      [] c.layout = "v1" /\ V1Used(c.mem, ParseProcCgroup(c.proc).memory) ->
           {f \in {c.mem.files[i] : i \in DOMAIN c.mem.files} : f[1] # "num" \/ f[2] \in 0..UnlimitedThreshold - 1}
      [] OTHER -> {}

Ceilings(c) == {f[2] : f \in {g \in Declared(c) : g[1] = "num"}}

Quotas(c) ==
    CASE c.layout = "v2" -> {c.dirs[i].cpu[2] : i \in {j \in DOMAIN c.dirs : c.dirs[j].cpu[1] = "num"}}
      [] c.layout = "v1" /\ V1Used(c.cpu, ParseProcCgroup(c.proc).cpu) ->
           {<<c.cpu.files[i][1][2], c.cpu.files[i][2][2]>> :
              i \in {j \in DOMAIN c.cpu.files : c.cpu.files[j][1][1] = "num" /\ c.cpu.files[j][2][1] = "num"
                                                 /\ c.cpu.files[j][1] # <<"num", -1>>}}
      [] OTHER -> {}

Corrupt(c) == \E f \in Declared(c) : f[1] \notin {"num", "max", "absent"}

TrueRetained == IF Mode = "memfd" THEN PageRound(scene.image.size, Page) ELSE 0

\* A memory limit that tuning chose leaves room, under every ceiling declared between the process and
\* the root when it was chosen, for the executable the kernel keeps in memory and for something besides
\* the heap; no limit is chosen from files that cannot be trusted; and tuned parallelism
\* never exceeds a declared quota, except for the one processor every program needs
\* (cgroup.go CalculateGOMEMLIMIT and the traversals, exec_linux.go buildAutoTunedEnviron, AutoTune).
BudgetFitsCeiling ==
    pc = "running" =>
        /\ ~ IsSet(scene.user.go["GOMEMLIMIT"]) /\ rt.mem # MaxInt64 =>
             /\ ~ Corrupt(basis.mem) /\ Ceilings(basis.mem) # {}
             /\ \A c \in Ceilings(basis.mem) :
                  \/ rt.mem = 0 /\ 0 \in Ceilings(basis.mem)
                  \/ rt.mem + TrueRetained < c
        /\ ~ IsSet(scene.user.go["GOMAXPROCS"]) /\ rt.procs # 0 =>
             /\ Quotas(basis.cpu) # {}
             /\ \A q \in Quotas(basis.cpu) : rt.procs = 1 \/ rt.procs * q[2] <= q[1]

\* Tuning switches periodic collection off only while a finite memory limit is active in the runtime,
\* however often and with whatever options the payload tunes again, and whatever its environment
\* says by then (batch_gc.go ResolveBatchGOGC, runtimeinit.go resolveGOGCPlan).
GCOffNeedsCeiling ==
    /\ pc = "running" /\ rt.gc = Off /\ ~ IsSet(scene.user.go["GOGC"])
    /\ \A i \in DOMAIN scene.options : scene.options[i].gogc # Off
    => rt.mem # MaxInt64

\* Tuning is safe: its limits fit the ceilings they come from, and collection is off only under one.
TuningIsSafe == BudgetFitsCeiling /\ GCOffNeedsCeiling

\* A setting that is present in the environment, empty or not, is handed over as it is by the
\* launcher, and is what the runtime runs with whatever later calls of AutoTune compute.  There is
\* one exception: AutoTune takes an empty value for an absent one (runtimeinit.go:290, 299, 309), so
\* a call that reports a setting as applied may have replaced an empty one, and nothing else.  With
\* tuning disabled nothing else is set either, and a call that reports a setting as applied has
\* applied it (applyRuntimeTuningPlan, applyTuningPlan).
UserSettingsWin ==
    pc = "running" =>
        /\ \A k \in GoKeys : scene.user.go[k] # Unset => env.go[k] = scene.user.go[k] \/ env.go[k] = scene.setenv
        /\ \A s \in {<<"GOMEMLIMIT", "mem", "memApplied">>, <<"GOMAXPROCS", "procs", "procsApplied">>,
                      <<"GOGC", "gc", "gcApplied">>} :
              scene.user.go[s[1]] # Unset =>
                 \/ rt[s[2]] = GoRuntime(scene.user.go)[s[2]]
                 \/ scene.user.go[s[1]] = Empty /\ \E i \in DOMAIN calls : calls[i][s[3]]
        /\ scene.user.autotune = "off" => rt = GoRuntime(scene.user.go)
        /\ calls # <<>> => LET r == calls[Len(calls)]
                           IN  /\ r.memApplied => rt.mem = r.mem
                               /\ r.procsApplied => rt.procs = r.procs
                               /\ r.gcApplied => rt.gc = r.gc
                               /\ r.dryRun => ~ r.memApplied /\ ~ r.procsApplied /\ ~ r.gcApplied

\* The candidates --microfat:info printed contain the Go settings the launch then hands over on the
\* path it takes, and the doctor's preview is exactly those of the cache path, provided the
\* container's limits did not change in between (runtime_info.go, doctor_tuning.go).
InspectionAgreesWithLaunch ==
    pc = "exec" =>
        /\ seen.info # <<>> /\ ReadLimits(seen.info[1].cg) = ReadLimits(basis.mem) =>
             [mode |-> Mode, go |-> env.go] \in seen.info[1].cands
        /\ /\ seen.doctor # <<>> /\ Mode = "cache"
           /\ seen.doctor[1].ok /\ ReadLimits(seen.doctor[1].cg) = ReadLimits(basis.mem)
           => seen.doctor[1].go = env.go

\* The payload reads back exactly this launch: every field parses, the path, variant and policy are
\* those of this process and never those of a launcher above it, and the recommendations are the
\* settings it received unless the user had set them (exec_linux.go, runtimeinfo).
SnapshotReportsLaunch ==
    pc = "exec" =>
        LET s == ReadLauncher(env.meta)
            c == ReadCgroup(env.meta)
            l == ReadLimits(basis.mem)
            Received(k, f) == /\ RuntimeAutotuneStatus(scene.user) = "enabled" /\ scene.user.go[k] = Unset
                              => env.go[k] = IF f.status = "missing" THEN Unset
                                             ELSE IF f.value = Num(Off) THEN <<"off", 0>> ELSE f.value
        IN  /\ \A k \in DOMAIN s : s[k].status \in {"present", "missing"}
            /\ \A k \in DOMAIN c : c[k].status \in {"present", "missing"}
            /\ s.execMode.value = <<"text", Mode>> /\ s.dispatchMode.value = <<"text", Mode>>
            /\ Normalize(s.variant.value[2]) = Normalize(sel.variant)
            /\ s.original.value = <<"text", scene.self>>
            /\ s.policy = IF sel.applied = "" THEN Field("missing", Unset) ELSE Field("present", <<"text", sel.applied>>)
            /\ c.version = IF l.version = 0 THEN Field("missing", Unset) ELSE Field("present", Num(l.version))
            /\ c.effective.status = "present" <=> l.version # 0 /\ EffectiveMemoryLimit(l) # None
            /\ Received("GOMEMLIMIT", c.memory) /\ Received("GOMAXPROCS", c.procs) /\ Received("GOGC", c.gc)

\* What is reported about a launch is this launch: by the two inspections before it, and by the
\* snapshot its payload reads.
ReportsMatchLaunch == InspectionAgreesWithLaunch /\ SnapshotReportsLaunch

\* A byte size is the exact decimal product rounded half up, and is refused exactly when it has no
\* digits, an unknown unit, or a value above the largest integer (cgroup.go ParseByteSize).
ByteSizeIsExact ==
    LET t     == scene.user.heap
        all   == t.whole \o t.frac
        num   == LET n[i \in 0..Len(all)] == IF i = 0 THEN 0 ELSE n[i-1] * 10 + all[i] IN n[Len(all)]
        scale == 10 ^ Len(t.frac)
        exact == num * ByteMultiplier[t.unit]
        valid == t.unit \in DOMAIN ByteMultiplier /\ all # <<>>
    IN  t.unit # "none" =>
          IF valid /\ exact <= MaxInt64 * scale
          THEN ParseByteSize(t) = [err |-> FALSE, v |-> (2 * exact + scale) \div (2 * scale)]
          ELSE ParseByteSize(t).err
=============================================================================
