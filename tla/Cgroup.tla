------------------------------- MODULE Cgroup -------------------------------
(***************************************************************************)
(* The container limits a process reads and the Go runtime settings        *)
(* derived from them (internal/cgroup).  A limit file is a pair            *)
(* <<kind, value>>; a hierarchy is the sequence of its directories from    *)
(* the process's own group up to the mount.  Memory is in bytes of a small *)
(* machine whose integers end at MaxInt64, a ratio in percent, and a CPU   *)
(* quota a pair <<quota, period>>.                                         *)
(***************************************************************************)
EXTENDS Integers, Sequences, FiniteSets, TLC

CONSTANTS MaxInt64, UnlimitedThreshold, DefaultMinHeadroom

ASSUME CgroupAssumption ==
    /\ MaxInt64 \in Nat /\ UnlimitedThreshold \in 1..MaxInt64 /\ DefaultMinHeadroom \in 1..MaxInt64

None == -1
DefaultMemoryRatio == 90
DefaultMemoryConstrainedRatio == 80
Off == -1

NoQuota == <<0, 1>>
Lower(q, r) == q[1] * r[2] < r[1] * q[2]

\* A file read: the value None stands for no limit, err for a file that must not be trusted.
Got(v) == [err |-> FALSE, v |-> v]
Corrupted == [err |-> TRUE, v |-> None]

ReadCgroupV2MemoryValue(file) ==
    CASE file[1] \in {"absent", "max"}       -> Got(None)
      [] file[1] = "num" /\ file[2] >= 0     -> Got(file[2])
      [] OTHER                               -> Corrupted

ReadCgroupV1Memory(file) ==
    CASE \/ file[1] = "absent"
         \/ file = <<"num", -1>>
         \/ file[1] = "num" /\ file[2] >= UnlimitedThreshold -> Got(None)
      [] file[1] = "num" /\ file[2] > 0                      -> Got(file[2])
      [] OTHER                                               -> Corrupted

\* cpu.max holds a quota and a period; <<"max", period>> is no quota.
ReadCgroupV2CPU(file) ==
    CASE file[1] = "absent"                               -> Got(NoQuota)
      [] file[1] = "max" /\ file[2] > 0                   -> Got(NoQuota)
      [] file[1] = "num" /\ file[2][1] > 0 /\ file[2][2] > 0 -> Got(file[2])
      [] OTHER                                            -> [err |-> TRUE, v |-> NoQuota]

\* Two files: without either there is no quota; a quota of -1 is none, with a sound period.
ReadCgroupV1CPU(quota, period) ==
    LET Bad == [err |-> TRUE, v |-> NoQuota]
    IN  CASE quota[1] = "absent"                             -> Got(NoQuota)
          [] quota[1] = "unreadable"                         -> Bad
          [] period[1] = "absent"                            -> Got(NoQuota)
          [] period[1] # "num" \/ period[2] <= 0             -> Bad
          [] quota = <<"num", -1>>                           -> Got(NoQuota)
          [] quota[1] = "num" /\ quota[2] > 0                -> Got(<<quota[2], period[2]>>)
          [] OTHER                                           -> Bad

\* The walk from the target directory to the root: the tightest limit seen, or the first bad file.
Traverse(reads, none, Tighter(_, _)) ==
    LET acc[i \in 0..Len(reads)] ==
          IF i = 0 THEN Got(none)
          ELSE CASE acc[i-1].err -> acc[i-1]
                 [] reads[i].err -> [err |-> TRUE, v |-> none]
                 [] /\ reads[i].v # none
                    /\ acc[i-1].v = none \/ Tighter(reads[i].v, acc[i-1].v) -> reads[i]
                 [] OTHER -> acc[i-1]
    IN  acc[Len(reads)]

TraverseCgroupV2Memory(values) ==
    Traverse([i \in DOMAIN values |-> ReadCgroupV2MemoryValue(values[i])], None, <)
TraverseCgroupV2CPU(quotas) ==
    Traverse([i \in DOMAIN quotas |-> ReadCgroupV2CPU(quotas[i])], NoQuota, Lower)
TraverseCgroupV1Memory(files) ==
    Traverse([i \in DOMAIN files |-> ReadCgroupV1Memory(files[i])], None, <)
TraverseCgroupV1CPU(files) ==
    Traverse([i \in DOMAIN files |-> ReadCgroupV1CPU(files[i][1], files[i][2])], NoQuota, Lower)

\* Limits: version 0 is unknown; max and high are None when not finite.
UnknownLimits(err) == [version |-> 0, max |-> None, high |-> None, cpu |-> NoQuota,
                       retained |-> 0, err |-> err]

\* A relative path names the mount, a directory below it, or nothing that can be found.
ResolveTargetDirectory(path) == path \notin {"empty", "escaping", "missing"}

ReadCgroupV2(cg, path) ==
    LET max  == TraverseCgroupV2Memory([i \in DOMAIN cg.dirs |-> cg.dirs[i].max])
        high == TraverseCgroupV2Memory([i \in DOMAIN cg.dirs |-> cg.dirs[i].high])
        cpu  == TraverseCgroupV2CPU([i \in DOMAIN cg.dirs |-> cg.dirs[i].cpu])
    IN  IF ~ ResolveTargetDirectory(path) \/ max.err \/ high.err \/ cpu.err
        THEN UnknownLimits(TRUE)
        ELSE [UnknownLimits(FALSE) EXCEPT !.version = 2, !.max = max.v, !.high = high.v, !.cpu = cpu.v]

\* A v1 controller counts when /proc/self/cgroup lists it with a path and its mount exists.
V1Used(c, path) == path \notin {"unlisted", "empty"} /\ c.mounted

ReadCgroupV1(cg, paths) ==
    LET mem == TraverseCgroupV1Memory(cg.mem.files)
        cpu == TraverseCgroupV1CPU(cg.cpu.files)
        Bad(c, path, r) == V1Used(c, path) /\ (~ ResolveTargetDirectory(path) \/ r.err)
    IN  CASE paths.memory = "unlisted" /\ paths.cpu = "unlisted"                    -> UnknownLimits(FALSE)
          [] Bad(cg.mem, paths.memory, mem) \/ Bad(cg.cpu, paths.cpu, cpu)          -> UnknownLimits(TRUE)
          [] OTHER -> [UnknownLimits(FALSE) EXCEPT !.version = 1,
                         !.max = IF V1Used(cg.mem, paths.memory) THEN mem.v ELSE None,
                         !.cpu = IF V1Used(cg.cpu, paths.cpu) THEN cpu.v ELSE NoQuota]

\* /proc/self/cgroup: lines other than entries are skipped and the last entry of a controller counts;
\* the entry of hierarchy 0 without controllers is that of the unified hierarchy.
ParseProcCgroup(proc) ==
    LET entries == SelectSeq(proc.lines, LAMBDA l : l.entry)
        Path(Names(_)) == LET found == SelectSeq(entries, Names)
                          IN  IF found = <<>> THEN "unlisted" ELSE found[Len(found)].path
    IN  [err |-> ~ proc.readable \/ entries = <<>>,
         unified |-> Path(LAMBDA l : l.hierarchy = 0 /\ l.controllers = {}),
         memory |-> Path(LAMBDA l : "memory" \in l.controllers), cpu |-> Path(LAMBDA l : "cpu" \in l.controllers)]

\* A unified mount needs its entry; the v1 controllers are looked up one by one.
ReadLimits(cg) ==
    LET paths == ParseProcCgroup(cg.proc)
    IN  CASE ~ cg.mount \/ paths.err                              -> UnknownLimits(TRUE)
          [] cg.layout = "v2" /\ paths.unified = "unlisted"       -> UnknownLimits(FALSE)
          [] cg.layout = "v2" /\ paths.unified # "unlisted"       -> ReadCgroupV2(cg, paths.unified)
          [] cg.layout = "v1"                                     -> ReadCgroupV1(cg, paths)
          [] OTHER                                                -> UnknownLimits(FALSE)

CalculateEffectiveMemoryLimit(max, high) ==
    CASE max > 0 /\ high > 0 -> IF high < max THEN high ELSE max
      [] high > 0            -> high
      [] max > 0             -> max
      [] OTHER               -> 0

\* The ceiling used for tuning, None when there is none: zero is a ceiling.
EffectiveMemoryLimit(l) ==
    CASE l.max = 0 \/ l.high = 0             -> 0
      [] l.max # None \/ l.high # None       -> CalculateEffectiveMemoryLimit(l.max, l.high)
      [] OTHER                               -> None

ConstrainingMemoryLimit(l) ==
    CASE l.high # None /\ (l.max = None \/ l.high < l.max) -> "high"
      [] l.max # None                                      -> "max"
      [] OTHER                                             -> ""

Smaller(a, b) == IF a < b THEN a ELSE b

ValidRatio(r) == r > 0 /\ r <= 100

\* None when the limit is unlimited or leaves no budget.
CalculateGOMEMLIMIT(limit, ratio, headroom) ==
    LET r        == IF ValidRatio(ratio) THEN ratio ELSE DefaultMemoryRatio
        h        == IF headroom <= 0 THEN DefaultMinHeadroom ELSE headroom
        reserved == Smaller(h, limit - limit \div 2)
        budget   == Smaller((limit * r) \div 100, limit - reserved)
    IN  IF limit <= 0 \/ limit >= UnlimitedThreshold \/ budget <= 0 THEN None ELSE budget

\* 0 when there is no quota.
CalculateGOMAXPROCS(quota) ==
    IF quota[1] <= 0 THEN 0 ELSE IF quota[1] < quota[2] THEN 1 ELSE quota[1] \div quota[2]

RetainedMemoryLimit(limit, retained) ==
    IF retained < 0 \/ retained >= limit THEN 0 ELSE limit - retained

\* Rounded up to whole pages, as both the launcher and the kernel count the file.
PageRound(size, page) == ((size + page - 1) \div page) * page

CPUPolicies == {"static", "native"}

ResolveCPUPolicy(env, fallback) ==
    CASE env \in CPUPolicies      -> env
      [] fallback \in CPUPolicies -> fallback
      [] OTHER                    -> "static"

ApplyCPUPolicy(plan, policy) ==
    IF policy = "native" THEN [plan EXCEPT !.procs = 0] ELSE plan

GCProfiles == {"default", "latency_critical", "memory_constrained", "batch_etl", "adaptive"}

\* Empty is default; an unknown name is an error, and default to the callers that ignore it.
ParseGCProfile(s) ==
    [err |-> s # "" /\ s \notin GCProfiles, v |-> IF s \in GCProfiles THEN s ELSE "default"]

\* Go's GOMEMLIMIT values as pairs; 0 stands for what is not a finite limit.
RuntimeMemoryLimit(value) ==
    IF value[1] = "bytes" /\ value[2] > 0 /\ value[2] < MaxInt64 THEN value[2] ELSE 0

\* Periodic collection is switched off only under a finite memory limit.
ResolveBatchGOGC(plan, memoryLimit) ==
    CASE plan.profile # "batch_etl"                    -> plan
      [] memoryLimit <= 0 \/ memoryLimit = MaxInt64    -> [plan EXCEPT !.gogc = 0, !.gc = FALSE, !.skipped = TRUE]
      [] OTHER                                         -> [plan EXCEPT !.gogc = Off, !.gc = TRUE, !.skipped = FALSE]

\* Clamped to 10..100 and rounded to the nearest percent; None without both amounts.
CalculateAdaptiveGOGC(headroom, live) ==
    LET scaled == (headroom - live) * 100
    IN  CASE headroom <= 0 \/ live <= 0 -> None
          [] scaled < 10 * live         -> 10
          [] scaled > 100 * live        -> 100
          [] OTHER                      -> (2 * scaled + live) \div (2 * live)

\* A plan: mem None when no GOMEMLIMIT is planned (0 is a planned zero), procs and gogc 0 when unset.
ApplyProfileGOGC(plan, live) ==
    LET Set(g) == [plan EXCEPT !.gogc = g, !.gc = TRUE]
    IN  CASE plan.profile = "latency_critical"   -> Set(75)
          [] plan.profile = "memory_constrained" -> Set(40)
          [] plan.profile = "batch_etl"          -> ResolveBatchGOGC(plan, IF plan.mem = None THEN 0 ELSE plan.mem)
          [] plan.profile = "adaptive" /\ live > 0 /\ plan.mem > 0 -> Set(CalculateAdaptiveGOGC(plan.mem, live))
          [] OTHER                               -> plan

\* An environment ratio that is no ratio is ignored.
ResolveTuningRatio(envRatio, default, profile) ==
    CASE ValidRatio(envRatio) -> envRatio
      [] profile = "memory_constrained" /\ default = DefaultMemoryRatio -> DefaultMemoryConstrainedRatio
      [] ValidRatio(default)  -> default
      [] OTHER                -> DefaultMemoryRatio

ResolveTuningPlan(limits, envRatio, default, headroom, profile, live) ==
    LET ratio     == ResolveTuningRatio(envRatio, default, profile)
        effective == EffectiveMemoryLimit(limits)
        usable    == RetainedMemoryLimit(effective, limits.retained)
        mem       == IF usable > 0 THEN CalculateGOMEMLIMIT(usable, ratio, headroom) ELSE None
        planned   == IF effective = 0 THEN 0 ELSE mem
    IN  ApplyProfileGOGC([mem |-> planned, procs |-> CalculateGOMAXPROCS(limits.cpu), ratio |-> ratio,
                          constraint |-> IF planned = None THEN "" ELSE ConstrainingMemoryLimit(limits),
                          profile |-> profile, gogc |-> 0, gc |-> FALSE, skipped |-> FALSE], live)

-----------------------------------------------------------------------------
\* Byte sizes: a token is the digits before and after the point, and a unit.

ByteMultiplier == "b" :> 1 @@ "k" :> 1024 @@ "m" :> 1024 * 1024

Failed == [err |-> TRUE, v |-> 0]

\* The checked decimal arithmetic of ParseByteSize, most significant whole digit first.
WholeDigits(digits, maxWhole) ==
    LET acc[i \in 0..Len(digits)] ==
          IF i = 0 THEN 0
          ELSE LET d == digits[i]
                   w == acc[i-1]
               IN  IF w = None \/ w > maxWhole \div 10 \/ (w = maxWhole \div 10 /\ d > maxWhole % 10)
                   THEN None ELSE w * 10 + d
    IN  acc[Len(digits)]

\* Mutant: only the first digit left decides whether a fraction remains.
FirstDigitOnly(digits, mult) ==
    LET n == Len(digits)
        acc[i \in 0..n] == IF i = 0 THEN [carry |-> 0, first |-> 0, nonzero |-> FALSE]
                           ELSE LET v == digits[n + 1 - i] * mult + acc[i-1].carry
                                IN  [carry |-> v \div 10, first |-> v % 10, nonzero |-> v % 10 # 0]
    IN  acc[n]

\* From the last fraction digit to the first: the carry into the bytes, and the digits left.
FractionDigits(digits, mult) ==
    LET n == Len(digits)
        acc[i \in 0..n] ==
          IF i = 0 THEN [carry |-> 0, first |-> 0, nonzero |-> FALSE]
          ELSE LET v == digits[n + 1 - i] * mult + acc[i-1].carry
               IN  [carry |-> v \div 10, first |-> v % 10, nonzero |-> acc[i-1].nonzero \/ v % 10 # 0]
    IN  acc[n]

ParseByteSize(tok) ==
    IF tok.whole \o tok.frac = <<>> \/ tok.unit \notin DOMAIN ByteMultiplier THEN Failed
    ELSE LET mult  == ByteMultiplier[tok.unit]
             whole == WholeDigits(tok.whole, MaxInt64 \div mult)
             frac  == FractionDigits(tok.frac, mult)
             bytes == whole * mult + frac.carry
         IN  CASE whole = None                              -> Failed
               [] frac.carry > MaxInt64 - whole * mult      -> Failed
               [] bytes = MaxInt64 /\ frac.nonzero          -> Failed
               [] frac.first >= 5                           -> [err |-> FALSE, v |-> bytes + 1]
               [] OTHER                                     -> [err |-> FALSE, v |-> bytes]
=============================================================================
