------------------------------ MODULE Microarch ------------------------------
(***************************************************************************)
(* Detection of a host's microarchitecture level and selection of the      *)
(* variant it runs (internal/microarch).  A processor's features are a set *)
(* of names; a level as an image or a user spells it is a pair             *)
(* <<spelling, level>> whose second part is what Normalize leaves of it.   *)
(***************************************************************************)
EXTENDS Integers, Sequences, TLC

Unknown == -1

\* No level was asked for (an empty MICROFAT_FORCE_LEVEL or MICROFAT_MAX_LEVEL).
NoLevel == <<>>

X86v2 == {"lahf_lm", "cx16", "popcnt", "sse3", "ssse3", "sse4.1", "sse4.2"}
X86v3 == {"avx", "avx2", "bmi1", "bmi2", "fma", "osxsave", "f16c", "lzcnt", "movbe"}
X86v4 == {"avx512f", "avx512bw", "avx512cd", "avx512dq", "avx512vl"}

\* CPUID leaves: MOVBE and F16C need the basic leaf, LZCNT and LAHF the extended one.
ProbeX86ExtraFeatures(hw) ==
    hw.feats \cap ( (IF hw.basicLeaf THEN {"movbe", "f16c"} ELSE {})
                    \cup (IF hw.extLeaf THEN {"lzcnt", "lahf_lm"} ELSE {}) )

CurrentX86Features(hw) ==
    (hw.feats \ {"movbe", "f16c", "lzcnt", "lahf_lm"}) \cup ProbeX86ExtraFeatures(hw)

EvaluateAMD64(f) ==
    CASE ~ X86v2 \subseteq f -> "v1"
      [] ~ X86v3 \subseteq f -> "v2"
      [] ~ X86v4 \subseteq f -> "v3"
      [] OTHER               -> "v4"

Needs(prereqs, features) == [prereqs |-> prereqs, features |-> features]

ArmRequirements ==
    "v8.0" :> Needs({}, {"fp", "asimd"})
    @@ "v8.1" :> Needs({"v8.0"}, {"atomics", "crc32"})
    @@ "v8.2" :> Needs({"v8.1"}, {"fphp", "asimdhp"})
    @@ "v8.3" :> Needs({"v8.2"}, {"jscvt", "fcma", "lrcpc"})
    @@ "v8.4" :> Needs({"v8.3"}, {"dcpop", "asimddp"})
    @@ "v8.5" :> Needs({"v8.4"}, {"dit"})
    @@ "v8.6" :> Needs({"v8.5"}, {"i8mm", "bf16"})
    @@ "v8.7" :> Needs({"v8.6"}, {"wfxt"})
    @@ "v8.8" :> Needs({"v8.7"}, {"mops", "nmi", "hbc"})
    @@ "v8.9" :> Needs({"v8.8"}, {"gcs", "the"})
    @@ "v9.0" :> Needs({"v8.5"}, {"sve"})
    @@ "v9.1" :> Needs({"v9.0", "v8.6"}, {})
    @@ "v9.2" :> Needs({"v9.1"}, {"sve2"})
    @@ "v9.3" :> Needs({"v9.2"}, {"sme"})
    @@ "v9.4" :> Needs({"v9.3"}, {})
    @@ "v9.5" :> Needs({"v9.4"}, {"sme2"})

ArmLevels == DOMAIN ArmRequirements

ArmOrderedLevels ==
    << "v9.5", "v9.4", "v9.3", "v9.2", "v9.1", "v9.0", "v8.9", "v8.8",
       "v8.7", "v8.6", "v8.5", "v8.4", "v8.3", "v8.2", "v8.1", "v8.0" >>

\* The names a host's feature list can hold, as the three list builders write them.
SIMDFeatureList == {"fp", "asimd", "fphp", "asimdhp", "asimddp", "sve", "sve2", "i8mm",
                    "bf16", "sme", "sme2", "asimdfhm", "asimdrdm"}
CryptoFeatureList == {"aes", "pmull", "sha1", "sha2", "sha3", "sha512", "sm3", "sm4"}
CoreFeatureList == {"atomics", "crc32", "jscvt", "fcma", "lrcpc", "dcpop", "dit", "wfxt",
                    "mops", "nmi", "hbc", "gcs", "the"}

ExtractARM64FeatureList(f) ==
    f \cap (SIMDFeatureList \cup CryptoFeatureList \cup CoreFeatureList)

AuxvFeatures == {"bf16", "wfxt", "sme", "sme2", "mops", "hbc", "gcs"}
ProbedFeatures == (SIMDFeatureList \cup CryptoFeatureList \cup CoreFeatureList)
                  \ (AuxvFeatures \cup {"nmi", "the"})

\* NMI and THE have no probe; the auxiliary vector may be unreadable.
CurrentARM64Features(hw) ==
    hw.feats \cap (ProbedFeatures \cup (IF hw.auxv THEN AuxvFeatures ELSE {}))

FindMissingARM64Features(required, f) == required \ f

ArmSatisfied(f) ==
    LET sat[l \in ArmLevels] == /\ FindMissingARM64Features(ArmRequirements[l].features, f) = {}
                                /\ \A p \in ArmRequirements[l].prereqs : sat[p]
    IN  sat

\* The first satisfied level in descending order; v8.0 also when nothing is satisfied.
EvaluateARM64Detailed(f) ==
    LET sat  == ArmSatisfied(f)
        good == SelectSeq(ArmOrderedLevels, LAMBDA l : sat[l])
    IN  IF good = <<>> THEN "v8.0" ELSE good[1]

CanonicalArch(arch) ==
    CASE arch = "aarch64"              -> "arm64"
      [] arch \in {"x86_64", "x86-64"} -> "amd64"
      [] OTHER                         -> arch

\* What the launcher knows of its host.
Detect(hw) ==
    CASE hw.arch = "amd64" -> LET f == CurrentX86Features(hw)
                              IN  [arch |-> "amd64", level |-> EvaluateAMD64(f), feats |-> f]
      [] hw.arch = "arm64" -> LET f == CurrentARM64Features(hw)
                              IN  [arch |-> "arm64", level |-> EvaluateARM64Detailed(f),
                                   feats |-> ExtractARM64FeatureList(f)]
      [] OTHER             -> [arch |-> hw.arch, level |-> "v1", feats |-> {}]

Normalize(spelled) == spelled[2]

ArmRank == [l \in ArmLevels |-> 96 - (CHOOSE i \in 1..16 : ArmOrderedLevels[i] = l)]
AmdRank == "v1" :> 1 @@ "v2" :> 2 @@ "v3" :> 3 @@ "v4" :> 4

Rank(arch, level) ==
    CASE CanonicalArch(arch) = "amd64" -> IF level \in DOMAIN AmdRank THEN AmdRank[level] ELSE Unknown
      [] CanonicalArch(arch) = "arm64" -> IF level \in ArmLevels THEN ArmRank[level] ELSE Unknown
      [] OTHER                         -> IF level = "v1" THEN 1 ELSE Unknown

\* All features a level needs, its prerequisites' included.
CollectARM64Requirements(level) ==
    LET all[l \in ArmLevels] ==
          ArmRequirements[l].features \cup UNION {all[p] : p \in ArmRequirements[l].prereqs}
    IN  all[level]

\* Mutant: ARM levels compared by rank, as if each level contained all below it.
HostSupportsByRank(host, level) == Rank(host.arch, level) \in 0..Rank(host.arch, host.level)

HostSupports(host, level) ==
    IF CanonicalArch(host.arch) # "arm64"
    THEN Rank(host.arch, level) \in 0..Rank(host.arch, host.level)
    ELSE level \in ArmLevels /\ CollectARM64Requirements(level) \subseteq host.feats

SkylakeX(cpuinfo) ==
    cpuinfo.vendor \in {"GenuineIntel", ""} /\ cpuinfo.family = 6 /\ cpuinfo.model = 85

\* /proc/cpuinfo lists each core; the first non-empty value of a key counts.
ReadCPUInfo(lines) ==
    LET First(key, none) == LET found == SelectSeq(lines, LAMBDA l : l[1] = key /\ l[2] # none)
                            IN  IF found = <<>> THEN none ELSE found[1][2]
    IN  [vendor |-> First("vendor_id", ""), family |-> First("cpu family", 0),
         model |-> First("model", 0)]

DownclockPolicies == {"safe_avx512", "no_downclock"}

ReadPolicyFromEnv(env) ==
    [force |-> env.force, max |-> env.max, disabled |-> env.disabled,
     protect |-> env.avx512 \/ env.policy \in DownclockPolicies]

\* The highest rank the policy permits and what it applied.
ComputeEffectiveMaxRank(arch, hostRank, policy, cpuinfo) ==
    LET asked   == IF policy.max = NoLevel THEN Unknown ELSE Rank(arch, Normalize(policy.max))
        capped  == asked # Unknown /\ asked < hostRank
        max     == IF capped THEN asked ELSE hostRank
        guarded == /\ policy.protect /\ CanonicalArch(arch) = "amd64"
                   /\ hostRank >= 4 /\ SkylakeX(cpuinfo) /\ 3 < max
    IN  [rank    |-> IF guarded THEN 3 ELSE max,
         applied |-> IF guarded THEN "avx512_downclock_protection"
                     ELSE IF capped THEN "max_level" ELSE ""]

Refused(why) == [err |-> why, variant |-> NoLevel, applied |-> ""]

ResolveForcedVariant(arch, hostRank, available, force) ==
    LET forced  == Rank(arch, Normalize(force))
        matches == SelectSeq(available, LAMBDA v : Normalize(v) = Normalize(force))
    IN  IF forced = Unknown \/ forced > hostRank THEN Refused("incompatible")
        ELSE IF matches = <<>> THEN Refused("not_embedded")
        ELSE [err |-> "", variant |-> matches[1], applied |-> "force_level"]

FilterCandidates(arch, maxRank, available, disabled) ==
    SelectSeq(available, LAMBDA v : /\ Rank(arch, Normalize(v)) \in 0..maxRank
                                    /\ Normalize(v) \notin {Normalize(d) : d \in disabled})

\* sort.Slice may return any of several candidates of one rank first.
SelectCompatibleVariant(arch, hostLevel, available, policy, cpuinfo) ==
    LET hostRank == Rank(arch, hostLevel)
        cap  == ComputeEffectiveMaxRank(arch, hostRank, policy, cpuinfo)
        left == FilterCandidates(arch, cap.rank, available, policy.disabled)
        R(i) == Rank(arch, Normalize(left[i]))
        best == {i \in DOMAIN left : \A j \in DOMAIN left : R(j) <= R(i)}
    IN  CASE available = <<>>        -> {Refused("empty")}
          [] policy.force # NoLevel  -> {ResolveForcedVariant(arch, hostRank, available, policy.force)}
          [] left = <<>>             -> {Refused("no_match")}
          [] OTHER -> {[err |-> "", variant |-> left[i],
                        applied |-> IF cap.applied = "" /\ policy.disabled # {}
                                    THEN "disable_variants" ELSE cap.applied] : i \in best}

\* The possible results of SelectVariantForHost for an image of architecture arch.
SelectVariantForHost(arch, host, available, policy, cpuinfo) ==
    LET compatible == SelectSeq(available, LAMBDA v : HostSupports(host, Normalize(v)))
    IN  CASE \/ CanonicalArch(arch) # CanonicalArch(host.arch)
             \/ Rank(arch, host.level) < 0                       -> {Refused("no_match")}
          [] /\ policy.force # NoLevel
             /\ ~ HostSupports(host, Normalize(policy.force))    -> {Refused("incompatible")}
          [] available # <<>> /\ compatible = <<>>               -> {Refused("no_match")}
          [] OTHER -> SelectCompatibleVariant(arch, host.level, compatible, policy, cpuinfo)

=============================================================================
