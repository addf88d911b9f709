------------------------------ MODULE Manifest ------------------------------
(***************************************************************************)
(* The build manifest (manifest.go, target_env.go, buildinfo.go and the    *)
(* option assembly of builder.go, internal/builder): its validation, the   *)
(* compiler environment of a variant, the check of the build settings an   *)
(* artifact carries, profiles, and the options handed to the packager.     *)
(*                                                                         *)
(* A word that the code compares without regard to case or blanks is a     *)
(* pair <<spelling, word>>.  The value of an environment variable or build *)
(* setting is the sequence of its comma-separated parts, so <<"">> is the  *)
(* empty string.                                                           *)
(***************************************************************************)
EXTENDS Microarch, Codec, SequencesExt

Reserved == {"GOOS", "GOARCH", "GOAMD64", "GOARM64"}
TierKey(arch) == IF arch = "amd64" THEN "GOAMD64" ELSE "GOARM64"
OtherTierKey(arch) == IF arch = "amd64" THEN "GOARM64" ELSE "GOAMD64"
StubProfiles == {"full", "minimal"}

\* NormalizeTargetOS of internal/pack, "unsupported" for an error.
NormalizeTargetOS(os) == IF os \in {NoWord, <<"Linux", "linux">>, <<"linux", "linux">>} THEN "linux" ELSE "unsupported"

-----------------------------------------------------------------------------
(* Build settings. *)

\* parseARM64Setting: a tier and its distinct feature suffixes.
ValidARM64Setting(s) ==
    /\ s[1] \in ArmLevels
    /\ ToSet(Tail(s)) \subseteq {"lse", "crypto"}
    /\ IsInjective(Tail(s))

ParseARM64Setting(s) ==
    [tier |-> s[1], lse |-> s[1] # "v8.0" \/ "lse" \in ToSet(Tail(s)), crypto |-> "crypto" \in ToSet(Tail(s))]

MatchARM64Setting(actual, expected) ==
    /\ ValidARM64Setting(expected) /\ ValidARM64Setting(actual)
    /\ ParseARM64Setting(actual) = ParseARM64Setting(expected)

MatchDeclaredTier(arch, value, level) ==
    IF arch = "amd64" THEN value = <<level>> ELSE MatchARM64Setting(value, <<level>>)

\* The build settings of an artifact, <<key, value>> in order; one without
\* readable build information has none.
Setting(settings, key) == {settings[i][2] : i \in {j \in DOMAIN settings : settings[j][1] = key}}

ValidateArtifactBuildInfo(settings, os, arch, level) ==
    /\ \A i, j \in DOMAIN settings : settings[i][1] \in Reserved /\ settings[i][1] = settings[j][1] => i = j
    /\ Setting(settings, "GOOS") = {<<os>>}
    /\ Setting(settings, "GOARCH") = {<<arch>>}
    /\ Setting(settings, OtherTierKey(arch)) = {}
    /\ \E v \in Setting(settings, TierKey(arch)) : MatchDeclaredTier(arch, v, level)

-----------------------------------------------------------------------------
(* Validation. *)

\* A name or value no environment can carry.
ValidateEnvMap(env) == \A k \in DOMAIN env : k \notin {"", "A=B"} /\ "NUL" \notin ToSet(env[k])

\* A manifest may repeat its target in the environment, never contradict it.
ValidateTargetEnvironment(m, env, levels) ==
    LET agrees(key, value) == key \in DOMAIN env => env[key] = <<value>>
    IN  /\ ValidateEnvMap(env)
        /\ OtherTierKey(m.arch[2]) \notin DOMAIN env
        /\ agrees("GOOS", m.os[2]) /\ agrees("GOARCH", m.arch[2])
        /\ TierKey(m.arch[2]) \in DOMAIN env =>
               \A l \in levels : MatchDeclaredTier(m.arch[2], env[TierKey(m.arch[2])], l)

NoCompression == [profile |-> NoWord, codec |-> <<>>, level |-> "", dict |-> FALSE, profitable |-> FALSE, size |-> 0]

ValidateCompressionConfig(c) ==
    /\ ~(c.dict /\ c.profitable)
    /\ c.profile = NoWord \/ c.profile[2] \in CompressionProfiles
    /\ Algorithm(c.codec) \in Codecs \cup {""}

\* The error of variant i, "none" for a sound one.
VariantError(m, i) ==
    LET v == m.variants[i]
        level == Normalize(v.level)
    IN  IF level = "" THEN "manifest"
        ELSE IF Rank(m.arch[2], level) < 0 THEN "level"
        ELSE IF ~ValidateCompressionConfig(v.compression) THEN "manifest"
        ELSE IF \E j \in 1 .. i - 1 : Normalize(m.variants[j].level) = level THEN "duplicate"
        ELSE "none"

Levels(m) == {Normalize(m.variants[i].level) : i \in DOMAIN m.variants}

ManifestError(m) ==
    LET bad == {i \in DOMAIN m.variants : VariantError(m, i) # "none"}
    IN  IF m.arch[2] \notin {"amd64", "arm64"} THEN "arch"
        ELSE IF m.os[2] # "linux" THEN "os"
        ELSE IF m.variants = <<>> THEN "empty"
        ELSE IF ~ValidateCompressionConfig(m.compression) THEN "manifest"
        ELSE IF m.profile # NoWord /\ m.profile[2] \notin StubProfiles THEN "profile"
        ELSE IF bad # {} THEN VariantError(m, CHOOSE i \in bad : \A j \in bad : i <= j)
        ELSE IF /\ ValidateTargetEnvironment(m, m.env, Levels(m))
                /\ \A i \in DOMAIN m.variants :
                      ValidateTargetEnvironment(m, m.variants[i].env, {Normalize(m.variants[i].level)})
             THEN "none" ELSE "env"

\* ValidateManifest fills in the defaults and leaves the words in canonical form.
Canonical(m) ==
    LET word(w) == <<w[2], w[2]>>
        arch == IF m.arch = NoWord THEN <<"amd64", "amd64">> ELSE word(m.arch)
        os == NormalizeTargetOS(m.os)
    IN  [m EXCEPT !.package = IF @ = "" THEN "." ELSE @, !.arch = arch, !.os = <<os, os>>, !.profile = word(@),
                  !.variants = [i \in DOMAIN @ |-> [@[i] EXCEPT !.level = <<Normalize(@), Normalize(@)>>]]]

\* Its result: the error, and the manifest as it leaves it.
ValidateManifest(m) == [err |-> ManifestError(Canonical(m)), m |-> Canonical(m)]

\* A manifest file is read up to a limit, parsed and validated.
LoadManifest(file) ==
    CASE file.state \in {"missing", "unreadable"} -> [err |-> "notfound", m |-> file.m]
      [] file.state = "large"       -> [err |-> "large", m |-> file.m]
      [] file.state = "malformed"   -> [err |-> "manifest", m |-> file.m]
      [] OTHER                      -> ValidateManifest(file.m)

-----------------------------------------------------------------------------
(* What a variant is compiled with. *)

Overlay(base, env) == [k \in DOMAIN env \ Reserved |-> env[k]] @@ base

\* The ambient environment in the order of its entries; <<"", _>> stands for a malformed one.
AmbientEnv(ambient) ==
    LET keys == {ambient[i][1] : i \in DOMAIN ambient} \ (Reserved \cup {""})
    IN  [k \in keys |-> ambient[SelectLastInSeq(ambient, LAMBDA e : e[1] = k)][2]]

AssembleTargetEnv(ambient, m, v) ==
    LET inherited == AmbientEnv(ambient)
        epoch == [k \in DOMAIN inherited \cap {"SOURCE_DATE_EPOCH"} |-> inherited[k]]
    IN  ("GOOS" :> <<m.os[2]>> @@ "GOARCH" :> <<m.arch[2]>> @@ TierKey(m.arch[2]) :> <<v.level[2]>>)
            @@ epoch @@ Overlay(Overlay(inherited, m.env), v.env)

\* resolveVariantPGO: the variant's profile, the manifest's, default.pgo of the
\* package or none; a profile that is named must exist.
ResolveVariantPGO(m, v, disk) ==
    LET named == IF v.pgo # NoWord THEN v.pgo ELSE m.pgo
    IN  CASE named[2] = "off" -> <<"off">>
          [] named # NoWord /\ named[2] # "off" -> IF named[1] \in disk.profiles THEN <<"pgo", named[1]>> ELSE <<"missing">>
          [] named = NoWord -> IF disk.default = "file" THEN <<"pgo", "default.pgo">> ELSE <<"off">>

\* buildGoCommand: the package is a directory to build in, or an import path.
BuildGoCommand(m, v, pgo, ambient, disk) ==
    [target |-> IF m.package \in disk.dirs THEN "." ELSE m.package,
     dir    |-> IF m.package \in disk.dirs THEN m.package ELSE "manifest",
     pgo    |-> pgo, flags |-> m.flags \o v.flags, env |-> AssembleTargetEnv(ambient, m, v)]

-----------------------------------------------------------------------------
(* What the packager is asked for. *)

\* The command line over the manifest over the defaults.
AssembleCompression(m, o) ==
    LET c == m.compression
    IN  [profile    |-> Given(o.profile, c.profile, NoWord),
         codec      |-> Given(o.codec, c.codec, <<>>),
         level      |-> Given(o.level, InlineLevel(o.codec, c.level), ""),
         dict       |-> (c.dict /\ ~o.profitable) \/ o.dict,
         profitable |-> (c.profitable /\ ~o.dict) \/ o.profitable,
         size       |-> IF o.size > 0 THEN o.size ELSE c.size]

\* What a command without a manifest takes its place with.
NoManifest == [compression |-> NoCompression, stub |-> <<>>, profile |-> NoWord, dir |-> <<>>]

\* parseVariantCompression: overrides <<level, codec>> of supplied variants, one each.
ValidOverrides(arch, levels, raw) ==
    /\ \A i \in DOMAIN raw :
          LET l == Normalize(raw[i][1]) IN Rank(arch, l) >= 0 /\ l \in levels /\ ValidOverrideSpec(raw[i][2])
    /\ \A i, j \in DOMAIN raw : Normalize(raw[i][1]) = Normalize(raw[j][1]) => i = j

Overrides(raw) ==
    [l \in {Normalize(raw[i][1]) : i \in DOMAIN raw} |->
        OverrideChoice(raw[CHOOSE i \in DOMAIN raw : Normalize(raw[i][1]) = l][2])]

\* assembleVariantCompression: the command line over the variant's own settings.
MergeChoice_KeepLevel(c, o) ==
    [profile |-> Given(o.profile, c.profile, NoWord), codec |-> Given(o.codec, c.codec, <<>>),
     level |-> Given(c.level, o.level, "")]

MergeChoice(c, o) ==
    [profile |-> Given(o.profile, c.profile, NoWord), codec |-> Given(o.codec, c.codec, <<>>),
     level |-> Given(o.level, InlineLevel(o.codec, c.level), "")]

VariantChoice(c) == [profile |-> c.profile, codec |-> c.codec, level |-> c.level]

AssembleVariantCompression(m, overrides) ==
    [l \in Levels(m) |->
        LET own == VariantChoice(m.variants[CHOOSE i \in DOMAIN m.variants : Normalize(m.variants[i].level) = l].compression)
        IN  IF l \in DOMAIN overrides THEN MergeChoice(own, overrides[l]) ELSE own]
=============================================================================
