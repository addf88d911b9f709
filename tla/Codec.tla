------------------------------- MODULE Codec --------------------------------
(***************************************************************************)
(* The choice of codec, level and concurrency of a variant's payload       *)
(* (internal/codec, resolveVariantCompression of internal/pack and         *)
(* variant_compression.go of cmd/microfat).  A word that is compared       *)
(* without regard to case or blanks is a pair <<spelling, word>>; a codec  *)
(* specification "algorithm:level" is the sequence of its parts, <<>> when *)
(* nothing is given.  Payloads and memory count KiB.                       *)
(***************************************************************************)
EXTENDS Integers, Sequences, FiniteSetsExt, TLC

NoWord == <<"", "">>
CompressionProfiles == {"latency", "balanced", "size"}
Codecs == {"none", "lz4", "zstd"}
LatencyThreshold == 512
NoMemoryCap == -1

\* ParseLevelInt on the numerals in use.
Numerals == "-1" :> -1 @@ "0" :> 0 @@ "1" :> 1 @@ "2" :> 2 @@ "3" :> 3 @@ "9" :> 9 @@ "11" :> 11

\* MapLevel of either codec: the encoder setting, "error" for a level it does not know.
MapZstdLevel(level) ==
    CASE level \in {"", "default", "standard"}     -> "zstd"
      [] level \in {"fastest", "fast", "speed"}    -> "zstdfastest"
      [] level = "better"                          -> "zstdbetter"
      [] level \in {"best", "max"}                 -> "zstdbest"
      [] level \in DOMAIN Numerals ->
            LET n == Numerals[level]
            IN  IF n <= 1 THEN "zstdfastest" ELSE IF n = 2 THEN "zstd" ELSE IF n <= 9 THEN "zstdbetter" ELSE "zstdbest"
      [] OTHER -> "error"

MapLZ4Level(level) ==
    CASE level \in {"", "default", "fast", "fastest"} -> "lz4"
      [] level \in {"better", "best", "max"}          -> "lz4hc"
      [] level \in DOMAIN Numerals                    -> IF Numerals[level] <= 0 THEN "lz4" ELSE "lz4hc"
      [] OTHER                                        -> "error"

MapLevel(algo, level) ==
    CASE algo = "zstd" -> MapZstdLevel(level)
      [] algo = "lz4"  -> MapLZ4Level(level)
      [] OTHER         -> "none"

Given(value, otherwise, nothing) == IF value # nothing THEN value ELSE otherwise

\* The level a specification carries, or the one that stood before.
Inline(spec) == IF Len(spec) > 1 THEN spec[2] ELSE ""
Algorithm(spec) == IF spec = <<>> THEN "" ELSE spec[1]
InlineLevel(spec, level) == Given(Inline(spec), level, "")

\* ResolveCompression: the profile fills in what is not given.
ResolveCompression(profile, spec, level, size) ==
    LET p == profile[2]
        algo == IF Algorithm(spec) # "" THEN Algorithm(spec)
                ELSE IF p # "latency" THEN "zstd"
                ELSE IF size > 0 /\ size < LatencyThreshold THEN "none" ELSE "lz4"
        given == Given(level, Inline(spec), "")
        filled == IF given = "" /\ algo = "zstd" /\ p # "latency" THEN IF p = "size" THEN "best" ELSE "better" ELSE given
    IN  IF p \notin CompressionProfiles \cup {""} \/ algo \notin Codecs THEN [err |-> "compression", algo |-> "", level |-> ""]
        ELSE [err |-> "none", algo |-> algo, level |-> filled]

\* An override per variant: profile, codec and level, each possibly absent.
NoChoice == [profile |-> NoWord, codec |-> <<>>, level |-> ""]

\* resolveVariantCompression: the variant's override over the options of the artifact.
ResolveVariantCompression(o, choice, size) ==
    ResolveCompression(Given(choice.profile, o.profile, NoWord), Given(choice.codec, o.codec, <<>>),
                       Given(choice.level, InlineLevel(choice.codec, o.level), ""), size)

\* parseVariantCompressionSpec on the command line; an absent result is an error.
ValidOverrideSpec(spec) ==
    /\ Len(spec) \in 1 .. 2 /\ spec[1] \in Codecs
    /\ Len(spec) = 2 => spec[2] # ""
    /\ IF spec[1] = "none" THEN Len(spec) = 1 ELSE MapLevel(spec[1], Inline(spec)) # "error"

OverrideChoice(spec) == [NoChoice EXCEPT !.codec = <<spec[1]>>, !.level = Inline(spec)]

-----------------------------------------------------------------------------
(* Encoder concurrency. *)

\* The processors and the memory an encoder may use: GOMAXPROCS and GOMEMLIMIT
\* of the process and the limits of its cgroup, those that are set.
ResolveCodecResources(host) ==
    LET caps == {m \in {host.goMemLimit, host.cgroupMem} : m # NoMemoryCap}
    IN  [cpus |-> Max({1, IF host.cgroupCpus > 0 THEN Min({Max({host.procs, 1}), host.cgroupCpus}) ELSE host.procs}),
         mem  |-> IF caps = {} THEN NoMemoryCap ELSE Min(caps)]

Lz4Block == 4096
LowMemory == 262144
Lz4Headroom == 65536
Lz4PerWorker == 16384

Blocks(size) == (size - 1) \div Lz4Block + 1

ComputeLZ4Concurrency_NoPayload(size, res) ==
    LET avail == res.mem - Lz4Headroom
    IN  IF size <= Lz4Block \/ res.cpus <= 1 THEN 1
        ELSE IF res.mem = NoMemoryCap THEN Min({res.cpus, Blocks(size), 8})
        ELSE IF res.mem < LowMemory \/ avail < Lz4PerWorker THEN 1
        ELSE Min({res.cpus, avail \div Lz4PerWorker, Blocks(size), 8})

ComputeLZ4Concurrency(size, res) ==
    LET avail == res.mem - size - Lz4Headroom
    IN  IF size <= Lz4Block \/ res.cpus <= 1 THEN 1
        ELSE IF res.mem = NoMemoryCap THEN Min({res.cpus, Blocks(size), 8})
        ELSE IF res.mem < LowMemory \/ avail < Lz4PerWorker THEN 1
        ELSE Min({res.cpus, avail \div Lz4PerWorker, Blocks(size), 8})

\* What admission reserved for the encoder, whatever limits held then.
LZ4EncoderWorkspace(size) ==
    IF size <= Lz4Block THEN Lz4PerWorker ELSE (Min({Blocks(size), 9}) + 1) * Lz4PerWorker

ZstdSingleBlockLimit(setting) == IF setting = "zstdfastest" THEN 64 ELSE 128

\* computeZstdEncodePlan: one block in one call, or a stream of one or two goroutines.
ComputeZstdEncodePlan(size, setting, dict, res) ==
    [single |-> size > 0 /\ size < ZstdSingleBlockLimit(setting),
     concurrency |-> IF \/ size < ZstdSingleBlockLimit(setting) \/ res.cpus <= 1
                        \/ ~dict /\ res.mem # NoMemoryCap /\ res.mem < LowMemory
                     THEN 1 ELSE 2]

\* The buffers of an encoder with n workers: one per queued block, one that is
\* drained and one that is pending.
LZ4Buffers(size, n) == IF n = 1 THEN 1 ELSE Min({Blocks(size), n + 1}) + 1

\* They fit what admission reserved, and several workers of a process with a
\* memory cap fit under it together with the payload.
EncoderFits(size, res, n) ==
    /\ LZ4Buffers(size, n) * Lz4PerWorker <= LZ4EncoderWorkspace(size)
    /\ n > 1 /\ res.mem # NoMemoryCap => size + LZ4Buffers(size, n) * Lz4PerWorker <= res.mem
=============================================================================
