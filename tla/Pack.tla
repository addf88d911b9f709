-------------------------------- MODULE Pack --------------------------------
(***************************************************************************)
(* Pack of internal/pack: the inputs are copied into a private directory   *)
(* and validated there, an optional dictionary is trained, the variants    *)
(* are compressed by a pool of goroutines admitted by CPU and memory, the  *)
(* frames are appended in level order behind the stub, and the artifact    *)
(* replaces the output by a rename.  Others edit the inputs meanwhile.     *)
(* Variants are numbered in level order; memory is counted in MiB, and     *)
(* frames, dictionary and index in blocks.                                 *)
(***************************************************************************)
EXTENDS Integers, Sequences, FiniteSetsExt, TLC

CONSTANTS Workers,     \* 1 .. the largest pool
          Requests,    \* the requests: options, inputs, host limits and what may happen meanwhile
          DictBlocks,  \* size of a trained dictionary
          MaxInt       \* the largest int64

FaultKinds == {"io", "train", "compress", "remove", "kill", "power"}
Policies == {"off", "forced", "auto", "profitable"}
Phases == {"plain", "nodict", "dict"}

\* encoderWorkspaceBytes per codec and level, in MiB.
Workspace == [none |-> 4, lz4 |-> 16, lz4hc |-> 32, zstdfastest |-> 32, zstd |-> 64, zstdbetter |-> 112, zstdbest |-> 224]
DictCodec(c) == c \in {"zstdfastest", "zstd", "zstdbetter", "zstdbest"}

ASSUME PackCounts == DictBlocks \in Nat \ {0} /\ MaxInt \in Nat
ASSUME PackRequests ==
    \A r \in Requests :
        /\ r.policy \in Policies /\ r.mixed \in BOOLEAN /\ r.procs \in Nat \ {0} /\ r.quota \in Nat /\ r.limits \subseteq Nat
        /\ r.path # <<>> /\ DOMAIN r.path \subseteq Workers
        /\ r.path \in [DOMAIN r.path -> {"f1", "f2", "f3"}] /\ r.codec \in [DOMAIN r.path -> DOMAIN Workspace]
        /\ r.raw \in [DOMAIN r.path -> Nat]
        /\ r.size \in [DOMAIN r.path -> Nat \ {0}] /\ r.dsize \in [DOMAIN r.path -> Nat \ {0}]
        /\ r.spool \in Nat /\ r.edits \in Nat /\ r.faults \subseteq FaultKinds

VARIABLES req,       \* the request
          source,    \* source[f]: the content of input f
          snap,      \* snap[f]: the content in the private directory
          checked,   \* checked[f]: the content validation saw
          pc,        \* the stage of Pack
          dict,      \* a dictionary was trained
          phase,     \* the candidate set that is being staged
          workers,   \* goroutines of the pool
          queue,     \* jobs left in the channel
          canceled,  \* the pool's context
          wpc, job,  \* wpc[w], job[w]: stage and variant of goroutine w
          failed,    \* failed[w]: the job of w has failed
          results,   \* results[ph][v]: "none", "ok" or "err"
          recorded,  \* staging files the results name
          files,     \* files[<<v, ph>>]: blocks in the staging file, for those that exist
          used,      \* bytes the spool tracker has counted
          tmp,       \* the artifact being assembled, or NoFile
          next,      \* the next variant to append
          output,    \* what the output path holds
          edits      \* edits of the inputs by others

pool == <<phase, workers, queue, canceled, wpc, job, failed, results, recorded, files, used>>
input == <<req, source, edits>>
vars == <<input, snap, checked, pc, dict, pool, tmp, next, output>>

N == Len(req.path)
Variants == 1 .. N
Inputs == {"stub"} \cup {req.path[v] : v \in Variants}

\* The ABI that the ELF metadata of a content declares.
Abi(c) == IF c = "b" THEN "musl" ELSE "glibc"

NoFile == [segments |-> <<>>, index |-> <<>>, state |-> "absent"]
Old == [segments |-> <<>>, index |-> <<>>, state |-> "old"]
Terminal == {"ok", "failed", "crashed"}

-----------------------------------------------------------------------------
(* Worker admission. *)

LZ4Workspace(raw) == IF raw <= 4 THEN 16 ELSE (Min({(raw - 1) \div 4 + 1, 9}) + 1) * 16

EstimateWorkerMemory(v) ==
    LET raw == req.raw[v]
        base == Workspace[req.codec[v]]
        ws == IF req.codec[v] \in {"lz4", "lz4hc"} THEN Max({base, LZ4Workspace(raw)}) ELSE base
    IN  IF raw > (MaxInt - ws) \div 2 THEN MaxInt ELSE 2 * raw + ws

AdmitByMemory_Unsorted(max, ceiling) ==
    LET usable == (ceiling \div 20) * 17
        cost[k \in 0 .. N] == IF k = 0 THEN 0 ELSE cost[k - 1] + EstimateWorkerMemory(k)
    IN  IF ceiling <= 0 \/ max < 2 \/ usable <= 64 THEN 1
        ELSE Max({1} \cup {k \in 2 .. max : \A j \in 1 .. k : EstimateWorkerMemory(j) <= usable - 64 - cost[j - 1]})

\* The largest pool whose most expensive jobs fit together.
AdmitByMemory(max, ceiling) ==
    LET estimates == SortSeq([v \in Variants |-> EstimateWorkerMemory(v)], LAMBDA a, b : a > b)
        usable == (ceiling \div 20) * 17
        cost[k \in 0 .. N] == IF k = 0 THEN 0 ELSE cost[k - 1] + estimates[k]
    IN  IF ceiling <= 0 \/ max < 2 \/ usable <= 64 THEN 1
        ELSE Max({1} \cup {k \in 2 .. max : \A j \in 1 .. k : estimates[j] <= usable - 64 - cost[j - 1]})

\* The cgroup limit, GOMEMLIMIT and MemAvailable, those that are known.
ResolveWorkerCount ==
    LET cpus == IF req.quota > 0 THEN Min({req.procs, req.quota}) ELSE req.procs
    IN  IF N < 2 \/ cpus < 2 THEN 1
        ELSE IF req.limits = {} THEN Min({N, cpus})
        ELSE AdmitByMemory(Min({N, cpus}), Min(req.limits))

-----------------------------------------------------------------------------
(* Layout. *)

\* The frame of v as it was compressed in phase ph.
WithDict(v, ph) == dict /\ ph # "nodict" /\ DictCodec(req.codec[v])
FrameSize(v, ph) == IF WithDict(v, ph) THEN req.dsize[v] ELSE req.size[v]
Frame(v, ph) ==
    [kind |-> "frame", of |-> v, content |-> snap[req.path[v]], dict |-> WithDict(v, ph), size |-> FrameSize(v, ph)]

StubSegment == [kind |-> "stub", content |-> snap["stub"], size |-> 1]
DictSegment == [kind |-> "dict", size |-> DictBlocks]

\* The index and the trailer; a dictionary adds its digest to the index.
TailSize(d) == 2 + (IF d THEN 1 ELSE 0)

SizeOf(segments) == MapThenSumSet(LAMBDA k : segments[k].size, DOMAIN segments)

\* The result staged for v that the artifact of phase ph uses: variants whose
\* codec takes no dictionary share the result of the first pass.
ResultPhase(v, ph) == IF ph = "dict" /\ ~DictCodec(req.codec[v]) THEN "nodict" ELSE ph

\* measureCandidateCompleteBytes.
CandidateSize(ph) ==
    StubSegment.size + (IF ph = "dict" THEN DictBlocks ELSE 0)
        + MapThenSumSet(LAMBDA v : FrameSize(v, ResultPhase(v, ph)), Variants) + TailSize(ph = "dict")

-----------------------------------------------------------------------------
(* Pack, the calling goroutine. *)

CanFail(f) == f \in req.faults

\* What may be left of the files S that a cleanup removes: each removal is best
\* effort, and its failure is ignored.
Leftovers(S) == IF CanFail("remove") THEN SUBSET S ELSE {{}}

\* A return: the deferred calls remove the staging files the results name, the
\* temporary output unless it was renamed, and the private directory.
Return(how) ==
    /\ pc' = how
    /\ \E left \in Leftovers(recorded \cap DOMAIN files) :
          files' = [f \in (DOMAIN files \ recorded) \cup left |-> files[f]]
    /\ recorded' = {}
    /\ tmp' \in {NoFile} \cup (IF CanFail("remove") /\ how = "failed" THEN {tmp} ELSE {})
    /\ \E left \in Leftovers(DOMAIN snap) : snap' = [f \in DOMAIN snap |-> IF f \in left THEN snap[f] ELSE "none"]

Fail ==
    /\ Return("failed")
    /\ UNCHANGED <<input, checked, dict, phase, workers, queue, canceled, wpc, job, failed, results, used, next, output>>

Goto(l) == pc' = l

Init ==
    /\ req \in Requests
    /\ source = [f \in Inputs |-> "a"]
    /\ snap = [f \in Inputs |-> "none"]
    /\ checked = [f \in Inputs |-> "none"]
    /\ pc = "snapshot"
    /\ dict = FALSE
    /\ phase = "plain"
    /\ workers = 0
    /\ queue = {}
    /\ canceled = FALSE
    /\ wpc = [w \in Workers |-> "done"]
    /\ job = [w \in Workers |-> 1]
    /\ failed = [w \in Workers |-> FALSE]
    /\ results = [ph \in Phases |-> [v \in Variants |-> "none"]]
    /\ recorded = {}
    /\ files = [f \in {} |-> 0]
    /\ used = 0
    /\ tmp = NoFile
    /\ next = 1
    /\ output = Old
    /\ edits = 0

\* snapshotInputs: the stub, then the variants in the order of a Go map; an
\* input that several of them name is copied once.  A copy that overlaps an
\* edit fails on its size or mixes the two contents.
SnapshotInput(f) ==
    /\ pc = "snapshot"
    /\ snap[f] = "none"
    /\ f = "stub" \/ snap["stub"] # "none"
    /\ \/ (CanFail("io") \/ edits > 0) /\ Fail
       \/ /\ \E c \in {source[f]} \cup (IF edits > 0 THEN {"torn"} ELSE {}) : snap' = [snap EXCEPT ![f] = c]
          /\ Goto("validate")
          /\ UNCHANGED <<input, checked, dict, pool, tmp, next, output>>

\* ValidateELFBinary looks at the private copy.
ValidateSnapshot_Source(f) ==
    /\ pc = "validate"
    /\ snap[f] # "none" /\ checked[f] = "none"
    /\ IF source[f] = "bad" THEN Fail
       ELSE /\ checked' = [checked EXCEPT ![f] = source[f]]
            /\ Goto(IF \E g \in Inputs : snap[g] = "none" THEN "snapshot" ELSE "abi")
            /\ UNCHANGED <<input, snap, dict, pool, tmp, next, output>>

ValidateSnapshot(f) ==
    /\ pc = "validate"
    /\ snap[f] # "none" /\ checked[f] = "none"
    /\ IF snap[f] = "bad" THEN Fail
       ELSE /\ checked' = [checked EXCEPT ![f] = snap[f]]
            /\ Goto(IF \E g \in Inputs : snap[g] = "none" THEN "snapshot" ELSE "abi")
            /\ UNCHANGED <<input, snap, dict, pool, tmp, next, output>>

\* validatePayloadABIs: variants that declare different ABIs need AllowMixedABI.
ValidateABIs ==
    /\ pc = "abi"
    /\ IF ~req.mixed /\ \E v, w \in Variants : Abi(snap[req.path[v]]) # Abi(snap[req.path[w]]) THEN Fail
       ELSE /\ Goto("dict")
            /\ UNCHANGED <<input, snap, checked, dict, pool, tmp, next, output>>

\* prepareSharedDictionary: a training that fails is an error only where the
\* dictionary is forced; looking for a codec that takes one fails in its own right.
PrepareDictionary ==
    LET wanted == \/ req.policy = "forced"
                  \/ /\ req.policy \in {"auto", "profitable"}
                     /\ N >= 2 /\ \E v \in Variants : DictCodec(req.codec[v])
    IN  /\ pc = "dict"
        /\ \/ /\ req.policy = "forced"
              /\ N < 2 \/ CanFail("train")
              /\ Fail
           \/ /\ req.policy \in {"auto", "profitable"} /\ N >= 2
              /\ CanFail("io")
              /\ Fail
           \/ /\ \/ ~wanted /\ UNCHANGED dict
                 \/ wanted /\ N >= 2 /\ dict' = TRUE
                 \/ wanted /\ req.policy # "forced" /\ CanFail("train") /\ UNCHANGED dict
              /\ Goto("temp")
              /\ UNCHANGED <<input, snap, checked, pool, tmp, next, output>>

\* The temporary output receives the stub and, unless the dictionary still has
\* to prove itself, the dictionary; the work is planned.
CreateOutput ==
    LET profitable == req.policy = "profitable" /\ dict
        n == ResolveWorkerCount
    IN  /\ pc = "temp"
        /\ \/ CanFail("io") /\ Fail
           \/ /\ tmp' = [NoFile EXCEPT !.segments = <<StubSegment>> \o (IF dict /\ ~profitable THEN <<DictSegment>> ELSE <<>>),
                                       !.state = "partial"]
              /\ workers' = n
              /\ phase' = IF profitable THEN "nodict" ELSE "plain"
              /\ Goto(IF profitable \/ n >= 2 THEN "start" ELSE "direct")
              /\ UNCHANGED <<input, snap, checked, dict, queue, canceled, wpc, job, failed, results, recorded, files, used,
                             next, output>>

\* writeVariantPayload: without a pool each variant is compressed into the output.
WriteDirect ==
    /\ pc = "direct"
    /\ \/ CanFail("compress") /\ Fail
       \/ /\ tmp' = [tmp EXCEPT !.segments = Append(@, Frame(next, "plain"))]
          /\ next' = next + 1
          /\ Goto(IF next = N THEN "index" ELSE "direct")
          /\ UNCHANGED <<input, snap, checked, dict, pool, output>>

\* The jobs are queued and the goroutines started.
StartPool ==
    LET jobs == IF phase = "dict" THEN {v \in Variants : DictCodec(req.codec[v])} ELSE Variants
    IN  /\ pc = "start"
        /\ queue' = jobs
        /\ canceled' = FALSE
        /\ wpc' = [w \in Workers |-> IF w <= Min({workers, Cardinality(jobs)}) THEN "take" ELSE "done"]
        /\ failed' = [w \in Workers |-> FALSE]
        /\ Goto("wait")
        /\ UNCHANGED <<input, snap, checked, dict, phase, workers, job, results, recorded, files, used, tmp, next, output>>

\* wg.Wait, then the first error in level order; the profitable mode stages a
\* second candidate set with the dictionary.
WaitPool ==
    /\ pc = "wait"
    /\ \A w \in Workers : wpc[w] = "done"
    /\ IF \E v \in Variants : results[phase][v] = "err" THEN Fail
       ELSE /\ IF phase = "nodict"
               THEN phase' = "dict" /\ Goto("start")
               ELSE UNCHANGED phase /\ Goto(IF phase = "dict" THEN "choose" ELSE "append")
            /\ UNCHANGED <<input, snap, checked, dict, workers, queue, canceled, wpc, job, failed, results, recorded, files,
                           used, tmp, next, output>>

\* The dictionary is embedded only when it makes the whole artifact smaller.
ChooseCandidate ==
    LET pays == CandidateSize("dict") < CandidateSize("nodict")
    IN  /\ pc = "choose"
        /\ \/ pays /\ CanFail("io") /\ Fail
           \/ /\ tmp' = [tmp EXCEPT !.segments = IF pays THEN Append(@, DictSegment) ELSE @]
              /\ phase' = IF pays THEN "dict" ELSE "nodict"
              /\ Goto("append")
              /\ UNCHANGED <<input, snap, checked, dict, workers, queue, canceled, wpc, job, failed, results, recorded,
                             files, used, next, output>>

\* appendStagedVariantFrame in level order; outside the profitable mode the
\* staging file is removed at once, and forgotten whether that worked or not.
AppendFrame ==
    LET ph == ResultPhase(next, phase)
        f == <<next, ph>>
    IN  /\ pc = "append"
        /\ \/ CanFail("io") /\ Fail
           \/ IF f \notin DOMAIN files \/ files[f] # FrameSize(next, ph) THEN Fail
              ELSE /\ tmp' = [tmp EXCEPT !.segments = Append(@, Frame(next, ph))]
                   /\ \E left \in IF phase = "plain" THEN Leftovers({f}) ELSE {{f}} :
                         files' = [g \in (DOMAIN files \ {f}) \cup left |-> files[g]]
                   /\ recorded' = IF phase = "plain" THEN recorded \ {f} ELSE recorded
                   /\ next' = next + 1
                   /\ Goto(IF next = N THEN "index" ELSE "append")
                   /\ UNCHANGED <<input, snap, checked, dict, phase, workers, queue, canceled, wpc, job, failed, results,
                                  used, output>>

\* Each entry records where its frame begins.
OffsetOf(segments, k) == SizeOf(SubSeq(segments, 1, k - 1))
IndexOf(segments) ==
    [k \in 1 .. N |->
        LET first == Len(segments) - N
        IN  [level |-> k, offset |-> OffsetOf(segments, first + k), size |-> segments[first + k].size,
             sha |-> segments[first + k].content]]

WriteIndex ==
    /\ pc = "index"
    /\ \/ CanFail("io") /\ Fail
       \/ /\ tmp' = [tmp EXCEPT !.index = IndexOf(tmp.segments)]
          /\ Goto("sync")
          /\ UNCHANGED <<input, snap, checked, dict, pool, next, output>>

\* finalizeOutputFile: flush and chmod ...
SyncOutput ==
    /\ pc = "sync"
    /\ \/ CanFail("io") /\ Fail
       \/ /\ tmp' = [tmp EXCEPT !.state = "synced"]
          /\ Goto("rename")
          /\ UNCHANGED <<input, snap, checked, dict, pool, next, output>>

\* ... and rename; the deferred cleanup follows.
RenameOutput ==
    /\ pc = "rename"
    /\ \/ CanFail("io") /\ Fail
       \/ /\ output' = tmp
          /\ Return("ok")
          /\ UNCHANGED <<input, checked, dict, phase, workers, queue, canceled, wpc, job, failed, results, used, next>>

-----------------------------------------------------------------------------
(* The goroutines of the pool. *)

\* Take a job; after a cancellation jobs are only drained.
TakeJob(w) ==
    /\ wpc[w] = "take"
    /\ IF queue = {} THEN /\ wpc' = [wpc EXCEPT ![w] = "done"]
                          /\ UNCHANGED <<queue, job, failed>>
       ELSE LET v == Min(queue)
            IN  /\ queue' = queue \ {v}
                /\ IF canceled THEN UNCHANGED <<wpc, job, failed>>
                   ELSE /\ wpc' = [wpc EXCEPT ![w] = "create"]
                        /\ job' = [job EXCEPT ![w] = v]
                        /\ failed' = [failed EXCEPT ![w] = FALSE]
    /\ UNCHANGED <<input, snap, checked, pc, dict, phase, workers, canceled, results, recorded, files, used, tmp, next,
                   output>>

\* Read the private copy and create the staging file.
CreateStage(w) ==
    /\ wpc[w] = "create"
    /\ \/ /\ wpc' = [wpc EXCEPT ![w] = "write"]
          /\ files' = [f \in DOMAIN files \cup {<<job[w], phase>>} |-> IF f = <<job[w], phase>> THEN 0 ELSE files[f]]
          /\ UNCHANGED failed
       \/ /\ CanFail("io")
          /\ wpc' = [wpc EXCEPT ![w] = "store"]
          /\ failed' = [failed EXCEPT ![w] = TRUE]
          /\ UNCHANGED files
    /\ UNCHANGED <<input, snap, checked, pc, dict, phase, workers, queue, canceled, job, results, recorded, used, tmp, next,
                   output>>

\* Write one block.  In the profitable mode the tracker counts it first.
WriteBlock(w) ==
    LET f == <<job[w], phase>>
    IN  /\ wpc[w] = "write"
        /\ used' = IF phase = "plain" THEN used ELSE used + 1
        /\ \/ /\ phase = "plain" \/ used' <= req.spool
              /\ files' = [files EXCEPT ![f] = @ + 1]
              /\ wpc' = [wpc EXCEPT ![w] = IF files'[f] = FrameSize(job[w], phase) THEN "store" ELSE "write"]
              /\ UNCHANGED failed
           \/ /\ (phase # "plain" /\ used' > req.spool) \/ CanFail("compress")
              /\ wpc' = [wpc EXCEPT ![w] = "store"]
              /\ failed' = [failed EXCEPT ![w] = TRUE]
              /\ UNCHANGED files
        /\ UNCHANGED <<input, snap, checked, pc, dict, phase, workers, queue, canceled, job, results, recorded, tmp, next,
                       output>>

\* results[idx] = res; a result names its staging file, failed or not.
StoreResult_ForgetsFile(w) ==
    LET f == <<job[w], phase>>
    IN  /\ wpc[w] = "store"
        /\ results' = [results EXCEPT ![phase][job[w]] = IF failed[w] THEN "err" ELSE "ok"]
        /\ recorded' = IF failed[w] THEN recorded ELSE recorded \cup {f}
        /\ wpc' = [wpc EXCEPT ![w] = IF failed[w] THEN "cancel" ELSE "take"]
        /\ UNCHANGED <<input, snap, checked, pc, dict, phase, workers, queue, canceled, job, failed, files, used, tmp,
                       next, output>>

StoreResult(w) ==
    LET f == <<job[w], phase>>
    IN  /\ wpc[w] = "store"
        /\ results' = [results EXCEPT ![phase][job[w]] = IF failed[w] THEN "err" ELSE "ok"]
        /\ recorded' = recorded \cup ({f} \cap DOMAIN files)
        /\ wpc' = [wpc EXCEPT ![w] = IF failed[w] THEN "cancel" ELSE "take"]
        /\ UNCHANGED <<input, snap, checked, pc, dict, phase, workers, queue, canceled, job, failed, files, used, tmp,
                       next, output>>

Cancel(w) ==
    /\ wpc[w] = "cancel"
    /\ canceled' = TRUE
    /\ wpc' = [wpc EXCEPT ![w] = "take"]
    /\ UNCHANGED <<input, snap, checked, pc, dict, phase, workers, queue, job, failed, results, recorded, files, used, tmp,
                   next, output>>

-----------------------------------------------------------------------------
(* The environment. *)

Edit(f) ==
    /\ edits < req.edits
    /\ \E c \in {"b", "bad"} : c # source[f] /\ source' = [source EXCEPT ![f] = c]
    /\ edits' = edits + 1
    /\ UNCHANGED <<req, snap, checked, pc, dict, pool, tmp, next, output>>

Kill ==
    /\ CanFail("kill") /\ pc \notin Terminal
    /\ pc' = "crashed"
    /\ wpc' = [w \in Workers |-> "done"]
    /\ UNCHANGED <<input, snap, checked, dict, phase, workers, queue, canceled, job, failed, results, recorded, files, used,
                   tmp, next, output>>

\* The output directory is not synced: after a power loss the output may be the
\* old file again, and content that was not flushed is lost.
PowerLoss ==
    /\ CanFail("power") /\ pc # "crashed"
    /\ pc' = "crashed"
    /\ wpc' = [w \in Workers |-> "done"]
    /\ output' \in {Old, IF output.state = "partial" THEN [output EXCEPT !.state = "torn"] ELSE output}
    /\ UNCHANGED <<input, snap, checked, dict, phase, workers, queue, canceled, job, failed, results, recorded, files, used,
                   tmp, next>>

MainStep ==
    \/ \E f \in Inputs : SnapshotInput(f) \/ ValidateSnapshot(f)
    \/ ValidateABIs \/ PrepareDictionary \/ CreateOutput \/ WriteDirect \/ StartPool \/ WaitPool
    \/ ChooseCandidate \/ AppendFrame \/ WriteIndex \/ SyncOutput \/ RenameOutput

WorkerStep(w) == TakeJob(w) \/ CreateStage(w) \/ WriteBlock(w) \/ StoreResult(w) \/ Cancel(w)

Next ==
    \/ MainStep
    \/ \E w \in Workers : WorkerStep(w)
    \/ \E f \in Inputs : Edit(f)
    \/ Kill \/ PowerLoss
    \/ pc \in Terminal /\ UNCHANGED vars

Spec == Init /\ [][Next]_vars

-----------------------------------------------------------------------------
(* Properties. *)

\* The profitability gate: the artifact with the dictionary is published only
\* if it is smaller than the one without, index and dictionary included.
DictionaryPays ==
    output # Old /\ req.policy = "profitable" =>
        LET size == SizeOf(output.segments)
                       + TailSize(\E k \in DOMAIN output.segments : output.segments[k].kind = "dict")
            plain == 1 + MapThenSumSet(LAMBDA v : req.size[v], Variants) + 2
        IN  /\ size <= plain
            /\ (\E k \in DOMAIN output.segments : output.segments[k].kind = "dict") => size < plain

\* The output is the old file or the one artifact the request determines,
\* whatever the order in which the goroutines finished: the frames of all
\* variants in level order, found at the offsets of the index, each with the
\* bytes that validation saw, with a dictionary only where it pays, and flushed
\* before the rename.
OutputIsDetermined ==
    output # Old =>
        /\ output.state = "synced"
        /\ DictionaryPays
        /\ Len(output.index) = N
        /\ output.segments[1].content = checked["stub"]
        /\ req.mixed \/ Cardinality({Abi(e.sha) : e \in {output.index[v] : v \in Variants}}) = 1
        /\ \A v \in Variants :
              \E k \in DOMAIN output.segments :
                 LET s == output.segments[k]
                 IN  /\ s.kind = "frame" /\ s.of = v
                     /\ s.content = checked[req.path[v]]
                     /\ s.dict = (DictCodec(req.codec[v]) /\ \E j \in 1 .. k : output.segments[j].kind = "dict")
                     /\ output.index[v] = [level |-> v, size |-> s.size, sha |-> s.content,
                                           offset |-> MapThenSumSet(LAMBDA j : output.segments[j].size, 1 .. k - 1)]

\* The budgets hold whichever goroutines run at the same time: the two candidate sets
\* together never hold more staged bytes than the spool limit, and goroutines at work
\* never need more than the admitted share of the memory ceiling, whichever jobs they
\* happen to hold.
BudgetsHold ==
    LET busy == {w \in Workers : wpc[w] \in {"create", "write", "store"}}
    IN  /\ phase # "plain" => MapThenSumSet(LAMBDA f : files[f], DOMAIN files) <= req.spool
        /\ Cardinality(busy) >= 2 =>
              \A limit \in req.limits :
                 20 * (64 + MapThenSumSet(LAMBDA w : EstimateWorkerMemory(job[w]), busy)) <= 17 * limit

\* When Pack returns it has removed every staging file, its temporary output
\* and the private copies, those of goroutines that failed half way included;
\* only where a removal itself failed is anything left, and an artifact that was
\* not published is left under its temporary name by a failed Pack alone.  A
\* failure has left the old output alone.
ReturnsClean ==
    pc \in {"ok", "failed"} =>
        /\ ~CanFail("remove") => DOMAIN files = {} /\ tmp = NoFile /\ \A f \in Inputs : snap[f] = "none"
        /\ pc = "ok" => tmp = NoFile /\ output # Old
        /\ pc = "failed" => output = Old
=============================================================================
