------------------------------- MODULE MCPack -------------------------------
(***************************************************************************)
(* Small instances of Pack.  Request(...) completes a request with the     *)
(* values that a family of requests does not vary.                         *)
(***************************************************************************)
EXTENDS Pack

Request(policy, path, codec, raw, size, dsize, procs) ==
    [policy |-> policy, mixed |-> FALSE, procs |-> procs, quota |-> 0, limits |-> {},
     path |-> path, codec |-> codec, raw |-> raw, size |-> size, dsize |-> dsize,
     spool |-> 0, edits |-> 0, faults |-> {}]

MCWorkers == 1 .. 3

\* Three variants behind a pool of up to three goroutines.
PoolRequests ==
    {[Request(policy, <<"f1", "f2", "f3">>, <<"zstd", "lz4", "zstd">>, <<1, 1, 1>>, <<2, 1, 1>>, <<1, 1, 2>>, procs)
        EXCEPT !.faults = {"io", "compress", "train", "kill"}] :
        policy \in {"off", "forced"}, procs \in 1 .. 3}

\* Inputs that are edited, shared by two variants, or of mixed ABI.
InputRequests ==
    {[Request("off", path, <<"zstd", "none">>, <<1, 1>>, <<1, 2>>, <<1, 1>>, 2)
        EXCEPT !.mixed = mixed, !.edits = 2, !.faults = {"power"}] :
        path \in {<<"f1", "f2">>, <<"f1", "f1">>}, mixed \in BOOLEAN}

\* The dictionary occupies a block and its digest another: gains of one to
\* three blocks lose, tie and win.  Some candidate sets exceed the spool.
ProfitRequests ==
    {[Request("profitable", <<"f1", "f2">>, codec, <<1, 1>>, <<3, 3>>, dsize, procs)
        EXCEPT !.spool = 11, !.faults = {"compress", "train"}] :
        codec \in {<<"zstd", "zstd">>, <<"zstdbest", "lz4">>, <<"none", "lz4">>},
        dsize \in {<<3, 2>>, <<2, 2>>, <<1, 2>>, <<1, 1>>, <<3, 4>>}, procs \in 1 .. 2}

\* Estimates between 6 MiB and the largest integer, in every level order.
MemoryRequests ==
    {[Request("auto", <<"f1", "f1", "f2">>, codec, raw, <<1, 1, 1>>, <<1, 1, 1>>, 3)
        EXCEPT !.limits = limits, !.quota = quota] :
        codec \in {<<"none", "lz4", "zstd">>, <<"lz4hc", "none", "none">>, <<"none", "none", "zstdbest">>},
        raw \in {<<1, 8, 1>>, <<40, 1, 90>>, <<4, 1500, 3>>, <<2000, 1, 1>>},
        limits \in {{}, {0}, {60}, {75}, {140}, {200, 900}, {500}, {2000}},
        quota \in {0, 2}}

\* A forced dictionary for one variant, which cannot be trained.
SingleRequests == {Request(policy, <<"f1">>, <<"zstd">>, <<1>>, <<1>>, <<1>>, 2) : policy \in Policies}

\* Cleanups whose removals fail.
RemovalRequests ==
    {[Request(policy, <<"f1", "f2">>, <<"zstd", "lz4">>, <<1, 1>>, <<2, 1>>, <<1, 1>>, 2)
        EXCEPT !.spool = 8, !.faults = {"io", "compress", "remove"}] :
        policy \in {"off", "auto", "profitable"}}

MCRequests == RemovalRequests \cup PoolRequests \cup InputRequests \cup ProfitRequests \cup MemoryRequests \cup SingleRequests
=============================================================================
