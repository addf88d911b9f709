----------------------------- MODULE MCPrewarm ------------------------------
(***************************************************************************)
(* Scenes for Prewarm: a plan, a prewarming and a verification one after   *)
(* the other or at the same time, by the command line and the launcher,    *)
(* over every state of the directories and entries they look at.           *)
(***************************************************************************)
EXTENDS Prewarm

CONSTANTS p1, p2, p3

MCProcs == {p1, p2, p3}
MCDigests == {"a", "b"}
MCSizeOf(h) == IF h = "a" THEN 2 ELSE 3
MCDecoders == {"zstd"}

V(n, h, size, codec, sound) == [level |-> <<n, n>>, sha |-> h, size |-> size, codec |-> codec, sound |-> sound]
ImageOf(variants) == [fat |-> TRUE, dict |-> "none", variants |-> variants]

Two == ImageOf(<<V("v1", "a", 2, "zstd", TRUE), V("v2", "b", 3, "zstd", TRUE)>>)
Shared == ImageOf(<<V("v1", "a", 2, "zstd", TRUE), V("v2", "b", 3, "zstd", TRUE), V("v3", "a", 2, "zstd", TRUE)>>)

Images ==
    {Two, Shared,
     ImageOf(<<V("v1", "a", 2, "lz4", TRUE), V("v2", "a", 2, "zstd", TRUE)>>),
     ImageOf(<<V("v1", "a", 2, "zstd", TRUE), V("v2", "a", 2, "lz4", TRUE)>>),
     ImageOf(<<V("v1", "a", 2, "zstd", TRUE), V("v2", "b", 3, "zstd", FALSE)>>),
     ImageOf(<<V("v1", "a", 2, "zstd", TRUE), V("v2", "a", 3, "zstd", FALSE)>>),
     [Two EXCEPT !.dict = "damaged"], [Two EXCEPT !.fat = FALSE]}

States == {"missing", "good", "corrupt", "unsafe", "locked"}
Empty == [h \in MCDigests |-> "missing"]

Dir(kind, mine, loose, fails, entries) == [kind |-> kind, mine |-> mine, loose |-> loose, fails |-> fails, entries |-> entries]
Absent == Dir("missing", TRUE, FALSE, "none", Empty)
Private(entries) == Dir("dir", TRUE, FALSE, "none", entries)

\* Every kind of directory; what it holds is given.
Kinds(entries) ==
    {Absent, [Absent EXCEPT !.fails = "mkdir"], Dir("file", TRUE, FALSE, "none", Empty), Dir("link", TRUE, FALSE, "none", entries),
     Private(entries), [Private(entries) EXCEPT !.fails = "open"], [Private(entries) EXCEPT !.mine = FALSE],
     [Private(entries) EXCEPT !.loose = TRUE], Dir("dir", TRUE, TRUE, "chmod", entries)}

Disks(named, cache, tmp) == {[named |-> n, cache |-> c, tmp |-> t] : n \in named, c \in cache, t \in tmp}

Env(cacheDir, xdg, home) == [cacheDir |-> cacheDir, xdg |-> xdg, home |-> home, tmp |-> "tmp"]
Auto == Env(NoDir, "cache", NoDir)

Cli(does, all, level, limit, cap, d) ==
    [by |-> "cli", does |-> does, all |-> all, level |-> level, limit |-> limit, cap |-> cap, dir |-> d, words |-> <<>>]
CliAll(does, d) == Cli(does, TRUE, NoLevel, "absent", 0, d)
Stub(does, words) ==
    [by |-> "stub", does |-> does, all |-> FALSE, level |-> NoLevel, limit |-> "absent", cap |-> 0, dir |-> NoDir, words |-> words]
W(w) == <<w, w>>

InTurn == p1 :> {} @@ p2 :> {p1} @@ p3 :> {p1, p2}
AtOnce == [p \in MCProcs |-> {}]
PrewarmFirst == p1 :> {} @@ p2 :> {p1} @@ p3 :> {p1}

Scene(image, dk, env, selected, commands, order, full, maxEdits) ==
    [image |-> image, disk |-> dk, env |-> env, selected |-> selected, commands |-> commands, order |-> order,
     full |-> full, maxEdits |-> maxEdits]

Entries == {[a |-> x, b |-> y] : x \in States, y \in {"missing", "good", "corrupt"}}

\* Plan, prewarm and verify in a named directory, by the command line or with
\* the directory in the environment.
Named ==
    {Scene(i, dk, Env(IF d = NoDir THEN "named" ELSE NoDir, "cache", NoDir), <<"v1", "v1">>,
           p1 :> CliAll("plan", d) @@ p2 :> CliAll("prewarm", d) @@ p3 :> CliAll("verify", d), InTurn, full, 0) :
        i \in Images, d \in {NoDir, "named"}, full \in BOOLEAN,
        dk \in Disks({Private(e) : e \in Entries} \cup Kinds(Empty), {Absent}, {Absent})}

\* The same with the choice left to the environment: the command line plans,
\* the launcher or the command line prewarms, the launcher verifies.
Chosen ==
    {Scene(i, dk, env, <<"v2", "v2">>,
           p1 :> CliAll("plan", NoDir) @@ p2 :> c @@ p3 :> v, InTurn, FALSE, 0) :
        i \in {Two, Shared}, env \in {Auto, Env(NoDir, NoDir, "cache"), Env(NoDir, NoDir, NoDir), Env(NoDir, "tmp", NoDir)},
        c \in {CliAll("prewarm", NoDir), Stub("prewarm", <<W("all")>>)},
        v \in {Stub("verify", <<W("all")>>), Stub("prewarm", <<W("all"), W("verify")>>)},
        dk \in Disks({Absent}, Kinds([a |-> "good", b |-> "corrupt"]), Kinds(Empty))}

\* Options: levels in any spelling, words of the launcher, caps at and around the total.
Alone(c, i, s) == Scene(i, [named |-> Absent, cache |-> Absent, tmp |-> Absent], Auto, s, p1 :> c, InTurn, FALSE, 0)

Options ==
    {Alone(Cli(does, all, l, limit, cap, d), i, s) :
        does \in {"plan", "verify", "prewarm"}, all \in {TRUE}, l \in {NoLevel},
        limit \in {"given", "bad"}, cap \in 0 .. 6, d \in {NoDir, "named"}, i \in Images, s \in {NoLevel}}
    \cup {Alone(Cli(does, FALSE, l, "given", cap, NoDir), Shared, s) :
        does \in {"plan", "prewarm"}, l \in {NoLevel, <<"V3", "v3">>, <<"v9", "v9">>}, cap \in {1, 2}, s \in {NoLevel, <<"v2", "v2">>}}
    \cup {Alone(Stub("prewarm", w), i, s) :
        w \in {<<>>, <<W("json")>>, <<<<"amd64_v1", "v1">>, W("v3")>>, <<W("v9"), W("all")>>, <<W(""), <<"ALL", "all">>>>},
        i \in Images, s \in {NoLevel, <<"v2", "v2">>}}

Started == {Absent, [Private(Empty) EXCEPT !.loose = TRUE], Private([a |-> "corrupt", b |-> "good"])}

Sharing(i, c, commands, order, maxEdits) ==
    Scene(i, [named |-> Absent, cache |-> c, tmp |-> Absent], Auto, <<"v1", "v1">>, commands, order, FALSE, maxEdits)

\* Two prewarm the same cache while a third looks, or before it does.
Together ==
    {Sharing(Two, c, p1 :> CliAll("prewarm", NoDir) @@ p2 :> q @@ p3 :> CliAll(look, NoDir), order, 0) :
        c \in Started, q \in {Stub("prewarm", <<W("all")>>), CliAll("prewarm", "cache")},
        look \in {"plan", "verify"}, order \in {AtOnce, PrewarmFirst}}

\* Another process interferes with one that prewarms and one that looks.
Disturbed ==
    {Sharing(i, c, p1 :> q @@ p2 :> look, order, 1) :
        i \in {Two, Shared}, c \in Started, q \in {CliAll("prewarm", NoDir), Stub("prewarm", <<W("all")>>)},
        look \in {CliAll("plan", NoDir), CliAll("verify", "cache")}, order \in {AtOnce, InTurn}}

\* Another process interferes with a plan, a prewarming and a verification in
\* turn: between the first two it makes the plan stale.
Stale ==
    {Sharing(i, c, p1 :> CliAll("plan", NoDir) @@ p2 :> q @@ p3 :> CliAll("verify", NoDir), InTurn, 1) :
        i \in {Two, Shared}, c \in Started \cup {Private([a |-> "good", b |-> "good"])},
        q \in {CliAll("prewarm", NoDir), Stub("prewarm", <<W("all")>>)}}

PrewarmScenes == <<Named, Chosen, Options, Together, Disturbed, Stale>>
=============================================================================
