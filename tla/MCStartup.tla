------------------------------ MODULE MCStartup ------------------------------
(***************************************************************************)
(* Starts of small fat binaries on many hosts, and of one binary under     *)
(* many environments, containers and tuning calls.                         *)
(***************************************************************************)
EXTENDS Startup

\* All but at most one, or two, of the features: built from pairs, not from the whole power set.
AllButOne(S) == {S \ {a} : a \in S} \cup {S}
AllButTwo(S) == {S \ {a, b} : a, b \in S} \cup {S}

ArmLevelFeatures == UNION {ArmRequirements[l].features : l \in ArmLevels}
AmdFeatures == X86v2 \cup X86v3 \cup X86v4

Plain(l) == <<"plain", l>>
Full(l) == <<"qualified", l>>

Hw(arch, feats, leaf) == [arch |-> arch, feats |-> feats, basicLeaf |-> leaf, extLeaf |-> leaf, auxv |-> leaf]
NoPolicy == [force |-> NoLevel, max |-> NoLevel, disabled |-> {}, policy |-> "", avx512 |-> FALSE]
NoHeap == [whole |-> <<>>, frac |-> <<>>, unit |-> "none"]
NoGo == [k \in GoKeys |-> Unset]
User == [go |-> NoGo, autotune |-> "", dryRun |-> FALSE, profile |-> "", heap |-> NoHeap, ratio |-> 0,
         cpu |-> "", execMode |-> "", dispatchMode |-> ""]
Plainly == [ids |-> "equal", auxv |-> "clean", caps |-> "none"]

Absent == <<"absent", 0>>
Dir(max, high, cpu) == [max |-> max, high |-> high, cpu |-> cpu]
Line(controllers, path) == [entry |-> TRUE, hierarchy |-> IF controllers = {} THEN 0 ELSE 1, controllers |-> controllers, path |-> path]
Proc(lines) == [readable |-> TRUE, lines |-> << [Line({}, "") EXCEPT !.entry = FALSE] >> \o lines]
V2(dirs) == [mount |-> TRUE, proc |-> Proc(<<Line({}, "found")>>), layout |-> "v2", dirs |-> dirs, mem |-> <<>>, cpu |-> <<>>]
Ctl(files) == [mounted |-> TRUE, files |-> files]
V1(mem, cpu) == [V2(<<>>) EXCEPT !.layout = "v1", !.mem = mem, !.cpu = cpu,
                   !.proc = Proc(<<Line({"memory"}, "empty"), Line({"memory"}, "found"), Line({"cpu", "cpuacct"}, "found"), Line({}, "found")>>)]

Roomy == V2(<<Dir(Num(200), Absent, <<"num", <<5, 2>> >>), Dir(<<"max", 0>>, Absent, <<"max", 1>>)>>)
Nested == V2(<<Dir(Num(400), Num(300), Absent), Dir(Num(150), <<"max", 0>>, <<"num", <<1, 2>> >>), Dir(Absent, Num(160), Absent)>>)
Tiny == V2(<<Dir(Num(40), Absent, Absent)>>)
Zero == V2(<<Dir(Num(300), Num(0), Absent)>>)
Torn == V2(<<Dir(Num(200), Absent, Absent), Dir(<<"junk", 0>>, Absent, Absent)>>)
Free == V2(<<Dir(<<"max", 0>>, <<"max", 0>>, <<"max", 1>>)>>)
Old == V1(Ctl(<<Num(3000), Num(180)>>), Ctl(<< <<Num(-1), Num(1)>>, <<Num(3), Num(1)>> >>))
Containers == {Roomy, Nested, Tiny, Zero, Torn, Free, Old}

Image(arch, levels) == [arch |-> arch, levels |-> levels, size |-> 40]
Amd13 == Image("amd64", <<Plain("v1"), Full("v3"), Plain("v4")>>)

Base == [hw |-> Hw("amd64", AmdFeatures, TRUE), cpuinfo |-> <<>>, image |-> Amd13, policy |-> NoPolicy, user |-> User,
         proc |-> Plainly, command |-> "run", parent |-> <<>>, self |-> "app", cg |-> Roomy, later |-> {},
         inspect |-> FALSE, setenv |-> Unset, unmeasured |-> FALSE, options |-> <<>>]

MemfdUser == [User EXCEPT !.execMode = "memfd"]
Ladder == <<"v8.0", "v8.1", "v8.2", "v8.3", "v8.4", "v8.5", "v8.6", "v8.7", "v8.8", "v8.9",
            "v9.0", "v9.1", "v9.2", "v9.3", "v9.4", "v9.5">>

ArmImages == {Image("arm64", [i \in 1..16 |-> Plain(Ladder[i])]),
              Image("aarch64", <<Full("v8.0"), Plain("v8.9"), Full("v9.0"), Plain("v8.7")>>),
              Image("arm64", <<Plain("v8.2"), Full("v8.6"), Plain("v9.5"), Plain("v7")>>)}
ArmPolicies == {NoPolicy, [NoPolicy EXCEPT !.max = Plain("v8.9")], [NoPolicy EXCEPT !.force = Full("v9.0")],
                [NoPolicy EXCEPT !.disabled = {Plain("v9.2"), Full("v8.7")}, !.max = Plain("v7")]}
ArmScenes == {[Base EXCEPT !.hw = Hw("arm64", f, leaf), !.image = im, !.policy = p, !.user = MemfdUser] :
                f \in AllButTwo(ArmLevelFeatures), leaf \in BOOLEAN, im \in ArmImages, p \in ArmPolicies}

Xeon == << <<"vendor_id", "GenuineIntel">>, <<"cpu family", 6>>, <<"model", 85>>, <<"model", 1>> >>
AmdImages == {Amd13, Image("x86_64", <<Full("v2"), Plain("v3"), Plain("v5"), Plain("v3")>>)}
AmdPolicies == {NoPolicy, [NoPolicy EXCEPT !.max = Full("v3")], [NoPolicy EXCEPT !.force = Plain("v4")],
                [NoPolicy EXCEPT !.force = Plain("v9")], [NoPolicy EXCEPT !.disabled = {Plain("v4")}],
                [NoPolicy EXCEPT !.policy = "no_downclock"],
                [NoPolicy EXCEPT !.avx512 = TRUE, !.max = Plain("v2")]}
AmdScenes == {[Base EXCEPT !.hw = Hw("amd64", f, TRUE), !.image = im, !.policy = p, !.user = MemfdUser, !.cpuinfo = c] :
                f \in AllButOne(AmdFeatures), im \in AmdImages, p \in AmdPolicies, c \in {<<>>, Xeon}}
ProbeScenes == {[Base EXCEPT !.hw = Hw("amd64", f, leaf), !.image = im, !.user = MemfdUser] :
                f \in AllButTwo(AmdFeatures), leaf \in BOOLEAN, im \in AmdImages}

OddScenes ==
    {[Base EXCEPT !.proc = p] : p \in {[Plainly EXCEPT !.ids = "differ"], [Plainly EXCEPT !.auxv = "secure"],
                                       [Plainly EXCEPT !.caps = "present"], [Plainly EXCEPT !.caps = "unsupported"]}}
    \cup {[Base EXCEPT !.command = c, !.image = im] : c \in MetaCommands, im \in {Amd13, Image("arm64", <<Plain("v8.0")>>)}}
    \cup {[Base EXCEPT !.hw = Hw("riscv64", {}, TRUE)]}

\* Byte sizes around rounding ties and the largest integer.
Digits == {0, 1, 4, 5, 9}
Upto(n) == UNION {[1..k -> Digits] : k \in 0..n}
SizeScenes == {[Base EXCEPT !.user.heap = [whole |-> w, frac |-> f, unit |-> u], !.command = "help"] :
                 w \in Upto(2) \cup {<<4, 0, 9>>}, f \in Upto(2), u \in {"b", "k", "x"}}
EdgeScenes == {[Base EXCEPT !.user.heap = h, !.command = "help"] :
                 h \in [whole : {<<4, 0, 9, 5>>, <<4, 0, 9, 6>>, <<0, 0, 3>>}, frac : {<<>>, <<9, 9, 9>>, <<0, 1>>, <<4>>}, unit : {"b"}]
                       \cup [whole : {<<>>, <<0>>}, frac : {<<>>, <<0, 0>>, <<0, 0, 1>>, <<0, 0, 4>>}, unit : {"m"}]}

Opt == [ratio |-> 0, headroom |-> 0, profile |-> "", heap |-> 0, gogc |-> NoGOGC, dryRun |-> "", cpu |-> ""]
Batch == [Opt EXCEPT !.profile = "batch_etl"]
CallLists == {<<>>, <<[Opt EXCEPT !.gogc = Off]>>, <<Opt, Batch>>, <<Batch, [Opt EXCEPT !.gogc = 50, !.ratio = 100]>>,
              <<[Batch EXCEPT !.dryRun = "on"], [Opt EXCEPT !.profile = "adaptive", !.heap = 30, !.dryRun = "off"]>>}
MemorySettings == {Unset, Empty, Bytes(50), <<"off", 0>>, <<"bad", 0>>}

\* Whether periodic collection may be switched off.
BatchScenes ==
    {[Base EXCEPT !.cg = c, !.later = {d}, !.user.profile = p, !.user.go["GOMEMLIMIT"] = m, !.options = o,
                  !.setenv = e, !.user.execMode = x] :
       c \in {Roomy, Zero, Free, Torn}, d \in {Zero, Free}, p \in {"", "batch_etl"}, m \in MemorySettings, o \in CallLists,
       e \in {Unset, Bytes(70)}, x \in {"memfd"}}

\* The settings of a user against those of the tuning.
UserScenes ==
    {[Base EXCEPT !.cg = c, !.user.go = [GOMEMLIMIT |-> m, GOMAXPROCS |-> q, GOGC |-> g], !.user.autotune = a,
                  !.user.dryRun = y, !.options = o, !.inspect = TRUE, !.user.profile = "latency_critical"] :
       c \in {Nested, Old}, m \in {Unset, Empty, Bytes(50)}, q \in {Unset, Empty, Num(3)}, g \in {Unset, Empty, Num(60), <<"off", 0>>},
       a \in {"", "off"}, y \in BOOLEAN, o \in {<<[Opt EXCEPT !.gogc = 20]>>}}

Stale == "EXEC_MODE" :> <<"text", "cache">> @@ "POLICY_APPLIED" :> <<"text", "max_level">> @@ "CGROUP_GOGC" :> <<"off", 0>>
         @@ "CGROUP_VERSION" :> Num(2) @@ "PATH" :> <<"text", "/bin">>

\* Inspection and launch on every path, in every container.
PathScenes ==
    {[Base EXCEPT !.cg = c, !.later = l, !.inspect = TRUE, !.parent = Stale, !.unmeasured = un, !.options = <<Opt>>,
                  !.user.execMode = x, !.user.profile = pr, !.user.heap = h, !.user.ratio = r, !.policy.max = p, !.user.cpu = cpu] :
       c \in Containers, l \in {{}, {Tiny}}, un \in BOOLEAN, x \in {"", "cache", "bogus"}, pr \in {"adaptive", "memory_constrained", "odd"},
       h \in {NoHeap, [whole |-> <<3, 0>>, frac |-> <<>>, unit |-> "b"], [whole |-> <<>>, frac |-> <<>>, unit |-> "k"]},
       r \in {0}, p \in {NoLevel, Plain("v3")}, cpu \in {""}}
LayoutScenes ==
    {[Base EXCEPT !.cg = c, !.later = {Roomy}, !.inspect = TRUE, !.user.ratio = r, !.user.cpu = cpu, !.options = <<Opt, Opt>>] :
       c \in Containers \cup {[Old EXCEPT !.proc = Proc(<<Line({"cpu"}, "found")>>)], [Old EXCEPT !.proc = Proc(<<Line({"memory"}, "found"), Line({"cpu"}, "empty")>>)],
                              [Old EXCEPT !.proc = Proc(<<Line({"memory", "cpu"}, "missing")>>)], [Old EXCEPT !.proc = Proc(<<Line({"pids"}, "found")>>)],
                              [Old EXCEPT !.mem.mounted = FALSE], [Roomy EXCEPT !.proc = Old.proc], [Roomy EXCEPT !.proc = Proc(<<Line({"cpu"}, "found")>>)],
                              [Roomy EXCEPT !.proc = Proc(<<Line({}, "missing")>>)], [Roomy EXCEPT !.proc = Proc(<<>>)], [Roomy EXCEPT !.proc = Proc(<<[Line({}, "found") EXCEPT !.hierarchy = 1]>>)],
                              [Roomy EXCEPT !.proc.readable = FALSE], [Roomy EXCEPT !.layout = "none"], [Roomy EXCEPT !.mount = FALSE], [Old EXCEPT !.cpu.files = <<<<Num(2), Absent>>, <<Num(4), Num(1)>> >>]},
       r \in {50, 101}, cpu \in {"native", "odd"}}

StartScenes == <<ArmScenes, AmdScenes, ProbeScenes, OddScenes, SizeScenes, EdgeScenes, BatchScenes, UserScenes, PathScenes, LayoutScenes>>
=============================================================================
