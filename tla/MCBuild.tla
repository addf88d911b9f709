------------------------------ MODULE MCBuild -------------------------------
(***************************************************************************)
(* Instance of Build: ELF images laid out byte by byte from what they      *)
(* declare, with one defect each; builds of two and three variants; hosts  *)
(* the CLI may run on; and the settings that meet in one command.          *)
(***************************************************************************)
EXTENDS Build

\* The strings of one input hold a framed module text, and not quite four libraries with six version records.
MCLimits == [progs |-> 4, sections |-> 3, interp |-> 6, dyn |-> 9, strings |-> 45, records |-> 6,
             meta |-> 580, shared |-> 1150, report |-> 90]

-----------------------------------------------------------------------------
(* ELF images.  The first segment starts at address 4096, the second, with *)
(* the data, at 8192 + 704.                                                *)

\* Libraries at 1, 5 (with a control byte) and 9, versions at 15 and 18.
Names == <<0, 65, 66, 67, 0, 66, 7, 67, 0, 67, 68, 69, 70, 71, 0, 86, 49, 0, 86, 50, 0>>
NameAt == [A |-> 1, B |-> 5, C |-> 9, V1 |-> 15, V2 |-> 18]

Plain == [link |-> "dyn", interp |-> 65, deps |-> <<"A">>, vers |-> <<>>, bug |-> "", info |-> "none", machine |-> "x86_64"]

\* Version requirements, a sequence of <<library, versions>>.
AuxBefore(vers, i) == FoldLeft(LAMBDA n, v : n + Len(v[2]), 0, SubSeq(vers, 1, i - 1))

NeedRecords(vers) ==
    LET n == Len(vers)
    IN  [off \in {560 + 16 * (i - 1) : i \in 1 .. n} |->
            LET i == (off - 560) \div 16 + 1
            IN  [version |-> 1, cnt |-> Len(vers[i][2]), file |-> NameAt[vers[i][1]],
                 aux |-> 16 * (n - i + 1 + AuxBefore(vers, i)), next |-> IF i = n THEN 0 ELSE 16]]

AuxRecords(vers) ==
    LET n == Len(vers)
        all == FlattenSeq([i \in 1 .. n |-> [k \in 1 .. Len(vers[i][2]) |-> [name |-> NameAt[vers[i][2][k]], last |-> k = Len(vers[i][2])]]])
    IN  [off \in {560 + 16 * (n + k - 1) : k \in DOMAIN all} |->
            LET k == (off - 560) \div 16 - n + 1
            IN  [flags |-> 0, name |-> all[k].name, next |-> IF all[k].last THEN 0 ELSE 16]]

\* Go build information in the data segment: inline or behind pointers.
Str(len) == [len |-> len, header |-> 8192 + 704 + 160, addr |-> 8192 + 704 + 192]
Info(off, form, goos) ==
    [off |-> off, form |-> form, ptr |-> 8, version |-> Str(4), module |-> Str(2 * InfoFrame + 8), framed |-> TRUE, lines |-> 2,
     columns |-> TRUE, parses |-> TRUE, goos |-> goos]

Infos(kind) ==
    CASE kind = "none"     -> {}
      [] kind = "inline"   -> {Info(0, "inline", "linux")}
      [] kind = "pointer"  -> {Info(16, "pointer", "linux")}
      [] kind = "edge"     -> {Info(48, "inline", "windows")}
      [] kind = "edge32"   -> {Info(32, "inline", "windows")}
      [] kind = "foreign"  -> {Info(0, "pointer", "windows")}
      [] kind = "second"   -> {[Info(0, "inline", "windows") EXCEPT !.parses = FALSE], Info(96, "inline", "linux")}
      [] kind = "unframed" -> {[Info(0, "inline", "windows") EXCEPT !.framed = FALSE]}
      [] kind = "unaligned" -> {Info(8, "inline", "windows")}
      [] kind = "empty"    -> {[Info(0, "inline", "windows") EXCEPT !.version = Str(0)]}
      [] kind = "beyond"   -> {[Info(0, "inline", "windows") EXCEPT !.module = Str(300)]}
      [] kind = "long"     -> {[Info(0, "inline", "linux") EXCEPT !.module = Str(100)]}
      [] kind = "lines"    -> {[Info(0, "inline", "linux") EXCEPT !.lines = 9]}
      [] kind = "ptr16"    -> {[Info(0, "pointer", "windows") EXCEPT !.ptr = 2]}
      [] kind = "unmapped" -> {[Info(0, "pointer", "windows") EXCEPT !.module.addr = 100]}

Segment(type, flags, off, vaddr, n, align) ==
    [type |-> type, flags |-> flags, off |-> off, vaddr |-> vaddr, filesz |-> n, memsz |-> n, align |-> align, infos |-> {}]

Sound(e) ==
    LET dyn == [i \in DOMAIN e.deps |-> <<"needed", NameAt[e.deps[i]]>>] \o <<<<"strtab", 4096 + 480>>, <<"strsz", Len(Names)>>>>
                 \o (IF e.vers = <<>> THEN <<>> ELSE <<<<"verneed", 4096 + 560>>, <<"verneednum", Len(e.vers)>>>>)
                 \o <<<<"null", 0>>>>
        interp == <<Segment("interp", {}, 288, 4096 + 288, 3, 1)>>
        dynamic == <<Segment("dynamic", {}, 304, 4096 + 304, 16 * Len(dyn), 8)>>
        progs == <<Segment("load", {"r", "x"}, 0, 4096, 704, 64),
                   [Segment("load", {"r", "w"}, 704, 8192 + 704, 256, 64) EXCEPT !.infos = Infos(e.info)]>>
    IN  [size |-> 1024,
         header |-> [magic |-> TRUE, class |-> 64, data |-> "lsb", identVersion |-> 1, version |-> 1, osabi |-> "none",
                     type |-> IF e.link = "static" THEN "exec" ELSE "dyn", machine |-> e.machine, entry |-> 4096 + 640,
                     ehsize |-> 64, phoff |-> 64, phentsize |-> 56, shoff |-> 0, shentsize |-> 64, shnum |-> 0, shnum0 |-> 0],
         progs |-> progs \o (IF e.link = "dyn" THEN interp ELSE <<>>) \o (IF e.link \in {"dyn", "bare"} THEN dynamic ELSE <<>>),
         interp |-> <<47, e.interp, 0>>, dyn |-> dyn, str |-> [at |-> 480, bytes |-> Names],
         needs |-> NeedRecords(e.vers), auxes |-> AuxRecords(e.vers)]

HeaderBugs == {"magic", "class", "ident", "data", "tiny", "ehsize", "phentsize", "phoff", "manyprogs", "shentsize", "shoff",
               "shnum", "shnum0", "shmany", "shlong", "shedge", "version", "osabi", "noentry", "type"}
SegmentBugs == {"filesz", "beyond", "wraps", "align", "congruent", "noexec", "entryout", "twointerp", "nointerp", "biginterp",
                "interpout", "unterminated", "dynout", "dynodd", "dynmany"}
DynamicBugs == {"nonull", "twostrtab", "unpaired", "nostrtab", "strbig", "strunmapped", "overlap", "strbss", "nameout",
                "nameempty", "nameopen", "versbig", "versunmapped"}
VersionBugs == {"verneed2", "loop", "back", "early", "late", "auxloop", "auxearly", "auxlate", "auxself", "auxout", "auxsmall", "noaux"}
Bugs == HeaderBugs \cup SegmentBugs \cup DynamicBugs \cup VersionBugs

\* The program headers are load, load, interp, dynamic; the records start at 560.
Broken(x, bug) ==
    LET load == x.progs[1]
        add(p) == [x EXCEPT !.progs = Append(@, p)]
        last == Len(x.dyn)
        set(tag, v) == [x EXCEPT !.dyn = [i \in DOMAIN @ |-> IF @[i][1] = tag THEN <<tag, v>> ELSE @[i]]]
        aux == 560 + 16 * Cardinality(DOMAIN x.needs)
    IN  CASE bug = "" -> x
          [] bug = "magic" -> [x EXCEPT !.header.magic = FALSE]
          [] bug = "class" -> [x EXCEPT !.header.class = 32]
          [] bug = "ident" -> [x EXCEPT !.header.identVersion = 0]
          [] bug = "data" -> [x EXCEPT !.header.data = "?"]
          [] bug = "tiny" -> [x EXCEPT !.size = 60]
          [] bug = "ehsize" -> [x EXCEPT !.header.ehsize = 52]
          [] bug = "phentsize" -> [x EXCEPT !.header.phentsize = 32]
          [] bug = "phoff" -> [x EXCEPT !.header.phoff = 900]
          [] bug = "manyprogs" -> add(load)
          [] bug = "shentsize" -> [x EXCEPT !.header.shoff = 960, !.header.shentsize = 40]
          [] bug = "shoff" -> [x EXCEPT !.header.shoff = 2000]
          [] bug = "shnum" -> [x EXCEPT !.header.shoff = 960, !.header.shnum = 1]
          [] bug = "shnum0" -> [x EXCEPT !.header.shoff = 960, !.header.shnum0 = 1]
          [] bug = "shmany" -> [x EXCEPT !.header.shoff = 960, !.header.shnum0 = 5]
          [] bug = "shlong" -> [x EXCEPT !.header.shoff = 960, !.header.shnum = 2]
          [] bug = "shedge" -> [x EXCEPT !.header.shoff = 1000]
          [] bug = "version" -> [x EXCEPT !.header.version = 0]
          [] bug = "osabi" -> [x EXCEPT !.header.osabi = "freebsd"]
          [] bug = "noentry" -> [x EXCEPT !.header.entry = 0]
          [] bug = "type" -> [x EXCEPT !.header.type = "rel"]
          [] bug = "filesz" -> [x EXCEPT !.progs[1].memsz = 100]
          [] bug = "beyond" -> [x EXCEPT !.progs[2].filesz = 500, !.progs[2].memsz = 500]
          [] bug = "wraps" -> [x EXCEPT !.progs[2].memsz = MaxWord]
          [] bug = "align" -> [x EXCEPT !.progs[1].align = 48]
          [] bug = "congruent" -> [x EXCEPT !.progs[1].vaddr = 4097]
          [] bug = "noexec" -> [x EXCEPT !.progs[1].flags = {"r"}]
          [] bug = "entryout" -> [x EXCEPT !.header.entry = 4096 + 704]
          [] bug = "twointerp" -> [x EXCEPT !.progs[4] = x.progs[3]]
          [] bug = "nointerp" -> [x EXCEPT !.progs[3].filesz = 0]
          [] bug = "biginterp" -> [x EXCEPT !.progs[3].filesz = 7]
          [] bug = "interpout" -> [x EXCEPT !.progs[3].off = 1022]
          [] bug = "unterminated" -> [x EXCEPT !.progs[3].filesz = 2]
          [] bug = "dynout" -> [x EXCEPT !.progs[4].off = 1000]
          [] bug = "dynodd" -> [x EXCEPT !.progs[4].filesz = 40]
          [] bug = "dynmany" -> [x EXCEPT !.progs[4].filesz = 160]
          [] bug = "nonull" -> [x EXCEPT !.progs[4].filesz = @ - 16]
          [] bug = "twostrtab" -> [x EXCEPT !.dyn = <<<<"strtab", 4096>>>> \o @, !.progs[4].filesz = @ + 16]
          [] bug = "unpaired" -> [x EXCEPT !.dyn = <<<<"verneed", 4096 + 560>>>> \o SelectSeq(@, LAMBDA d : d[1] \notin {"verneed", "verneednum"})]
          [] bug = "nostrtab" -> [x EXCEPT !.dyn = SelectSeq(@, LAMBDA d : d[1] # "strtab"), !.progs[4].filesz = @ - 16]
          [] bug = "strbig" -> set("strsz", MCLimits.strings + 1)
          [] bug = "strunmapped" -> set("strtab", 100)
          [] bug = "overlap" -> [x EXCEPT !.progs[2] = [Segment("load", {"r"}, 448, 4096 + 448, 64, 64) EXCEPT !.infos = {}]]
          [] bug = "strbss" -> set("strtab", 4096 + 690)
          [] bug = "nameout" -> [x EXCEPT !.dyn[1][2] = 40]
          [] bug = "nameempty" -> [x EXCEPT !.dyn[1][2] = 0]
          [] bug = "nameopen" -> set("strsz", 3)
          [] bug = "versbig" -> set("verneednum", 7)
          [] bug = "versunmapped" -> set("verneed", 100)
          [] bug = "verneed2" -> [x EXCEPT !.needs[560].version = 2]
          [] bug = "loop" -> [x EXCEPT !.needs[576].next = -16, !.needs[560].version = 1, !.dyn = set("verneednum", 3).dyn]
          [] bug = "back" -> [x EXCEPT !.needs[560].next = -16]
          [] bug = "early" -> [x EXCEPT !.needs[560].next = 0]
          [] bug = "late" -> set("verneednum", 1)
          [] bug = "auxloop" -> [x EXCEPT !.auxes[aux + 16].next = -16, !.needs[560].cnt = 3]
          [] bug = "auxearly" -> [x EXCEPT !.needs[560].cnt = 3]
          [] bug = "auxlate" -> [x EXCEPT !.needs[560].cnt = 1]
          [] bug = "auxself" -> [x EXCEPT !.auxes[aux].next = 560 - aux]
          [] bug = "auxout" -> [x EXCEPT !.needs[560].aux = 700 - 560]
          [] bug = "auxsmall" -> [x EXCEPT !.needs[560].aux = 8]
          [] bug = "noaux" -> [x EXCEPT !.needs[560].cnt = 0]

MCElf(e) == Broken(Sound(e), e.bug)

\* What an image that can be read to its end declares.
MCDeclares(e) ==
    LET read == CASE e.bug = "verneed2" -> <<>> [] e.bug = "noaux" -> Tail(e.vers) [] OTHER -> e.vers
    IN  [linkage |-> CASE e.link \in {"static", "pie"} -> "static" [] e.link = "dyn" -> "dynamic" [] OTHER -> "unclear",
         os |-> IF e.info \in {"edge", "edge32", "foreign"} THEN "windows" ELSE "linux",
         interpreter |-> e.interp,
         libraries |-> IF e.link \in {"static", "pie"} THEN {} ELSE ToSet(e.deps),
         known |-> e.bug # "verneed2",
         versions |-> IF e.link \in {"static", "pie"} THEN {}
                      ELSE UNION {{<<read[i][1], read[i][2][k]>> : k \in DOMAIN read[i][2]} : i \in DOMAIN read}]

-----------------------------------------------------------------------------
(* Hosts.  An ordinary installation, a managed one with two generations, a *)
(* CLI that was itself dispatched, and companions on PATH.                 *)

Bin == <<"usr", "bin">>
Gen(g) == <<"store", "generations", g>>
Local == <<"usr", "local">>
Companions == {"microfat-stub", "microfat-stub-minimal"}

File(digest) == [kind |-> "file", exec |-> TRUE, elf |-> TRUE, machine |-> "x86_64", digest |-> digest, arch |-> "amd64",
                 variants |-> [v1 |-> [size |-> 5, digest |-> "run"], v3 |-> [size |-> 6, digest |-> "other"]]]

BaseFiles ==
    [p \in {Append(d, n) : d \in {Bin, Gen("g1"), Gen("g2")}, n \in Products} \cup {Append(Local, n) : n \in Companions} |->
        File(p[Len(p)])]

Store == [safe |-> TRUE, uid |-> 1, owner |-> [valid |-> TRUE, uid |-> 1, store |-> <<"store">>, bin |-> <<"opt", "bin">>],
          generations |-> [g \in {"g1", "g2"} |-> [valid |-> TRUE, id |-> g, files |-> [n \in Products |-> n]]]]

BaseDisk == [files |-> BaseFiles, links |-> <<"opt", "bin", "microfat">> :> Append(Gen("g1"), "microfat"),
             stores |-> <<"store">> :> Store]

NoHints == [execMode |-> "", dispatchMode |-> "", variant |-> "", size |-> 0, digest |-> "", original |-> NoPath,
            cacheDir |-> NoPath, xdg |-> NoPath, home |-> <<"home">>, path |-> <<<<".", "bin">>, Local>>]

Stubs == [p \in {Append(d, n) : d \in {Bin, Gen("g1"), Gen("g2"), Local}, n \in Companions} |-> Plain]

Host == [disk |-> BaseDisk, exe |-> Append(Bin, "microfat"), procReadable |-> TRUE, self |-> [size |-> 5, digest |-> "run"],
         exeKnown |-> TRUE, env |-> NoHints, cwd |-> <<"work">>, stubs |-> Stubs]

Hints(original) == [NoHints EXCEPT !.execMode = "memfd", !.variant = "v1", !.size = 5, !.digest = "run", !.original = original]
Memfd == <<"memfd:", "microfat", "(deleted)">>
Cached == <<"home", ".cache", "microfat", "entry">>

\* What may be wrong with the disk.
Disks ==
    <<BaseDisk,
     [BaseDisk EXCEPT !.files[Append(Bin, "microfat-stub")].machine = "aarch64"],
     [BaseDisk EXCEPT !.files[Append(Bin, "microfat-stub")].kind = "dir"],
     [BaseDisk EXCEPT !.files[Append(Gen("g1"), "microfat-stub")].machine = "aarch64"],
     [BaseDisk EXCEPT !.files[Append(Gen("g1"), "microfat-stub")].digest = "changed"],
     [BaseDisk EXCEPT !.files[Append(Gen("g1"), "microfat")].variants = <<>>, !.files[Append(Bin, "microfat")].variants.v1.digest = "new"],
     [BaseDisk EXCEPT !.files[Append(Bin, "microfat")].arch = "arm64"],
     [BaseDisk EXCEPT !.stores[<<"store">>].safe = FALSE],
     [BaseDisk EXCEPT !.stores[<<"store">>].owner.uid = 2],
     [BaseDisk EXCEPT !.stores[<<"store">>].generations["g1"].valid = FALSE],
     [BaseDisk EXCEPT !.files = [p \in DOMAIN @ \ {Append(Gen("g1"), "microfat")} |-> @[p]]],
     [BaseDisk EXCEPT !.files = Append(Bin, "generation.json") :> File("x") @@ @],
     [BaseDisk EXCEPT !.files = Cached :> File("run") @@ @],
     [BaseDisk EXCEPT !.files[Append(Local, "microfat-stub")].exec = FALSE,
                      !.files[Append(Bin, "microfat-stub")].elf = FALSE]>>

HintSets ==
    <<NoHints, Hints(Append(Bin, "microfat")), Hints(Append(Gen("g1"), "microfat")), Hints(<<"opt", "bin", "microfat">>),
     Hints(<<".", "microfat">>), Hints(<<"gone">>),
     [Hints(Append(Bin, "microfat")) EXCEPT !.digest = "other"], [Hints(Append(Bin, "microfat")) EXCEPT !.size = 6],
     [Hints(Append(Bin, "microfat")) EXCEPT !.variant = "v3"], [Hints(Append(Bin, "microfat")) EXCEPT !.variant = "v4"],
     [Hints(Append(Gen("g2"), "microfat")) EXCEPT !.execMode = "", !.dispatchMode = "cache"],
     [Hints(Append(Gen("g1"), "microfat")) EXCEPT !.execMode = "other"],
     [Hints(Append(Bin, "microfat")) EXCEPT !.xdg = <<"usr">>, !.cacheDir = Gen("g2")]>>

Running == <<Append(Bin, "microfat"), Append(Gen("g1"), "microfat"), Memfd, Cached>>

\* A host by its disk, hints and image; the target of the stubs, whether /proc can be read and the process knew its path.
Usual == [disk |-> 1, hints |-> 1, exe |-> 1, proc |-> TRUE, known |-> TRUE, target |-> "x86_64", stubBug |-> ""]

MCHostOf(k) ==
    [Host EXCEPT !.disk = IF k.target = "x86_64" THEN Disks[k.disk]
                          ELSE [BaseDisk EXCEPT !.files = [p \in DOMAIN @ |-> [@[p] EXCEPT !.machine = k.target]]],
                 !.env = HintSets[k.hints], !.exe = Running[k.exe], !.procReadable = k.proc, !.exeKnown = k.known,
                 !.stubs = [p \in DOMAIN @ |-> [Plain EXCEPT !.machine = k.target, !.bug = k.stubBug]]]

Hosts ==
    {[Usual EXCEPT !.disk = d, !.hints = e, !.exe = x] : d \in DOMAIN Disks, e \in DOMAIN HintSets, x \in DOMAIN Running}
        \cup {[Usual EXCEPT !.disk = d, !.exe = x, !.proc = r, !.known = k] : d \in DOMAIN Disks, x \in 1 .. 2, r \in BOOLEAN, k \in BOOLEAN}

-----------------------------------------------------------------------------
(* Commands and manifests. *)

L(level) == <<level, level>>
W(word) == IF word = "" THEN NoWord ELSE <<word, word>>

Command ==
    [manifest |-> FALSE, pgo |-> FALSE, epoch |-> TRUE, emptyStub |-> FALSE, format |-> 2, dict |-> FALSE, profitable |-> FALSE, size |-> 0,
     profile |-> NoWord, codec |-> <<>>, level |-> "", overrides |-> <<>>, stub |-> NoPath, stubProfile |-> "", output |-> "out",
     os |-> W("linux"), arch |-> W("amd64"), variants |-> <<<<L("v1"), "f1">>, <<L("v3"), "f3">>>>,
     skip |-> FALSE, mixed |-> FALSE, keep |-> FALSE, concurrency |-> 2]

VariantOf(level) == [level |-> L(level), pgo |-> NoWord, env |-> <<>>, flags |-> <<>>, compression |-> NoCompression]

ManifestOf(arch, levels) ==
    [package |-> "app", output |-> "out", stub |-> NoPath, profile |-> NoWord, os |-> NoWord, arch |-> W(arch), pgo |-> NoWord,
     env |-> <<>>, flags |-> <<>>, compression |-> NoCompression, dir |-> <<"project">>,
     variants |-> [i \in DOMAIN levels |-> VariantOf(levels[i])]]

Settings(arch, tier) == <<<<"GOOS", <<"linux">>>>, <<"GOARCH", <<arch>>>>, <<TierKey(arch), tier>>>>

Content(e, arch, tier) == [elf |-> e, size |-> 100, settings |-> Settings(arch, tier), built |-> tier]

Honest(e) == [does |-> "honest", other |-> Content(e, "amd64", <<>>)]
Makes(c) == [does |-> "other", other |-> c]
Fails == [does |-> "fail", other |-> Content(Plain, "amd64", <<>>)]

Unlimited == [procs |-> 4, goMemLimit |-> NoMemoryCap, cgroupMem |-> NoMemoryCap, cgroupCpus |-> 0]

Packing ==
    [o |-> Command, file |-> [state |-> "good", m |-> ManifestOf("amd64", <<"v1", "v3">>)], host |-> Usual,
     files |-> [f \in {"f1", "f3"} |-> [content |-> Content(Plain, "amd64", <<"v1">>), id |-> 0]],
     compiler |-> [l \in {"v1", "v2", "v3", "v8.0", "v8.1"} |-> Honest(Plain)],
     ambient |-> <<>>, disk |-> [profiles |-> {"p"}, default |-> "file", dirs |-> {"app"}],
     encoders |-> {Unlimited}, cancels |-> FALSE, maxEdits |-> 0, intrusions |-> {}, stdout |-> TRUE, outputDir |-> TRUE]

Building == [Packing EXCEPT !.o.manifest = TRUE, !.files = <<>>]

-----------------------------------------------------------------------------
(* The scenes. *)

\* Compilation: failing and deviating compilers, cancellation, and writes to staged files.
WrongTier == Content(Plain, "amd64", <<"v2">>)
Stripped == [WrongTier EXCEPT !.settings = <<>>]
Twice == [WrongTier EXCEPT !.settings = @ \o <<<<"GOAMD64", <<"v1">>>>>>]
OtherOS == [WrongTier EXCEPT !.settings = [@ EXCEPT ![1] = <<"GOOS", <<"freebsd">>>>]]
Mixed == [WrongTier EXCEPT !.settings = Append(@, <<"GOARM64", <<"v8.0">>>>)]

CompilerKinds == {Honest(Plain), Fails, Makes(WrongTier)}

CompileScenes ==
    {[Building EXCEPT !.compiler = "v1" :> a @@ "v2" :> b @@ "v3" :> c @@ @, !.cancels = x, !.o.concurrency = n, !.o.keep = k,
                      !.file.m = ManifestOf("amd64", <<"v1", "v2", "v3">>)] :
        a \in CompilerKinds, b \in {Honest(Plain), Fails}, c \in {Honest(Plain), Fails}, x \in BOOLEAN, n \in {0, 1}, k \in BOOLEAN}

EditScenes ==
    {[Building EXCEPT !.maxEdits = 1, !.intrusions = {WrongTier, Stripped, Content(Plain, "amd64", <<"v3">>)}, !.cancels = x] : x \in BOOLEAN}
        \cup {[Building EXCEPT !.compiler["v3"] = Makes(c)] : c \in {Stripped, Twice, OtherOS, Mixed}}
        \cup {[Packing EXCEPT !.maxEdits = 1, !.intrusions = {Content([Plain EXCEPT !.bug = "magic"], "amd64", <<"v1">>), WrongTier}]}

\* The environment a compiler is given.
Ambients == {<<>>, <<<<"GOAMD64", <<"v4">>>>, <<"GOOS", <<"windows">>>>, <<"GOFLAGS", <<"a">>>>, <<"", <<"">>>>, <<"SOURCE_DATE_EPOCH", <<"7">>>>>>}
Envs == {<<>>, "GOOS" :> <<"linux">>, "GOAMD64" :> <<"v1">>, "GOARM64" :> <<"v8.1", "lse">>, "GOARM64" :> <<"v8.0", "crypto">>,
         "SOURCE_DATE_EPOCH" :> <<"9">>, "A=B" :> <<"">>, "X" :> <<"NUL">>}

EnvironmentScenes ==
    {[Building EXCEPT !.ambient = amb, !.file.m = [ManifestOf(a[1], a[2]) EXCEPT !.env = root, !.variants[1].env = own],
                      !.compiler = [l \in DOMAIN @ |-> Honest([Plain EXCEPT !.machine = Machines[a[1]]])],
                      !.host.target = Machines[a[1]]] :
        amb \in Ambients, root \in Envs, own \in Envs, a \in {<<"amd64", <<"v1">>>>, <<"arm64", <<"v8.1">>>>, <<"amd64", <<"v1", "v3">>>>}}

\* Manifests that are refused, and profiles of the compiler.
BadManifests ==
    LET m == ManifestOf("amd64", <<"v1", "v3">>)
        bad == [NoCompression EXCEPT !.profile = W("tiny")]
    IN  {[m EXCEPT !.arch = W("mips")], [m EXCEPT !.os = W("plan9")], [m EXCEPT !.os = <<"Linux", "linux">>], [m EXCEPT !.variants = <<>>],
         [m EXCEPT !.arch = NoWord, !.package = ""], [m EXCEPT !.profile = W("huge")], [m EXCEPT !.profile = W("minimal")],
         [m EXCEPT !.compression = bad], [m EXCEPT !.variants[2].compression = bad], [m EXCEPT !.variants[2].level = <<"amd64_v1", "v1">>],
         [m EXCEPT !.variants[1].level = NoWord], [m EXCEPT !.variants[1].level = L("v9")],
         [m EXCEPT !.compression.dict = TRUE, !.compression.profitable = TRUE], [m EXCEPT !.compression.codec = <<"gzip">>],
         [m EXCEPT !.output = ""], [m EXCEPT !.stub = <<".", "stub">>], [m EXCEPT !.stub = Append(Bin, "microfat-stub")],
         [m EXCEPT !.pgo = W("p")], [m EXCEPT !.pgo = W("gone")], [m EXCEPT !.pgo = <<"OFF", "off">>, !.variants[1].pgo = W("p")],
         [m EXCEPT !.variants[1].pgo = W("gone")]}

ManifestScenes ==
    {[Building EXCEPT !.file.m = m, !.o.output = out, !.disk.default = d] : m \in BadManifests, out \in {"", "to"}, d \in {"file", "dir"}}
        \cup {[Building EXCEPT !.file.state = st] : st \in {"missing", "unreadable", "large", "malformed"}}
        \cup {[Building EXCEPT !.outputDir = FALSE], [Building EXCEPT !.stdout = FALSE], [Building EXCEPT !.o.pgo = TRUE]}

\* Flags.
Commands ==
    LET o == Command
    IN  {[o EXCEPT !.epoch = FALSE], [o EXCEPT !.emptyStub = TRUE], [o EXCEPT !.format = 1], [o EXCEPT !.dict = TRUE, !.profitable = TRUE],
         [o EXCEPT !.os = W("darwin")], [o EXCEPT !.arch = W("mips")], [o EXCEPT !.arch = NoWord], [o EXCEPT !.arch = <<"X86_64", "x86_64">>],
         [o EXCEPT !.output = ""], [o EXCEPT !.variants = <<>>], [o EXCEPT !.variants = Append(@, <<L("v1"), "f1">>)],
         [o EXCEPT !.variants = Append(@, <<<<"amd64_v1", "v1">>, "f1">>)], [o EXCEPT !.variants = Append(@, <<L("v8.0"), "f1">>)],
         [o EXCEPT !.variants = Append(@, <<L("v2"), "f1">>)], [o EXCEPT !.variants = Append(@, <<L("v2"), "absent">>)],
         [o EXCEPT !.overrides = <<<<L("v2"), <<"lz4">>>>>>], [o EXCEPT !.overrides = <<<<L("v1"), <<"gzip">>>>>>],
         [o EXCEPT !.overrides = <<<<L("v1"), <<"lz4">>>>, <<<<"V1", "v1">>, <<"zstd">>>>>>], [o EXCEPT !.overrides = <<<<L("v1"), <<"none", "1">>>>>>],
         [o EXCEPT !.overrides = <<<<L("v1"), <<"lz4", "speed">>>>>>], [o EXCEPT !.codec = <<"gzip">>], [o EXCEPT !.codec = <<"lz4">>, !.level = "speed"],
         [o EXCEPT !.profile = W("tiny")], [o EXCEPT !.stubProfile = "minimal"], [o EXCEPT !.stubProfile = "huge"],
         [o EXCEPT !.stub = <<".", "stub">>], [o EXCEPT !.stub = Append(Bin, "microfat-stub")], [o EXCEPT !.pgo = TRUE]}

CommandScenes == {[Packing EXCEPT !.o = o] : o \in Commands}
    \cup {[Packing EXCEPT !.stdout = FALSE], [Packing EXCEPT !.host.stubBug = "noexec"]}

\* Where the stub comes from.
StubScenes ==
    {[Packing EXCEPT !.host = h, !.o.stubProfile = f, !.o.skip = TRUE, !.o.variants = <<<<L("v1"), "f1">>>>] : h \in Hosts, f \in {"", "minimal"}}

\* ELF images: one sound, one of every kind and defect.
Versions == {<<>>, <<<<"A", <<"V1">>>>>>, <<<<"A", <<"V1", "V2">>>>, <<"B", <<"V1">>>>>>}
Images2 ==
    {[Plain EXCEPT !.link = l, !.deps = d, !.interp = i, !.vers = v] :
        l \in {"dyn", "static", "pie", "bare"}, d \in {<<"A">>, <<"B">>, <<"A", "B">>, <<"B", "A">>, <<"A", "B", "C">>, <<>>}, i \in {65, 66}, v \in Versions}
Defects ==
    {[Plain EXCEPT !.bug = b, !.vers = <<<<"A", <<"V1", "V2">>>>, <<"B", <<"V1">>>>>>] : b \in Bugs}
        \cup {[Plain EXCEPT !.info = i] : i \in {"inline", "pointer", "edge", "edge32", "foreign", "second", "unframed", "unaligned", "empty",
                                                 "beyond", "long", "lines", "ptr16", "unmapped"}}
        \cup {[Plain EXCEPT !.machine = "aarch64"]}

PackingFiles(s, first, second) == [s EXCEPT !.files["f1"].content.elf = first, !.files["f3"].content.elf = second]

ElfScenes ==
    {PackingFiles([Packing EXCEPT !.o.mixed = x], [Plain EXCEPT !.deps = d, !.vers = v], e) :
        x \in BOOLEAN, d \in {<<"A">>, <<"A", "B">>}, v \in Versions, e \in Images2}
DefectScenes == {PackingFiles(Packing, Plain, e) : e \in Defects}
    \cup {PackingFiles([Packing EXCEPT !.o.variants = Append(@, <<L("v2"), "f2">>), !.files = "f2" :> @["f1"] @@ @],
                       [Plain EXCEPT !.vers = v, !.deps = d], [Plain EXCEPT !.vers = v, !.deps = d]) : v \in Versions, d \in {<<"A">>, <<"A", "B">>, <<"A", "B", "C">>}}
    \cup {PackingFiles(Packing, Plain, [Plain EXCEPT !.deps = d, !.vers = <<<<"C", <<"V1", "V2">>>>, <<"B", v>>>>]) :
            d \in {<<"A", "C", "C", "C">>, <<"C", "C", "C", "C">>}, v \in {<<"V1", "V2">>, <<"V1", "V2", "V1">>}}

\* Compression settings of one variant from every place they can be made.
Specs == {<<>>, <<"lz4">>, <<"zstd", "fast">>}
Own == {[NoCompression EXCEPT !.codec = c, !.level = l, !.profile = W(f)] : c \in Specs, l \in {"", "9"}, f \in {"", "size"}}
Root == {[NoCompression EXCEPT !.codec = c, !.level = l, !.profile = W(f), !.dict = d] : c \in {<<>>, <<"zstd", "max">>}, l \in {"", "2"}, f \in {"", "latency"}, d \in {FALSE}}
    \cup {[NoCompression EXCEPT !.dict = TRUE], [NoCompression EXCEPT !.profitable = TRUE]}
Global == {[codec |-> c, level |-> l, profile |-> W(f)] : c \in {<<>>, <<"lz4">>, <<"zstd", "better">>}, l \in {"", "best"}, f \in {"", "balanced", "latency"}}
Overriding == {<<>>, <<<<L("v1"), <<"lz4">>>>>>, <<<<<<"V1", "v1">>, <<"zstd", "11">>>>>>}

CompressionScenes ==
    {[Building EXCEPT !.file.m = [ManifestOf("amd64", <<"v1">>) EXCEPT !.compression = r, !.variants[1].compression = own],
                      !.o.codec = g.codec, !.o.level = g.level, !.o.profile = g.profile, !.o.overrides = ov, !.o.skip = TRUE,
                      !.o.profitable = r.dict, !.o.dict = r.profitable, !.compiler["v1"].other.size = z] :
        r \in Root, own \in Own, g \in Global, ov \in Overriding, z \in {100, 600}}

\* Encoders whose process limits change after admission; sizes around a block and a cap, in KiB.
EncodeScenes ==
    {[Packing EXCEPT !.o.codec = <<c>>, !.o.level = l, !.o.skip = TRUE, !.files["f1"].content.size = z, !.files["f3"].content.size = z,
                  !.encoders = {[procs |-> p, goMemLimit |-> g, cgroupMem |-> m, cgroupCpus |-> q] :
                                  p \in {1, 4, 16}, g \in {NoMemoryCap, 400000}}] :
        c \in {"lz4", "zstd"}, l \in {"", "fast"}, z \in {63, 64, 127, 128, 4096, 4097, 36864, 200000, 420000},
        m \in {NoMemoryCap, 0, 262143, 262144, 524288}, q \in {0, 2}}

MCScenes == <<CompileScenes, EditScenes, EnvironmentScenes, ManifestScenes, CommandScenes, StubScenes, ElfScenes, DefectScenes,
              CompressionScenes, EncodeScenes>>
=============================================================================
