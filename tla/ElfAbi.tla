------------------------------- MODULE ElfAbi -------------------------------
(***************************************************************************)
(* Inspection of a packaged ELF file (abi.go, elf.go and platform.go of    *)
(* internal/pack): executable validation, platform evidence and the ABI    *)
(* requirements the file declares, under resource budgets.                 *)
(*                                                                         *)
(* An input is a record: its size, the fields of its header, its program   *)
(* headers in order, and what lies at the places they lead to: the         *)
(* dynamic entries, the bytes around the string table, the version records *)
(* by file offset and the Go build information of each segment.  Offsets   *)
(* and sizes count bytes; a name is a sequence of bytes, 0 is NUL.         *)
(*                                                                         *)
(* An account is what one inspection has charged.  err is its first error, *)
(* val the name it decoded last; the history fields examined and outside   *)
(* count the bytes its scans looked at and record a read beyond the file.  *)
(***************************************************************************)
EXTENDS Integers, Sequences, FiniteSetsExt, SequencesExt

CONSTANTS AbiLimits,   \* the budgets: progs, sections, interp, dyn, strings, records, meta, shared, report
          ChunkSize,   \* bytes of a string scanned at a time
          WindowSize,  \* bytes of a segment searched at a time
          MaxWord      \* the largest uint64

HeaderSize == 64
EntrySize == 16      \* of a dynamic entry, an Elf64_Verneed and an Elf64_Vernaux
InfoHeader == 32     \* of the Go build information
InfoAlign == 16
InfoFrame == 16      \* of the marker at either end of the module text

NoReport == [linkage |-> "none", interp |-> <<>>, deps |-> <<>>, versions |-> {}, completeness |-> "absent", warnings |-> {}]

NewAccount(used) ==
    [meta |-> 0, scan |-> 0, str |-> 0, recs |-> 0, shared |-> used, val |-> <<>>, report |-> NoReport,
     err |-> "none", examined |-> 0, outside |-> FALSE]

Refuse(a, e) == [a EXCEPT !.err = e]
Require(a, ok, e) == IF ok THEN a ELSE Refuse(a, e)
Then(a, F(_)) == IF a.err = "none" THEN F(a) ELSE a

-----------------------------------------------------------------------------
(* Budgets. *)

CheckMetadata(a, n) ==
    LET fits(limit, used) == n <= limit /\ used <= limit - n
    IN  Require(a, fits(AbiLimits.meta, a.meta) /\ fits(AbiLimits.shared, a.shared), "limit")

ChargeMetadata(a, n) ==
    Then(CheckMetadata(a, n), LAMBDA b : [b EXCEPT !.meta = @ + n, !.shared = @ + n])

CheckStringScan(a, n) == Require(a, n <= AbiLimits.strings /\ a.scan <= AbiLimits.strings - n, "limit")

ChargeStringScan(a, n) ==
    Then(CheckStringScan(a, n), LAMBDA b : Then(ChargeMetadata(b, n), LAMBDA c : [c EXCEPT !.scan = @ + n]))

RefundStringScan_Local(a, n) ==
    LET less(used) == IF n > used THEN 0 ELSE used - n
    IN  [a EXCEPT !.scan = less(@), !.meta = less(@)]

RefundStringScan(a, n) ==
    LET less(used) == IF n > used THEN 0 ELSE used - n
    IN  [a EXCEPT !.scan = less(@), !.meta = less(@), !.shared = less(@)]

ChargeString(a, n) ==
    Then(Require(a, n <= AbiLimits.strings /\ a.str <= AbiLimits.strings - n, "limit"),
         LAMBDA b : [b EXCEPT !.str = @ + n])

ChargeVersionRecord(a) ==
    Then(Require(a, a.recs < AbiLimits.records, "limit"), LAMBDA b : [b EXCEPT !.recs = @ + 1])

\* What every budget still allows a scan to look at.
ScanBudget(a) == Min({AbiLimits.strings - a.scan, AbiLimits.meta - a.meta, AbiLimits.shared - a.shared})

\* readIntoAt, readExactAt.
ReadAt(x, a, off, n) == IF n > 0 /\ off + n > x.size THEN [Refuse(a, "metadata") EXCEPT !.outside = TRUE] ELSE a

-----------------------------------------------------------------------------
(* Names in the string table. *)

RECURSIVE ScanFrom(_, _, _, _)
ScanFrom(a, strtab, off, curr) ==
    LET want == Min({ChunkSize, Len(strtab) - curr})
        charge == Min({want, ScanBudget(a)})
        nul == SelectInSeq(SubSeq(strtab, curr + 1, curr + charge), LAMBDA b : b = 0)
        next == [ChargeStringScan(a, charge) EXCEPT !.examined = @ + (IF nul > 0 THEN nul ELSE charge)]
    IN  IF curr >= Len(strtab) THEN Refuse(a, "metadata")
        ELSE IF charge = 0 THEN Refuse(a, "limit")
        ELSE IF nul > 0 THEN [RefundStringScan(next, charge - nul) EXCEPT !.val = SubSeq(strtab, off + 1, curr + nul - 1)]
        ELSE IF charge < want THEN Refuse(next, "limit")
        ELSE ScanFrom(next, strtab, off, curr + charge)

\* scanBoundedCString of a name that may not be empty.
ScanCString(a, strtab, off) ==
    Then(Require(a, off < Len(strtab), "metadata"), LAMBDA b :
    Then(ScanFrom(b, strtab, off, off), LAMBDA c :
    Then(Require(c, c.val # <<>>, "metadata"), LAMBDA d : ChargeString(d, Len(d.val)))))

-----------------------------------------------------------------------------
(* Header tables. *)

ValidateMagicAndEncoding(x, a) ==
    Require(a, x.header.magic /\ x.header.class = 64 /\ x.header.data \in {"lsb", "msb"} /\ x.header.identVersion = 1, "elf")

ValidateProgramHeaderTable(x, a) ==
    LET h == x.header
        table == h.phentsize * Len(x.progs)
    IN  IF Len(x.progs) > AbiLimits.progs THEN Refuse(a, "limit")
        ELSE IF x.progs = <<>> THEN a
        ELSE IF h.phentsize < 56 \/ h.phoff > x.size \/ table > x.size - h.phoff THEN Refuse(a, "metadata")
        ELSE ChargeMetadata(a, table)

\* With e_shnum = 0 the count is the size field of section 0.
ValidateSectionHeaderTable(x, a) ==
    LET h == x.header
        count == IF h.shnum = 0 THEN h.shnum0 ELSE h.shnum
        zero == IF h.shnum = 0 THEN ReadAt(x, a, h.shoff + 32, 8) ELSE a
    IN  IF h.shoff = 0 THEN a
        ELSE IF h.shentsize < 64 \/ h.shoff > x.size \/ (h.shnum = 0 /\ h.shentsize > x.size - h.shoff)
             THEN Refuse(a, "metadata")
        ELSE Then(zero, LAMBDA b :
             IF h.shnum = 0 /\ count > AbiLimits.sections THEN Refuse(b, "limit")
             ELSE IF count * h.shentsize > x.size - h.shoff THEN Refuse(b, "metadata")
             ELSE IF count = 0 THEN b
             ELSE ChargeMetadata(b, count * h.shentsize))

PreflightELFHeaders(x, a) ==
    Then(Require(a, x.size >= HeaderSize, "metadata"), LAMBDA b :
    Then(ChargeMetadata(b, HeaderSize), LAMBDA c :
    Then(ValidateMagicAndEncoding(x, ReadAt(x, c, 0, HeaderSize)), LAMBDA d :
    Then(Require(d, x.header.ehsize \in HeaderSize .. x.size, "metadata"), LAMBDA e :
    Then(ValidateProgramHeaderTable(x, e), LAMBDA f : ValidateSectionHeaderTable(x, f))))))

-----------------------------------------------------------------------------
(* Segments. *)

Progs(x, type) == SelectSeq(x.progs, LAMBDA p : p.type = type)
Loads(x) == Progs(x, "load")
BeyondFile(x, p) == p.off > x.size \/ p.filesz > x.size - p.off
BadLoad(x, p) == p.filesz > p.memsz \/ BeyondFile(x, p) \/ p.memsz > MaxWord - p.vaddr

\* The error of program header i, if it has one.
ProgError(x, i) ==
    LET p == x.progs[i]
        second == \E j \in 1 .. i - 1 : x.progs[j].type = "interp"
    IN  CASE p.type = "load" /\ BadLoad(x, p) -> "metadata"
          [] p.type = "interp" /\ ~second /\ p.filesz > AbiLimits.interp -> "limit"
          [] p.type = "interp" /\ (second \/ p.filesz = 0 \/ BeyondFile(x, p)) -> "metadata"
          [] p.type = "dynamic" /\ BeyondFile(x, p) -> "metadata"
          [] OTHER -> "none"

ParseABIProgramHeaders(x, a) ==
    LET bad == {i \in DOMAIN x.progs : ProgError(x, i) # "none"}
    IN  IF bad = {} THEN a ELSE Refuse(a, ProgError(x, Min(bad)))

\* The loadable segments whose file-backed part holds an address.
Covering(x, vaddr) ==
    {i \in DOMAIN Loads(x) : LET p == Loads(x)[i] IN vaddr >= p.vaddr /\ vaddr < p.vaddr + p.filesz}

CoveringSegment(x, vaddr) == Loads(x)[CHOOSE i \in Covering(x, vaddr) : TRUE]

NoOffset == -1

\* The file offset of a range of memory that one segment backs entirely.
TranslateVaddr(x, vaddr, size) ==
    LET p == CoveringSegment(x, vaddr)
        off == p.off + (vaddr - p.vaddr)
    IN  IF size > x.size \/ Cardinality(Covering(x, vaddr)) # 1 THEN NoOffset
        ELSE IF size > p.filesz - (vaddr - p.vaddr) \/ off > x.size \/ size > x.size - off THEN NoOffset
        ELSE off

-----------------------------------------------------------------------------
(* Dynamic metadata. *)

\* The entries of a PT_DYNAMIC segment; what the input does not list is of no interest here.
DynamicEntries(x, p) == [i \in 1 .. p.filesz \div EntrySize |-> IF i <= Len(x.dyn) THEN x.dyn[i] ELSE <<"other", 0>>]

\* The entries before DT_NULL.
Declared(entries) ==
    LET nul == SelectInSeq(entries, LAMBDA e : e[1] = "null")
    IN  IF nul = 0 THEN entries ELSE SubSeq(entries, 1, nul - 1)

Values(entries, tag) == {entries[i][2] : i \in {j \in DOMAIN entries : entries[j][1] = tag}}
Value(entries, tag) == CHOOSE v \in Values(entries, tag) : TRUE

\* One value per tag, a terminator, and DT_VERNEED with DT_VERNEEDNUM.
ScanDynamicEntries(a, entries) ==
    LET d == Declared(entries)
    IN  Require(a, /\ \A tag \in {"strtab", "strsz", "verneed", "verneednum"} : Cardinality(Values(d, tag)) <= 1
                   /\ entries = <<>> \/ Len(d) < Len(entries)
                   /\ (Values(d, "verneed") = {}) <=> (Values(d, "verneednum") = {}), "metadata")

Needed(d) == LET s == SelectSeq(d, LAMBDA e : e[1] = "needed") IN [i \in DOMAIN s |-> s[i][2]]
HasVersions(d) == Values(d, "verneed") # {} /\ Value(d, "verneednum") > 0

\* n bytes of the file at an offset; the input lists those around its string table.
FileBytes(x, off, n) ==
    [i \in 1 .. n |->
        LET k == off + i - x.str.at
        IN  IF k \in DOMAIN x.str.bytes THEN x.str.bytes[k] ELSE 1]

\* resolveDynamicStrtab; the table is the decoded value.
ResolveStrtab(x, a, d) ==
    LET size == Value(d, "strsz")
        off == TranslateVaddr(x, Value(d, "strtab"), size)
    IN  IF Needed(d) = <<>> /\ ~HasVersions(d) THEN [a EXCEPT !.val = <<>>]
        ELSE IF Values(d, "strtab") = {} \/ Values(d, "strsz") = {} THEN Refuse(a, "metadata")
        ELSE IF size > AbiLimits.strings THEN Refuse(a, "limit")
        ELSE Then(ChargeMetadata(a, size), LAMBDA b :
             Then(Require(b, off # NoOffset, "metadata"), LAMBDA c :
             Then(ReadAt(x, c, off, size), LAMBDA e : [e EXCEPT !.val = FileBytes(x, off, size)])))

ParseNeededDependencies(a, strtab, offsets) ==
    FoldLeft(LAMBDA acc, off : Then(ScanCString(acc, strtab, off), LAMBDA b : [b EXCEPT !.report.deps = Append(@, b.val)]),
             a, offsets)

\* advanceELFRelativeOffset: the signed 32-bit distance to the next record.
Advance(curr, rel, min, max) ==
    IF rel = 0 \/ curr + rel < min \/ curr + rel + EntrySize > max THEN NoOffset ELSE curr + rel

NoNeed == [version |-> 0, cnt |-> 0, file |-> 0, aux |-> 0, next |-> 0]
NoAux == [flags |-> 0, name |-> 0, next |-> 0]
NeedAt(x, off) == IF off \in DOMAIN x.needs THEN x.needs[off] ELSE NoNeed
AuxAt(x, off) == IF off \in DOMAIN x.auxes THEN x.auxes[off] ELSE NoAux

\* The chain of Elf64_Vernaux records: where it is, how many are left, and those visited.
RECURSIVE ParseVernauxChain(_, _, _, _, _, _)
ParseVernauxChain(x, a, env, curr, left, visited) ==
    LET aux == AuxAt(x, curr)
        next == Advance(curr, aux.next, env.base, env.base + env.avail)
        overlaps == curr < env.parent + EntrySize /\ curr + EntrySize > env.parent
        Add(b) == [b EXCEPT !.report.versions = @ \cup {<<env.lib, b.val, aux.flags>>}]
    IN  Then(ChargeVersionRecord(a), LAMBDA b :
        Then(ChargeMetadata(b, EntrySize), LAMBDA c :
        Then(Require(c, /\ curr >= env.base /\ curr <= env.base + env.avail - EntrySize
                        /\ ~overlaps /\ curr \notin visited, "metadata"), LAMBDA d :
        Then(ScanCString(ReadAt(x, d, curr, EntrySize), env.strtab, aux.name), LAMBDA e :
             IF left = 1 THEN Require(Add(e), aux.next = 0, "metadata")
             ELSE IF next = NoOffset THEN Refuse(e, "metadata")
             ELSE ParseVernauxChain(x, Add(e), env, next, left - 1, visited \cup {curr})))))

ValidateVerneedAuxOffset(need, rest) ==
    need.cnt = 0 \/ (need.aux >= EntrySize /\ rest >= EntrySize /\ need.aux <= rest - EntrySize)

\* The chain of Elf64_Verneed records.
RECURSIVE ParseVerneedChain(_, _, _, _, _, _)
ParseVerneedChain(x, a, env, curr, left, visited) ==
    LET need == NeedAt(x, curr)
        next == Advance(curr, need.next, env.base, env.base + env.avail)
        Auxes(b) == IF need.cnt = 0 THEN b
                    ELSE ParseVernauxChain(x, b, [env EXCEPT !.parent = curr, !.lib = b.val], curr + need.aux, need.cnt, {})
        Unsupported(b) ==
            Then(ChargeString(b, 1), LAMBDA c :
                 [c EXCEPT !.report.completeness = "unsupported", !.report.warnings = @ \cup {"verneed"}])
    IN  Then(ChargeVersionRecord(a), LAMBDA b :
        Then(ChargeMetadata(b, EntrySize), LAMBDA c :
        Then(Require(c, curr >= env.base /\ curr <= env.base + env.avail - EntrySize /\ curr \notin visited, "metadata"), LAMBDA d :
        Then(ReadAt(x, d, curr, EntrySize), LAMBDA e :
             IF need.version # 1 THEN Unsupported(e)
             ELSE Then(Require(e, ValidateVerneedAuxOffset(need, env.base + env.avail - curr), "metadata"), LAMBDA f :
                  Then(ScanCString(f, env.strtab, need.file), LAMBDA g :
                  Then(Auxes(g), LAMBDA h :
                       IF left = 1 THEN Require([h EXCEPT !.report.completeness = "complete"], need.next = 0, "metadata")
                       ELSE IF next = NoOffset THEN Refuse(h, "metadata")
                       ELSE ParseVerneedChain(x, h, env, next, left - 1, visited \cup {curr}))))))))

ParseVerneed(x, a, d, strtab) ==
    LET vaddr == Value(d, "verneed")
        num == Value(d, "verneednum")
        off == TranslateVaddr(x, vaddr, EntrySize)
        seg == CoveringSegment(x, vaddr)
    IN  IF num > AbiLimits.records THEN Refuse(a, "limit")
        ELSE Then(CheckMetadata(a, EntrySize), LAMBDA b :
             IF off = NoOffset THEN Refuse(b, "metadata")
             ELSE ParseVerneedChain(x, b, [base |-> off, avail |-> seg.filesz - (vaddr - seg.vaddr), strtab |-> strtab,
                                           parent |-> off, lib |-> <<>>], off, num, {}))

ParseDynamicMetadata(x, a, p) ==
    LET entries == DynamicEntries(x, p)
        d == Declared(entries)
    IN  Then(Require(a, p.filesz % EntrySize = 0, "metadata"), LAMBDA b :
        Then(Require(b, p.filesz \div EntrySize <= AbiLimits.dyn, "limit"), LAMBDA c :
        Then(ChargeMetadata(c, p.filesz), LAMBDA e :
        Then(ScanDynamicEntries(ReadAt(x, e, p.off, p.filesz), entries), LAMBDA f :
        Then(ResolveStrtab(x, f, d), LAMBDA g :
        Then(ParseNeededDependencies(g, g.val, Needed(d)), LAMBDA h :
             IF HasVersions(d) THEN ParseVerneed(x, h, d, g.val) ELSE h))))))

ParseInterpreter(x, a, p) ==
    LET nul == SelectInSeq(x.interp, LAMBDA b : b = 0)
        len == IF nul = 0 \/ nul > p.filesz THEN 0 ELSE nul - 1
    IN  Then(ChargeMetadata(a, p.filesz), LAMBDA b :
        Then(ReadAt(x, b, p.off, p.filesz), LAMBDA c :
        Then(Require(c, len > 0, "metadata"), LAMBDA d :
        Then(ChargeString(d, len), LAMBDA e : [e EXCEPT !.report.interp = SubSeq(x.interp, 1, len)]))))

ClassifyLinkage(report, type) ==
    CASE report.interp # <<>> -> [report EXCEPT !.linkage = "dynamic"]
      [] report.interp = <<>> /\ report.deps = <<>> ->
            [report EXCEPT !.linkage = IF type = "dyn" THEN "static-pie" ELSE "static",
                           !.completeness = IF @ = "unsupported" THEN @ ELSE "absent"]
      [] OTHER -> [report EXCEPT !.linkage = "ambiguous", !.warnings = @ \cup {"no interpreter"}]

\* InspectELFABIReaderAtWithAccounting; used is what the artifact's other inputs have charged.
InspectELFABI(x, used) ==
    LET interps == Progs(x, "interp")
        dynamics == Progs(x, "dynamic")
        Interp(a) == IF interps = <<>> THEN a ELSE ParseInterpreter(x, a, interps[1])
        Dynamic(a) == IF dynamics = <<>> THEN a ELSE ParseDynamicMetadata(x, a, Last(dynamics))
    IN  Then(PreflightELFHeaders(x, NewAccount(used)), LAMBDA a :
        Then(ReadAt(x, a, x.header.phoff, x.header.phentsize * Len(x.progs)), LAMBDA b :
        Then(ParseABIProgramHeaders(x, b), LAMBDA c :
        Then(Interp(c), LAMBDA d :
        Then(Dynamic(d), LAMBDA e : [e EXCEPT !.report = ClassifyLinkage(@, x.header.type)])))))

-----------------------------------------------------------------------------
(* Executable validation. *)

ReadExecutableELF(x) ==
    Then(PreflightELFHeaders(x, NewAccount(0)), LAMBDA a :
    Then(Require(a, x.header.version = 1, "elf"), LAMBDA b :
         ReadAt(x, b, x.header.phoff, x.header.phentsize * Len(x.progs))))

PowerOfTwo(n) == n \in {2 ^ k : k \in 0 .. 12}

BadAlignment(p) == p.align > 1 /\ (~PowerOfTwo(p.align) \/ p.vaddr % p.align # p.off % p.align)

ValidateExecutableELF(x, a) ==
    LET h == x.header
        loads == ToSet(Loads(x))
    IN  Require(a, /\ h.type \in {"exec", "dyn"}
                   /\ h.entry # 0
                   /\ \A p \in loads : ~BadLoad(x, p) /\ ~BadAlignment(p)
                   /\ \E p \in loads : "x" \in p.flags /\ h.entry >= p.vaddr /\ h.entry - p.vaddr < p.filesz, "elf")

\* Go build information: the string at pos, after a length of one byte.
InlineString(x, a, pos, end, len) ==
    LET b == ReadAt(x, a, pos, Min({10, end - pos}))
    IN  IF pos >= end THEN [a EXCEPT !.val = <<0, 0>>]
        ELSE IF b.err # "none" \/ len > end - pos - 1 THEN [b EXCEPT !.val = <<0, 0>>]
        ELSE IF len > AbiLimits.strings THEN Refuse(b, "limit")
        ELSE [ReadAt(x, b, pos + 1, len) EXCEPT !.val = <<len, pos + 1 + len>>]

\* ... or the string behind a pointer to its header.
PointerString(x, a, ptr, s) ==
    LET head == TranslateVaddr(x, s.header, 2 * ptr)
        off == TranslateVaddr(x, s.addr, s.len)
        b == ReadAt(x, a, head, 2 * ptr)
    IN  IF head = NoOffset THEN [a EXCEPT !.val = <<0, 0>>]
        ELSE IF b.err = "none" /\ s.len > AbiLimits.strings THEN Refuse(b, "limit")
        ELSE IF b.err # "none" \/ s.len = 0 \/ off = NoOffset THEN [b EXCEPT !.val = <<0, 0>>]
        ELSE [ReadAt(x, b, off, s.len) EXCEPT !.val = <<s.len, 0>>]

\* readGoBuildInfoModule: the length of the module text a header leads to, 0 for none.
ReadModule(x, a, p, c) ==
    LET pos == p.off + c.off + InfoHeader
        end == p.off + p.filesz
        version == IF c.form = "inline" THEN InlineString(x, a, pos, end, c.version.len)
                   ELSE PointerString(x, a, c.ptr, c.version)
        module(b) == IF c.form = "inline" THEN InlineString(x, b, b.val[2], end, c.module.len)
                     ELSE PointerString(x, b, c.ptr, c.module)
    IN  IF c.form = "pointer" /\ c.ptr \notin {4, 8} THEN [a EXCEPT !.val = <<0, 0>>]
        ELSE Then(version, LAMBDA b :
             IF b.val[1] = 0 THEN b
             ELSE Then(module(b), LAMBDA d : Require(d, d.val[1] <= AbiLimits.strings - b.val[1], "limit")))

\* checkGoBuildInfoTarget on the text of c, of length n.
FramedModule(c, n) == n > 2 * InfoFrame /\ c.framed
UsableModule(c, n) == FramedModule(c, n) /\ c.columns /\ c.parses

\* The windows in which a segment is searched overlap by one byte less than a header.
WindowStarts(p, buffer) ==
    LET step == buffer - (InfoHeader - 1)
    IN  {k * step : k \in {j \in 0 .. p.filesz :
            /\ p.filesz - j * step >= InfoHeader
            /\ \A i \in 0 .. j - 1 : i * step + Min({buffer, p.filesz - i * step}) < p.filesz}}

\* The aligned headers the search finds, in file order.
SearchSegment(p, buffer) ==
    LET inWindow(c, w) == c.off >= w /\ c.off <= w + Min({buffer, p.filesz - w}) - InfoHeader
        found == {c \in p.infos : (p.vaddr + c.off) % InfoAlign = 0
                                  /\ \E w \in WindowStarts(p, buffer) : inWindow(c, w)}
    IN  SetToSortSeq(found, LAMBDA c, d : c.off < d.off)

\* What a search does with the text of c, read into a: it stops at the first that parses.
UseModule(st, a, c, os) ==
    LET n == a.val[1]
        over == n - 2 * InfoFrame > AbiLimits.strings - st.bytes \/ c.lines > AbiLimits.records - st.lines
        stop == [st EXCEPT !.acc = a, !.found = TRUE]
    IN  IF a.err # "none" THEN stop
        ELSE IF ~FramedModule(c, n) THEN [st EXCEPT !.acc = a]
        ELSE IF over THEN [stop EXCEPT !.acc = Refuse(a, "limit")]
        ELSE IF UsableModule(c, n) THEN [stop EXCEPT !.acc = Require(a, c.goos \in {"", os}, "elf")]
        ELSE [st EXCEPT !.acc = a, !.bytes = @ + n - 2 * InfoFrame, !.lines = @ + c.lines]

TryCandidate(x, st, p, c, os) ==
    IF st.found \/ st.acc.err # "none" THEN st ELSE UseModule(st, ReadModule(x, st.acc, p, c), c, os)

ValidateELFPlatform(x, a, os) ==
    LET segs == SelectSeq(Loads(x), LAMBDA p : "w" \in p.flags /\ p.filesz >= InfoHeader)
        buffer == Min({WindowSize, Max({p.filesz : p \in ToSet(segs)})})
        Segment(st, p) ==
            FoldLeft(LAMBDA s, c : TryCandidate(x, s, p, c, os), [st EXCEPT !.acc = ReadAt(x, @, p.off, p.filesz)],
                     SearchSegment(p, buffer))
    IN  IF x.header.osabi \notin {"none", "linux"} THEN Refuse(a, "elf")
        ELSE IF segs = <<>> THEN a
        ELSE FoldLeft(Segment, [acc |-> a, found |-> FALSE, bytes |-> 0, lines |-> 0], segs).acc

Machines == [amd64 |-> "x86_64", arm64 |-> "aarch64"]

ValidateELFBinary(x, os, arch) ==
    Then(ReadExecutableELF(x), LAMBDA a :
    Then(Require(a, x.header.machine = Machines[arch], "elf"), LAMBDA b :
    Then(ValidateExecutableELF(x, b), LAMBDA c : ValidateELFPlatform(x, c, os))))
=============================================================================
