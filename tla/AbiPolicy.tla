----------------------------- MODULE AbiPolicy ------------------------------
(***************************************************************************)
(* The uniform ABI policy over the variants of an artifact: the reports of *)
(* ElfAbi, each with its level, are compared with the first report that    *)
(* declares the aspect, and every sentence written is charged to the       *)
(* report budget (internal/pack/abi.go, abi_render.go).  A sentence costs  *)
(* one for its wording and the escaped length of each name it shows; what  *)
(* is reserved only grows, so a budget is exceeded exactly when the sum    *)
(* of what has been reserved is.                                           *)
(***************************************************************************)
EXTENDS ElfAbi

CONSTANTS MaxDisplay,  \* bytes of a name that are shown
          MaxItems     \* names of a list that are shown

SumOf(seq, Len1(_)) == FoldLeft(LAMBDA sum, e : sum + Len1(e), 0, seq)

\* A control byte is shown as \xNN.
EscapedMetadataLen(name) ==
    LET shown == SubSeq(name, 1, Min({Len(name), MaxDisplay}))
        width(b) == IF b < 32 \/ b = 127 THEN 4 ELSE 1
    IN  SumOf(shown, width) + (IF Len(name) > MaxDisplay THEN 14 ELSE 0)

\* A list that is cut says how many names it leaves out.
ListLen(names) ==
    SumOf(SubSeq(names, 1, Min({Len(names), MaxItems})), EscapedMetadataLen) + (IF Len(names) > MaxItems THEN 1 ELSE 0)

Sentence(kind, levels, len) == [kind |-> kind, levels |-> levels, len |-> 1 + len]
SentencesLen(s) == SumOf(s, LAMBDA e : e.len)

-----------------------------------------------------------------------------
(* Reports. *)

DecodedLen(r) ==
    Len(r.interp) + SumOf(r.deps, Len) + MapThenSumSet(LAMBDA v : Len(v[1]) + Len(v[2]), r.versions)

StoredLen(r) == 1 + DecodedLen(r) + 2 * Cardinality(r.versions) + Cardinality(r.warnings)

\* validateReportBudgetWithLimits; a library is decoded once and reported per version.
WithinInputBudgets(r) ==
    /\ Len(r.interp) <= AbiLimits.interp /\ Len(r.deps) <= AbiLimits.dyn
    /\ Cardinality(r.versions) <= AbiLimits.records /\ DecodedLen(r) <= AbiLimits.strings

IncompleteVersions(r) == r.completeness = "unsupported"

\* evaluateVariantUncertainty.
Unsure(r) == IncompleteVersions(r) \/ r.linkage = "ambiguous"

\* evaluateAllReportsCompleteness, handleSingleReport: an ambiguous report
\* already carries the warning of its inspection.
CompletenessWarnings(r) ==
    (IF IncompleteVersions(r) THEN <<Sentence("incomplete", <<r.level>>, 0)>> ELSE <<>>)
        \o [i \in 1 .. Cardinality(r.warnings) |-> Sentence("inspection", <<r.level>>, 0)]

-----------------------------------------------------------------------------
(* Differences. *)

\* The sentences of every known report against the first known one.
AgainstFirst(reports, Known(_), Differ(_, _)) ==
    LET known == SelectSeq(reports, Known)
    IN  FlattenSeq([i \in 1 .. Len(known) - 1 |-> Differ(known[1], known[i + 1])])

StaticLinkage == {"static", "static-pie"}

CompareVariantLinkages(reports) ==
    LET static == SelectSeq(reports, LAMBDA r : r.linkage \in StaticLinkage)
        dynamic == SelectSeq(reports, LAMBDA r : r.linkage = "dynamic")
    IN  IF static = <<>> \/ dynamic = <<>> THEN <<>>
        ELSE <<Sentence("linkage", <<static[1].level, dynamic[1].level>>, 0)>>

InterpreterDiff(ref, r) ==
    IF r.interp = ref.interp THEN <<>>
    ELSE <<Sentence("interpreter", <<ref.level, r.level>>, EscapedMetadataLen(ref.interp) + EscapedMetadataLen(r.interp) + 4)>>

CompareVariantInterpreters(reports) == AgainstFirst(reports, LAMBDA r : r.linkage = "dynamic", InterpreterDiff)

Missing(deps, other) == SelectSeq(deps, LAMBDA d : d \notin ToSet(other))

DependencyDiff_OneWay(ref, r) ==
    LET inCurr == Missing(ref.deps, r.deps)
    IN  IF inCurr = <<>> THEN <<>>
        ELSE <<Sentence("dependencies", <<ref.level, r.level>>, ListLen(inCurr))>>

\* compareDependencySets: names missing on either side.
DependencyDiff(ref, r) ==
    LET inCurr == Missing(ref.deps, r.deps)
        inBase == Missing(r.deps, ref.deps)
    IN  IF inCurr = <<>> /\ inBase = <<>> THEN <<>>
        ELSE <<Sentence("dependencies", <<ref.level, r.level>>, ListLen(inCurr) + ListLen(inBase))>>

\* ... and the same names in another order.
OrderWarning(ref, r) ==
    IF DependencyDiff(ref, r) = <<>> /\ Len(ref.deps) = Len(r.deps) /\ ref.deps # r.deps
    THEN <<Sentence("order", <<ref.level, r.level>>, 0)>> ELSE <<>>

Inspected(r) == TRUE

CompareVariantDependencies(reports) == AgainstFirst(reports, Inspected, DependencyDiff)

VersionDiff(ref, r) == IF r.versions = ref.versions THEN <<>> ELSE <<Sentence("versions", <<ref.level, r.level>>, 0)>>

CompareVariantVersions(reports) == AgainstFirst(reports, LAMBDA r : ~IncompleteVersions(r), VersionDiff)

CollectVariantDifferences(reports) ==
    CompareVariantLinkages(reports) \o CompareVariantInterpreters(reports)
        \o CompareVariantDependencies(reports) \o CompareVariantVersions(reports)

-----------------------------------------------------------------------------
(* Presentation. *)

VersionLen(v) == EscapedMetadataLen(v[1]) + EscapedMetadataLen(v[2]) + (IF v[3] # 0 THEN 1 ELSE 0)

\* normalizeVersionRequirements: by library, then version, then flags.
BytesBefore(a, b) ==
    IsStrictPrefix(a, b) \/ \E i \in DOMAIN a \cap DOMAIN b : SubSeq(a, 1, i - 1) = SubSeq(b, 1, i - 1) /\ a[i] < b[i]

VersionBefore(v, w) ==
    IF v[1] # w[1] THEN BytesBefore(v[1], w[1]) ELSE IF v[2] # w[2] THEN BytesBefore(v[2], w[2]) ELSE v[3] < w[3]

EmitVersionsLen(versions) ==
    LET sorted == SetToSortSeq(versions, VersionBefore)
    IN  SumOf(SubSeq(sorted, 1, Min({Len(sorted), MaxItems})), VersionLen) + (IF Len(sorted) > MaxItems THEN 1 ELSE 0)

EmitVariantLine(r) == 1 + EscapedMetadataLen(r.interp) + ListLen(r.deps) + EmitVersionsLen(r.versions)

EmitReportNotes(reports, status, overridden) ==
    1 + (IF overridden THEN 1 ELSE 0)
      + (IF status = "unknown" THEN Cardinality({k \in {"versions", "linkage"} : \E r \in ToSet(reports) :
                                        IF k = "versions" THEN IncompleteVersions(r) ELSE r.linkage = "ambiguous"})
         ELSE 0)

MeasureABIReportPresentation(reports, status, overridden) ==
    1 + SumOf(reports, EmitVariantLine) + EmitReportNotes(reports, status, overridden)

-----------------------------------------------------------------------------
(* The outcome. *)

Outcome(err, status, overridden) == [err |-> err, status |-> status, overridden |-> overridden]

\* CompareVariantABIsWithOptions; used is what all reservations come to.
CompareVariantABIs(reports, allowMixed) ==
    LET several == Len(reports) > 1
        diffs == IF several THEN CollectVariantDifferences(reports) ELSE <<>>
        orders == IF several THEN AgainstFirst(reports, Inspected, OrderWarning) ELSE <<>>
        collected == SumOf(reports, StoredLen) + 1 + SumOf(reports, LAMBDA r : SentencesLen(CompletenessWarnings(r)))
                        + SentencesLen(diffs) + SentencesLen(orders)
        overridden == diffs # <<>>
        status == CASE diffs # <<>> -> "inconsistent"
                    [] diffs = <<>> /\ \E r \in ToSet(reports) : Unsure(r) -> "unknown"
                    [] OTHER -> "consistent"
        shown == collected + SentencesLen(diffs) + Len(diffs) + MeasureABIReportPresentation(reports, status, overridden)
    IN  IF \E r \in ToSet(reports) : ~WithinInputBudgets(r) THEN Outcome("limit", "none", FALSE)
        ELSE IF collected > AbiLimits.report THEN Outcome("limit", "none", FALSE)
        ELSE IF diffs # <<>> /\ ~allowMixed THEN Outcome("mismatch", status, FALSE)
        ELSE IF shown > AbiLimits.report THEN Outcome("limit", "none", FALSE)
        ELSE Outcome("none", status, overridden)
=============================================================================
