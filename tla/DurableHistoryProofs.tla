------------------------ MODULE DurableHistoryProofs ------------------------
(* What a durable history guarantees to those who were told of a success. *)
EXTENDS DurableHistory, TLAPS

\* What survives a power loss is part of the history, so a revert keeps it.
HInv ==
    /\ history \in Seq(Writers) /\ durable \in Seq(Writers)
    /\ Applied(durable) \subseteq Applied(history)
    /\ reported \subseteq Applied(durable)

\* Appending a transformation keeps the earlier ones.
LEMMA AppendKeeps ==
    ASSUME NEW h \in Seq(Writers), NEW w \in Writers
    PROVE  Append(h, w) \in Seq(Writers) /\ Applied(h) \subseteq Applied(Append(h, w))
BY DEF Applied

\* Nothing has been applied or reported at first.
LEMMA HInitially == HInit => HInv
BY DEF HInit, HInv, Applied

\* Transformations, flushes, reports and reverts keep the invariant.
LEMMA HStep == HInv /\ [HNext]_hvars => HInv'
<1> SUFFICES ASSUME HInv, [HNext]_hvars PROVE HInv'
    OBVIOUS
<1>1. ASSUME NEW w \in Writers, Apply(w) PROVE HInv'
    <2>1. Applied(history)' = Applied(history') /\ Applied(durable)' = Applied(durable)
        BY <1>1 DEF Apply, Applied
    <2>2. history' \in Seq(Writers) /\ Applied(history) \subseteq Applied(history')
        BY <1>1, AppendKeeps DEF Apply, HInv
    <2> QED BY <1>1, <2>1, <2>2 DEF Apply, HInv
<1>2. ASSUME NEW w \in Writers, Report(w) PROVE HInv'
    BY <1>2 DEF Report, HInv, Applied
<1>3. CASE Flush
    BY <1>3 DEF Flush, HInv, Applied
<1>4. CASE Revert
    <2>1. Applied(history)' = Applied(history') /\ Applied(durable)' = Applied(history')
        BY <1>4 DEF Revert, Applied
    <2>2. CASE history' = history
        BY <1>4, <2>1, <2>2 DEF Revert, HInv
    <2>3. CASE history' = durable
        BY <1>4, <2>1, <2>3 DEF Revert, HInv
    <2> QED BY <1>4, <2>2, <2>3 DEF Revert
<1>5. CASE UNCHANGED hvars
    BY <1>5 DEF hvars, HInv, Applied
<1> QED BY <1>1, <1>2, <1>3, <1>4, <1>5 DEF HNext

\* A reported success is in the deployed file now and after any power loss, in
\* every system that follows a durable history (Execute of internal/lifecycle,
\* apply of internal/install).
THEOREM ReportsSurvive == HSpec => []ReportedSurvive
<1>1. HInv => ReportedSurvive
    BY DEF HInv, ReportedSurvive
<1> QED BY <1>1, HInitially, HStep, PTL DEF HSpec
=============================================================================
