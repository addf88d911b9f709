---------------------------- MODULE DurableHistory ----------------------------
(***************************************************************************)
(* What in-place transactions promise together: the deployed file is a     *)
(* history of transformations, each applied to the one before it; a power  *)
(* loss may take back the ones nobody was told had succeeded, and no       *)
(* other.                                                                  *)
(***************************************************************************)
EXTENDS Sequences

CONSTANT Writers

VARIABLES history,   \* the transformations in the deployed file
          durable,   \* those that survive a power loss
          reported   \* the writers that were told they succeeded

hvars == <<history, durable, reported>>

Applied(h) == {h[k] : k \in DOMAIN h}

HInit == history = <<>> /\ durable = <<>> /\ reported = {}

Apply(w) ==
    /\ w \notin Applied(history)
    /\ history' = Append(history, w)
    /\ UNCHANGED <<durable, reported>>

Flush == durable' = history /\ UNCHANGED <<history, reported>>

\* A success is reported once it is durable.
Report(w) ==
    /\ durable' \in {durable, history}
    /\ w \in Applied(durable')
    /\ reported' = reported \cup {w}
    /\ UNCHANGED history

Revert ==
    /\ history' \in {history, durable}
    /\ durable' = history'
    /\ UNCHANGED reported

HNext == (\E w \in Writers : Apply(w) \/ Report(w)) \/ Flush \/ Revert

HSpec == HInit /\ [][HNext]_hvars

\* No success is ever lost: what syncDirectory confirmed is in the deployed
\* file now and after any power loss.
ReportedSurvive == reported \subseteq Applied(history) \cap Applied(durable)
=============================================================================
