----------------------------- MODULE MCLifecycle -----------------------------
(* Instances of Lifecycle for TLC. *)
EXTENDS Lifecycle

CONSTANTS p1, p2, p3

MCProcs == {p1, p2, p3}

\* Two transactions on an ordinary executable while anything fails.
FaultyScene ==
    [procs |-> {p1, p2}, intents |-> IntentSet, policies |-> {"strict"}, plain |-> TRUE,
     faults |-> {"io", "norename2", "dirsync", "kill", "power", "transform"}, outside |-> 0]

\* The same without kills and power loss, where staged files cannot be removed.
RemovalScene ==
    [procs |-> {p1, p2}, intents |-> IntentSet, policies |-> {"strict"}, plain |-> TRUE,
     faults |-> {"io", "norename2", "remove", "dirsync", "transform"}, outside |-> 0]

\* Three in-place transactions that only have each other to fear.
ContentionScene ==
    [procs |-> {p1, p2, p3}, intents |-> {"replace-source"}, policies |-> {"strict"}, plain |-> TRUE,
     faults |-> {}, outside |-> 0]

\* One transaction over every combination of attributes.
MetadataScene ==
    [procs |-> {p1}, intents |-> IntentSet, policies |-> PolicySet, plain |-> FALSE,
     faults |-> {"metadata", "drift"}, outside |-> 0]

\* Two in-place transactions and two moves of deployers.
DeployersScene ==
    [procs |-> {p1, p2}, intents |-> {"replace-source"}, policies |-> {"strict"}, plain |-> TRUE,
     faults |-> {}, outside |-> 2]

\* Two create-only transactions, a move of a deployer and power loss.
CreateOnlyScene ==
    [procs |-> {p1, p2}, intents |-> {"create-only"}, policies |-> {"strict"}, plain |-> TRUE,
     faults |-> {"norename2", "power"}, outside |-> 1]

MCScenes == {FaultyScene, RemovalScene, ContentionScene, MetadataScene, DeployersScene, CreateOnlyScene}
=============================================================================
