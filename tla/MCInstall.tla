------------------------------ MODULE MCInstall ------------------------------
(* Instances of Install for TLC. *)
EXTENDS Install, TLC

CONSTANTS p1, p2, p3

MCProcs == {p1, p2, p3}

\* No action and no property tells operations apart but by what they do.
MCSymmetry == Permutations(MCProcs)

TwoProducts == <<"microfat", "microfat-stub">>
OneProduct == <<"microfat">>

\* Two operations while anything fails.
FaultyScene ==
    [procs |-> {p1, p2}, kinds |-> {"install", "repair", "update", "uninstall"}, products |-> TwoProducts,
     faults |-> FaultKinds \ {"remove"}, outside |-> 0]

\* Two installers, where staged files cannot be removed either.
RemovalScene ==
    [procs |-> {p1, p2}, kinds |-> {"install", "repair"}, products |-> OneProduct,
     faults |-> {"io", "remove", "cancel", "kill"}, outside |-> 0]

\* Three operations that select a release and only have each other to fear.
RaceScene ==
    [procs |-> {p1, p2, p3}, kinds |-> {"install", "update", "update-to"}, products |-> OneProduct,
     faults |-> {}, outside |-> 0]

\* Two operations and two changes by others.
OutsideScene ==
    [procs |-> {p1, p2}, kinds |-> KindSet \ {"update-to"}, products |-> TwoProducts, faults |-> {}, outside |-> 2]

\* An installer that is killed, and one that is run again.
ResumeScene ==
    [procs |-> {p1, p2}, kinds |-> {"install"}, products |-> OneProduct, faults |-> {"kill"}, outside |-> 0]

MCFaults == {FaultyScene, RemovalScene}
MCRace == {RaceScene, OutsideScene}
MCResume == {ResumeScene}
=============================================================================
