--------------------------- MODULE LaunchContract ---------------------------
(***************************************************************************)
(* What a launcher of a fat binary promises, whatever path it takes: it    *)
(* starts at most one image, the image is verified, the path is one the    *)
(* requested execution mode permits, and what has ended stays ended.  The  *)
(* prewarmer shares the cache with the launchers and starts nothing.       *)
(***************************************************************************)
CONSTANT Procs          \* the processes: launchers and prewarmers

VARIABLES mode,         \* mode[p]: the requested mode, fixed at start
          status,       \* status[p]: "pending", "running", "ended"
          image         \* image[p]: <<path, content>> of the started image, or <<>>

absVars == <<mode, status, image>>

ExecModes == {"auto", "cache", "memfd", "prewarm"}

\* The execution paths each mode of executeVariant may take.
PermittedPaths(m) ==
    CASE m = "auto"    -> {"cache", "memfd"}
      [] m = "cache"   -> {"cache"}
      [] m = "memfd"   -> {"memfd"}
      [] OTHER         -> {}

AbsInit ==
    /\ mode \in [Procs -> ExecModes]
    /\ status = [p \in Procs |-> "pending"]
    /\ image = [p \in Procs |-> <<>>]

Start(p) ==
    /\ status[p] = "pending"
    /\ status' = [status EXCEPT ![p] = "running"]
    /\ \E path \in PermittedPaths(mode[p]) :
          image' = [image EXCEPT ![p] = <<path, "verified">>]
    /\ UNCHANGED mode

\* The launch is refused, the launcher crashes, or a prewarm completes.
End(p) ==
    /\ status[p] = "pending"
    /\ status' = [status EXCEPT ![p] = "ended"]
    /\ UNCHANGED <<mode, image>>

AbsNext == \E p \in Procs : Start(p) \/ End(p)

AbsSpec == AbsInit /\ [][AbsNext]_absVars
=============================================================================
