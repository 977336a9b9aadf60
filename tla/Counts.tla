------------------------------- MODULE Counts -------------------------------
(***************************************************************************)
(* The decisions class ControlBlock (nc_object.h) takes from its two       *)
(* counters while it holds its lock: rc strong references, wc weak ones.   *)
(***************************************************************************)
EXTENDS Integers

\* The counters a new control block starts with: its creator holds it.
NewCounts == [rc |-> 1, wc |-> 0]

\* What release() tells its caller to do, from the counters it found.
ReleaseAction(rc, wc) ==
    [freeObject |-> rc = 1, freeMemory |-> rc = 1 /\ wc = 0]

\* Does releaseWeak() tell its caller to free the memory?
ReleaseWeakFrees(rc, wc) == rc = 0 /\ wc = 1

\* Does lockStrong() hand out a strong reference?
LockStrongSucceeds(rc) == rc # 0
=============================================================================
