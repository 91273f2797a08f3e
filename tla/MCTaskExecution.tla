------------------------- MODULE MCTaskExecution -------------------------
(***************************************************************************)
(* Small projects for TaskExecution.  "h" and "c" are the head and a child *)
(* of a chain of stepjobs.  "s" runs a script with a checker on the remote *)
(* host and leaves files there that "w", a job submitted by the web API,   *)
(* reaches by symlinks; "r" finished in an earlier run, but its files have *)
(* not been fetched; "o" shares the executer of "s"; "l" is a local task.  *)
(***************************************************************************)
EXTENDS TaskExecution

Chain == {"h", "c"}
ChainKind == [h |-> "head", c |-> "child"]
ChainAfter == [t \in Chain |-> {}]
ChainRetry == [h |-> 0, c |-> 1]

Sharing == {"s", "w", "l", "r", "o"}
SharingKind == [s |-> "remote", w |-> "webapi", l |-> "local", r |-> "remote", o |-> "remote"]
SharingAfter == [s |-> {}, w |-> {"s", "r", "l"}, l |-> {"r", "o"}, r |-> {}, o |-> {}]
SharingRetry == [s |-> 0, w |-> 1, l |-> 0, r |-> 0, o |-> 0]

One == [k \in Keys |-> 1]
Two == [k \in Keys |-> 2]
=============================================================================
