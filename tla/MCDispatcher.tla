---------------------------- MODULE MCDispatcher ----------------------------
(* Small workflows for the model checking of Dispatcher.                   *)
EXTENDS Dispatcher, TLC

\* The links of a workflow, given as a set of pairs.
Links(C, pairs) == [c \in C |-> {d \in C : <<c, d>> \in pairs}]

\* Every component of C is of kind k, except those kinds names.
KindsOf(C, k, kinds) == kinds @@ [c \in C |-> k]

-----------------------------------------------------------------------------
(* An "if" with a sub-workflow on each side.  The one on the true side also *)
(* gets a file of task x, which does not depend on the "if".  The storage   *)
(* gets a file of x and of the disabled task k; the stepjob tasks p and q   *)
(* are chained, and m follows k only.                                       *)
BranchComponent == {"i", "t", "e", "x", "s", "k", "m", "p", "q"}
BranchKind == KindsOf(BranchComponent, "task",
  ("i" :> "if") @@ ("t" :> "delegate") @@ ("e" :> "delegate") @@ ("s" :> "storage")
  @@ ("p" :> "stepjobTask") @@ ("q" :> "stepjobTask"))
BranchNext == Links(BranchComponent, {<<"i", "t">>, <<"k", "m">>, <<"p", "q">>})
BranchElse == Links(BranchComponent, {<<"i", "e">>})
BranchFile == Links(BranchComponent, {<<"x", "t">>, <<"x", "s">>, <<"k", "s">>, <<"p", "s">>})

-----------------------------------------------------------------------------
(* The body of a loop: a "break" before task a, and beside it a remote task *)
(* x, the stage-out of which may fail for good, that feeds an inner loop    *)
(* and a viewer.                                                            *)
BodyComponent == {"brk", "a", "l", "x", "v"}
BodyKind == KindsOf(BodyComponent, "task",
  ("brk" :> "break") @@ ("l" :> "loop") @@ ("v" :> "viewer"))
BodyNext == Links(BodyComponent, {<<"brk", "a">>})
BodyElse == Links(BodyComponent, {})
BodyFile == Links(BodyComponent, {<<"x", "l">>, <<"x", "v">>})

-----------------------------------------------------------------------------
(* A remote task whose file a local task needs and a task that only follows *)
(* it.                                                                      *)
RemoteComponent == {"r", "a", "b"}
RemoteKind == [c \in RemoteComponent |-> "task"]
RemoteNext == Links(RemoteComponent, {<<"r", "b">>})
RemoteElse == Links(RemoteComponent, {})
RemoteFile == Links(RemoteComponent, {<<"r", "a">>})

=============================================================================
