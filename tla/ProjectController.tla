------------------------- MODULE ProjectController -------------------------
(***************************************************************************)
(* The life cycle of one project: server/app/handlers/projectController.js *)
(* (the queue of operations, runDispatcher(), the reaction to a failed     *)
(* task), server/app/core/projectController.js (runProject(),              *)
(* stopProject() and the map of root dispatchers), the state kept in       *)
(* prj.wheel.json and its reconciliation when the server starts.           *)
(*                                                                         *)
(* A run is one call of runDispatcher().  Nobody awaits it, so it goes on  *)
(* beside the queue of operations; each of its segments between awaits is  *)
(* an action.  The root dispatcher of a run is seen as the promise that    *)
(* start() returns (module Dispatcher); the users, the remote hosts and    *)
(* the tasks are the environment.                                          *)
(***************************************************************************)
EXTENDS Naturals, Sequences, FiniteSets

CONSTANTS
  Asked,       \* operations a user asks for
  Hasty,       \* does a user ask for more than the client offers at the time?
  MayReject,   \* may start() of a root dispatcher reject?
  MaxRuns,     \* bound: number of runs
  MaxQueue,    \* bound: operations waiting in the queue
  MaxFailures, \* bound: failed tasks of a run not reacted to yet
  MaxCrashes   \* bound: restarts of the server

Operations == {"runProject", "stopProject", "cleanProject", "revertProject", "saveProject"}
ProjectStates == {"not-started", "preparing", "running", "stopped", "finished",
                  "failed", "unknown", "holding"}

ASSUME AskedAssumption == Asked \subseteq Operations
ASSUME FlagAssumption == Hasty \in BOOLEAN /\ MayReject \in BOOLEAN
ASSUME BoundAssumption == {MaxRuns, MaxQueue, MaxFailures, MaxCrashes} \subseteq Nat

terminalProjectStates == {"finished", "failed", "unknown", "stopped"}

allowedOperations ==
  [s \in ProjectStates |->
     CASE s = "not-started" -> {"runProject", "revertProject", "saveProject"}
       [] s \in {"preparing", "finished"} -> {"cleanProject"}
       [] s = "running" -> {"stopProject"}
       [] s \in {"stopped", "failed", "unknown"} -> {"runProject", "cleanProject"}
       [] s = "holding" -> {}]

-----------------------------------------------------------------------------
Run == 1 .. MaxRuns
\* Who calls stopProject(): onStopProject(), or the stopOnFailure chain of a run.
User == 0
Stopper == Run \union {User}

VARIABLES
  state,      \* state in prj.wheel.json
  committed,  \* state in prj.wheel.json of HEAD
  queue,      \* operations waiting in projectOperationQueues
  operation,  \* the one projectOperator() has in hand
  run,        \* run[r]: where runDispatcher() is
  start,      \* start[r]: what start() of its dispatcher settled with
  flagged,    \* runs whose dispatcher knows of a failed or unknown component
  current,    \* the dispatcher in rootDispatchers, 0 if there is none
  emitter,    \* the run whose emitter is in eventEmitters, 0 if there is none
  aborts,     \* aborts[r]: entries of the stopOnFailure chain still to be run
  stopping,   \* stopping[s]: dispatcher s waits for the remove() of, 0 if none
  removers,   \* removers[r]: who called remove() of r (stoppedExternally)
  ssh,        \* are the connections and executers of the project there?
  crashes     \* history: restarts of the server

disk == <<state, committed>>
ops  == <<queue, operation>>
runs == <<run, start, flagged>>
maps == <<current, emitter, ssh>>
stop == <<aborts, stopping, removers>>
vars == <<disk, ops, runs, maps, stop, crashes>>

Steps == {"none", "accepted", "preparing", "connected", "registered", "running",
          "writing", "recorded", "cleaning", "finishing", "closing", "ended"}
Verdicts == {"finished", "failed", "unknown", "stopped"}

TypeOK ==
  /\ state \in ProjectStates /\ committed \in ProjectStates
  /\ queue \in Seq(Operations)
  /\ operation \in Operations \union {"none", "forcing"}
  /\ run \in [Run -> Steps]
  /\ start \in [Run -> Verdicts \union {"none", "pending", "rejected"}]
  /\ flagged \subseteq Run
  /\ current \in Run \union {0} /\ emitter \in Run \union {0}
  /\ aborts \in [Run -> Nat]
  /\ stopping \in [Stopper -> Run \union {0}]
  /\ removers \in [Run -> SUBSET Stopper]
  /\ ssh \in BOOLEAN
  /\ crashes \in Nat

Init ==
  /\ state = "not-started" /\ committed = "not-started"
  /\ queue = <<>> /\ operation = "none"
  /\ run = [r \in Run |-> "none"] /\ start = [r \in Run |-> "none"] /\ flagged = {}
  /\ current = 0 /\ emitter = 0 /\ ssh = FALSE
  /\ aborts = [r \in Run |-> 0]
  /\ stopping = [s \in Stopper |-> 0] /\ removers = [r \in Run |-> {}]
  /\ crashes = 0

-----------------------------------------------------------------------------
(* stopProject(), called by a user's operation or by the chain of a run.   *)

\* mutant: the "stop" event does not settle start()
Mut_StartLeftPending(s, d, v) ==
  /\ stopping' = [stopping EXCEPT ![s] = d]
  /\ removers' = [removers EXCEPT ![d] = @ \union {s}]
  /\ UNCHANGED <<start, ssh>>

\* setStateFlag() and the first half of remove(): start() of dispatcher d
\* settles at once, the cancellation of its tasks goes on.
RemoveDispatcher(s, d, v) ==
  /\ stopping' = [stopping EXCEPT ![s] = d]
  /\ removers' = [removers EXCEPT ![d] = @ \union {s}]
  /\ start' = [start EXCEPT ![d] = IF @ = "pending" THEN v ELSE @]
  /\ UNCHANGED ssh

\* What a dispatcher hands back: _getState() looks at its flags, then at
\* stoppedExternally.
GetState(flag, stopped) ==
  IF flag THEN {"failed", "unknown"} ELSE IF stopped THEN {"stopped"} ELSE {"finished"}

\* mutant: the failing task's state is not passed on
Mut_NoReason(s, d) == flagged

\* The runs whose dispatcher knows of a failure when s has handed its reason to
\* dispatcher d: a flag set after start() has settled changes nothing.
Reason(s, d) ==
  IF s # User /\ start[d] \in {"none", "pending"} THEN flagged \union {d} ELSE flagged

\* The caller of stopProject() goes on.
CallerGoesOn(s) ==
  IF s = User
  THEN operation' = "forcing" /\ UNCHANGED aborts
  ELSE aborts' = [aborts EXCEPT ![s] = @ - 1] /\ UNCHANGED operation

BeginStop(s) ==
  /\ stopping[s] = 0
  /\ IF s = User THEN operation = "stopProject" ELSE aborts[s] > 0
  /\ \/ /\ current # 0
        /\ flagged' = Reason(s, current)
        /\ \E v \in GetState(current \in flagged', TRUE) : RemoveDispatcher(s, current, v)
        /\ UNCHANGED <<operation, aborts>>
     \/ /\ current = 0
        /\ ssh' = FALSE
        /\ CallerGoesOn(s)
        /\ UNCHANGED <<start, flagged, stopping, removers>>
  /\ UNCHANGED <<disk, queue, run, current, emitter, crashes>>

\* remove() has returned: delete the entry of the map, releaseRuntimeResources().
EndStop(s) ==
  /\ stopping[s] # 0
  /\ stopping' = [stopping EXCEPT ![s] = 0]
  /\ current' = 0
  /\ ssh' = FALSE
  /\ CallerGoesOn(s)
  /\ UNCHANGED <<disk, queue, runs, emitter, removers, crashes>>

-----------------------------------------------------------------------------
(* projectOperator().                                                      *)

Quiet ==
  /\ \A r \in Run : run[r] \in {"none", "ended"} \/ start[r] = "pending"
  /\ \A r \in Run : aborts[r] = 0
  /\ \A s \in Stopper : stopping[s] = 0
  /\ operation = "none" /\ queue = <<>>

\* submitHook drops a repeated operation; cleanProject clears the queue.
Submit(o) ==
  /\ Hasty \/ (Quiet /\ o \in allowedOperations[state])
  /\ queue # <<>> => queue[Len(queue)] # o
  /\ Len(queue) < MaxQueue
  /\ queue' = IF o = "cleanProject" THEN <<o>> ELSE Append(queue, o)
  /\ UNCHANGED <<disk, operation, runs, maps, stop, crashes>>

TakeOperation ==
  /\ operation = "none" /\ queue # <<>>
  /\ queue' = Tail(queue)
  /\ operation' = IF Head(queue) \in allowedOperations[state] THEN Head(queue) ELSE "none"
  /\ UNCHANGED <<disk, runs, maps, stop, crashes>>

\* onRunProject(), onContinueProject(): runValidationPhase() commits what is
\* staged; runDispatcher() is then left to itself.
RunProject ==
  /\ operation = "runProject"
  /\ operation' = "none"
  /\ \/ UNCHANGED <<committed, run>>
     \/ \E r \in Run :
          /\ run[r] = "none" /\ \A q \in Run : q < r => run[q] # "none"
          /\ run' = [run EXCEPT ![r] = "accepted"]
          /\ committed' = state
  /\ UNCHANGED <<state, queue, start, flagged, maps, stop, crashes>>

\* onStopProject() forces the state after stopProject().
ForceStopped ==
  /\ operation = "forcing"
  /\ operation' = "none"
  /\ state' = "stopped"
  /\ UNCHANGED <<committed, queue, runs, maps, stop, crashes>>

\* onCleanProject(): nothing when the user cancels; deferred remote cleanups,
\* if there are any, connect again and disconnect.
CleanProject ==
  /\ operation = "cleanProject"
  /\ operation' = "none"
  /\ \/ UNCHANGED <<state, ssh>>
     \/ state' = committed /\ ssh' \in {ssh, FALSE}
  /\ UNCHANGED <<committed, queue, runs, current, emitter, stop, crashes>>

RevertProject ==
  /\ operation = "revertProject"
  /\ operation' = "none"
  /\ state' \in {state, committed}
  /\ UNCHANGED <<committed, queue, runs, maps, stop, crashes>>

\* onSaveProject(); a read-only project and one that left "not-started" in the
\* meantime are refused.
SaveProject ==
  /\ operation = "saveProject"
  /\ operation' = "none"
  /\ \/ UNCHANGED disk
     \/ /\ "saveProject" \in allowedOperations[state]
        /\ state' = "not-started" /\ committed' = "not-started"
  /\ UNCHANGED <<queue, runs, maps, stop, crashes>>

-----------------------------------------------------------------------------
(* runDispatcher() and runProject() of run r.                              *)

GoTo(r, s) == run' = [run EXCEPT ![r] = s]

Prepare(r) ==
  /\ run[r] = "accepted" /\ GoTo(r, "preparing")
  /\ state' = "preparing"
  /\ UNCHANGED <<committed, ops, start, flagged, maps, stop, crashes>>

Connect(r) ==
  /\ run[r] = "preparing" /\ GoTo(r, "connected")
  /\ ssh' = TRUE
  /\ UNCHANGED <<disk, ops, start, flagged, current, emitter, stop, crashes>>

\* mutant: the connections made so far are left open
Mut_PreparationLeftOpen(r) ==
  /\ run[r] \in {"preparing", "connected"} /\ GoTo(r, "ended")
  /\ state' = "not-started"
  /\ UNCHANGED <<committed, ops, start, flagged, maps, stop, crashes>>

PreparationFails(r) ==
  /\ run[r] \in {"preparing", "connected"} /\ GoTo(r, "ended")
  /\ state' = "not-started"
  /\ ssh' = FALSE
  /\ UNCHANGED <<committed, ops, start, flagged, current, emitter, stop, crashes>>

\* The emitter of the run is registered; runProject() returns an Error, which
\* nobody looks at, if there is a dispatcher in the map.
Register(r) ==
  /\ run[r] = "connected"
  /\ emitter' = r
  /\ IF current # 0
     THEN GoTo(r, "finishing") /\ UNCHANGED current
     ELSE GoTo(r, "registered") /\ current' = r
  /\ UNCHANGED <<disk, ops, start, flagged, ssh, stop, crashes>>

BeginRunning(r) ==
  /\ run[r] = "registered" /\ GoTo(r, "running")
  /\ start' = [start EXCEPT ![r] = "pending"]
  /\ state' = "running"
  /\ UNCHANGED <<committed, ops, flagged, maps, stop, crashes>>

\* setStateFlag() and hasFailedComponent: a component fails, or the
\* "taskCompleted" of a failed task arrives, which may be at any time after the
\* failure, or when start() has settled and nobody asks any more.
ComponentFails(r) ==
  /\ start[r] = "pending"
  /\ flagged' = flagged \union {r}
  /\ UNCHANGED <<disk, ops, run, start, maps, stop, crashes>>

\* setTaskState() of a failed task, the "taskStateChanged" of which comes after
\* an await: whoever is then registered in eventEmitters puts an abort on its
\* chain.  Nobody may be there, and the failure may be one that is ignored.
TaskFails(r) ==
  /\ \/ start[r] # "none" /\ run[r] # "ended"
     \/ \E s \in Stopper : stopping[s] = r
  /\ \/ UNCHANGED aborts
     \/ /\ emitter # 0 /\ aborts[emitter] < MaxFailures
        /\ aborts' = [aborts EXCEPT ![emitter] = @ + 1]
  /\ UNCHANGED <<disk, ops, runs, maps, stopping, removers, crashes>>

\* start() settles by itself, with what the dispatcher knows at that moment: the
\* pass that finds nothing running drops a failed task from runningTasks by its
\* state, whether its "taskCompleted" has come or not.
Settles(r) ==
  /\ start[r] = "pending"
  /\ \E v \in GetState(r \in flagged, FALSE) : start' = [start EXCEPT ![r] = v]
  /\ UNCHANGED <<disk, ops, run, flagged, maps, stop, crashes>>

Rejects(r) ==
  /\ MayReject /\ start[r] = "pending"
  /\ start' = [start EXCEPT ![r] = "rejected"]
  /\ UNCHANGED <<disk, ops, run, flagged, maps, stop, crashes>>

Outcome(r) == IF start[r] = "rejected" THEN "failed" ELSE start[r]

Concluded == state \in terminalProjectStates

\* setProjectState() reads the state, decides, and writes after an await.
CheckOutcome(r) ==
  /\ run[r] = "running" /\ start[r] # "pending"
  /\ GoTo(r, IF Concluded THEN "recorded" ELSE "writing")
  /\ UNCHANGED <<disk, ops, start, flagged, maps, stop, crashes>>

WriteOutcome(r) ==
  /\ run[r] = "writing" /\ GoTo(r, "recorded")
  /\ state' = Outcome(r)
  /\ UNCHANGED <<committed, ops, start, flagged, maps, stop, crashes>>

\* The rest of runProject(), or the catch clause of runDispatcher() when
\* start() has rejected.  Who stopped the dispatcher releases the resources.
Leave(r) ==
  /\ run[r] = "recorded"
  /\ IF start[r] = "rejected"
     THEN GoTo(r, "finishing") /\ ssh' = FALSE /\ UNCHANGED current
     ELSE /\ GoTo(r, IF removers[r] = {} THEN "cleaning" ELSE "finishing")
          /\ current' = 0 /\ UNCHANGED ssh
  /\ UNCHANGED <<disk, ops, start, flagged, emitter, stop, crashes>>

\* runDeferredCleanups() is done: releaseRuntimeResources().
Release(r) ==
  /\ run[r] = "cleaning" /\ GoTo(r, "finishing")
  /\ ssh' = FALSE
  /\ UNCHANGED <<disk, ops, start, flagged, current, emitter, stop, crashes>>

\* The finally clause: await stopOnFailure.
AwaitAborts(r) ==
  /\ run[r] = "finishing" /\ aborts[r] = 0
  /\ GoTo(r, "closing")
  /\ UNCHANGED <<disk, ops, start, flagged, maps, stop, crashes>>

Close(r) ==
  /\ run[r] = "closing" /\ GoTo(r, "ended")
  /\ emitter' = 0
  /\ UNCHANGED <<disk, ops, start, flagged, current, ssh, stop, crashes>>

-----------------------------------------------------------------------------
(* The server goes down and comes up again: reconcileProjectStates().      *)

\* mutant: only projects with running jobs are looked at
Mut_NotReconciled ==
  {state} \union (IF \E r \in Run : run[r] = "running" THEN {"holding"} ELSE {})

\* A dispatcher that was at work may have left a job manager's file behind.
Reconciled ==
  {IF state = "running" THEN "stopped" ELSE state}
  \union (IF \E r \in Run : run[r] = "running" THEN {"holding"} ELSE {})

Crash ==
  /\ crashes < MaxCrashes
  /\ crashes' = crashes + 1
  /\ state' \in Reconciled
  /\ queue' = <<>> /\ operation' = "none"
  /\ run' = [r \in Run |-> IF run[r] = "none" THEN "none" ELSE "ended"]
  /\ start' = [r \in Run |-> IF start[r] = "pending" THEN "none" ELSE start[r]]
  /\ current' = 0 /\ emitter' = 0 /\ ssh' = FALSE
  /\ aborts' = [r \in Run |-> 0]
  /\ stopping' = [s \in Stopper |-> 0]
  /\ UNCHANGED <<committed, flagged, removers>>

-----------------------------------------------------------------------------
Next ==
  \/ \E o \in Asked : Submit(o)
  \/ TakeOperation
  \/ RunProject \/ ForceStopped \/ CleanProject \/ RevertProject \/ SaveProject
  \/ \E s \in Stopper : BeginStop(s) \/ EndStop(s)
  \/ \E r \in Run :
       \/ Prepare(r) \/ Connect(r) \/ PreparationFails(r) \/ Register(r)
       \/ BeginRunning(r) \/ ComponentFails(r) \/ TaskFails(r)
       \/ Settles(r) \/ Rejects(r)
       \/ CheckOutcome(r) \/ WriteOutcome(r) \/ Leave(r) \/ Release(r)
       \/ AwaitAborts(r) \/ Close(r)
  \/ Crash

Spec == Init /\ [][Next]_vars

-----------------------------------------------------------------------------
(* Properties.                                                             *)

\* The connections and executers are there as long as start() of a dispatcher
\* is pending: no teardown of runProject(), stopProject() or runDispatcher()
\* comes before the end of the run or hits the next one.
ConnectionsKept == (\E r \in Run : start[r] = "pending") => ssh

\* The outcome written for a run whose dispatcher knew of a failure when it
\* concluded is "failed" or "unknown", and one that only its own failed tasks have
\* stopped is never recorded as a plain stop, in whatever order the failures, the
\* stops they set off, those they meet and the end of the run come (issue #1000).
FailureReported ==
  [][\A r \in Run :
       run[r] = "writing" /\ run'[r] = "recorded"
       => /\ r \in flagged => state' \in {"failed", "unknown"}
          /\ User \notin removers[r] => state' # "stopped"]_vars

\* prj.wheel.json says "running" only while there is a run whose outcome is
\* yet to be written, so that "running" always ends, restarts included.
RunningIsRun ==
  state = "running" => \E r \in Run : run[r] \in {"running", "writing"}

\* A project at rest with no dispatcher in the map holds no connections.
Released ==
  /\ \A r \in Run : run[r] \in {"none", "ended"}
  /\ \A s \in Stopper : stopping[s] = 0
  /\ operation = "none" /\ current = 0
  => ~ssh

-----------------------------------------------------------------------------
(* What the documents or the code's comments ask for and the code does not  *)
(* keep: no run checks it, README.md says how it fails.                     *)

\* The user's stop always wins (onStopProject): "stopped" is not replaced by
\* the outcome of the run it ended; only a clean project goes back further.
StopWins ==
  [][state = "stopped" /\ operation # "cleanProject"
     => state' \notin {"finished", "failed", "unknown"}]_vars

\* A project is not recorded as finished while the stop that the failure of one of
\* its tasks sets off is still to come (issue #1000): the pass of dispatcher.js
\* that drops the failed task may have handed back "finished" before.
FailureSeen ==
  [][\A r \in Run :
       run[r] = "writing" /\ run'[r] = "recorded" /\ aborts[r] > 0
       => state' # "finished"]_vars

\* A failed project can be run again: "preparing" is a state on the way, shown
\* only as long as a run is being prepared (runDispatcher, runProject).
Rerunnable ==
  state = "preparing" =>
    \E r \in Run : run[r] \in {"preparing", "connected", "registered"}

=============================================================================
