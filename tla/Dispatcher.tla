----------------------------- MODULE Dispatcher -----------------------------
(***************************************************************************)
(* One Dispatcher object of server/app/core/dispatcher.js: the event loop  *)
(* that walks the component graph of one workflow, starts the handler of   *)
(* each component whose dependencies are done and concludes when nothing   *)
(* is left to do.                                                          *)
(*                                                                         *)
(* A dispatch pass (_dispatch) is split where the code awaits: one action  *)
(* per component scanned, one per segment of a handler, one for the code   *)
(* after Promise.all.  Everything between two awaits is one action.        *)
(*                                                                         *)
(* The child dispatcher of a sub-workflow, the executer of a task and the  *)
(* user who stops the project are the environment: a child or a task may   *)
(* end in any way the code allows, at any time.                            *)
(***************************************************************************)
EXTENDS Naturals, FiniteSets

CONSTANTS
  Component,        \* IDs of the components of this workflow
  Kind,             \* Kind[c]: the component's type, see Kinds
  NextLinks,        \* NextLinks[c]: control links out of c (component.next)
  ElseLinks,        \* ElseLinks[c]: those of its "else" side, for an "if"
  FileLinks,        \* FileLinks[c]: siblings fed by an outputFile of c
  Disabled,         \* components with disable = true
  Remote,           \* tasks whose host is a remote host
  HollowInput,      \* components having an inputFile with no sibling source
  ParentFed,        \* those of them fed by an inputFile of this workflow
  ParentBehindIf,   \* is this workflow itself downstream of an "if"?
  MandatoryMissing, \* components a mandatory inputFile of which may be missing
  MayThrow,         \* components whose input delivery or handler may throw
  TaskResults,      \* states a task may end with
  ChildResults,     \* states a child dispatcher may end with
  Trips,            \* bound: number of trips of each loop
  MayStop,          \* may the project be stopped while it runs?
  MaxRuns           \* bound: first run and continuations of it

TaskKinds == {"task", "stepjobTask"}
Kinds == TaskKinds \union
  {"if", "source", "viewer", "storage", "delegate", "loop", "break", "continue"}

FinishedStates == {"finished", "failed", "unknown"}
States == FinishedStates \union {"not-started", "running", "stage-out"}

ASSUME KindAssumption == Kind \in [Component -> Kinds]
ASSUME LinkAssumption ==
  /\ NextLinks \in [Component -> SUBSET Component]
  /\ ElseLinks \in [Component -> SUBSET Component]
  /\ FileLinks \in [Component -> SUBSET Component]
ASSUME SetAssumption ==
  /\ Disabled \subseteq Component
  /\ HollowInput \subseteq Component
  /\ ParentFed \subseteq HollowInput
  /\ MandatoryMissing \subseteq Component
  /\ MayThrow \subseteq Component
  /\ Remote \subseteq {c \in Component : Kind[c] \in TaskKinds}
ASSUME ResultAssumption ==
  /\ TaskResults \subseteq FinishedStates
  /\ ChildResults \subseteq FinishedStates
ASSUME BoundAssumption ==
  Trips \in Nat /\ MaxRuns \in Nat /\ MayStop \in BOOLEAN /\ ParentBehindIf \in BOOLEAN

-----------------------------------------------------------------------------
(* The component graph.                                                    *)

Previous(c) == {p \in Component : c \in NextLinks[p] \union ElseLinks[p]}
Source(c)   == {p \in Component : c \in FileLinks[p]}
Pred(c)     == Previous(c) \union Source(c)

\* The components isBehindIfComponent() tracks back to an "if": the least set
\* that holds the direct successors of an "if" and is closed under succession.
\* The walk goes through srcNode = parent too, and on to the links of the
\* parent in the workflow above.
BehindIf ==
  {c \in Component :
     \A S \in SUBSET Component :
       (\A d \in Component :
          \/ \E p \in Pred(d) : Kind[p] = "if" \/ p \in S
          \/ d \in ParentFed /\ ParentBehindIf
          => d \in S) => c \in S}

\* mutant: previous is not looked at
Mut_InitialByFile == {c \in Component \ BehindIf : Source(c) = {}}

Initial ==
  {c \in Component \ BehindIf :
     CASE Kind[c] \in {"storage", "source"} -> FileLinks[c] # {}
       [] Kind[c] = "viewer"                -> TRUE
       [] OTHER                             -> Pred(c) = {}}

\* Least fixpoint of _hasDisabledDependency() over the (acyclic) graph.
DisabledDependency ==
  {c \in Component :
     \A S \in SUBSET Component :
       (\A d \in Component :
          /\ Previous(d) # {} \/ Source(d) # {} \/ d \in HollowInput
          /\ \A p \in Pred(d) : p \in Disabled /\ p \in S
          => d \in S) => c \in S}

\* mutant: _getBehindIfComponentList() finds nothing
Mut_NeverBehindIf(d) == FALSE

BehindIfByFile(d) ==
  Kind[d] \notin {"viewer", "storage"} /\ \E p \in Previous(d) : Kind[p] = "if"

\* mutant: outputFiles are forgotten
Mut_NextOnly(c, useElse) ==
  IF Kind[c] \in {"source", "viewer", "storage"} THEN {}
  ELSE IF useElse THEN ElseLinks[c] ELSE NextLinks[c]

Successors(c, useElse) ==
  (IF Kind[c] \in {"source", "viewer", "storage"} THEN {}
   ELSE IF useElse THEN ElseLinks[c] ELSE NextLinks[c])
  \union {d \in FileLinks[c] : ~BehindIfByFile(d)}

-----------------------------------------------------------------------------
VARIABLES
  disk,         \* disk[c]: state in the component's JSON file
  mem,          \* mem[c]: state of the task object held by the executer
  searchList,   \* currentSearchList, a bag of components
  pending,      \* pendingComponents, a bag of components
  scan,         \* entries of currentSearchList the pass has not reached yet
  runningTasks,
  phase,        \* where the _dispatch() call in progress is
  listener,     \* is _dispatch registered for the "dispatch" event?
  emits,        \* "dispatch" emissions scheduled by setImmediate
  needToRerun,
  firstCall,
  threw,        \* did a handler of the current pass reject?
  hasFailed,    \* hasFailedComponent
  hasUnknown,   \* hasUnknownComponent
  removal,      \* progress of remove()
  outcome,      \* what start() resolved with, "none" while it is pending
  step,         \* step[c]: where the handler of c is
  exec,         \* exec[c]: where the execution of task c is
  trips,        \* trips[c]: trips of loop c begun so far (currentIndex)
  loopFailed,   \* loops with a failed trip (hasFaild)
  breaking,     \* loops a "break" event is on its way to
  broken,       \* forceFinishedLoops
  cond,         \* history: last evaluation of the condition of c
  starts,       \* history: handlers begun for c in this run, skips excluded
  succeeded,    \* history: tasks that were decided "finished"
  runs          \* history: number of runs begun

lists   == <<searchList, pending, scan>>
events  == <<listener, emits, needToRerun>>
result  == <<hasFailed, hasUnknown, removal, outcome>>
tasks   == <<mem, exec, runningTasks>>
loops   == <<trips, loopFailed, breaking, broken>>
history == <<cond, starts, succeeded, runs>>
vars == <<disk, lists, events, phase, firstCall, threw, result, step, tasks,
          loops, history>>

Empty == [c \in Component |-> 0]
Steps == {"idle", "starting", "launch", "body", "child", "launched", "adding"}
Execs == {"none", "stage-in", "running", "checking", "decided", "settled",
          "stage-out", "concluded"}
Outcomes == {"none", "finished", "failed", "unknown", "stopped", "error"}

TypeOK ==
  /\ disk \in [Component -> States]
  /\ mem \in [Component -> States]
  /\ searchList \in [Component -> Nat]
  /\ pending \in [Component -> Nat]
  /\ scan \in [Component -> Nat]
  /\ runningTasks \subseteq Component
  /\ phase \in {"idle", "scanning", "closing"}
  /\ listener \in BOOLEAN /\ emits \in Nat /\ needToRerun \in BOOLEAN
  /\ firstCall \in BOOLEAN /\ threw \in BOOLEAN
  /\ hasFailed \in BOOLEAN /\ hasUnknown \in BOOLEAN
  /\ removal \in {"no", "removing", "removed"}
  /\ outcome \in Outcomes
  /\ step \in [Component -> Steps]
  /\ exec \in [Component -> Execs]
  /\ trips \in [Component -> Nat]
  /\ loopFailed \subseteq Component
  /\ breaking \subseteq Component /\ broken \subseteq Component
  /\ cond \in [Component -> {"none", "true", "false"}]
  /\ starts \in [Component -> Nat]
  /\ succeeded \subseteq Component /\ runs \in Nat

Init ==
  /\ disk = [c \in Component |-> "not-started"]
  /\ mem = [c \in Component |-> "not-started"]
  /\ searchList = Empty /\ pending = Empty /\ scan = Empty
  /\ runningTasks = {}
  /\ phase = "idle" /\ firstCall = TRUE /\ threw = FALSE
  /\ listener = TRUE /\ emits = 1 /\ needToRerun = FALSE
  /\ hasFailed = FALSE /\ hasUnknown = FALSE
  /\ removal = "no" /\ outcome = "none"
  /\ step = [c \in Component |-> "idle"]
  /\ exec = [c \in Component |-> "none"]
  /\ trips = Empty /\ loopFailed = {} /\ breaking = {} /\ broken = {}
  /\ cond = [c \in Component |-> "none"]
  /\ starts = Empty /\ succeeded = {} /\ runs = 1

-----------------------------------------------------------------------------
(* Helpers.                                                                *)

\* mutant: an emission without a listener is not remembered
Mut_ReserveNothing ==
  /\ emits' = IF listener THEN emits + 1 ELSE emits
  /\ UNCHANGED <<listener, needToRerun>>

ReserveDispatch ==
  IF listener THEN emits' = emits + 1 /\ UNCHANGED <<listener, needToRerun>>
              ELSE needToRerun' = TRUE /\ UNCHANGED <<listener, emits>>

\* mutant: "failed" is not recorded
Mut_FlagUnknownOnly(s) ==
  hasUnknown' = (hasUnknown \/ s = "unknown") /\ UNCHANGED hasFailed

SetStateFlag(s) ==
  /\ hasUnknown' = (hasUnknown \/ s = "unknown")
  /\ hasFailed' = (hasFailed \/ s = "failed")

\* _getState(), given the flags it reads
StateOf(unknown, failed, stopped) ==
  IF unknown THEN "unknown"
  ELSE IF failed THEN "failed"
  ELSE IF stopped THEN "stopped" ELSE "finished"

AddTo(bag, S) == [c \in Component |-> IF c \in S THEN bag[c] + 1 ELSE bag[c]]

\* what _addNextComponent() pushes to pendingComponents
NextComponents(c, useElse) ==
  {d \in Successors(c, useElse) : searchList[d] = 0}

StuckStageOut(p) == disk[p] = "stage-out" /\ p \notin runningTasks

\* mutant: one predecessor that is done suffices
Mut_ReadyOnAny(c) ==
  \/ Pred(c) = {}
  \/ \E p \in Pred(c) \ Disabled : disk[p] \in FinishedStates

Ready(c) ==
  \/ Kind[c] = "source"
  \/ /\ \A p \in Previous(c) \ Disabled :
          \/ disk[p] \in FinishedStates
          \/ Kind[p] = "stepjobTask"
          \/ StuckStageOut(p)
     /\ \A p \in Source(c) \ Disabled :
          disk[p] \in FinishedStates \/ Kind[p] = "stepjobTask"

HasStuckPredecessor(c) == \E p \in Source(c) \ Disabled : StuckStageOut(p)

\* the end of every handler: the finally block of _dispatchOneComponent()
EndHandler(c) == step' = [step EXCEPT ![c] = "idle"] /\ ReserveDispatch

-----------------------------------------------------------------------------
(* The dispatch pass.                                                      *)

\* A scheduled "dispatch" is emitted.  _dispatch is registered with once().
EmitDispatch ==
  /\ emits > 0
  /\ emits' = emits - 1
  /\ IF listener
     THEN /\ listener' = FALSE
          /\ phase' = "scanning"
          /\ threw' = FALSE
          /\ firstCall' = FALSE
          /\ searchList' = IF firstCall THEN AddTo(Empty, Initial) ELSE searchList
          /\ scan' = searchList'
     ELSE UNCHANGED <<listener, phase, threw, firstCall, searchList, scan>>
  /\ UNCHANGED <<disk, pending, needToRerun, result, step, tasks, loops, history>>

\* mutant: a component that is not in the list is handled
Mut_ScanAnything(c) == phase = "scanning" /\ scan' = [scan EXCEPT ![c] = @ - 1]

\* The next entry of the for loop over currentSearchList is for c.
Scan(c) ==
  /\ phase = "scanning"
  /\ scan[c] > 0
  /\ scan' = [scan EXCEPT ![c] = @ - 1]

ScanDisabled(c) ==
  /\ Scan(c)
  /\ c \in Disabled
  /\ UNCHANGED <<disk, searchList, pending, events, phase, firstCall, threw,
                 result, step, tasks, loops, history>>

ScanNotReady(c) ==
  /\ Scan(c)
  /\ c \notin Disabled
  /\ ~Ready(c)
  /\ pending' = AddTo(pending, {c})
  /\ UNCHANGED <<disk, searchList, events, phase, firstCall, threw,
                 result, step, tasks, loops, history>>

\* _getInputFiles() rejects: the pass ends and emits "error", while the
\* handlers it has started go on.
ScanInputsFail(c) ==
  /\ phase = "scanning" /\ scan[c] > 0
  /\ c \in MayThrow \ Disabled
  /\ Ready(c) /\ Kind[c] # "source"
  /\ scan' = Empty
  /\ phase' = "idle"
  /\ outcome' = IF outcome = "none" THEN "error" ELSE outcome
  /\ UNCHANGED <<disk, searchList, pending, events, firstCall, threw, hasFailed,
                 hasUnknown, removal, step, tasks, loops, history>>

ScanMandatoryMissing(c) ==
  /\ Scan(c)
  /\ c \notin Disabled
  /\ Ready(c)
  /\ c \in MandatoryMissing
  /\ disk' = [disk EXCEPT ![c] = "failed"]
  /\ hasFailed' = TRUE
  /\ UNCHANGED <<searchList, pending, events, phase, firstCall, threw,
                 hasUnknown, removal, outcome, step, tasks, loops, history>>

\* mutant: a task left at "stage-out" is run from the beginning
Mut_NeverResuming(c) == FALSE

\* isStageOutResume
Resuming(c) == disk[c] = "stage-out"

\* _dispatchOneComponent(): a finished component is not run again, a task
\* stuck at stage-out is resumed there.
ScanDispatch(c) ==
  /\ Scan(c)
  /\ c \notin Disabled
  /\ Ready(c)
  /\ step' = [step EXCEPT ![c] =
       IF disk[c] = "finished" THEN "adding"
       ELSE IF Resuming(c) THEN "launch" ELSE "starting"]
  /\ starts' = IF disk[c] = "finished" THEN starts
               ELSE [starts EXCEPT ![c] = @ + 1]
  /\ UNCHANGED <<disk, searchList, pending, events, phase, firstCall, threw,
                 result, tasks, loops, cond, succeeded, runs>>

\* mutant: removeDuplicatedComponent() is forgotten
Mut_KeepDuplicated(bag) == bag

RemoveDuplicated(bag) == [c \in Component |-> IF bag[c] > 0 THEN 1 ELSE 0]

\* mutant: the filter is the wrong way round
Mut_EndedOnly == {t \in runningTasks : mem[t] \in FinishedStates}

StillRunning == {t \in runningTasks : mem[t] \notin FinishedStates}

\* mutant: needToRerun is forgotten
Mut_EndPassNoRerun(done) ==
  /\ phase' = "idle"
  /\ listener' = ~done
  /\ outcome' = IF done /\ outcome = "none"
                THEN StateOf(hasUnknown, hasFailed, removal # "no")
                ELSE outcome
  /\ UNCHANGED <<emits, needToRerun>>

\* mutant: a pass that does not conclude does not listen again
Mut_EndPassDeaf(done) ==
  /\ phase' = "idle"
  /\ needToRerun' = FALSE
  /\ outcome' = IF done /\ outcome = "none"
                THEN StateOf(hasUnknown, hasFailed, removal # "no")
                ELSE outcome
  /\ UNCHANGED <<emits, listener>>

\* The end of a pass: conclude, or wait for the next "dispatch" event.
EndPass(done) ==
  /\ phase' = "idle"
  /\ listener' = ~done
  /\ emits' = IF needToRerun /\ ~done THEN emits + 1 ELSE emits
  /\ needToRerun' = (needToRerun /\ done)
  /\ outcome' = IF done /\ outcome = "none"
                THEN StateOf(hasUnknown, hasFailed, removal # "no")
                ELSE outcome

\* The code after "await Promise.all(promises)".  When nothing is running and
\* something waits, the files of its predecessors are read before the end.
Collect ==
  /\ phase = "scanning"
  /\ scan = Empty
  /\ ~threw
  /\ \A c \in Component : step[c] = "idle"
  /\ searchList' = [c \in Component |->
       IF c \in DisabledDependency THEN 0 ELSE RemoveDuplicated(pending)[c]]
  /\ runningTasks' = StillRunning
  /\ IF StillRunning = {} /\ searchList' # Empty
     THEN phase' = "closing" /\ UNCHANGED <<events, outcome>>
     ELSE EndPass(StillRunning = {})
  /\ pending' = Empty
  /\ UNCHANGED <<disk, scan, firstCall, threw, hasFailed, hasUnknown, removal,
                 step, mem, exec, loops, history>>

\* Is every waiting component blocked by a stage-out that failed?
CheckBlocked ==
  /\ phase = "closing"
  /\ EndPass(\A c \in Component : searchList[c] > 0 => HasStuckPredecessor(c))
  /\ UNCHANGED <<disk, lists, firstCall, threw, hasFailed, hasUnknown, removal,
                 step, tasks, loops, history>>

\* Promise.all() rejects as soon as one handler has: emit("error").
PassError ==
  /\ phase = "scanning"
  /\ scan = Empty
  /\ threw
  /\ phase' = "idle"
  /\ outcome' = IF outcome = "none" THEN "error" ELSE outcome
  /\ UNCHANGED <<disk, lists, events, firstCall, threw, hasFailed, hasUnknown,
                 removal, step, tasks, loops, history>>

-----------------------------------------------------------------------------
(* Handlers.  Each starts in ScanDispatch and ends with EndHandler.        *)

Handling(c, s) == step[c] = s
unchangedByHandler == <<searchList, scan, phase, firstCall>>

\* A finished component only hands over to its successors.
Skip(c) ==
  /\ Handling(c, "adding")
  /\ pending' = AddTo(pending, NextComponents(c, FALSE))
  /\ EndHandler(c)
  /\ UNCHANGED <<unchangedByHandler, disk, threw, result, tasks, loops, history>>

\* The write of _setComponentState(c, "running") lands.
Begin(c) ==
  /\ Handling(c, "starting")
  /\ disk' = [disk EXCEPT ![c] = "running"]
  /\ step' = [step EXCEPT ![c] = IF Kind[c] \in TaskKinds THEN "launch" ELSE "body"]
  /\ UNCHANGED <<lists, events, phase, firstCall, threw, result, tasks, loops,
                 history>>

\* _dispatchTask(): exec() or execStageOut() is called and not awaited.
LaunchTask(c) ==
  /\ Handling(c, "launch")
  /\ step' = [step EXCEPT ![c] = "launched"]
  /\ runningTasks' = runningTasks \union {c}
  /\ IF Resuming(c)
     THEN /\ mem' = [mem EXCEPT ![c] = "finished"]
          /\ exec' = [exec EXCEPT ![c] = "settled"]
     ELSE /\ mem' = [mem EXCEPT ![c] = "running"]
          /\ exec' = [exec EXCEPT ![c] = IF c \in Remote THEN "stage-in" ELSE "running"]
  /\ UNCHANGED <<disk, lists, events, phase, firstCall, threw, result, loops,
                 history>>

\* The rest of _dispatchTask(): the JSON file is written with whatever state
\* the task has reached meanwhile.
TaskDispatched(c) ==
  /\ Handling(c, "launched")
  /\ disk' = [disk EXCEPT ![c] = mem[c]]
  /\ pending' = AddTo(pending, NextComponents(c, FALSE))
  /\ SetStateFlag(mem[c])
  /\ EndHandler(c)
  /\ UNCHANGED <<unchangedByHandler, threw, removal, outcome, tasks, loops, history>>

RunInstant(c) ==
  /\ Handling(c, "body")
  /\ Kind[c] \in {"source", "storage"}
  /\ disk' = [disk EXCEPT ![c] = "finished"]
  /\ pending' = AddTo(pending, NextComponents(c, FALSE))
  /\ EndHandler(c)
  /\ UNCHANGED <<unchangedByHandler, threw, result, tasks, loops, history>>

\* A viewer hands over to nobody.
RunViewer(c) ==
  /\ Handling(c, "body")
  /\ Kind[c] = "viewer"
  /\ disk' = [disk EXCEPT ![c] = "finished"]
  /\ EndHandler(c)
  /\ UNCHANGED <<unchangedByHandler, pending, threw, result, tasks, loops, history>>

CheckIf(c, condition) ==
  /\ Handling(c, "body")
  /\ Kind[c] = "if"
  /\ cond' = [cond EXCEPT ![c] = IF condition THEN "true" ELSE "false"]
  /\ pending' = AddTo(pending, NextComponents(c, ~condition))
  /\ disk' = [disk EXCEPT ![c] = "finished"]
  /\ EndHandler(c)
  /\ UNCHANGED <<unchangedByHandler, threw, result, tasks, loops, starts,
                 succeeded, runs>>

\* The finally block of _delegate() schedules a "dispatch" on top of the one
\* _dispatchOneComponent() reserves.
EndDelegation(c) ==
  /\ pending' = AddTo(pending, NextComponents(c, FALSE))
  /\ step' = [step EXCEPT ![c] = "idle"]
  /\ emits' = IF listener THEN emits + 2 ELSE emits + 1
  /\ needToRerun' = (needToRerun \/ ~listener)
  /\ UNCHANGED listener

\* The child dispatcher of a sub-workflow, a stepjob or a parameter study
\* settled.
ChildSettles(c, s) ==
  /\ Handling(c, "body")
  /\ Kind[c] = "delegate"
  /\ disk' = [disk EXCEPT ![c] = s]
  /\ SetStateFlag(s)
  /\ EndDelegation(c)
  /\ UNCHANGED <<unchangedByHandler, threw, removal, outcome, tasks, loops, history>>

\* _loopHandler() up to the end determination: a trip is begun, and the loop
\* sends itself back to the search list...
LoopTrip(c) ==
  /\ Handling(c, "body")
  /\ Kind[c] = "loop"
  /\ c \notin broken /\ trips[c] < Trips
  /\ trips' = [trips EXCEPT ![c] = @ + 1]
  /\ pending' = AddTo(pending, {c})
  /\ step' = [step EXCEPT ![c] = "child"]
  /\ UNCHANGED <<unchangedByHandler, disk, events, threw, result, tasks,
                 loopFailed, breaking, broken, history>>

\* ... or is finalized.
LoopFinalize(c) ==
  /\ Handling(c, "body")
  /\ Kind[c] = "loop"
  /\ c \in broken \/ trips[c] >= Trips
  /\ trips' = [trips EXCEPT ![c] = 0]
  /\ LET s == IF c \in loopFailed THEN "failed" ELSE "finished"
     IN disk' = [disk EXCEPT ![c] = s] /\ SetStateFlag(s)
  /\ pending' = AddTo(pending, NextComponents(c, FALSE))
  /\ EndHandler(c)
  /\ UNCHANGED <<unchangedByHandler, threw, removal, outcome, tasks, loopFailed,
                 breaking, broken, history>>

\* The child dispatcher of a trip settled, because of a "break" or not.
TripSettles(c, s, break) ==
  /\ Handling(c, "child")
  /\ loopFailed' = IF s = "failed" THEN loopFailed \union {c} ELSE loopFailed
  /\ breaking' = IF break THEN breaking \union {c} ELSE breaking
  /\ EndDelegation(c)
  /\ UNCHANGED <<unchangedByHandler, disk, threw, result, tasks, trips, broken,
                 history>>

\* The child emits "break" when it has cancelled its tasks, which may be long
\* after its start() settled.
BreakArrives(c) ==
  /\ c \in breaking
  /\ breaking' = breaking \ {c}
  /\ broken' = broken \union {c}
  /\ UNCHANGED <<disk, lists, events, phase, firstCall, threw, result, step, tasks,
                 trips, loopFailed, history>>

\* Dispatched tasks that have not got a result are cancelled.
CancelDispatchedTasks ==
  mem' = [c \in Component |->
    IF c \in runningTasks /\ mem[c] \notin {"finished", "failed", "stage-out"}
    THEN "not-started" ELSE mem[c]]

\* pause(): start() settles on "stop", before the cancellations are done.
Pause(failed, stopped) ==
  /\ CancelDispatchedTasks
  /\ outcome' = IF outcome = "none"
                THEN StateOf(hasUnknown, failed, stopped) ELSE outcome

\* break and continue.  When the condition holds the search list is emptied,
\* but the pass in progress goes on over the old one.
Jump(c, condition) ==
  /\ Handling(c, "body")
  /\ Kind[c] \in {"break", "continue"}
  /\ disk' = [disk EXCEPT ![c] = "finished"]
  /\ cond' = [cond EXCEPT ![c] = IF condition THEN "true" ELSE "false"]
  /\ IF condition
     THEN /\ pending' = Empty
          /\ searchList' = Empty
          /\ IF Kind[c] = "break" THEN Pause(hasFailed, removal # "no")
                                  ELSE UNCHANGED <<mem, outcome>>
     ELSE /\ pending' = AddTo(pending, NextComponents(c, FALSE))
          /\ UNCHANGED <<searchList, mem, outcome>>
  /\ step' = [step EXCEPT ![c] = "idle"]
  /\ listener' = (listener /\ ~(condition /\ Kind[c] = "break"))
  /\ emits' = IF listener' THEN emits + 1 ELSE emits
  /\ needToRerun' = (needToRerun \/ ~listener')
  /\ UNCHANGED <<scan, phase, firstCall, threw, hasFailed, hasUnknown, removal,
                 exec, runningTasks, loops, starts, succeeded, runs>>

\* A handler throws: the component is failed and the pass will reject.  When
\* it waits for a child the finally block of _delegate() is executed first.
HandlerThrows(c) ==
  /\ step[c] \in {"launch", "body", "child"}
  /\ c \in MayThrow
  /\ disk' = [disk EXCEPT ![c] = "failed"]
  /\ hasFailed' = TRUE
  /\ threw' = TRUE
  /\ IF Kind[c] = "delegate" \/ step[c] = "child"
     THEN EndDelegation(c)
     ELSE EndHandler(c) /\ UNCHANGED pending
  /\ UNCHANGED <<unchangedByHandler, hasUnknown, removal, outcome, tasks, loops,
                 history>>

-----------------------------------------------------------------------------
(* The execution of a task: executer.js and, for remote tasks, stageOut(). *)

\* Files are sent and the task is registered.  A task that was cancelled
\* meanwhile is registered nevertheless.
StageIn(c) ==
  /\ exec[c] = "stage-in"
  /\ exec' = [exec EXCEPT ![c] = "running"]
  /\ mem' = [mem EXCEPT ![c] = "running"]
  /\ UNCHANGED <<disk, lists, events, phase, firstCall, threw, result, step,
                 runningTasks, loops, history>>

\* The script of a task ended.  A cancelled task gets no result.
ScriptEnds(c) ==
  /\ exec[c] = "running"
  /\ exec' = [exec EXCEPT ![c] = IF mem[c] = "not-started" THEN "concluded"
                                 ELSE "checking"]
  /\ UNCHANGED <<disk, lists, events, phase, firstCall, threw, result, step, mem,
                 runningTasks, loops, history>>

\* The executer decides the task's state, from its return value or because
\* its execution was rejected; setTaskState() sets it in memory...
TaskDecided(c, s) ==
  /\ \/ exec[c] = "checking"
     \/ exec[c] \in {"stage-in", "running"} /\ s # "finished"
  /\ exec' = [exec EXCEPT ![c] = "decided"]
  /\ mem' = [mem EXCEPT ![c] = s]
  /\ succeeded' = IF s = "finished" THEN succeeded \union {c} ELSE succeeded
  /\ UNCHANGED <<disk, lists, events, phase, firstCall, threw, result, step,
                 runningTasks, loops, cond, starts, runs>>

\* ... and then writes it.
TaskSettled(c) ==
  /\ exec[c] = "decided"
  /\ exec' = [exec EXCEPT ![c] = "settled"]
  /\ disk' = [disk EXCEPT ![c] = mem[c]]
  /\ UNCHANGED <<lists, events, phase, firstCall, threw, result, step, mem,
                 runningTasks, loops, history>>

StageOut(c) ==
  /\ exec[c] = "settled"
  /\ c \in Remote /\ mem[c] = "finished"
  /\ exec' = [exec EXCEPT ![c] = "stage-out"]
  /\ mem' = [mem EXCEPT ![c] = "stage-out"]
  /\ disk' = [disk EXCEPT ![c] = "stage-out"]
  /\ UNCHANGED <<lists, events, phase, firstCall, threw, result, step,
                 runningTasks, loops, history>>

\* The transfer ends; when it fails the task is left at "stage-out".
StageOutEnds(c, delivered) ==
  /\ exec[c] = "stage-out"
  /\ exec' = [exec EXCEPT ![c] = "concluded"]
  /\ LET s == IF delivered THEN "finished" ELSE "stage-out"
     IN /\ mem' = [mem EXCEPT ![c] = s]
        /\ disk' = [disk EXCEPT ![c] = s]
  /\ UNCHANGED <<lists, events, phase, firstCall, threw, result, step,
                 runningTasks, loops, history>>

\* exec() emits "taskCompleted" in its finally block.
TaskCompleted(c) ==
  /\ \/ exec[c] = "concluded"
     \/ exec[c] = "settled" /\ ~(c \in Remote /\ mem[c] = "finished")
  /\ exec' = [exec EXCEPT ![c] = "none"]
  /\ runningTasks' = runningTasks \ {c}
  /\ hasUnknown' = (hasUnknown \/ mem[c] = "unknown")
  /\ hasFailed' = (hasFailed \/ mem[c] \in {"failed", "stage-out"})
  /\ ReserveDispatch
  /\ UNCHANGED <<disk, lists, phase, firstCall, threw, removal, outcome, step, mem,
                 loops, history>>

-----------------------------------------------------------------------------
(* Stop and continue.                                                      *)

\* remove(), called by stopProject(): a user's stop gives no reason, the stop
\* of a project with a failed task gives "failed".
Remove(reason) ==
  /\ MayStop
  /\ outcome = "none" /\ removal = "no"
  /\ reason = "failed" => \E c \in Component :
       Kind[c] \in TaskKinds /\ starts[c] > 0 /\ disk[c] = "failed"
  /\ removal' = "removing"
  /\ SetStateFlag(reason)
  /\ Pause(hasFailed \/ reason = "failed", TRUE)
  /\ listener' = FALSE
  /\ UNCHANGED <<disk, lists, emits, needToRerun, phase, firstCall, threw, step,
                 exec, runningTasks, loops, history>>

\* The cancellations remove() awaits are done.
Removed ==
  /\ removal = "removing"
  /\ removal' = "removed"
  /\ searchList' = Empty
  /\ pending' = Empty
  /\ UNCHANGED <<disk, scan, events, phase, firstCall, threw, hasFailed, hasUnknown,
                 outcome, step, tasks, loops, history>>

Quiescent ==
  /\ phase = "idle" /\ emits = 0
  /\ \A c \in Component : step[c] = "idle" /\ exec[c] = "none"

\* The project is run again: a new Dispatcher object over the same files.
\* Only projects that did not finish can be (allowedOperations.js).
Continue ==
  /\ outcome \notin {"none", "finished"}
  /\ removal # "removing"
  /\ Quiescent
  /\ runs < MaxRuns
  /\ runs' = runs + 1
  /\ searchList' = Empty /\ pending' = Empty /\ scan' = Empty
  /\ runningTasks' = {}
  /\ firstCall' = TRUE /\ threw' = FALSE
  /\ listener' = TRUE /\ emits' = 1 /\ needToRerun' = FALSE
  /\ hasFailed' = FALSE /\ hasUnknown' = FALSE
  /\ removal' = "no" /\ outcome' = "none"
  /\ breaking' = {} /\ broken' = {}
  /\ starts' = Empty
  /\ UNCHANGED <<disk, mem, phase, step, exec, trips, loopFailed, cond, succeeded>>

-----------------------------------------------------------------------------
Pass(c) ==
  \/ ScanDisabled(c) \/ ScanNotReady(c) \/ ScanInputsFail(c)
  \/ ScanMandatoryMissing(c) \/ ScanDispatch(c)

Handler(c) ==
  \/ Skip(c) \/ Begin(c) \/ LaunchTask(c) \/ TaskDispatched(c) \/ RunInstant(c)
  \/ RunViewer(c)
  \/ \E b \in BOOLEAN : CheckIf(c, b) \/ Jump(c, b)
  \/ \E s \in ChildResults : ChildSettles(c, s)
  \/ LoopTrip(c) \/ LoopFinalize(c)
  \/ \E s \in ChildResults, b \in BOOLEAN : TripSettles(c, s, b)
  \/ HandlerThrows(c)

Execution(c) ==
  \/ StageIn(c) \/ ScriptEnds(c)
  \/ \E s \in TaskResults : TaskDecided(c, s)
  \/ TaskSettled(c) \/ StageOut(c)
  \/ \E b \in BOOLEAN : StageOutEnds(c, b)
  \/ TaskCompleted(c)

Loop == EmitDispatch \/ Collect \/ CheckBlocked \/ PassError

Next ==
  \/ Loop
  \/ \E c \in Component : Pass(c) \/ Handler(c) \/ Execution(c) \/ BreakArrives(c)
  \/ \E reason \in {"none", "failed"} : Remove(reason)
  \/ Removed
  \/ Continue

\* The event loop runs every ready callback; scripts, children, transfers and
\* cancellations end.  Nobody has to stop or to continue a project.
Fairness ==
  /\ WF_vars(Loop)
  /\ \A c \in Component :
       /\ WF_vars(Pass(c)) /\ WF_vars(Handler(c)) /\ WF_vars(Execution(c))
       /\ WF_vars(BreakArrives(c))
  /\ WF_vars(Removed)

Spec == Init /\ [][Next]_vars
FairSpec == Spec /\ Fairness

-----------------------------------------------------------------------------
(* Properties.                                                             *)

HandlerActive == \E c \in Component : step[c] # "idle"
TaskActive == \E c \in Component : exec[c] # "none"

\* A dispatcher that has not concluded never sleeps on a component it could
\* start: between passes, while nothing is scheduled, no handler is active and
\* no task is executing, everything in the search list waits for something
\* that has not happened (_reserveDispatch and needToRerun lose no wakeup).
NoLostWakeup ==
  (outcome = "none" /\ phase = "idle" /\ emits = 0 /\ ~HandlerActive /\ ~TaskActive)
    => \A c \in Component : searchList[c] > 0 => ~Ready(c)

\* A dispatcher that is not in a pass and has not concluded listens: no
\* "dispatch" emission that is still to come can be lost.
Listening == (outcome = "none" /\ phase = "idle") => listener

\* Why the two hold.  While a dispatcher has not concluded, handlers are active
\* only during a scan, and a listener is registered only between two passes.  A
\* component that became ready after it was scanned has been preceded by a call
\* of _reserveDispatch() or will be followed by one: needToRerun remembers it
\* during a pass, a scheduled emission after it.  Only a component that fails
\* for want of a mandatory inputFile is followed by none.
ReadyIn(bag) == \E c \in Component : bag[c] > 0 /\ Ready(c)
Scheduling ==
  /\ Listening
  /\ phase # "idle" => ~listener
  /\ outcome = "none" /\ phase # "scanning" => ~HandlerActive /\ pending = Empty
  /\ \A t \in runningTasks : exec[t] # "none"
  /\ removal # "no" => outcome # "none"
  /\ outcome = "none" /\ MandatoryMissing = {} =>
       /\ phase = "scanning" /\ ReadyIn(pending) =>
            needToRerun \/ HandlerActive \/ TaskActive
       /\ phase = "closing" /\ ReadyIn(searchList) => needToRerun \/ TaskActive
       /\ phase = "idle" /\ ReadyIn(searchList) => emits > 0 \/ TaskActive

\* No handler but a loop's is begun twice in a run, however many components
\* name its component as a successor (removeDuplicatedComponent and the filter
\* of _addNextComponent).
AtMostOnce == \A c \in Component : Kind[c] # "loop" => starts[c] <= 1

Active(c) == step[c] \notin {"idle", "adding"} \/ exec[c] # "none"

\* The execution of c has a result and the result is on disk.
Ended(c) ==
  /\ disk[c] \in FinishedStates
  /\ exec[c] \in {"none", "decided", "settled"}
  /\ step[c] \in {"idle", "launched", "adding"}

\* While a component is handled or executes, everything it depends on has
\* ended: neither an enabled predecessor's script nor its handler is still at
\* work (stepjob tasks are chained by the job scheduler instead).
DependencyOrder ==
  \A c \in Component : Active(c) /\ Kind[c] # "source" =>
    \A p \in Pred(c) \ Disabled :
      Kind[p] = "stepjobTask" \/ Ended(p)

\* A break or continue (kinds) the condition of which held.
Jumped(kinds) == \E c \in Component : Kind[c] \in kinds /\ cond[c] = "true"

\* The dispatcher concluded by itself: it was not stopped and no "break" of
\* its own ended it.
Concluded ==
  /\ outcome \in {"finished", "failed", "unknown"}
  /\ removal = "no"
  /\ ~Jumped({"break"})

\* Once a dispatcher has concluded none of its handlers is active and no script
\* of its tasks is running or still to run, then and ever after.
DoneQuiet ==
  Concluded => \A c \in Component :
    step[c] = "idle" /\ exec[c] \notin {"stage-in", "running", "checking"}

Taken(p, c) == c \in (IF cond[p] = "true" THEN NextLinks[p] ELSE ElseLinks[p])

\* Why c may be left out of a run: something it depends on has not run either,
\* has not delivered its files or is an "if" that decided for the other side,
\* all it depends on is disabled, or it is a source or a storage nobody reads.
LeftOut(c) ==
  \/ \E p \in Pred(c) \ Disabled :
       \/ disk[p] \in {"not-started", "stage-out"}
       \/ Kind[p] = "if" /\ c \in NextLinks[p] \union ElseLinks[p] /\ ~Taken(p, c)
  \/ Pred(c) # {} /\ Pred(c) \subseteq Disabled
  \/ Pred(c) = {} /\ FileLinks[c] = {} /\ Kind[c] \in {"source", "storage"}

\* Without a jump, a dispatcher that concludes has run every enabled component
\* of its workflow that there was no reason to leave out, and finished what it
\* has begun.
Complete ==
  Concluded /\ ~Jumped({"continue"}) => \A c \in Component \ Disabled :
    \/ disk[c] \in FinishedStates \union {"stage-out"} \/ exec[c] = "decided"
    \/ disk[c] = "not-started" /\ LeftOut(c)

\* A component that is linked to an "if" starts only on the side the condition
\* decided for, whatever files other components send it.
OneBranch ==
  \A c \in Component : starts[c] > 0 =>
    \A p \in Previous(c) \ Disabled : Kind[p] = "if" => cond[p] # "none" /\ Taken(p, c)

\* A component that follows a break or a continue the condition of which holds
\* is not started in this trip.
JumpSkips ==
  \A c \in Component : starts[c] > 0 =>
    \A p \in Previous(c) \ Disabled :
      Kind[p] \in {"break", "continue"} => cond[p] # "true"

\* "finished" is reported only when nothing of the workflow failed, is unknown
\* or is still to be transferred (_getState and the flags it reads).
Verdict ==
  Concluded /\ outcome = "finished" =>
    \A c \in Component : disk[c] \notin {"failed", "unknown", "stage-out"}

\* A task whose script succeeded is never submitted again, by this run or by a
\* continuation: at most its stage-out is retried.
NoResubmission ==
  [][\A c \in succeeded : exec[c] = "none" => exec'[c] \in {"none", "settled"}]_vars

\* Every run ends, unless the workflow waits on both sides of an "if".
Concludes == (outcome = "none") ~> (outcome # "none")

-----------------------------------------------------------------------------
(* What the documents or the code's comments ask for and the code does not  *)
(* keep: no run checks it, README.md says how it fails.                     *)

\* A component that needs a file of a remote task does not start while the
\* stage-out of that task is still to come or going on.
FilesDelivered ==
  \A c \in Component : Active(c) => \A p \in Source(c) \ Disabled :
    p \in Remote /\ p \in succeeded => exec[p] \in {"none", "concluded"}

=============================================================================
