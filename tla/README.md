# Formal models of WHEEL's workflow engine

WHEEL runs scientific workflows: a *project* is a tree of directories, each a
*component* with a `cmp.wheel.json`, and the server walks the graph of these
components, runs scripts and batch jobs on local and remote hosts, moves files
along the links and records every state on disk, so that a project can be
stopped and continued. This directory holds TLA+ models of that engine, the TLC
configurations that check them, and TLAPS proofs.

Paths below are relative to `src/server/app/` unless they begin with `src/`;
manual pages are under `src/documentMD/user_guide/`.

| File | What it is |
|---|---|
| `Dispatcher.tla`, `MCDispatcher.tla`, `Dispatcher_*.cfg` | the dispatch loop of one workflow (`core/dispatcher.js`) with its handlers, tasks, stop and continue |
| `DispatcherProofs.tla` | theorems about `Dispatcher` for every workflow, checked by tlapm |
| `Delegation.tla`, `MCDelegation.tla`, `Delegation_iterations.cfg` | what runs inside a component that holds others: workflows, loops, parameter studies |
| `DelegationProofs.tla` | theorems about `Delegation`, for loops of any length and parameter spaces of any number of axes |
| `TaskExecution.tla`, `MCTaskExecution.tla`, `TaskExecution_*.cfg` | the execution of tasks: executers, job limit, retries, stepjob chains, stop |
| `TaskLife.tla` | what a task's execution promises, which `TaskExecution` implements |
| `TaskExecutionProofs.tla` | theorems about `TaskExecution` for any tasks, its refinement of `TaskLife` among them |
| `JobManager.tla`, `JobManager_jobs.cfg` | the polling of one job |
| `JobManagerProofs.tla` | theorems about `JobManager` for every setting of a scheduler |
| `FileDelivery.tla`, `MCFileDelivery.tla`, `FileDelivery_delivery.cfg` | how a file gets from one component to another, over hosts and workflows |
| `FileDeliveryProofs.tla` | theorems about `FileDelivery`, for any hosts, settings and number of components |
| `ProjectController.tla`, `ProjectController_patient.cfg` | the life cycle of one project: operations, runs, stop, recorded state, restart |
| `ProjectControllerProofs.tla` | theorems about `ProjectController`, for any number of runs |
| `EditSession.tla`, `MCEditSession.tla`, `EditSession_edits.cfg` | client, saves, queue of edits and operations that meet in the files of a project |
| `EditSessionProofs.tla` | theorems about `EditSession` and `Repository`, for any number of edits, operations and runs |
| `Repository.tla` | working tree, index and HEAD, as git changes them |
| `ComponentLinks.tla`, `MCComponentLinks.tla`, `ComponentLinks_links.cfg` | the component files and the edits of links, files and places |
| `ComponentLinksProofs.tla` | theorems about `ComponentLinks`, for any project and any number of edits, and that it implements `WorkflowGraph` |
| `WorkflowGraph.tla` | the graph the user sees, which `ComponentLinks` implements |
| `Validation.tla`, `MCValidation.tla`, `Validation_accepted.cfg` | the validation before a run, and what becomes of a run it has accepted |
| `PROJECT.json` | components, runs, mutants, the map from definitions to source lines, hazards, theorems |

## 1. Inventory

| Component | State it keeps | Operations | Talks to |
|---|---|---|---|
| Dispatcher (`core/dispatcher.js`, `core/workflowComponent.js`) | `currentSearchList`, `pendingComponents`, `runningTasks`, `children`, flags, the "dispatch" listener, `needToRerun`; component states in JSON files | `start`, `_dispatch`, one handler per component type, `pause`, `remove` | executers (register a task), child dispatchers, events `taskDispatched`, `taskCompleted`, `break` |
| Loops and parameter studies (`core/loopUtils.js`, `core/psUtils.js`, `core/parameterParser.js`, `core/componentState.js`) | index, instance directories, `numFinished`/`numFailed`, restart flag | next index, finish test, enumerate parameters, gather | a child dispatcher per trip or instance |
| Executers (`core/executer.js`, `core/executerManager.js`, `core/execUtils.js`, `core/taskUtil.js`) | one executer per project, host and submission kind; a batch queue with a concurrency limit; state of each task | submit, run script, judge, retry, cancel; stepjob chains wait for the job ID of the first task | job manager, transfers, the emitter of the project |
| Job manager (`core/jobManager.js`) | requests polled per host, an error count per job | register, poll status, ask for the result, cancel | SSH |
| Transfers (`core/transferrer.js`, `core/deliverFile.js`, `core/transferManager.js`) | queue per host, registry of deferred cleanups | stage-in, stage-out with retries, links and copies, deferred cleanup | SSH |
| Project controller (`handlers/projectController.js`, `core/projectController.js`, `core/projectJsonFileOperator.js`) | `prj.wheel.json` and its committed version, queue of operations, `rootDispatchers`, `eventEmitters`, connections | run, continue, stop, clean, revert, save; reaction to a failed task; reconciliation at start-up | root dispatcher, git, SSH |
| Component editing (`core/componentOperations.js`, `core/componentLinks.js`, `core/componentFiles.js`, `core/updateComponent.js`) | links stored at both ends | create, rename, delete, copy, cut, link | git, JSON files |
| Validation (`core/validateComponents.js`, `core/dependencyGraphValidator.js`, `core/taskValidator.js`, `core/component*Validator.js`) | none | check settings, initial components and cycles | component files, hosts |
| Edit session (`handlers/workflowEditor.js`, `handlers/rapid.js`, the client) | pending saves with timers, edits in progress per project, the client's own copies | save text, edit component, stop, drain and clear the queue | component editing, git |
| Databases (`db/jsonArrayManager.js`) | an array in a JSON file | add, update, remove | clients |
| SSH, authentication, import/export, server wiring, the rest of the client | | | mostly I/O |

Behaviours that are hard to test, and what must hold:

* **The wakeup protocol of a dispatcher.** `_dispatch` listens `once`; a
  `dispatch` emitted while it runs must be remembered (`needToRerun`), or the
  project sleeps for ever. No component that could start is left without a pass
  to come (`NoLostWakeup`); a dispatcher between two passes listens
  (`Listening`); every run ends (`Concludes`).
* **Several writers of a component's state.** The dispatcher, the executer, the
  transfers and a stop all write it, in memory and on disk, with awaits between.
  Nothing is started twice (`AtMostOnce`) or before what it depends on
  (`DependencyOrder`).
* **Branches and jumps.** A component linked to an `if`, and to other things
  too, starts on the decided side only (`OneBranch`) and nothing else is left
  out (`Complete`); what follows a triggered break or continue is skipped
  (`JumpSkips`).
* **The verdict.** A run in which something failed is not reported as finished
  (`Verdict`; section 4 says which failed task the code can miss), and a dispatcher that concluded starts nothing more (`DoneQuiet`).
* **Stop and continue.** A continued project never submits again what succeeded
  (`NoResubmission`); no directory gets the same result twice or out of order
  (`InOrder`), and what is recorded as ended is whole (`Whole`).
* **Trips.** Each trip of a loop starts from the results of the one before
  (`LoopDelivers`), and the directories that are deleted are the ones no trip
  needs (`Kept`).
* **Limits, retries, chains.** A host is never given more than it is configured
  for, while its limit is lowered, restored and set anew (`Throttled`); a child
  of a chain is submitted after its head (`HeadFirst`); every task settles
  (`Settles`) and gets one verdict (`LivesRight`).
* **Jobs.** What is reported as success succeeded (`SuccessIsReal`), a job is
  followed until it is decided (`Followed`), and it is decided unless the handler
  that has to decide it throws (`Decided`).
* **Files.** Stage-out, cleanup and delivery decide the same question in
  different modules: the file arrives (`Delivered`), is not removed under those
  that read it (`RemoteFiles`), or its absence is noticed (`Told`).
* **Teardown.** A run, the stop a failed task sets off and a user's stop share
  connections, a map entry and the recorded state (`ConnectionsKept`,
  `Released`, `FailureReported`). The recorded state "running" must not outlive
  the process (`RunningIsRun`).
* **Edits.** Both ends of every link agree after any edits (`BothEnds`,
  `EditsGraph`). A run starts from everything asked before it (`RunTakesAll`), a
  reset is final (`CleanForgets`), the last text is the one saved (`Saved`), and
  no queue stays blocked (`Serves`).
* **Validation.** Cycles are found exactly (`CycleExact`), and what is accepted
  does not hang (`Explained`) or fail (`KeepsPromise`) for a reason a validator
  should have seen.

`PROJECT.json` lists each of them as a hazard at its line, with those no
property covers and the reason.

## 2. Plan and composition

Done, in the order of importance: the dispatcher, the project life cycle, tasks
and jobs, loops and studies, delivery of files, edits and links, validation.

How the modules fit together: each takes its neighbours as the promise they
make. `Dispatcher` sees a task as `TaskExecution` ends it (`TaskLife` is that
promise) and a child as `Delegation` ends it; `ProjectController` sees a root
dispatcher that may reject, and hands back what it knows when it concludes;
`TaskExecution` sees a job as
`JobManager` decides it, and files only as there or not, which `FileDelivery`
looks into; `EditSession` sees a run as `ProjectController` records it;
`Validation` runs an accepted workflow by a coarse dispatcher, the rules of
which (initial components, readiness, disabled ones) are those of `Dispatcher`.
`TaskExecution` implements `TaskLife` and `ComponentLinks` implements
`WorkflowGraph`, both as INSTANCE ... WITH and a PROPERTY.

Section 11 says which of the properties are proved for every value of the
constants; what is left to prove is listed at its end.

Some modules end with a section of properties the documents, comments or tests
ask for and the code does not keep. No run checks them; the lists "Seen" below
say how each fails.

## 3. Dispatcher

### Correspondence

One behaviour is the life of one `Dispatcher` object, and, when `MaxRuns` allows,
of the ones that continue the project after it.

* `disk[c]` is the state in the JSON file, `mem[c]` that of the task object the
  executer holds: they differ while a write is under way. `searchList`,
  `pending`, `scan` are bags: the code's lists may hold a component several
  times. The lists in the code hold copies of component objects; the model reads
  the state when a component is scanned. The order of a list is not kept: the
  model scans in any order, which includes the code's.
* A pass: `EmitDispatch` (the listener is gone) → `ScanDisabled`,
  `ScanNotReady`, `ScanInputsFail`, `ScanMandatoryMissing`, `ScanDispatch`, one
  per entry → the handlers → `Collect`, or `CheckBlocked` (the
  `permanentlyBlocked` conclusion), or `PassError`. `EndPass` is the code after
  the last entry, with the rerun.
* A handler goes on beside other handlers and other passes' effects; `step[c]`
  says where it is: `LaunchTask`, `TaskDispatched`, `RunInstant` and `RunViewer`
  (source, storage, viewer), `CheckIf`, `ChildSettles`/`EndDelegation`
  (workflow, parameter study), `LoopTrip`/`TripSettles`/`LoopFinalize`
  (for, while, foreach), `Jump` (break, continue), `NextComponents`,
  `HandlerThrows`. The states "waiting", "running" and "stage-in" are one state,
  "running": nothing in the loop tells them apart.
* A task's execution as the loop sees it: `StageIn`, `ScriptEnds`, `TaskDecided`
  (the judged state in memory), `TaskSettled` (in the JSON file), `StageOut`,
  `StageOutEnds` (which may fail for good), `TaskCompleted` (the event).
* The stop: `Remove`, `Removed`, with `Pause` and `CancelDispatchedTasks`;
  `Continue` is the start of a new dispatcher over the component files the
  stopped one left. It waits until nothing of the stopped run is still going on.

`BehindIf` and `DisabledDependency`, recursive walks in the code, are defined as
least sets closed under one step of the walk, which coincides with the walk on
the acyclic graphs that validation lets through.

### Environment and bounds

`TaskResults`, `ChildResults`: how tasks and children may end. `MayThrow`: whose
handler may reject. `Remote`: tasks with a stage-out. `MandatoryMissing`:
components whose mandatory file may be missing. `Trips` bounds the trips of a
loop (2: a trip that is followed by another and one that is the last);
`MaxRuns` the runs (2: a run and its continuation); `MayStop` the stop. The
workflows have up to nine components; each shape is there for the rules it
exercises (a join, a chain, an `if` with both sides and a side fed by another
task, a loop between siblings, a jump racing what follows it and what does not).

`CHECK_DEADLOCK FALSE` in every run: a run that has concluded does nothing more.

### Fairness

`FairSpec` gives weak fairness to what the JavaScript event loop and the hosts
do by themselves: a scheduled emission is delivered, a pass goes on to its next
entry, a handler to its next await, an execution to its end (a script that never
ends is not considered, nor a job that is never decided: section 6 says when the
code leaves one so), a `break` event arrives, `remove()` returns. Nobody has to stop or to continue a
project, so `Remove` and `Continue` have none. Weak fairness is enough because none
of these is disabled again by another before it is taken, except by the end of
the dispatcher.

### Runs

| Run | Properties | What it shows |
|---|---|---|
| `branch` | `AtMostOnce`, `DependencyOrder`, `Complete`, `OneBranch`, `Verdict` | an `if` with a sub-workflow on each side, a chain of stepjobs that feeds a storage, a disabled task: in every interleaving nothing is started twice or too early, only the decided side is started, what is left out has a reason, the verdict fits the states |
| `body` | `Listening`, `DoneQuiet`, `JumpSkips`, `Concludes` | the body of a loop: a break racing a task whose handler may throw, a remote task the stage-out of which may fail for good, an inner loop that may fail: the dispatcher stays wakeable, is quiet once it has concluded, and every run ends |
| `continue` | `TypeOK`, `NoLostWakeup`, `NoResubmission` | a remote workflow stopped at any point and continued |

Every property has a mutant in `PROJECT.json`: a definition changed as a bug
would change it (the emission that is forgotten, the duplicate that is kept, "any
predecessor" for "all"), for which the run fails. The mutated definitions stand
beside the originals, named `Mut_...`, in this module and in the others.

### Seen

What TLC showed while the model was written, and no run keeps:

* A component whose mandatory file is missing becomes "failed" without reserving
  a dispatch; a component that waited for it and was scanned earlier in the pass
  is never looked at again, and the project hangs.
  What follows such a component alone is left out, though the other followers of a
  failed component are run.
* A remote task is "finished" in its JSON file before it becomes "stage-out"; a
  pass in between starts what needs the files, against the comment at
  `core/dispatcher.js:1487` (`FilesDelivered`, with the workflow of `continue`).
* A loop the only input file of which comes from the parent workflow is dropped
  after the first trip, as if all its dependencies were disabled (all of none).
* A continued project takes the true side of an `if` whose condition had been
  false.
* A component after both sides of an `if` waits for ever; in a continued run what
  follows a failed task may start beside the new attempt of that task; a
  component of a sub-workflow behind an `if` that takes a file from the parent is
  never initial; a viewer all of whose sources are disabled is run; a component
  after a triggered `continue` is started when another predecessor adds it again;
  a finished `break` of a continued run adds its successors; a pass goes on
  starting components after a failed task has stopped the project; a dispatcher
  may conclude in the window before "stage-out"; a task dropped from
  `runningTasks` before its `taskCompleted` event does not make the verdict
  "failed". The last is why `Verdict` is checked with tasks that succeed and
  children that fail.
* Not in the model: a rejection of `_getInputFiles` is caught outside
  `_dispatchOneComponent`, and the filter callback of `getHosts` lacks its
  `return`.

## 4. ProjectController

### Correspondence

`state` is the state in `prj.wheel.json`, `committed` the one in HEAD;
`queue` and `operation` are the operation queue (one at a time; a repeated last
entry is dropped, `cleanProject` empties it). A run is a call of
`runDispatcher()`; as nobody awaits it, its segments (`run[r]`) interleave with
the operations: `Prepare`, `Connect` or `PreparationFails`, `Register`,
`BeginRunning`, then the promise of `start()` (`start[r]`) settles: `Settles`,
`Rejects`, or by a stop; then `CheckOutcome` and `WriteOutcome` (the two halves
of `setProjectState()`), `Leave`, `Release`, `AwaitAborts`, `Close`.

`BeginStop` and `EndStop` are `stopProject()` before and after it awaits
`remove()`; it is called by the user's operation (`ForceStopped` follows) and by
the `stopOnFailure` chain of a run, which `TaskFails` feeds through the emitter, also
after `start()` has settled. `flagged` is what a dispatcher knows of failures
(`hasFailedComponent`, `hasUnknownComponent`): `ComponentFails` sets it at any time
while `start()` is pending, so a failed task's `taskCompleted` may come before the
conclusion, after it or never, and `Reason` is the state the stop of a failed task
hands over. `start()` settles with `GetState`, which goes by these flags, and then by
whether somebody called `remove()`; nothing is assumed about the order of a failure
and the end of the run.
`RunProject`, `CleanProject`, `RevertProject`, `SaveProject` are the other
operations; refusal, validation errors and the user's "cancel" are their
disjuncts that change nothing. `Crash` is the end of the process at any point and
`reconcileProjectStates()` at the next start; the server listens only after it.
git is modelled by its effect on `state` and `committed`; `ssh` stands for the
connections, executers and transferrers of the project together. The read and
the registration in `runProject()` are one step: two preparations at the same time
need an operation the client does not offer. The read-only flag, the dialogues, and which hosts a connection is for
are left out.

### Bounds

Two runs (a run and the one that continues it meet in the map, the emitter and
the connections), one waiting operation, two failures not reacted to, one
restart. In `patient` the user asks for what the client offers in the present
state, while no operation is in progress and no run is ending (`Hasty = FALSE`).

### Run

| Run | Properties | What it shows |
|---|---|---|
| `patient` | `ConnectionsKept`, `RunningIsRun`, `Released`, `FailureReported` | through runs that finish, fail, throw, are stopped, continued, cleaned, and a restart at any point: no teardown hits a dispatcher at work, "running" has a run behind it, a project at rest holds no connections, a failure the dispatcher knew of is recorded as one, and a run nobody but its own failures stopped is not recorded as stopped |

### Seen

* A project with a failed task may be recorded "finished" (`FailureSeen`, with the
  constants of `patient`). The executer writes "failed" into the task object; the pass
  in progress drops the task from `runningTasks` for that state
  (`core/dispatcher.js:365-367`), finds nothing to wait for and concludes before the
  task's `taskCompleted` (`core/dispatcher.js:243-257`) has set the flag; `runProject()`
  records "finished" (`core/projectController.js:144-146`), and the stop for the
  failed task, which the comment at `handlers/projectController.js:367-374` (issue
  1000) counts on, comes to a dispatcher that has settled. `FailureReported` is
  therefore about what the dispatcher knew when it concluded.
* A run that has passed the guard of `setProjectState()` writes its outcome over
  a "stopped" forced meanwhile (`StopWins`, with the constants of `patient`).
* After `start()` has rejected, its entry of `rootDispatchers` stays; the project
  run again remains "preparing" (`Rerunnable`, likewise).
* The stop of a failed task that finds no dispatcher any more disconnects while
  `runDeferredCleanups()`, or a user's stop that is still cancelling, needs the
  connections; with a hasty user, the stop of the previous run deletes the map
  entry and the connections of the next.
* Nothing takes a project out of "holding" (`core/startupReconciliation.js:34`).
  `handlers/projectController.js:362` compares with "unknow", and
  `jobStatusCheckFaild` is set nowhere. A stop does not discard deferred
  cleanups, and `runDeferredCleanups()` asks for the connection outside its try.

## 5. Delegation

### Correspondence

One component, of one kind, as its parent's dispatcher runs it: a workflow, a
`for`, `while` or `foreach`, or a parameter study. `disk` is its JSON file, `mem`
the object in memory; `dir[d]` is a directory (its recorded state, those of its
tasks and, as `trail`, the results found in it in the order they came); `child[d]`
is the dispatcher that runs directory `d`. `pc` is the handler: a loop goes
`_loopHandler` → `CopyTrip` or `CopyFails` → `DelegateTrip` → the child →
`TripEnds` → `EndTrip` and again, or `_loopFinalize`; a study `_PSHandler` →
`DelegateInstance` for each point → `syncComponentStateFrom` → `gatherFiles` →
`StudyEnds` → `DeleteInstances`. The index arithmetic (`forGetNextIndex`,
`foreachGetPrevIndex`, `keepLoopInstance`, ...) and the enumeration of a
parameter space (`getNthParamVec`, `getParamSize`) are operators of the same
names. `BreakTrip` pauses a child and `BreakHeard` is the event that reaches the
loop later; `Stop` pauses the children one after the other and `RemoveEnds` is the
end of `remove()`; `Crash` ends the server at any point and loses what is only in
memory; `Run` starts or continues.

### Bounds and fairness

Two tasks per directory, so that a trip can be cut in its middle; three trips at
most (a first, one between, a last; `while` decides at each); two runs; one task
that fails. The kinds are `for` up, down and with a step that misses its end,
`foreach`, `while`, each with several `keep`; studies of two and four points, one
of them deleting its instances. Failing tasks are ones the failure of which is
ignored; another stops the project, which is `Stop`. `forceOverwrite`, `skipCopy`
and files copied in part are left out. `Spec` gives weak fairness to `Step`, all
that happens without the user: handlers, children and events come to an end,
nobody has to stop, break or continue, and the server need not end.
`Unwary = FALSE` leaves out the cases in the list below that are marked (*).

### Run

`iterations` checks `LoopDelivers`, `InOrder`, `Kept`, `Whole` and `Concludes`: a
loop that was not interrupted went through its indexes once, in order, each trip
on the results of the one before; whatever was interrupted, no directory holds a
result twice or out of order; the directories kept are the ones to keep; a
workflow or a study recorded as ended is whole, also after a restart of the
server; parameter spaces are enumerated exactly.

### Seen

* An interrupted loop is recorded "running" or "stopped", never "not-started", so
  the branch at `core/dispatcher.js:810` that takes the interrupted trip up again
  is not reached, and the rest of that trip is skipped (`core/dispatcher.js:848`);
  `src/server/test/app/core/restart.js:48` tests it from a file that says
  "not-started". That is of a loop that is not itself inside another. When an outer
  loop is continued after an interruption, its next trip is copied from the interrupted
  one and set back to "not-started" as a whole (`core/dispatcher.js:934`); an inner loop
  cut in that trip is then "not-started" with its `initialized` and `currentIndex`
  (which only `_loopFinalize` deletes), and takes the branch in a trip that is not the
  one it was cut in; likewise an inner study (`core/dispatcher.js:1008-1010`,
  `1079-1098`), which then rsyncs its template over the instances it finds. Nested
  delegation, and with it the branch, is left out. With a server that ends before the trip's directory is copied the
  continued loop fails for good.
* (*) A `foreach` interrupted after its last trip starts over from its result; a
  study interrupted before its results are gathered looks finished, as
  `syncComponentStateFrom` has written the study's own file
  (`core/componentState.js:60`). A `for` interrupted between the copy of its
  result and its last write has an instance's JSON file as its own.
* (*) A `while` with `keep` 0 and no trip removes its own directory
  (`core/dispatcher.js:790`).
* A failed study with `deleteLoopInstance` that is continued skips tasks, and a
  workflow stopped in the right moment is "finished" with tasks that were not run
  (`FinishedHasRun`). `hasFaild` is never cleared. After a stop a loop may begin
  new trips until `remove()` has cleared the lists; the "break" event is emitted
  after the child has settled, and is heard late.
* A `foreach` with duplicates never ends; `keepLoopInstance` never deletes
  negative indexes; names of a study's instances may collide; axes with a negative
  step, or files without a match, do not work; the debounced write of the study's
  JSON file is not awaited; the stop that a failed nested task sets off marks the
  root dispatcher only.

## 6. TaskExecution, TaskLife and JobManager

### Correspondence

`pc[t]` is where `exec()` of a task is: `stageIn`, `register` (into the queue of
an executer), `BeginScript`/`ScriptEnds` for scripts, `BeginSubmit` and what the
submission comes to (`SubmitExceeded`, `SubmitRecoverable`, `SubmitFails`,
`NoJobID`, `Submitted`), `JobEnds`/`JobLost`, `runChecker`, `Judge`,
`DecideRetry`, `BeginStageOut`/`EndStageOut`, `Complete`. Children of a stepjob
chain are parked (`Park`) until the head's job ID is known (`HeadConfirmed`) or a
cancel signal comes (`SignalArrives`). `Notice` is the listener of a failed task's
event; `Stop`, `cancelRemoteJob`, `releaseRuntimeResources` are the stop, and
`runDeferredCleanups` what a run that was not stopped does instead.
`limit`/`original` are `maxConcurrent`/`originalMaxConcurrent`. The batch queue is
the library simple-batch-system, modelled from its use: it begins a waiting task
while fewer than `limit` are in their function, begins it again after a forced
retry or while its retry function agrees, and removes waiting tasks only.
`remoteDir[t]` is what is left of a task's remote directory.

`TaskLife` is the promise to the dispatcher (attempts are bounded, one verdict,
success takes an attempt, none missing without a stop); `LivesRight` is the
refinement.

`JobManager` is `registerJob()` for one job: two requests (`watched`, `repeat`) to
the library rwatchd, the error count, the handler of "finished" with its wait for
a second request, `getStatusCode()` for plain and bulk jobs, and the promise. The
handler has no catch: what `getStatusCode()` throws (`NoList`, `FileFails`), or the
repeated request, leaves it "dead" and the promise pending; the process goes on, as
`index.js:42` only logs the rejection.

### Bounds and fairness

`chain`: a head and a child with two places each, every outcome of a submission
but the exceeded limit, one forced retry, one retry, a stop at any point.
`sharing`: one place, five tasks in three kinds of executers, an exceeded limit.
`jobs`: bulk jobs of two sub-jobs, one tolerated error, two polls that fail, every
pair of captured values among an acceptable and another code or none; the status
command returns 0, an acceptable value or another; the scheduler has a list
`acceptableRt` or not (`listed`).
Scripts, jobs, transfers and commands end, the events of a failed task arrive, a
stop begun ends: weak fairness per task. That a job ends, and that its request is
decided, is assumed; that a job *fails to be watched* is an outcome (`JobLost`).

### Runs

| Run | Properties | What it shows |
|---|---|---|
| `sharing` | `Throttled`, `RemoteFiles`, `LivesRight` | no limit is exceeded through refused submissions, restored limits and new registrations; a directory others reach by symlinks is not cleaned under them and none is left; `TaskLife` is implemented |
| `chain` | `HeadFirst`, `Settles` | children after their head, through retries, loss and stop; no task waits for what will not come |
| `jobs` | `SuccessIsReal`, `Followed`, `Decided` | no success for a job that may still run; every job is followed and can be cancelled until it is decided; it is decided, unless the handler that has to decide it throws: the request repeated for want of output fails, the status command fails under a scheduler without `acceptableRt`, or the status file of a bulk job cannot be written |

### Seen

* A second refusal overwrites `originalMaxConcurrent` with the lowered limit; with
  one place the limit falls to 0 (`LimitPositive`; `performance.md`, section 3,
  with the constants of `sharing`), and a task waits for ever.
* A task is "failed" for a moment before its retry: the listener may stop the
  project for it (comment at `core/executerManager.js:290`), and a stop passes over
  it (`core/taskUtil.js:99`), so its retry starts after the stop (`StaysStopped`,
  with one local task and a retry).
* A head the failure of which is ignored and that fails before it has a job ID
  leaves its children waiting. A held child that is cancelled is recorded
  "failed". `forceRetry` is never cleared. A killed checker gives no value, and
  the return value of the script is used. The options of a transfer queue are
  those of the first call that made it (`core/transferManager.js`).
* When the status command of an ended job returns other than 0,
  `core/jobManager.js:112` calls `JS.acceptableRt.includes()`. SLURM and Fugaku have no
  `acceptableRt` in `db/jobScheduler.json`, nor has a plain number, which
  `design/JS.md:25` allows, an `includes`: a TypeError, and the request is
  never decided (`AlwaysDecided`, with the constants of `jobs`). The task stays
  "running" until the project is stopped. `design/JS.md:92` says of the property
  「本プロパティはオプションであり未指定でも問題無く動作する」 (optional, works without).
* `core/jobManager.js:234` looks for `maxStatusCheckError` in the settings of the
  scheduler; it is a setting of the host, so polling is not given up (`GivesUp`,
  with `MaxError = 2`). A cancelled job whose result is being asked for again is
  still polled (`CancelEnds`). The status file of a bulk job is indexed by the
  numbers of the sub-jobs while its lists start at 0 (`BulkFileRight`, with
  `Start = 1`; `core/execUtils.js:110`).

## 7. FileDelivery

### Correspondence

A producer (task or storage), two consumers, workflows root ⊃ upper ⊃ lower and
root ⊃ other; where each of the three is, and on which host, is chosen in the
initial state. `files` maps a file system, a directory and a name to data or a
link; a path is resolved on the machine that reads it, over its mounts, so the
same path may be another file elsewhere. `Recipe` is the case distinction of
`_getInputFiles()`; `deliverFilesOnRemote` and its siblings are those of
`core/deliverFile.js`; the stage-out, its
cleanup or the deferral of it, `_checkMandatoryInputFilesExist` and the warning
about missing files are the producer's and consumers' steps. `Fits` names the
cases the code can carry; `SettingsRight` those in which the host settings mean
what the manual says.

### Bounds

Hosts: two labels of one machine with two file systems, a second machine with the
same storage, one that shares a storage with the server, and the server; every
combination with `doCleanup`, `forceCopy` and `mandatory`. Both consumers are in
one workflow, the second is a task, the producer is not in `other`, links are
copied only in one workflow: the rest is symmetric or does not change the path
taken. `Follow` is applied four times: the longest chain is the consumer's link, one
in each of the workflows `lower` and `upper`, and the producer's; `Readable` is then
exact, as the links only lead up (`Leads`, section 11). The deliveries to one component are all
begun before one has ended (`Promise.allSettled`, `core/dispatcher.js:1923`), so each
reads what was there before. `MountAssumption` and `ConsumerAssumption` say that the
program's own directories are on some file system and that no consumer is called
like a workflow. A stage-in follows links (rsync -L); a copy from a remote storage that is
not there may or may not fail. Several sources of one input, globs and
directories, hpciss and gfarm are left out, and so is the dangling link
`core/deliverFile.js:58` makes on a remote host for a source that is not there: the
model makes none, and the file is missing in both.

### Run

`delivery` checks `Delivered` (where `Fits`, the file is there when and where it is
read) and `Told` (where not, no component works without its input unnoticed).

### Seen

* A file that leaves two workflows, or goes up and then down, is never delivered
  (`core/dispatcher.js:1859`). A storage, or a component on a host that shares its
  storage with the server, does not deliver over one level of workflows
  (`core/dispatcher.js:1685`); two levels work.
* A storage that takes a file from a task on the same remote host, or from a
  remote storage, looks for a copy that is not there.
* A mandatory input of a remote task that is not delivered on its own host always
  fails, as the check comes before the stage-in (`core/dispatcher.js:1606`);
  without mandatory the user is shown a message for nothing.
* Two labels of one machine need a `sharedPath` that is the other's path
  (`core/dispatcher.js:1799`); the link to a shared host is made on the source's
  host, so the documented example (`2_remotehost_screen/index.en.md:103`) is not
  delivered; a local storage has to lie under `localSharedPath`.

## 8. EditSession and Repository

### Correspondence

One user, one text file, one component with a property and a link. The client: the
editor's tab with its timer (`onFile`, `Type`, `autoSaveAll`, `closeTab`,
`saveAllFiles`), the property panel and its copy (`OpenPanel`, `ChangeProperty`,
`closeProperty`), `drawLink`, and the operations it offers
(`emitProjectOperation`). `wire` keeps the order of one connection. The server:
`pending` and `flights` are the debounced save and its flushes, by the timer and by
a run (`ReceiveSave`, `SaveTimer`, `EndFlush`); `queue`, `editing` and `enabled` the
queue of edits with its sentinel (`BeginEdit` reads, `WriteEdit` writes, `EndEdit`
settles, `SentinelRuns`); `ops` and `op` the operations (`Validate`, `CommitRun`,
`Ask`, `Answer`, `BeginReset`, `Reset`, `onSaveProject`, `onStopProject`); `runner`
the run, which writes the component as it knows it (`Progress`). `Repository` gives
working tree, index and HEAD. `meant`, `asked`, `due`, `mark` and `void` are history:
the text as the user left it, the component as the server was asked to make it, what
a run has to take, and what a reset has thrown away.

### Bounds and fairness

One change of the text, two of the property (the second is refused by validation),
two operations, one run. The user edits while the project is at rest and resets
only what has been saved (`Careless = FALSE`); the other cases are in the list.
Timers fire, messages arrive, promises settle, the user answers what he is asked;
a run need not end.

### Run

`edits` checks `RunTakesAll`, `CleanForgets`, `Saved`, `Serves`.

### Seen

With a careless user, or by reading:

* "Save all" with unsaved files may discard everything; "save selected files" calls
  back with a string and is taken for an update. A text whose save is pending (up
  to 10 s) survives a clean or a revert and is missed by a save of the project; a
  revert does not stop queued edits; edits of the panel and an old component state
  survive a clean (`src/client/src/store/index.js:156`). Closing a tab within two
  seconds loses the last keys; undo before the acknowledgement leaves the older
  text; a file opened while its save is pending shows the old text; an open tab is
  not refreshed after a reset; the editor's timer fires after the project became
  read-only.
* Edits are enabled again before the run is prepared and its dispatcher then writes
  the component it has read. An edit the client of which is gone blocks the queue;
  dropped edits and operations are never acknowledged. `cleanComponent` does not go
  through the queue.
* After a continued run HEAD holds "stopped" or "failed" and a clean returns to it
  (`1_graphview.en.md:78`); a continued run that fails to prepare is recorded
  "not-started" with finished components; a clean during "preparing" lets the run
  go on.

## 9. ComponentLinks and WorkflowGraph

### Correspondence

`json[c]` is the component file, reduced to what has to do with links, `place[c]`
where its directory is. Each edit of `core/componentOperations.js`,
`core/componentLinks.js`, `core/componentFiles.js` and `core/updateComponent.js`
that touches links is an action of the same name; edits of a project are done one
after the other, so an edit is one step. Where the code writes the same file several
times at once (`Promise.all` in `removeAllLink`, `removeAllFileLink`), the action
has every outcome of the race; where it throws half-way, what was written stays.
Left out are the name "./" a file link gets for a destination with a glob
(`core/componentLinks.js:159`) and the inputFile that is made when it is not there
(`core/componentLinks.js:292-296`, `326-330`): the user draws links between files that
are.

### Bounds

Four components (a workflow with a task inside, an `if` before it, the root) and one
more ID; two names; five edits. `Careless = FALSE` leaves out the edits of the list
below.

### Run

`links` checks `BothEnds` and `EditsGraph`, the refinement of `WorkflowGraph`. Both
are proved for all projects in `ComponentLinksProofs` (section 11).

### Seen

A component that is cut and pasted keeps its links, though the comment at
`core/componentOperations.js:542` says they are removed; `removeLink` drops
`previous` although the link of the other kind remains; `addLink` of an else-link
that is there adds a plain one; `removeAllLink` and `removeAllFileLink` lose updates
of their own races, and cannot remove a file link of the parent; removing a component
leaves its parent's `forwardTo` and `origin`, and a counterpart that is gone makes
the removal throw ever after; removing or renaming a file of the parent does not tell
the children; a copy keeps the old `forwardTo` and `origin`. Several functions of
`core/updateComponent.js` are not reached.

## 10. Validation

### Correspondence

`getCycleGraph` and `isCycleGraph` are the search of `dependencyGraphValidator.js`
with its colours; `isInitialComponent` and one operator per validator give the
report; `Validate`, `Dispatch` (a pass of `_dispatch`, its handlers to their ends)
and `Conclude` are the steps. What a component does with its settings is taken from
the code that uses them (`core/dispatcher.js`, `core/loopUtils.js`,
`core/executerManager.js`, `core/dispatchUtils.js`), not from the validators. The
settings of a kind are those the editor offers for it and the run depends on. A
stepjob is taken together with one of its stepjobTasks, the first (`head`) or a later
one, since `_dispatchTask` puts the two together.

Left out: the conditions of `break` and `continue`, which one call checks as it does
those of `if` and `while`; `hpciss` components; the validators of file names and of
`keep`, and what can be ignored; in `validateStorage`, that an error of `stat` other
than ENOENT counts as no error (`componentTypeValidator.js:68-72`); and in
`_hasDisabledDependency`, that a component with inputFiles none of which is connected
counts as one with only disabled components before it (`dispatcher.js:412-446`).

### Bounds

Two families: all graphs of two tasks, an `if` and a viewer or storage over eleven
possible links with any of three components disabled; and a line of three components
the middle one of which is a task, bulk job, stepjob, `for`, `foreach`, `if`, `while`,
storage or study with every setting of that kind (integers from -2 to 2, lists up to
three entries, each state of a file, the local host, one that supports bulk jobs, one
that supports stepjobs, one without a scheduler and one that is gone); the submit
options, the source script and the finish condition of a bulk job or stepjob vary only
where the script is a file and the job scheduler is on, and the bulk numbers only
where they are used. Deadlock is not checked: an accepted workflow may wait for ever,
which `Explained` bounds.

### Run

`accepted` checks `CycleExact`, `Explained`, `KeepsPromise`.

### Seen

* A join of a branch that was not taken and another component waits for ever, also
  after a component left out because all before it is disabled;
  `_hasDisabledDependency` is false for a disabled component without predecessors.
  A component fed by a file with a disabled `if` before it never runs. `Held` in
  `Explained` stands for these waits.
* Gray leftovers: with a cycle A⇄B and C before A, C may be reported as in the
  cycle; `CycleExact` asks only that what is reported leads into one.
* `Gap` names the settings no validator looks at (TLC finds `KeepsPromise` violated
  without them): a local task that uses a job scheduler; a `sourceScript`
  that is missing, for a task that is not connected when validated and for every bulk
  job and stepjob (`validateTask` alone calls `checkSourceScript`); a bulk job's
  parameter file, and its submit option when it repeats the option of the queue, which
  `validateTask` refuses (`taskValidator.js:39-47`) and `validateBulkjobTask` does not
  look at; a dependency that is used without a form, which becomes the text "null"
  in the submit command (`executerManager.js:124-133`); duplicates of a `foreach`; a
  component a study's target names that is gone; a remote storage path that is a file.
* The submit option the editor offers for a stepjob (`componentProperty.vue:145-151`,
  `11_Stepjob.md:37`) is used by nobody: `_dispatchTask` hands the tasks the host and
  the queue of their stepjob (`dispatcher.js:679-684`) and `exec` reads the task's own
  `submitOption`, which the editor does not offer for a stepjobTask. It is in `Gap` too.
* An "infinite loop" is reported for a `for` in the opposite direction, which ends at
  once; `isValidHostMap` uses `.some`; `arrangeComponent` throws for a stepjob with
  a chain of two and two tasks without links; a stepjob with a task that cannot run is
  reported "finished".

## 11. Proofs

Each `*Proofs` module EXTENDS the module it is about and proves its theorems for
every value of the constants that satisfies the named assumptions of that module
and the hypotheses of the theorem. A hypothesis is there because TLC, or a reading
of the code, shows the property false without it; each is said below. Every
inductive invariant was first checked by TLC as an invariant of the runs.

The proofs have one lemma per action, or per kind of step where several actions
share it (the end of a handler, a step of a task's execution, the end of a pass),
and under it one step per conjunct that the action can disturb.

### DispatcherProofs

No assumption on the shape of the graph is made anywhere: cycles are included.

* `TypeCorrect`: `Spec => []TypeOK`.
* `SchedulingInvariant`: `Spec => []Scheduling`. `Scheduling` is the inductive
  invariant of the wakeup protocol: a pass in progress has no listener; between
  passes a dispatcher that has not concluded has one; handlers are active, and
  `pendingComponents` filled, only during a scan; a task in `runningTasks` is
  executing; a removed dispatcher has concluded; and, when no mandatory file can
  be missing, a ready component among the entries put aside (or, between passes,
  in the search list) is matched by a remembered rerun, a scheduled emission, or a
  handler or task at work that will reserve one. `NoLostWakeup` alone is not
  inductive: it speaks of an idle dispatcher only, and the pass that ends must be
  known to have kept the promise.
* `NoWakeupLost`: with `MandatoryMissing = {}`, `Spec => []NoLostWakeup`. Section 3
  describes the hang without the hypothesis. `AlwaysListening`: `Spec => []Listening`.
* `QuietWhenDone`: `Spec => []DoneQuiet`, if no `break` has a mandatory inputFile
  (`BreaksNeedNoFile`: one that jumped, failed for its file in a continued run and
  was then evaluated the other way would unsay the jump that excuses what still
  runs). `QuietInv` adds to the types that a listener or a closing pass means no
  active handler (`Asleep`), that what executes is in `runningTasks` without a
  result (`Executing`), that only tasks execute (`TaskOnly`), and that a verdict
  means rest or a `break` (`SettledQuiet`).
* `BegunOnce`: `AtMostOnce` as long as the run is `Undisturbed`: the first one, not
  being stopped, in which no `break` or `continue` has jumped. In a continued run,
  after a jump, or with several stepjobs before one component, a component can be
  put into the search list again after it was begun. Hypotheses: `PlainWorkflow`
  (no stepjobs; a source follows nothing, which validation requires) and
  `JumpsNeedNoFile`. `AtMostOnce` is far from inductive: that a component is not
  begun again follows from where its entries are. `Orderly` says it: an entry still
  to be scanned is the only one of its component and its handler is idle
  (`Entries`); what was begun is in no list the dispatcher will read (`SpentGone`);
  what a begun component depends on is written and its handler has ended or finds
  the component in the list, where `_addNextComponent()` filters it out
  (`PredsWritten`); a written component rests (`WrittenRests`); a handler at work
  has been counted (`Handled`), and so has an execution (`Executed`).
* `DependenciesFirst`: `DependencyOrder` under the same hypotheses and `Remote = {}`:
  a remote task may be left at "stage-out", which is no end. It follows from
  `Orderly` and the absence of that state (`Local`).
* `OneBranchOnly`: `OneBranch` under the hypotheses of `BegunOnce`, if what follows
  an `if` follows nothing else and is neither viewer nor storage (`IfsAlone`);
  otherwise the other predecessor, or a file, starts it whatever was decided. The
  invariant (`Branched`, `IfsWritten`) says that such a component is in a list, or
  begun, only after a decision for its side, and that an `if` decides once.
* `VerdictTrue`: `Verdict` in a first run, under `JumpsNeedNoFile` and `TasksEndWell`
  (local tasks that succeed; loops, children, files, handlers may fail in every
  way). A failed task that leaves `runningTasks` before its `taskCompleted` event,
  or a stage-out that starts after the conclusion, does make the verdict untrue
  (section 3, "Seen"). `VerdictInv` ties the flags to the files (`Flagged`) and to
  the verdict (`Truthful`).
* `NotResubmitted`: `Spec /\ []AtMostOnce => NoResubmission`, if no task fails before
  its script was started (`TasksStart`) and `BreaksNeedNoFile`. This is modular: what
  it relies on is the neighbouring property, in every run and not just the first. The
  invariant (`AtWork`, `Apart`, `Kept`) says that what succeeded is good in memory and
  gets into the file before its handler could begin it from the beginning.

* `NothingForgotten`: `Complete` in a first run, for every workflow, stepjobs and loops
  included, with handlers and deliveries that may throw and a user who may stop it.
  Hypotheses: `JumpsNeedNoFile`; `Drawn` (what the editor can draw: only an `if` has an
  else side, a source, a storage and a viewer have no control links, a viewer delivers
  nothing); local tasks (a dispatcher may conclude before a stage-out, and what waited
  for its files stays behind); and `Startable`, which excludes what the code does not
  start or drops (section 3, "Seen"): a sub-workflow's component behind an `if` that is
  fed only from the parent, a loop fed only from the parent, a component fed by a file
  behind only a disabled `if`, and what follows a component that may fail for want of
  a mandatory file. TLC finds `Complete` violated on four components when any of these
  is dropped, and in a continued run, which takes the true side of a false `if`.
  `Complete` speaks of the end only. `Running` says how the dispatcher gets there:
  the file, the memory and the handler of a component agree (`Honest`); whoever is
  handed over to by a component that is over was begun or is in a list that will be
  read (`Called`), and so is who depends on nothing (`Roots`), what the list of a pass
  held (`Scanned`), and a loop between two trips (`Rounds`); a loop that is in a list
  was put there by something that is not disabled and so is not dropped (`LoopsFed`).
  When nothing is at work and the lists are empty, this is `Complete` (`NothingLeft`).

### ProjectControllerProofs

`TypeCorrect`: `Spec => []TypeOK`, for a hasty user as well. The inductive
invariant adds that an abort that waits for `remove()` still has its entry in the
chain of its run (or the count could become negative), and that a run about to
write its outcome has one (or a pending `start()` would be written as a state).

Under `~Hasty` (TLC shows `RunningIsRun` and `ConnectionsKept` false with
`Hasty = TRUE`; section 4 says how): `RunningEnds` (`RunningIsRun`), `NotCutOff`
(`ConnectionsKept`), `NothingHeld` (`Released`) and `FailuresReported`
(`FailureReported`). They share one inductive invariant, `PatientInv`: at most one
run is in progress; the recorded state goes with where it is; while its `start()`
is pending, connections and map entry are its own; a teardown under way belongs to a
run that has ended, and who has to release the connections is still to come; and
what a run settled with goes with its flag and with who stopped it. `FailuresReported`
assumes nothing of the order in which failures, their events and stops come.

### TaskExecutionProofs

Two assumptions of `TaskExecution` are used here: tasks are finitely many
(`TaskAssumption`), and what is reached by symlinks on a host is on a remote host
(`SharedAssumption`).

* `TypeCorrect`: `Spec => []TypeOK`. `LimitsHold`: `Spec => []Throttled`, from the
  counting of those in the batch function of each executer. `ChainInOrder`:
  `Spec => []HeadFirst`, by `Chained`: a child passes the gate only when a generation
  of its chain is confirmed, which needs the head's job ID.
* `ImplementsLife`: `Spec => LivesRight`, that is, `TaskExecution` implements
  `TaskLife`: initial states map to initial states, and every action of every
  executer, of the retries, the chain and the stop maps to a step of the life of one
  task or to none. It needs an invariant on where a task may be in which state.
* `DirectoriesRight`: `Spec => []RemoteFiles`, by `FilesInv`: which directories are
  deferred, and until when, with what the readers of a directory wait for.

### JobManagerProofs

`TypeCorrect`; `AlwaysFollowed`: `Spec => []Followed`; `SuccessReal`:
`Spec => []SuccessIsReal`, if a bulk job is among the possible jobs only where 1 is
not an acceptable code: `getBulkFirstCapture()` says 1 for a bulk job all of whose
sub-jobs failed, and a scheduler for which 1 is acceptable would pass it off as a
success. `Inv` says that a job has at most one follower (`OneFollower`), is open
until it settles (`OpenUntilSettled`), that a handler at work has a result in hand
(`ResultInHand`) and that a promise with value 0 goes with the output it was read
from (`Success`).

### EditSessionProofs

All theorems are for `~Careless`: section 8 lists what a careless user loses or
resurrects. `Null` is told from every record (`NullAssumption`).

* `ResetForgets`: `FairSpec => []CleanForgets`. `TextSaved`: `FairSpec => []Saved`.
  `RunStartsFromAll`: `FairSpec => RunTakesAll`. They follow from
  `SessionInvariant`: `FairSpec => []SessionInv` (`TypeCorrect` is its first part);
  fairness is not used.
* None of the three is inductive, because each speaks of the files and what will be
  written there is still on the connection, in a queue, in a timer or in somebody's
  memory. `SessionInv` has four parts. `Orders`: no edit was sent after a run or a
  reset (`Untouched`), no reset after a run (`RunsLast`), and what a reset needs at
  the start is still there when its turn comes (`ResetAlone`, `Emptied`). `Edited`:
  the sentinel is the last in the queue of edits (`SentinelLast`); once it has run
  nothing is edited until the commit (`Prepared`); what an edit, the index or the
  dispatcher has read agrees with the file (`Current`); and the file, the edit in
  hand and the queue together make what the server was asked for (`Answered`).
  `Saves`: the last save that is under way, wherever it is, holds the text as the
  user left it, or only the editor knows that text and its timer runs (`TextKept`);
  a flush that is still its save's own has written the last text received
  (`Flushed`), which is why the two flushes, the timer's and the run's, may overlap;
  a run takes the last text (`TextsTaken`). `Lives`: nothing that was reset is in
  any place that is written from: files, index, HEAD, queues, timers, the editor,
  the panel, the dispatcher (`TextsLive`, `PropsLive`).

### ComponentLinksProofs

All theorems are for `~Careless` (section 9 lists the edits that break links), for
any number of components, files and edits, and for a project that is `Sound`.
`NewProjectKept` shows that the project `createNewProject()` writes is; so is the
one of the run `links`.

* `SoundKept`: `Spec /\ Sound => []Sound`. `BothEndsKept`: `[]BothEnds` follows.
* `BothEnds` is not inductive. `removeAllLink` writes the file of a component that
  is both before and after twice, and one write is lost: `OneLink`, a component is
  linked to another by next or by else and in one direction. What is removed with a
  component is told to its siblings only: `Near` and `Children`, links join siblings
  or a component and its parent, and `Nested`, no directory lies in itself, so that a
  parent is never a sibling. `removeFileLink` takes the parent for the other end by
  `json[c].parent`: `AtHome`. Nothing is around the root: `RootAlone`.
* Links of files are treated as edges of three kinds, between siblings (`Beside`),
  to a child (`Down`) and to a parent (`Up`). `EdgesRecorded` and `EdgesFit` turn
  what the files say into the three sets; each edit changes the sets, and `NextSound`
  turns the new sets back into what the files must say.
* `EditsTheGraph`: `Spec /\ Sound => EditsGraph`, the refinement of `WorkflowGraph`
  with `Component` for its nodes and `Arrows` for its arrows: every edit draws one
  arrow, takes away arrows of one component, adds components without arrows, or
  removes components with theirs. It needs `Sound`: without it an entry at one end
  alone would vanish with the other.

### FileDeliveryProofs

* `InputKept`: `Spec => []Told`, for any labels with any settings, any mounts and any
  set of components that take the file; nothing is assumed of the settings, so it
  covers the hosts whose paths mean something else, or nothing.
* `Told` is not inductive: what a component finds was decided by earlier deliveries,
  on the links of which it depends until it ends, while others run, are cleaned up and
  deleted. A link leads only to the producer or a workflow (`Leads`), so that a
  component depends on its own directory and on theirs (`HasFrame`). Nothing is in a
  workflow's directory before it runs (`Untouched`), and a storage has no run
  directory (`NoRunDirectory`), so that what is put or deleted for one component
  cannot hit another's input. The producer and its stage-out have ended before anything that carries
  the file begins (`ProducerFirst`): its cleanup does not come after a delivery.
  `HasOrWarned` is `Told` with the states before the start: between the check of the
  inputs and the stage-in the file must stay.
* The files of the producer that are kept for those who link to it are deleted only
  when everybody has ended (`runDeferredCleanups`), when `Told` says nothing more.

### DelegationProofs

For any number of tasks, trips, instances and runs, for `~Unwary` where it is said
(section 5 lists what goes wrong in the cases marked (*)), and with the settings of
each component as validated (`ComponentAssumption`, `IsFor`, `IsForeach`, `IsAxis`:
axes that increase, or lists).

* `TypeCorrect`: `Spec => []TypeOK`. `OrderKept`: `Spec => []InOrder`. Both for
  `~Unwary` and for `foreach` lists without duplicates (`ListsDistinct`), as the
  model has one directory for each index. `InOrder` is not
  inductive: the next trip copies the results of another directory. `LoopProgress`
  says where the handler is and which trip came before, `LoopTrails` that a directory
  holds no result of an index that comes later than its own, that the copy of which a
  trip is about to be made has those of earlier trips only, and that a running trip
  has added only tasks its child is done with; `NextComesLater` and `FirstIsRun` are about the
  index arithmetic of `for`, `while` and `foreach`.
* `WorkflowsWhole`: `Spec => []WorkflowWhole`, without a hypothesis. What a child has
  left is not finished and what it failed is remembered (`ChildOfWorkflow`), so that
  each task is in the trail at most once and, when the workflow is finished, all are.
* `StudiesCover`: `Spec => []StudyCovers`, for `~Unwary` and studies whose lists name
  no value twice (`StudiesExact`; a value named twice names one instance for two
  points, and the counters count it once). `StudyBase` says which instances have been
  made and where their children are; `StudyCount` that the counters, in memory or
  recorded, are those of the instances that have ended: `CountsEnded` while instances
  run, `CountsAll` between the last end and the conclusion, `CountsRecorded` after it,
  whenever the server ended. It holds until the user stops the run.
* `EndedIsWhole`: `Spec => []Whole`, also with `SpacesAreExact`. That
  `getNthParamVec()` yields every point once is proved for any number of axes of any
  size. The two recursive functions of the enumeration are characterised by their
  equations (`RecursionExists`, `ChainUnique`), and that mixed-radix digits exist
  (`DigitsExist`) and differ is shown by a least counterexample, a set of naturals
  without a least element being empty: the induction theorems of the library have an
  operator for a parameter, this argument has none.
* `LoopsDeliver`: `Spec => []LoopDelivers`, and `InstancesAreKept`:
  `Spec => []Kept`. Both for `~Unwary` and `ListsDistinct`; the second also for
  `CountsFromZero`, no "for" with a negative index, as `keepLoopInstance()` takes a
  negative index for one without an instance (`core/loopUtils.js:107`). The list of
  all indexes is first had in closed form (`NthOf`, `TripsOf`): `OrderedOnce` says
  that a set is sorted in one way, `TripsAre` that `Indexes` is that list, `NthFacts`
  that `getNextIndex` and its likes go from one of its members to the next. The
  inductive invariants speak of a loop nobody has cut short. `Unbroken`: which trip
  the handler is at and what the counters say (`Course`), the directory that is to be
  copied is there (`LastThere`), and its trail is exactly the results of the first
  trips, or misses one if a task has failed (`Yield`). `KeptExactly`: the instances
  are the newest ones, one more while a trip is on its way. TLC checked both on the
  run's instances before they were proved; there is one lemma (`Stands...`) for each
  step.

### Only model-checked

* Liveness (`Concludes`, `Settles`, `Decided`, `Serves`) is outside the prover's
  reach, and so are the recursive operators of `Validation`.
* `JumpSkips` of `Dispatcher`: after a jump the pass goes on over the list it had, and
  another predecessor may add what follows the jump; it holds for the shapes of `body`.
* `Delivered` of `FileDelivery`: it speaks of the cases that `Fits` and `SettingsRight`
  single out, which the run enumerates over the hosts of the manual.

## 12. Not modelled

* Half of the implementation's lines is the Vue client, which draws tables, dialogues,
  trees and settings; only what it keeps of the user's changes has state that meets
  the server's (`EditSession`). This is why the map cannot cover a large share of
  all lines.
* The database of remote hosts: an array in memory, changed synchronously and
  written whole; concurrent writes may land in any order. Seen by reading: a host
  that is renamed or removed during a run makes the tasks on it local (`|| "localhost"`
  in `core/executer.js:43`); `copyHost` may name a copy like another; an update of an
  entry that is gone writes to index -1; kept connections keep old settings.
* SSH, authentication, the web API, import, export, migration, routing, uploads and
  the file browsers are I/O or have no state that interacts with a run.
* Bulk jobs and HPCI-SS components are seen as the kinds they share their handlers
  with. `_dispatchTask` and `setTaskState` may write the same file at the same time;
  the loss of one of two writes is not modelled, nor is that of `prj.wheel.json`,
  which independent handlers read, change and write (`core/projectJsonFileOperator.js:54`).
  When a handler throws, `Promise.all` lets the others of the pass go on
  (`core/dispatcher.js:357`); the code makes no promise about them. A trip the child
  of which ends "unknown" is counted as finished (`core/dispatcher.js:943`).
