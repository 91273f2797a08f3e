--------------------------- MODULE TaskExecution ---------------------------
(***************************************************************************)
(* The execution of the tasks of one project: exec() (core/executer.js)    *)
(* takes a task through the stage-in (core/transferrer.js), the executer   *)
(* of its host (core/executerManager.js) and the stage-out; a stop cancels *)
(* the tasks (core/taskUtil.js) and releases executers and connections.    *)
(*                                                                         *)
(* Nobody awaits exec(), so the segments between its awaits, one action    *)
(* each, interleave with those of the other tasks and of the stop.  There  *)
(* is one host of each kind of executer.  The batch queue of an executer   *)
(* is the library simple-batch-system: it begins a waiting task while      *)
(* fewer than "limit" of its tasks are in their function, begins a task    *)
(* again that rejects with forceRetry, or whose retry function agrees and  *)
(* which has retries left, and qdel() takes out waiting tasks only.        *)
(***************************************************************************)
EXTENDS Integers, FiniteSets

CONSTANTS
  Task,
  Kind,          \* Kind[t]: "local", "remote", "job", "webapi", "head", "child"
  After,         \* After[t]: tasks the files of which t needs
  Retry,         \* Retry[t]: property "retry", 0 if null
  DefaultRetry,  \* defaultTaskRetryCount
  Condition,     \* tasks with a retryCondition
  Checker,       \* tasks with a checker script
  Manual,        \* tasks with a condition for success of their own
  IgnoreFailure, \* tasks the failure of which does not stop the project
  Shared,        \* tasks whose output is a symlink target on the remote host
  Cleanup,       \* tasks with doCleanup
  Resumed,       \* tasks found in state "stage-out" by a continued run
  NumJob,        \* NumJob[k]: the limit configured for executers of key k
  SubmitResults, \* what the submit command may come to
  MaxForced,     \* bound: forced retries of a task
  MayStop        \* may the user stop the project?

Kinds == {"local", "remote", "job", "webapi", "head", "child"}
Keys == {"local", "remote", "job", "webapi", "step"}

ASSUME TaskAssumption == IsFiniteSet(Task)
ASSUME KindAssumption == Kind \in [Task -> Kinds]
ASSUME AfterAssumption == After \in [Task -> SUBSET Task]
ASSUME RetryAssumption == Retry \in [Task -> Nat] /\ DefaultRetry \in Nat
ASSUME SetAssumption ==
  {Condition, Checker, Manual, IgnoreFailure, Shared, Cleanup, Resumed} \subseteq SUBSET Task
ASSUME NumJobAssumption == NumJob \in [Keys -> Nat \ {0}]
ASSUME SubmitAssumption == SubmitResults \subseteq {"exceeded", "recoverable", "noID", "lost"}
ASSUME BoundAssumption == MaxForced \in Nat /\ MayStop \in BOOLEAN

OnRemote(t) == Kind[t] # "local"
IsJob(t) == Kind[t] \notin {"local", "remote"}

\* Only what a task leaves on a remote host is a target of remote symlinks.
ASSUME SharedAssumption == \A t \in Shared : OnRemote(t)

\* getExecutersKey(): the children of a chain of stepjobs have a queue of
\* their own, its head shares the one of the jobs.
getExecutersKey(t) ==
  CASE Kind[t] = "child" -> "step" [] Kind[t] = "head" -> "job" [] OTHER -> Kind[t]

\* removeExecuters() forgets the executers: a task registered after it gets a
\* new one.  1 and 2 are the executers made before and after it.
Generation == {1, 2}
Executer == Keys \X Generation
NoExecuter == <<"none", 0>>

VARIABLES
  pc,         \* pc[t]: where exec() of t is
  state,      \* state[t]: property "state" of the task object
  rt,         \* rt[t]: return value of the script or the job
  checkerRt,  \* checkerRt[t]: return value of the checker
  executer,   \* executer[t]: the executer t was submitted to
  tries,      \* tries[t]: retries the batch queue has counted
  forced,     \* forced[t]: forced retries so far
  limit,      \* limit[e]: maxConcurrent
  original,   \* original[e]: originalMaxConcurrent, 0 if deleted
  generation, \* of the executers and deferred promises in the maps
  confirmed,  \* generations the chain's head promise of which is resolved
  waitsFor,   \* waitsFor[t]: generation of the promise a child waits for
  jobID,      \* jobID[t]: does the task know a job ID?
  alive,      \* alive[t]: jobs of t in the scheduler
  remoteDir,  \* remoteDir[t]: remote working directory
  deferred,   \* tasks in deferredCleanupRegistry
  ssh,        \* are the connections of the project there?
  stop,       \* how far the end of the run has come
  killing,    \* tasks the job cancellation of which is awaited
  reported,   \* tasks the failure of which the listener is to look at
  noticed     \* has it seen a failure that stops the project?

life  == <<pc, state, rt, checkerRt>>
batch == <<executer, tries, forced, limit, original>>
chain == <<confirmed, waitsFor>>
jobs  == <<jobID, alive>>
files == <<remoteDir, deferred>>
run   == <<generation, ssh, stop, killing>>
told  == <<reported, noticed>>
vars  == <<life, batch, chain, jobs, files, run, told>>

\* In the function the batch queue calls, exec of the Executer's SBS.
InBatch == {"held", "signalled", "submitting", "job", "script", "checking",
            "judging", "retrying"}
Places == InBatch \union {"none", "stage-in", "register", "waiting", "settled",
                          "stage-out", "delivered", "completed", "withdrawn"}
States == {"not-started", "stage-in", "waiting", "running", "finished", "failed", "stage-out"}

TypeOK ==
  /\ pc \in [Task -> Places]
  /\ state \in [Task -> States]
  /\ rt \in [Task -> {"0", "1", "null"}] /\ checkerRt \in [Task -> {"0", "1", "null"}]
  /\ executer \in [Task -> Executer \union {NoExecuter}]
  /\ tries \in [Task -> Nat] /\ forced \in [Task -> Nat]
  /\ limit \in [Executer -> Int] /\ original \in [Executer -> Int]
  /\ generation \in Generation
  /\ confirmed \subseteq Generation /\ waitsFor \in [Task -> Generation]
  /\ jobID \in [Task -> BOOLEAN] /\ alive \in [Task -> Nat]
  /\ remoteDir \in [Task -> {"none", "full", "partial", "gone", "uncleaned"}]
  /\ deferred \subseteq Task
  /\ ssh \in BOOLEAN /\ noticed \in BOOLEAN
  /\ stop \in {"no", "cancelling", "stuck", "cleaned", "released"}
  /\ killing \subseteq Task /\ reported \subseteq Task

Init ==
  /\ pc = [t \in Task |-> "none"]
  /\ state = [t \in Task |-> IF t \in Resumed THEN "stage-out" ELSE "not-started"]
  /\ rt = [t \in Task |-> "null"] /\ checkerRt = [t \in Task |-> "null"]
  /\ executer = [t \in Task |-> NoExecuter]
  /\ tries = [t \in Task |-> 0] /\ forced = [t \in Task |-> 0]
  /\ limit = [e \in Executer |-> NumJob[e[1]]]
  /\ original = [e \in Executer |-> 0]
  /\ generation = 1
  /\ confirmed = {} /\ waitsFor = [t \in Task |-> 1]
  /\ jobID = [t \in Task |-> FALSE] /\ alive = [t \in Task |-> 0]
  /\ remoteDir = [t \in Task |-> IF t \in Resumed THEN "full" ELSE "none"]
  /\ deferred = {}
  /\ ssh = TRUE /\ stop = "no" /\ killing = {} /\ reported = {} /\ noticed = FALSE

GoTo(t, p) == pc' = [pc EXCEPT ![t] = p]

\* setTaskState(): the listener of the run hears of every state, and reacts to
\* "failed".
setTaskState(t, s) ==
  /\ state' = [state EXCEPT ![t] = s]
  /\ reported' = IF s = "failed" THEN reported \union {t} ELSE reported
  /\ UNCHANGED noticed

Silent == UNCHANGED <<state, told>>
KeepRun == UNCHANGED run
Same == UNCHANGED <<batch, chain, jobs, files>> /\ KeepRun

-----------------------------------------------------------------------------
(* exec(), execStageOut(), stageIn().                                      *)

\* register(), submit().  The limit of an executer is set anew with every task.
Enqueue(t) ==
  LET e == <<getExecutersKey(t), generation>> IN
  /\ executer' = [executer EXCEPT ![t] = e]
  /\ limit' = [limit EXCEPT ![e] = NumJob[e[1]]]
  /\ GoTo(t, "waiting") /\ state' = [state EXCEPT ![t] = "waiting"]

\* The dispatcher hands over a task whose inputs are there.
exec(t) ==
  /\ pc[t] = "none" /\ stop = "no"
  /\ \A p \in After[t] : pc[p] = "completed" /\ state[p] = "finished"
  /\ IF OnRemote(t)
     THEN /\ IF t \in Resumed
             THEN GoTo(t, "settled") /\ state' = [state EXCEPT ![t] = "finished"]
             ELSE GoTo(t, "stage-in") /\ state' = [state EXCEPT ![t] = "stage-in"]
          /\ UNCHANGED <<executer, limit>>
     ELSE Enqueue(t)
  /\ UNCHANGED <<rt, checkerRt, told, tries, forced, original, chain, jobs, files>> /\ KeepRun

stageIn(t) ==
  /\ pc[t] = "stage-in"
  /\ \/ /\ ssh
        /\ GoTo(t, "register") /\ Silent
        /\ remoteDir' = [remoteDir EXCEPT ![t] = "full"]
     \/ GoTo(t, "settled") /\ setTaskState(t, "failed") /\ UNCHANGED remoteDir
  /\ UNCHANGED <<rt, checkerRt, batch, chain, jobs, deferred>> /\ KeepRun

-----------------------------------------------------------------------------
(* The batch queue of an executer.                                         *)

\* getSshHostinfo() throws when the connections are gone.
register(t) ==
  /\ pc[t] = "register"
  /\ IF ssh THEN Enqueue(t)
            ELSE GoTo(t, "settled") /\ UNCHANGED <<state, executer, limit>>
  /\ UNCHANGED <<told, rt, checkerRt, tries, forced, original, chain, jobs, files>>
  /\ KeepRun

Running(e) == {t \in Task : executer[t] = e /\ pc[t] \in InBatch}

\* mutant: the batch queue has no limit
Mut_NoLimit(t) == pc[t] = "waiting"

CanBegin(t) ==
  /\ pc[t] = "waiting"
  /\ \/ executer[t][1] = "step"
     \/ Cardinality(Running(executer[t])) < limit[executer[t]]

retryBound(t) == IF Retry[t] > 0 THEN Retry[t] ELSE DefaultRetry

\* needsRetry(): a retryCondition may decide either way each time it is asked.
needsRetry(t) == IF t \in Condition THEN BOOLEAN ELSE {Retry[t] > 0}

\* mutant: one retry too many
Mut_RetryOnceMore(t) ==
  \/ /\ TRUE \in needsRetry(t) /\ tries[t] <= retryBound(t)
     /\ tries' = [tries EXCEPT ![t] = @ + 1]
     /\ GoTo(t, "waiting")
  \/ /\ FALSE \in needsRetry(t) \/ tries[t] > retryBound(t)
     /\ GoTo(t, "settled") /\ UNCHANGED tries

\* The batch queue after a rejection.
RetryOrSettle(t) ==
  \/ /\ TRUE \in needsRetry(t) /\ tries[t] < retryBound(t)
     /\ tries' = [tries EXCEPT ![t] = @ + 1]
     /\ GoTo(t, "waiting")
  \/ /\ FALSE \in needsRetry(t) \/ tries[t] >= retryBound(t)
     /\ GoTo(t, "settled") /\ UNCHANGED tries

\* exec() of an executer rejects: "failed" is recorded, retried or not.
Rejected(t) ==
  /\ setTaskState(t, "failed")
  /\ RetryOrSettle(t)
  /\ UNCHANGED <<rt, checkerRt, executer, forced>>

\* It rejects with forceRetry, which no count limits.
ForcedRetry(t) ==
  /\ forced[t] < MaxForced
  /\ forced' = [forced EXCEPT ![t] = @ + 1]
  /\ setTaskState(t, "failed")
  /\ GoTo(t, "waiting")
  /\ UNCHANGED <<rt, checkerRt, executer, tries>>

\* It resolves.  A task a stop has reset is left alone.
Resolved(t, v) ==
  /\ rt' = [rt EXCEPT ![t] = v]
  /\ GoTo(t, IF state[t] = "not-started" THEN "settled"
             ELSE IF t \in Checker THEN "checking" ELSE "judging")
  /\ Silent /\ UNCHANGED <<checkerRt, executer, tries, forced>>

-----------------------------------------------------------------------------
(* LocalTaskExecuter, RemoteTaskExecuter.                                  *)

BeginScript(t) ==
  /\ CanBegin(t) /\ ~IsJob(t)
  /\ GoTo(t, "script") /\ setTaskState(t, "running")
  /\ UNCHANGED <<rt, checkerRt>> /\ Same

\* A script that is killed has no return value.
ScriptEnds(t) ==
  /\ pc[t] = "script"
  /\ \/ /\ OnRemote(t) => ssh
        /\ \E v \in {"0", "1"} \union (IF stop = "no" THEN {} ELSE {"null"}) : Resolved(t, v)
     \/ Rejected(t)
  /\ UNCHANGED <<limit, original, chain, jobs, files>> /\ KeepRun

-----------------------------------------------------------------------------
(* RemoteJobExecuter, RemoteJobWebAPIExecuter, StepjobTaskExecuter.        *)

\* mutant: the child does not wait
Mut_ParkNowhere(t) ==
  /\ CanBegin(t) /\ Kind[t] = "child"
  /\ GoTo(t, "submitting") /\ setTaskState(t, "running")
  /\ UNCHANGED <<waitsFor, rt, checkerRt, batch, confirmed, jobs, files>> /\ KeepRun

\* A child waits until the job ID of the head of its chain is known.
Park(t) ==
  /\ CanBegin(t) /\ Kind[t] = "child"
  /\ GoTo(t, "held") /\ Silent
  /\ waitsFor' = [waitsFor EXCEPT ![t] = generation]
  /\ UNCHANGED <<rt, checkerRt, batch, confirmed, jobs, files>> /\ KeepRun

HeadConfirmed(t) ==
  /\ pc[t] = "held" /\ waitsFor[t] \in confirmed
  /\ GoTo(t, "submitting") /\ setTaskState(t, "running")
  /\ UNCHANGED <<rt, checkerRt>> /\ Same

\* The web API is asked before the state is set.
BeginSubmit(t) ==
  /\ CanBegin(t) /\ IsJob(t) /\ Kind[t] # "child"
  /\ GoTo(t, "submitting")
  /\ IF Kind[t] = "webapi" THEN Silent ELSE setTaskState(t, "running")
  /\ UNCHANGED <<rt, checkerRt>> /\ Same

SubmitExceeded(t) ==
  /\ pc[t] = "submitting" /\ "exceeded" \in SubmitResults
  /\ ForcedRetry(t)
  /\ original' = [original EXCEPT ![executer[t]] = limit[executer[t]]]
  /\ limit' = [limit EXCEPT ![executer[t]] = @ - 1]
  /\ UNCHANGED <<chain, jobs, files>> /\ KeepRun

SubmitRecoverable(t) ==
  /\ pc[t] = "submitting" /\ Kind[t] # "webapi" /\ "recoverable" \in SubmitResults
  /\ ForcedRetry(t)
  /\ UNCHANGED <<limit, original, chain, jobs, files>> /\ KeepRun

SubmitFails(t) ==
  /\ pc[t] = "submitting"
  /\ Rejected(t)
  /\ UNCHANGED <<limit, original, chain, jobs, files>> /\ KeepRun

\* A submission that succeeds gives back one place of a reduced limit.
RestoreLimit(e) ==
  LET raised == IF original[e] # 0 /\ original[e] > limit[e] THEN limit[e] + 1 ELSE limit[e]
  IN  /\ limit' = [limit EXCEPT ![e] = raised]
      /\ original' = [original EXCEPT ![e] = IF @ = raised THEN 0 ELSE @]

\* The job is accepted, but no job ID is found in the output.
NoJobID(t) ==
  /\ pc[t] = "submitting" /\ ssh /\ "noID" \in SubmitResults
  /\ RestoreLimit(executer[t])
  /\ alive' = [alive EXCEPT ![t] = @ + 1]
  /\ Rejected(t)
  /\ UNCHANGED <<chain, jobID, files>> /\ KeepRun

\* mutant: the children of the chain are not told
Mut_HeadSilent(t) ==
  /\ pc[t] = "submitting" /\ ssh
  /\ RestoreLimit(executer[t])
  /\ alive' = [alive EXCEPT ![t] = @ + 1]
  /\ jobID' = [jobID EXCEPT ![t] = TRUE]
  /\ GoTo(t, "job")
  /\ IF Kind[t] = "webapi" THEN setTaskState(t, "running") ELSE Silent
  /\ UNCHANGED <<rt, checkerRt, executer, tries, forced, chain, files>> /\ KeepRun

Submitted(t) ==
  /\ pc[t] = "submitting" /\ ssh
  /\ RestoreLimit(executer[t])
  /\ alive' = [alive EXCEPT ![t] = @ + 1]
  /\ jobID' = [jobID EXCEPT ![t] = TRUE]
  /\ confirmed' = confirmed \union (IF Kind[t] = "head" THEN {generation} ELSE {})
  /\ GoTo(t, "job")
  /\ IF Kind[t] = "webapi" THEN setTaskState(t, "running") ELSE Silent
  /\ UNCHANGED <<rt, checkerRt, executer, tries, forced, waitsFor, files>> /\ KeepRun

\* The promise of registerJob(): see module JobManager.
JobEnds(t) ==
  /\ pc[t] = "job"
  /\ alive' = [alive EXCEPT ![t] = @ - 1]
  /\ \/ \E v \in {"0", "1"} : Resolved(t, v)
     \/ Rejected(t)
  /\ UNCHANGED <<limit, original, chain, jobID, files>> /\ KeepRun

JobLost(t) ==
  /\ pc[t] = "job" /\ "lost" \in SubmitResults
  /\ Rejected(t)
  /\ UNCHANGED <<limit, original, chain, jobs, files>> /\ KeepRun

\* A child that was cancelled while it waited for the head.
SignalArrives(t) ==
  /\ pc[t] = "signalled"
  /\ Rejected(t)
  /\ UNCHANGED <<limit, original, chain, jobs, files>> /\ KeepRun

-----------------------------------------------------------------------------
(* The verdict.                                                            *)

\* A checker that cannot be run, or is killed by a stop, has no return value.
runChecker(t) ==
  /\ pc[t] = "checking"
  /\ \E v \in {"0", "1", "null"} : checkerRt' = [checkerRt EXCEPT ![t] = v]
  /\ GoTo(t, "judging")
  /\ UNCHANGED rt /\ Silent /\ Same

FinishStates(t) ==
  CASE t \in Checker /\ checkerRt[t] # "null" -> {IF checkerRt[t] = "0" THEN "finished" ELSE "failed"}
    [] t \in Manual /\ ~(t \in Checker /\ checkerRt[t] # "null") -> {"finished", "failed"}
    [] OTHER -> {IF rt[t] = "0" THEN "finished" ELSE "failed"}

\* A failure that may be retried is not recorded yet.
Judge(t) ==
  /\ pc[t] = "judging"
  /\ \/ \E s \in FinishStates(t) :
          /\ s = "failed" => FALSE \in needsRetry(t)
          /\ GoTo(t, "settled") /\ setTaskState(t, s)
     \/ /\ "failed" \in FinishStates(t) /\ TRUE \in needsRetry(t)
        /\ GoTo(t, "retrying") /\ Silent
  /\ UNCHANGED <<rt, checkerRt>> /\ Same

\* The batch queue asks again; submit() records the failure in the end.
DecideRetry(t) ==
  /\ pc[t] = "retrying"
  /\ RetryOrSettle(t)
  /\ IF pc'[t] = "settled" THEN setTaskState(t, "failed") ELSE Silent
  /\ UNCHANGED <<rt, checkerRt, executer, forced, limit, original, chain, jobs, files>>
  /\ KeepRun

-----------------------------------------------------------------------------
(* stageOut() and the end of exec().                                       *)

BeginStageOut(t) ==
  /\ pc[t] = "settled" /\ OnRemote(t) /\ state[t] = "finished"
  /\ GoTo(t, "stage-out") /\ setTaskState(t, "stage-out")
  /\ UNCHANGED <<rt, checkerRt>> /\ Same

\* mutant: symlink targets are removed with the rest
Mut_CleanUpAll(t) ==
  /\ remoteDir' = [remoteDir EXCEPT ![t] = "gone"]
  /\ UNCHANGED deferred

\* What other tasks reach by symlinks is kept and left to the end of the run; a
\* cleanup that fails is not tried again.
CleanUpRemote(t) ==
  \/ /\ t \in Shared
     /\ remoteDir' = [remoteDir EXCEPT ![t] = "partial"]
     /\ deferred' = deferred \union {t}
  \/ /\ t \notin Shared
     /\ remoteDir' = [remoteDir EXCEPT ![t] = "gone"]
     /\ UNCHANGED deferred
  \/ /\ remoteDir' = [remoteDir EXCEPT ![t] = "uncleaned"]
     /\ UNCHANGED deferred

EndStageOut(t) ==
  /\ pc[t] = "stage-out"
  /\ GoTo(t, "delivered")
  /\ \/ /\ ssh
        /\ setTaskState(t, "finished")
        /\ IF t \in Cleanup THEN CleanUpRemote(t) ELSE UNCHANGED files
     \/ Silent /\ UNCHANGED files
  /\ UNCHANGED <<rt, checkerRt, batch, chain, jobs>> /\ KeepRun

\* "taskCompleted" is emitted whatever happened.
Complete(t) ==
  /\ \/ pc[t] = "delivered"
     \/ pc[t] = "settled" /\ ~(OnRemote(t) /\ state[t] = "finished")
  /\ GoTo(t, "completed")
  /\ UNCHANGED <<rt, checkerRt>> /\ Silent /\ Same

-----------------------------------------------------------------------------
(* Stop and end of the run.                                                *)

Dispatched == {t \in Task : pc[t] \notin {"none", "completed", "withdrawn"}}

\* cancelDispatchedTasks(): qdel() takes a waiting task out of its queue, and
\* its promise never settles; a child that waits for its head is signalled; of
\* the others, jobs with a known ID are cancelled.
Cancelled == {t \in Dispatched : state[t] \notin {"finished", "failed", "stage-out"}}

\* stopOnFailure: what counts is the state when its turn comes.
Notice(t) ==
  /\ t \in reported /\ reported' = reported \ {t}
  /\ noticed' = (noticed \/ (state[t] = "failed" /\ t \notin IgnoreFailure))
  /\ UNCHANGED <<life, batch, chain, jobs, files, run>>

Stop ==
  /\ stop = "no" /\ (MayStop \/ noticed)
  /\ \E t \in Task : pc[t] # "none"
  /\ stop' = "cancelling"
  /\ state' = [t \in Task |-> IF t \in Cancelled THEN "not-started" ELSE state[t]]
  /\ pc' = [t \in Task |->
       IF t \in Cancelled /\ pc[t] = "waiting" THEN "withdrawn"
       ELSE IF t \in Cancelled /\ pc[t] = "held" THEN "signalled" ELSE pc[t]]
  /\ killing' = {t \in Cancelled : pc[t] # "waiting" /\ IsJob(t) /\ jobID[t]}
  /\ UNCHANGED <<rt, checkerRt, batch, chain, jobs, files, generation, ssh, told>>

\* cancelRemoteJob(): the status check ends only with a job that is cancelled;
\* an error is handed on to stopProject().
cancelRemoteJob(t) ==
  /\ t \in killing /\ stop = "cancelling"
  /\ killing' = killing \ {t}
  /\ \/ /\ pc[t] = "job" /\ Resolved(t, "null")
        /\ alive' = [alive EXCEPT ![t] = @ - 1]
        /\ UNCHANGED stop
     \/ /\ pc[t] # "job"
        /\ \E n \in {alive[t], alive[t] - 1} \cap Nat : alive' = [alive EXCEPT ![t] = n]
        /\ UNCHANGED <<life, executer, tries, forced, told, stop>>
     \/ stop' = "stuck" /\ UNCHANGED <<life, alive, executer, tries, forced, told>>
  /\ UNCHANGED <<limit, original, chain, jobID, files, generation, ssh>>

\* All that was dispatched has completed, and nothing more can be.
RunIsOver ==
  /\ \A t \in Task : pc[t] \in {"none", "completed"}
  /\ \A t \in Task : pc[t] = "none" =>
       \E p \in After[t] : ~(pc[p] = "completed" /\ state[p] = "finished")

\* runProject() after a run that was not stopped: runDeferredCleanups() ...
runDeferredCleanups ==
  /\ stop = "no" /\ RunIsOver
  /\ stop' = "cleaned"
  /\ \E F \in SUBSET deferred :
       remoteDir' = [t \in Task |-> IF t \in F THEN "uncleaned"
                                   ELSE IF t \in deferred THEN "gone" ELSE remoteDir[t]]
  /\ deferred' = {}
  /\ UNCHANGED <<life, batch, chain, jobs, generation, ssh, killing, told>>

\* ... and, after it or the cancellations, releaseRuntimeResources().
releaseRuntimeResources ==
  /\ stop = "cleaned" \/ (stop = "cancelling" /\ killing = {})
  /\ stop' = "released"
  /\ ssh' = FALSE /\ generation' = 2
  /\ UNCHANGED <<life, batch, chain, jobs, files, killing, told>>

-----------------------------------------------------------------------------
Step(t) ==
  \/ stageIn(t) \/ register(t)
  \/ BeginScript(t) \/ ScriptEnds(t)
  \/ Park(t) \/ HeadConfirmed(t) \/ SignalArrives(t)
  \/ BeginSubmit(t) \/ SubmitExceeded(t) \/ SubmitRecoverable(t)
  \/ SubmitFails(t) \/ NoJobID(t) \/ Submitted(t)
  \/ JobEnds(t) \/ JobLost(t)
  \/ runChecker(t) \/ Judge(t) \/ DecideRetry(t)
  \/ BeginStageOut(t) \/ EndStageOut(t) \/ Complete(t)

End == (\E t \in Task : cancelRemoteJob(t)) \/ runDeferredCleanups \/ releaseRuntimeResources

Next ==
  \/ \E t \in Task : exec(t) \/ Step(t) \/ Notice(t)
  \/ Stop
  \/ End

\* Scripts, jobs, transfers and commands end; a failure stops the project; no
\* user has to.
Fairness ==
  /\ \A t \in Task : WF_vars(exec(t)) /\ WF_vars(Step(t)) /\ WF_vars(Notice(t))
  /\ WF_vars(noticed /\ Stop)
  /\ WF_vars(End)

Spec == Init /\ [][Next]_vars
FairSpec == Spec /\ Fairness

-----------------------------------------------------------------------------
(* Properties.                                                             *)

\* No host gets more than it is configured for, however often its limit was
\* reduced, restored and set anew: the children of a chain excepted, which wait
\* in the scheduler (performance.md, section 3).
Throttled ==
  \A e \in Executer : e[1] # "step" =>
    /\ Cardinality(Running(e)) <= NumJob[e[1]]
    /\ limit[e] <= NumJob[e[1]] /\ original[e] <= NumJob[e[1]]

\* A child of a chain of stepjobs is submitted after its head has a job ID,
\* through retries and through a stop (RemoteJobExecuter.exec).
HeadFirst ==
  \A t \in Task : Kind[t] = "child" /\ pc[t] \in {"submitting", "job"} =>
    \E h \in Task : Kind[h] = "head" /\ jobID[h]

\* Files other tasks reach by symlinks are there as long as a task that needs
\* them may be executing (stageOut, getRemoteSymlinkOutputNames).
SharedKept ==
  \A t \in Task : pc[t] \in InBatch \union {"stage-in", "waiting"} =>
    \A p \in After[t] \cap Shared : remoteDir[p] \in {"full", "partial", "uncleaned"}

\* When a run that was not stopped releases its connections, nothing is left of
\* the remote directories of the tasks that finished and are to be cleaned up,
\* unless the command failed.
NothingLeft ==
  stop = "cleaned" =>
    /\ deferred = {}
    /\ \A t \in Cleanup : OnRemote(t) /\ state[t] = "finished" =>
         remoteDir[t] \in {"gone", "uncleaned"}

\* The remote directory of a task is removed neither too early nor never.
RemoteFiles == SharedKept /\ NothingLeft

\* What the dispatcher relies on.
Life == INSTANCE TaskLife WITH
  MaxRetry <- [t \in Task |-> retryBound(t)],
  Executed <- Resumed,
  attempts <- [t \in Task |-> IF executer[t] = NoExecuter THEN 0 ELSE tries[t] + 1],
  verdict <- [t \in Task |->
    CASE pc[t] = "withdrawn" -> "withdrawn"
      [] pc[t] = "completed" ->
           (CASE state[t] \in {"finished", "stage-out"} -> "succeeded"
              [] state[t] = "failed" -> "failed"
              [] OTHER -> "withdrawn")
      [] OTHER -> "none"],
  stopped <- stop \notin {"no", "cleaned"}

\* Every task has a number of attempts, one verdict, and one without a verdict
\* is so because of a stop.
LivesRight == Life!Spec

\* Every task that was dispatched completes, or the project is stopped: no task
\* waits for a place, a job or a head that will not come.
Settles ==
  \A t \in Task : (pc[t] # "none") ~> (pc[t] = "completed" \/ stop # "no")

-----------------------------------------------------------------------------
(* What the documents or the code's comments ask for and the code does not  *)
(* keep: no run checks it, README.md says how it fails.                     *)

\* Once a stop has cancelled the tasks and released the executers, no script is
\* begun on this host and no job is submitted (1_graphview.en.md, "stop project").
StaysStopped ==
  [][stop = "released" => \A t \in Task :
       /\ Kind[t] = "local" /\ pc'[t] = "script" => pc[t] = "script"
       /\ alive'[t] <= alive[t]]_vars

\* The limit of an executer never falls below 1 (performance.md, section 3).
LimitPositive == \A e \in Executer : limit[e] >= 1

=============================================================================
