----------------------------- MODULE JobManager -----------------------------
(***************************************************************************)
(* core/jobManager.js: registerJob() watches one job of a batch system.    *)
(*                                                                         *)
(* The library rwatchd runs the status command of a request at intervals.  *)
(* It emits "checked" with the return value of the command; "finished",    *)
(* after the command that asks for the result (statAfter), once the output *)
(* no longer shows the job; "failed" when a command cannot be run at all.  *)
(* The promise of registerJob() settles at the first of its resolve() and  *)
(* reject(); the task keeps what getStatusCode() found.                    *)
(***************************************************************************)
EXTENDS Integers, Sequences, FiniteSets

CONSTANTS
  Bulk,          \* may the task be, or not be, a bulkjobTask?
  Start,         \* startBulkNumber
  Width,         \* number of sub-jobs
  Codes,         \* captures of a return or status code, as numbers
  Acceptable,    \* acceptableJobStatus
  Listed,        \* may the scheduler's settings have acceptableRt, or not have it?
  AcceptableRt,  \* acceptableRt, of the status command, where they have it
  CommandRt,     \* return values of the status command
  MaxError,      \* maxStatusCheckError of the job scheduler, NoLimit if it has none
  HostMaxError,  \* maxStatusCheckError of the host
  MaxPoll        \* bound: polls that fail

NoLimit == -1
Null == -3 \* no capture, no value

ASSUME BulkAssumption ==
  Bulk \subseteq BOOLEAN /\ Listed \subseteq BOOLEAN /\ Start \in Nat /\ Width \in Nat \ {0}
ASSUME CodesAssumption ==
  Codes \subseteq Nat /\ Acceptable \subseteq Nat /\ AcceptableRt \subseteq Nat \ {0}
  /\ CommandRt \subseteq Nat
ASSUME LimitAssumption ==
  MaxError \in Nat \union {NoLimit} /\ HostMaxError \in Nat /\ MaxPoll \in Nat

\* What statAfter may print: a pair of captures, or one per sub-job.  Lines of
\* sub-jobs that are not there yet are missing.
Capture == Codes \union {Null}
SubOutputs == UNION {[1..n -> Codes] : n \in 0..Width}
VARIABLES
  bulk,    \* is the task a bulkjobTask?
  listed,  \* have the scheduler's settings acceptableRt?
  active,  \* is the job in the queue of the scheduler?
  watched, \* is the first request polled?
  repeat,  \* is the second one?
  errors,  \* statusCheckErrorCount
  handler, \* the "finished" handler: "idle", "repeating", "judged", "dead"
  output,  \* what it works on, NoOutput before
  cancel,  \* does the task have jobManagerCancel?
  promise, \* of registerJob()
  task     \* rt and jobStatus of the task

vars == <<bulk, listed, active, watched, repeat, errors, handler, output, cancel, promise, task>>

Outputs ==
  IF bulk THEN [rt : CommandRt, status : SubOutputs, code : SubOutputs]
          ELSE [rt : CommandRt, status : Capture, code : Capture]
NoOutput ==
  LET none == IF bulk THEN <<>> ELSE Null
  IN  [rt |-> Null, status |-> none, code |-> none]

Pending == [state |-> "pending", value |-> Null]
Value == Codes \union {-2, 0, 1, Null}

TypeOK ==
  /\ bulk \in Bulk /\ listed \in Listed
  /\ active \in BOOLEAN /\ watched \in BOOLEAN /\ repeat \in BOOLEAN /\ cancel \in BOOLEAN
  /\ errors \in 0..MaxPoll
  /\ handler \in {"idle", "repeating", "judged", "dead"}
  /\ output \in Outputs \union {NoOutput}
  /\ promise \in [state : {"pending", "resolved", "rejected"}, value : Value]
  /\ task \in [rt : Value, jobStatus : Value]

\* registerJob() itself.
Init ==
  /\ bulk \in Bulk /\ listed \in Listed
  /\ active = TRUE /\ watched = TRUE /\ repeat = FALSE
  /\ errors = 0 /\ handler = "idle" /\ output = NoOutput /\ cancel = TRUE
  /\ promise = Pending
  /\ task = [rt |-> Null, jobStatus |-> Null]

\* Only the first call of resolve() or reject() counts.
Settle(s, v) ==
  promise' = IF promise = Pending THEN [state |-> s, value |-> v] ELSE promise

-----------------------------------------------------------------------------
(* getStatusCode() and what it is made of.                                 *)

isJobFailed(code) == code \notin Acceptable

\* getBulkFirstCapture(): failed if every sub-job is; so no line is a failure.
BulkResult(codes) == IF \A i \in DOMAIN codes : codes[i] # 0 THEN 1 ELSE 0

JobStatus(o) ==
  IF bulk THEN BulkResult(o.status) ELSE IF o.status = Null THEN -2 ELSE o.status

\* JS.acceptableRt.includes(): a TypeError where the settings have none.
NoList(o) == o.rt # 0 /\ ~listed

\* createBulkStatusFile() may fail to write its file.
FileFails(o) == bulk /\ o.rt = 0

\* What is returned when nothing is thrown.
StatusCode(o) ==
  LET code == IF bulk THEN BulkResult(o.code) ELSE o.code
  IN  IF o.rt # 0 THEN IF o.rt \in AcceptableRt THEN 0 ELSE -2
      ELSE IF code # Null THEN code
      ELSE IF isJobFailed(JobStatus(o)) THEN 1 ELSE 0

\* task.rt is left alone when the status command has failed.
getStatusCode(o) ==
  task' = [rt |-> IF o.rt # 0 THEN task.rt ELSE StatusCode(o), jobStatus |-> JobStatus(o)]

\* createBulkStatusFile(): the lists count from 0, the file from startBulkNumber.
BulkStatusFile(codes) ==
  [n \in Start..(Start + Width - 1) |-> IF n + 1 \in DOMAIN codes THEN codes[n + 1] ELSE Null]

-----------------------------------------------------------------------------
(* The job and the polling.                                                *)

JobEnds ==
  /\ active /\ active' = FALSE
  /\ UNCHANGED <<bulk, listed, watched, repeat, errors, handler, output, cancel, promise, task>>

\* mutant: the request is not deleted
Mut_CheckedFails ==
  /\ watched /\ errors < MaxPoll
  /\ errors' = errors + 1
  /\ IF MaxError # NoLimit /\ MaxError < errors + 1
     THEN cancel' = FALSE /\ Settle("rejected", Null)
     ELSE UNCHANGED <<cancel, promise>>
  /\ UNCHANGED <<bulk, listed, active, watched, repeat, handler, output, task>>

\* "checked" by a command that failed.  A comparison with a limit the scheduler
\* does not have is false; nothing resets the count.
CheckedFails ==
  /\ watched /\ errors < MaxPoll
  /\ errors' = errors + 1
  /\ IF MaxError # NoLimit /\ MaxError < errors + 1
     THEN watched' = FALSE /\ cancel' = FALSE /\ Settle("rejected", Null)
     ELSE UNCHANGED <<watched, cancel, promise>>
  /\ UNCHANGED <<bulk, listed, active, repeat, handler, output, task>>

\* "failed": the promise is rejected whatever becomes of the job.
WatchFails ==
  /\ watched /\ watched' = FALSE
  /\ cancel' = FALSE /\ Settle("rejected", Null)
  /\ UNCHANGED <<bulk, listed, active, repeat, errors, handler, output, task>>

\* The handler of "finished" up to the await after getStatusCode().  Nobody
\* catches what that throws, after it has set jobStatus.
Judged(o) ==
  /\ output' = o
  /\ \/ ~NoList(o) /\ handler' = "judged" /\ getStatusCode(o)
     \/ /\ NoList(o) \/ FileFails(o)
        /\ handler' = "dead"
        /\ task' = [task EXCEPT !.jobStatus = JobStatus(o)]

\* mutant: the job is taken for finished as soon as it is asked for
Mut_Finished ==
  /\ watched /\ watched' = FALSE
  /\ \/ \E o \in Outputs : Judged(o) /\ UNCHANGED repeat
     \/ /\ handler' = "repeating" /\ repeat' = TRUE
        /\ UNCHANGED <<output, task>>
  /\ UNCHANGED <<bulk, listed, active, errors, cancel, promise>>

\* "finished": the command is run once more if it has printed nothing.
Finished ==
  /\ watched /\ ~active
  /\ watched' = FALSE
  /\ \/ \E o \in Outputs : Judged(o) /\ UNCHANGED repeat
     \/ /\ handler' = "repeating" /\ repeat' = TRUE
        /\ UNCHANGED <<output, task>>
  /\ UNCHANGED <<bulk, listed, active, errors, cancel, promise>>

RepeatFinished ==
  /\ repeat /\ repeat' = FALSE
  /\ \E o \in Outputs : Judged(o)
  /\ UNCHANGED <<bulk, listed, active, watched, errors, cancel, promise>>

\* Nobody catches the rejection inside the handler.
RepeatFails ==
  /\ repeat
  /\ repeat' = FALSE /\ handler' = "dead"
  /\ UNCHANGED <<bulk, listed, active, watched, errors, output, cancel, promise, task>>

\* The rest of the handler.
Conclude ==
  /\ handler = "judged" /\ handler' = "idle"
  /\ cancel' = FALSE
  /\ IF isJobFailed(task.jobStatus)
     THEN Settle("rejected", task.jobStatus)
     ELSE Settle("resolved", StatusCode(output))
  /\ UNCHANGED <<bulk, listed, active, watched, repeat, errors, output, task>>

\* mutant: resolve() is forgotten
Mut_CancelUnresolved ==
  /\ cancel /\ cancel' = FALSE
  /\ watched' = FALSE
  /\ UNCHANGED <<bulk, listed, active, repeat, errors, handler, output, promise, task>>

\* cancelJobStatusCheck(), after the scheduler has deleted the job.
cancelJobStatusCheck ==
  /\ cancel /\ cancel' = FALSE
  /\ watched' = FALSE
  /\ active' = FALSE
  /\ Settle("resolved", Null)
  /\ UNCHANGED <<bulk, listed, repeat, errors, handler, output, task>>

Next ==
  \/ JobEnds
  \/ CheckedFails \/ WatchFails
  \/ Finished \/ RepeatFinished \/ RepeatFails
  \/ Conclude
  \/ cancelJobStatusCheck

\* Jobs end, and the requests of rwatchd go on as long as they are polled.
Fairness ==
  WF_vars(JobEnds) /\ WF_vars(Finished) /\ WF_vars(RepeatFinished) /\ WF_vars(Conclude)

Spec == Init /\ [][Next]_vars
FairSpec == Spec /\ Fairness

-----------------------------------------------------------------------------
(* Properties.                                                             *)

Settled == promise.state # "pending"

\* A job is reported as successful only when it has left the queue, its status
\* is acceptable, and its script has returned 0 as far as one can tell: a task
\* never counts as finished while its job may still run (registerJob).
SuccessIsReal ==
  promise.state = "resolved" /\ promise.value = 0 =>
    /\ ~active /\ output # NoOutput
    /\ IF bulk THEN \E i \in DOMAIN output.status : output.status[i] = 0
               ELSE output.status \in Acceptable
    /\ output.rt = 0 => IF bulk THEN \E i \in DOMAIN output.code : output.code[i] = 0
                                ELSE output.code \in {0, Null}
    /\ output.rt \in AcceptableRt \union {0}

\* As long as a job is undecided it is followed by somebody and can be
\* cancelled, and what can be cancelled is undecided: a stop finds every job
\* that is being watched (cancelJobStatusCheck).
Cancellable ==
  /\ cancel <=> ~Settled
  /\ handler # "dead" /\ ~Settled => watched \/ repeat \/ handler = "judged"

\* A rejection that is not the job's own comes from a scheduler that cannot be
\* asked any more; nobody goes on asking then.
NotAskedAgain == promise.state = "rejected" => ~watched /\ ~repeat

\* A job is followed and can be cancelled until it is decided, and no longer.
Followed == Cancellable /\ NotAskedAgain

\* The handler of "finished" has thrown: the command that asks for the result
\* printed nothing and then could not be run again, or returned something else
\* than 0 under a scheduler without acceptableRt, or the status file of a bulk job
\* could not be written.
LeftAlone ==
  /\ handler = "dead"
  /\ output = NoOutput \/ NoList(output) \/ FileFails(output)

\* Every job that is watched gets its verdict, unless the handler that has to
\* give it has thrown, in one of the three cases.
Decided == <>(Settled \/ LeftAlone)

-----------------------------------------------------------------------------
(* What the documents or the code's comments ask for and the code does not  *)
(* keep: no run checks it, README.md says how it fails.                     *)

\* acceptableRt is optional (design/JS.md): every job gets its verdict without it.
AlwaysDecided == ~bulk => <>(Settled \/ (handler = "dead" /\ output = NoOutput))

\* A bulk job's status file names every sub-job's own code.
BulkFileRight ==
  bulk /\ output # NoOutput /\ Len(output.code) = Width =>
    \A i \in 1..Width : BulkStatusFile(output.code)[Start + i - 1] = output.code[i]

\* A job the status of which cannot be had more often than its host tolerates
\* is given up (APIGuide.md, maxStatusCheckError).
GivesUp == errors > HostMaxError => Settled

\* Nobody asks for the status of a job that was cancelled (cancelJobStatusCheck).
CancelEnds == Settled => ~watched /\ ~repeat

=============================================================================
