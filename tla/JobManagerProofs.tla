-------------------------- MODULE JobManagerProofs --------------------------
(* Theorems about JobManager, for every scheduler: any codes, any number   *)
(* of sub-jobs and any limits.                                             *)
EXTENDS JobManager, TLAPS

-----------------------------------------------------------------------------
(* The types of what is printed and of what is made of it.                 *)

LEMMA NoOutputApart == ASSUME NEW o \in Outputs PROVE o # NoOutput /\ o.rt \in Nat
<1>1. o.rt \in CommandRt BY DEF Outputs
<1>2. NoOutput.rt = Null BY DEF NoOutput
<1>3. Null \notin Nat BY DEF Null
<1> QED BY <1>1, <1>2, <1>3, CodesAssumption

LEMMA JobStatusType == ASSUME NEW o \in Outputs PROVE JobStatus(o) \in Value
<1>1. CASE bulk BY <1>1 DEF JobStatus, BulkResult, Value
<1>2. CASE ~bulk
  <2>1. o.status \in Capture BY <1>2 DEF Outputs
  <2> QED BY <1>2, <2>1 DEF JobStatus, Capture, Value
<1> QED BY <1>1, <1>2

LEMMA StatusCodeType == ASSUME NEW o \in Outputs PROVE StatusCode(o) \in Value
<1>1. o.rt # 0 => StatusCode(o) \in {0, -2} BY DEF StatusCode
<1>2. CASE o.rt = 0 /\ bulk
  <2>1. BulkResult(o.code) \in {0, 1} BY DEF BulkResult
  <2> QED BY <1>2, <2>1 DEF StatusCode, Value, Null
<1>3. CASE o.rt = 0 /\ ~bulk
  <2>1. o.code \in Capture BY <1>3 DEF Outputs
  <2> QED BY <1>3, <2>1 DEF StatusCode, Capture, Value
<1> QED BY <1>1, <1>2, <1>3 DEF Value

LEMMA JudgedType ==
  ASSUME TypeOK, NEW o \in Outputs, Judged(o)
  PROVE  /\ task' \in [rt : Value, jobStatus : Value] /\ task'.jobStatus = JobStatus(o)
         /\ output' = o /\ handler' \in {"judged", "dead"}
<1>1. task.rt \in Value /\ task = [rt |-> task.rt, jobStatus |-> task.jobStatus]
  BY DEF TypeOK
<1>2. \/ task' = [rt |-> IF o.rt # 0 THEN task.rt ELSE StatusCode(o), jobStatus |-> JobStatus(o)]
      \/ task' = [rt |-> task.rt, jobStatus |-> JobStatus(o)]
  BY <1>1 DEF Judged, getStatusCode
<1>3. JobStatus(o) \in Value /\ StatusCode(o) \in Value BY JobStatusType, StatusCodeType
<1>4. output' = o /\ handler' \in {"judged", "dead"} BY DEF Judged
<1> QED BY <1>1, <1>2, <1>3, <1>4

LEMMA SettleType ==
  ASSUME TypeOK, NEW s \in {"resolved", "rejected"}, NEW v \in Value, Settle(s, v)
  PROVE  promise' \in [state : {"pending", "resolved", "rejected"}, value : Value]
BY DEF TypeOK, Settle

\* What is made of an output depends on nothing that changes.
LEMMA BulkKept ==
  ASSUME bulk' = bulk
  PROVE  /\ Outputs' = Outputs /\ NoOutput' = NoOutput
         /\ output' = output => JobStatus(output)' = JobStatus(output)
                                /\ StatusCode(output)' = StatusCode(output)
BY DEF Outputs, NoOutput, JobStatus, StatusCode, BulkResult, isJobFailed

-----------------------------------------------------------------------------
(* The inductive invariant.  A job has one follower at a time: the first   *)
(* request, the second, or the handler that has the result; the promise is *)
(* open, and the task can be cancelled, exactly until somebody settles it; *)
(* a result is only in hand once the job has left the queue, and it is not *)
(* replaced once the promise was settled with it.                          *)

OneFollower ==
  /\ watched => handler = "idle" /\ promise = Pending
  /\ repeat <=> handler = "repeating"
  /\ promise = Pending => watched \/ handler \in {"repeating", "judged", "dead"}

OpenUntilSettled ==
  /\ cancel <=> promise = Pending
  /\ promise.state = "pending" => promise = Pending
  /\ promise.state = "rejected" => handler = "idle"

ResultInHand ==
  /\ handler \in {"repeating", "judged"} => ~active
  /\ handler = "judged" => output \in Outputs /\ task.jobStatus = JobStatus(output)

Success ==
  promise.state = "resolved" /\ promise.value = 0 =>
    /\ ~active /\ handler = "idle"
    /\ output \in Outputs /\ ~isJobFailed(JobStatus(output)) /\ StatusCode(output) = 0

Inv == TypeOK /\ OneFollower /\ OpenUntilSettled /\ ResultInHand /\ Success

LEMMA InitInv == Init => Inv
<1> SUFFICES ASSUME Init PROVE Inv OBVIOUS
<1>1. promise \in [state : {"pending", "resolved", "rejected"}, value : Value]
  BY DEF Init, Pending, Value
<1>2. task \in [rt : Value, jobStatus : Value] BY DEF Init, Value
<1>3. TypeOK
  <2>1. bulk \in Bulk /\ listed \in Listed /\ active \in BOOLEAN /\ watched \in BOOLEAN /\ repeat \in BOOLEAN /\ cancel \in BOOLEAN BY DEF Init
  <2>2. errors \in 0..MaxPoll BY LimitAssumption DEF Init
  <2>3. output \in Outputs \union {NoOutput} BY DEF Init
  <2>4. handler \in {"idle", "repeating", "judged", "dead"} BY DEF Init
  <2> QED BY <1>1, <1>2, <2>1, <2>2, <2>3, <2>4 DEF TypeOK
<1>4. OneFollower BY DEF Init, OneFollower
<1>5. OpenUntilSettled BY DEF Init, OpenUntilSettled, Pending
<1>6. ResultInHand /\ Success BY DEF Init, ResultInHand, Success, Pending
<1> QED BY <1>3, <1>4, <1>5, <1>6 DEF Inv

LEMMA JobEndsInv == Inv /\ JobEnds => Inv'
<1> SUFFICES ASSUME Inv, JobEnds PROVE Inv' OBVIOUS
<1> USE DEF Inv, JobEnds
<1>1. TypeOK'
  <2>1. bulk' \in Bulk /\ listed' \in Listed /\ active' \in BOOLEAN /\ watched' \in BOOLEAN /\ repeat' \in BOOLEAN /\ cancel' \in BOOLEAN BY DEF TypeOK
  <2>2. errors' \in 0..MaxPoll BY LimitAssumption DEF TypeOK
  <2>3. output' \in Outputs' \union {NoOutput'} BY BulkKept DEF TypeOK
  <2>4. handler' \in {"idle", "repeating", "judged", "dead"} BY DEF TypeOK
  <2>5. promise' \in [state : {"pending", "resolved", "rejected"}, value : Value] BY DEF TypeOK
  <2>6. task' \in [rt : Value, jobStatus : Value] BY DEF TypeOK
  <2> QED BY <2>6, <2>5, <2>1, <2>2, <2>3, <2>4 DEF TypeOK
<1>2. OneFollower' /\ OpenUntilSettled' BY DEF OneFollower, OpenUntilSettled, Pending
<1>3. ResultInHand' BY BulkKept DEF ResultInHand
<1>4. Success' BY BulkKept DEF Success, isJobFailed
<1> QED BY <1>1, <1>2, <1>3, <1>4

\* The polling: the requests end with their promise, or the handler takes over.
LEMMA CheckedFailsInv == Inv /\ CheckedFails => Inv'
<1> SUFFICES ASSUME Inv, CheckedFails PROVE Inv' OBVIOUS
<1> USE DEF Inv, CheckedFails
<1>1. errors' \in 0..MaxPoll BY LimitAssumption DEF TypeOK
<1>2. CASE MaxError # NoLimit /\ MaxError < errors + 1
  <2>1. promise' = [state |-> "rejected", value |-> Null]
    BY <1>2 DEF OneFollower, Settle
  <2> QED BY <1>1, <1>2, <2>1, BulkKept
          DEF TypeOK, OneFollower, OpenUntilSettled, ResultInHand, Success, Pending, Value
<1>3. CASE ~(MaxError # NoLimit /\ MaxError < errors + 1)
  BY <1>1, <1>3, BulkKept
  DEF TypeOK, OneFollower, OpenUntilSettled, ResultInHand, Success, Pending, Value, isJobFailed
<1> QED BY <1>2, <1>3

LEMMA WatchFailsInv == Inv /\ WatchFails => Inv'
<1> SUFFICES ASSUME Inv, WatchFails PROVE Inv' OBVIOUS
<1>1. promise' = [state |-> "rejected", value |-> Null]
  BY DEF Inv, WatchFails, OneFollower, Settle
<1> QED BY <1>1, BulkKept
        DEF Inv, WatchFails, TypeOK, OneFollower, OpenUntilSettled, ResultInHand, Success,
            Pending, Value

LEMMA FinishedInv == Inv /\ Finished => Inv'
<1> SUFFICES ASSUME Inv, Finished PROVE Inv' OBVIOUS
<1> USE DEF Inv, Finished
<1>1. ASSUME NEW o \in Outputs, Judged(o), UNCHANGED repeat PROVE Inv'
  <2>1. task' \in [rt : Value, jobStatus : Value] /\ task'.jobStatus = JobStatus(o)
    BY <1>1, JudgedType
  <2>2. output' = o /\ handler' \in {"judged", "dead"} BY <1>1, JudgedType
  <2>3. JobStatus(output)' = JobStatus(o) BY <2>2 DEF JobStatus
  <2>4. TypeOK' BY <1>1, <2>1, <2>2, BulkKept DEF TypeOK, Value
  <2>5. OneFollower' /\ OpenUntilSettled'
    BY <1>1, <2>2 DEF OneFollower, OpenUntilSettled, Pending
  <2>6. ResultInHand' BY <2>1, <2>2, <2>3, BulkKept DEF ResultInHand
  <2>7. Success' BY DEF OneFollower, Success, Pending
  <2> QED BY <2>4, <2>5, <2>6, <2>7
<1>2. CASE handler' = "repeating" /\ repeat' = TRUE /\ UNCHANGED <<output, task>>
  <2>1. TypeOK' BY <1>2, BulkKept DEF TypeOK, Value
  <2>2. OneFollower' /\ OpenUntilSettled' BY <1>2 DEF OneFollower, OpenUntilSettled, Pending
  <2>3. ResultInHand' BY <1>2 DEF ResultInHand
  <2>4. Success' BY DEF OneFollower, Success, Pending
  <2> QED BY <2>1, <2>2, <2>3, <2>4
<1> QED BY <1>1, <1>2

LEMMA RepeatFinishedInv == Inv /\ RepeatFinished => Inv'
<1> SUFFICES ASSUME Inv, RepeatFinished PROVE Inv' OBVIOUS
<1> USE DEF Inv, RepeatFinished
<1>1. PICK o \in Outputs : Judged(o) OBVIOUS
<1>2. task' \in [rt : Value, jobStatus : Value] /\ task'.jobStatus = JobStatus(o)
  BY <1>1, JudgedType
<1>3. output' = o /\ handler' \in {"judged", "dead"} BY <1>1, JudgedType
<1>4. JobStatus(output)' = JobStatus(o) BY <1>3 DEF JobStatus
<1> QED BY <1>2, <1>3, <1>4, BulkKept
        DEF TypeOK, OneFollower, OpenUntilSettled, ResultInHand, Success, Pending, Value

LEMMA RepeatFailsInv == Inv /\ RepeatFails => Inv'
<1> SUFFICES ASSUME Inv, RepeatFails PROVE Inv' OBVIOUS
<1> USE DEF Inv, RepeatFails
<1>1. TypeOK' BY BulkKept DEF TypeOK, Value
<1>2. OneFollower' /\ OpenUntilSettled' BY DEF OneFollower, OpenUntilSettled, Pending
<1>3. ResultInHand' BY DEF ResultInHand
<1>4. Success' BY DEF OneFollower, Success, Pending
<1> QED BY <1>1, <1>2, <1>3, <1>4

\* Only here does a promise get the value 0, with the result still in hand.
LEMMA ConcludeInv == Inv /\ Conclude => Inv'
<1> SUFFICES ASSUME Inv, Conclude PROVE Inv' OBVIOUS
<1> USE DEF Inv, Conclude
<1>1. output \in Outputs /\ ~active /\ ~watched /\ task.jobStatus = JobStatus(output)
  BY DEF OneFollower, ResultInHand
<1>2. JobStatus(output) \in Value /\ StatusCode(output) \in Value
  BY <1>1, JobStatusType, StatusCodeType
<1>3. CASE promise # Pending
  <2>1. promise' = promise BY <1>3 DEF Settle
  <2>2. TypeOK' BY <2>1, BulkKept DEF TypeOK
  <2>3. OneFollower' /\ OpenUntilSettled'
    BY <1>1, <1>3, <2>1 DEF OneFollower, OpenUntilSettled, Pending
  <2>4. ResultInHand' BY DEF ResultInHand
  <2>5. Success' BY <1>1, <2>1 DEF Success
  <2> QED BY <2>2, <2>3, <2>4, <2>5
<1>4. CASE promise = Pending /\ isJobFailed(task.jobStatus)
  <2>1. promise' = [state |-> "rejected", value |-> task.jobStatus] BY <1>4 DEF Settle
  <2> QED BY <1>1, <1>2, <2>1, BulkKept
          DEF TypeOK, OneFollower, OpenUntilSettled, ResultInHand, Success, Pending
<1>5. CASE promise = Pending /\ ~isJobFailed(task.jobStatus)
  <2>1. promise' = [state |-> "resolved", value |-> StatusCode(output)] BY <1>5 DEF Settle
  <2> QED BY <1>1, <1>2, <1>5, <2>1, BulkKept
          DEF TypeOK, OneFollower, OpenUntilSettled, ResultInHand, Success, isJobFailed, Pending
<1> QED BY <1>3, <1>4, <1>5

LEMMA CancelInv == Inv /\ cancelJobStatusCheck => Inv'
<1> SUFFICES ASSUME Inv, cancelJobStatusCheck PROVE Inv' OBVIOUS
<1> USE DEF Inv, cancelJobStatusCheck
<1>1. promise = Pending /\ promise' = [state |-> "resolved", value |-> Null]
  BY DEF OpenUntilSettled, Settle
<1>2. TypeOK' BY <1>1, BulkKept DEF TypeOK, Value
<1>3. OneFollower' /\ OpenUntilSettled' BY <1>1 DEF OneFollower, OpenUntilSettled, Pending
<1>4. ResultInHand' BY BulkKept DEF ResultInHand
<1>5. Success' BY <1>1 DEF Success, Null
<1> QED BY <1>2, <1>3, <1>4, <1>5

LEMMA NextInv == Inv /\ [Next]_vars => Inv'
<1> SUFFICES ASSUME Inv, [Next]_vars PROVE Inv' OBVIOUS
<1>1. CASE UNCHANGED vars
  BY <1>1, BulkKept
  DEF vars, Inv, TypeOK, OneFollower, OpenUntilSettled, ResultInHand, Success, isJobFailed, Pending,
      Value
<1> QED BY <1>1, JobEndsInv, CheckedFailsInv, WatchFailsInv, FinishedInv, RepeatFinishedInv,
           RepeatFailsInv, ConcludeInv, CancelInv DEF Next

LEMMA Invariance == Spec => []Inv
<1> QED BY InitInv, NextInv, PTL DEF Spec

-----------------------------------------------------------------------------
(* The theorems.                                                           *)

\* Every variable of a watch has its type (registerJob).
THEOREM TypeCorrect == Spec => []TypeOK
<1>1. Inv => TypeOK BY DEF Inv
<1> QED BY <1>1, Invariance, PTL

\* A job is followed by somebody and can be cancelled until it is decided, and
\* no longer; nobody asks for a job any more once its promise was rejected
\* (registerJob, cancelJobStatusCheck).
THEOREM AlwaysFollowed == Spec => []Followed
<1>1. Inv => Followed
  <2> SUFFICES ASSUME Inv PROVE Followed OBVIOUS
  <2>1. Settled <=> promise # Pending BY DEF Inv, OpenUntilSettled, Settled, Pending
  <2>2. Cancellable
    BY <2>1 DEF Inv, TypeOK, OneFollower, OpenUntilSettled, Cancellable
  <2>3. NotAskedAgain
    BY DEF Inv, OneFollower, OpenUntilSettled, NotAskedAgain, Pending
  <2> QED BY <2>2, <2>3 DEF Followed
<1> QED BY <1>1, Invariance, PTL

\* A job that is reported as successful has left the queue with an acceptable
\* status and, as far as one can tell, with the return value 0 (getStatusCode).
\* getBulkFirstCapture() says 1 for a bulk job all of whose sub-jobs failed: a
\* scheduler for which 1 is acceptable would pass it off as a success.
THEOREM SuccessReal ==
  ASSUME TRUE \in Bulk => 1 \notin Acceptable
  PROVE  Spec => []SuccessIsReal
<1>1. Inv => SuccessIsReal
  <2> SUFFICES ASSUME Inv, promise.state = "resolved", promise.value = 0
      PROVE  /\ ~active /\ output # NoOutput
             /\ IF bulk THEN \E i \in DOMAIN output.status : output.status[i] = 0
                        ELSE output.status \in Acceptable
             /\ output.rt = 0 => IF bulk THEN \E i \in DOMAIN output.code : output.code[i] = 0
                                         ELSE output.code \in {0, Null}
             /\ output.rt \in AcceptableRt \union {0}
    BY DEF SuccessIsReal
  <2>1. ~active /\ output \in Outputs /\ ~isJobFailed(JobStatus(output)) /\ StatusCode(output) = 0
    BY DEF Inv, Success
  <2>2. JobStatus(output) \in Acceptable BY <2>1 DEF isJobFailed
  <2>3. output # NoOutput BY <2>1, NoOutputApart
  <2>4. output.rt \in AcceptableRt \union {0} BY <2>1 DEF StatusCode
  <2>5. CASE bulk
    <3>1. 1 \notin Acceptable BY <2>5, BulkAssumption DEF Inv, TypeOK
    <3>2. \E i \in DOMAIN output.status : output.status[i] = 0
      BY <2>2, <2>5, <3>1 DEF JobStatus, BulkResult
    <3>3. output.rt = 0 => BulkResult(output.code) \in {Null, 0}
      BY <2>1, <2>5 DEF StatusCode
    <3>4. output.rt = 0 => \E i \in DOMAIN output.code : output.code[i] = 0
      BY <3>3 DEF BulkResult, Null
    <3> QED BY <2>1, <2>3, <2>4, <2>5, <3>2, <3>4
  <2>6. CASE ~bulk
    <3>1. output.status \in Acceptable
      BY <2>2, <2>6, CodesAssumption DEF JobStatus
    <3>2. output.rt = 0 => output.code \in {0, Null} BY <2>1, <2>6 DEF StatusCode
    <3> QED BY <2>1, <2>3, <2>4, <2>6, <3>1, <3>2
  <2> QED BY <2>5, <2>6
<1> QED BY <1>1, Invariance, PTL
=============================================================================
