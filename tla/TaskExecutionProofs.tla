------------------------ MODULE TaskExecutionProofs ------------------------
(* Theorems about TaskExecution, for any finite set of tasks of any kinds  *)
(* and any limits, numbers of retries and outcomes.                        *)
EXTENDS TaskExecution, FiniteSetTheorems, TLAPS

USE DEF InBatch, Places, States, Kinds, Keys, Executer, Generation, NoExecuter

-----------------------------------------------------------------------------
(* Type correctness.  The type of a variable only depends on those of its   *)
(* group; what a group needs of the others is that a job that is followed   *)
(* is in the scheduler.                                                     *)

LifeType ==
  /\ pc \in [Task -> Places] /\ state \in [Task -> States]
  /\ rt \in [Task -> {"0", "1", "null"}] /\ checkerRt \in [Task -> {"0", "1", "null"}]
BatchType ==
  /\ executer \in [Task -> Executer \union {NoExecuter}]
  /\ tries \in [Task -> Nat] /\ forced \in [Task -> Nat]
LimitType == limit \in [Executer -> Int] /\ original \in [Executer -> Int]
ChainType == confirmed \subseteq Generation /\ waitsFor \in [Task -> Generation]
JobType ==
  /\ jobID \in [Task -> BOOLEAN] /\ alive \in [Task -> Nat]
  /\ \A t \in Task : pc[t] = "job" => alive[t] > 0
FileType ==
  /\ remoteDir \in [Task -> {"none", "full", "partial", "gone", "uncleaned"}]
  /\ deferred \subseteq Task
RunType ==
  /\ generation \in Generation /\ ssh \in BOOLEAN
  /\ stop \in {"no", "cancelling", "stuck", "cleaned", "released"} /\ killing \subseteq Task
ToldType == noticed \in BOOLEAN /\ reported \subseteq Task

TypeInv ==
  /\ LifeType /\ BatchType /\ LimitType /\ ChainType
  /\ JobType /\ FileType /\ RunType /\ ToldType

LEMMA TypeInvType == TypeInv => TypeOK
BY DEF TypeInv, TypeOK, LifeType, BatchType, LimitType, ChainType, JobType, FileType, RunType, ToldType

\* A group that does not change keeps its type.
LEMMA Frames ==
  ASSUME TypeInv
  PROVE  /\ UNCHANGED life => LifeType'
         /\ UNCHANGED <<executer, tries, forced>> => BatchType'
         /\ UNCHANGED <<limit, original>> => LimitType'
         /\ UNCHANGED chain => ChainType'
         /\ UNCHANGED files => FileType'
         /\ UNCHANGED run => RunType'
         /\ UNCHANGED told => ToldType'
<1> USE DEF TypeInv
<1>1. UNCHANGED life => LifeType' BY DEF life, LifeType
<1>2. UNCHANGED <<executer, tries, forced>> => BatchType' BY DEF BatchType
<1>3. UNCHANGED <<limit, original>> => LimitType' BY DEF LimitType
<1>4. UNCHANGED chain => ChainType' BY DEF chain, ChainType
<1>5. UNCHANGED files => FileType' BY DEF files, FileType
<1>6. UNCHANGED run => RunType' BY DEF run, RunType
<1>7. UNCHANGED told => ToldType' BY DEF told, ToldType
<1> QED BY <1>1, <1>2, <1>3, <1>4, <1>5, <1>6, <1>7

\* Jobs that are not touched, of tasks that do not begin to follow one.
LEMMA JobFrame ==
  ASSUME TypeInv, UNCHANGED jobs, \A t \in Task : pc'[t] = "job" => pc[t] = "job"
  PROVE  JobType'
BY DEF TypeInv, JobType, jobs

LEMMA SetStateType ==
  ASSUME TypeInv, NEW t \in Task, NEW s \in States, setTaskState(t, s)
  PROVE  state' \in [Task -> States] /\ ToldType'
BY DEF TypeInv, LifeType, ToldType, setTaskState

LEMMA GoToType ==
  ASSUME TypeInv, NEW t \in Task, NEW p \in Places, GoTo(t, p)
  PROVE  /\ pc' \in [Task -> Places] /\ pc'[t] = p
         /\ \A u \in Task : u # t => pc'[u] = pc[u]
BY DEF TypeInv, LifeType, GoTo

LEMMA KeyType == ASSUME NEW t \in Task PROVE getExecutersKey(t) \in Keys
BY KindAssumption DEF getExecutersKey

LEMMA EnqueueType ==
  ASSUME TypeInv, NEW t \in Task, Enqueue(t), UNCHANGED <<rt, checkerRt, tries, forced, original>>
  PROVE  /\ LifeType' /\ BatchType' /\ LimitType'
         /\ pc' = [pc EXCEPT ![t] = "waiting"]
<1> DEFINE e == <<getExecutersKey(t), generation>>
<1>1. e \in Executer BY KeyType DEF TypeInv, RunType
<1>2. NumJob[e[1]] \in Int BY KeyType, NumJobAssumption
<1>3. LifeType' BY DEF TypeInv, LifeType, Enqueue, GoTo
<1>4. executer' \in [Task -> Executer \union {NoExecuter}]
  BY <1>1 DEF TypeInv, BatchType, Enqueue
<1>5. limit' \in [Executer -> Int] BY <1>1, <1>2 DEF TypeInv, LimitType, Enqueue
<1> QED BY <1>3, <1>4, <1>5 DEF TypeInv, BatchType, LimitType, Enqueue, GoTo

LEMMA RetryOrSettleType ==
  ASSUME TypeInv, NEW t \in Task, RetryOrSettle(t)
  PROVE  /\ \E p \in {"waiting", "settled"} : GoTo(t, p)
         /\ tries' \in [Task -> Nat]
<1>1. CASE /\ tries[t] < retryBound(t) /\ tries' = [tries EXCEPT ![t] = @ + 1]
           /\ GoTo(t, "waiting")
  BY <1>1 DEF TypeInv, BatchType
<1>2. CASE GoTo(t, "settled") /\ UNCHANGED tries
  BY <1>2 DEF TypeInv, BatchType
<1> QED BY <1>1, <1>2 DEF RetryOrSettle

\* The three ways out of a function of the batch queue.
LEMMA WayOutType ==
  ASSUME TypeInv, NEW t \in Task,
         \/ Rejected(t)
         \/ ForcedRetry(t)
         \/ \E v \in {"0", "1", "null"} : Resolved(t, v)
  PROVE  /\ LifeType' /\ BatchType' /\ ToldType'
         /\ \E p \in {"waiting", "settled", "checking", "judging"} : GoTo(t, p)
<1>1. CASE Rejected(t)
  <2>1. PICK p \in {"waiting", "settled"} : GoTo(t, p)
    BY <1>1, RetryOrSettleType DEF Rejected
  <2>2. LifeType' /\ ToldType'
    BY <1>1, <2>1, GoToType, SetStateType DEF Rejected, TypeInv, LifeType
  <2>3. BatchType' BY <1>1, RetryOrSettleType DEF Rejected, TypeInv, BatchType
  <2> QED BY <2>1, <2>2, <2>3
<1>2. CASE ForcedRetry(t)
  <2>1. LifeType' /\ ToldType'
    BY <1>2, GoToType, SetStateType DEF ForcedRetry, TypeInv, LifeType
  <2>2. BatchType' BY <1>2 DEF ForcedRetry, TypeInv, BatchType
  <2> QED BY <1>2, <2>1, <2>2 DEF ForcedRetry
<1>3. ASSUME NEW v \in {"0", "1", "null"}, Resolved(t, v)
      PROVE  /\ LifeType' /\ BatchType' /\ ToldType'
             /\ \E p \in {"waiting", "settled", "checking", "judging"} : GoTo(t, p)
  <2>1. PICK p \in {"settled", "checking", "judging"} : GoTo(t, p) BY <1>3 DEF Resolved
  <2>2. LifeType' BY <1>3, <2>1, GoToType DEF Resolved, Silent, TypeInv, LifeType
  <2>3. BatchType' /\ ToldType' BY <1>3, Frames DEF Resolved, Silent
  <2> QED BY <2>1, <2>2, <2>3
<1> QED BY <1>1, <1>2, <1>3

LEMMA InitTypeInv == Init => TypeInv
<1> SUFFICES ASSUME Init PROVE TypeInv OBVIOUS
<1>1. LifeType /\ BatchType BY DEF Init, LifeType, BatchType
<1>2. LimitType BY NumJobAssumption DEF Init, LimitType
<1>3. ChainType /\ JobType BY DEF Init, ChainType, JobType
<1>4. FileType /\ RunType /\ ToldType BY DEF Init, FileType, RunType, ToldType
<1> QED BY <1>1, <1>2, <1>3, <1>4 DEF TypeInv

\* Before and after the batch queue.
LEMMA OutsideTypeInv ==
  ASSUME TypeInv, NEW t \in Task,
         \/ exec(t) \/ stageIn(t) \/ register(t)
         \/ BeginStageOut(t) \/ EndStageOut(t) \/ Complete(t)
  PROVE  TypeInv'
<1>1. CASE exec(t)
  <2> USE <1>1 DEF exec, KeepRun
  <2>1. ChainType' /\ FileType' /\ RunType' /\ ToldType' BY Frames
  <2>2. CASE OnRemote(t)
    <3>1. LifeType' BY <2>2 DEF TypeInv, LifeType, GoTo
    <3>2. BatchType' /\ LimitType' BY <2>2, Frames
    <3>3. JobType' BY <2>2, JobFrame DEF TypeInv, LifeType, GoTo
    <3> QED BY <2>1, <3>1, <3>2, <3>3 DEF TypeInv
  <2>3. CASE ~OnRemote(t)
    <3>1. LifeType' /\ BatchType' /\ LimitType' BY <2>3, EnqueueType
    <3>2. JobType' BY <2>3, EnqueueType, JobFrame DEF TypeInv, LifeType
    <3> QED BY <2>1, <3>1, <3>2 DEF TypeInv
  <2> QED BY <2>2, <2>3
<1>2. CASE stageIn(t)
  <2> USE <1>2 DEF stageIn, KeepRun, batch
  <2>1. ChainType' /\ RunType' /\ BatchType' /\ LimitType' BY Frames
  <2>2. JobType' BY JobFrame DEF TypeInv, LifeType, GoTo
  <2>3. LifeType' BY DEF TypeInv, LifeType, GoTo, setTaskState, Silent
  <2>4. ToldType' BY Frames, SetStateType DEF Silent
  <2>5. FileType' BY DEF TypeInv, FileType
  <2> QED BY <2>1, <2>2, <2>3, <2>4, <2>5 DEF TypeInv
<1>3. CASE register(t)
  <2> USE <1>3 DEF register, KeepRun
  <2>1. ChainType' /\ FileType' /\ RunType' /\ ToldType' BY Frames
  <2>2. CASE ssh
    <3>1. LifeType' /\ BatchType' /\ LimitType' BY <2>2, EnqueueType
    <3>2. JobType' BY <2>2, EnqueueType, JobFrame DEF TypeInv, LifeType
    <3> QED BY <2>1, <3>1, <3>2 DEF TypeInv
  <2>3. CASE ~ssh
    <3>1. LifeType' BY <2>3 DEF TypeInv, LifeType, GoTo
    <3>2. BatchType' /\ LimitType' BY <2>3, Frames
    <3>3. JobType' BY <2>3, JobFrame DEF TypeInv, LifeType, GoTo
    <3> QED BY <2>1, <3>1, <3>2, <3>3 DEF TypeInv
  <2> QED BY <2>2, <2>3
<1>4. CASE BeginStageOut(t)
  <2> USE <1>4 DEF BeginStageOut, Same, KeepRun, batch
  <2>1. BatchType' /\ LimitType' /\ ChainType' /\ FileType' /\ RunType' BY Frames
  <2>2. JobType' BY JobFrame DEF TypeInv, LifeType, GoTo
  <2>3. LifeType' /\ ToldType' BY SetStateType, GoToType DEF TypeInv, LifeType
  <2> QED BY <2>1, <2>2, <2>3 DEF TypeInv
<1>5. CASE EndStageOut(t)
  <2> USE <1>5 DEF EndStageOut, KeepRun, batch
  <2>1. BatchType' /\ LimitType' /\ ChainType' /\ RunType' BY Frames
  <2>2. JobType' BY JobFrame DEF TypeInv, LifeType, GoTo
  <2>3. LifeType' BY DEF TypeInv, LifeType, GoTo, setTaskState, Silent
  <2>4. ToldType' BY Frames, SetStateType DEF Silent
  <2>5. CleanUpRemote(t) => FileType' BY DEF CleanUpRemote, TypeInv, FileType
  <2>6. FileType' BY <2>5, Frames
  <2> QED BY <2>1, <2>2, <2>3, <2>4, <2>6 DEF TypeInv
<1>6. CASE Complete(t)
  <2> USE <1>6 DEF Complete, Same, KeepRun, batch, Silent
  <2>1. BatchType' /\ LimitType' /\ ChainType' /\ FileType' /\ RunType' /\ ToldType' BY Frames
  <2>2. JobType' BY JobFrame DEF TypeInv, LifeType, GoTo
  <2>3. LifeType' BY GoToType DEF TypeInv, LifeType
  <2> QED BY <2>1, <2>2, <2>3 DEF TypeInv
<1> QED BY <1>1, <1>2, <1>3, <1>4, <1>5, <1>6

\* What the batch queue begins, and what goes on inside its function.
LEMMA InsideTypeInv ==
  ASSUME TypeInv, NEW t \in Task,
         \/ BeginScript(t) \/ Park(t) \/ HeadConfirmed(t) \/ BeginSubmit(t)
         \/ runChecker(t) \/ Judge(t) \/ DecideRetry(t)
  PROVE  TypeInv'
<1>1. CASE BeginScript(t) \/ HeadConfirmed(t) \/ BeginSubmit(t)
  <2> USE <1>1 DEF BeginScript, HeadConfirmed, BeginSubmit, Same, KeepRun, batch
  <2>1. BatchType' /\ LimitType' /\ ChainType' /\ FileType' /\ RunType' BY Frames
  <2>2. PICK p \in {"script", "submitting"} : GoTo(t, p) OBVIOUS
  <2>3. JobType' BY <2>2, JobFrame DEF TypeInv, LifeType, GoTo
  <2>4. state' \in [Task -> States] /\ ToldType'
    BY SetStateType, Frames DEF Silent, TypeInv, LifeType
  <2>5. LifeType' BY <2>2, <2>4, GoToType DEF TypeInv, LifeType
  <2> QED BY <2>1, <2>3, <2>4, <2>5 DEF TypeInv
<1>2. CASE Park(t)
  <2> USE <1>2 DEF Park, KeepRun, batch, Silent
  <2>1. BatchType' /\ LimitType' /\ FileType' /\ RunType' /\ ToldType' BY Frames
  <2>2. JobType' BY JobFrame DEF TypeInv, LifeType, GoTo
  <2>3. LifeType' BY GoToType DEF TypeInv, LifeType
  <2>4. ChainType' BY DEF TypeInv, ChainType, RunType
  <2> QED BY <2>1, <2>2, <2>3, <2>4 DEF TypeInv
<1>3. CASE runChecker(t)
  <2> USE <1>3 DEF runChecker, Same, KeepRun, batch, Silent
  <2>1. BatchType' /\ LimitType' /\ ChainType' /\ FileType' /\ RunType' /\ ToldType' BY Frames
  <2>2. JobType' BY JobFrame DEF TypeInv, LifeType, GoTo
  <2>3. LifeType' BY GoToType DEF TypeInv, LifeType
  <2> QED BY <2>1, <2>2, <2>3 DEF TypeInv
<1>4. CASE Judge(t)
  <2> USE <1>4 DEF Judge, Same, KeepRun, batch
  <2>1. BatchType' /\ LimitType' /\ ChainType' /\ FileType' /\ RunType' BY Frames
  <2>2. \E p \in {"settled", "retrying"} : GoTo(t, p) OBVIOUS
  <2>3. JobType' BY <2>2, JobFrame DEF TypeInv, LifeType, GoTo
  <2>4. CASE Silent
    <3>1. LifeType' /\ ToldType' BY <2>2, <2>4, GoToType, Frames DEF Silent, TypeInv, LifeType
    <3> QED BY <2>1, <2>3, <3>1 DEF TypeInv
  <2>5. ASSUME NEW s \in FinishStates(t), setTaskState(t, s) PROVE TypeInv'
    <3>1. s \in States BY DEF FinishStates
    <3>2. state' \in [Task -> States] /\ ToldType' BY <2>5, <3>1, SetStateType
    <3>3. LifeType' BY <2>2, <3>2, GoToType DEF TypeInv, LifeType
    <3> QED BY <2>1, <2>3, <3>2, <3>3 DEF TypeInv
  <2> QED BY <2>4, <2>5
<1>5. CASE DecideRetry(t)
  <2> USE <1>5 DEF DecideRetry, KeepRun
  <2>1. LimitType' /\ ChainType' /\ FileType' /\ RunType' BY Frames
  <2>2. PICK p \in {"waiting", "settled"} : GoTo(t, p) BY RetryOrSettleType
  <2>3. JobType' BY <2>2, JobFrame DEF TypeInv, LifeType, GoTo
  <2>4. state' \in [Task -> States] /\ ToldType'
    BY SetStateType, Frames DEF Silent, TypeInv, LifeType
  <2>5. LifeType' BY <2>2, <2>4, GoToType DEF TypeInv, LifeType
  <2>6. BatchType' BY RetryOrSettleType DEF TypeInv, BatchType
  <2> QED BY <2>1, <2>3, <2>4, <2>5, <2>6 DEF TypeInv
<1> QED BY <1>1, <1>2, <1>3, <1>4, <1>5

LEMMA ExceptType ==
  ASSUME NEW S, NEW T, NEW f \in [S -> T], NEW x, NEW v, x \in S => v \in T
  PROVE  [f EXCEPT ![x] = v] \in [S -> T]
OBVIOUS

LEMMA RestoreLimitType ==
  ASSUME TypeInv, NEW e \in Executer \union {NoExecuter}, RestoreLimit(e)
  PROVE  LimitType'
<1> DEFINE raised == IF original[e] # 0 /\ original[e] > limit[e] THEN limit[e] + 1 ELSE limit[e]
<1>1. e \in Executer => raised \in Int BY DEF TypeInv, LimitType
<1>2. limit' = [limit EXCEPT ![e] = raised] BY DEF RestoreLimit
<1>3. original' = [original EXCEPT ![e] = IF original[e] = raised THEN 0 ELSE original[e]]
  BY DEF RestoreLimit
<1>4. e \in Executer => (IF original[e] = raised THEN 0 ELSE original[e]) \in Int
  BY DEF TypeInv, LimitType
<1> HIDE DEF raised
<1> QED BY <1>1, <1>2, <1>3, <1>4, ExceptType DEF TypeInv, LimitType

LEMMA SubmitTypeInv ==
  ASSUME TypeInv, NEW t \in Task,
         \/ SubmitExceeded(t) \/ SubmitRecoverable(t) \/ SubmitFails(t)
         \/ NoJobID(t) \/ Submitted(t)
  PROVE  TypeInv'
<1>1. CASE SubmitExceeded(t)
  <2> USE <1>1 DEF SubmitExceeded, KeepRun
  <2>1. LifeType' /\ BatchType' /\ ToldType' BY WayOutType
  <2>2. ChainType' /\ FileType' /\ RunType' BY Frames
  <2>3. JobType' BY WayOutType, JobFrame DEF TypeInv, LifeType, GoTo
  <2>4. /\ executer[t] \in Executer => limit[executer[t]] \in Int
        /\ executer[t] \in Executer => limit[executer[t]] - 1 \in Int
    BY DEF TypeInv, LimitType
  <2>5. /\ limit' = [limit EXCEPT ![executer[t]] = limit[executer[t]] - 1]
        /\ original' = [original EXCEPT ![executer[t]] = limit[executer[t]]]
    OBVIOUS
  <2>6. LimitType' BY <2>4, <2>5, ExceptType DEF TypeInv, LimitType
  <2> QED BY <2>1, <2>2, <2>3, <2>6 DEF TypeInv
<1>2. CASE SubmitRecoverable(t) \/ SubmitFails(t)
  <2> USE <1>2 DEF SubmitRecoverable, SubmitFails, KeepRun
  <2>1. LifeType' /\ BatchType' /\ ToldType' BY WayOutType
  <2>2. LimitType' /\ ChainType' /\ FileType' /\ RunType' BY Frames
  <2>3. JobType' BY WayOutType, JobFrame DEF TypeInv, LifeType, GoTo
  <2> QED BY <2>1, <2>2, <2>3 DEF TypeInv
<1>3. CASE NoJobID(t)
  <2> USE <1>3 DEF NoJobID, KeepRun
  <2>1. LifeType' /\ BatchType' /\ ToldType' BY WayOutType
  <2>2. ChainType' /\ FileType' /\ RunType' BY Frames
  <2>3. executer[t] \in Executer \union {NoExecuter} BY DEF TypeInv, BatchType
  <2>4. LimitType' BY <2>3, RestoreLimitType
  <2>5. PICK p \in {"waiting", "settled", "checking", "judging"} : GoTo(t, p) BY WayOutType
  <2>6. JobType' BY <2>5 DEF TypeInv, JobType, LifeType, GoTo
  <2> QED BY <2>1, <2>2, <2>4, <2>6 DEF TypeInv
<1>4. CASE Submitted(t)
  <2> USE <1>4 DEF Submitted, KeepRun
  <2>1. BatchType' /\ FileType' /\ RunType' BY Frames
  <2>2. executer[t] \in Executer \union {NoExecuter} BY DEF TypeInv, BatchType
  <2>3. LimitType' BY <2>2, RestoreLimitType
  <2>4. JobType' BY DEF TypeInv, JobType, LifeType, GoTo
  <2>5. ChainType' BY DEF TypeInv, ChainType, RunType
  <2>6. state' \in [Task -> States] /\ ToldType'
    BY SetStateType, Frames DEF Silent, TypeInv, LifeType
  <2>7. LifeType' BY <2>6, GoToType DEF TypeInv, LifeType
  <2> QED BY <2>1, <2>3, <2>4, <2>5, <2>6, <2>7 DEF TypeInv
<1> QED BY <1>1, <1>2, <1>3, <1>4

LEMMA EndsTypeInv ==
  ASSUME TypeInv, NEW t \in Task,
         ScriptEnds(t) \/ JobEnds(t) \/ JobLost(t) \/ SignalArrives(t)
  PROVE  TypeInv'
<1>1. CASE ScriptEnds(t)
  <2> USE <1>1 DEF ScriptEnds, KeepRun
  <2>0. Rejected(t) \/ \E v \in {"0", "1", "null"} : Resolved(t, v) OBVIOUS
  <2>1. LifeType' /\ BatchType' /\ ToldType' BY <2>0, WayOutType
  <2>2. LimitType' /\ ChainType' /\ FileType' /\ RunType' BY Frames
  <2>3. JobType' BY <2>0, WayOutType, JobFrame DEF TypeInv, LifeType, GoTo
  <2> QED BY <2>1, <2>2, <2>3 DEF TypeInv
<1>2. CASE JobEnds(t)
  <2> USE <1>2 DEF JobEnds, KeepRun
  <2>0. Rejected(t) \/ \E v \in {"0", "1", "null"} : Resolved(t, v) OBVIOUS
  <2>1. LifeType' /\ BatchType' /\ ToldType' BY <2>0, WayOutType
  <2>2. LimitType' /\ ChainType' /\ FileType' /\ RunType' BY Frames
  <2>3. PICK p \in {"waiting", "settled", "checking", "judging"} : GoTo(t, p) BY <2>0, WayOutType
  <2>4. JobType' BY <2>3 DEF TypeInv, JobType, LifeType, GoTo
  <2> QED BY <2>1, <2>2, <2>4 DEF TypeInv
<1>3. CASE JobLost(t) \/ SignalArrives(t)
  <2> USE <1>3 DEF JobLost, SignalArrives, KeepRun
  <2>1. LifeType' /\ BatchType' /\ ToldType' BY WayOutType
  <2>2. LimitType' /\ ChainType' /\ FileType' /\ RunType' BY Frames
  <2>3. JobType' BY WayOutType, JobFrame DEF TypeInv, LifeType, GoTo
  <2> QED BY <2>1, <2>2, <2>3 DEF TypeInv
<1> QED BY <1>1, <1>2, <1>3

\* The stop and the end of the run.
LEMMA EndTypeInv ==
  ASSUME TypeInv, Stop \/ End \/ \E t \in Task : Notice(t)
  PROVE  TypeInv'
<1>1. CASE Stop
  <2> USE <1>1 DEF Stop
  <2>1. BatchType' /\ LimitType' /\ ChainType' /\ FileType' /\ ToldType' BY Frames DEF batch
  <2>2. LifeType' BY DEF TypeInv, LifeType
  <2>3. JobType' BY JobFrame DEF TypeInv, LifeType
  <2>4. RunType' BY DEF TypeInv, RunType, Cancelled, Dispatched
  <2> QED BY <2>1, <2>2, <2>3, <2>4 DEF TypeInv
<1>2. ASSUME NEW t \in Task, cancelRemoteJob(t) PROVE TypeInv'
  <2> USE <1>2 DEF cancelRemoteJob
  <2>1. LimitType' /\ ChainType' /\ FileType' BY Frames
  <2>2. RunType' BY DEF TypeInv, RunType
  <2>3. CASE pc[t] = "job" /\ Resolved(t, "null") /\ alive' = [alive EXCEPT ![t] = @ - 1]
    <3>1. LifeType' /\ BatchType' /\ ToldType' BY <2>3, WayOutType
    <3>2. PICK p \in {"waiting", "settled", "checking", "judging"} : GoTo(t, p)
      BY <2>3, WayOutType
    <3>3. JobType' BY <2>3, <3>2 DEF TypeInv, JobType, LifeType, GoTo
    <3> QED BY <2>1, <2>2, <3>1, <3>3 DEF TypeInv
  <2>4. ASSUME pc[t] # "job", UNCHANGED <<life, executer, tries, forced, told>>,
               NEW n \in Nat, alive' = [alive EXCEPT ![t] = n]
        PROVE  TypeInv'
    <3>1. LifeType' /\ BatchType' /\ ToldType' BY <2>4, Frames
    <3>2. JobType' BY <2>4 DEF TypeInv, JobType, life
    <3> QED BY <2>1, <2>2, <3>1, <3>2 DEF TypeInv
  <2>5. CASE UNCHANGED <<life, alive, executer, tries, forced, told>>
    <3>1. LifeType' /\ BatchType' /\ ToldType' BY <2>5, Frames
    <3>2. JobType' BY <2>5, JobFrame DEF jobs, life
    <3> QED BY <2>1, <2>2, <3>1, <3>2 DEF TypeInv
  <2> QED BY <2>3, <2>4, <2>5
<1>3. CASE runDeferredCleanups
  <2> USE <1>3 DEF runDeferredCleanups
  <2>1. LifeType' /\ BatchType' /\ LimitType' /\ ChainType' /\ ToldType' BY Frames DEF batch
  <2>2. JobType' BY JobFrame DEF life
  <2>3. FileType' BY DEF TypeInv, FileType
  <2>4. RunType' BY DEF TypeInv, RunType
  <2> QED BY <2>1, <2>2, <2>3, <2>4 DEF TypeInv
<1>4. CASE releaseRuntimeResources
  <2> USE <1>4 DEF releaseRuntimeResources
  <2>1. LifeType' /\ BatchType' /\ LimitType' /\ ChainType' /\ FileType' /\ ToldType'
    BY Frames DEF batch
  <2>2. JobType' BY JobFrame DEF life
  <2>3. RunType' BY DEF TypeInv, RunType
  <2> QED BY <2>1, <2>2, <2>3 DEF TypeInv
<1>5. ASSUME NEW t \in Task, Notice(t) PROVE TypeInv'
  <2> USE <1>5 DEF Notice
  <2>1. LifeType' /\ BatchType' /\ LimitType' /\ ChainType' /\ FileType' /\ RunType'
    BY Frames DEF batch
  <2>2. JobType' BY JobFrame DEF life
  <2>3. ToldType' BY DEF TypeInv, ToldType
  <2> QED BY <2>1, <2>2, <2>3 DEF TypeInv
<1> QED BY <1>1, <1>2, <1>3, <1>4, <1>5 DEF End

LEMMA NextTypeInv == TypeInv /\ [Next]_vars => TypeInv'
<1> SUFFICES ASSUME TypeInv, [Next]_vars PROVE TypeInv' OBVIOUS
<1>1. CASE UNCHANGED vars
  BY <1>1, Frames, JobFrame DEF vars, life, batch, TypeInv
<1>2. ASSUME NEW t \in Task, exec(t) \/ Step(t) PROVE TypeInv'
  BY <1>2, OutsideTypeInv, InsideTypeInv, SubmitTypeInv, EndsTypeInv DEF Step
<1> QED BY <1>1, <1>2, EndTypeInv DEF Next

LEMMA TypeInvariance == Spec => []TypeInv
BY InitTypeInv, NextTypeInv, PTL DEF Spec

\* Every variable of the execution has its type; in particular no job is counted
\* out of the scheduler that was not counted in (exec, stopProject).
THEOREM TypeCorrect == Spec => []TypeOK
BY TypeInvariance, TypeInvType, PTL

-----------------------------------------------------------------------------
(* The limits of the executers.  A task enters the function of a batch     *)
(* queue only where CanBegin() is evaluated, and no limit is ever raised   *)
(* above the one that is configured: Throttled is inductive.               *)

NoneBegins ==
  \A u \in Task : pc'[u] \in InBatch => pc[u] \in InBatch /\ executer'[u] = executer[u]

LimitsKept ==
  \A e \in Executer : e[1] # "step" =>
    limit'[e] <= NumJob[e[1]] /\ original'[e] <= NumJob[e[1]]

LEMMA RunningFinite == ASSUME NEW e PROVE IsFiniteSet(Running(e)) /\ Cardinality(Running(e)) \in Nat
<1>1. Running(e) \subseteq Task BY DEF Running
<1> QED BY <1>1, TaskAssumption, FS_Subset, FS_CardinalityType

LEMMA NoneBeginsThrottled ==
  ASSUME TypeInv, Throttled, NoneBegins, LimitsKept PROVE Throttled'
<1> SUFFICES ASSUME NEW e \in Executer, e[1] # "step"
             PROVE  Cardinality(Running(e)') <= NumJob[e[1]]
  BY DEF Throttled, LimitsKept
<1>1. Running(e)' \subseteq Running(e) BY DEF Running, NoneBegins
<1>2. Cardinality(Running(e)') <= Cardinality(Running(e)) /\ Cardinality(Running(e)') \in Nat
  BY <1>1, RunningFinite, FS_Subset, FS_CardinalityType
<1>3. Cardinality(Running(e)) <= NumJob[e[1]] BY DEF Throttled
<1>4. NumJob[e[1]] \in Nat BY NumJobAssumption
<1>5. Cardinality(Running(e)) \in Nat BY RunningFinite
<1> QED BY <1>2, <1>3, <1>4, <1>5

LEMMA BeginThrottled ==
  ASSUME TypeInv, Throttled, NEW t \in Task, CanBegin(t), UNCHANGED <<executer, limit, original>>,
         \A u \in Task : u # t => pc'[u] = pc[u]
  PROVE  Throttled'
<1> SUFFICES ASSUME NEW e \in Executer, e[1] # "step"
             PROVE  Cardinality(Running(e)') <= NumJob[e[1]]
  BY DEF Throttled
<1>1. NumJob[e[1]] \in Nat /\ limit[e] \in Int BY NumJobAssumption DEF TypeInv, LimitType
<1>2. Cardinality(Running(e)) <= NumJob[e[1]] /\ limit[e] <= NumJob[e[1]] BY DEF Throttled
<1>3. IsFiniteSet(Running(e)) /\ Cardinality(Running(e)) \in Nat BY RunningFinite
<1>4. CASE executer[t] = e
  <2>1. Cardinality(Running(e)) < limit[e] BY <1>4 DEF CanBegin
  <2>2. Running(e)' \subseteq Running(e) \union {t} BY DEF Running
  <2>3. t \notin Running(e) BY DEF Running, CanBegin
  <2>4. /\ IsFiniteSet(Running(e) \union {t})
        /\ Cardinality(Running(e) \union {t}) = Cardinality(Running(e)) + 1
    BY <1>3, <2>3, FS_AddElement
  <2>5. /\ Cardinality(Running(e)') <= Cardinality(Running(e) \union {t})
        /\ Cardinality(Running(e)') \in Nat
    BY <2>2, <2>4, FS_Subset, FS_CardinalityType
  <2> QED BY <1>1, <1>2, <1>3, <2>1, <2>4, <2>5
<1>5. CASE executer[t] # e
  <2>1. Running(e)' \subseteq Running(e) BY <1>5 DEF Running
  <2>2. Cardinality(Running(e)') <= Cardinality(Running(e)) /\ Cardinality(Running(e)') \in Nat
    BY <1>3, <2>1, FS_Subset, FS_CardinalityType
  <2> QED BY <1>1, <1>2, <1>3, <2>2
<1> QED BY <1>4, <1>5

LEMMA LimitsUnchanged == ASSUME Throttled, UNCHANGED <<limit, original>> PROVE LimitsKept
BY DEF Throttled, LimitsKept

\* A task that is in the function already, or goes somewhere else.
LEMMA GoesOn ==
  ASSUME TypeInv, NEW t \in Task, NEW p \in Places, GoTo(t, p), UNCHANGED executer,
         pc[t] \in InBatch \/ p \notin InBatch
  PROVE  NoneBegins
BY GoToType DEF NoneBegins

LEMMA WayOut ==
  ASSUME TypeInv, NEW t \in Task, pc[t] \in InBatch,
         \/ Rejected(t)
         \/ ForcedRetry(t)
         \/ \E v \in {"0", "1", "null"} : Resolved(t, v)
  PROVE  NoneBegins
<1>1. PICK p \in {"waiting", "settled", "checking", "judging"} : GoTo(t, p) BY WayOutType
<1>2. UNCHANGED executer BY DEF Rejected, ForcedRetry, Resolved
<1> QED BY <1>1, <1>2, GoesOn

LEMMA EnqueueLimits ==
  ASSUME TypeInv, Throttled, NEW t \in Task, Enqueue(t), UNCHANGED original
  PROVE  NoneBegins /\ LimitsKept
<1> DEFINE e == <<getExecutersKey(t), generation>>
<1>1. NoneBegins BY DEF NoneBegins, Enqueue, GoTo, TypeInv, LifeType, BatchType
<1>2. limit' = [limit EXCEPT ![e] = NumJob[e[1]]] BY DEF Enqueue
<1>3. NumJob[e[1]] \in Nat BY KeyType, NumJobAssumption
<1>4. LimitsKept BY <1>2, <1>3, NumJobAssumption DEF LimitsKept, Throttled, TypeInv, LimitType
<1> QED BY <1>1, <1>4

LEMMA RestoreLimits ==
  ASSUME TypeInv, Throttled, NEW x \in Executer \union {NoExecuter}, RestoreLimit(x)
  PROVE  LimitsKept
<1> SUFFICES ASSUME NEW e \in Executer, e[1] # "step"
             PROVE  limit'[e] <= NumJob[e[1]] /\ original'[e] <= NumJob[e[1]]
  BY DEF LimitsKept
<1> DEFINE raised == IF original[x] # 0 /\ original[x] > limit[x] THEN limit[x] + 1 ELSE limit[x]
<1>1. /\ limit' = [limit EXCEPT ![x] = raised]
      /\ original' = [original EXCEPT ![x] = IF original[x] = raised THEN 0 ELSE original[x]]
  BY DEF RestoreLimit
<1>2. /\ limit[e] \in Int /\ original[e] \in Int /\ NumJob[e[1]] \in Nat
      /\ limit \in [Executer -> Int] /\ original \in [Executer -> Int]
  BY NumJobAssumption DEF TypeInv, LimitType
<1>3. limit[e] <= NumJob[e[1]] /\ original[e] <= NumJob[e[1]] BY DEF Throttled
<1>4. CASE e = x
  <2>1. raised <= NumJob[e[1]] BY <1>2, <1>3, <1>4
  <2>2. limit'[e] = raised /\ original'[e] \in {0, original[e]} BY <1>1, <1>2, <1>4
  <2> QED BY <1>2, <1>3, <2>1, <2>2
<1>5. CASE e # x
  <2>1. limit'[e] = limit[e] /\ original'[e] = original[e] BY <1>1, <1>2, <1>5
  <2> QED BY <1>3, <2>1
<1> QED BY <1>4, <1>5

LEMMA StepThrottled ==
  ASSUME TypeInv, Throttled, NEW t \in Task, exec(t) \/ Step(t)
  PROVE  Throttled'
<1>1. CASE BeginScript(t) \/ Park(t) \/ BeginSubmit(t)
  <2>1. /\ CanBegin(t) /\ UNCHANGED <<executer, limit, original>>
        /\ \E p \in {"script", "held", "submitting"} : GoTo(t, p)
    BY <1>1 DEF BeginScript, Park, BeginSubmit, Same, batch
  <2> QED BY <2>1, GoToType, BeginThrottled
<1>2. CASE exec(t) \/ register(t)
  <2>1. \/ Enqueue(t) /\ UNCHANGED original
        \/ /\ UNCHANGED <<executer, limit, original>>
           /\ GoTo(t, "settled") \/ GoTo(t, "stage-in")
    BY <1>2 DEF exec, register
  <2> QED BY <2>1, EnqueueLimits, GoesOn, LimitsUnchanged, NoneBeginsThrottled
<1>3. CASE stageIn(t) \/ BeginStageOut(t) \/ EndStageOut(t) \/ Complete(t)
  <2>1. /\ UNCHANGED <<executer, limit, original>>
        /\ \E p \in {"register", "settled", "stage-out", "delivered", "completed"} : GoTo(t, p)
    BY <1>3 DEF stageIn, BeginStageOut, EndStageOut, Complete, Same, batch
  <2> QED BY <2>1, GoesOn, LimitsUnchanged, NoneBeginsThrottled
<1>4. CASE HeadConfirmed(t) \/ runChecker(t) \/ Judge(t) \/ DecideRetry(t)
  <2>1. /\ UNCHANGED <<executer, limit, original>> /\ pc[t] \in InBatch
        /\ \E p \in {"submitting", "judging", "settled", "retrying", "waiting"} : GoTo(t, p)
    BY <1>4 DEF HeadConfirmed, runChecker, Judge, DecideRetry, RetryOrSettle, Same, batch
  <2> QED BY <2>1, GoesOn, LimitsUnchanged, NoneBeginsThrottled
<1>5. CASE ScriptEnds(t) \/ JobEnds(t) \/ JobLost(t) \/ SignalArrives(t)
           \/ SubmitRecoverable(t) \/ SubmitFails(t)
  <2>1. /\ UNCHANGED <<limit, original>> /\ pc[t] \in InBatch
        /\ \/ Rejected(t) \/ ForcedRetry(t)
           \/ \E v \in {"0", "1", "null"} : Resolved(t, v)
    BY <1>5 DEF ScriptEnds, JobEnds, JobLost, SignalArrives, SubmitRecoverable, SubmitFails
  <2> QED BY <2>1, WayOut, LimitsUnchanged, NoneBeginsThrottled
<1>6. CASE SubmitExceeded(t)
  <2> USE <1>6 DEF SubmitExceeded
  <2>1. NoneBegins BY WayOut
  <2>2. LimitsKept
    <3> SUFFICES ASSUME NEW e \in Executer, e[1] # "step"
                 PROVE  limit'[e] <= NumJob[e[1]] /\ original'[e] <= NumJob[e[1]]
      BY DEF LimitsKept
    <3>1. /\ limit[e] \in Int /\ original[e] \in Int /\ NumJob[e[1]] \in Nat
          /\ limit \in [Executer -> Int] /\ original \in [Executer -> Int]
      BY NumJobAssumption DEF TypeInv, LimitType
    <3>2. limit[e] <= NumJob[e[1]] /\ original[e] <= NumJob[e[1]] BY DEF Throttled
    <3>3. limit'[e] \in {limit[e], limit[e] - 1} /\ original'[e] \in {limit[e], original[e]}
      BY <3>1
    <3> QED BY <3>1, <3>2, <3>3
  <2> QED BY <2>1, <2>2, NoneBeginsThrottled
<1>7. CASE NoJobID(t)
  <2>1. NoneBegins BY <1>7, WayOut DEF NoJobID
  <2>2. LimitsKept BY <1>7, RestoreLimits DEF NoJobID, TypeInv, BatchType
  <2> QED BY <2>1, <2>2, NoneBeginsThrottled
<1>8. CASE Submitted(t)
  <2>1. NoneBegins BY <1>8, GoesOn DEF Submitted
  <2>2. LimitsKept BY <1>8, RestoreLimits DEF Submitted, TypeInv, BatchType
  <2> QED BY <2>1, <2>2, NoneBeginsThrottled
<1> QED BY <1>1, <1>2, <1>3, <1>4, <1>5, <1>6, <1>7, <1>8 DEF Step

LEMMA NextThrottled == TypeInv /\ Throttled /\ [Next]_vars => Throttled'
<1> SUFFICES ASSUME TypeInv, Throttled, [Next]_vars PROVE Throttled' OBVIOUS
<1>1. ASSUME UNCHANGED <<limit, original, executer>>,
             \A u \in Task : pc'[u] \in InBatch => pc[u] \in InBatch
      PROVE  Throttled'
  BY <1>1, LimitsUnchanged, NoneBeginsThrottled DEF NoneBegins
<1>2. CASE Stop
  BY <1>1, <1>2 DEF Stop, batch, TypeInv, LifeType
<1>3. ASSUME NEW t \in Task, cancelRemoteJob(t) PROVE Throttled'
  <2>1. UNCHANGED <<limit, original>> BY <1>3 DEF cancelRemoteJob
  <2>2. CASE pc[t] = "job" /\ Resolved(t, "null")
    BY <2>1, <2>2, WayOut, LimitsUnchanged, NoneBeginsThrottled
  <2>3. CASE UNCHANGED <<life, executer>> BY <1>1, <2>1, <2>3 DEF life
  <2> QED BY <1>3, <2>2, <2>3 DEF cancelRemoteJob
<1>4. CASE runDeferredCleanups \/ releaseRuntimeResources \/ UNCHANGED vars
           \/ \E t \in Task : Notice(t)
  BY <1>1, <1>4 DEF runDeferredCleanups, releaseRuntimeResources, Notice, vars, life, batch
<1> QED BY <1>2, <1>3, <1>4, StepThrottled DEF Next, End

LEMMA InitThrottled == Init => Throttled
<1> SUFFICES ASSUME Init, NEW e \in Executer
             PROVE  /\ Cardinality(Running(e)) <= NumJob[e[1]]
                    /\ limit[e] <= NumJob[e[1]] /\ original[e] <= NumJob[e[1]]
  BY DEF Throttled
<1>1. Running(e) = {} BY DEF Running, Init
<1>2. Cardinality(Running(e)) = 0 BY <1>1, FS_EmptySet
<1>3. NumJob[e[1]] \in Nat BY NumJobAssumption
<1> QED BY <1>2, <1>3 DEF Init

\* No host ever gets more than it is configured for, however many tasks there
\* are, however often its limit was reduced, restored and set anew, and whatever
\* a stop does to the queues (Executer.submit, simple-batch-system).
THEOREM LimitsHold == Spec => []Throttled
BY InitThrottled, NextThrottled, TypeInvariance, PTL DEF Spec

-----------------------------------------------------------------------------
(* The chain of stepjobs.  A child gets to the scheduler only through a     *)
(* promise that the head resolves once it has its job ID, and no job ID is  *)
(* ever forgotten.                                                          *)

HeadKnown == confirmed # {} => \E h \in Task : Kind[h] = "head" /\ jobID[h]
ChildHeld ==
  \A t \in Task : Kind[t] = "child" /\ pc[t] \in {"submitting", "job"} => confirmed # {}

Chained == HeadKnown /\ ChildHeld

NoneSubmits ==
  /\ UNCHANGED <<confirmed, jobID>>
  /\ \A u \in Task : Kind[u] = "child" /\ pc'[u] \in {"submitting", "job"} =>
       pc[u] \in {"submitting", "job"}

LEMMA NoneSubmitsChained == ASSUME Chained, NoneSubmits PROVE Chained'
BY DEF Chained, HeadKnown, ChildHeld, NoneSubmits

LEMMA NextChained == TypeInv /\ Chained /\ [Next]_vars => Chained'
<1> SUFFICES ASSUME TypeInv, Chained, [Next]_vars PROVE Chained' OBVIOUS
<1>1. ASSUME NEW t \in Task,
             UNCHANGED <<confirmed, jobID>>,
             \E p \in Places : GoTo(t, p) /\ (Kind[t] = "child" => p \notin {"submitting", "job"})
      PROVE  Chained'
  BY <1>1, GoToType, NoneSubmitsChained DEF NoneSubmits
<1>2. ASSUME NEW t \in Task, UNCHANGED <<confirmed, jobID>>,
             \/ Rejected(t) \/ ForcedRetry(t)
             \/ \E v \in {"0", "1", "null"} : Resolved(t, v)
      PROVE  Chained'
  BY <1>1, <1>2, WayOutType
<1>3. ASSUME NEW t \in Task, exec(t) \/ Step(t) PROVE Chained'
  <2>1. CASE \/ exec(t) \/ stageIn(t) \/ register(t)
             \/ BeginStageOut(t) \/ EndStageOut(t) \/ Complete(t)
    <3>1. /\ UNCHANGED <<confirmed, jobID>>
          /\ \E p \in Places \ {"submitting", "job"} : GoTo(t, p)
      BY <2>1 DEF exec, stageIn, register, Enqueue, BeginStageOut, EndStageOut, Complete, Same,
                  chain, jobs
    <3> QED BY <1>1, <3>1
  <2>5. CASE BeginScript(t) \/ Park(t) \/ BeginSubmit(t) \/ runChecker(t) \/ Judge(t) \/ DecideRetry(t)
    <3>1. /\ UNCHANGED <<confirmed, jobID>>
          /\ \E p \in {"script", "held", "submitting", "judging", "settled", "retrying", "waiting"} :
               GoTo(t, p) /\ (Kind[t] = "child" => p # "submitting")
      BY <2>5 DEF BeginScript, Park, BeginSubmit, runChecker, Judge, DecideRetry, RetryOrSettle,
                  Same, chain, jobs
    <3> QED BY <1>1, <3>1
  <2>2. CASE \/ ScriptEnds(t) \/ SignalArrives(t) \/ SubmitExceeded(t) \/ SubmitRecoverable(t)
             \/ SubmitFails(t) \/ NoJobID(t) \/ JobEnds(t) \/ JobLost(t)
    BY <1>2, <2>2
    DEF ScriptEnds, SignalArrives, SubmitExceeded, SubmitRecoverable, SubmitFails, NoJobID,
        JobEnds, JobLost, chain, jobs
  <2>3. CASE HeadConfirmed(t)
    <3>1. confirmed # {} BY <2>3 DEF HeadConfirmed
    <3> QED BY <2>3, <3>1 DEF HeadConfirmed, Same, chain, jobs, Chained, HeadKnown, ChildHeld
  <2>4. CASE Submitted(t)
    <3>1. jobID' = [jobID EXCEPT ![t] = TRUE] /\ jobID \in [Task -> BOOLEAN]
      BY <2>4 DEF Submitted, TypeInv, JobType
    <3>2. confirmed \subseteq confirmed' BY <2>4 DEF Submitted
    <3>3. CASE Kind[t] = "head"
      <4>1. HeadKnown' BY <3>1, <3>3 DEF HeadKnown
      <4>2. ChildHeld' BY <2>4, <3>2, <3>3, GoToType DEF Submitted, Chained, ChildHeld
      <4> QED BY <4>1, <4>2 DEF Chained
    <3>4. CASE Kind[t] # "head"
      <4>1. confirmed' = confirmed BY <2>4, <3>4 DEF Submitted
      <4>2. HeadKnown' BY <3>1, <4>1 DEF Chained, HeadKnown
      <4>3. ChildHeld' BY <2>4, <4>1, GoToType DEF Submitted, Chained, ChildHeld
      <4> QED BY <4>2, <4>3 DEF Chained
    <3> QED BY <3>3, <3>4
  <2> QED BY <1>3, <2>1, <2>2, <2>3, <2>4, <2>5 DEF Step
<1>4. CASE Stop
  <2>1. UNCHANGED <<confirmed, jobID>> BY <1>4 DEF Stop, chain, jobs
  <2>2. \A u \in Task : pc'[u] \in {pc[u], "withdrawn", "signalled"} BY <1>4 DEF Stop
  <2> QED BY <2>1, <2>2, NoneSubmitsChained DEF NoneSubmits
<1>5. ASSUME NEW t \in Task, cancelRemoteJob(t) PROVE Chained'
  <2>1. UNCHANGED <<confirmed, jobID>> BY <1>5 DEF cancelRemoteJob, chain
  <2>2. CASE UNCHANGED life
    BY <2>1, <2>2, NoneSubmitsChained DEF NoneSubmits, life
  <2> QED BY <1>2, <1>5, <2>1, <2>2 DEF cancelRemoteJob
<1>6. CASE runDeferredCleanups \/ releaseRuntimeResources \/ UNCHANGED vars
           \/ \E t \in Task : Notice(t)
  BY <1>6, NoneSubmitsChained
  DEF NoneSubmits, runDeferredCleanups, releaseRuntimeResources, Notice, vars, life, chain, jobs
<1> QED BY <1>3, <1>4, <1>5, <1>6 DEF Next, End

\* A child of a chain of stepjobs is submitted only after the head of the chain
\* has a job ID, through retries of either and through a stop
\* (StepjobTaskExecuter.exec).
THEOREM ChainInOrder == Spec => []HeadFirst
<1>1. Init => Chained BY DEF Init, Chained, HeadKnown, ChildHeld
<1>2. Chained => HeadFirst BY DEF Chained, HeadKnown, ChildHeld, HeadFirst
<1> QED BY <1>1, <1>2, NextChained, TypeInvariance, PTL DEF Spec

-----------------------------------------------------------------------------
(* A step of one task leaves the others and the run as they are.           *)

Local(t) ==
  /\ \A u \in Task : u # t =>
       /\ pc'[u] = pc[u] /\ state'[u] = state[u]
       /\ executer'[u] = executer[u] /\ tries'[u] = tries[u]
       /\ remoteDir'[u] = remoteDir[u] /\ (u \in deferred' <=> u \in deferred)
  /\ UNCHANGED run

\* What becomes of a task that gets out of the function of the batch queue.
Out(t) ==
  /\ executer'[t] = executer[t]
  /\ \/ pc'[t] \in {"waiting", "settled"} /\ state'[t] = "failed"
     \/ pc'[t] = "settled" /\ state[t] = "not-started" /\ state'[t] = "not-started"
     \/ pc'[t] \in {"checking", "judging"} /\ state'[t] = state[t]

LEMMA StateLocal ==
  ASSUME TypeInv, NEW t \in Task, NEW s \in States, setTaskState(t, s)
  PROVE  state'[t] = s /\ \A u \in Task : u # t => state'[u] = state[u]
BY DEF TypeInv, LifeType, setTaskState

LEMMA TriesLocal ==
  ASSUME TypeInv, NEW t \in Task, RetryOrSettle(t)
  PROVE  \A u \in Task : u # t => tries'[u] = tries[u]
BY DEF TypeInv, BatchType, RetryOrSettle

LEMMA WayOutLocal ==
  ASSUME TypeInv, NEW t \in Task,
         \/ Rejected(t)
         \/ ForcedRetry(t)
         \/ \E v \in {"0", "1", "null"} : Resolved(t, v)
  PROVE  /\ Out(t) /\ UNCHANGED executer
         /\ \A u \in Task : u # t =>
              /\ pc'[u] = pc[u] /\ state'[u] = state[u] /\ tries'[u] = tries[u]
<1>1. CASE Rejected(t)
  <2>1. PICK p \in {"waiting", "settled"} : GoTo(t, p)
    BY <1>1, RetryOrSettleType DEF Rejected
  <2> QED BY <1>1, <2>1, GoToType, StateLocal, TriesLocal DEF Rejected, Out
<1>2. CASE ForcedRetry(t)
  BY <1>2, GoToType, StateLocal DEF ForcedRetry, Out
<1>3. ASSUME NEW v \in {"0", "1", "null"}, Resolved(t, v)
      PROVE  /\ Out(t) /\ UNCHANGED executer
             /\ \A u \in Task : u # t =>
                  /\ pc'[u] = pc[u] /\ state'[u] = state[u] /\ tries'[u] = tries[u]
  <2>1. \/ state[t] = "not-started" /\ GoTo(t, "settled")
        \/ GoTo(t, "checking") \/ GoTo(t, "judging")
    BY <1>3 DEF Resolved
  <2>2. UNCHANGED <<state, executer, tries>> BY <1>3 DEF Resolved, Silent
  <2> QED BY <2>1, <2>2, GoToType DEF Out
<1> QED BY <1>1, <1>2, <1>3

LEMMA EnqueueLocal ==
  ASSUME TypeInv, NEW t \in Task, Enqueue(t)
  PROVE  /\ pc'[t] = "waiting" /\ state'[t] = "waiting" /\ executer'[t] # NoExecuter
         /\ \A u \in Task : u # t =>
              pc'[u] = pc[u] /\ state'[u] = state[u] /\ executer'[u] = executer[u]
<1>1. getExecutersKey(t) # "none" BY KeyType
<1> QED BY <1>1 DEF Enqueue, GoTo, TypeInv, LifeType, BatchType

LEMMA StepLocal ==
  ASSUME TypeInv, NEW t \in Task, exec(t) \/ Step(t)
  PROVE  Local(t)
<1>1. CASE exec(t)
  <2>1. UNCHANGED <<tries, remoteDir, deferred, run>> BY <1>1 DEF exec, KeepRun, files
  <2>2. CASE OnRemote(t)
    <3>1. UNCHANGED executer /\ \E p \in {"settled", "stage-in"} : GoTo(t, p)
      BY <1>1, <2>2 DEF exec
    <3>2. \A u \in Task : u # t => state'[u] = state[u]
      BY <1>1, <2>2 DEF exec, TypeInv, LifeType
    <3> QED BY <2>1, <3>1, <3>2, GoToType DEF Local
  <2>3. CASE ~OnRemote(t)
    BY <1>1, <2>1, <2>3, EnqueueLocal DEF exec, Local
  <2> QED BY <2>2, <2>3
<1>2. CASE stageIn(t) \/ EndStageOut(t)
  <2>1. UNCHANGED <<executer, tries, run>>
    BY <1>2 DEF stageIn, EndStageOut, batch, KeepRun
  <2>2. \A u \in Task : u # t => pc'[u] = pc[u]
    BY <1>2, GoToType DEF stageIn, EndStageOut
  <2>3. \A u \in Task : u # t => state'[u] = state[u]
    BY <1>2, StateLocal DEF stageIn, EndStageOut, Silent
  <2>4. \A u \in Task : u # t => remoteDir'[u] = remoteDir[u] /\ (u \in deferred' <=> u \in deferred)
    BY <1>2 DEF stageIn, EndStageOut, CleanUpRemote, files, TypeInv, FileType
  <2> QED BY <2>1, <2>2, <2>3, <2>4 DEF Local
<1>3. CASE register(t)
  <2>1. UNCHANGED <<tries, remoteDir, deferred, run>> BY <1>3 DEF register, KeepRun, files
  <2>2. CASE ssh BY <1>3, <2>1, <2>2, EnqueueLocal DEF register, Local
  <2>3. CASE ~ssh BY <1>3, <2>1, <2>3, GoToType DEF register, Local
  <2> QED BY <2>2, <2>3
<1>4. CASE BeginScript(t) \/ HeadConfirmed(t) \/ BeginSubmit(t) \/ BeginStageOut(t)
           \/ runChecker(t) \/ Complete(t) \/ Park(t)
  <2>1. UNCHANGED <<executer, tries, remoteDir, deferred, run>>
    BY <1>4 DEF BeginScript, HeadConfirmed, BeginSubmit, BeginStageOut, runChecker, Complete, Park,
                Same, KeepRun, batch, files
  <2>2. \A u \in Task : u # t => pc'[u] = pc[u]
    BY <1>4, GoToType
    DEF BeginScript, HeadConfirmed, BeginSubmit, BeginStageOut, runChecker, Complete, Park
  <2>3. \A u \in Task : u # t => state'[u] = state[u]
    BY <1>4, StateLocal
    DEF BeginScript, HeadConfirmed, BeginSubmit, BeginStageOut, runChecker, Complete, Park, Silent
  <2> QED BY <2>1, <2>2, <2>3 DEF Local
<1>5. CASE Judge(t) \/ DecideRetry(t)
  <2>1. UNCHANGED <<executer, remoteDir, deferred, run>>
    BY <1>5 DEF Judge, DecideRetry, Same, KeepRun, batch, files
  <2>2. \A u \in Task : u # t => pc'[u] = pc[u]
    BY <1>5, GoToType DEF Judge, DecideRetry, RetryOrSettle
  <2>3. \A u \in Task : u # t => tries'[u] = tries[u]
    BY <1>5, TriesLocal DEF Judge, DecideRetry, Same, batch
  <2>4. FinishStates(t) \subseteq States BY DEF FinishStates
  <2>5. \A u \in Task : u # t => state'[u] = state[u]
    BY <1>5, <2>4, StateLocal DEF Judge, DecideRetry, Silent
  <2> QED BY <2>1, <2>2, <2>3, <2>5 DEF Local
<1>6. CASE ScriptEnds(t) \/ SignalArrives(t) \/ SubmitExceeded(t) \/ SubmitRecoverable(t)
           \/ SubmitFails(t) \/ NoJobID(t) \/ JobEnds(t) \/ JobLost(t)
  <2>1. /\ \/ Rejected(t) \/ ForcedRetry(t)
           \/ \E v \in {"0", "1", "null"} : Resolved(t, v)
        /\ UNCHANGED <<remoteDir, deferred, run>>
    BY <1>6 DEF ScriptEnds, SignalArrives, SubmitExceeded, SubmitRecoverable, SubmitFails, NoJobID,
                JobEnds, JobLost, KeepRun, files
  <2> QED BY <2>1, WayOutLocal DEF Local
<1>7. CASE Submitted(t)
  <2>1. UNCHANGED <<executer, tries, remoteDir, deferred, run>>
    BY <1>7 DEF Submitted, KeepRun, files
  <2>2. \A u \in Task : u # t => pc'[u] = pc[u] BY <1>7, GoToType DEF Submitted
  <2>3. \A u \in Task : u # t => state'[u] = state[u]
    BY <1>7, StateLocal DEF Submitted, Silent
  <2> QED BY <2>1, <2>2, <2>3 DEF Local
<1> QED BY <1>1, <1>2, <1>3, <1>4, <1>5, <1>6, <1>7 DEF Step

-----------------------------------------------------------------------------
(* Where a task is and what it knows.  A task is attempted before it can    *)
(* succeed, and is in no state of its own only when a stop has reset it or  *)
(* has taken the connections away.                                          *)

Stopped == stop \notin {"no", "cleaned"}

Attempted(t) ==
  /\ pc[t] \in {"none", "stage-in", "register"} => executer[t] = NoExecuter
  /\ executer[t] = NoExecuter => tries[t] = 0
  /\ pc[t] \in InBatch \union {"waiting"} => executer[t] # NoExecuter
  /\ pc[t] \in {"settled", "stage-out", "delivered"} /\ state[t] \in {"finished", "stage-out"} =>
       executer[t] # NoExecuter \/ t \in Resumed

Recorded(t) ==
  /\ pc[t] = "none" => state[t] \in {"not-started", "stage-out"}
  /\ pc[t] \in {"stage-in", "register"} => state[t] \notin {"finished", "stage-out"}
  /\ pc[t] = "stage-out" => state[t] = "stage-out"
  /\ pc[t] = "delivered" => state[t] \in {"finished", "stage-out"}
  /\ pc[t] = "settled" => state[t] \in {"finished", "failed"} \/ Stopped
  /\ pc[t] \notin {"none", "completed", "withdrawn"} /\ state[t] = "not-started" => Stopped

PlaceInv ==
  /\ ~ssh => stop = "released"
  /\ \A t \in Task : Attempted(t) /\ Recorded(t)

LEMMA LocalPlaces ==
  ASSUME PlaceInv, NEW t \in Task, Local(t), Attempted(t)', Recorded(t)', UNCHANGED <<ssh, stop>>
  PROVE  PlaceInv'
BY DEF PlaceInv, Local, Attempted, Recorded, Stopped

LEMMA StepPlaces ==
  ASSUME TypeInv, PlaceInv, NEW t \in Task, exec(t) \/ Step(t)
  PROVE  Attempted(t)' /\ Recorded(t)'
<1> USE DEF PlaceInv
<1>0. UNCHANGED <<ssh, stop>> BY StepLocal DEF Local, run
<1>1. CASE exec(t)
  <2>1. UNCHANGED tries /\ executer[t] = NoExecuter /\ tries[t] = 0 BY <1>1 DEF exec, Attempted
  <2>2. CASE OnRemote(t)
    <3>1. /\ UNCHANGED executer
          /\ \/ t \in Resumed /\ pc'[t] = "settled" /\ state'[t] = "finished"
             \/ pc'[t] = "stage-in" /\ state'[t] = "stage-in"
      BY <1>1, <2>2, GoToType DEF exec, TypeInv, LifeType
    <3> QED BY <1>0, <2>1, <3>1 DEF Attempted, Recorded, Stopped
  <2>3. CASE ~OnRemote(t)
    BY <1>0, <1>1, <2>1, <2>3, EnqueueLocal DEF exec, Attempted, Recorded, Stopped
  <2> QED BY <2>2, <2>3
<1>2. CASE stageIn(t)
  <2>1. UNCHANGED <<tries, executer>> /\ executer[t] = NoExecuter /\ tries[t] = 0
    BY <1>2 DEF stageIn, batch, Attempted
  <2>2. \/ pc'[t] = "register" /\ state'[t] = state[t]
        \/ pc'[t] = "settled" /\ state'[t] = "failed"
    BY <1>2, GoToType, StateLocal DEF stageIn, Silent
  <2> QED BY <1>0, <1>2, <2>1, <2>2 DEF stageIn, Attempted, Recorded, Stopped
<1>3. CASE register(t)
  <2>1. UNCHANGED tries /\ executer[t] = NoExecuter /\ tries[t] = 0
    BY <1>3 DEF register, Attempted
  <2>2. CASE ssh
    BY <1>0, <1>3, <2>1, <2>2, EnqueueLocal DEF register, Attempted, Recorded, Stopped
  <2>3. CASE ~ssh
    <3>1. pc'[t] = "settled" /\ state'[t] = state[t] /\ executer'[t] = executer[t]
      BY <1>3, <2>3, GoToType DEF register
    <3> QED BY <1>0, <1>3, <2>1, <2>3, <3>1 DEF register, Attempted, Recorded, Stopped
  <2> QED BY <2>2, <2>3
<1>4. CASE BeginScript(t) \/ Park(t) \/ BeginSubmit(t) \/ HeadConfirmed(t) \/ runChecker(t)
  <2>1. UNCHANGED <<executer, tries>> /\ executer[t] # NoExecuter
    BY <1>4 DEF BeginScript, Park, BeginSubmit, HeadConfirmed, runChecker, CanBegin, Same, batch,
                Attempted
  <2>2. /\ pc[t] \in InBatch \union {"waiting"} /\ pc'[t] \in InBatch
        /\ state'[t] \in {state[t], "running"}
    BY <1>4, GoToType, StateLocal
    DEF BeginScript, Park, BeginSubmit, HeadConfirmed, runChecker, CanBegin, Silent
  <2> QED BY <1>0, <2>1, <2>2 DEF Attempted, Recorded, Stopped
<1>5. CASE Judge(t) \/ DecideRetry(t)
  <2>1. UNCHANGED executer /\ executer[t] # NoExecuter
    BY <1>5 DEF Judge, DecideRetry, Same, batch, Attempted
  <2>2. FinishStates(t) \subseteq {"finished", "failed"} BY DEF FinishStates
  <2>3. \/ pc'[t] = "settled" /\ state'[t] \in {"finished", "failed"}
        \/ pc'[t] \in {"retrying", "waiting"} /\ state'[t] = state[t]
    BY <1>5, <2>2, GoToType, StateLocal, RetryOrSettleType DEF Judge, DecideRetry, Silent
  <2>4. pc[t] \in InBatch BY <1>5 DEF Judge, DecideRetry
  <2> QED BY <1>0, <2>1, <2>3, <2>4 DEF Attempted, Recorded, Stopped
<1>6. CASE BeginStageOut(t) \/ EndStageOut(t)
  <2>1. UNCHANGED <<executer, tries>> BY <1>6 DEF BeginStageOut, EndStageOut, Same, batch
  <2>2. \/ /\ pc[t] = "settled" /\ state[t] = "finished"
           /\ pc'[t] = "stage-out" /\ state'[t] = "stage-out"
        \/ pc[t] = "stage-out" /\ pc'[t] = "delivered" /\ state'[t] \in {"finished", state[t]}
    BY <1>6, GoToType, StateLocal DEF BeginStageOut, EndStageOut, Silent
  <2> QED BY <1>0, <2>1, <2>2 DEF Attempted, Recorded, Stopped
<1>7. CASE Complete(t)
  <2>1. UNCHANGED <<executer, tries, state>> /\ pc'[t] = "completed"
    BY <1>7, GoToType DEF Complete, Same, batch, Silent
  <2> QED BY <1>0, <2>1 DEF Attempted, Recorded, Stopped
<1>8. CASE ScriptEnds(t) \/ SignalArrives(t) \/ SubmitExceeded(t) \/ SubmitRecoverable(t)
           \/ SubmitFails(t) \/ NoJobID(t) \/ JobEnds(t) \/ JobLost(t)
  <2>1. \/ Rejected(t) \/ ForcedRetry(t)
        \/ \E v \in {"0", "1", "null"} : Resolved(t, v)
    BY <1>8 DEF ScriptEnds, SignalArrives, SubmitExceeded, SubmitRecoverable, SubmitFails, NoJobID,
                JobEnds, JobLost
  <2>2. Out(t) BY <2>1, WayOutLocal
  <2>3. pc[t] \in InBatch
    BY <1>8 DEF ScriptEnds, SignalArrives, SubmitExceeded, SubmitRecoverable, SubmitFails, NoJobID,
                JobEnds, JobLost
  <2> QED BY <1>0, <2>2, <2>3 DEF Out, Attempted, Recorded, Stopped
<1>9. CASE Submitted(t)
  <2>1. UNCHANGED executer /\ pc[t] = "submitting" /\ pc'[t] = "job"
    BY <1>9, GoToType DEF Submitted
  <2>2. state'[t] \in {state[t], "running"} BY <1>9, StateLocal DEF Submitted, Silent
  <2> QED BY <1>0, <2>1, <2>2 DEF Attempted, Recorded, Stopped
<1> QED BY <1>1, <1>2, <1>3, <1>4, <1>5, <1>6, <1>7, <1>8, <1>9 DEF Step

LEMMA NextPlaces == TypeInv /\ PlaceInv /\ [Next]_vars => PlaceInv'
<1> SUFFICES ASSUME TypeInv, PlaceInv, [Next]_vars PROVE PlaceInv' OBVIOUS
<1>1. ASSUME NEW t \in Task, exec(t) \/ Step(t) PROVE PlaceInv'
  <2>1. UNCHANGED <<ssh, stop>> BY <1>1, StepLocal DEF Local, run
  <2> QED BY <1>1, <2>1, StepPlaces, StepLocal, LocalPlaces
<1>2. CASE Stop
  <2>1. UNCHANGED <<executer, tries, ssh>> /\ Stopped' /\ ssh
    BY <1>2 DEF Stop, batch, Stopped, PlaceInv
  <2>2. ASSUME NEW t \in Task PROVE Attempted(t)' /\ Recorded(t)'
    <3>1. CASE t \notin Cancelled
      <4>1. pc'[t] = pc[t] /\ state'[t] = state[t] BY <1>2, <3>1 DEF Stop
      <4> QED BY <2>1, <4>1 DEF PlaceInv, Attempted, Recorded
    <3>2. CASE t \in Cancelled
      <4>1. pc[t] \notin {"none", "completed", "withdrawn", "stage-out", "delivered"}
        BY <3>2 DEF Cancelled, Dispatched, PlaceInv, Recorded
      <4>2. /\ state'[t] = "not-started"
            /\ pc'[t] \in {pc[t], "withdrawn", "signalled"}
            /\ pc'[t] = "withdrawn" => pc[t] = "waiting"
            /\ pc'[t] = "signalled" => pc[t] \in {"held", "signalled"}
        BY <1>2, <3>2, <4>1 DEF Stop
      <4> QED BY <2>1, <4>1, <4>2 DEF PlaceInv, Attempted, Recorded
    <3> QED BY <3>1, <3>2
  <2> QED BY <2>1, <2>2 DEF PlaceInv
<1>3. ASSUME NEW t \in Task, cancelRemoteJob(t) PROVE PlaceInv'
  <2>1. UNCHANGED ssh /\ Stopped /\ Stopped' /\ ssh
    BY <1>3 DEF cancelRemoteJob, Stopped, PlaceInv
  <2>2. CASE pc[t] = "job" /\ Resolved(t, "null")
    <3>1. /\ Out(t) /\ UNCHANGED executer
          /\ \A u \in Task : u # t =>
               /\ pc'[u] = pc[u] /\ state'[u] = state[u] /\ tries'[u] = tries[u]
      BY <2>2, WayOutLocal
    <3>2. Attempted(t)' /\ Recorded(t)'
      BY <2>1, <2>2, <3>1 DEF Out, PlaceInv, Attempted, Recorded
    <3> QED BY <2>1, <3>1, <3>2 DEF PlaceInv, Attempted, Recorded
  <2>3. CASE UNCHANGED <<life, executer, tries>>
    BY <2>1, <2>3 DEF life, PlaceInv, Attempted, Recorded
  <2> QED BY <1>3, <2>2, <2>3 DEF cancelRemoteJob
<1>4. CASE runDeferredCleanups \/ releaseRuntimeResources
  <2>1. UNCHANGED <<pc, state, executer, tries>> /\ (Stopped => Stopped')
    BY <1>4 DEF runDeferredCleanups, releaseRuntimeResources, life, batch, Stopped
  <2>2. ~ssh' => stop' = "released"
    BY <1>4 DEF runDeferredCleanups, releaseRuntimeResources, PlaceInv
  <2> QED BY <2>1, <2>2 DEF PlaceInv, Attempted, Recorded
<1>5. CASE UNCHANGED vars \/ \E t \in Task : Notice(t)
  <2>1. UNCHANGED <<pc, state, executer, tries, ssh, stop>> BY <1>5 DEF Notice, vars, life, batch, run
  <2> QED BY <2>1 DEF PlaceInv, Attempted, Recorded, Stopped
<1> QED BY <1>1, <1>2, <1>3, <1>4, <1>5 DEF Next, End

LEMMA InitPlaces == Init => PlaceInv
BY DEF Init, PlaceInv, Attempted, Recorded, Stopped

LEMMA PlaceInvariance == Spec => [](TypeInv /\ PlaceInv)
BY InitPlaces, NextPlaces, InitTypeInv, NextTypeInv, PTL DEF Spec

-----------------------------------------------------------------------------
(* TaskExecution implements TaskLife.                                       *)

AttemptsOf(t) == IF executer[t] = NoExecuter THEN 0 ELSE tries[t] + 1
VerdictOf(t) ==
  CASE pc[t] = "withdrawn" -> "withdrawn"
    [] pc[t] = "completed" ->
         (CASE state[t] \in {"finished", "stage-out"} -> "succeeded"
            [] state[t] = "failed" -> "failed"
            [] OTHER -> "withdrawn")
    [] OTHER -> "none"

\* Attempts are granted by the queue of an executer and by its retries.
LEMMA StepAttempts ==
  ASSUME TypeInv, PlaceInv, NEW t \in Task, exec(t) \/ Step(t)
  PROVE  \/ AttemptsOf(t)' = AttemptsOf(t)
         \/ /\ AttemptsOf(t)' = AttemptsOf(t) + 1 /\ AttemptsOf(t) <= retryBound(t)
            /\ pc'[t] = "waiting"
<1>0. tries[t] \in Nat /\ retryBound(t) \in Nat
  BY RetryAssumption DEF TypeInv, BatchType, retryBound
<1>1. CASE RetryOrSettle(t) /\ UNCHANGED executer /\ pc[t] \in InBatch
  <2>1. executer[t] # NoExecuter BY <1>1 DEF PlaceInv, Attempted
  <2>2. \/ UNCHANGED tries
        \/ tries[t] < retryBound(t) /\ tries'[t] = tries[t] + 1 /\ pc'[t] = "waiting"
    BY <1>1, GoToType DEF RetryOrSettle, TypeInv, BatchType
  <2> QED BY <1>0, <1>1, <2>1, <2>2 DEF AttemptsOf
<1>2. CASE UNCHANGED <<executer, tries>>
  BY <1>2 DEF AttemptsOf
<1>3. CASE Enqueue(t) /\ UNCHANGED tries /\ pc[t] \in {"none", "register"}
  <2>1. executer[t] = NoExecuter /\ tries[t] = 0 BY <1>3 DEF PlaceInv, Attempted
  <2>2. executer'[t] # NoExecuter /\ pc'[t] = "waiting" BY <1>3, EnqueueLocal
  <2> QED BY <1>0, <1>3, <2>1, <2>2 DEF AttemptsOf
<1>4. CASE \/ exec(t) \/ stageIn(t) \/ register(t) \/ BeginScript(t) \/ Park(t) \/ HeadConfirmed(t)
           \/ BeginSubmit(t) \/ runChecker(t) \/ Judge(t) \/ BeginStageOut(t) \/ EndStageOut(t)
           \/ Complete(t) \/ Submitted(t)
  <2>1. \/ UNCHANGED <<executer, tries>>
        \/ Enqueue(t) /\ UNCHANGED tries /\ pc[t] \in {"none", "register"}
    BY <1>4 DEF exec, stageIn, register, BeginScript, Park, HeadConfirmed, BeginSubmit, runChecker,
                Judge, BeginStageOut, EndStageOut, Complete, Submitted, Same, batch
  <2> QED BY <2>1, <1>2, <1>3
<1>5. CASE \/ DecideRetry(t) \/ ScriptEnds(t) \/ SignalArrives(t) \/ SubmitExceeded(t)
           \/ SubmitRecoverable(t) \/ SubmitFails(t) \/ NoJobID(t) \/ JobEnds(t) \/ JobLost(t)
  <2>1. \/ UNCHANGED <<executer, tries>>
        \/ RetryOrSettle(t) /\ UNCHANGED executer /\ pc[t] \in InBatch
    BY <1>5 DEF DecideRetry, ScriptEnds, SignalArrives, SubmitExceeded, SubmitRecoverable,
                SubmitFails, NoJobID, JobEnds, JobLost, Rejected, ForcedRetry, Resolved
  <2> QED BY <2>1, <1>1, <1>2
<1> QED BY <1>4, <1>5 DEF Step

\* Only Complete() gives a verdict.
LEMMA StepPlace ==
  ASSUME TypeInv, NEW t \in Task, exec(t) \/ Step(t)
  PROVE  /\ pc[t] \notin {"completed", "withdrawn"} /\ pc'[t] # "withdrawn"
         /\ pc'[t] = "completed" => Complete(t)
<1>1. CASE \/ exec(t) \/ stageIn(t) \/ register(t) \/ BeginScript(t) \/ Park(t) \/ HeadConfirmed(t)
           \/ BeginSubmit(t) \/ runChecker(t) \/ Judge(t) \/ DecideRetry(t) \/ BeginStageOut(t)
           \/ EndStageOut(t) \/ Submitted(t)
  <2>1. \E p \in Places \ {"completed", "withdrawn"} : GoTo(t, p)
    BY <1>1 DEF exec, stageIn, register, Enqueue, BeginScript, Park, HeadConfirmed, BeginSubmit,
                runChecker, Judge, DecideRetry, RetryOrSettle, BeginStageOut, EndStageOut, Submitted
  <2>2. pc[t] \notin {"completed", "withdrawn"}
    BY <1>1 DEF exec, stageIn, register, BeginScript, Park, HeadConfirmed, BeginSubmit, CanBegin,
                runChecker, Judge, DecideRetry, BeginStageOut, EndStageOut, Submitted
  <2> QED BY <2>1, <2>2, GoToType
<1>2. CASE \/ ScriptEnds(t) \/ SignalArrives(t) \/ SubmitExceeded(t)
           \/ SubmitRecoverable(t) \/ SubmitFails(t) \/ NoJobID(t) \/ JobEnds(t) \/ JobLost(t)
  <2>1. /\ pc[t] \in InBatch
        /\ \/ Rejected(t) \/ ForcedRetry(t)
           \/ \E v \in {"0", "1", "null"} : Resolved(t, v)
    BY <1>2 DEF ScriptEnds, SignalArrives, SubmitExceeded, SubmitRecoverable, SubmitFails, NoJobID,
                JobEnds, JobLost
  <2> QED BY <2>1, WayOutType, GoToType
<1>3. CASE Complete(t) BY <1>3, GoToType DEF Complete
<1> QED BY <1>1, <1>2, <1>3 DEF Step

LEMMA StepVerdict ==
  ASSUME TypeInv, PlaceInv, NEW t \in Task, exec(t) \/ Step(t)
  PROVE  /\ VerdictOf(t) = "none"
         /\ \/ VerdictOf(t)' = "none"
            \/ /\ AttemptsOf(t)' = AttemptsOf(t)
               /\ VerdictOf(t)' \in {"succeeded", "failed", "withdrawn"}
               /\ VerdictOf(t)' = "succeeded" => AttemptsOf(t) > 0 \/ t \in Resumed
               /\ VerdictOf(t)' = "withdrawn" => Stopped
<1>1. VerdictOf(t) = "none" BY StepPlace DEF VerdictOf
<1>2. CASE pc'[t] # "completed" BY <1>1, <1>2, StepPlace DEF VerdictOf
<1>3. CASE pc'[t] = "completed"
  <2> USE DEF PlaceInv
  <2>1. Complete(t) BY <1>3, StepPlace
  <2>2. UNCHANGED <<state, executer, tries>> BY <2>1 DEF Complete, Silent, Same, batch
  <2>3. state[t] \in {"finished", "stage-out"} => executer[t] # NoExecuter \/ t \in Resumed
    BY <2>1 DEF Complete, Attempted
  <2>4. state[t] \notin {"finished", "stage-out", "failed"} => Stopped
    BY <2>1 DEF Complete, Recorded
  <2>5. tries[t] \in Nat BY DEF TypeInv, BatchType
  <2>6. CASE state[t] \in {"finished", "stage-out"}
    <3>1. VerdictOf(t)' = "succeeded" BY <1>3, <2>2, <2>6 DEF VerdictOf
    <3> QED BY <1>1, <2>2, <2>3, <2>5, <2>6, <3>1 DEF AttemptsOf
  <2>7. CASE state[t] = "failed"
    <3>1. VerdictOf(t)' = "failed" BY <1>3, <2>2, <2>7 DEF VerdictOf
    <3> QED BY <1>1, <2>2, <3>1 DEF AttemptsOf
  <2>8. CASE state[t] \notin {"finished", "stage-out", "failed"}
    <3>1. VerdictOf(t)' = "withdrawn" BY <1>3, <2>2, <2>8 DEF VerdictOf
    <3> QED BY <1>1, <2>2, <2>4, <2>8, <3>1 DEF AttemptsOf
  <2> QED BY <2>6, <2>7, <2>8
<1> QED BY <1>2, <1>3

\* The variables of TaskLife, as TaskExecution sees them.
Attempts == [t \in Task |-> AttemptsOf(t)]
Verdict == [t \in Task |-> VerdictOf(t)]

LEMMA LifeVars ==
  UNCHANGED <<Attempts, Verdict, Stopped>> => UNCHANGED Life!vars
BY DEF Life!vars, Attempts, Verdict, AttemptsOf, VerdictOf, Stopped

LEMMA LifeAttempt ==
  ASSUME NEW t \in Task,
         Verdict[t] = "none", Attempts[t] <= retryBound(t),
         Attempts' = [Attempts EXCEPT ![t] = @ + 1], UNCHANGED <<Verdict, Stopped>>
  PROVE  Life!Attempt(t)
BY DEF Life!Attempt, Attempts, Verdict, AttemptsOf, VerdictOf, Stopped

LEMMA LifeConclude ==
  ASSUME NEW t \in Task, NEW v,
         Verdict[t] = "none",
         v = "succeeded" => Attempts[t] > 0 \/ t \in Resumed,
         v = "withdrawn" => Stopped,
         Verdict' = [Verdict EXCEPT ![t] = v], UNCHANGED <<Attempts, Stopped>>
  PROVE  Life!Conclude(t, v)
BY DEF Life!Conclude, Attempts, Verdict, AttemptsOf, VerdictOf, Stopped

LEMMA LifeStop ==
  ASSUME NEW T \in SUBSET Task,
         ~Stopped, Stopped', \A t \in T : Verdict[t] = "none",
         Verdict' = [t \in Task |-> IF t \in T THEN "withdrawn" ELSE Verdict[t]],
         UNCHANGED Attempts
  PROVE  Life!Stop(T)
BY DEF Life!Stop, Attempts, Verdict, AttemptsOf, VerdictOf, Stopped

LEMMA StepLife ==
  ASSUME TypeInv, PlaceInv, NEW t \in Task, exec(t) \/ Step(t)
  PROVE  [Life!Next]_(Life!vars)
<1>1. \A u \in Task : u # t => Attempts'[u] = Attempts[u] /\ Verdict'[u] = Verdict[u]
  BY StepLocal DEF Local, Attempts, Verdict, AttemptsOf, VerdictOf
<1>2. Attempts[t] = AttemptsOf(t) /\ Attempts'[t] = AttemptsOf(t)'
      /\ Verdict[t] = VerdictOf(t) /\ Verdict'[t] = VerdictOf(t)'
  BY DEF Attempts, Verdict
<1>3. Attempts' = [Attempts EXCEPT ![t] = Attempts'[t]] BY <1>1 DEF Attempts
<1>4. Verdict' = [Verdict EXCEPT ![t] = Verdict'[t]] BY <1>1 DEF Verdict
<1>5. UNCHANGED Stopped BY StepLocal DEF Local, run, Stopped
<1>6. Verdict[t] = "none" BY <1>2, StepVerdict
<1>7. CASE Attempts'[t] = Attempts[t] /\ Verdict'[t] = "none"
  <2>1. Attempts' = Attempts BY <1>1, <1>7 DEF Attempts
  <2>2. Verdict' = Verdict BY <1>1, <1>6, <1>7 DEF Verdict
  <2> QED BY <2>1, <2>2, <1>5, LifeVars
<1>8. CASE Attempts'[t] # Attempts[t]
  <2>1. /\ Attempts'[t] = Attempts[t] + 1 /\ Attempts[t] <= retryBound(t)
        /\ pc'[t] = "waiting"
    BY <1>2, <1>8, StepAttempts
  <2>2. Verdict'[t] = "none" BY <1>2, <2>1 DEF VerdictOf
  <2>3. Verdict' = Verdict BY <1>1, <1>6, <2>2 DEF Verdict
  <2>4. Attempts' = [Attempts EXCEPT ![t] = @ + 1] BY <1>3, <2>1
  <2>5. Life!Attempt(t) BY <1>5, <1>6, <2>1, <2>3, <2>4, LifeAttempt
  <2> QED BY <2>5 DEF Life!Next
<1>9. CASE Attempts'[t] = Attempts[t] /\ Verdict'[t] # "none"
  <2>0. PICK v \in {"succeeded", "failed", "withdrawn"} : v = Verdict'[t]
    BY <1>2, <1>9, StepVerdict
  <2>1. Attempts' = Attempts BY <1>1, <1>9 DEF Attempts
  <2>2. /\ v = "succeeded" => Attempts[t] > 0 \/ t \in Resumed
        /\ v = "withdrawn" => Stopped
    BY <1>2, <1>9, <2>0, StepVerdict
  <2>3. Verdict' = [Verdict EXCEPT ![t] = v] BY <1>4, <2>0
  <2>4. Life!Conclude(t, v) BY <1>5, <1>6, <2>1, <2>2, <2>3, LifeConclude
  <2> QED BY <2>4 DEF Life!Next
<1> QED BY <1>7, <1>8, <1>9

\* A stop withdraws the tasks that wait in a queue.
LEMMA StopLife ==
  ASSUME TypeInv, PlaceInv, Stop
  PROVE  [Life!Next]_(Life!vars)
<1>0. PICK T \in SUBSET Task : T = {t \in Cancelled : pc[t] = "waiting"}
  BY DEF Cancelled, Dispatched
<1>1. ~Stopped /\ Stopped'
  BY DEF Stop, Stopped
<1>2. UNCHANGED Attempts BY DEF Stop, batch, Attempts, AttemptsOf
<1>3. \A t \in T : Verdict[t] = "none" BY <1>0 DEF Verdict, VerdictOf, Cancelled, Dispatched
<1>4. ASSUME NEW t \in Task
      PROVE  VerdictOf(t)' = IF t \in T THEN "withdrawn" ELSE VerdictOf(t)
  <2>1. CASE t \in T BY <1>0, <2>1 DEF Stop, VerdictOf
  <2>2. CASE t \in Cancelled /\ pc[t] # "waiting"
    <3>1. pc[t] \notin {"completed", "withdrawn"} /\ pc'[t] \notin {"completed", "withdrawn"}
      BY <2>2 DEF Stop, Cancelled, Dispatched
    <3> QED BY <1>0, <2>2, <3>1 DEF VerdictOf
  <2>3. CASE t \notin Cancelled
    <3>1. pc'[t] = pc[t] /\ state'[t] = state[t] BY <2>3 DEF Stop
    <3> QED BY <1>0, <2>3, <3>1 DEF VerdictOf
  <2> QED BY <1>0, <2>1, <2>2, <2>3
<1>5. Verdict' = [t \in Task |-> IF t \in T THEN "withdrawn" ELSE Verdict[t]]
  BY <1>4 DEF Verdict
<1>6. Life!Stop(T) BY <1>1, <1>2, <1>3, <1>5, LifeStop
<1> QED BY <1>6 DEF Life!Next

LEMMA NextLife == TypeInv /\ PlaceInv /\ [Next]_vars => [Life!Next]_(Life!vars)
<1> SUFFICES ASSUME TypeInv, PlaceInv, [Next]_vars PROVE [Life!Next]_(Life!vars) OBVIOUS
<1>1. ASSUME NEW t \in Task, cancelRemoteJob(t) PROVE [Life!Next]_(Life!vars)
  <2>1. UNCHANGED Stopped BY <1>1 DEF cancelRemoteJob, Stopped
  <2>2. UNCHANGED <<executer, tries>> BY <1>1 DEF cancelRemoteJob, Resolved
  <2>3. CASE UNCHANGED life
    BY <2>1, <2>2, <2>3, LifeVars DEF life, Attempts, AttemptsOf, Verdict, VerdictOf
  <2>4. CASE pc[t] = "job" /\ Resolved(t, "null")
    <3>1. \A u \in Task : VerdictOf(u)' = VerdictOf(u)
      <4>1. pc'[t] \in {"settled", "checking", "judging"} BY <2>4, GoToType DEF Resolved
      <4>2. \A u \in Task : u # t => pc'[u] = pc[u] /\ state'[u] = state[u]
        BY <2>4, WayOutLocal
      <4> QED BY <2>4, <4>1, <4>2 DEF VerdictOf
    <3> QED BY <2>1, <2>2, <3>1, LifeVars DEF Attempts, AttemptsOf, Verdict
  <2> QED BY <1>1, <2>3, <2>4 DEF cancelRemoteJob
<1>2. CASE runDeferredCleanups \/ UNCHANGED vars \/ \E t \in Task : Notice(t)
  <2>1. UNCHANGED <<pc, state, executer, tries>> /\ UNCHANGED Stopped
    BY <1>2 DEF runDeferredCleanups, Notice, vars, life, batch, run, Stopped
  <2> QED BY <2>1, LifeVars DEF Attempts, AttemptsOf, Verdict, VerdictOf
<1>3. CASE releaseRuntimeResources
  <2>1. UNCHANGED <<Attempts, Verdict>>
    BY <1>3 DEF releaseRuntimeResources, life, batch, Attempts, AttemptsOf, Verdict, VerdictOf
  <2>2. CASE stop = "cancelling"
    <3>1. UNCHANGED Stopped BY <1>3, <2>2 DEF releaseRuntimeResources, Stopped
    <3> QED BY <2>1, <3>1, LifeVars
  <2>3. CASE stop = "cleaned"
    <3>1. ~Stopped /\ Stopped' BY <1>3, <2>3 DEF releaseRuntimeResources, Stopped
    <3>2. Verdict' = [t \in Task |-> IF t \in {} THEN "withdrawn" ELSE Verdict[t]]
      BY <2>1 DEF Verdict
    <3>3. Life!Stop({}) BY <2>1, <3>1, <3>2, LifeStop
    <3> QED BY <3>3 DEF Life!Next
  <2> QED BY <1>3, <2>2, <2>3 DEF releaseRuntimeResources
<1> QED BY <1>1, <1>2, <1>3, StepLife, StopLife DEF Next, End

LEMMA InitLife == Init => Life!Init
BY DEF Init, Life!Init

\* Every task has a bounded number of attempts and at most one verdict, which
\* never changes; it succeeds only if it was attempted, and is left without
\* success or failure only by a stop (exec, Executer.submit, stopProject).
THEOREM ImplementsLife == Spec => LivesRight
BY InitLife, NextLife, PlaceInvariance, PTL DEF Spec, LivesRight, Life!Spec

-----------------------------------------------------------------------------
(* The remote directories.  A task is only executed while the tasks it     *)
(* needs stay finished; what they share is kept until nothing can be       *)
(* executed any more; and what is to be removed is gone, or known to be    *)
(* removed later.                                                          *)

Over == \A t \in Task : pc[t] \in {"none", "completed"}

InputsKept(t) ==
  pc[t] \in InBatch \union {"stage-in", "register", "waiting"} =>
    \A p \in After[t] : pc[p] = "completed" /\ state[p] = "finished"

HasDirectory(t) ==
  /\ t \in deferred => pc[t] \in {"delivered", "completed"}
  /\ pc[t] = "none" /\ t \in Resumed => remoteDir[t] = "full"
  /\ OnRemote(t) /\ pc[t] \notin {"none", "stage-in"}
     /\ (pc[t] \in {"settled", "completed"} => state[t] = "finished") => remoteDir[t] # "none"

CleanedUp(t) ==
  t \in Cleanup /\ OnRemote(t) /\ pc[t] \in {"delivered", "completed"} /\ state[t] = "finished" =>
    remoteDir[t] \in {"gone", "uncleaned"} \/ t \in deferred

SharedGone(t) == t \in Shared /\ remoteDir[t] = "gone" => stop \in {"cleaned", "released"} /\ Over

FilesInv ==
  /\ stop = "cleaned" => Over /\ deferred = {}
  /\ \A t \in Task : InputsKept(t) /\ HasDirectory(t) /\ CleanedUp(t) /\ SharedGone(t)

\* A task that takes a step is not over.
LEMMA StepBusy ==
  ASSUME TypeInv, NEW t \in Task, exec(t) \/ Step(t)
  PROVE  (pc[t] = "none" /\ stop = "no" /\ exec(t)) \/ pc[t] \notin {"none", "completed"}
<1>1. CASE \/ stageIn(t) \/ register(t) \/ BeginScript(t) \/ Park(t) \/ HeadConfirmed(t)
           \/ BeginSubmit(t) \/ runChecker(t) \/ Judge(t) \/ DecideRetry(t) \/ BeginStageOut(t)
           \/ EndStageOut(t) \/ Complete(t) \/ Submitted(t)
  BY <1>1 DEF stageIn, register, BeginScript, Park, HeadConfirmed, BeginSubmit, CanBegin,
              runChecker, Judge, DecideRetry, BeginStageOut, EndStageOut, Complete, Submitted
<1>2. CASE \/ ScriptEnds(t) \/ SignalArrives(t) \/ SubmitExceeded(t)
           \/ SubmitRecoverable(t) \/ SubmitFails(t) \/ NoJobID(t) \/ JobEnds(t) \/ JobLost(t)
  BY <1>2 DEF ScriptEnds, SignalArrives, SubmitExceeded, SubmitRecoverable, SubmitFails, NoJobID,
              JobEnds, JobLost
<1>3. CASE exec(t) BY <1>3 DEF exec
<1> QED BY <1>1, <1>2, <1>3 DEF Step

\* What a step does to the directory of its task.
LEMMA StepDirectory ==
  ASSUME TypeInv, NEW t \in Task, exec(t) \/ Step(t)
  PROVE  \/ UNCHANGED files
         \/ /\ pc[t] = "stage-in" /\ pc'[t] = "register" /\ remoteDir'[t] = "full"
            /\ UNCHANGED deferred
         \/ /\ pc[t] = "stage-out" /\ pc'[t] = "delivered" /\ remoteDir'[t] # "none"
            /\ remoteDir'[t] = "gone" => t \notin Shared
            /\ remoteDir'[t] \in {"gone", "uncleaned"} \/ t \in deferred'
<1>1. CASE stageIn(t)
  <2>1. \/ GoTo(t, "register") /\ remoteDir' = [remoteDir EXCEPT ![t] = "full"] /\ UNCHANGED deferred
        \/ UNCHANGED files
    BY <1>1 DEF stageIn, files
  <2> QED BY <1>1, <2>1, GoToType DEF stageIn, TypeInv, FileType
<1>2. CASE EndStageOut(t)
  <2>1. GoTo(t, "delivered") /\ (CleanUpRemote(t) \/ UNCHANGED files) BY <1>2 DEF EndStageOut
  <2> QED BY <1>2, <2>1, GoToType DEF EndStageOut, CleanUpRemote, TypeInv, FileType
<1>3. CASE \/ exec(t) \/ register(t) \/ BeginScript(t) \/ Park(t) \/ HeadConfirmed(t)
           \/ BeginSubmit(t) \/ runChecker(t) \/ Judge(t) \/ DecideRetry(t) \/ BeginStageOut(t)
           \/ Complete(t) \/ Submitted(t)
  BY <1>3 DEF exec, register, BeginScript, Park, HeadConfirmed, BeginSubmit, runChecker, Judge,
              DecideRetry, BeginStageOut, Complete, Submitted, Same
<1>4. CASE \/ ScriptEnds(t) \/ SignalArrives(t) \/ SubmitExceeded(t)
           \/ SubmitRecoverable(t) \/ SubmitFails(t) \/ NoJobID(t) \/ JobEnds(t) \/ JobLost(t)
  BY <1>4 DEF ScriptEnds, SignalArrives, SubmitExceeded, SubmitRecoverable, SubmitFails, NoJobID,
              JobEnds, JobLost
<1> QED BY <1>1, <1>2, <1>3, <1>4 DEF Step

\* The way of a task: what brings it to each of its places.
LEMMA StepWay ==
  ASSUME TypeInv, PlaceInv, NEW t \in Task, exec(t) \/ Step(t)
  PROVE  /\ pc'[t] # "none"
         /\ pc[t] \in {"delivered", "completed"} => pc'[t] = "completed"
         /\ pc'[t] \in InBatch \union {"stage-in", "register", "waiting"} =>
              exec(t) \/ pc[t] \in InBatch \union {"stage-in", "register", "waiting"}
         /\ OnRemote(t) /\ pc'[t] \notin {"none", "stage-in"}
              /\ (pc'[t] \in {"settled", "completed"} => state'[t] = "finished") =>
            \/ pc[t] = "none" /\ t \in Resumed
            \/ pc[t] = "stage-in" /\ remoteDir'[t] = "full"
            \/ /\ pc[t] \notin {"none", "stage-in"}
               /\ pc[t] \in {"settled", "completed"} => state[t] = "finished"
         /\ t \in Cleanup /\ OnRemote(t) /\ pc'[t] \in {"delivered", "completed"}
              /\ state'[t] = "finished" =>
            \/ pc[t] = "delivered" /\ state[t] = "finished"
            \/ pc[t] = "stage-out" /\ CleanUpRemote(t)
<1> USE DEF PlaceInv
<1>1. CASE exec(t)
  <2>1. CASE OnRemote(t)
    <3>1. \/ t \in Resumed /\ pc'[t] = "settled"
          \/ pc'[t] = "stage-in"
      BY <1>1, <2>1, GoToType DEF exec
    <3> QED BY <1>1, <2>1, <3>1 DEF exec
  <2>2. CASE ~OnRemote(t) BY <1>1, <2>2, EnqueueLocal DEF exec
  <2> QED BY <2>1, <2>2
<1>2. CASE stageIn(t)
  <2>1. \/ pc'[t] = "register" /\ remoteDir'[t] = "full"
        \/ pc'[t] = "settled" /\ state'[t] = "failed"
    BY <1>2, GoToType, StateLocal DEF stageIn, TypeInv, FileType
  <2> QED BY <1>2, <2>1 DEF stageIn
<1>3. CASE register(t)
  <2>1. pc'[t] \in {"waiting", "settled"} BY <1>3, EnqueueLocal, GoToType DEF register
  <2> QED BY <1>3, <2>1 DEF register
<1>4. CASE BeginScript(t) \/ Park(t) \/ BeginSubmit(t) \/ HeadConfirmed(t) \/ runChecker(t)
           \/ Submitted(t) \/ Judge(t) \/ DecideRetry(t)
  <2>1. pc[t] \in InBatch \union {"waiting"}
    BY <1>4 DEF BeginScript, Park, BeginSubmit, HeadConfirmed, runChecker, CanBegin, Submitted,
                Judge, DecideRetry
  <2>2. pc'[t] \in InBatch \union {"waiting", "settled"}
    BY <1>4, GoToType
    DEF BeginScript, Park, BeginSubmit, HeadConfirmed, runChecker, Submitted, Judge, DecideRetry,
        RetryOrSettle
  <2> QED BY <2>1, <2>2
<1>5. CASE BeginStageOut(t)
  <2>1. pc'[t] = "stage-out" BY <1>5, GoToType DEF BeginStageOut
  <2> QED BY <1>5, <2>1 DEF BeginStageOut
<1>6. CASE EndStageOut(t)
  <2>1. pc[t] = "stage-out" /\ pc'[t] = "delivered" /\ state[t] = "stage-out"
    BY <1>6, GoToType DEF EndStageOut, Recorded
  <2>2. t \in Cleanup /\ state'[t] = "finished" => CleanUpRemote(t)
    BY <1>6, <2>1 DEF EndStageOut, Silent
  <2> QED BY <2>1, <2>2
<1>7. CASE Complete(t)
  <2>1. UNCHANGED state /\ pc'[t] = "completed" BY <1>7, GoToType DEF Complete, Silent
  <2> QED BY <1>7, <2>1 DEF Complete
<1>8. CASE ScriptEnds(t) \/ SignalArrives(t) \/ SubmitExceeded(t) \/ SubmitRecoverable(t)
           \/ SubmitFails(t) \/ NoJobID(t) \/ JobEnds(t) \/ JobLost(t)
  <2>1. /\ pc[t] \in InBatch
        /\ \/ Rejected(t) \/ ForcedRetry(t)
           \/ \E v \in {"0", "1", "null"} : Resolved(t, v)
    BY <1>8 DEF ScriptEnds, SignalArrives, SubmitExceeded, SubmitRecoverable, SubmitFails, NoJobID,
                JobEnds, JobLost
  <2>2. pc'[t] \in {"waiting", "settled", "checking", "judging"} BY <2>1, WayOutLocal DEF Out
  <2> QED BY <2>1, <2>2
<1> QED BY <1>1, <1>2, <1>3, <1>4, <1>5, <1>6, <1>7, <1>8 DEF Step

LEMMA StepFiles ==
  ASSUME TypeInv, PlaceInv, FilesInv, NEW t \in Task, exec(t) \/ Step(t)
  PROVE  FilesInv'
<1> USE DEF FilesInv
<1>1. Local(t) /\ UNCHANGED stop BY StepLocal DEF Local, run
<1>2. ~(stop \in {"cleaned", "released"} /\ Over) BY StepBusy DEF Over
<1>3. stop' # "cleaned" BY <1>1, <1>2
<1>4. ASSUME NEW u \in Task PROVE InputsKept(u)'
  <2> SUFFICES ASSUME pc'[u] \in InBatch \union {"stage-in", "register", "waiting"},
                      NEW p \in After[u]
               PROVE  pc'[p] = "completed" /\ state'[p] = "finished"
    BY DEF InputsKept
  <2>1. p \in Task BY AfterAssumption
  <2>2. pc[p] = "completed" /\ state[p] = "finished"
    <3>1. CASE u # t BY <1>1, <3>1 DEF Local, InputsKept
    <3>2. CASE u = t /\ exec(t) BY <3>2 DEF exec
    <3>3. CASE u = t /\ ~exec(t) BY <3>3, StepWay DEF InputsKept
    <3> QED BY <3>1, <3>2, <3>3
  <2>3. p # t BY <2>2, StepBusy
  <2> QED BY <1>1, <2>1, <2>2, <2>3 DEF Local
<1>5. ASSUME NEW u \in Task, u # t PROVE HasDirectory(u)' /\ CleanedUp(u)'
  BY <1>1, <1>5 DEF Local, HasDirectory, CleanedUp
<1>6. HasDirectory(t)'
  <2>1. CASE UNCHANGED files
    BY <2>1, StepWay DEF HasDirectory, files
  <2>2. CASE pc[t] = "stage-in" /\ pc'[t] = "register" /\ remoteDir'[t] = "full" /\ UNCHANGED deferred
    BY <2>2 DEF HasDirectory
  <2>3. CASE pc'[t] = "delivered" /\ remoteDir'[t] # "none"
    BY <2>3 DEF HasDirectory
  <2> QED BY <2>1, <2>2, <2>3, StepDirectory
<1>7. CleanedUp(t)'
  <2> SUFFICES ASSUME t \in Cleanup, OnRemote(t), pc'[t] \in {"delivered", "completed"},
                      state'[t] = "finished"
               PROVE  remoteDir'[t] \in {"gone", "uncleaned"} \/ t \in deferred'
    BY DEF CleanedUp
  <2>1. CASE pc[t] = "delivered" /\ state[t] = "finished"
    BY <2>1, StepDirectory DEF CleanedUp, files
  <2>2. CASE pc[t] = "stage-out" /\ CleanUpRemote(t)
    BY <2>2 DEF CleanUpRemote, TypeInv, FileType
  <2> QED BY <2>1, <2>2, StepWay
<1>8. ASSUME NEW u \in Task PROVE SharedGone(u)'
  <2> SUFFICES ASSUME u \in Shared, remoteDir'[u] = "gone" PROVE FALSE BY DEF SharedGone
  <2>1. remoteDir[u] # "gone" BY <1>2 DEF SharedGone
  <2>2. u = t BY <1>1, <2>1 DEF Local
  <2> QED BY <2>1, <2>2, StepDirectory DEF files
<1> QED BY <1>3, <1>4, <1>5, <1>6, <1>7, <1>8

LEMMA NextFiles == TypeInv /\ PlaceInv /\ FilesInv /\ [Next]_vars => FilesInv'
<1> SUFFICES ASSUME TypeInv, PlaceInv, FilesInv, [Next]_vars PROVE FilesInv' OBVIOUS
<1> USE DEF FilesInv
<1>1. CASE Stop
  <2>1. stop = "no" /\ stop' = "cancelling" /\ UNCHANGED <<remoteDir, deferred>>
    BY <1>1 DEF Stop, files
  <2>2. ASSUME NEW t \in Task
        PROVE  /\ pc'[t] \in {pc[t], "withdrawn", "signalled"}
               /\ pc'[t] = "signalled" => pc[t] \in {"held", "signalled"}
               /\ state'[t] \in {state[t], "not-started"}
               /\ pc'[t] = "withdrawn" => pc[t] \in {"waiting", "withdrawn"}
               /\ pc[t] \in {"none", "completed"} => pc'[t] = pc[t] /\ state'[t] = state[t]
    BY <1>1 DEF Stop, Cancelled, Dispatched
  <2>3. ASSUME NEW t \in Task PROVE InputsKept(t)'
    BY <2>2, AfterAssumption DEF InputsKept
  <2>4. ASSUME NEW t \in Task PROVE HasDirectory(t)' /\ CleanedUp(t)' /\ SharedGone(t)'
    BY <2>1, <2>2 DEF HasDirectory, CleanedUp, SharedGone
  <2> QED BY <2>1, <2>3, <2>4
<1>2. ASSUME NEW t \in Task, cancelRemoteJob(t) PROVE FilesInv'
  <2>1. stop = "cancelling" /\ stop' \in {"cancelling", "stuck"} /\ UNCHANGED <<remoteDir, deferred>>
    BY <1>2 DEF cancelRemoteJob, files
  <2>2. CASE UNCHANGED life
    BY <2>1, <2>2 DEF life, InputsKept, HasDirectory, CleanedUp, SharedGone
  <2>3. CASE pc[t] = "job" /\ Resolved(t, "null")
    <3>1. UNCHANGED state /\ pc'[t] \in {"settled", "checking", "judging"}
      BY <2>3, GoToType DEF Resolved, Silent
    <3>2. \A u \in Task : u # t => pc'[u] = pc[u] BY <2>3, WayOutLocal
    <3>3. ASSUME NEW u \in Task PROVE InputsKept(u)'
      BY <2>3, <3>1, <3>2, AfterAssumption DEF InputsKept
    <3>4. ASSUME NEW u \in Task PROVE HasDirectory(u)' /\ CleanedUp(u)' /\ SharedGone(u)'
      BY <2>1, <2>3, <3>1, <3>2 DEF HasDirectory, CleanedUp, SharedGone
    <3> QED BY <2>1, <3>3, <3>4
  <2> QED BY <1>2, <2>2, <2>3 DEF cancelRemoteJob
<1>3. CASE runDeferredCleanups
  <2>1. stop' = "cleaned" /\ deferred' = {} /\ Over /\ UNCHANGED <<pc, state>>
    BY <1>3 DEF runDeferredCleanups, RunIsOver, Over, life
  <2>2. \A t \in Task : remoteDir'[t] \in {"uncleaned", "gone", remoteDir[t]}
                        /\ (t \in deferred => remoteDir'[t] \in {"uncleaned", "gone"})
    BY <1>3 DEF runDeferredCleanups
  <2>3. Over' BY <2>1 DEF Over
  <2>4. ASSUME NEW t \in Task PROVE InputsKept(t)' /\ CleanedUp(t)' /\ SharedGone(t)'
    BY <2>1, <2>2, <2>3 DEF InputsKept, CleanedUp, SharedGone
  <2>5. ASSUME NEW t \in Task PROVE HasDirectory(t)'
    <3>1. pc[t] = "none" => remoteDir'[t] = remoteDir[t]
      BY <1>3 DEF runDeferredCleanups, HasDirectory
    <3> QED BY <2>1, <2>2, <3>1 DEF HasDirectory
  <2> QED BY <2>1, <2>3, <2>4, <2>5
<1>4. CASE releaseRuntimeResources \/ UNCHANGED vars \/ \E t \in Task : Notice(t)
  <2>1. UNCHANGED <<pc, state, remoteDir, deferred>> /\ stop' \in {stop, "released"}
    BY <1>4 DEF releaseRuntimeResources, Notice, vars, life, files, run
  <2>2. UNCHANGED Over BY <2>1 DEF Over
  <2> QED BY <2>1, <2>2 DEF InputsKept, HasDirectory, CleanedUp, SharedGone
<1> QED BY <1>1, <1>2, <1>3, <1>4, StepFiles DEF Next, End

LEMMA InitFiles == Init => FilesInv
BY DEF Init, FilesInv, InputsKept, HasDirectory, CleanedUp, SharedGone

\* Files that other tasks reach by symlinks stay as long as one of these may be
\* executing, and at the end of a run nothing is left of what was to be removed
\* (stageOut, runDeferredCleanups).
THEOREM DirectoriesRight == Spec => []RemoteFiles
<1>1. TypeInv /\ PlaceInv /\ FilesInv => RemoteFiles
  <2> SUFFICES ASSUME TypeInv, PlaceInv, FilesInv PROVE RemoteFiles OBVIOUS
  <2> USE DEF FilesInv
  <2>1. SharedKept
    <3> SUFFICES ASSUME NEW t \in Task, pc[t] \in InBatch \union {"stage-in", "waiting"},
                        NEW p \in After[t] \intersect Shared
                 PROVE  remoteDir[p] \in {"full", "partial", "uncleaned"}
      BY DEF SharedKept
    <3>1. p \in Task /\ OnRemote(p) BY AfterAssumption, SharedAssumption
    <3>2. pc[p] = "completed" /\ state[p] = "finished" BY DEF InputsKept
    <3>3. remoteDir[p] # "none" BY <3>1, <3>2 DEF HasDirectory
    <3>4. remoteDir[p] # "gone" BY <3>1 DEF SharedGone, Over
    <3> QED BY <3>1, <3>3, <3>4 DEF TypeInv, FileType
  <2>2. NothingLeft
    <3> SUFFICES ASSUME stop = "cleaned", NEW t \in Cleanup, OnRemote(t), state[t] = "finished"
                 PROVE  remoteDir[t] \in {"gone", "uncleaned"}
      BY DEF NothingLeft
    <3>1. t \in Task BY SetAssumption
    <3>2. pc[t] = "completed" BY <3>1 DEF Over, PlaceInv, Recorded
    <3> QED BY <3>1, <3>2 DEF CleanedUp
  <2> QED BY <2>1, <2>2 DEF RemoteFiles
<1> QED BY <1>1, InitFiles, NextFiles, PlaceInvariance, PTL DEF Spec
=============================================================================
