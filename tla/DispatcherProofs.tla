-------------------------- MODULE DispatcherProofs --------------------------
(* Theorems about Dispatcher, for every workflow and every bound.          *)
EXTENDS Dispatcher, TLAPS

USE DEF TaskKinds, FinishedStates, States, Steps, Execs, Outcomes

-----------------------------------------------------------------------------
(* Helpers.                                                                *)

LEMMA AddToType ==
  ASSUME NEW bag \in [Component -> Nat], NEW S
  PROVE  AddTo(bag, S) \in [Component -> Nat]
BY DEF AddTo

LEMMA ReserveType ==
  ASSUME TypeOK, ReserveDispatch
  PROVE  listener' \in BOOLEAN /\ emits' \in Nat /\ needToRerun' \in BOOLEAN
<1>1. emits' \in Nat BY DEF TypeOK, ReserveDispatch
<1>2. listener' \in BOOLEAN BY DEF TypeOK, ReserveDispatch
<1>3. needToRerun' \in BOOLEAN BY DEF TypeOK, ReserveDispatch
<1> QED BY <1>1, <1>2, <1>3

LEMMA EndHandlerType ==
  ASSUME TypeOK, NEW c \in Component, EndHandler(c)
  PROVE  /\ step' \in [Component -> Steps]
         /\ listener' \in BOOLEAN /\ emits' \in Nat /\ needToRerun' \in BOOLEAN
<1>1. step' \in [Component -> Steps] BY DEF TypeOK, EndHandler
<1> QED BY <1>1, ReserveType DEF EndHandler

LEMMA EndDelegationType ==
  ASSUME TypeOK, NEW c \in Component, EndDelegation(c)
  PROVE  /\ step' \in [Component -> Steps] /\ pending' \in [Component -> Nat]
         /\ listener' \in BOOLEAN /\ emits' \in Nat /\ needToRerun' \in BOOLEAN
<1>1. step' \in [Component -> Steps] BY DEF TypeOK, EndDelegation
<1>2. pending' \in [Component -> Nat] BY AddToType DEF TypeOK, EndDelegation
<1>3. emits' \in Nat BY DEF TypeOK, EndDelegation
<1>4. listener' \in BOOLEAN BY DEF TypeOK, EndDelegation
<1>5. needToRerun' \in BOOLEAN BY DEF TypeOK, EndDelegation
<1> QED BY <1>1, <1>2, <1>3, <1>4, <1>5

LEMMA FlagType ==
  ASSUME TypeOK, NEW s, SetStateFlag(s)
  PROVE  hasFailed' \in BOOLEAN /\ hasUnknown' \in BOOLEAN
BY DEF SetStateFlag

LEMMA StateOfType ==
  ASSUME NEW u, NEW f, NEW s
  PROVE  StateOf(u, f, s) \in Outcomes
BY DEF StateOf

LEMMA PauseType ==
  ASSUME TypeOK, NEW failed, NEW stopped, Pause(failed, stopped)
  PROVE  mem' \in [Component -> States] /\ outcome' \in Outcomes
BY StateOfType DEF TypeOK, Pause, CancelDispatchedTasks

LEMMA EndPassType ==
  ASSUME TypeOK, NEW done \in BOOLEAN, EndPass(done)
  PROVE  /\ phase' \in {"idle", "scanning", "closing"}
         /\ listener' \in BOOLEAN /\ emits' \in Nat /\ needToRerun' \in BOOLEAN
         /\ outcome' \in Outcomes
BY StateOfType DEF TypeOK, EndPass

-----------------------------------------------------------------------------
(* Type correctness.                                                       *)

LEMMA InitType == Init => TypeOK
<1> SUFFICES ASSUME Init PROVE TypeOK
  OBVIOUS
<1>1. Empty \in [Component -> Nat] BY DEF Empty
<1>2. disk \in [Component -> States] /\ mem \in [Component -> States] BY DEF Init
<1>3. /\ searchList \in [Component -> Nat] /\ pending \in [Component -> Nat]
      /\ scan \in [Component -> Nat] /\ trips \in [Component -> Nat]
      /\ starts \in [Component -> Nat]
  BY <1>1 DEF Init
<1>4. listener \in BOOLEAN /\ needToRerun \in BOOLEAN /\ firstCall \in BOOLEAN
      /\ threw \in BOOLEAN /\ hasFailed \in BOOLEAN /\ hasUnknown \in BOOLEAN
  BY DEF Init
<1>5. phase \in {"idle", "scanning", "closing"} /\ outcome \in Outcomes
      /\ removal \in {"no", "removing", "removed"}
  BY DEF Init
<1>6. step \in [Component -> Steps] BY DEF Init
<1>7. exec \in [Component -> Execs] BY DEF Init
<1>8. cond \in [Component -> {"none", "true", "false"}] BY DEF Init
<1>9. emits \in Nat /\ runs \in Nat BY DEF Init
<1>10. /\ runningTasks \subseteq Component /\ loopFailed \subseteq Component
       /\ breaking \subseteq Component /\ broken \subseteq Component
       /\ succeeded \subseteq Component
  BY DEF Init
<1> QED
  BY <1>2, <1>3, <1>4, <1>5, <1>6, <1>7, <1>8, <1>9, <1>10 DEF TypeOK

\* A pass keeps the types.
LEMMA PassType == ASSUME TypeOK, NEW c \in Component, Pass(c) PROVE TypeOK'
<1> USE DEF lists, events, result, tasks, loops, history, Scan
<1>1. CASE ScanDisabled(c)
  BY <1>1 DEF TypeOK, ScanDisabled
<1>2. CASE ScanNotReady(c)
  BY <1>2, AddToType DEF TypeOK, ScanNotReady
<1>3. CASE ScanInputsFail(c)
  BY <1>3 DEF TypeOK, ScanInputsFail, Empty
<1>4. CASE ScanMandatoryMissing(c)
  BY <1>4 DEF TypeOK, ScanMandatoryMissing
<1>5. CASE ScanDispatch(c)
  BY <1>5 DEF TypeOK, ScanDispatch
<1> QED BY <1>1, <1>2, <1>3, <1>4, <1>5 DEF Pass

\* The event loop keeps the types.
LEMMA LoopType == ASSUME TypeOK, Loop PROVE TypeOK'
<1> USE DEF lists, events, result, tasks, loops, history
<1>1. CASE EmitDispatch
  <2>1. Empty \in [Component -> Nat] BY DEF Empty
  <2>2. searchList' \in [Component -> Nat] /\ scan' \in [Component -> Nat]
    <3>1. AddTo(Empty, Initial) \in [Component -> Nat] BY <2>1, AddToType
    <3> QED BY <1>1, <3>1 DEF TypeOK, EmitDispatch
  <2>3. emits' \in Nat BY <1>1 DEF TypeOK, EmitDispatch
  <2>4. listener' \in BOOLEAN /\ firstCall' \in BOOLEAN /\ threw' \in BOOLEAN
    BY <1>1 DEF TypeOK, EmitDispatch
  <2>5. phase' \in {"idle", "scanning", "closing"}
    BY <1>1 DEF TypeOK, EmitDispatch
  <2> QED BY <1>1, <2>2, <2>3, <2>4, <2>5 DEF TypeOK, EmitDispatch
<1>2. CASE Collect
  <2>1. RemoveDuplicated(pending) \in [Component -> Nat] BY DEF RemoveDuplicated
  <2>2. searchList' \in [Component -> Nat] BY <1>2, <2>1 DEF Collect
  <2>3. /\ phase' \in {"idle", "scanning", "closing"}
        /\ listener' \in BOOLEAN /\ emits' \in Nat /\ needToRerun' \in BOOLEAN
        /\ outcome' \in Outcomes
    <3>1. CASE EndPass(StillRunning = {}) BY <3>1, EndPassType
    <3>2. CASE phase' = "closing" /\ UNCHANGED <<events, outcome>>
      BY <3>2 DEF TypeOK
    <3> QED BY <1>2, <3>1, <3>2 DEF Collect
  <2>4. runningTasks' \subseteq Component BY <1>2 DEF Collect, StillRunning, TypeOK
  <2>5. pending' \in [Component -> Nat] BY <1>2 DEF Collect, Empty
  <2> QED BY <1>2, <2>2, <2>3, <2>4, <2>5 DEF TypeOK, Collect
<1>3. CASE CheckBlocked
  <2>1. /\ phase' \in {"idle", "scanning", "closing"}
        /\ listener' \in BOOLEAN /\ emits' \in Nat /\ needToRerun' \in BOOLEAN
        /\ outcome' \in Outcomes
    BY <1>3, EndPassType DEF CheckBlocked
  <2> QED BY <1>3, <2>1 DEF TypeOK, CheckBlocked
<1>4. CASE PassError
  BY <1>4 DEF TypeOK, PassError
<1> QED BY <1>1, <1>2, <1>3, <1>4 DEF Loop

\* The handlers keep the types.
LEMMA HandlerType == ASSUME TypeOK, NEW c \in Component, Handler(c) PROVE TypeOK'
<1> USE DEF lists, events, result, tasks, loops, history, Handling,
            unchangedByHandler
<1>1. CASE Skip(c)
  <2>1. pending' \in [Component -> Nat] BY <1>1, AddToType DEF TypeOK, Skip
  <2>2. EndHandler(c) BY <1>1 DEF Skip
  <2>3. UNCHANGED <<disk, searchList, scan, phase, firstCall, threw, result, tasks,
                    loops, history>>
    BY <1>1 DEF Skip
  <2>4. /\ step' \in [Component -> Steps]
        /\ listener' \in BOOLEAN /\ emits' \in Nat /\ needToRerun' \in BOOLEAN
    BY <2>2, EndHandlerType
  <2> QED BY <2>1, <2>3, <2>4 DEF TypeOK
<1>2. CASE Begin(c)
  BY <1>2 DEF TypeOK, Begin
<1>3. CASE LaunchTask(c)
  BY <1>3 DEF TypeOK, LaunchTask
<1>4. CASE TaskDispatched(c)
  <2>1. pending' \in [Component -> Nat]
    BY <1>4, AddToType DEF TypeOK, TaskDispatched
  <2>2. EndHandler(c) /\ SetStateFlag(mem[c]) BY <1>4 DEF TaskDispatched
  <2>3. disk' \in [Component -> States] BY <1>4 DEF TypeOK, TaskDispatched
  <2>4. UNCHANGED <<searchList, scan, phase, firstCall, threw, removal, outcome, tasks,
                    loops, history>>
    BY <1>4 DEF TaskDispatched
  <2>5. hasFailed' \in BOOLEAN /\ hasUnknown' \in BOOLEAN BY <2>2, FlagType
  <2>6. /\ step' \in [Component -> Steps]
        /\ listener' \in BOOLEAN /\ emits' \in Nat /\ needToRerun' \in BOOLEAN
    BY <2>2, EndHandlerType
  <2> QED BY <2>1, <2>3, <2>4, <2>5, <2>6 DEF TypeOK
<1>5. CASE RunInstant(c)
  <2>1. pending' \in [Component -> Nat] BY <1>5, AddToType DEF TypeOK, RunInstant
  <2>2. EndHandler(c) BY <1>5 DEF RunInstant
  <2>3. disk' \in [Component -> States] BY <1>5 DEF TypeOK, RunInstant
  <2>4. UNCHANGED <<searchList, scan, phase, firstCall, threw, result, tasks, loops,
                    history>>
    BY <1>5 DEF RunInstant
  <2>5. /\ step' \in [Component -> Steps]
        /\ listener' \in BOOLEAN /\ emits' \in Nat /\ needToRerun' \in BOOLEAN
    BY <2>2, EndHandlerType
  <2> QED BY <2>1, <2>3, <2>4, <2>5 DEF TypeOK
<1>6. ASSUME NEW b \in BOOLEAN, CheckIf(c, b) PROVE TypeOK'
  <2>1. pending' \in [Component -> Nat] BY <1>6, AddToType DEF TypeOK, CheckIf
  <2>2. EndHandler(c) BY <1>6 DEF CheckIf
  <2>3. disk' \in [Component -> States] BY <1>6 DEF TypeOK, CheckIf
  <2>4. cond' \in [Component -> {"none", "true", "false"}]
    BY <1>6 DEF TypeOK, CheckIf
  <2> QED BY <1>6, <2>1, <2>2, <2>3, <2>4, EndHandlerType DEF TypeOK, CheckIf
<1>7. ASSUME NEW b \in BOOLEAN, Jump(c, b) PROVE TypeOK'
  <2>1. Empty \in [Component -> Nat] BY DEF Empty
  <2>2. AddTo(pending, NextComponents(c, FALSE)) \in [Component -> Nat]
    BY AddToType DEF TypeOK
  <2>3. pending' \in [Component -> Nat] /\ searchList' \in [Component -> Nat]
    BY <1>7, <2>1, <2>2 DEF TypeOK, Jump
  <2>4. mem' \in [Component -> States] /\ outcome' \in Outcomes
    <3>1. CASE Pause(hasFailed, removal # "no") BY <3>1, PauseType
    <3>2. CASE UNCHANGED <<mem, outcome>> BY <3>2 DEF TypeOK
    <3> QED BY <1>7, <3>1, <3>2 DEF Jump
  <2>5. disk' \in [Component -> States] BY <1>7 DEF TypeOK, Jump
  <2>6. cond' \in [Component -> {"none", "true", "false"}] BY <1>7 DEF TypeOK, Jump
  <2>7. step' \in [Component -> Steps] BY <1>7 DEF TypeOK, Jump
  <2>8. emits' \in Nat BY <1>7 DEF TypeOK, Jump
  <2>9. listener' \in BOOLEAN BY <1>7 DEF Jump
  <2>10. needToRerun' \in BOOLEAN BY <1>7 DEF Jump
  <2> QED
    BY <1>7, <2>3, <2>4, <2>5, <2>6, <2>7, <2>8, <2>9, <2>10 DEF TypeOK, Jump
<1>8. ASSUME NEW s \in ChildResults, ChildSettles(c, s) PROVE TypeOK'
  <2>1. EndDelegation(c) /\ SetStateFlag(s) BY <1>8 DEF ChildSettles
  <2>2. disk' \in [Component -> States]
    BY <1>8, ResultAssumption DEF TypeOK, ChildSettles
  <2> QED BY <1>8, <2>1, <2>2, EndDelegationType, FlagType DEF TypeOK, ChildSettles
<1>9. CASE LoopTrip(c)
  BY <1>9, AddToType DEF TypeOK, LoopTrip
<1>10. CASE LoopFinalize(c)
  <2>1. pending' \in [Component -> Nat]
    BY <1>10, AddToType DEF TypeOK, LoopFinalize
  <2>2. EndHandler(c) BY <1>10 DEF LoopFinalize
  <2>3. disk' \in [Component -> States] BY <1>10 DEF TypeOK, LoopFinalize
  <2>4. hasFailed' \in BOOLEAN /\ hasUnknown' \in BOOLEAN
    BY <1>10, FlagType DEF LoopFinalize
  <2>5. trips' \in [Component -> Nat] BY <1>10 DEF TypeOK, LoopFinalize
  <2> QED
    BY <1>10, <2>1, <2>2, <2>3, <2>4, <2>5, EndHandlerType DEF TypeOK, LoopFinalize
<1>11. ASSUME NEW s \in ChildResults, NEW b \in BOOLEAN, TripSettles(c, s, b)
       PROVE TypeOK'
  <2>1. EndDelegation(c) BY <1>11 DEF TripSettles
  <2>2. loopFailed' \subseteq Component /\ breaking' \subseteq Component
    BY <1>11 DEF TypeOK, TripSettles
  <2> QED BY <1>11, <2>1, <2>2, EndDelegationType DEF TypeOK, TripSettles
<1>12. CASE HandlerThrows(c)
  <2>1. /\ step' \in [Component -> Steps] /\ pending' \in [Component -> Nat]
        /\ listener' \in BOOLEAN /\ emits' \in Nat /\ needToRerun' \in BOOLEAN
    <3>1. CASE EndDelegation(c) BY <3>1, EndDelegationType
    <3>2. CASE EndHandler(c) /\ UNCHANGED pending
      BY <3>2, EndHandlerType DEF TypeOK
    <3> QED BY <1>12, <3>1, <3>2 DEF HandlerThrows
  <2>2. disk' \in [Component -> States] BY <1>12 DEF TypeOK, HandlerThrows
  <2> QED BY <1>12, <2>1, <2>2 DEF TypeOK, HandlerThrows
<1>13. CASE RunViewer(c)
  <2>1. EndHandler(c) BY <1>13 DEF RunViewer
  <2>2. disk' \in [Component -> States] BY <1>13 DEF TypeOK, RunViewer
  <2>3. UNCHANGED <<searchList, pending, scan, phase, firstCall, threw, result,
                    tasks, loops, history>>
    BY <1>13 DEF RunViewer
  <2>4. /\ step' \in [Component -> Steps]
        /\ listener' \in BOOLEAN /\ emits' \in Nat /\ needToRerun' \in BOOLEAN
    BY <2>1, EndHandlerType
  <2> QED BY <2>2, <2>3, <2>4 DEF TypeOK
<1> QED
  BY <1>1, <1>2, <1>3, <1>4, <1>5, <1>6, <1>7, <1>8, <1>9, <1>10, <1>11, <1>12,
     <1>13
  DEF Handler

\* The executions of tasks keep the types.
LEMMA ExecutionType == ASSUME TypeOK, NEW c \in Component, Execution(c) PROVE TypeOK'
<1> USE DEF lists, events, result, tasks, loops, history
<1>1. CASE StageIn(c)
  BY <1>1 DEF TypeOK, StageIn
<1>2. CASE ScriptEnds(c)
  BY <1>2 DEF TypeOK, ScriptEnds
<1>3. ASSUME NEW s \in TaskResults, TaskDecided(c, s) PROVE TypeOK'
  BY <1>3, ResultAssumption DEF TypeOK, TaskDecided
<1>4. CASE TaskSettled(c)
  BY <1>4 DEF TypeOK, TaskSettled
<1>5. CASE StageOut(c)
  BY <1>5 DEF TypeOK, StageOut
<1>6. ASSUME NEW b \in BOOLEAN, StageOutEnds(c, b) PROVE TypeOK'
  BY <1>6 DEF TypeOK, StageOutEnds
<1>7. CASE TaskCompleted(c)
  BY <1>7, ReserveType DEF TypeOK, TaskCompleted
<1> QED BY <1>1, <1>2, <1>3, <1>4, <1>5, <1>6, <1>7 DEF Execution

LEMMA StopType ==
  ASSUME TypeOK, NEW reason \in {"none", "failed"}, Remove(reason)
  PROVE  TypeOK'
<1> USE DEF lists, events, result, tasks, loops, history
<1>1. mem' \in [Component -> States] /\ outcome' \in Outcomes
  BY PauseType DEF Remove
<1>2. hasFailed' \in BOOLEAN /\ hasUnknown' \in BOOLEAN BY FlagType DEF Remove
<1> QED BY <1>1, <1>2 DEF TypeOK, Remove

\* Every variable of the dispatcher keeps its type (TypeOK).
THEOREM TypeCorrect == Spec => []TypeOK
<1>1. TypeOK /\ [Next]_vars => TypeOK'
  <2> SUFFICES ASSUME TypeOK, [Next]_vars PROVE TypeOK'
    OBVIOUS
  <2> USE DEF lists, events, result, tasks, loops, history
  <2>1. CASE Loop BY <2>1, LoopType
  <2>2. ASSUME NEW c \in Component, Pass(c) PROVE TypeOK' BY <2>2, PassType
  <2>3. ASSUME NEW c \in Component, Handler(c) PROVE TypeOK' BY <2>3, HandlerType
  <2>4. ASSUME NEW c \in Component, Execution(c) PROVE TypeOK'
    BY <2>4, ExecutionType
  <2>5. ASSUME NEW c \in Component, BreakArrives(c) PROVE TypeOK'
    BY <2>5 DEF TypeOK, BreakArrives
  <2>6. ASSUME NEW reason \in {"none", "failed"}, Remove(reason) PROVE TypeOK'
    BY <2>6, StopType
  <2>7. CASE Removed BY <2>7 DEF TypeOK, Removed, Empty
  <2>8. CASE Continue
    <3>1. Empty \in [Component -> Nat] BY DEF Empty
    <3>2. /\ searchList' \in [Component -> Nat] /\ pending' \in [Component -> Nat]
          /\ scan' \in [Component -> Nat] /\ starts' \in [Component -> Nat]
      BY <2>8, <3>1 DEF Continue
    <3>3. runs' \in Nat /\ emits' \in Nat BY <2>8 DEF TypeOK, Continue
    <3>4. /\ listener' \in BOOLEAN /\ needToRerun' \in BOOLEAN
          /\ firstCall' \in BOOLEAN /\ threw' \in BOOLEAN
          /\ hasFailed' \in BOOLEAN /\ hasUnknown' \in BOOLEAN
      BY <2>8 DEF Continue
    <3>5. outcome' \in Outcomes /\ removal' \in {"no", "removing", "removed"}
      BY <2>8 DEF Continue
    <3> QED BY <2>8, <3>2, <3>3, <3>4, <3>5 DEF TypeOK, Continue
  <2>9. CASE UNCHANGED vars BY <2>9 DEF TypeOK, vars
  <2> QED
    BY <2>1, <2>2, <2>3, <2>4, <2>5, <2>6, <2>7, <2>8, <2>9 DEF Next
<1> QED BY InitType, <1>1, PTL DEF Spec

-----------------------------------------------------------------------------
(* No wakeup is lost.  Listening and NoLostWakeup follow from Scheduling,   *)
(* which is inductive; NoLostWakeup only as long as no mandatory inputFile  *)
(* is missing: the component that fails for want of one reserves no         *)
(* dispatch.                                                                *)

\* What is ready depends on the files and on the running tasks only.
LEMMA ReadyStable ==
  ASSUME UNCHANGED <<disk, runningTasks>>, NEW c
  PROVE  Ready(c)' <=> Ready(c)
BY DEF Ready, StuckStageOut

LEMMA ReadyInStable ==
  ASSUME UNCHANGED <<disk, runningTasks>>, NEW bag
  PROVE  /\ (\E c \in Component : bag[c] > 0 /\ Ready(c)')
              <=> (\E c \in Component : bag[c] > 0 /\ Ready(c))
BY ReadyStable

\* After start() settled, only the listener and the running tasks matter.
LEMMA SettledKeeps ==
  ASSUME outcome' # "none",
         phase' # "idle" => ~listener',
         \A t \in runningTasks' : exec'[t] # "none"
  PROVE  Scheduling'
BY DEF Scheduling, Listening

\* A step of an active handler: it stays active or reserves a dispatch.
LEMMA HandlerKeeps ==
  ASSUME TypeOK, Scheduling, NEW c \in Component,
         step[c] # "idle",
         UNCHANGED <<phase, removal>>,
         listener' => listener,
         outcome' = outcome \/ outcome' # "none",
         step'[c] # "idle" \/ (~listener => needToRerun'),
         \A t \in runningTasks' : exec'[t] # "none"
  PROVE  Scheduling'
<1>1. phase' # "idle" => ~listener' BY DEF Scheduling
<1>2. CASE outcome' # "none" BY <1>1, <1>2, SettledKeeps
<1>3. CASE outcome' = "none"
  <2>1. outcome = "none" BY <1>3
  <2>2. HandlerActive BY DEF HandlerActive
  <2>3. phase = "scanning" BY <2>1, <2>2 DEF Scheduling
  <2>4. phase' = "scanning" /\ ~listener' /\ ~listener
    BY <2>3 DEF Scheduling
  <2>5. needToRerun' \/ HandlerActive' BY <2>4 DEF HandlerActive
  <2>6. removal' = "no" BY <2>1 DEF Scheduling, TypeOK
  <2> QED BY <2>4, <2>5, <2>6 DEF Scheduling, Listening
<1> QED BY <1>2, <1>3

LEMMA EndHandlerReserves ==
  ASSUME TypeOK, NEW c \in Component, EndHandler(c) \/ EndDelegation(c)
  PROVE  (listener' => listener) /\ (~listener => needToRerun')
<1>1. CASE EndHandler(c)
  BY <1>1 DEF EndHandler, ReserveDispatch
<1>2. CASE EndDelegation(c)
  BY <1>2 DEF EndDelegation
<1> QED BY <1>1, <1>2

LEMMA HandlerScheduling ==
  ASSUME TypeOK, Scheduling, NEW c \in Component, Handler(c)
  PROVE  Scheduling'
<1> USE DEF lists, events, result, tasks, loops, history, Handling,
            unchangedByHandler
<1>0. \A t \in runningTasks : exec[t] # "none" BY DEF Scheduling
<1>1. CASE Skip(c)
  <2>1. EndHandler(c) /\ step[c] # "idle" BY <1>1 DEF Skip
  <2>2. UNCHANGED <<phase, result, tasks>> BY <1>1 DEF Skip
  <2> QED BY <1>0, <2>1, <2>2, EndHandlerReserves, HandlerKeeps
<1>2. CASE Begin(c)
  <2>1. step[c] # "idle" /\ step'[c] # "idle" BY <1>2 DEF Begin, TypeOK
  <2>2. UNCHANGED <<events, phase, result, tasks>> BY <1>2 DEF Begin
  <2> QED BY <1>0, <2>1, <2>2, HandlerKeeps
<1>3. CASE LaunchTask(c)
  <2>1. step[c] # "idle" /\ step'[c] # "idle" BY <1>3 DEF LaunchTask, TypeOK
  <2>2. UNCHANGED <<events, phase, result>> BY <1>3 DEF LaunchTask
  <2>3. \A t \in runningTasks' : exec'[t] # "none"
    BY <1>0, <1>3 DEF LaunchTask, TypeOK
  <2> QED BY <2>1, <2>2, <2>3, HandlerKeeps
<1>4. CASE TaskDispatched(c)
  <2>1. EndHandler(c) /\ step[c] # "idle" BY <1>4 DEF TaskDispatched
  <2>2. UNCHANGED <<phase, removal, outcome, tasks>> BY <1>4 DEF TaskDispatched
  <2> QED BY <1>0, <2>1, <2>2, EndHandlerReserves, HandlerKeeps
<1>5. CASE RunInstant(c)
  <2>1. EndHandler(c) /\ step[c] # "idle" BY <1>5 DEF RunInstant
  <2>2. UNCHANGED <<phase, result, tasks>> BY <1>5 DEF RunInstant
  <2> QED BY <1>0, <2>1, <2>2, EndHandlerReserves, HandlerKeeps
<1>6. ASSUME NEW b \in BOOLEAN, CheckIf(c, b) PROVE Scheduling'
  <2>1. EndHandler(c) /\ step[c] # "idle" BY <1>6 DEF CheckIf
  <2>2. UNCHANGED <<phase, result, tasks>> BY <1>6 DEF CheckIf
  <2> QED BY <1>0, <2>1, <2>2, EndHandlerReserves, HandlerKeeps
<1>7. ASSUME NEW b \in BOOLEAN, Jump(c, b) PROVE Scheduling'
  <2>1. step[c] # "idle" BY <1>7 DEF Jump
  <2>2. UNCHANGED <<phase, removal, exec, runningTasks>> BY <1>7 DEF Jump
  <2>3. outcome' = outcome \/ outcome' # "none" BY <1>7 DEF Jump, Pause, StateOf
  <2>4. listener' => listener BY <1>7 DEF Jump
  <2>5. ~listener => needToRerun' BY <1>7 DEF Jump
  <2> QED BY <1>0, <2>1, <2>2, <2>3, <2>4, <2>5, HandlerKeeps
<1>8. ASSUME NEW s \in ChildResults, ChildSettles(c, s) PROVE Scheduling'
  <2>1. EndDelegation(c) /\ step[c] # "idle" BY <1>8 DEF ChildSettles
  <2>2. UNCHANGED <<phase, removal, outcome, tasks>> BY <1>8 DEF ChildSettles
  <2> QED BY <1>0, <2>1, <2>2, EndHandlerReserves, HandlerKeeps
<1>9. CASE LoopTrip(c)
  <2>1. step[c] # "idle" /\ step'[c] # "idle" BY <1>9 DEF LoopTrip, TypeOK
  <2>2. UNCHANGED <<events, phase, result, tasks>> BY <1>9 DEF LoopTrip
  <2> QED BY <1>0, <2>1, <2>2, HandlerKeeps
<1>10. CASE LoopFinalize(c)
  <2>1. EndHandler(c) /\ step[c] # "idle" BY <1>10 DEF LoopFinalize
  <2>2. UNCHANGED <<phase, removal, outcome, tasks>> BY <1>10 DEF LoopFinalize
  <2> QED BY <1>0, <2>1, <2>2, EndHandlerReserves, HandlerKeeps
<1>11. ASSUME NEW s \in ChildResults, NEW b \in BOOLEAN, TripSettles(c, s, b)
       PROVE Scheduling'
  <2>1. EndDelegation(c) /\ step[c] # "idle" BY <1>11 DEF TripSettles
  <2>2. UNCHANGED <<phase, result, tasks>> BY <1>11 DEF TripSettles
  <2> QED BY <1>0, <2>1, <2>2, EndHandlerReserves, HandlerKeeps
<1>12. CASE HandlerThrows(c)
  <2>1. EndHandler(c) \/ EndDelegation(c) BY <1>12 DEF HandlerThrows
  <2>2. step[c] # "idle" BY <1>12 DEF HandlerThrows
  <2>3. UNCHANGED <<phase, removal, outcome, tasks>> BY <1>12 DEF HandlerThrows
  <2> QED BY <1>0, <2>1, <2>2, <2>3, EndHandlerReserves, HandlerKeeps
<1>13. CASE RunViewer(c)
  <2>1. EndHandler(c) /\ step[c] # "idle" BY <1>13 DEF RunViewer
  <2>2. UNCHANGED <<phase, result, tasks>> BY <1>13 DEF RunViewer
  <2> QED BY <1>0, <2>1, <2>2, EndHandlerReserves, HandlerKeeps
<1> QED
  BY <1>1, <1>2, <1>3, <1>4, <1>5, <1>6, <1>7, <1>8, <1>9, <1>10, <1>11, <1>12,
     <1>13
  DEF Handler

\* The scan of one entry.  Only here a missing mandatory inputFile matters.
LEMMA PassScheduling ==
  ASSUME TypeOK, Scheduling, NEW c \in Component, Pass(c)
  PROVE  Scheduling'
<1> USE DEF lists, events, result, tasks, loops, history
<1>0. \A t \in runningTasks : exec[t] # "none" BY DEF Scheduling
<1>1. CASE ScanDisabled(c)
  <2>1. UNCHANGED <<disk, searchList, pending, events, phase, result, step, tasks>>
    BY <1>1 DEF ScanDisabled
  <2> QED
    BY <2>1, ReadyInStable DEF Scheduling, Listening, ReadyIn, HandlerActive, TaskActive
<1>2. CASE ScanNotReady(c)
  <2>1. UNCHANGED <<disk, searchList, events, phase, result, step, tasks>>
    BY <1>2 DEF ScanNotReady
  <2>2. phase = "scanning" BY <1>2 DEF ScanNotReady, Scan
  <2>3. ReadyIn(pending)' => ReadyIn(pending)
    <3> SUFFICES ASSUME NEW d \in Component, pending'[d] > 0, Ready(d)'
                 PROVE  pending[d] > 0 /\ Ready(d)
      BY DEF ReadyIn
    <3>1. Ready(d) BY <2>1, ReadyStable
    <3>2. d # c BY <1>2, <3>1 DEF ScanNotReady
    <3> QED BY <1>2, <3>1, <3>2 DEF ScanNotReady, AddTo
  <2> QED
    BY <2>1, <2>2, <2>3 DEF Scheduling, Listening, HandlerActive, TaskActive
<1>3. CASE ScanInputsFail(c)
  <2>1. outcome' # "none" /\ phase' = "idle" BY <1>3 DEF ScanInputsFail
  <2>2. UNCHANGED tasks BY <1>3 DEF ScanInputsFail
  <2> QED BY <1>0, <2>1, <2>2, SettledKeeps
<1>4. CASE ScanMandatoryMissing(c)
  <2>1. MandatoryMissing # {} BY <1>4 DEF ScanMandatoryMissing
  <2>2. UNCHANGED <<pending, events, phase, removal, outcome, step, tasks>>
    BY <1>4 DEF ScanMandatoryMissing
  <2> QED BY <2>1, <2>2 DEF Scheduling, Listening, HandlerActive
<1>5. CASE ScanDispatch(c)
  <2>1. phase = "scanning" BY <1>5 DEF ScanDispatch, Scan
  <2>2. UNCHANGED <<events, phase, result, tasks>> BY <1>5 DEF ScanDispatch
  <2>3. HandlerActive'
    <3>1. step'[c] # "idle" BY <1>5 DEF ScanDispatch, TypeOK
    <3> QED BY <3>1 DEF HandlerActive
  <2> QED BY <2>1, <2>2, <2>3 DEF Scheduling, Listening
<1> QED BY <1>1, <1>2, <1>3, <1>4, <1>5 DEF Pass

\* While a task executes, the dispatcher is to hear of it.
LEMMA ExecutionKeeps ==
  ASSUME TypeOK, Scheduling, NEW c \in Component,
         UNCHANGED <<searchList, pending, events, phase, removal, outcome, step,
                     runningTasks>>,
         exec'[c] # "none",
         \A t \in Component \ {c} : exec'[t] = exec[t]
  PROVE  Scheduling'
<1>1. TaskActive' BY DEF TaskActive
<1>2. \A t \in runningTasks' : exec'[t] # "none" BY DEF Scheduling, TypeOK
<1> QED BY <1>1, <1>2 DEF Scheduling, Listening, HandlerActive, events

LEMMA ExecutionScheduling ==
  ASSUME TypeOK, Scheduling, NEW c \in Component, Execution(c)
  PROVE  Scheduling'
<1> USE DEF lists, events, result
<1>1. CASE StageIn(c) BY <1>1, ExecutionKeeps DEF StageIn, TypeOK
<1>2. CASE ScriptEnds(c) BY <1>2, ExecutionKeeps DEF ScriptEnds, TypeOK
<1>3. ASSUME NEW s \in TaskResults, TaskDecided(c, s) PROVE Scheduling'
  BY <1>3, ExecutionKeeps DEF TaskDecided, TypeOK
<1>4. CASE TaskSettled(c) BY <1>4, ExecutionKeeps DEF TaskSettled, TypeOK
<1>5. CASE StageOut(c) BY <1>5, ExecutionKeeps DEF StageOut, TypeOK
<1>6. ASSUME NEW b \in BOOLEAN, StageOutEnds(c, b) PROVE Scheduling'
  BY <1>6, ExecutionKeeps DEF StageOutEnds, TypeOK
<1>7. CASE TaskCompleted(c)
  <2>1. ReserveDispatch /\ UNCHANGED <<lists, phase, removal, outcome, step>>
    BY <1>7 DEF TaskCompleted
  <2>2. \A t \in runningTasks' : exec'[t] # "none"
    BY <1>7 DEF TaskCompleted, Scheduling, TypeOK
  <2>3. UNCHANGED listener BY <2>1 DEF ReserveDispatch
  <2>4. CASE outcome # "none"
    <3>1. phase' # "idle" => ~listener' BY <2>1, <2>3 DEF Scheduling
    <3> QED BY <2>1, <2>2, <2>4, <3>1, SettledKeeps
  <2>5. CASE outcome = "none" /\ phase = "idle"
    <3>1. listener BY <2>5 DEF Scheduling, Listening
    <3>2. emits' > 0 BY <2>1, <3>1 DEF ReserveDispatch, TypeOK
    <3> QED
      BY <2>1, <2>2, <2>3, <2>5, <3>1, <3>2 DEF Scheduling, Listening, HandlerActive
  <2>6. CASE outcome = "none" /\ phase # "idle"
    <3>1. ~listener BY <2>6 DEF Scheduling
    <3>2. needToRerun' BY <2>1, <3>1 DEF ReserveDispatch
    <3> QED
      BY <2>1, <2>2, <2>3, <2>6, <3>1, <3>2 DEF Scheduling, Listening, HandlerActive
  <2> QED BY <2>4, <2>5, <2>6
<1> QED BY <1>1, <1>2, <1>3, <1>4, <1>5, <1>6, <1>7 DEF Execution

\* The end of a pass that leaves the dispatcher awake or settles it.
LEMMA EndPassKeeps ==
  ASSUME TypeOK, NEW done \in BOOLEAN, EndPass(done),
         UNCHANGED <<removal, exec>>,
         \A t \in runningTasks' : exec[t] # "none",
         removal # "no" => outcome # "none",
         outcome = "none" /\ ~done =>
           /\ ~HandlerActive' /\ pending' = Empty
           /\ MandatoryMissing = {} /\ ReadyIn(searchList)'
                => needToRerun \/ TaskActive
  PROVE  Scheduling'
<1>1. phase' = "idle" BY DEF EndPass
<1>2. CASE done \/ outcome # "none"
  <2>1. outcome' # "none" BY <1>2 DEF EndPass, StateOf
  <2> QED BY <1>1, <2>1, SettledKeeps
<1>3. CASE ~done /\ outcome = "none"
  <2>1. outcome' = "none" /\ listener' BY <1>3 DEF EndPass
  <2>2. needToRerun => emits' > 0 BY <1>3 DEF EndPass, TypeOK
  <2>3. TaskActive' <=> TaskActive BY DEF TaskActive
  <2>4. removal' = "no" BY <1>3 DEF TypeOK
  <2> QED BY <1>1, <1>3, <2>1, <2>2, <2>3, <2>4 DEF Scheduling, Listening
<1> QED BY <1>2, <1>3

LEMMA LoopScheduling == ASSUME TypeOK, Scheduling, Loop PROVE Scheduling'
<1> USE DEF lists, events, result, tasks, loops, history
<1>0. \A t \in runningTasks : exec[t] # "none" BY DEF Scheduling
<1>1. CASE EmitDispatch
  <2>1. UNCHANGED <<disk, pending, result, step, tasks>> BY <1>1 DEF EmitDispatch
  <2>2. CASE outcome # "none"
    <3>1. phase' # "idle" => ~listener' BY <1>1 DEF EmitDispatch, Scheduling
    <3> QED BY <1>0, <2>1, <2>2, <3>1, SettledKeeps
  <2>3. CASE outcome = "none" /\ listener
    <3>1. phase = "idle" /\ pending = Empty BY <2>3 DEF Scheduling
    <3>2. phase' = "scanning" /\ ~listener' BY <1>1, <2>3 DEF EmitDispatch
    <3>3. ~ReadyIn(pending)' BY <2>1, <3>1 DEF ReadyIn, Empty
    <3>4. removal' = "no" BY <2>1, <2>3 DEF Scheduling, TypeOK
    <3> QED BY <1>0, <2>1, <3>2, <3>3, <3>4 DEF Scheduling, Listening
  <2>4. CASE outcome = "none" /\ ~listener
    <3>1. phase # "idle" BY <2>4 DEF Scheduling, Listening
    <3>2. UNCHANGED <<listener, phase, searchList, needToRerun>>
      BY <1>1, <2>4 DEF EmitDispatch
    <3>3. ReadyIn(pending)' <=> ReadyIn(pending)
      BY <2>1, ReadyInStable DEF ReadyIn
    <3>4. ReadyIn(searchList)' <=> ReadyIn(searchList)
      BY <2>1, <3>2, ReadyInStable DEF ReadyIn
    <3> QED
      BY <2>1, <2>4, <3>1, <3>2, <3>3, <3>4
      DEF Scheduling, Listening, HandlerActive, TaskActive
  <2> QED BY <2>2, <2>3, <2>4
<1>2. CASE Collect
  <2>1. /\ UNCHANGED <<disk, removal, step, exec>> /\ pending' = Empty
        /\ phase = "scanning" /\ runningTasks' = StillRunning
    BY <1>2 DEF Collect
  <2>2. ~HandlerActive /\ ~HandlerActive'
    BY <1>2, <2>1 DEF Collect, HandlerActive
  <2>3. \A t \in runningTasks' : exec[t] # "none"
    BY <1>0, <2>1 DEF StillRunning
  <2>4. outcome = "none" /\ MandatoryMissing = {} /\ ReadyIn(searchList)'
          => needToRerun \/ TaskActive
    <3> SUFFICES ASSUME outcome = "none", MandatoryMissing = {}, ~TaskActive,
                        NEW d \in Component, searchList'[d] > 0, Ready(d)'
                 PROVE  needToRerun
      BY DEF ReadyIn
    <3>1. runningTasks = {} /\ runningTasks' = {}
      BY <1>0, <2>1 DEF TaskActive, StillRunning, TypeOK
    <3>2. Ready(d) BY <2>1, <3>1, ReadyStable
    <3>3. pending[d] > 0 BY <1>2 DEF Collect, RemoveDuplicated, TypeOK
    <3>4. ReadyIn(pending) BY <3>2, <3>3 DEF ReadyIn
    <3> QED BY <2>1, <2>2, <3>4 DEF Scheduling
  <2>5. CASE EndPass(StillRunning = {})
    BY <2>1, <2>2, <2>3, <2>4, <2>5, EndPassKeeps DEF Scheduling
  <2>6. CASE phase' = "closing" /\ UNCHANGED <<events, outcome>>
    <3>1. ~listener' BY <2>1, <2>6 DEF Scheduling
    <3>2. TaskActive' <=> TaskActive BY <2>1 DEF TaskActive
    <3> QED
      BY <2>1, <2>2, <2>3, <2>4, <2>6, <3>1, <3>2 DEF Scheduling, Listening
  <2> QED BY <1>2, <2>5, <2>6 DEF Collect
<1>3. CASE CheckBlocked
  <2>1. UNCHANGED <<disk, pending, searchList, removal, step, tasks>>
        /\ phase = "closing"
    BY <1>3 DEF CheckBlocked
  <2>2. ReadyIn(searchList)' <=> ReadyIn(searchList)
    BY <2>1, ReadyInStable DEF ReadyIn
  <2>3. HandlerActive' <=> HandlerActive BY <2>1 DEF HandlerActive
  <2>4. PICK done \in BOOLEAN : EndPass(done) BY <1>3 DEF CheckBlocked
  <2> QED BY <1>0, <2>1, <2>2, <2>3, <2>4, EndPassKeeps DEF Scheduling
<1>4. CASE PassError
  <2>1. outcome' # "none" /\ phase' = "idle" /\ UNCHANGED tasks
    BY <1>4 DEF PassError
  <2> QED BY <1>0, <2>1, SettledKeeps
<1> QED BY <1>1, <1>2, <1>3, <1>4 DEF Loop

LEMMA StopScheduling ==
  ASSUME TypeOK, Scheduling
  PROVE  /\ \A reason \in {"none", "failed"} : Remove(reason) => Scheduling'
         /\ Removed => Scheduling'
         /\ Continue => Scheduling'
<1> USE DEF lists, events, result, tasks, loops, history
<1>0. \A t \in runningTasks : exec[t] # "none" BY DEF Scheduling
<1>1. ASSUME NEW reason \in {"none", "failed"}, Remove(reason) PROVE Scheduling'
  <2>1. outcome' # "none" BY <1>1 DEF Remove, Pause, StateOf
  <2>2. ~listener' /\ UNCHANGED <<exec, runningTasks>> BY <1>1 DEF Remove
  <2> QED BY <1>0, <2>1, <2>2, SettledKeeps
<1>2. CASE Removed
  <2>1. outcome' # "none" BY <1>2 DEF Removed, Scheduling
  <2>2. UNCHANGED <<phase, events, tasks>> BY <1>2 DEF Removed
  <2>3. phase' # "idle" => ~listener' BY <2>2 DEF Scheduling
  <2> QED BY <1>0, <2>1, <2>2, <2>3, SettledKeeps
<1>3. CASE Continue
  <2>1. /\ phase' = "idle" /\ listener' /\ removal' = "no"
        /\ pending' = Empty /\ searchList' = Empty /\ runningTasks' = {}
    BY <1>3 DEF Continue, Quiescent
  <2>2. ~HandlerActive' BY <1>3 DEF Continue, Quiescent, HandlerActive
  <2>3. ~ReadyIn(searchList)' BY <2>1 DEF ReadyIn, Empty
  <2> QED BY <2>1, <2>2, <2>3 DEF Scheduling, Listening
<1> QED BY <1>1, <1>2, <1>3

\* Scheduling is an inductive invariant of the dispatch loop.
THEOREM SchedulingInvariant == Spec => []Scheduling
<1>1. Init => Scheduling
  BY DEF Init, Scheduling, Listening, HandlerActive, ReadyIn, Empty
<1>2. TypeOK /\ Scheduling /\ [Next]_vars => Scheduling'
  <2> SUFFICES ASSUME TypeOK, Scheduling, [Next]_vars PROVE Scheduling'
    OBVIOUS
  <2> USE DEF lists, events, result, tasks, loops, history
  <2>1. CASE Loop BY <2>1, LoopScheduling
  <2>2. ASSUME NEW c \in Component, Pass(c) PROVE Scheduling'
    BY <2>2, PassScheduling
  <2>3. ASSUME NEW c \in Component, Handler(c) PROVE Scheduling'
    BY <2>3, HandlerScheduling
  <2>4. ASSUME NEW c \in Component, Execution(c) PROVE Scheduling'
    BY <2>4, ExecutionScheduling
  <2>5. CASE \/ \E reason \in {"none", "failed"} : Remove(reason)
             \/ Removed \/ Continue
    BY <2>5, StopScheduling
  <2>6. CASE (\E c \in Component : BreakArrives(c)) \/ UNCHANGED vars
    <3>1. UNCHANGED <<disk, lists, events, phase, result, step, tasks>>
      BY <2>6 DEF BreakArrives, vars
    <3> QED
      BY <3>1, ReadyInStable
      DEF Scheduling, Listening, ReadyIn, HandlerActive, TaskActive
  <2> QED BY <2>1, <2>2, <2>3, <2>4, <2>5, <2>6 DEF Next
<1> QED BY <1>1, <1>2, TypeCorrect, PTL DEF Spec

\* Unless a mandatory inputFile is missing, a dispatcher that has not concluded
\* never sleeps on a component it could start (NoLostWakeup): _reserveDispatch
\* and needToRerun lose no wakeup, in any workflow and any interleaving.
THEOREM NoWakeupLost ==
  ASSUME MandatoryMissing = {}
  PROVE  Spec => []NoLostWakeup
<1>1. Scheduling => NoLostWakeup
  BY DEF Scheduling, NoLostWakeup, ReadyIn, HandlerActive, TaskActive
<1> QED BY <1>1, SchedulingInvariant, PTL

\* A dispatcher that is between two passes and has not concluded listens for
\* "dispatch" (Listening).
THEOREM AlwaysListening == Spec => []Listening
<1>1. Scheduling => Listening BY DEF Scheduling
<1> QED BY <1>1, SchedulingInvariant, PTL

-----------------------------------------------------------------------------
(* Nothing is at work once the dispatcher has concluded.  A task whose      *)
(* script is running or still to run is in runningTasks and has no result   *)
(* in memory, so a dispatcher that finds no such task left                  *)
(* (filterRunningTasks) has none; it looks when no handler is active.       *)

\* A listener waits between passes only, when every handler has ended.
Asleep ==
  /\ listener => phase = "idle" /\ \A c \in Component : step[c] = "idle"
  /\ phase = "closing" => runningTasks = {} /\ \A c \in Component : step[c] = "idle"

Executing ==
  \A c \in Component : exec[c] \in {"stage-in", "running", "checking"} =>
    c \in runningTasks /\ mem[c] \notin FinishedStates

\* Only tasks are executed or left at "stage-out".
TaskOnly ==
  \A c \in Component : Kind[c] \notin TaskKinds =>
    exec[c] = "none" /\ step[c] \notin {"launch", "launched"} /\ disk[c] # "stage-out"

\* A break c the condition of which held has ended this dispatcher.
BrokeAt(c) ==
  /\ Kind[c] = "break" /\ cond[c] = "true"
  /\ disk[c] = "finished" /\ step[c] \in {"idle", "adding"}

AtRest ==
  /\ phase = "idle" /\ ~listener /\ runningTasks = {}
  /\ \A c \in Component : step[c] = "idle"

\* Who settled on its own is at rest, or was ended by a break.
SettledQuiet ==
  outcome \in FinishedStates /\ removal = "no" =>
    AtRest \/ \E c \in Component : BrokeAt(c)

QuietInv == TypeOK /\ Asleep /\ Executing /\ TaskOnly /\ SettledQuiet

\* No break has a mandatory inputFile: one that jumped and then failed for want
\* of its file could be evaluated again, and the other way.
BreaksNeedNoFile == \A c \in MandatoryMissing : Kind[c] # "break"

\* A step of one component's entry, handler or execution is about that component.
LEMMA ActorLocal ==
  ASSUME TypeOK, NEW c \in Component, Pass(c) \/ Handler(c) \/ Execution(c)
  PROVE  \A d \in Component : d # c =>
           /\ disk'[d] = disk[d] /\ step'[d] = step[d] /\ exec'[d] = exec[d]
           /\ cond'[d] = cond[d] /\ starts'[d] = starts[d]
<1>1. CASE ScanDisabled(c)
  BY <1>1 DEF ScanDisabled, Scan, events, result, tasks, loops, history, TypeOK
<1>2. CASE ScanNotReady(c)
  BY <1>2 DEF ScanNotReady, Scan, events, result, tasks, loops, history, TypeOK
<1>3. CASE ScanInputsFail(c)
  BY <1>3 DEF ScanInputsFail, Empty, events, tasks, loops, history, TypeOK
<1>4. CASE ScanMandatoryMissing(c)
  BY <1>4 DEF ScanMandatoryMissing, Scan, events, tasks, loops, history, TypeOK
<1>5. CASE ScanDispatch(c)
  BY <1>5 DEF ScanDispatch, Scan, events, result, tasks, loops, TypeOK
<1>6. CASE Skip(c)
  BY <1>6
  DEF Skip, Handling, unchangedByHandler, EndHandler, result, tasks, loops, history,
      ReserveDispatch, TypeOK
<1>7. CASE Begin(c)
  BY <1>7 DEF Begin, Handling, lists, events, result, tasks, loops, history, TypeOK
<1>8. CASE LaunchTask(c)
  BY <1>8 DEF LaunchTask, Handling, lists, events, result, loops, history, TypeOK
<1>9. CASE TaskDispatched(c)
  BY <1>9
  DEF TaskDispatched, Handling, unchangedByHandler, EndHandler, SetStateFlag, tasks,
      loops, history, ReserveDispatch, TypeOK
<1>10. CASE RunInstant(c)
  BY <1>10
  DEF RunInstant, Handling, unchangedByHandler, EndHandler, result, tasks, loops,
      history, ReserveDispatch, TypeOK
<1>11. CASE RunViewer(c)
  BY <1>11
  DEF RunViewer, Handling, unchangedByHandler, EndHandler, result, tasks, loops,
      history, ReserveDispatch, TypeOK
<1>12. ASSUME NEW b \in BOOLEAN, CheckIf(c, b)
      PROVE  \A d \in Component : d # c =>
               /\ disk'[d] = disk[d] /\ step'[d] = step[d] /\ exec'[d] = exec[d]
               /\ cond'[d] = cond[d] /\ starts'[d] = starts[d]
  BY <1>12
  DEF CheckIf, Handling, unchangedByHandler, EndHandler, result, tasks, loops,
      ReserveDispatch, TypeOK
<1>13. ASSUME NEW b \in BOOLEAN, Jump(c, b)
      PROVE  \A d \in Component : d # c =>
               /\ disk'[d] = disk[d] /\ step'[d] = step[d] /\ exec'[d] = exec[d]
               /\ cond'[d] = cond[d] /\ starts'[d] = starts[d]
  BY <1>13 DEF Jump, Handling, Pause, Empty, loops, CancelDispatchedTasks, TypeOK
<1>14. ASSUME NEW s \in ChildResults, ChildSettles(c, s)
      PROVE  \A d \in Component : d # c =>
               /\ disk'[d] = disk[d] /\ step'[d] = step[d] /\ exec'[d] = exec[d]
               /\ cond'[d] = cond[d] /\ starts'[d] = starts[d]
  BY <1>14
  DEF ChildSettles, Handling, unchangedByHandler, EndDelegation, SetStateFlag,
      tasks, loops, history, TypeOK
<1>15. CASE LoopTrip(c)
  BY <1>15
  DEF LoopTrip, Handling, unchangedByHandler, events, result, tasks, history, TypeOK
<1>16. CASE LoopFinalize(c)
  BY <1>16
  DEF LoopFinalize, Handling, unchangedByHandler, EndHandler, SetStateFlag, tasks,
      history, ReserveDispatch, TypeOK
<1>17. ASSUME NEW s \in ChildResults, NEW b \in BOOLEAN, TripSettles(c, s, b)
      PROVE  \A d \in Component : d # c =>
               /\ disk'[d] = disk[d] /\ step'[d] = step[d] /\ exec'[d] = exec[d]
               /\ cond'[d] = cond[d] /\ starts'[d] = starts[d]
  BY <1>17
  DEF TripSettles, Handling, unchangedByHandler, EndDelegation, result, tasks,
      history, TypeOK
<1>18. CASE HandlerThrows(c)
  BY <1>18
  DEF HandlerThrows, unchangedByHandler, EndHandler, EndDelegation, tasks, loops,
      history, ReserveDispatch, TypeOK
<1>19. CASE StageIn(c)
  BY <1>19 DEF StageIn, lists, events, result, loops, history, TypeOK
<1>20. CASE ScriptEnds(c)
  BY <1>20 DEF ScriptEnds, lists, events, result, loops, history, TypeOK
<1>21. ASSUME NEW s \in TaskResults, TaskDecided(c, s)
      PROVE  \A d \in Component : d # c =>
               /\ disk'[d] = disk[d] /\ step'[d] = step[d] /\ exec'[d] = exec[d]
               /\ cond'[d] = cond[d] /\ starts'[d] = starts[d]
  BY <1>21 DEF TaskDecided, lists, events, result, loops, TypeOK
<1>22. CASE TaskSettled(c)
  BY <1>22 DEF TaskSettled, lists, events, result, loops, history, TypeOK
<1>23. CASE StageOut(c)
  BY <1>23 DEF StageOut, lists, events, result, loops, history, TypeOK
<1>24. ASSUME NEW b \in BOOLEAN, StageOutEnds(c, b)
      PROVE  \A d \in Component : d # c =>
               /\ disk'[d] = disk[d] /\ step'[d] = step[d] /\ exec'[d] = exec[d]
               /\ cond'[d] = cond[d] /\ starts'[d] = starts[d]
  BY <1>24 DEF StageOutEnds, lists, events, result, loops, history, TypeOK
<1>25. CASE TaskCompleted(c)
  BY <1>25 DEF TaskCompleted, ReserveDispatch, lists, loops, history, TypeOK
<1> QED
  BY <1>1, <1>2, <1>3, <1>4, <1>5, <1>6, <1>7, <1>8, <1>9, <1>10, <1>11, <1>12,
     <1>13, <1>14, <1>15, <1>16, <1>17, <1>18, <1>19, <1>20, <1>21, <1>22,
     <1>23, <1>24, <1>25
  DEF Pass, Handler, Execution

\* The entries of a pass.
LEMMA ScanDisabledQuiet ==
  ASSUME BreaksNeedNoFile, QuietInv, TypeOK', NEW c \in Component, ScanDisabled(c)
  PROVE  QuietInv'
<1>1. TypeOK /\ Asleep /\ Executing /\ TaskOnly /\ SettledQuiet BY DEF QuietInv
<1>2. \A d \in Component : d # c =>
        /\ disk'[d] = disk[d] /\ step'[d] = step[d] /\ exec'[d] = exec[d]
        /\ cond'[d] = cond[d] /\ starts'[d] = starts[d]
  BY <1>1, ActorLocal DEF Pass
<1>3. Asleep' /\ Executing' /\ TaskOnly' /\ SettledQuiet'
  BY <1>1
  DEF ScanDisabled, events, result, tasks, loops, history, Asleep, Executing,
      TaskOnly, SettledQuiet, AtRest, BrokeAt
<1> QED BY <1>3 DEF QuietInv

LEMMA ScanNotReadyQuiet ==
  ASSUME BreaksNeedNoFile, QuietInv, TypeOK', NEW c \in Component, ScanNotReady(c)
  PROVE  QuietInv'
<1>1. TypeOK /\ Asleep /\ Executing /\ TaskOnly /\ SettledQuiet BY DEF QuietInv
<1>2. \A d \in Component : d # c =>
        /\ disk'[d] = disk[d] /\ step'[d] = step[d] /\ exec'[d] = exec[d]
        /\ cond'[d] = cond[d] /\ starts'[d] = starts[d]
  BY <1>1, ActorLocal DEF Pass
<1>3. Asleep' /\ Executing' /\ TaskOnly' /\ SettledQuiet'
  BY <1>1
  DEF ScanNotReady, events, result, tasks, loops, history, Asleep, Executing,
      TaskOnly, SettledQuiet, AtRest, BrokeAt
<1> QED BY <1>3 DEF QuietInv

LEMMA ScanInputsFailQuiet ==
  ASSUME BreaksNeedNoFile, QuietInv, TypeOK', NEW c \in Component, ScanInputsFail(c)
  PROVE  QuietInv'
<1>1. TypeOK /\ Asleep /\ Executing /\ TaskOnly /\ SettledQuiet BY DEF QuietInv
<1>2. \A d \in Component : d # c =>
        /\ disk'[d] = disk[d] /\ step'[d] = step[d] /\ exec'[d] = exec[d]
        /\ cond'[d] = cond[d] /\ starts'[d] = starts[d]
  BY <1>1, ActorLocal DEF Pass
<1>3. Asleep'
  BY <1>1, <1>2 DEF ScanInputsFail, Empty, events, tasks, loops, history, Asleep
<1>4. SettledQuiet'
  BY <1>1, <1>2
  DEF ScanInputsFail, Empty, events, tasks, loops, history, SettledQuiet, AtRest,
      BrokeAt
<1>5. Executing' /\ TaskOnly'
  BY <1>1 DEF ScanInputsFail, events, tasks, loops, history, Executing, TaskOnly
<1> QED BY <1>3, <1>4, <1>5 DEF QuietInv

LEMMA ScanMandatoryMissingQuiet ==
  ASSUME BreaksNeedNoFile, QuietInv, TypeOK', NEW c \in Component, ScanMandatoryMissing(c)
  PROVE  QuietInv'
<1>1. TypeOK /\ Asleep /\ Executing /\ TaskOnly /\ SettledQuiet BY DEF QuietInv
<1>2. \A d \in Component : d # c =>
        /\ disk'[d] = disk[d] /\ step'[d] = step[d] /\ exec'[d] = exec[d]
        /\ cond'[d] = cond[d] /\ starts'[d] = starts[d]
  BY <1>1, ActorLocal DEF Pass
<1>3. TaskOnly'
  BY <1>1, <1>2 DEF ScanMandatoryMissing, Scan, events, tasks, loops, history, TaskOnly
<1>4. SettledQuiet'
  BY <1>1, <1>2
  DEF ScanMandatoryMissing, Scan, events, tasks, loops, history, SettledQuiet,
      AtRest, BrokeAt, BreaksNeedNoFile
<1>5. Asleep' /\ Executing'
  BY <1>1 DEF ScanMandatoryMissing, events, tasks, loops, history, Asleep, Executing
<1> QED BY <1>3, <1>4, <1>5 DEF QuietInv

LEMMA ScanDispatchQuiet ==
  ASSUME BreaksNeedNoFile, QuietInv, TypeOK', NEW c \in Component, ScanDispatch(c)
  PROVE  QuietInv'
<1>1. TypeOK /\ Asleep /\ Executing /\ TaskOnly /\ SettledQuiet BY DEF QuietInv
<1>2. \A d \in Component : d # c =>
        /\ disk'[d] = disk[d] /\ step'[d] = step[d] /\ exec'[d] = exec[d]
        /\ cond'[d] = cond[d] /\ starts'[d] = starts[d]
  BY <1>1, ActorLocal DEF Pass
<1>3. Asleep'
  BY <1>1, <1>2 DEF ScanDispatch, Scan, Resuming, events, result, tasks, loops, Asleep
<1>4. TaskOnly'
  BY <1>1, <1>2 DEF ScanDispatch, Scan, Resuming, events, result, tasks, loops, TaskOnly
<1>5. SettledQuiet'
  BY <1>1, <1>2
  DEF ScanDispatch, Scan, Resuming, events, result, tasks, loops, SettledQuiet,
      AtRest, BrokeAt
<1>6. Executing' BY <1>1 DEF ScanDispatch, events, result, tasks, loops, Executing
<1> QED BY <1>3, <1>4, <1>5, <1>6 DEF QuietInv

\* The handlers.
LEMMA SkipQuiet ==
  ASSUME BreaksNeedNoFile, QuietInv, TypeOK', NEW c \in Component, Skip(c)
  PROVE  QuietInv'
<1>1. TypeOK /\ Asleep /\ Executing /\ TaskOnly /\ SettledQuiet BY DEF QuietInv
<1>2. \A d \in Component : d # c =>
        /\ disk'[d] = disk[d] /\ step'[d] = step[d] /\ exec'[d] = exec[d]
        /\ cond'[d] = cond[d] /\ starts'[d] = starts[d]
  BY <1>1, ActorLocal DEF Handler
<1>3. Asleep'
  BY <1>1, <1>2
  DEF Skip, Handling, unchangedByHandler, EndHandler, AddTo, result, tasks, loops,
      history, ReserveDispatch, Asleep
<1>4. TaskOnly'
  BY <1>1, <1>2
  DEF Skip, Handling, unchangedByHandler, EndHandler, AddTo, result, tasks, loops,
      history, ReserveDispatch, TaskOnly
<1>5. SettledQuiet'
  BY <1>1, <1>2
  DEF Skip, Handling, unchangedByHandler, EndHandler, AddTo, result, tasks, loops,
      history, ReserveDispatch, SettledQuiet, AtRest, BrokeAt
<1>6. Executing' BY <1>1 DEF Skip, result, tasks, loops, history, Executing
<1> QED BY <1>3, <1>4, <1>5, <1>6 DEF QuietInv

LEMMA BeginQuiet ==
  ASSUME BreaksNeedNoFile, QuietInv, TypeOK', NEW c \in Component, Begin(c)
  PROVE  QuietInv'
<1>1. TypeOK /\ Asleep /\ Executing /\ TaskOnly /\ SettledQuiet BY DEF QuietInv
<1>2. \A d \in Component : d # c =>
        /\ disk'[d] = disk[d] /\ step'[d] = step[d] /\ exec'[d] = exec[d]
        /\ cond'[d] = cond[d] /\ starts'[d] = starts[d]
  BY <1>1, ActorLocal DEF Handler
<1>3. Asleep'
  BY <1>1, <1>2
  DEF Begin, Handling, lists, events, result, tasks, loops, history, Asleep
<1>4. TaskOnly'
  BY <1>1, <1>2
  DEF Begin, Handling, lists, events, result, tasks, loops, history, TaskOnly
<1>5. SettledQuiet'
  BY <1>1, <1>2
  DEF Begin, Handling, lists, events, result, tasks, loops, history, SettledQuiet,
      AtRest, BrokeAt
<1>6. Executing'
  BY <1>1 DEF Begin, lists, events, result, tasks, loops, history, Executing
<1> QED BY <1>3, <1>4, <1>5, <1>6 DEF QuietInv

LEMMA LaunchTaskQuiet ==
  ASSUME BreaksNeedNoFile, QuietInv, TypeOK', NEW c \in Component, LaunchTask(c)
  PROVE  QuietInv'
<1>1. TypeOK /\ Asleep /\ Executing /\ TaskOnly /\ SettledQuiet BY DEF QuietInv
<1>2. \A d \in Component : d # c =>
        /\ disk'[d] = disk[d] /\ step'[d] = step[d] /\ exec'[d] = exec[d]
        /\ cond'[d] = cond[d] /\ starts'[d] = starts[d]
  BY <1>1, ActorLocal DEF Handler
<1>3. Asleep'
  BY <1>1, <1>2
  DEF LaunchTask, Handling, Resuming, lists, events, result, loops, history, Asleep
<1>4. Executing'
  BY <1>1, <1>2
  DEF LaunchTask, Handling, Resuming, lists, events, result, loops, history,
      Executing, TypeOK
<1>5. TaskOnly'
  BY <1>1, <1>2
  DEF LaunchTask, Handling, Resuming, lists, events, result, loops, history,
      TaskOnly
<1>6. SettledQuiet'
  BY <1>1, <1>2
  DEF LaunchTask, Handling, Resuming, lists, events, result, loops, history,
      SettledQuiet, AtRest, BrokeAt
<1> QED BY <1>3, <1>4, <1>5, <1>6 DEF QuietInv

LEMMA TaskDispatchedQuiet ==
  ASSUME BreaksNeedNoFile, QuietInv, TypeOK', NEW c \in Component, TaskDispatched(c)
  PROVE  QuietInv'
<1>1. TypeOK /\ Asleep /\ Executing /\ TaskOnly /\ SettledQuiet BY DEF QuietInv
<1>2. \A d \in Component : d # c =>
        /\ disk'[d] = disk[d] /\ step'[d] = step[d] /\ exec'[d] = exec[d]
        /\ cond'[d] = cond[d] /\ starts'[d] = starts[d]
  BY <1>1, ActorLocal DEF Handler
<1>3. Asleep'
  BY <1>1, <1>2
  DEF TaskDispatched, Handling, unchangedByHandler, EndHandler, SetStateFlag, AddTo,
      tasks, loops, history, ReserveDispatch, Asleep
<1>4. TaskOnly'
  BY <1>1, <1>2
  DEF TaskDispatched, Handling, unchangedByHandler, EndHandler, SetStateFlag, AddTo,
      tasks, loops, history, ReserveDispatch, TaskOnly
<1>5. SettledQuiet'
  BY <1>1, <1>2
  DEF TaskDispatched, Handling, unchangedByHandler, EndHandler, SetStateFlag, AddTo,
      tasks, loops, history, ReserveDispatch, SettledQuiet, AtRest, BrokeAt
<1>6. Executing' BY <1>1 DEF TaskDispatched, tasks, loops, history, Executing
<1> QED BY <1>3, <1>4, <1>5, <1>6 DEF QuietInv

LEMMA RunInstantQuiet ==
  ASSUME BreaksNeedNoFile, QuietInv, TypeOK', NEW c \in Component, RunInstant(c)
  PROVE  QuietInv'
<1>1. TypeOK /\ Asleep /\ Executing /\ TaskOnly /\ SettledQuiet BY DEF QuietInv
<1>2. \A d \in Component : d # c =>
        /\ disk'[d] = disk[d] /\ step'[d] = step[d] /\ exec'[d] = exec[d]
        /\ cond'[d] = cond[d] /\ starts'[d] = starts[d]
  BY <1>1, ActorLocal DEF Handler
<1>3. Asleep'
  BY <1>1, <1>2
  DEF RunInstant, Handling, unchangedByHandler, EndHandler, AddTo, result, tasks,
      loops, history, ReserveDispatch, Asleep
<1>4. TaskOnly'
  BY <1>1, <1>2
  DEF RunInstant, Handling, unchangedByHandler, EndHandler, AddTo, result, tasks,
      loops, history, ReserveDispatch, TaskOnly
<1>5. SettledQuiet'
  BY <1>1, <1>2
  DEF RunInstant, Handling, unchangedByHandler, EndHandler, AddTo, result, tasks,
      loops, history, ReserveDispatch, SettledQuiet, AtRest, BrokeAt
<1>6. Executing' BY <1>1 DEF RunInstant, result, tasks, loops, history, Executing
<1> QED BY <1>3, <1>4, <1>5, <1>6 DEF QuietInv

LEMMA RunViewerQuiet ==
  ASSUME BreaksNeedNoFile, QuietInv, TypeOK', NEW c \in Component, RunViewer(c)
  PROVE  QuietInv'
<1>1. TypeOK /\ Asleep /\ Executing /\ TaskOnly /\ SettledQuiet BY DEF QuietInv
<1>2. \A d \in Component : d # c =>
        /\ disk'[d] = disk[d] /\ step'[d] = step[d] /\ exec'[d] = exec[d]
        /\ cond'[d] = cond[d] /\ starts'[d] = starts[d]
  BY <1>1, ActorLocal DEF Handler
<1>3. Asleep'
  BY <1>1, <1>2
  DEF RunViewer, Handling, unchangedByHandler, EndHandler, result, tasks, loops,
      history, ReserveDispatch, Asleep
<1>4. TaskOnly'
  BY <1>1, <1>2
  DEF RunViewer, Handling, unchangedByHandler, EndHandler, result, tasks, loops,
      history, ReserveDispatch, TaskOnly
<1>5. SettledQuiet'
  BY <1>1, <1>2
  DEF RunViewer, Handling, unchangedByHandler, EndHandler, result, tasks, loops,
      history, ReserveDispatch, SettledQuiet, AtRest, BrokeAt
<1>6. Executing' BY <1>1 DEF RunViewer, result, tasks, loops, history, Executing
<1> QED BY <1>3, <1>4, <1>5, <1>6 DEF QuietInv

LEMMA CheckIfQuiet ==
  ASSUME BreaksNeedNoFile, QuietInv, TypeOK',
         NEW c \in Component, NEW b \in BOOLEAN, CheckIf(c, b)
  PROVE  QuietInv'
<1>1. TypeOK /\ Asleep /\ Executing /\ TaskOnly /\ SettledQuiet BY DEF QuietInv
<1>2. \A d \in Component : d # c =>
        /\ disk'[d] = disk[d] /\ step'[d] = step[d] /\ exec'[d] = exec[d]
        /\ cond'[d] = cond[d] /\ starts'[d] = starts[d]
  BY <1>1, ActorLocal DEF Handler
<1>3. Asleep'
  BY <1>1, <1>2
  DEF CheckIf, Handling, unchangedByHandler, EndHandler, AddTo, result, tasks,
      loops, ReserveDispatch, Asleep
<1>4. TaskOnly'
  BY <1>1, <1>2
  DEF CheckIf, Handling, unchangedByHandler, EndHandler, AddTo, result, tasks,
      loops, ReserveDispatch, TaskOnly
<1>5. SettledQuiet'
  BY <1>1, <1>2
  DEF CheckIf, Handling, unchangedByHandler, EndHandler, AddTo, result, tasks,
      loops, ReserveDispatch, SettledQuiet, AtRest, BrokeAt
<1>6. Executing' BY <1>1 DEF CheckIf, result, tasks, loops, Executing
<1> QED BY <1>3, <1>4, <1>5, <1>6 DEF QuietInv

LEMMA JumpQuiet ==
  ASSUME BreaksNeedNoFile, QuietInv, TypeOK',
         NEW c \in Component, NEW b \in BOOLEAN, Jump(c, b)
  PROVE  QuietInv'
<1>1. TypeOK /\ Asleep /\ Executing /\ TaskOnly /\ SettledQuiet BY DEF QuietInv
<1>2. \A d \in Component : d # c =>
        /\ disk'[d] = disk[d] /\ step'[d] = step[d] /\ exec'[d] = exec[d]
        /\ cond'[d] = cond[d] /\ starts'[d] = starts[d]
  BY <1>1, ActorLocal DEF Handler
<1>3. Asleep'
  BY <1>1, <1>2
  DEF Jump, Handling, Pause, AddTo, Empty, loops, CancelDispatchedTasks, StateOf,
      Asleep
<1>4. Executing'
  <2>1. \A d \in Component : mem'[d] = mem[d] \/ mem'[d] = "not-started"
    <3>1. CASE Pause(hasFailed, removal # "no")
      BY <1>1, <3>1 DEF Pause, CancelDispatchedTasks, TypeOK
    <3>2. CASE UNCHANGED <<mem, outcome>> BY <3>2
    <3> QED BY <3>1, <3>2 DEF Jump
  <2>2. UNCHANGED <<exec, runningTasks>> BY DEF Jump
  <2> QED BY <1>1, <2>1, <2>2 DEF Executing
<1>5. TaskOnly'
  BY <1>1, <1>2
  DEF Jump, Handling, Pause, AddTo, Empty, loops, CancelDispatchedTasks, StateOf,
      TaskOnly
<1>6. SettledQuiet'
  <2>1. CASE b /\ Kind[c] = "break"
    <3>1. BrokeAt(c)' BY <1>1, <2>1 DEF Jump, BrokeAt, TypeOK
    <3> QED BY <3>1 DEF SettledQuiet
  <2>2. CASE ~(b /\ Kind[c] = "break")
    <3>1. UNCHANGED <<outcome, removal>> BY <2>2 DEF Jump
    <3>2. ~AtRest BY DEF Jump, Handling, AtRest
    <3>3. \A d \in Component : BrokeAt(d) => BrokeAt(d)'
      BY <1>1, <1>2 DEF Jump, Handling, BrokeAt, TypeOK
    <3> QED BY <1>1, <3>1, <3>2, <3>3 DEF SettledQuiet
  <2> QED BY <2>1, <2>2
<1> QED BY <1>3, <1>4, <1>5, <1>6 DEF QuietInv

LEMMA ChildSettlesQuiet ==
  ASSUME BreaksNeedNoFile, QuietInv, TypeOK',
         NEW c \in Component, NEW s \in ChildResults, ChildSettles(c, s)
  PROVE  QuietInv'
<1>1. TypeOK /\ Asleep /\ Executing /\ TaskOnly /\ SettledQuiet BY DEF QuietInv
<1>2. \A d \in Component : d # c =>
        /\ disk'[d] = disk[d] /\ step'[d] = step[d] /\ exec'[d] = exec[d]
        /\ cond'[d] = cond[d] /\ starts'[d] = starts[d]
  BY <1>1, ActorLocal DEF Handler
<1>3. Asleep'
  BY <1>1, <1>2
  DEF ChildSettles, Handling, unchangedByHandler, EndDelegation, SetStateFlag,
      tasks, loops, history, AddTo, Asleep
<1>4. TaskOnly'
  BY <1>1, <1>2, KindAssumption, ResultAssumption, SetAssumption
  DEF ChildSettles, Handling, unchangedByHandler, EndDelegation, SetStateFlag,
      tasks, loops, history, AddTo, TaskOnly, TypeOK
<1>5. SettledQuiet'
  BY <1>1, <1>2
  DEF ChildSettles, Handling, unchangedByHandler, EndDelegation, SetStateFlag,
      tasks, loops, history, AddTo, SettledQuiet, AtRest, BrokeAt
<1>6. Executing' BY <1>1 DEF ChildSettles, tasks, loops, history, Executing
<1> QED BY <1>3, <1>4, <1>5, <1>6 DEF QuietInv

LEMMA LoopTripQuiet ==
  ASSUME BreaksNeedNoFile, QuietInv, TypeOK', NEW c \in Component, LoopTrip(c)
  PROVE  QuietInv'
<1>1. TypeOK /\ Asleep /\ Executing /\ TaskOnly /\ SettledQuiet BY DEF QuietInv
<1>2. \A d \in Component : d # c =>
        /\ disk'[d] = disk[d] /\ step'[d] = step[d] /\ exec'[d] = exec[d]
        /\ cond'[d] = cond[d] /\ starts'[d] = starts[d]
  BY <1>1, ActorLocal DEF Handler
<1>3. Asleep'
  BY <1>1, <1>2
  DEF LoopTrip, Handling, unchangedByHandler, AddTo, events, result, tasks, history,
      Asleep
<1>4. TaskOnly'
  BY <1>1, <1>2
  DEF LoopTrip, Handling, unchangedByHandler, AddTo, events, result, tasks, history,
      TaskOnly
<1>5. SettledQuiet'
  BY <1>1, <1>2
  DEF LoopTrip, Handling, unchangedByHandler, AddTo, events, result, tasks, history,
      SettledQuiet, AtRest, BrokeAt
<1>6. Executing' BY <1>1 DEF LoopTrip, events, result, tasks, history, Executing
<1> QED BY <1>3, <1>4, <1>5, <1>6 DEF QuietInv

LEMMA LoopFinalizeQuiet ==
  ASSUME BreaksNeedNoFile, QuietInv, TypeOK', NEW c \in Component, LoopFinalize(c)
  PROVE  QuietInv'
<1>1. TypeOK /\ Asleep /\ Executing /\ TaskOnly /\ SettledQuiet BY DEF QuietInv
<1>2. \A d \in Component : d # c =>
        /\ disk'[d] = disk[d] /\ step'[d] = step[d] /\ exec'[d] = exec[d]
        /\ cond'[d] = cond[d] /\ starts'[d] = starts[d]
  BY <1>1, ActorLocal DEF Handler
<1>3. Asleep'
  BY <1>1, <1>2
  DEF LoopFinalize, Handling, unchangedByHandler, EndHandler, SetStateFlag, AddTo,
      tasks, history, ReserveDispatch, Asleep
<1>4. TaskOnly'
  BY <1>1, <1>2
  DEF LoopFinalize, Handling, unchangedByHandler, EndHandler, SetStateFlag, AddTo,
      tasks, history, ReserveDispatch, TaskOnly
<1>5. SettledQuiet'
  BY <1>1, <1>2
  DEF LoopFinalize, Handling, unchangedByHandler, EndHandler, SetStateFlag, AddTo,
      tasks, history, ReserveDispatch, SettledQuiet, AtRest, BrokeAt
<1>6. Executing' BY <1>1 DEF LoopFinalize, tasks, history, Executing
<1> QED BY <1>3, <1>4, <1>5, <1>6 DEF QuietInv

LEMMA TripSettlesQuiet ==
  ASSUME BreaksNeedNoFile, QuietInv, TypeOK',
         NEW c \in Component, NEW s \in ChildResults, NEW b \in BOOLEAN,
         TripSettles(c, s, b)
  PROVE  QuietInv'
<1>1. TypeOK /\ Asleep /\ Executing /\ TaskOnly /\ SettledQuiet BY DEF QuietInv
<1>2. \A d \in Component : d # c =>
        /\ disk'[d] = disk[d] /\ step'[d] = step[d] /\ exec'[d] = exec[d]
        /\ cond'[d] = cond[d] /\ starts'[d] = starts[d]
  BY <1>1, ActorLocal DEF Handler
<1>3. Asleep'
  BY <1>1, <1>2
  DEF TripSettles, Handling, unchangedByHandler, EndDelegation, result, tasks,
      history, AddTo, Asleep
<1>4. TaskOnly'
  BY <1>1, <1>2
  DEF TripSettles, Handling, unchangedByHandler, EndDelegation, result, tasks,
      history, AddTo, TaskOnly
<1>5. SettledQuiet'
  BY <1>1, <1>2
  DEF TripSettles, Handling, unchangedByHandler, EndDelegation, result, tasks,
      history, AddTo, SettledQuiet, AtRest, BrokeAt
<1>6. Executing' BY <1>1 DEF TripSettles, result, tasks, history, Executing
<1> QED BY <1>3, <1>4, <1>5, <1>6 DEF QuietInv

LEMMA HandlerThrowsQuiet ==
  ASSUME BreaksNeedNoFile, QuietInv, TypeOK', NEW c \in Component, HandlerThrows(c)
  PROVE  QuietInv'
<1>1. TypeOK /\ Asleep /\ Executing /\ TaskOnly /\ SettledQuiet BY DEF QuietInv
<1>2. \A d \in Component : d # c =>
        /\ disk'[d] = disk[d] /\ step'[d] = step[d] /\ exec'[d] = exec[d]
        /\ cond'[d] = cond[d] /\ starts'[d] = starts[d]
  BY <1>1, ActorLocal DEF Handler
<1>3. Asleep'
  BY <1>1, <1>2
  DEF HandlerThrows, unchangedByHandler, EndHandler, EndDelegation, tasks, loops,
      history, ReserveDispatch, AddTo, Asleep
<1>4. TaskOnly'
  <2>1. disk'[c] = "failed" /\ step'[c] = "idle" /\ UNCHANGED exec
    <3>1. CASE EndDelegation(c)
      BY <1>1, <3>1 DEF HandlerThrows, EndDelegation, tasks, TypeOK
    <3>2. CASE EndHandler(c)
      BY <1>1, <3>2 DEF HandlerThrows, EndHandler, tasks, TypeOK
    <3> QED BY <3>1, <3>2 DEF HandlerThrows
  <2> QED BY <1>1, <1>2, <2>1 DEF TaskOnly
<1>5. SettledQuiet'
  BY <1>1, <1>2
  DEF HandlerThrows, unchangedByHandler, EndHandler, EndDelegation, tasks, loops,
      history, ReserveDispatch, AddTo, SettledQuiet, AtRest, BrokeAt
<1>6. Executing' BY <1>1 DEF HandlerThrows, tasks, loops, history, Executing
<1> QED BY <1>3, <1>4, <1>5, <1>6 DEF QuietInv

\* The executions.
LEMMA StageInQuiet ==
  ASSUME BreaksNeedNoFile, QuietInv, TypeOK', NEW c \in Component, StageIn(c)
  PROVE  QuietInv'
<1>1. TypeOK /\ Asleep /\ Executing /\ TaskOnly /\ SettledQuiet BY DEF QuietInv
<1>2. \A d \in Component : d # c =>
        /\ disk'[d] = disk[d] /\ step'[d] = step[d] /\ exec'[d] = exec[d]
        /\ cond'[d] = cond[d] /\ starts'[d] = starts[d]
  BY <1>1, ActorLocal DEF Execution
<1>3. Executing'
  BY <1>1, <1>2 DEF StageIn, lists, events, result, loops, history, Executing
<1>4. TaskOnly'
  BY <1>1, <1>2 DEF StageIn, lists, events, result, loops, history, TaskOnly
<1>5. Asleep' /\ SettledQuiet'
  BY <1>1
  DEF StageIn, lists, events, result, loops, history, Asleep, SettledQuiet, AtRest,
      BrokeAt
<1> QED BY <1>3, <1>4, <1>5 DEF QuietInv

LEMMA ScriptEndsQuiet ==
  ASSUME BreaksNeedNoFile, QuietInv, TypeOK', NEW c \in Component, ScriptEnds(c)
  PROVE  QuietInv'
<1>1. TypeOK /\ Asleep /\ Executing /\ TaskOnly /\ SettledQuiet BY DEF QuietInv
<1>2. \A d \in Component : d # c =>
        /\ disk'[d] = disk[d] /\ step'[d] = step[d] /\ exec'[d] = exec[d]
        /\ cond'[d] = cond[d] /\ starts'[d] = starts[d]
  BY <1>1, ActorLocal DEF Execution
<1>3. Executing'
  BY <1>1, <1>2 DEF ScriptEnds, lists, events, result, loops, history, Executing
<1>4. TaskOnly'
  BY <1>1, <1>2 DEF ScriptEnds, lists, events, result, loops, history, TaskOnly
<1>5. Asleep' /\ SettledQuiet'
  BY <1>1
  DEF ScriptEnds, lists, events, result, loops, history, Asleep, SettledQuiet,
      AtRest, BrokeAt
<1> QED BY <1>3, <1>4, <1>5 DEF QuietInv

LEMMA TaskDecidedQuiet ==
  ASSUME BreaksNeedNoFile, QuietInv, TypeOK',
         NEW c \in Component, NEW s \in TaskResults, TaskDecided(c, s)
  PROVE  QuietInv'
<1>1. TypeOK /\ Asleep /\ Executing /\ TaskOnly /\ SettledQuiet BY DEF QuietInv
<1>2. \A d \in Component : d # c =>
        /\ disk'[d] = disk[d] /\ step'[d] = step[d] /\ exec'[d] = exec[d]
        /\ cond'[d] = cond[d] /\ starts'[d] = starts[d]
  BY <1>1, ActorLocal DEF Execution
<1>3. Executing'
  BY <1>1, <1>2 DEF TaskDecided, lists, events, result, loops, Executing, TypeOK
<1>4. TaskOnly' BY <1>1, <1>2 DEF TaskDecided, lists, events, result, loops, TaskOnly
<1>5. Asleep' /\ SettledQuiet'
  BY <1>1
  DEF TaskDecided, lists, events, result, loops, Asleep, SettledQuiet, AtRest,
      BrokeAt
<1> QED BY <1>3, <1>4, <1>5 DEF QuietInv

LEMMA TaskSettledQuiet ==
  ASSUME BreaksNeedNoFile, QuietInv, TypeOK', NEW c \in Component, TaskSettled(c)
  PROVE  QuietInv'
<1>1. TypeOK /\ Asleep /\ Executing /\ TaskOnly /\ SettledQuiet BY DEF QuietInv
<1>2. \A d \in Component : d # c =>
        /\ disk'[d] = disk[d] /\ step'[d] = step[d] /\ exec'[d] = exec[d]
        /\ cond'[d] = cond[d] /\ starts'[d] = starts[d]
  BY <1>1, ActorLocal DEF Execution
<1>3. Executing'
  BY <1>1, <1>2 DEF TaskSettled, lists, events, result, loops, history, Executing
<1>4. TaskOnly'
  BY <1>1, <1>2 DEF TaskSettled, lists, events, result, loops, history, TaskOnly
<1>5. SettledQuiet'
  BY <1>1, <1>2, KindAssumption, ResultAssumption, SetAssumption
  DEF TaskSettled, lists, events, result, loops, history, SettledQuiet, AtRest,
      BrokeAt, TypeOK, TaskOnly
<1>6. Asleep' BY <1>1 DEF TaskSettled, lists, events, result, loops, history, Asleep
<1> QED BY <1>3, <1>4, <1>5, <1>6 DEF QuietInv

LEMMA StageOutQuiet ==
  ASSUME BreaksNeedNoFile, QuietInv, TypeOK', NEW c \in Component, StageOut(c)
  PROVE  QuietInv'
<1>1. TypeOK /\ Asleep /\ Executing /\ TaskOnly /\ SettledQuiet BY DEF QuietInv
<1>2. \A d \in Component : d # c =>
        /\ disk'[d] = disk[d] /\ step'[d] = step[d] /\ exec'[d] = exec[d]
        /\ cond'[d] = cond[d] /\ starts'[d] = starts[d]
  BY <1>1, ActorLocal DEF Execution
<1>3. Executing'
  BY <1>1, <1>2 DEF StageOut, lists, events, result, loops, history, Executing
<1>4. TaskOnly'
  BY <1>1, <1>2 DEF StageOut, lists, events, result, loops, history, TaskOnly
<1>5. SettledQuiet'
  BY <1>1, <1>2, KindAssumption, ResultAssumption, SetAssumption
  DEF StageOut, lists, events, result, loops, history, SettledQuiet, AtRest,
      BrokeAt, TypeOK, TaskOnly
<1>6. Asleep' BY <1>1 DEF StageOut, lists, events, result, loops, history, Asleep
<1> QED BY <1>3, <1>4, <1>5, <1>6 DEF QuietInv

LEMMA StageOutEndsQuiet ==
  ASSUME BreaksNeedNoFile, QuietInv, TypeOK',
         NEW c \in Component, NEW b \in BOOLEAN, StageOutEnds(c, b)
  PROVE  QuietInv'
<1>1. TypeOK /\ Asleep /\ Executing /\ TaskOnly /\ SettledQuiet BY DEF QuietInv
<1>2. \A d \in Component : d # c =>
        /\ disk'[d] = disk[d] /\ step'[d] = step[d] /\ exec'[d] = exec[d]
        /\ cond'[d] = cond[d] /\ starts'[d] = starts[d]
  BY <1>1, ActorLocal DEF Execution
<1>3. Executing'
  BY <1>1, <1>2 DEF StageOutEnds, lists, events, result, loops, history, Executing
<1>4. TaskOnly'
  BY <1>1, <1>2 DEF StageOutEnds, lists, events, result, loops, history, TaskOnly
<1>5. SettledQuiet'
  BY <1>1, <1>2, KindAssumption, ResultAssumption, SetAssumption
  DEF StageOutEnds, lists, events, result, loops, history, SettledQuiet, AtRest,
      BrokeAt, TypeOK, TaskOnly
<1>6. Asleep' BY <1>1 DEF StageOutEnds, lists, events, result, loops, history, Asleep
<1> QED BY <1>3, <1>4, <1>5, <1>6 DEF QuietInv

LEMMA TaskCompletedQuiet ==
  ASSUME BreaksNeedNoFile, QuietInv, TypeOK', NEW c \in Component, TaskCompleted(c)
  PROVE  QuietInv'
<1>1. TypeOK /\ Asleep /\ Executing /\ TaskOnly /\ SettledQuiet BY DEF QuietInv
<1>2. \A d \in Component : d # c =>
        /\ disk'[d] = disk[d] /\ step'[d] = step[d] /\ exec'[d] = exec[d]
        /\ cond'[d] = cond[d] /\ starts'[d] = starts[d]
  BY <1>1, ActorLocal DEF Execution
<1>3. Asleep'
  BY <1>1, <1>2 DEF TaskCompleted, ReserveDispatch, lists, loops, history, Asleep
<1>4. Executing'
  BY <1>1, <1>2 DEF TaskCompleted, ReserveDispatch, lists, loops, history, Executing
<1>5. TaskOnly'
  BY <1>1, <1>2 DEF TaskCompleted, ReserveDispatch, lists, loops, history, TaskOnly
<1>6. SettledQuiet'
  BY <1>1, <1>2
  DEF TaskCompleted, ReserveDispatch, lists, loops, history, SettledQuiet, AtRest,
      BrokeAt
<1> QED BY <1>3, <1>4, <1>5, <1>6 DEF QuietInv

\* The event loop, and what the user does.
LEMMA EmitDispatchQuiet ==
  ASSUME BreaksNeedNoFile, QuietInv, TypeOK', EmitDispatch
  PROVE  QuietInv'
<1>1. TypeOK /\ Asleep /\ Executing /\ TaskOnly /\ SettledQuiet BY DEF QuietInv
<1>2. Asleep'
  BY <1>1 DEF EmitDispatch, AddTo, Empty, result, tasks, loops, history, Asleep
<1>3. SettledQuiet'
  BY <1>1
  DEF EmitDispatch, AddTo, Empty, result, tasks, loops, history, SettledQuiet,
      AtRest, BrokeAt
<1>4. Executing' /\ TaskOnly'
  BY <1>1 DEF EmitDispatch, result, tasks, loops, history, Executing, TaskOnly
<1> QED BY <1>2, <1>3, <1>4 DEF QuietInv

LEMMA CollectQuiet ==
  ASSUME BreaksNeedNoFile, QuietInv, TypeOK', Collect
  PROVE  QuietInv'
<1>1. TypeOK /\ Asleep /\ Executing /\ TaskOnly /\ SettledQuiet BY DEF QuietInv
<1>2. Asleep'
  BY <1>1
  DEF Collect, EndPass, StillRunning, Empty, events, loops, history, StateOf, Asleep
<1>3. Executing'
  BY <1>1
  DEF Collect, EndPass, StillRunning, Empty, events, loops, history, StateOf,
      Executing
<1>4. SettledQuiet'
  BY <1>1
  DEF Collect, EndPass, StillRunning, Empty, events, loops, history, StateOf,
      SettledQuiet, AtRest, BrokeAt
<1>5. TaskOnly' BY <1>1 DEF Collect, events, loops, history, TaskOnly
<1> QED BY <1>2, <1>3, <1>4, <1>5 DEF QuietInv

LEMMA CheckBlockedQuiet ==
  ASSUME BreaksNeedNoFile, QuietInv, TypeOK', CheckBlocked
  PROVE  QuietInv'
<1>1. TypeOK /\ Asleep /\ Executing /\ TaskOnly /\ SettledQuiet BY DEF QuietInv
<1>2. Asleep'
  BY <1>1 DEF CheckBlocked, EndPass, lists, tasks, loops, history, StateOf, Asleep
<1>3. SettledQuiet'
  <2>1. UNCHANGED <<removal, step, cond, disk, runningTasks>> /\ phase' = "idle"
    BY DEF CheckBlocked, tasks, history, EndPass
  <2>2. CASE outcome' = outcome
    BY <1>1, <2>1, <2>2 DEF CheckBlocked, SettledQuiet, AtRest, BrokeAt
  <2>3. CASE outcome' # outcome
    <3>1. ~listener' BY <2>3 DEF CheckBlocked, EndPass
    <3> QED BY <1>1, <2>1, <3>1 DEF CheckBlocked, Asleep, SettledQuiet, AtRest
  <2> QED BY <2>2, <2>3
<1>4. Executing' /\ TaskOnly'
  BY <1>1 DEF CheckBlocked, lists, tasks, loops, history, Executing, TaskOnly
<1> QED BY <1>2, <1>3, <1>4 DEF QuietInv

LEMMA PassErrorQuiet ==
  ASSUME BreaksNeedNoFile, QuietInv, TypeOK', PassError
  PROVE  QuietInv'
<1>1. TypeOK /\ Asleep /\ Executing /\ TaskOnly /\ SettledQuiet BY DEF QuietInv
<1>2. Asleep' BY <1>1 DEF PassError, Empty, lists, events, tasks, loops, history, Asleep
<1>3. SettledQuiet'
  BY <1>1
  DEF PassError, Empty, lists, events, tasks, loops, history, SettledQuiet, AtRest,
      BrokeAt
<1>4. Executing' /\ TaskOnly'
  BY <1>1 DEF PassError, lists, events, tasks, loops, history, Executing, TaskOnly
<1> QED BY <1>2, <1>3, <1>4 DEF QuietInv

LEMMA RemovedQuiet ==
  ASSUME BreaksNeedNoFile, QuietInv, TypeOK', Removed
  PROVE  QuietInv'
<1>1. TypeOK /\ Asleep /\ Executing /\ TaskOnly /\ SettledQuiet BY DEF QuietInv
<1>2. SettledQuiet'
  BY <1>1
  DEF Removed, Empty, events, tasks, loops, history, SettledQuiet, AtRest, BrokeAt
<1>3. Asleep' /\ Executing' /\ TaskOnly'
  BY <1>1 DEF Removed, events, tasks, loops, history, Asleep, Executing, TaskOnly
<1> QED BY <1>2, <1>3 DEF QuietInv

LEMMA ContinueQuiet ==
  ASSUME BreaksNeedNoFile, QuietInv, TypeOK', Continue
  PROVE  QuietInv'
<1>1. TypeOK /\ Asleep /\ Executing /\ TaskOnly /\ SettledQuiet BY DEF QuietInv
<1>2. Asleep' BY <1>1 DEF Continue, Quiescent, Empty, Asleep
<1>3. Executing' BY <1>1 DEF Continue, Quiescent, Empty, Executing
<1>4. SettledQuiet'
  BY <1>1 DEF Continue, Quiescent, Empty, SettledQuiet, AtRest, BrokeAt
<1>5. TaskOnly' BY <1>1 DEF Continue, TaskOnly
<1> QED BY <1>2, <1>3, <1>4, <1>5 DEF QuietInv

LEMMA RemoveQuiet ==
  ASSUME BreaksNeedNoFile, QuietInv, TypeOK', NEW reason, Remove(reason)
  PROVE  QuietInv'
<1>1. TypeOK /\ Asleep /\ Executing /\ TaskOnly /\ SettledQuiet BY DEF QuietInv
<1>2. Asleep'
  BY <1>1
  DEF Remove, SetStateFlag, Pause, lists, loops, history, CancelDispatchedTasks,
      StateOf, Asleep
<1>3. Executing'
  BY <1>1
  DEF Remove, SetStateFlag, Pause, lists, loops, history, CancelDispatchedTasks,
      StateOf, Executing
<1>4. SettledQuiet'
  BY <1>1
  DEF Remove, SetStateFlag, Pause, lists, loops, history, CancelDispatchedTasks,
      StateOf, SettledQuiet, AtRest, BrokeAt
<1>5. TaskOnly' BY <1>1 DEF Remove, lists, loops, history, TaskOnly
<1> QED BY <1>2, <1>3, <1>4, <1>5 DEF QuietInv

LEMMA BreakArrivesQuiet ==
  ASSUME BreaksNeedNoFile, QuietInv, TypeOK', NEW c \in Component, BreakArrives(c)
  PROVE  QuietInv'
<1>1. TypeOK /\ Asleep /\ Executing /\ TaskOnly /\ SettledQuiet BY DEF QuietInv
<1>2. Asleep' /\ Executing' /\ TaskOnly' /\ SettledQuiet'
  BY <1>1
  DEF BreakArrives, lists, events, result, tasks, history, Asleep, Executing,
      TaskOnly, SettledQuiet, AtRest, BrokeAt
<1> QED BY <1>2 DEF QuietInv

LEMMA InitQuiet == Init => QuietInv
<1> SUFFICES ASSUME Init PROVE QuietInv
  OBVIOUS
<1>1. TypeOK BY InitType
<1>2. Asleep /\ Executing /\ TaskOnly /\ SettledQuiet
  BY DEF Init, Asleep, Executing, TaskOnly, SettledQuiet
<1> QED BY <1>1, <1>2 DEF QuietInv

LEMMA NextQuiet ==
  ASSUME BreaksNeedNoFile, QuietInv, TypeOK', [Next]_vars
  PROVE  QuietInv'
<1>1. ASSUME NEW c \in Component, Pass(c) PROVE QuietInv'
  BY <1>1, ScanDisabledQuiet, ScanNotReadyQuiet, ScanInputsFailQuiet,
     ScanMandatoryMissingQuiet, ScanDispatchQuiet
  DEF Pass
<1>2. ASSUME NEW c \in Component, Handler(c) PROVE QuietInv'
  BY <1>2, SkipQuiet, BeginQuiet, LaunchTaskQuiet, TaskDispatchedQuiet,
     RunInstantQuiet, RunViewerQuiet, CheckIfQuiet, JumpQuiet, ChildSettlesQuiet,
     LoopTripQuiet, LoopFinalizeQuiet, TripSettlesQuiet, HandlerThrowsQuiet
  DEF Handler
<1>3. ASSUME NEW c \in Component, Execution(c) PROVE QuietInv'
  BY <1>3, StageInQuiet, ScriptEndsQuiet, TaskDecidedQuiet, TaskSettledQuiet,
     StageOutQuiet, StageOutEndsQuiet, TaskCompletedQuiet
  DEF Execution
<1>4. CASE Loop
  BY <1>4, EmitDispatchQuiet, CollectQuiet, CheckBlockedQuiet, PassErrorQuiet
  DEF Loop
<1>5. ASSUME NEW c \in Component, BreakArrives(c) PROVE QuietInv'
  BY <1>5, BreakArrivesQuiet
<1>6. ASSUME NEW reason \in {"none", "failed"}, Remove(reason) PROVE QuietInv'
  BY <1>6, RemoveQuiet
<1>7. CASE Removed \/ Continue BY <1>7, RemovedQuiet, ContinueQuiet
<1>8. CASE UNCHANGED vars
  <2>1. UNCHANGED <<disk, mem, listener, phase, removal, outcome, step, exec,
                    runningTasks, cond>>
    BY <1>8 DEF vars, events, result, tasks, history
  <2>2. Asleep' /\ Executing' /\ TaskOnly'
    BY <2>1 DEF QuietInv, Asleep, Executing, TaskOnly
  <2>3. SettledQuiet' BY <2>1 DEF QuietInv, SettledQuiet, AtRest, BrokeAt
  <2> QED BY <2>2, <2>3 DEF QuietInv
<1> QED BY <1>1, <1>2, <1>3, <1>4, <1>5, <1>6, <1>7, <1>8 DEF Next

\* QuietInv is an inductive invariant of the dispatcher.
THEOREM QuietInvariant ==
  ASSUME BreaksNeedNoFile
  PROVE  Spec => []QuietInv
<1>1. TypeOK' /\ QuietInv /\ [Next]_vars => QuietInv' BY NextQuiet
<1> QED BY InitQuiet, <1>1, TypeCorrect, PTL DEF Spec

\* Once a dispatcher has concluded by itself, none of its handlers is active and
\* no script of its tasks is running or still to run (DoneQuiet).
THEOREM QuietWhenDone ==
  ASSUME BreaksNeedNoFile
  PROVE  Spec => []DoneQuiet
<1>1. QuietInv => DoneQuiet
  <2> SUFFICES ASSUME QuietInv, Concluded, NEW c \in Component
               PROVE  /\ step[c] = "idle"
                      /\ exec[c] \notin {"stage-in", "running", "checking"}
    BY DEF DoneQuiet
  <2>1. ~ \E d \in Component : BrokeAt(d) BY DEF Concluded, Jumped, BrokeAt
  <2>2. AtRest BY <2>1 DEF QuietInv, SettledQuiet, Concluded
  <2> QED BY <2>2 DEF QuietInv, Executing, AtRest
<1> QED BY <1>1, QuietInvariant, PTL

-----------------------------------------------------------------------------
(* What a run keeps of its history.                                         *)

\* No break and no continue has a mandatory inputFile.
JumpsNeedNoFile == \A c \in MandatoryMissing : Kind[c] \notin {"break", "continue"}

\* The file of a break or continue that jumped is written for good.
JumpStays ==
  \A c \in Component : Kind[c] \in {"break", "continue"} /\ cond[c] = "true" =>
    disk[c] = "finished" /\ step[c] \in {"idle", "adding"}

HistoryInv == runs > 0 /\ JumpStays

\* The file of a break or continue that jumped is never written again.
LEMMA JumpsStay ==
  ASSUME JumpsNeedNoFile, TypeOK, QuietInv, JumpStays, TypeOK', [Next]_vars
  PROVE  JumpStays'
<1> SUFFICES ASSUME NEW c \in Component, Kind[c] \in {"break", "continue"},
                    cond'[c] = "true"
             PROVE  disk'[c] = "finished" /\ step'[c] \in {"idle", "adding"}
  BY DEF JumpStays
<1> USE DEF lists, events, result, tasks, loops, history
<1>0. /\ cond[c] = "true" => disk[c] = "finished" /\ step[c] \in {"idle", "adding"}
      /\ exec[c] = "none" /\ c \notin MandatoryMissing
  BY DEF JumpStays, QuietInv, TaskOnly, JumpsNeedNoFile
<1>1. ASSUME NEW d \in Component, d # c, Pass(d) \/ Handler(d) \/ Execution(d)
      PROVE  disk'[c] = "finished" /\ step'[c] \in {"idle", "adding"}
  <2>1. disk'[c] = disk[c] /\ step'[c] = step[c] /\ cond'[c] = cond[c]
    BY <1>1, ActorLocal
  <2> QED BY <1>0, <2>1
<1>2. CASE Pass(c)
  BY <1>0, <1>2
  DEF Pass, Scan, ScanDisabled, ScanNotReady, ScanInputsFail, ScanMandatoryMissing,
      ScanDispatch, TypeOK
<1>3. CASE Handler(c)
  <2>1. CASE Skip(c) BY <1>0, <2>1 DEF Skip, EndHandler, TypeOK
  <2>2. ASSUME NEW b \in BOOLEAN, Jump(c, b)
        PROVE  disk'[c] = "finished" /\ step'[c] \in {"idle", "adding"}
    BY <2>2 DEF Jump, TypeOK
  <2>3. CASE step[c] \notin {"idle", "adding"} /\ UNCHANGED cond
    BY <1>0, <2>3
  <2>4. CASE CheckIf(c, TRUE) \/ CheckIf(c, FALSE) BY <2>4 DEF CheckIf
  <2> QED
    BY <1>3, <2>1, <2>2, <2>3, <2>4
    DEF Handler, Begin, LaunchTask, TaskDispatched, RunInstant, RunViewer,
        ChildSettles, LoopTrip, LoopFinalize, TripSettles, HandlerThrows, Handling
<1>4. CASE Execution(c)
  BY <1>0, <1>4
  DEF Execution, StageIn, ScriptEnds, TaskDecided, TaskSettled, StageOut, StageOutEnds,
      TaskCompleted
<1>5. CASE \/ Loop \/ \E d \in Component : BreakArrives(d)
           \/ \E reason \in {"none", "failed"} : Remove(reason)
           \/ Removed \/ Continue \/ UNCHANGED vars
  <2>1. UNCHANGED <<disk, step, cond>>
    BY <1>5
    DEF Loop, EmitDispatch, Collect, CheckBlocked, PassError, BreakArrives, Remove,
        Removed, Continue, vars
  <2> QED BY <1>0, <2>1
<1> QED BY <1>1, <1>2, <1>3, <1>4, <1>5 DEF Next

LEMMA RunsKept ==
  ASSUME [Next]_vars
  PROVE  \/ Continue /\ runs' = runs + 1
         \/ runs' = runs /\ removal' # "no"
         \/ /\ UNCHANGED <<runs, removal>>
            /\ \/ Loop \/ UNCHANGED vars
               \/ \E c \in Component :
                    Pass(c) \/ Handler(c) \/ Execution(c) \/ BreakArrives(c)
<1> USE DEF lists, events, result, tasks, loops, history
<1>1. CASE Continue BY <1>1 DEF Continue
<1>2. CASE Removed \/ \E reason \in {"none", "failed"} : Remove(reason)
  BY <1>2 DEF Removed, Remove
<1>3. CASE Loop
  <2>1. UNCHANGED <<runs, removal>>
    BY <1>3 DEF Loop, EmitDispatch, Collect, CheckBlocked, PassError
  <2> QED BY <1>3, <2>1
<1>4. ASSUME NEW c \in Component, Pass(c) PROVE UNCHANGED <<runs, removal>>
  BY <1>4 DEF Pass, ScanDisabled, ScanNotReady, ScanInputsFail, ScanMandatoryMissing,
              ScanDispatch
<1>5. ASSUME NEW c \in Component, Handler(c) PROVE UNCHANGED <<runs, removal>>
  BY <1>5 DEF Handler, Skip, Begin, LaunchTask, TaskDispatched, RunInstant, RunViewer,
              CheckIf, Jump, ChildSettles, LoopTrip, LoopFinalize, TripSettles,
              HandlerThrows
<1>6. ASSUME NEW c \in Component, Execution(c) PROVE UNCHANGED <<runs, removal>>
  BY <1>6 DEF Execution, StageIn, ScriptEnds, TaskDecided, TaskSettled, StageOut,
              StageOutEnds, TaskCompleted
<1>7. ASSUME UNCHANGED vars \/ \E c \in Component : BreakArrives(c)
      PROVE  UNCHANGED <<runs, removal>>
  BY <1>7 DEF BreakArrives, vars
<1> QED BY <1>1, <1>2, <1>3, <1>4, <1>5, <1>6, <1>7 DEF Next

LEMMA JumpsHold ==
  ASSUME TypeOK, HistoryInv, [Next]_vars, NEW c \in Component,
         Kind[c] \in {"break", "continue"}, cond[c] = "true"
  PROVE  cond'[c] = "true"
<1> USE DEF lists, events, result, tasks, loops, history
<1>1. disk[c] = "finished" /\ step[c] \in {"idle", "adding"}
  BY DEF HistoryInv, JumpStays
<1>2. ASSUME NEW d \in Component, d # c, Pass(d) \/ Handler(d) \/ Execution(d)
      PROVE  cond'[c] = "true"
  BY <1>2, ActorLocal
<1>3. CASE Pass(c)
  BY <1>3
  DEF Pass, ScanDisabled, ScanNotReady, ScanInputsFail, ScanMandatoryMissing,
      ScanDispatch
<1>4. CASE Handler(c)
  BY <1>1, <1>4
  DEF Handler, Skip, Begin, LaunchTask, TaskDispatched, RunInstant, RunViewer,
      CheckIf, Jump, ChildSettles, LoopTrip, LoopFinalize, TripSettles,
      HandlerThrows, Handling
<1>5. CASE Execution(c)
  BY <1>5
  DEF Execution, StageIn, ScriptEnds, TaskDecided, TaskSettled, StageOut,
      StageOutEnds, TaskCompleted
<1>6. CASE \/ Loop \/ \E d \in Component : BreakArrives(d)
           \/ \E reason \in {"none", "failed"} : Remove(reason)
           \/ Removed \/ Continue \/ UNCHANGED vars
  <2>1. UNCHANGED cond
    BY <1>6
    DEF Loop, EmitDispatch, Collect, CheckBlocked, PassError, BreakArrives, Remove,
        Removed, Continue, vars
  <2> QED BY <2>1
<1> QED BY <1>2, <1>3, <1>4, <1>5, <1>6 DEF Next

LEMMA HistoryNext ==
  ASSUME JumpsNeedNoFile, TypeOK, QuietInv, HistoryInv, TypeOK', [Next]_vars
  PROVE  HistoryInv'
<1>1. JumpStays' BY JumpsStay DEF HistoryInv
<1>2. runs' > 0 BY RunsKept DEF HistoryInv, TypeOK
<1> QED BY <1>1, <1>2 DEF HistoryInv

LEMMA HistoryInvariant ==
  ASSUME JumpsNeedNoFile
  PROVE  Spec => [](QuietInv /\ HistoryInv)
<1>1. Init => HistoryInv BY DEF Init, HistoryInv, JumpStays
<1>2. TypeOK /\ TypeOK' /\ QuietInv /\ HistoryInv /\ [Next]_vars => HistoryInv'
  BY HistoryNext
<1>3. BreaksNeedNoFile
  BY SetAssumption DEF JumpsNeedNoFile, BreaksNeedNoFile
<1>4. Spec => []QuietInv BY <1>3, QuietInvariant
<1> QED BY <1>1, <1>2, <1>4, TypeCorrect, PTL DEF Spec

-----------------------------------------------------------------------------
(* Who is handled, and when, in the first run of a workflow as long as it   *)
(* is not stopped and no break or continue jumps.                           *)

\* The file of c is written with a state c does not leave in this run.
Written(c) == disk[c] \in FinishedStates \union {"stage-out"}
Decided(c) == mem[c] \in FinishedStates \union {"stage-out"}
Begun(c)   == starts[c] > 0 \/ Written(c)

\* c is not to be handled again: all but a loop that has trips left.
Spent(c) == Begun(c) /\ (Kind[c] # "loop" \/ Written(c))

\* Will there be another pass?
Awake == phase # "idle" \/ listener

Fresh == firstCall => phase = "idle" /\ \A c \in Component : ~Begun(c)

Emptied == (listener \/ phase = "closing") => pending = Empty

ThrowEnds == (threw /\ phase # "scanning") => phase = "idle" /\ ~listener

\* An entry that is still to be scanned is the only one of its component, the
\* handler of which is not active.
Entries ==
  \A c \in Component :
    /\ scan[c] <= searchList[c] /\ searchList[c] <= 1
    /\ scan[c] > 0 => phase = "scanning" /\ step[c] = "idle" /\ pending[c] = 0

\* What is not to be handled again is in no list the dispatcher will read.
SpentGone ==
  \A c \in Component : Spent(c) =>
    /\ scan[c] = 0
    /\ pending[c] = 0 \/ (threw /\ Kind[c] = "loop")
    /\ (phase # "scanning" /\ Awake) => searchList[c] = 0

\* What a component that was begun depends on is written, and its handler has
\* ended or finds the component still in the search list.
PredsWritten ==
  \A c \in Component : Begun(c) => \A p \in Pred(c) \ Disabled :
    Written(p) /\ (step[p] = "idle" \/ searchList[c] > 0)

WrittenRests == \A c \in Component : Written(c) => step[c] \in {"idle", "launched"}

Handled ==
  \A c \in Component : step[c] # "idle" =>
    /\ starts[c] > 0 /\ c \notin Disabled /\ step[c] # "adding"
    /\ step[c] \in {"starting", "body"} => pending[c] = 0
    /\ step[c] = "child" => Kind[c] = "loop"

Executed ==
  \A c \in Component :
    /\ exec[c] # "none" => starts[c] > 0 /\ step[c] \in {"idle", "launched"}
    /\ exec[c] \in {"stage-in", "running", "checking"} =>
         mem[c] = "running" /\ ~Written(c)
    /\ exec[c] \in {"decided", "settled", "stage-out", "concluded"} => Decided(c)
    /\ (step[c] = "launched" /\ exec[c] = "none") => Decided(c)

Orderly ==
  /\ Fresh /\ Emptied /\ ThrowEnds /\ Entries /\ SpentGone /\ PredsWritten
  /\ WrittenRests /\ Handled /\ Executed /\ AtMostOnce

Undisturbed == runs = 1 /\ removal = "no" /\ ~Jumped({"break", "continue"})

OrderInv == Undisturbed => Orderly

\* What a workflow has to be: a source has no predecessor and no component is a
\* step of a stepjob.
PlainWorkflow ==
  \A c \in Component :
    Kind[c] # "stepjobTask" /\ (Kind[c] = "source" => Pred(c) = {})

\* A handler hands over to components that wait for it: those that were begun
\* are in the search list, where _addNextComponent() filters them out.
LEMMA HandedOver ==
  ASSUME TypeOK, Orderly, NEW c \in Component, step[c] # "idle",
         NEW useElse \in BOOLEAN, NEW d \in NextComponents(c, useElse)
  PROVE  d \in Component /\ ~Begun(d) /\ scan[d] = 0
<1>1. d \in Successors(c, useElse) /\ searchList[d] = 0 BY DEF NextComponents
<1>2. d \in Component /\ c \in Pred(d)
  BY <1>1, LinkAssumption DEF Successors, Pred, Previous, Source
<1>3. c \notin Disabled BY DEF Orderly, Handled
<1>4. ~Begun(d) BY <1>1, <1>2, <1>3 DEF Orderly, PredsWritten
<1>5. scan[d] = 0 BY <1>1, <1>2 DEF Orderly, Entries, TypeOK
<1> QED BY <1>2, <1>4, <1>5

\* The end of a handler.
LEMMA HandlerOrderly ==
  ASSUME TypeOK, QuietInv, Orderly, NEW c \in Component, step[c] # "idle",
         TypeOK', step' = [step EXCEPT ![c] = "idle"],
         UNCHANGED <<scan, searchList, phase, firstCall, starts, exec, mem>>,
         \A d \in Component \ {c} : disk'[d] = disk[d],
         Written(c) => Written(c)',
         Kind[c] = "loop" /\ Written(c)' /\ ~Written(c) => pending[c] = 0 \/ threw',
         exec[c] \in {"stage-in", "running", "checking"} => ~Written(c)',
         \/ pending' = pending
         \/ \E useElse \in BOOLEAN : pending' = AddTo(pending, NextComponents(c, useElse)),
         threw => threw', listener' => listener
  PROVE  Orderly'
<1>1. phase # "closing" /\ ~listener /\ ~listener'
  BY DEF QuietInv, Asleep
<1>2. starts[c] > 0 /\ Begun(c) BY DEF Orderly, Handled, Begun
<1>3. \A d \in Component : /\ d # c => (Written(d)' <=> Written(d))
                           /\ Written(d) => Written(d)'
  BY DEF Written
<1>4. \A d \in Component : Begun(d)' <=> Begun(d)
  BY <1>2, <1>3 DEF Begun
<1>5. \A d \in Component : d # c => step'[d] = step[d] BY DEF TypeOK
<1>6. step'[c] = "idle" BY DEF TypeOK
<1>7. \A d \in Component : pending'[d] = pending[d] \/ (scan[d] = 0 /\ ~Begun(d))
  <2>1. ASSUME NEW useElse \in BOOLEAN,
               pending' = AddTo(pending, NextComponents(c, useElse))
        PROVE  \A d \in Component :
                 pending'[d] = pending[d] \/ (scan[d] = 0 /\ ~Begun(d))
    BY <2>1, HandedOver DEF AddTo
  <2> QED BY <2>1
<1>8. Fresh' /\ Emptied' /\ ThrowEnds'
  <2>1. Fresh' BY <1>4 DEF Orderly, Fresh
  <2>2. Emptied' BY <1>1 DEF Emptied
  <2>3. ThrowEnds' BY <1>1 DEF ThrowEnds, TypeOK
  <2> QED BY <2>1, <2>2, <2>3
<1>9. Entries'
  <2> SUFFICES ASSUME NEW d \in Component
               PROVE  /\ scan[d] <= searchList[d] /\ searchList[d] <= 1
                      /\ scan[d] > 0 => /\ phase = "scanning" /\ step'[d] = "idle"
                                        /\ pending'[d] = 0
    BY DEF Entries
  <2>1. scan[d] \in Nat BY DEF TypeOK
  <2> QED BY <1>5, <1>6, <1>7, <2>1 DEF Orderly, Entries
<1>10. SpentGone'
  <2> SUFFICES ASSUME NEW d \in Component, Spent(d)'
               PROVE  /\ scan[d] = 0
                      /\ pending'[d] = 0 \/ (threw' /\ Kind[d] = "loop")
                      /\ ~(phase # "scanning" /\ Awake')
    BY DEF SpentGone
  <2>1. ~(phase # "scanning" /\ Awake') BY <1>1 DEF Awake, TypeOK
  <2>2. Begun(d) /\ pending'[d] = pending[d] BY <1>4, <1>7 DEF Spent
  <2>3. CASE Spent(d) BY <2>1, <2>2, <2>3 DEF Orderly, SpentGone
  <2>4. CASE ~Spent(d)
    <3>1. d = c /\ Kind[c] = "loop" /\ Written(c)' /\ ~Written(c)
      BY <1>3, <2>2, <2>4 DEF Spent
    <3>2. scan[c] = 0 BY DEF Orderly, Entries, TypeOK
    <3> QED BY <2>1, <2>2, <3>1, <3>2
  <2> QED BY <2>3, <2>4
<1>11. PredsWritten'
  BY <1>3, <1>4, <1>5, <1>6 DEF Orderly, PredsWritten, Pred, Previous, Source
<1>12. WrittenRests' BY <1>3, <1>5, <1>6 DEF Orderly, WrittenRests
<1>13. Handled'
  <2> SUFFICES ASSUME NEW d \in Component, step'[d] # "idle"
               PROVE  /\ starts[d] > 0 /\ d \notin Disabled /\ step'[d] # "adding"
                      /\ step'[d] \in {"starting", "body"} => pending'[d] = 0
                      /\ step'[d] = "child" => Kind[d] = "loop"
    BY DEF Handled
  <2>1. step'[d] = step[d] /\ starts[d] > 0 BY <1>5, <1>6 DEF Orderly, Handled
  <2>2. pending'[d] = pending[d] BY <1>7, <2>1 DEF Begun
  <2> QED BY <2>1, <2>2 DEF Orderly, Handled
<1>14. Executed'
  <2> SUFFICES ASSUME NEW d \in Component
               PROVE  /\ exec[d] # "none" => starts[d] > 0 /\ step'[d] \in {"idle", "launched"}
                      /\ exec[d] \in {"stage-in", "running", "checking"} =>
                           mem[d] = "running" /\ ~Written(d)'
                      /\ exec[d] \in {"decided", "settled", "stage-out", "concluded"} =>
                           Decided(d)
                      /\ (step'[d] = "launched" /\ exec[d] = "none") => Decided(d)
    BY DEF Executed, Decided
  <2>1. CASE d = c BY <1>6, <2>1 DEF Orderly, Executed
  <2>2. CASE d # c BY <1>3, <1>5, <2>2 DEF Orderly, Executed
  <2> QED BY <2>1, <2>2
<1>15. AtMostOnce' BY DEF Orderly, AtMostOnce
<1> QED
  BY <1>8, <1>9, <1>10, <1>11, <1>12, <1>13, <1>14, <1>15 DEF Orderly

\* A step of an execution.
LEMMA ExecutionOrderly ==
  ASSUME TypeOK, QuietInv, Orderly, NEW c \in Component, exec[c] # "none", TypeOK',
         UNCHANGED <<lists, step, phase, listener, firstCall, threw, starts>>,
         \A d \in Component \ {c} :
           disk'[d] = disk[d] /\ exec'[d] = exec[d] /\ mem'[d] = mem[d],
         Written(c) => Written(c)',
         exec'[c] \in {"stage-in", "running", "checking"} =>
           mem'[c] = "running" /\ ~Written(c)',
         exec'[c] \notin {"stage-in", "running", "checking"} => Decided(c)'
  PROVE  Orderly'
<1> USE DEF lists
<1>1. starts[c] > 0 /\ Kind[c] # "loop"
  BY KindAssumption DEF Orderly, Executed, QuietInv, TaskOnly
<1>2. \A d \in Component : /\ d # c => (Written(d)' <=> Written(d))
                           /\ Written(d) => Written(d)'
  BY DEF Written
<1>3. \A d \in Component : (Begun(d)' <=> Begun(d)) /\ (Spent(d)' <=> Spent(d))
  BY <1>1, <1>2 DEF Begun, Spent
<1>4. step[c] \in {"idle", "launched"} BY DEF Orderly, Executed
<1>5. Fresh' /\ Emptied' /\ ThrowEnds' /\ Entries' /\ AtMostOnce'
  BY <1>3 DEF Orderly, Fresh, Emptied, ThrowEnds, Entries, AtMostOnce
<1>6. SpentGone' BY <1>3 DEF Orderly, SpentGone, Awake
<1>7. PredsWritten' BY <1>2, <1>3 DEF Orderly, PredsWritten, Pred, Previous, Source
<1>8. WrittenRests' BY <1>2, <1>4 DEF Orderly, WrittenRests
<1>9. Handled' BY DEF Orderly, Handled
<1>10. Executed'
  <2> SUFFICES ASSUME NEW d \in Component
               PROVE  /\ exec'[d] # "none" => starts[d] > 0 /\ step[d] \in {"idle", "launched"}
                      /\ exec'[d] \in {"stage-in", "running", "checking"} =>
                           mem'[d] = "running" /\ ~Written(d)'
                      /\ exec'[d] \in {"decided", "settled", "stage-out", "concluded"} =>
                           Decided(d)'
                      /\ (step[d] = "launched" /\ exec'[d] = "none") => Decided(d)'
    BY DEF Executed
  <2>1. CASE d = c BY <1>1, <1>4, <2>1
  <2>2. CASE d # c
    <3>1. Decided(d)' <=> Decided(d) BY <2>2 DEF Decided
    <3> QED BY <1>2, <2>2, <3>1 DEF Orderly, Executed
  <2> QED BY <2>1, <2>2
<1> QED BY <1>5, <1>6, <1>7, <1>8, <1>9, <1>10 DEF Orderly

\* The handlers.
LEMMA HandlersOrderly ==
  ASSUME PlainWorkflow, TypeOK, QuietInv, Orderly, Undisturbed', TypeOK',
         NEW c \in Component, Handler(c)
  PROVE  Orderly'
<1> USE DEF lists, events, result, tasks, loops, history, Handling,
            unchangedByHandler
<1>0. /\ step[c] # "idle" => starts[c] > 0 /\ step[c] # "adding"
      /\ step[c] = "child" => Kind[c] = "loop"
      /\ step[c] \in {"starting", "body"} => pending[c] = 0
      /\ step[c] \notin {"idle", "launched"} => exec[c] = "none" /\ ~Written(c)
      /\ step[c] # "idle" => ~listener /\ phase # "closing"
  BY DEF Orderly, Handled, Executed, WrittenRests, QuietInv, Asleep
<1>1. CASE Skip(c) BY <1>0, <1>1 DEF Skip
<1>2. CASE Begin(c)
  <2>1. /\ \A d \in Component \ {c} : disk'[d] = disk[d] /\ step'[d] = step[d]
        /\ disk'[c] = "running" /\ step'[c] \in {"launch", "body"}
        /\ step[c] = "starting"
        /\ UNCHANGED <<lists, events, phase, firstCall, threw, mem, exec, starts>>
    BY <1>2 DEF Begin, TypeOK
  <2>2. \A d \in Component : Written(d)' <=> Written(d) BY <1>0, <2>1 DEF Written
  <2>3. \A d \in Component : (Begun(d)' <=> Begun(d)) /\ (Spent(d)' <=> Spent(d))
    BY <2>1, <2>2 DEF Begun, Spent
  <2>4. Fresh' /\ Emptied' /\ ThrowEnds' /\ SpentGone' /\ AtMostOnce'
    BY <2>1, <2>3
    DEF Orderly, Fresh, Emptied, ThrowEnds, SpentGone, AtMostOnce, Awake
  <2>5. Entries' BY <2>1 DEF Orderly, Entries, TypeOK
  <2>6. PredsWritten'
    BY <1>0, <2>1, <2>2, <2>3 DEF Orderly, PredsWritten, Pred, Previous, Source
  <2>7. WrittenRests' BY <1>0, <2>1, <2>2 DEF Orderly, WrittenRests
  <2>8. Handled' BY <1>0, <2>1 DEF Orderly, Handled
  <2>9. Executed'
    <3>1. \A d \in Component : Decided(d)' <=> Decided(d) BY <2>1 DEF Decided
    <3> QED BY <1>0, <2>1, <2>2, <3>1 DEF Orderly, Executed
  <2> QED BY <2>4, <2>5, <2>6, <2>7, <2>8, <2>9 DEF Orderly
<1>3. CASE LaunchTask(c)
  <2>1. disk[c] # "stage-out" BY <1>0, <1>3 DEF LaunchTask, Written
  <2>2. /\ \A d \in Component \ {c} : /\ step'[d] = step[d] /\ exec'[d] = exec[d]
                                      /\ mem'[d] = mem[d]
        /\ step[c] = "launch" /\ step'[c] = "launched" /\ mem'[c] = "running"
        /\ exec'[c] \in {"stage-in", "running"}
        /\ UNCHANGED <<disk, lists, events, phase, firstCall, threw, starts>>
    BY <1>3, <2>1 DEF LaunchTask, Resuming, TypeOK
  <2>3. \A d \in Component : (Written(d)' <=> Written(d)) /\ (Begun(d)' <=> Begun(d))
                             /\ (Spent(d)' <=> Spent(d))
    BY <2>2 DEF Written, Begun, Spent
  <2>4. Fresh' /\ Emptied' /\ ThrowEnds' /\ SpentGone' /\ AtMostOnce'
    BY <2>2, <2>3
    DEF Orderly, Fresh, Emptied, ThrowEnds, SpentGone, AtMostOnce, Awake
  <2>5. Entries' BY <2>2 DEF Orderly, Entries, TypeOK
  <2>6. PredsWritten'
    BY <1>0, <2>2, <2>3 DEF Orderly, PredsWritten, Pred, Previous, Source
  <2>7. WrittenRests' /\ Handled'
    BY <1>0, <2>2, <2>3 DEF Orderly, WrittenRests, Handled
  <2>8. Executed'
    <3>1. \A d \in Component \ {c} : Decided(d)' <=> Decided(d)
      BY <2>2 DEF Decided
    <3> QED BY <1>0, <2>2, <2>3, <3>1 DEF Orderly, Executed
  <2> QED BY <2>4, <2>5, <2>6, <2>7, <2>8 DEF Orderly
<1>4. CASE TaskDispatched(c)
  <2>1. /\ step[c] = "launched" /\ step' = [step EXCEPT ![c] = "idle"]
        /\ UNCHANGED <<scan, searchList, phase, firstCall, starts, exec, mem, threw>>
        /\ \A d \in Component \ {c} : disk'[d] = disk[d]
        /\ disk'[c] = mem[c] /\ pending' = AddTo(pending, NextComponents(c, FALSE))
        /\ listener' = listener
    BY <1>4 DEF TaskDispatched, EndHandler, ReserveDispatch, TypeOK
  <2>2. Kind[c] # "loop"
    BY <2>1, KindAssumption DEF QuietInv, TaskOnly
  <2>3. /\ exec[c] \in {"stage-in", "running", "checking"} => ~Written(c)'
        /\ Written(c) => Written(c)'
    BY <2>1 DEF Orderly, Executed, Written, Decided, TypeOK
  <2> QED BY <2>1, <2>2, <2>3, HandlerOrderly
<1>5. CASE RunInstant(c) \/ RunViewer(c) \/ \E b \in BOOLEAN : CheckIf(c, b)
  <2>1. /\ step[c] = "body" /\ step' = [step EXCEPT ![c] = "idle"]
        /\ UNCHANGED <<scan, searchList, phase, firstCall, starts, exec, mem, threw>>
        /\ \A d \in Component \ {c} : disk'[d] = disk[d]
        /\ Kind[c] # "loop" /\ disk'[c] = "finished" /\ listener' = listener
        /\ \/ pending' = pending
           \/ \E u \in BOOLEAN : pending' = AddTo(pending, NextComponents(c, u))
    <3>1. CASE RunInstant(c)
      <4>1. /\ step[c] = "body" /\ step' = [step EXCEPT ![c] = "idle"]
            /\ UNCHANGED <<scan, searchList, phase, firstCall, starts, exec, mem, threw>>
            /\ Kind[c] # "loop" /\ listener' = listener
            /\ pending' = AddTo(pending, NextComponents(c, FALSE))
        BY <3>1 DEF RunInstant, EndHandler, ReserveDispatch
      <4>2. (\A d \in Component \ {c} : disk'[d] = disk[d]) /\ disk'[c] = "finished"
        BY <3>1 DEF RunInstant, TypeOK
      <4> QED BY <4>1, <4>2
    <3>2. CASE RunViewer(c)
      BY <3>2 DEF RunViewer, EndHandler, ReserveDispatch, TypeOK
    <3>3. ASSUME NEW b \in BOOLEAN, CheckIf(c, b)
          PROVE  /\ step[c] = "body" /\ step' = [step EXCEPT ![c] = "idle"]
                 /\ UNCHANGED <<scan, searchList, phase, firstCall, starts, exec, mem,
                                threw>>
                 /\ \A d \in Component \ {c} : disk'[d] = disk[d]
                 /\ Kind[c] # "loop" /\ disk'[c] = "finished" /\ listener' = listener
                 /\ pending' = AddTo(pending, NextComponents(c, ~b))
      BY <3>3 DEF CheckIf, EndHandler, ReserveDispatch, TypeOK
    <3> QED BY <1>5, <3>1, <3>2, <3>3
  <2> QED BY <1>0, <2>1, HandlerOrderly DEF Written
<1>6. ASSUME NEW b \in BOOLEAN, Jump(c, b) PROVE Orderly'
  <2>1. ~b
    <3>1. cond'[c] # "true" BY <1>6 DEF Undisturbed, Jumped, Jump
    <3> QED BY <1>6, <3>1 DEF Jump, TypeOK
  <2>2. /\ step[c] = "body" /\ step' = [step EXCEPT ![c] = "idle"]
        /\ UNCHANGED <<scan, searchList, phase, firstCall, starts, exec, mem, threw>>
        /\ \A d \in Component \ {c} : disk'[d] = disk[d]
        /\ Kind[c] # "loop" /\ disk'[c] = "finished" /\ (listener' => listener)
        /\ pending' = AddTo(pending, NextComponents(c, FALSE))
    BY <1>6, <2>1 DEF Jump, TypeOK
  <2> QED BY <1>0, <2>2, HandlerOrderly DEF Written
<1>7. ASSUME NEW s \in ChildResults, ChildSettles(c, s) PROVE Orderly'
  <2>1. /\ step[c] = "body" /\ step' = [step EXCEPT ![c] = "idle"]
        /\ UNCHANGED <<scan, searchList, phase, firstCall, starts, exec, mem, threw>>
        /\ \A d \in Component \ {c} : disk'[d] = disk[d]
        /\ Kind[c] # "loop" /\ listener' = listener
        /\ pending' = AddTo(pending, NextComponents(c, FALSE))
    BY <1>7 DEF ChildSettles, EndDelegation, TypeOK
  <2> QED BY <1>0, <2>1, HandlerOrderly
<1>8. CASE LoopTrip(c)
  <2>1. /\ \A d \in Component \ {c} : pending'[d] = pending[d] /\ step'[d] = step[d]
        /\ step[c] = "body" /\ step'[c] = "child" /\ Kind[c] = "loop"
        /\ UNCHANGED <<scan, searchList, phase, firstCall, disk, events, threw, mem,
                       exec, starts>>
    BY <1>8 DEF LoopTrip, AddTo, TypeOK
  <2>2. \A d \in Component : /\ (Written(d)' <=> Written(d)) /\ (Begun(d)' <=> Begun(d))
                             /\ (Spent(d)' <=> Spent(d))
    BY <2>1 DEF Written, Begun, Spent
  <2>3. Fresh' /\ ThrowEnds' /\ AtMostOnce'
    BY <2>1, <2>2 DEF Orderly, Fresh, ThrowEnds, AtMostOnce
  <2>4. Emptied' BY <1>0, <2>1 DEF Emptied
  <2>5. Entries' BY <2>1 DEF Orderly, Entries, TypeOK
  <2>6. SpentGone' BY <1>0, <2>1, <2>2 DEF Orderly, SpentGone, Awake, Spent
  <2>7. PredsWritten'
    BY <1>0, <2>1, <2>2 DEF Orderly, PredsWritten, Pred, Previous, Source
  <2>8. WrittenRests' /\ Handled'
    BY <1>0, <2>1, <2>2 DEF Orderly, WrittenRests, Handled
  <2>9. Executed'
    <3>1. \A d \in Component : Decided(d)' <=> Decided(d) BY <2>1 DEF Decided
    <3> QED BY <1>0, <2>1, <2>2, <3>1 DEF Orderly, Executed
  <2> QED BY <2>3, <2>4, <2>5, <2>6, <2>7, <2>8, <2>9 DEF Orderly
<1>9. CASE LoopFinalize(c)
  <2>1. /\ step[c] = "body" /\ step' = [step EXCEPT ![c] = "idle"]
        /\ UNCHANGED <<scan, searchList, phase, firstCall, starts, exec, mem, threw>>
        /\ \A d \in Component \ {c} : disk'[d] = disk[d]
        /\ listener' = listener
        /\ pending' = AddTo(pending, NextComponents(c, FALSE))
    BY <1>9 DEF LoopFinalize, EndHandler, ReserveDispatch, TypeOK
  <2> QED BY <1>0, <2>1, HandlerOrderly
<1>10. ASSUME NEW s \in ChildResults, NEW b \in BOOLEAN, TripSettles(c, s, b)
       PROVE  Orderly'
  <2>1. /\ step[c] = "child" /\ step' = [step EXCEPT ![c] = "idle"]
        /\ UNCHANGED <<scan, searchList, phase, firstCall, starts, exec, mem, threw>>
        /\ UNCHANGED disk /\ listener' = listener
        /\ pending' = AddTo(pending, NextComponents(c, FALSE))
    BY <1>10 DEF TripSettles, EndDelegation, TypeOK
  <2>2. Written(c)' <=> Written(c) BY <2>1 DEF Written
  <2> QED BY <1>0, <2>1, <2>2, HandlerOrderly
<1>11. CASE HandlerThrows(c)
  <2>1. /\ step[c] \in {"launch", "body", "child"}
        /\ UNCHANGED <<scan, searchList, phase, firstCall, starts, exec, mem>>
        /\ \A d \in Component \ {c} : disk'[d] = disk[d]
        /\ disk'[c] = "failed" /\ threw'
    BY <1>11 DEF HandlerThrows, TypeOK
  <2>2. /\ step' = [step EXCEPT ![c] = "idle"] /\ listener' = listener
        /\ pending' = pending \/ pending' = AddTo(pending, NextComponents(c, FALSE))
    <3>1. CASE EndDelegation(c) BY <3>1 DEF EndDelegation
    <3>2. CASE EndHandler(c) /\ UNCHANGED pending
      BY <3>2 DEF EndHandler, ReserveDispatch
    <3> QED BY <1>11, <3>1, <3>2 DEF HandlerThrows
  <2> QED BY <1>0, <2>1, <2>2, HandlerOrderly DEF Written
<1> QED
  BY <1>1, <1>2, <1>3, <1>4, <1>5, <1>6, <1>7, <1>8, <1>9, <1>10, <1>11 DEF Handler

\* The executions.
LEMMA ExecutionsOrderly ==
  ASSUME TypeOK, QuietInv, Orderly, TypeOK', NEW c \in Component, Execution(c)
  PROVE  Orderly'
<1> USE DEF lists, events, result, loops, history
<1>0. /\ exec[c] \in {"stage-in", "running", "checking"} =>
           mem[c] = "running" /\ ~Written(c)
      /\ exec[c] \in {"decided", "settled", "stage-out", "concluded"} => Decided(c)
  BY DEF Orderly, Executed
<1>1. CASE StageIn(c)
  BY <1>0, <1>1, ExecutionOrderly DEF StageIn, Written, TypeOK
<1>2. CASE ScriptEnds(c)
  BY <1>0, <1>2, ExecutionOrderly DEF ScriptEnds, Written, TypeOK
<1>3. ASSUME NEW s \in TaskResults, TaskDecided(c, s) PROVE Orderly'
  <2>1. Decided(c)' BY <1>3, ResultAssumption DEF TaskDecided, Decided, TypeOK
  <2> QED BY <1>0, <1>3, <2>1, ExecutionOrderly DEF TaskDecided, Written, TypeOK
<1>4. CASE TaskSettled(c)
  <2>1. Written(c)' /\ Decided(c)'
    BY <1>0, <1>4 DEF TaskSettled, Written, Decided, TypeOK
  <2> QED BY <1>4, <2>1, ExecutionOrderly DEF TaskSettled, TypeOK
<1>5. CASE StageOut(c)
  BY <1>5, ExecutionOrderly DEF StageOut, Written, Decided, TypeOK
<1>6. ASSUME NEW b \in BOOLEAN, StageOutEnds(c, b) PROVE Orderly'
  BY <1>6, ExecutionOrderly DEF StageOutEnds, Written, Decided, TypeOK
<1>7. CASE TaskCompleted(c)
  <2>1. Decided(c)' /\ (Written(c)' <=> Written(c))
    BY <1>0, <1>7 DEF TaskCompleted, Decided, Written
  <2>2. listener' = listener BY <1>7 DEF TaskCompleted, ReserveDispatch
  <2> QED BY <1>7, <2>1, <2>2, ExecutionOrderly DEF TaskCompleted, TypeOK
<1> QED BY <1>1, <1>2, <1>3, <1>4, <1>5, <1>6, <1>7 DEF Execution

\* The entries of a pass.
LEMMA PassOrderly ==
  ASSUME PlainWorkflow, TypeOK, QuietInv, Orderly, TypeOK',
         NEW c \in Component, Pass(c)
  PROVE  Orderly'
<1> USE DEF lists, events, result, tasks, loops, history
<1>0. /\ phase = "scanning" /\ scan[c] > 0 /\ searchList[c] = 1 /\ pending[c] = 0
      /\ step[c] = "idle" /\ ~Spent(c)
      /\ ~listener /\ phase # "closing" /\ ~firstCall
  <2>1. phase = "scanning" /\ scan[c] > 0
    BY DEF Pass, Scan, ScanDisabled, ScanNotReady, ScanInputsFail,
           ScanMandatoryMissing, ScanDispatch
  <2>2. searchList[c] = 1
    <3>1. scan[c] <= searchList[c] /\ searchList[c] <= 1 BY DEF Orderly, Entries
    <3>2. scan[c] \in Nat /\ searchList[c] \in Nat BY DEF TypeOK
    <3> QED BY <2>1, <3>1, <3>2
  <2> QED
    BY <2>1, <2>2
    DEF Orderly, Entries, SpentGone, QuietInv, Asleep, Fresh
<1>1. CASE ScanDisabled(c) \/ ScanNotReady(c)
  <2>1. /\ \A d \in Component \ {c} : scan'[d] = scan[d] /\ pending'[d] = pending[d]
        /\ scan'[c] = scan[c] - 1 /\ pending'[c] \in Nat
        /\ UNCHANGED <<disk, searchList, events, phase, firstCall, threw, step, mem,
                       exec, starts>>
    BY <1>1 DEF ScanDisabled, ScanNotReady, Scan, AddTo, TypeOK
  <2>2. \A d \in Component : /\ (Written(d)' <=> Written(d)) /\ (Begun(d)' <=> Begun(d))
                             /\ (Spent(d)' <=> Spent(d))
    BY <2>1 DEF Written, Begun, Spent
  <2>3. Fresh' /\ Emptied' /\ ThrowEnds' /\ AtMostOnce'
    BY <1>0, <2>1, <2>2 DEF Orderly, Fresh, Emptied, ThrowEnds, AtMostOnce
  <2>4. scan'[c] = 0 BY <1>0, <2>1 DEF Orderly, Entries, TypeOK
  <2>5. Entries' BY <1>0, <2>1, <2>4 DEF Orderly, Entries, TypeOK
  <2>6. SpentGone' BY <1>0, <2>1, <2>2 DEF Orderly, SpentGone, Awake
  <2>7. PredsWritten'
    BY <2>1, <2>2 DEF Orderly, PredsWritten, Pred, Previous, Source
  <2>8. WrittenRests' /\ Handled'
    BY <1>0, <2>1, <2>2 DEF Orderly, WrittenRests, Handled
  <2>9. Executed'
    <3>1. \A d \in Component : Decided(d)' <=> Decided(d) BY <2>1 DEF Decided
    <3> QED BY <2>1, <2>2, <3>1 DEF Orderly, Executed
  <2> QED BY <2>3, <2>5, <2>6, <2>7, <2>8, <2>9 DEF Orderly
<1>2. CASE ScanInputsFail(c)
  <2>1. /\ scan' = Empty /\ phase' = "idle"
        /\ UNCHANGED <<disk, searchList, pending, events, firstCall, threw, step, mem,
                       exec, starts>>
    BY <1>2 DEF ScanInputsFail
  <2>2. \A d \in Component : /\ (Written(d)' <=> Written(d)) /\ (Begun(d)' <=> Begun(d))
                             /\ (Spent(d)' <=> Spent(d))
    BY <2>1 DEF Written, Begun, Spent
  <2>3. Fresh' /\ Emptied' /\ ThrowEnds' /\ AtMostOnce'
    BY <1>0, <2>1, <2>2 DEF Orderly, Fresh, Emptied, ThrowEnds, AtMostOnce
  <2>4. Entries' BY <2>1 DEF Orderly, Entries, Empty, TypeOK
  <2>5. SpentGone' BY <1>0, <2>1, <2>2 DEF Orderly, SpentGone, Awake, Empty
  <2>6. PredsWritten'
    BY <2>1, <2>2 DEF Orderly, PredsWritten, Pred, Previous, Source
  <2>7. WrittenRests' /\ Handled' BY <2>1, <2>2 DEF Orderly, WrittenRests, Handled
  <2>8. Executed'
    <3>1. \A d \in Component : Decided(d)' <=> Decided(d) BY <2>1 DEF Decided
    <3> QED BY <2>1, <2>2, <3>1 DEF Orderly, Executed
  <2> QED BY <2>3, <2>4, <2>5, <2>6, <2>7, <2>8 DEF Orderly
<1>3. CASE ScanMandatoryMissing(c) \/ ScanDispatch(c)
  <2>1. /\ \A d \in Component \ {c} :
             scan'[d] = scan[d] /\ disk'[d] = disk[d] /\ step'[d] = step[d]
                                /\ starts'[d] = starts[d]
        /\ scan'[c] = scan[c] - 1
        /\ UNCHANGED <<searchList, pending, events, phase, firstCall, threw, mem,
                       exec>>
        /\ c \notin Disabled /\ Ready(c)
    BY <1>3 DEF ScanMandatoryMissing, ScanDispatch, Scan, TypeOK
  <2>2. scan'[c] = 0 BY <1>0, <2>1 DEF Orderly, Entries, TypeOK
  <2>3. ~Written(c) /\ (Begun(c) => Kind[c] = "loop")
    BY <1>0 DEF Spent, Begun
  <2>4. \A d \in Component : Written(d) => Written(d)'
    BY <2>1, <2>3 DEF Written
  <2>5. \A d \in Component \ {c} :
          /\ (Written(d)' <=> Written(d)) /\ (Begun(d)' <=> Begun(d))
          /\ (Spent(d)' <=> Spent(d))
    BY <2>1 DEF Written, Begun, Spent
  <2>6. \/ disk'[c] = "failed" /\ step'[c] = "idle" /\ starts'[c] = starts[c]
        \/ /\ step'[c] = "starting" /\ starts'[c] = starts[c] + 1
           /\ disk'[c] = disk[c]
    BY <1>0, <1>3, <2>3
    DEF ScanMandatoryMissing, ScanDispatch, Resuming, Written, TypeOK
  <2>7. exec[c] = "none" /\ (starts[c] > 0 => Kind[c] = "loop")
    <3>1. starts[c] > 0 => Kind[c] = "loop" BY <2>3 DEF Begun
    <3>2. exec[c] # "none" => Kind[c] # "loop" /\ starts[c] > 0
      BY KindAssumption DEF Orderly, Executed, QuietInv, TaskOnly
    <3> QED BY <3>1, <3>2
  <2>8. Fresh' /\ Emptied' /\ ThrowEnds'
    BY <1>0, <2>1 DEF Orderly, Fresh, Emptied, ThrowEnds
  <2>9. AtMostOnce' BY <2>1, <2>6, <2>7 DEF Orderly, AtMostOnce, TypeOK
  <2>10. Entries' BY <1>0, <2>1, <2>2 DEF Orderly, Entries
  <2>11. SpentGone' BY <1>0, <2>1, <2>2, <2>5 DEF Orderly, SpentGone, Awake
  <2>12. PredsWritten'
    <3> SUFFICES ASSUME NEW d \in Component, Begun(d)', NEW p \in Pred(d) \ Disabled
                 PROVE  Written(p)' /\ (step'[p] = "idle" \/ searchList'[d] > 0)
      BY DEF PredsWritten, Pred, Previous, Source
    <3>0. p \in Component BY DEF Pred, Previous, Source
    <3>1. Written(p)
      <4>1. CASE Begun(d) BY <4>1 DEF Orderly, PredsWritten
      <4>2. CASE ~Begun(d)
        <5>1. d = c BY <2>5, <4>2
        <5>2. Kind[c] # "source" /\ Kind[p] # "stepjobTask"
          BY <3>0, <5>1 DEF PlainWorkflow
        <5> QED BY <2>1, <5>1, <5>2 DEF Ready, StuckStageOut, Written, Pred
      <4> QED BY <4>1, <4>2
    <3>2. p # c BY <2>3, <3>1
    <3>3. step'[p] = step[p] BY <2>1, <3>0, <3>2
    <3>4. searchList[d] > 0 \/ step[p] = "idle"
      <4>1. CASE d = c BY <1>0, <4>1
      <4>2. CASE d # c BY <2>5, <4>2 DEF Orderly, PredsWritten
      <4> QED BY <4>1, <4>2
    <3> QED BY <2>1, <2>4, <3>0, <3>1, <3>3, <3>4
  <2>13. WrittenRests'
    BY <2>1, <2>3, <2>5, <2>6 DEF Orderly, WrittenRests, Written
  <2>14. Handled' BY <1>0, <2>1, <2>6 DEF Orderly, Handled, TypeOK
  <2>15. Executed'
    <3>1. \A d \in Component : Decided(d)' <=> Decided(d) BY <2>1 DEF Decided
    <3> QED BY <2>1, <2>5, <2>6, <2>7, <3>1 DEF Orderly, Executed, TypeOK
  <2> QED
    BY <2>8, <2>9, <2>10, <2>11, <2>12, <2>13, <2>14, <2>15 DEF Orderly
<1> QED BY <1>1, <1>2, <1>3 DEF Pass

\* The event loop.
LEMMA LoopOrderly ==
  ASSUME TypeOK, QuietInv, Orderly, TypeOK', Loop
  PROVE  Orderly'
<1> USE DEF lists, events, result, tasks, loops, history
<1>0. UNCHANGED <<disk, starts, step, exec, mem>>
  BY DEF Loop, EmitDispatch, Collect, CheckBlocked, PassError
<1>1. \A d \in Component :
        /\ (Written(d)' <=> Written(d)) /\ (Begun(d)' <=> Begun(d))
        /\ (Spent(d)' <=> Spent(d)) /\ (Decided(d)' <=> Decided(d))
  BY <1>0 DEF Written, Begun, Spent, Decided
<1>2. WrittenRests' /\ Executed' /\ AtMostOnce'
  BY <1>0, <1>1 DEF Orderly, WrittenRests, Executed, AtMostOnce
<1>3. CASE EmitDispatch /\ ~listener
  <2>1. UNCHANGED <<lists, phase, listener, firstCall, threw>>
    BY <1>3 DEF EmitDispatch
  <2>2. Fresh' /\ Emptied' /\ ThrowEnds' /\ Entries' /\ Handled'
    BY <1>0, <1>1, <2>1 DEF Orderly, Fresh, Emptied, ThrowEnds, Entries, Handled
  <2>3. SpentGone' BY <1>1, <2>1 DEF Orderly, SpentGone, Awake
  <2>4. PredsWritten'
    BY <1>0, <1>1, <2>1 DEF Orderly, PredsWritten, Pred, Previous, Source
  <2> QED BY <1>2, <2>2, <2>3, <2>4 DEF Orderly
<1>4. CASE EmitDispatch /\ listener
  <2>1. /\ phase = "idle" /\ phase' = "scanning" /\ ~listener' /\ ~threw'
        /\ pending' = pending /\ ~firstCall' /\ scan' = searchList'
    BY <1>4 DEF EmitDispatch, QuietInv, Asleep
  <2>2. \A d \in Component : step[d] = "idle" BY <1>4 DEF QuietInv, Asleep
  <2>3. \A d \in Component : pending[d] = 0 BY <1>4 DEF Orderly, Emptied, Empty
  <2>4. \A d \in Component : searchList'[d] <= 1 /\ (Spent(d) => searchList'[d] = 0)
    <3>1. CASE firstCall
      <4>1. \A d \in Component : ~Spent(d) BY <3>1 DEF Orderly, Fresh, Spent
      <4>2. searchList' = AddTo(Empty, Initial) BY <1>4, <3>1 DEF EmitDispatch
      <4> QED BY <4>1, <4>2 DEF AddTo, Empty
    <3>2. CASE ~firstCall
      BY <1>4, <2>1, <3>2 DEF EmitDispatch, Orderly, Entries, SpentGone, Awake
    <3> QED BY <3>1, <3>2
  <2>5. Fresh' /\ Emptied' /\ ThrowEnds' BY <2>1 DEF Fresh, Emptied, ThrowEnds
  <2>6. Entries' BY <1>0, <2>1, <2>2, <2>3, <2>4 DEF Entries, TypeOK
  <2>7. SpentGone' BY <1>1, <2>1, <2>3, <2>4 DEF SpentGone
  <2>8. PredsWritten'
    BY <1>0, <1>1, <2>2 DEF Orderly, PredsWritten, Pred, Previous, Source
  <2>9. Handled' BY <1>0, <2>2 DEF Handled
  <2> QED BY <1>2, <2>5, <2>6, <2>7, <2>8, <2>9 DEF Orderly
<1>5. CASE Collect
  <2>1. /\ phase = "scanning" /\ ~threw /\ ~threw' /\ phase' # "scanning"
        /\ scan = Empty /\ scan' = Empty /\ pending' = Empty
        /\ firstCall' = firstCall
    BY <1>5 DEF Collect, EndPass
  <2>2. \A d \in Component : step[d] = "idle" BY <1>5 DEF Collect
  <2>3. \A d \in Component :
          searchList'[d] <= 1 /\ (pending[d] = 0 => searchList'[d] = 0)
    BY <1>5 DEF Collect, RemoveDuplicated
  <2>4. Fresh' BY <2>1 DEF Orderly, Fresh
  <2>5. Emptied' /\ ThrowEnds' BY <2>1 DEF Emptied, ThrowEnds, Empty
  <2>6. Entries' BY <1>0, <2>1, <2>2, <2>3 DEF Entries, Empty, TypeOK
  <2>7. SpentGone' BY <1>1, <2>1, <2>3 DEF Orderly, SpentGone, Empty
  <2>8. PredsWritten'
    BY <1>0, <1>1, <2>2 DEF Orderly, PredsWritten, Pred, Previous, Source
  <2>9. Handled' BY <1>0, <2>2 DEF Handled
  <2> QED BY <1>2, <2>4, <2>5, <2>6, <2>7, <2>8, <2>9 DEF Orderly
<1>6. CASE CheckBlocked
  <2>1. phase = "closing" /\ phase' = "idle" /\ UNCHANGED <<lists, firstCall, threw>>
    BY <1>6 DEF CheckBlocked, EndPass
  <2>2. Fresh' /\ Handled'
    BY <1>0, <1>1, <2>1 DEF Orderly, Fresh, Handled
  <2>3. Emptied' BY <2>1 DEF Orderly, Emptied, Empty
  <2>4. ThrowEnds' BY <2>1 DEF Orderly, ThrowEnds
  <2>5. Entries' BY <1>0, <2>1 DEF Orderly, Entries
  <2>6. SpentGone' BY <1>1, <2>1 DEF Orderly, SpentGone, Awake
  <2>7. PredsWritten'
    BY <1>0, <1>1, <2>1 DEF Orderly, PredsWritten, Pred, Previous, Source
  <2> QED BY <1>2, <2>2, <2>3, <2>4, <2>5, <2>6, <2>7 DEF Orderly
<1>7. CASE PassError
  <2>1. /\ phase = "scanning" /\ phase' = "idle" /\ scan = Empty
        /\ UNCHANGED <<lists, firstCall, threw, listener>>
    BY <1>7 DEF PassError
  <2>2. ~listener' BY <2>1 DEF QuietInv, Asleep
  <2>3. Fresh' /\ Handled' /\ Emptied' /\ ThrowEnds'
    BY <1>0, <1>1, <2>1, <2>2
    DEF Orderly, Fresh, Handled, Emptied, ThrowEnds
  <2>4. Entries' BY <1>0, <2>1 DEF Orderly, Entries, Empty
  <2>5. SpentGone' BY <1>1, <2>1, <2>2 DEF Orderly, SpentGone, Awake
  <2>6. PredsWritten'
    BY <1>0, <1>1, <2>1 DEF Orderly, PredsWritten, Pred, Previous, Source
  <2> QED BY <1>2, <2>3, <2>4, <2>5, <2>6 DEF Orderly
<1> QED BY <1>3, <1>4, <1>5, <1>6, <1>7 DEF Loop

LEMMA OrderInit == Init => OrderInv
<1> SUFFICES ASSUME Init PROVE OrderInv
  OBVIOUS
<1>1. \A c \in Component : /\ starts[c] = 0 /\ disk[c] = "not-started"
                           /\ step[c] = "idle" /\ exec[c] = "none"
                           /\ searchList[c] = 0 /\ pending[c] = 0 /\ scan[c] = 0
  BY DEF Init, Empty
<1>2. \A c \in Component : ~Begun(c) /\ ~Written(c) /\ ~Spent(c)
  BY <1>1 DEF Begun, Written, Spent
<1>3. phase = "idle" /\ ~threw /\ pending = Empty /\ runs = 1 BY DEF Init
<1>4. Fresh /\ Emptied /\ ThrowEnds BY <1>2, <1>3 DEF Fresh, Emptied, ThrowEnds
<1>5. Entries /\ Handled /\ AtMostOnce BY <1>1 DEF Entries, Handled, AtMostOnce
<1>6. SpentGone /\ PredsWritten /\ WrittenRests /\ Executed
  BY <1>1, <1>2 DEF SpentGone, PredsWritten, WrittenRests, Executed
<1> QED BY <1>4, <1>5, <1>6 DEF OrderInv, Orderly

\* What disturbs a run cannot be undone.
LEMMA StaysUndisturbed ==
  ASSUME TypeOK, HistoryInv, [Next]_vars, Undisturbed'
  PROVE  /\ Undisturbed
         /\ \/ Loop \/ UNCHANGED vars
            \/ \E c \in Component :
                 Pass(c) \/ Handler(c) \/ Execution(c) \/ BreakArrives(c)
<1>1. /\ UNCHANGED <<runs, removal>>
      /\ \/ Loop \/ UNCHANGED vars
         \/ \E c \in Component :
              Pass(c) \/ Handler(c) \/ Execution(c) \/ BreakArrives(c)
  BY RunsKept DEF Undisturbed, HistoryInv, TypeOK
<1>2. Jumped({"break", "continue"}) => Jumped({"break", "continue"})'
  BY JumpsHold DEF Jumped
<1> QED BY <1>1, <1>2 DEF Undisturbed

LEMMA OrderNext ==
  ASSUME PlainWorkflow, TypeOK, QuietInv, HistoryInv, OrderInv, TypeOK', [Next]_vars
  PROVE  OrderInv'
<1> USE DEF lists, events, result, tasks, loops, history
<1>1. ASSUME Undisturbed' PROVE Orderly'
  <2>1. /\ Undisturbed
        /\ \/ Loop \/ UNCHANGED vars
           \/ \E c \in Component :
                Pass(c) \/ Handler(c) \/ Execution(c) \/ BreakArrives(c)
    BY <1>1, StaysUndisturbed
  <2>2. Orderly BY <2>1 DEF OrderInv
  <2>3. ASSUME NEW c \in Component, Pass(c) PROVE Orderly'
    BY <2>2, <2>3, PassOrderly
  <2>4. ASSUME NEW c \in Component, Handler(c) PROVE Orderly'
    BY <1>1, <2>2, <2>4, HandlersOrderly
  <2>5. ASSUME NEW c \in Component, Execution(c) PROVE Orderly'
    BY <2>2, <2>5, ExecutionsOrderly
  <2>6. CASE Loop BY <2>2, <2>6, LoopOrderly
  <2>7. CASE UNCHANGED vars \/ \E c \in Component : BreakArrives(c)
    <3>1. UNCHANGED <<disk, lists, events, phase, firstCall, threw, step, mem, exec,
                      starts>>
      BY <2>7 DEF BreakArrives, vars
    <3>2. \A d \in Component :
            /\ (Written(d)' <=> Written(d)) /\ (Begun(d)' <=> Begun(d))
            /\ (Spent(d)' <=> Spent(d)) /\ (Decided(d)' <=> Decided(d))
      BY <3>1 DEF Written, Begun, Spent, Decided
    <3>3. Fresh' /\ Emptied' /\ ThrowEnds' /\ Entries' /\ Handled' /\ AtMostOnce'
      BY <2>2, <3>1, <3>2
      DEF Orderly, Fresh, Emptied, ThrowEnds, Entries, Handled, AtMostOnce
    <3>4. SpentGone' /\ WrittenRests' /\ Executed'
      BY <2>2, <3>1, <3>2 DEF Orderly, SpentGone, WrittenRests, Executed, Awake
    <3>5. PredsWritten'
      BY <2>2, <3>1, <3>2 DEF Orderly, PredsWritten, Pred, Previous, Source
    <3> QED BY <3>3, <3>4, <3>5 DEF Orderly
  <2> QED BY <2>1, <2>3, <2>4, <2>5, <2>6, <2>7
<1> QED BY <1>1 DEF OrderInv

\* OrderInv is an inductive invariant of the dispatcher of a plain workflow.
THEOREM OrderInvariant ==
  ASSUME PlainWorkflow, JumpsNeedNoFile
  PROVE  Spec => [](TypeOK /\ QuietInv /\ HistoryInv /\ OrderInv)
<1>1. /\ TypeOK /\ TypeOK' /\ QuietInv /\ HistoryInv /\ OrderInv /\ [Next]_vars
      => OrderInv'
  BY OrderNext
<1> QED BY OrderInit, <1>1, HistoryInvariant, TypeCorrect, PTL DEF Spec

\* In a run that is undisturbed no handler but a loop's is begun twice
\* (AtMostOnce), however many components name it as a successor.
THEOREM BegunOnce ==
  ASSUME PlainWorkflow, JumpsNeedNoFile
  PROVE  Spec => [](Undisturbed => AtMostOnce)
<1>1. OrderInv => (Undisturbed => AtMostOnce) BY DEF OrderInv, Orderly
<1> QED BY <1>1, OrderInvariant, PTL

-----------------------------------------------------------------------------
(* The order of dependencies.  Without remote tasks there is no stage-out.  *)

Local ==
  \A c \in Component : /\ disk[c] # "stage-out" /\ mem[c] # "stage-out"
                       /\ exec[c] \notin {"stage-out", "concluded"}

LocalInv == Undisturbed => Local

LEMMA LocalNext ==
  ASSUME Remote = {}, TypeOK, HistoryInv, OrderInv, LocalInv, TypeOK', [Next]_vars
  PROVE  LocalInv'
<1> SUFFICES ASSUME Undisturbed' PROVE Local'
  BY DEF LocalInv
<1> USE DEF lists, events, result, tasks, loops, history
<1>1. /\ Undisturbed
      /\ \/ Loop \/ UNCHANGED vars
         \/ \E c \in Component :
              Pass(c) \/ Handler(c) \/ Execution(c) \/ BreakArrives(c)
  BY StaysUndisturbed
<1>2. Local /\ Orderly BY <1>1 DEF LocalInv, OrderInv
<1>3. CASE Loop \/ UNCHANGED vars \/ \E c \in Component : BreakArrives(c)
  <2>1. UNCHANGED <<disk, mem, exec>>
    BY <1>3
    DEF Loop, EmitDispatch, Collect, CheckBlocked, PassError, BreakArrives, vars
  <2> QED BY <1>2, <2>1 DEF Local
<1>4. ASSUME NEW c \in Component, Pass(c) PROVE Local'
  BY <1>2, <1>4
  DEF Pass, ScanDisabled, ScanNotReady, ScanInputsFail, ScanMandatoryMissing,
      ScanDispatch, Local, TypeOK
<1>5. ASSUME NEW c \in Component, Handler(c) PROVE Local'
  <2>1. CASE UNCHANGED <<disk, mem, exec>> BY <1>2, <2>1 DEF Local
  <2>2. CASE LaunchTask(c)
    BY <1>2, <2>2 DEF LaunchTask, Resuming, Local, TypeOK
  <2>3. ASSUME NEW s \in States \ {"stage-out"}, disk' = [disk EXCEPT ![c] = s],
               UNCHANGED exec,
               \A d \in Component : mem'[d] \in {mem[d], "not-started"}
        PROVE  Local'
    BY <1>2, <2>3 DEF Local, TypeOK
  <2>4. CASE Begin(c) \/ RunInstant(c) \/ RunViewer(c) \/ LoopFinalize(c)
    BY <2>3, <2>4 DEF Begin, RunInstant, RunViewer, LoopFinalize
  <2>5. CASE TaskDispatched(c)
    BY <1>2, <2>3, <2>5 DEF TaskDispatched, Local, TypeOK
  <2>6. CASE HandlerThrows(c) BY <2>3, <2>6 DEF HandlerThrows
  <2>7. ASSUME NEW b \in BOOLEAN, CheckIf(c, b) PROVE Local'
    BY <2>3, <2>7 DEF CheckIf
  <2>8. ASSUME NEW b \in BOOLEAN, Jump(c, b) PROVE Local'
    <3>1. \A d \in Component : mem'[d] \in {mem[d], "not-started"}
      <4>1. CASE Pause(hasFailed, removal # "no")
        BY <4>1 DEF Pause, CancelDispatchedTasks
      <4> QED BY <2>8, <4>1 DEF Jump
    <3> QED BY <2>3, <2>8, <3>1 DEF Jump
  <2>9. ASSUME NEW s \in ChildResults, ChildSettles(c, s) PROVE Local'
    BY <2>3, <2>9, ResultAssumption DEF ChildSettles
  <2> QED
    BY <1>5, <2>1, <2>2, <2>4, <2>5, <2>6, <2>7, <2>8, <2>9
    DEF Handler, Skip, LoopTrip, TripSettles
<1>6. ASSUME NEW c \in Component, Execution(c) PROVE Local'
  <2>1. exec[c] \in {"stage-in", "running", "checking"} => mem[c] = "running"
    BY <1>2 DEF Orderly, Executed
  <2>2. CASE StageIn(c) BY <1>2, <2>2 DEF StageIn, Local, TypeOK
  <2>3. CASE ScriptEnds(c) BY <1>2, <2>1, <2>3 DEF ScriptEnds, Local, TypeOK
  <2>4. ASSUME NEW s \in TaskResults, TaskDecided(c, s) PROVE Local'
    BY <1>2, <2>4, ResultAssumption DEF TaskDecided, Local, TypeOK
  <2>5. CASE TaskSettled(c) BY <1>2, <2>5 DEF TaskSettled, Local, TypeOK
  <2>6. CASE StageOut(c) BY <2>6 DEF StageOut
  <2>7. ASSUME NEW b \in BOOLEAN, StageOutEnds(c, b) PROVE Local'
    BY <1>2, <2>7 DEF StageOutEnds, Local
  <2>8. CASE TaskCompleted(c) BY <1>2, <2>8 DEF TaskCompleted, Local, TypeOK
  <2> QED BY <1>6, <2>2, <2>3, <2>4, <2>5, <2>6, <2>7, <2>8 DEF Execution
<1> QED BY <1>1, <1>3, <1>4, <1>5, <1>6

\* In a run that is undisturbed, while a component is handled or executes,
\* everything it depends on has ended (DependencyOrder), in a workflow without
\* remote tasks: those may be stuck at "stage-out".
THEOREM DependenciesFirst ==
  ASSUME PlainWorkflow, JumpsNeedNoFile, Remote = {}
  PROVE  Spec => [](Undisturbed => DependencyOrder)
<1>1. Init => LocalInv BY DEF Init, LocalInv, Local
<1>2. /\ TypeOK /\ TypeOK' /\ HistoryInv /\ OrderInv /\ LocalInv /\ [Next]_vars
      => LocalInv'
  BY LocalNext
<1>3. TypeOK /\ OrderInv /\ LocalInv => (Undisturbed => DependencyOrder)
  <2> SUFFICES ASSUME TypeOK, OrderInv, LocalInv, Undisturbed,
                      NEW c \in Component, Active(c), NEW p \in Pred(c) \ Disabled
               PROVE  Ended(p)
    BY DEF DependencyOrder
  <2>1. Orderly /\ Local BY DEF OrderInv, LocalInv
  <2>2. p \in Component BY DEF Pred, Previous, Source
  <2>3. starts[c] > 0 BY <2>1 DEF Active, Orderly, Handled, Executed
  <2>4. Written(p) BY <2>1, <2>3 DEF Orderly, PredsWritten, Begun
  <2>5. disk[p] \in FinishedStates BY <2>1, <2>2, <2>4 DEF Written, Local
  <2>6. step[p] \in {"idle", "launched"}
    BY <2>1, <2>2, <2>4 DEF Orderly, WrittenRests
  <2>7. exec[p] \in {"none", "decided", "settled"}
    BY <2>1, <2>2, <2>4 DEF Orderly, Executed, Local, TypeOK
  <2> QED BY <2>5, <2>6, <2>7 DEF Ended
<1> QED BY <1>1, <1>2, <1>3, OrderInvariant, PTL DEF Spec

-----------------------------------------------------------------------------
(* One branch.  A component that follows an "if" gets into the lists of the *)
(* dispatcher by that "if" only, which never decides twice in a run.        *)

\* A component that follows an "if" follows nothing else, and is neither a
\* viewer nor a storage.
IfsAlone ==
  \A c \in Component : \A p \in Previous(c) \ Disabled :
    Kind[p] = "if" =>
      Previous(c) \ Disabled = {p} /\ Kind[c] \notin {"viewer", "storage"}

Reached(c) == searchList[c] > 0 \/ pending[c] > 0 \/ starts[c] > 0

Branched ==
  \A c \in Component : Reached(c) =>
    \A p \in Previous(c) \ Disabled : Kind[p] = "if" => cond[p] # "none" /\ Taken(p, c)

IfsWritten ==
  \A p \in Component : Kind[p] = "if" /\ cond[p] # "none" => Written(p)

BranchInv == Undisturbed => Branched /\ IfsWritten

\* What follows an "if" is not where a dispatcher begins.
LEMMA NotInitial ==
  ASSUME NEW c \in Component, NEW p \in Previous(c), Kind[p] = "if"
  PROVE  c \notin Initial
<1>1. p \in Pred(c) /\ p \in Component BY DEF Pred, Previous
<1>2. c \in BehindIf BY <1>1 DEF BehindIf
<1> QED BY <1>2 DEF Initial

\* Only the "if" itself hands over to what follows it.
LEMMA OnlyTheIf ==
  ASSUME IfsAlone, TypeOK, Orderly, NEW q \in Component, step[q] # "idle",
         NEW useElse \in BOOLEAN, NEW c \in NextComponents(q, useElse),
         NEW p \in Previous(c) \ Disabled, Kind[p] = "if"
  PROVE  q = p /\ c \in (IF useElse THEN ElseLinks[p] ELSE NextLinks[p])
<1>1. q \notin Disabled BY DEF Orderly, Handled
<1>2. c \in Component BY HandedOver
<1>3. Kind[c] \notin {"viewer", "storage"} /\ Previous(c) \ Disabled = {p}
  BY <1>2 DEF IfsAlone
<1>4. BehindIfByFile(c) BY <1>3 DEF BehindIfByFile, Previous
<1>5. c \in (IF useElse THEN ElseLinks[q] ELSE NextLinks[q])
  BY <1>4 DEF NextComponents, Successors
<1>6. q \in Previous(c) BY <1>2, <1>5 DEF Previous
<1> QED BY <1>1, <1>3, <1>5, <1>6

\* A step after which more components are reached.
LEMMA ReachMore ==
  ASSUME IfsAlone, TypeOK, Orderly, Branched, IfsWritten, NEW q \in Component,
         step[q] # "idle", Kind[q] # "if", TypeOK',
         UNCHANGED <<searchList, starts>>,
         \A p \in Component : Kind[p] = "if" => cond'[p] = cond[p] /\ disk'[p] = disk[p],
         \/ pending' = pending
         \/ pending' = AddTo(pending, {q})
         \/ \E useElse \in BOOLEAN : pending' = AddTo(pending, NextComponents(q, useElse))
  PROVE  Branched' /\ IfsWritten'
<1>1. IfsWritten' BY DEF IfsWritten, Written
<1>2. SUFFICES ASSUME NEW c \in Component, Reached(c)',
                      NEW p \in Previous(c) \ Disabled, Kind[p] = "if"
               PROVE  cond[p] # "none" /\ Taken(p, c)
  <2>1. \A c \in Component : \A p \in Previous(c) : p \in Component BY DEF Previous
  <2> QED BY <1>1, <1>2, <2>1 DEF Branched, Taken, Previous
<1>3. starts[q] > 0 BY DEF Orderly, Handled
<1>4. Reached(c) \/ \E useElse \in BOOLEAN : c \in NextComponents(q, useElse)
  BY <1>2, <1>3 DEF Reached, AddTo, TypeOK
<1>5. CASE Reached(c) BY <1>2, <1>5 DEF Branched
<1>6. ASSUME NEW useElse \in BOOLEAN, c \in NextComponents(q, useElse) PROVE FALSE
  BY <1>2, <1>6, OnlyTheIf
<1> QED BY <1>4, <1>5, <1>6

LEMMA BranchNext ==
  ASSUME PlainWorkflow, IfsAlone, TypeOK, QuietInv, HistoryInv, OrderInv, BranchInv,
         TypeOK', [Next]_vars
  PROVE  BranchInv'
<1> SUFFICES ASSUME Undisturbed' PROVE Branched' /\ IfsWritten'
  BY DEF BranchInv
<1> USE DEF lists, events, result, tasks, loops, history, Handling,
            unchangedByHandler
<1>1. /\ Undisturbed
      /\ \/ Loop \/ UNCHANGED vars
         \/ \E c \in Component :
              Pass(c) \/ Handler(c) \/ Execution(c) \/ BreakArrives(c)
  BY StaysUndisturbed
<1>2. Branched /\ IfsWritten /\ Orderly BY <1>1 DEF BranchInv, OrderInv
<1>3. ASSUME \A c \in Component : Kind[c] = "if" => cond'[c] = cond[c] /\ disk'[c] = disk[c],
             \A c \in Component : Reached(c)' =>
               \/ Reached(c)
               \/ \A p \in Previous(c) : Kind[p] # "if"
      PROVE  Branched' /\ IfsWritten'
  <2>1. IfsWritten' BY <1>2, <1>3 DEF IfsWritten, Written
  <2>2. Branched' BY <1>2, <1>3 DEF Branched, Taken, Previous
  <2> QED BY <2>1, <2>2
<1>4. CASE UNCHANGED vars \/ \E c \in Component : BreakArrives(c)
  <2>1. UNCHANGED <<disk, cond, searchList, pending, starts>>
    BY <1>4 DEF vars, BreakArrives
  <2> QED BY <1>3, <2>1 DEF Reached
<1>5. CASE Loop
  <2>1. UNCHANGED <<disk, cond, starts>>
    BY <1>5 DEF Loop, EmitDispatch, Collect, CheckBlocked, PassError
  <2>2. CASE EmitDispatch
    <3>1. CASE UNCHANGED searchList
      BY <1>3, <2>1, <2>2, <3>1 DEF Reached, EmitDispatch
    <3>2. CASE searchList' = AddTo(Empty, Initial)
      <4>1. \A c \in Component : searchList'[c] > 0 => c \in Initial
        BY <3>2 DEF AddTo, Empty
      <4>2. \A c \in Component : searchList'[c] > 0 => \A p \in Previous(c) : Kind[p] # "if"
        BY <4>1, NotInitial
      <4> QED BY <1>3, <2>1, <2>2, <4>2 DEF Reached, EmitDispatch
    <3> QED BY <2>2, <3>1, <3>2 DEF EmitDispatch
  <2>3. CASE Collect
    <3>1. \A c \in Component : /\ searchList'[c] > 0 => pending[c] > 0
                               /\ pending'[c] = 0
      BY <2>3 DEF Collect, RemoveDuplicated, Empty
    <3> QED BY <1>3, <2>1, <3>1 DEF Reached
  <2>4. CASE CheckBlocked \/ PassError
    BY <1>3, <2>1, <2>4 DEF Reached, CheckBlocked, PassError
  <2> QED BY <1>5, <2>2, <2>3, <2>4 DEF Loop
<1>6. ASSUME NEW c \in Component, Pass(c) PROVE Branched' /\ IfsWritten'
  <2>1. scan[c] > 0
    BY <1>6
    DEF Pass, Scan, ScanDisabled, ScanNotReady, ScanInputsFail, ScanMandatoryMissing,
        ScanDispatch
  <2>2. Reached(c)
    <3>1. scan[c] <= searchList[c] BY <1>2 DEF Orderly, Entries
    <3> QED BY <2>1, <3>1 DEF Reached, TypeOK
  <2>3. \A d \in Component : Reached(d)' => Reached(d)
    <3>1. \A d \in Component \ {c} :
            searchList'[d] = searchList[d] /\ pending'[d] = pending[d] /\ starts'[d] = starts[d]
      <4>1. UNCHANGED searchList /\ (pending' = pending \/ pending' = AddTo(pending, {c}))
        BY <1>6 DEF Pass, ScanDisabled, ScanNotReady, ScanInputsFail,
                    ScanMandatoryMissing, ScanDispatch
      <4>2. \A d \in Component \ {c} : starts'[d] = starts[d] BY <1>6, ActorLocal
      <4> QED BY <4>1, <4>2 DEF AddTo
    <3> QED BY <2>2, <3>1 DEF Reached
  <2>4. CASE ScanMandatoryMissing(c)
    <3>1. IfsWritten'
      BY <1>2, <2>4 DEF ScanMandatoryMissing, IfsWritten, Written, TypeOK
    <3>2. UNCHANGED cond BY <2>4 DEF ScanMandatoryMissing
    <3>3. Branched' BY <1>2, <2>3, <3>2 DEF Branched, Taken, Previous
    <3> QED BY <3>1, <3>3
  <2>5. CASE ~ScanMandatoryMissing(c)
    <3>1. UNCHANGED <<disk, cond>>
      BY <1>6, <2>5 DEF Pass, ScanDisabled, ScanNotReady, ScanInputsFail, ScanDispatch
    <3> QED BY <1>3, <2>3, <3>1
  <2> QED BY <2>4, <2>5
<1>7. ASSUME NEW c \in Component, Execution(c) PROVE Branched' /\ IfsWritten'
  <2>1. Kind[c] # "if"
    <3>1. exec[c] # "none"
      BY <1>7 DEF Execution, StageIn, ScriptEnds, TaskDecided, TaskSettled, StageOut,
                  StageOutEnds, TaskCompleted
    <3> QED BY <3>1 DEF QuietInv, TaskOnly
  <2>2. \A d \in Component \ {c} : disk'[d] = disk[d] /\ cond'[d] = cond[d]
    BY <1>7, ActorLocal
  <2>3. UNCHANGED <<searchList, pending, starts>>
    BY <1>7 DEF Execution, StageIn, ScriptEnds, TaskDecided, TaskSettled, StageOut,
                StageOutEnds, TaskCompleted
  <2> QED BY <1>3, <2>1, <2>2, <2>3 DEF Reached
<1>8. ASSUME NEW c \in Component, Handler(c) PROVE Branched' /\ IfsWritten'
  <2>1. step[c] # "idle"
    BY <1>8
    DEF Handler, Skip, Begin, LaunchTask, TaskDispatched, RunInstant, RunViewer, CheckIf,
        Jump, ChildSettles, LoopTrip, LoopFinalize, TripSettles, HandlerThrows
  <2>2. /\ step[c] # "adding" /\ (step[c] = "child" => Kind[c] = "loop")
        /\ step[c] \in {"launch", "launched"} => Kind[c] # "if"
        /\ step[c] # "launched" => ~Written(c)
    BY <1>2, <2>1 DEF Orderly, Handled, WrittenRests, QuietInv, TaskOnly
  <2>3. \A d \in Component \ {c} : disk'[d] = disk[d] /\ cond'[d] = cond[d]
    BY <1>8, ActorLocal
  <2>4. CASE Kind[c] # "if"
    <3>1. \A d \in Component : Kind[d] = "if" => cond'[d] = cond[d] /\ disk'[d] = disk[d]
      BY <2>3, <2>4
    <3>2. UNCHANGED <<searchList, starts>>
      <4>1. ASSUME NEW b \in BOOLEAN, Jump(c, b) PROVE UNCHANGED <<searchList, starts>>
        <5>1. ~b
          <6>1. cond'[c] # "true" BY <4>1 DEF Undisturbed, Jumped, Jump
          <6> QED BY <4>1, <6>1 DEF Jump, TypeOK
        <5> QED BY <4>1, <5>1 DEF Jump
      <4> QED
        BY <1>8, <4>1
        DEF Handler, Skip, Begin, LaunchTask, TaskDispatched, RunInstant, RunViewer,
            CheckIf, ChildSettles, LoopTrip, LoopFinalize, TripSettles, HandlerThrows
    <3>3. \/ pending' = pending
          \/ pending' = AddTo(pending, {c})
          \/ \E u \in BOOLEAN : pending' = AddTo(pending, NextComponents(c, u))
      <4>1. ASSUME NEW b \in BOOLEAN, Jump(c, b)
            PROVE  pending' = AddTo(pending, NextComponents(c, FALSE))
        <5>1. ~b
          <6>1. cond'[c] # "true" BY <4>1 DEF Undisturbed, Jumped, Jump
          <6> QED BY <4>1, <6>1 DEF Jump, TypeOK
        <5> QED BY <4>1, <5>1 DEF Jump
      <4>2. CASE Begin(c) \/ LaunchTask(c) \/ RunViewer(c)
        BY <4>2 DEF Begin, LaunchTask, RunViewer
      <4>3. CASE Skip(c) \/ TaskDispatched(c) \/ RunInstant(c) \/ LoopFinalize(c)
        BY <4>3 DEF Skip, TaskDispatched, RunInstant, LoopFinalize
      <4>4. CASE LoopTrip(c) BY <4>4 DEF LoopTrip
      <4>5. CASE HandlerThrows(c) BY <4>5 DEF HandlerThrows, EndDelegation
      <4>6. ASSUME NEW s \in ChildResults, NEW b \in BOOLEAN,
                   ChildSettles(c, s) \/ TripSettles(c, s, b) \/ CheckIf(c, b)
            PROVE  \E u \in BOOLEAN : pending' = AddTo(pending, NextComponents(c, u))
        BY <4>6 DEF ChildSettles, TripSettles, EndDelegation, CheckIf
      <4> QED BY <1>8, <2>4, <4>1, <4>2, <4>3, <4>4, <4>5, <4>6 DEF Handler, CheckIf
    <3> QED BY <1>2, <2>1, <2>4, <3>1, <3>2, <3>3, ReachMore
  <2>5. CASE Kind[c] = "if"
    <3>1. CASE Begin(c) \/ HandlerThrows(c)
      <4>1. UNCHANGED <<searchList, pending, starts, cond>>
        BY <2>2, <2>5, <3>1 DEF Begin, HandlerThrows
      <4>2. cond[c] = "none"
        <5>1. ~Written(c) BY <2>2, <2>5, <3>1 DEF Begin, HandlerThrows
        <5> QED BY <1>2, <2>5, <5>1 DEF IfsWritten
      <4>3. IfsWritten' BY <1>2, <2>3, <4>1, <4>2 DEF IfsWritten, Written
      <4>4. Branched' BY <1>2, <4>1 DEF Branched, Reached, Taken, Previous
      <4> QED BY <4>3, <4>4
    <3>2. ASSUME NEW b \in BOOLEAN, CheckIf(c, b) PROVE Branched' /\ IfsWritten'
      <4>1. /\ disk'[c] = "finished" /\ cond'[c] = (IF b THEN "true" ELSE "false")
            /\ pending' = AddTo(pending, NextComponents(c, ~b))
            /\ UNCHANGED <<searchList, starts>>
        BY <3>2 DEF CheckIf, TypeOK
      <4>2. cond[c] = "none"
        <5>1. ~Written(c) BY <2>2, <2>5, <3>2 DEF CheckIf
        <5> QED BY <1>2, <2>5, <5>1 DEF IfsWritten
      <4>3. IfsWritten' BY <1>2, <2>3, <4>1 DEF IfsWritten, Written
      <4>4. Branched'
        <5> SUFFICES ASSUME NEW d \in Component, Reached(d)',
                            NEW p \in Previous(d) \ Disabled, Kind[p] = "if"
                     PROVE  cond'[p] # "none" /\ Taken(p, d)'
          BY DEF Branched, Previous
        <5>0. p \in Component BY DEF Previous
        <5>1. Reached(d) \/ d \in NextComponents(c, ~b)
          BY <4>1 DEF Reached, AddTo, TypeOK
        <5>2. CASE Reached(d)
          <6>1. cond[p] # "none" /\ Taken(p, d) BY <1>2, <5>2 DEF Branched
          <6>2. p # c BY <4>2, <6>1
          <6> QED BY <2>3, <5>0, <6>1, <6>2 DEF Taken
        <5>3. CASE d \in NextComponents(c, ~b)
          <6>1. c = p /\ d \in (IF ~b THEN ElseLinks[p] ELSE NextLinks[p])
            BY <1>2, <2>1, <5>3, OnlyTheIf
          <6> QED BY <4>1, <6>1 DEF Taken
        <5> QED BY <5>1, <5>2, <5>3
      <4> QED BY <4>3, <4>4
    <3> QED
      BY <1>8, <2>2, <2>5, <3>1, <3>2
      DEF Handler, Skip, LaunchTask, TaskDispatched, RunInstant, RunViewer, Jump,
          ChildSettles, LoopTrip, LoopFinalize, TripSettles
  <2> QED BY <2>4, <2>5
<1> QED BY <1>1, <1>4, <1>5, <1>6, <1>7, <1>8

\* In a run that is undisturbed, a component linked to an "if" starts only on
\* the side the condition decided for (OneBranch), whatever files others send it.
THEOREM OneBranchOnly ==
  ASSUME PlainWorkflow, JumpsNeedNoFile, IfsAlone
  PROVE  Spec => [](Undisturbed => OneBranch)
<1>1. Init => BranchInv
  BY DEF Init, Empty, BranchInv, Branched, IfsWritten, Reached
<1>2. /\ TypeOK /\ TypeOK' /\ QuietInv /\ HistoryInv /\ OrderInv /\ BranchInv
      /\ [Next]_vars
      => BranchInv'
  BY BranchNext
<1>3. BranchInv => (Undisturbed => OneBranch)
  BY DEF BranchInv, Branched, OneBranch, Reached
<1> QED BY <1>1, <1>2, <1>3, OrderInvariant, PTL DEF Spec

-----------------------------------------------------------------------------
(* The verdict of a run.  The flags StateOf() reads are set with the file a *)
(* component fails in, and do not change once the dispatcher is at rest.    *)

\* Tasks are local and end well: a result that is not reported before the
\* dispatcher looks at runningTasks is no bad one.
TasksEndWell == Remote = {} /\ TaskResults \subseteq {"finished"}

Clean ==
  \A c \in Component :
    /\ disk[c] # "stage-out" /\ exec[c] # "stage-out"
    /\ mem[c] \notin {"stage-out", "failed", "unknown"}

Flagged ==
  runs = 1 => \A c \in Component : /\ disk[c] = "failed" => hasFailed
                                   /\ disk[c] = "unknown" => hasUnknown

Truthful ==
  outcome = "finished" /\ removal = "no" /\ ~Jumped({"break"}) =>
    ~hasFailed /\ ~hasUnknown

VerdictInv == Clean /\ Flagged /\ Truthful

\* A step that leaves the flags or sets them, and writes what they say.
LEMMA FlagsGrow ==
  ASSUME Flagged, runs' = runs, hasFailed => hasFailed', hasUnknown => hasUnknown',
         \A c \in Component :
           \/ disk'[c] = disk[c]
           \/ /\ disk'[c] = "failed" => hasFailed'
              /\ disk'[c] = "unknown" => hasUnknown'
  PROVE  Flagged'
BY DEF Flagged

\* A dispatcher that reported "finished" has nothing to handle any more.
LEMMA FinishedRests ==
  ASSUME QuietInv, HistoryInv, outcome = "finished", removal = "no", ~Jumped({"break"})
  PROVE  AtRest
<1>1. ~ \E c \in Component : BrokeAt(c) BY DEF BrokeAt, Jumped
<1> QED BY <1>1 DEF QuietInv, SettledQuiet

LEMMA PassVerdict ==
  ASSUME TypeOK, QuietInv, HistoryInv, VerdictInv, TypeOK', [Next]_vars,
         NEW c \in Component, Pass(c)
  PROVE  VerdictInv'
<1> USE DEF lists, events, result, tasks, loops, history
<1>1. UNCHANGED <<mem, exec, runs, removal, cond, hasUnknown>>
  BY DEF Pass, ScanDisabled, ScanNotReady, ScanInputsFail, ScanMandatoryMissing,
         ScanDispatch
<1>2. phase = "scanning"
  BY DEF Pass, Scan, ScanDisabled, ScanNotReady, ScanInputsFail, ScanMandatoryMissing,
         ScanDispatch
<1>3. \A d \in Component : disk'[d] = disk[d] \/ (disk'[d] = "failed" /\ hasFailed')
  BY DEF Pass, ScanDisabled, ScanNotReady, ScanInputsFail, ScanMandatoryMissing,
         ScanDispatch, TypeOK
<1>4. hasFailed => hasFailed'
  BY DEF Pass, ScanDisabled, ScanNotReady, ScanInputsFail, ScanMandatoryMissing,
         ScanDispatch
<1>5. outcome' = outcome \/ outcome' = "error"
  BY DEF Pass, ScanDisabled, ScanNotReady, ScanInputsFail, ScanMandatoryMissing,
         ScanDispatch
<1>6. Clean' BY <1>1, <1>3 DEF VerdictInv, Clean
<1>7. Flagged' BY <1>1, <1>3, <1>4, FlagsGrow DEF VerdictInv
<1>8. Truthful'
  <2>1. ~(outcome = "finished" /\ removal = "no" /\ ~Jumped({"break"}))
    BY <1>2, FinishedRests DEF AtRest
  <2> QED BY <1>1, <1>5, <2>1 DEF Truthful, Jumped
<1> QED BY <1>6, <1>7, <1>8 DEF VerdictInv

LEMMA HandlerVerdict ==
  ASSUME TypeOK, QuietInv, HistoryInv, VerdictInv, TypeOK', [Next]_vars,
         NEW c \in Component, Handler(c)
  PROVE  VerdictInv'
<1> USE DEF lists, events, result, tasks, loops, history, Handling
<1>0. step[c] # "idle"
  BY DEF Handler, Skip, Begin, LaunchTask, TaskDispatched, RunInstant, RunViewer,
         CheckIf, Jump, ChildSettles, LoopTrip, LoopFinalize, TripSettles, HandlerThrows
<1>1. UNCHANGED <<runs, removal>>
  BY DEF Handler, Skip, Begin, LaunchTask, TaskDispatched, RunInstant, RunViewer,
         CheckIf, Jump, ChildSettles, LoopTrip, LoopFinalize, TripSettles, HandlerThrows
<1>2. outcome' = outcome \/ Jumped({"break"})'
  <2>1. ASSUME NEW b \in BOOLEAN, Jump(c, b)
        PROVE  outcome' = outcome \/ Jumped({"break"})'
    <3>1. CASE b /\ Kind[c] = "break"
      <4>1. cond'[c] = "true" BY <2>1, <3>1 DEF Jump, TypeOK
      <4> QED BY <3>1, <4>1 DEF Jumped
    <3>2. CASE ~(b /\ Kind[c] = "break") BY <2>1, <3>2 DEF Jump
    <3> QED BY <3>1, <3>2
  <2> QED
    BY <2>1 DEF Handler, Skip, Begin, LaunchTask, TaskDispatched, RunInstant, RunViewer,
                CheckIf, ChildSettles, LoopTrip, LoopFinalize, TripSettles, HandlerThrows
<1>3. Truthful'
  <2>1. ~(outcome = "finished" /\ removal = "no" /\ ~Jumped({"break"}))
    BY <1>0, FinishedRests DEF AtRest
  <2>2. Jumped({"break"}) => Jumped({"break"})' BY JumpsHold DEF Jumped
  <2> QED BY <1>1, <1>2, <2>1, <2>2 DEF Truthful
<1>4. ASSUME NEW s \in {"running", "finished"}, disk' = [disk EXCEPT ![c] = s],
             UNCHANGED <<hasFailed, hasUnknown, mem, exec>>
      PROVE  Clean' /\ Flagged'
  <2>1. Flagged' BY <1>1, <1>4, FlagsGrow DEF VerdictInv, TypeOK
  <2>2. Clean' BY <1>4 DEF VerdictInv, Clean, TypeOK
  <2> QED BY <2>1, <2>2
<1>5. ASSUME NEW s \in FinishedStates, disk' = [disk EXCEPT ![c] = s],
             hasUnknown' = (hasUnknown \/ s = "unknown"),
             hasFailed' = (hasFailed \/ s = "failed"), UNCHANGED <<mem, exec>>
      PROVE  Clean' /\ Flagged'
  <2>1. disk \in [Component -> States] /\ Clean BY DEF TypeOK, VerdictInv
  <2>2. \A d \in Component : disk'[d] = IF d = c THEN s ELSE disk[d] BY <1>5, <2>1
  <2>3. (s = "failed" => hasFailed') /\ (s = "unknown" => hasUnknown') BY <1>5
  <2>4. \A d \in Component : \/ disk'[d] = disk[d]
                             \/ /\ disk'[d] = "failed" => hasFailed'
                                /\ disk'[d] = "unknown" => hasUnknown'
    BY <2>2, <2>3
  <2>5. Flagged' BY <1>1, <1>5, <2>4, FlagsGrow DEF VerdictInv
  <2>6. Clean' BY <1>5, <2>1, <2>2 DEF Clean
  <2> QED BY <2>5, <2>6
<1>6. CASE Skip(c) \/ LoopTrip(c)
           \/ \E s \in ChildResults, b \in BOOLEAN : TripSettles(c, s, b)
  <2>1. UNCHANGED <<disk, hasFailed, hasUnknown, mem, exec>>
    BY <1>6 DEF Skip, LoopTrip, TripSettles
  <2> QED BY <1>1, <1>3, <2>1 DEF VerdictInv, Clean, Flagged
<1>7. CASE Begin(c) \/ RunInstant(c) \/ RunViewer(c) \/ \E b \in BOOLEAN : CheckIf(c, b)
  BY <1>3, <1>4, <1>7 DEF Begin, RunInstant, RunViewer, CheckIf, VerdictInv
<1>8. CASE LaunchTask(c)
  <2>1. UNCHANGED <<disk, hasFailed, hasUnknown>> BY <1>8 DEF LaunchTask
  <2>2. Clean' BY <1>8 DEF LaunchTask, Resuming, VerdictInv, Clean, TypeOK
  <2> QED BY <1>1, <1>3, <2>1, <2>2 DEF VerdictInv, Flagged
<1>9. CASE TaskDispatched(c)
  <2>1. /\ disk' = [disk EXCEPT ![c] = mem[c]] /\ UNCHANGED <<mem, exec>>
        /\ mem[c] \notin {"stage-out", "failed", "unknown"}
    BY <1>9 DEF TaskDispatched, VerdictInv, Clean
  <2>2. UNCHANGED <<hasFailed, hasUnknown>>
    BY <1>9, <2>1 DEF TaskDispatched, SetStateFlag, TypeOK
  <2>3. Flagged' BY <1>1, <2>1, <2>2, FlagsGrow DEF VerdictInv, TypeOK
  <2>4. Clean' BY <2>1 DEF VerdictInv, Clean, TypeOK
  <2> QED BY <1>3, <2>3, <2>4 DEF VerdictInv
<1>10. ASSUME NEW b \in BOOLEAN, Jump(c, b) PROVE VerdictInv'
  <2>1. /\ disk' = [disk EXCEPT ![c] = "finished"]
        /\ UNCHANGED <<hasFailed, hasUnknown, exec>>
    BY <1>10 DEF Jump
  <2>2. \A d \in Component : mem'[d] \in {mem[d], "not-started"}
    <3>1. CASE Pause(hasFailed, removal # "no")
      BY <3>1 DEF Pause, CancelDispatchedTasks
    <3> QED BY <1>10, <3>1 DEF Jump
  <2>3. Clean' BY <2>1, <2>2 DEF VerdictInv, Clean, TypeOK
  <2>4. Flagged' BY <1>1, <2>1, FlagsGrow DEF VerdictInv, TypeOK
  <2> QED BY <1>3, <2>3, <2>4 DEF VerdictInv
<1>11. ASSUME NEW s \in ChildResults, ChildSettles(c, s) PROVE VerdictInv'
  BY <1>3, <1>5, <1>11, ResultAssumption DEF ChildSettles, SetStateFlag, VerdictInv
<1>12. CASE LoopFinalize(c)
  BY <1>3, <1>5, <1>12 DEF LoopFinalize, SetStateFlag, VerdictInv
<1>13. CASE HandlerThrows(c)
  <2>1. UNCHANGED hasUnknown /\ hasFailed' /\ UNCHANGED <<mem, exec>>
        /\ disk' = [disk EXCEPT ![c] = "failed"]
    BY <1>13 DEF HandlerThrows
  <2>2. Flagged' BY <1>1, <2>1, FlagsGrow DEF VerdictInv, TypeOK
  <2>3. Clean' BY <2>1 DEF VerdictInv, Clean, TypeOK
  <2> QED BY <1>3, <2>2, <2>3 DEF VerdictInv
<1> QED
  BY <1>6, <1>7, <1>8, <1>9, <1>10, <1>11, <1>12, <1>13 DEF Handler

LEMMA ExecutionVerdict ==
  ASSUME TasksEndWell, TypeOK, HistoryInv, VerdictInv, TypeOK', [Next]_vars,
         NEW c \in Component, Execution(c)
  PROVE  VerdictInv'
<1> USE DEF lists, events, result, tasks, loops, history
<1>1. /\ mem'[c] \in {mem[c], "running", "finished"} /\ exec'[c] # "stage-out"
      /\ \A d \in Component \ {c} : mem'[d] = mem[d] /\ exec'[d] = exec[d]
      /\ \A d \in Component : disk'[d] \in {disk[d], mem[d]}
  BY DEF Execution, StageIn, ScriptEnds, TaskDecided, TaskSettled, StageOut,
         StageOutEnds, TaskCompleted, TasksEndWell, VerdictInv, Clean, TypeOK
<1>2. UNCHANGED <<hasFailed, hasUnknown, outcome, removal, runs, cond>>
  BY DEF Execution, StageIn, ScriptEnds, TaskDecided, TaskSettled, StageOut,
         StageOutEnds, TaskCompleted, VerdictInv, Clean, TypeOK
<1>3. Clean' BY <1>1 DEF VerdictInv, Clean
<1>4. Flagged'
  <2>1. \A d \in Component : disk'[d] = disk[d] \/ disk'[d] \notin {"failed", "unknown"}
    BY <1>1 DEF VerdictInv, Clean
  <2> QED BY <1>2, <2>1, FlagsGrow DEF VerdictInv
<1>5. Truthful' BY <1>2 DEF VerdictInv, Truthful, Jumped
<1> QED BY <1>3, <1>4, <1>5 DEF VerdictInv

LEMMA EndPassTruthful ==
  ASSUME VerdictInv, NEW done \in BOOLEAN, EndPass(done),
         UNCHANGED <<hasFailed, hasUnknown, removal, cond>>
  PROVE  Truthful'
BY DEF EndPass, StateOf, VerdictInv, Truthful, Jumped

LEMMA VerdictNext ==
  ASSUME TasksEndWell, TypeOK, QuietInv, HistoryInv, VerdictInv, TypeOK', [Next]_vars
  PROVE  VerdictInv'
<1> USE DEF lists, events, result, tasks, loops, history
<1>1. ASSUME UNCHANGED <<disk, mem, exec, hasFailed, hasUnknown>>, runs' = runs
      PROVE  Clean' /\ Flagged'
  BY <1>1 DEF VerdictInv, Clean, Flagged
<1>2. ASSUME NEW c \in Component, Pass(c) PROVE VerdictInv'
  BY <1>2, PassVerdict
<1>3. ASSUME NEW c \in Component, Handler(c) PROVE VerdictInv'
  BY <1>3, HandlerVerdict
<1>4. ASSUME NEW c \in Component, Execution(c) PROVE VerdictInv'
  BY <1>4, ExecutionVerdict
<1>5. CASE Loop
  <2>1. UNCHANGED <<disk, mem, exec, hasFailed, hasUnknown, runs, removal, cond>>
    BY <1>5 DEF Loop, EmitDispatch, Collect, CheckBlocked, PassError
  <2>2. Truthful'
    <3>1. CASE outcome' = outcome \/ outcome' = "error"
      BY <2>1, <3>1 DEF VerdictInv, Truthful, Jumped
    <3>2. ASSUME NEW done \in BOOLEAN, EndPass(done) PROVE Truthful'
      BY <2>1, <3>2, EndPassTruthful
    <3> QED
      BY <1>5, <3>1, <3>2 DEF Loop, EmitDispatch, Collect, CheckBlocked, PassError
  <2> QED BY <1>1, <2>1, <2>2 DEF VerdictInv
<1>6. CASE UNCHANGED vars \/ \E c \in Component : BreakArrives(c)
  <2>1. UNCHANGED <<disk, mem, exec, hasFailed, hasUnknown, runs, removal, cond, outcome>>
    BY <1>6 DEF vars, BreakArrives
  <2> QED BY <1>1, <2>1 DEF VerdictInv, Truthful, Jumped
<1>7. ASSUME NEW reason \in {"none", "failed"}, Remove(reason) PROVE VerdictInv'
  <2>1. /\ UNCHANGED <<disk, exec, runs>> /\ removal' = "removing"
        /\ (hasFailed => hasFailed') /\ (hasUnknown => hasUnknown')
    BY <1>7 DEF Remove, SetStateFlag
  <2>2. \A d \in Component : mem'[d] \in {mem[d], "not-started"}
    BY <1>7 DEF Remove, Pause, CancelDispatchedTasks
  <2>3. Clean' BY <2>1, <2>2 DEF VerdictInv, Clean
  <2>4. Flagged' BY <2>1, FlagsGrow DEF VerdictInv
  <2>5. Truthful' BY <2>1 DEF Truthful
  <2> QED BY <2>3, <2>4, <2>5 DEF VerdictInv
<1>8. CASE Removed
  <2>1. UNCHANGED <<disk, mem, exec, hasFailed, hasUnknown, runs>> /\ removal' = "removed"
    BY <1>8 DEF Removed
  <2> QED BY <1>1, <2>1 DEF VerdictInv, Truthful
<1>9. CASE Continue
  <2>1. UNCHANGED <<disk, mem, exec>> /\ runs' = runs + 1 /\ outcome' = "none"
    BY <1>9 DEF Continue
  <2>2. runs' # 1 BY <2>1 DEF HistoryInv, TypeOK
  <2> QED BY <2>1, <2>2 DEF VerdictInv, Clean, Flagged, Truthful
<1> QED BY <1>2, <1>3, <1>4, <1>5, <1>6, <1>7, <1>8, <1>9 DEF Next

\* In a first run "finished" is reported only when nothing of the workflow has
\* failed or is unknown (Verdict), as long as its tasks are local and end well.
THEOREM VerdictTrue ==
  ASSUME JumpsNeedNoFile, TasksEndWell
  PROVE  Spec => [](runs = 1 => Verdict)
<1>1. Init => VerdictInv
  BY DEF Init, VerdictInv, Clean, Flagged, Truthful
<1>2. /\ TypeOK /\ TypeOK' /\ QuietInv /\ HistoryInv /\ VerdictInv /\ [Next]_vars
      => VerdictInv'
  BY VerdictNext
<1>3. VerdictInv => (runs = 1 => Verdict)
  BY DEF VerdictInv, Clean, Flagged, Truthful, Verdict, Concluded
<1> QED BY <1>1, <1>2, <1>3, HistoryInvariant, TypeCorrect, PTL DEF Spec

-----------------------------------------------------------------------------
(* No resubmission, in this run or a continuation.  A task whose script     *)
(* succeeded keeps "finished" or "stage-out" in memory and gets it into its *)
(* file, and with it _dispatchOneComponent() does not start it from the     *)
(* beginning.                                                               *)

\* No task can fail before its script was started.
TasksStart == \A c \in MandatoryMissing \union MayThrow : Kind[c] \notin TaskKinds

Good == {"finished", "stage-out"}

\* A task that is handled or executes was begun in this run, ...
AtWork(c) ==
  exec[c] # "none" \/ step[c] \in {"starting", "launch", "launched"} =>
    starts[c] > 0

\* ... is not handled from the beginning while it executes, ...
Apart(c) ==
  /\ step[c] \notin {"body", "child"}
  /\ exec[c] # "none" => step[c] \in {"idle", "launched", "adding"}

\* ... and once it succeeded, what it left is good.
Kept(c) ==
  c \in succeeded =>
    /\ exec[c] \notin {"stage-in", "running", "checking"}
    /\ step[c] \notin {"starting", "body", "child"}
    /\ step[c] = "launch" => disk[c] = "stage-out"
    /\ mem[c] \in Good
    /\ exec[c] = "decided" \/ disk[c] \in Good

Submitted == \A c \in Component : Kind[c] \in TaskKinds => AtWork(c) /\ Apart(c) /\ Kept(c)
OnlyTasks == \A c \in succeeded : Kind[c] \in TaskKinds

SubmitInv == OnlyTasks /\ Submitted

NotAgain ==
  \A c \in succeeded : exec[c] = "none" => exec'[c] \in {"none", "settled"}

\* What nothing happens to stays as it is.
LEMMA SubmitLocal ==
  ASSUME TypeOK, SubmitInv, NEW c \in Component, Kind[c] \in TaskKinds,
         disk'[c] = disk[c], step'[c] = step[c], exec'[c] = exec[c],
         starts'[c] = starts[c], (c \in succeeded') <=> (c \in succeeded),
         mem[c] \in Good => mem'[c] = mem[c]
  PROVE  AtWork(c)' /\ Apart(c)' /\ Kept(c)'
<1>1. AtWork(c)' BY DEF SubmitInv, Submitted, AtWork
<1>2. Apart(c)' BY DEF SubmitInv, Submitted, Apart
<1>3. Kept(c)' BY DEF SubmitInv, Submitted, Kept
<1> QED BY <1>1, <1>2, <1>3

\* Cancelling tasks leaves alone those that succeeded.
LEMMA CancelKeeps ==
  ASSUME TypeOK, CancelDispatchedTasks, NEW c \in Component, mem[c] \in Good
  PROVE  mem'[c] = mem[c]
BY DEF CancelDispatchedTasks, Good

LEMMA PassSubmit ==
  ASSUME TasksStart, TypeOK, SubmitInv, AtMostOnce', TypeOK',
         NEW c \in Component, Pass(c), Kind[c] \in TaskKinds
  PROVE  AtWork(c)' /\ Apart(c)' /\ Kept(c)'
<1> USE DEF lists, events, result, tasks, loops, history
<1>0. AtWork(c) /\ Apart(c) /\ Kept(c) /\ c \notin MandatoryMissing
  BY DEF SubmitInv, Submitted, TasksStart
<1>1. UNCHANGED <<disk, mem, exec, succeeded>>
  BY <1>0 DEF Pass, ScanDisabled, ScanNotReady, ScanInputsFail, ScanMandatoryMissing,
              ScanDispatch
<1>2. CASE UNCHANGED <<step, starts>>
  BY <1>1, <1>2, SubmitLocal
<1>3. CASE ScanDispatch(c)
  <2>1. CASE disk[c] = "finished"
    <3>1. step'[c] = "adding" /\ starts'[c] = starts[c]
      BY <1>3, <2>1 DEF ScanDispatch, TypeOK
    <3> QED BY <1>0, <1>1, <3>1 DEF AtWork, Apart, Kept
  <2>2. CASE disk[c] # "finished"
    <3>1. starts'[c] = starts[c] + 1 BY <1>3, <2>2 DEF ScanDispatch, TypeOK
    <3>2. starts[c] = 0
      <4>1. starts'[c] <= 1 BY DEF AtMostOnce
      <4> QED BY <3>1, <4>1 DEF TypeOK
    <3>3. exec[c] = "none" BY <1>0, <3>2 DEF AtWork
    <3>4. /\ step'[c] = IF disk[c] = "stage-out" THEN "launch" ELSE "starting"
      BY <1>3, <2>2 DEF ScanDispatch, Resuming, TypeOK
    <3>5. c \in succeeded => disk[c] = "stage-out" BY <1>0, <2>2, <3>3 DEF Kept, Good
    <3> QED BY <1>0, <1>1, <3>1, <3>2, <3>3, <3>4, <3>5 DEF AtWork, Apart, Kept
  <2> QED BY <2>1, <2>2
<1> QED
  BY <1>0, <1>2, <1>3
  DEF Pass, ScanDisabled, ScanNotReady, ScanInputsFail, ScanMandatoryMissing

LEMMA HandlerSubmit ==
  ASSUME TasksStart, TypeOK, QuietInv, SubmitInv, TypeOK',
         NEW c \in Component, Handler(c), Kind[c] \in TaskKinds
  PROVE  /\ AtWork(c)' /\ Apart(c)' /\ Kept(c)'
         /\ c \in succeeded /\ exec[c] = "none" => exec'[c] \in {"none", "settled"}
         /\ UNCHANGED succeeded
         /\ \A d \in Component \ {c} : mem'[d] = mem[d]
<1> USE DEF lists, events, result, tasks, loops, history, Handling
<1>0. AtWork(c) /\ Apart(c) /\ Kept(c) /\ c \notin MayThrow
  BY DEF SubmitInv, Submitted, TasksStart
<1>1. CASE Skip(c)
  <2>1. UNCHANGED <<disk, tasks, starts, succeeded>> /\ step'[c] = "idle"
    BY <1>1 DEF Skip, EndHandler, TypeOK
  <2> QED BY <1>0, <2>1 DEF AtWork, Apart, Kept
<1>2. CASE Begin(c)
  <2>1. /\ UNCHANGED <<tasks, starts, succeeded>> /\ step[c] = "starting"
        /\ step'[c] = "launch"
    BY <1>2 DEF Begin, TypeOK
  <2>2. c \notin succeeded /\ exec[c] = "none" /\ starts[c] > 0
    BY <1>0, <2>1 DEF AtWork, Apart, Kept
  <2> QED BY <2>1, <2>2 DEF AtWork, Apart, Kept
<1>3. CASE LaunchTask(c)
  <2>1. /\ step[c] = "launch" /\ step'[c] = "launched"
        /\ UNCHANGED <<disk, starts, succeeded>>
        /\ \A d \in Component \ {c} : mem'[d] = mem[d]
        /\ disk[c] = "stage-out" => mem'[c] = "finished" /\ exec'[c] = "settled"
    BY <1>3 DEF LaunchTask, Resuming, TypeOK
  <2>2. starts[c] > 0 /\ (c \in succeeded => disk[c] = "stage-out")
    BY <1>0, <2>1 DEF AtWork, Kept
  <2> QED BY <2>1, <2>2 DEF AtWork, Apart, Kept, Good
<1>4. CASE TaskDispatched(c)
  <2>1. /\ UNCHANGED <<tasks, starts, succeeded>> /\ step'[c] = "idle"
        /\ disk'[c] = mem[c]
    BY <1>4 DEF TaskDispatched, EndHandler, TypeOK
  <2> QED BY <1>0, <2>1 DEF AtWork, Apart, Kept
<1>5. step[c] \notin {"body", "child"} BY <1>0 DEF Apart
<1> QED
  BY <1>0, <1>1, <1>2, <1>3, <1>4, <1>5
  DEF Handler, RunInstant, RunViewer, CheckIf, Jump, ChildSettles, LoopTrip,
      LoopFinalize, TripSettles, HandlerThrows

LEMMA ExecutionSubmit ==
  ASSUME TypeOK, QuietInv, SubmitInv, TypeOK', NEW c \in Component, Execution(c)
  PROVE  /\ Kind[c] \in TaskKinds /\ AtWork(c)' /\ Apart(c)' /\ Kept(c)'
         /\ exec[c] # "none"
         /\ \A d \in Component \ {c} :
              /\ mem'[d] = mem[d] /\ exec'[d] = exec[d]
              /\ (d \in succeeded') <=> (d \in succeeded)
<1> USE DEF lists, events, result, tasks, loops, history
<1>1. /\ exec[c] # "none" /\ UNCHANGED <<step, starts>>
      /\ \A d \in Component \ {c} : /\ mem'[d] = mem[d] /\ exec'[d] = exec[d]
                                    /\ (d \in succeeded') <=> (d \in succeeded)
  <2>1. ASSUME NEW s \in TaskResults, TaskDecided(c, s)
        PROVE  /\ exec[c] # "none" /\ UNCHANGED <<step, starts>>
               /\ \A d \in Component \ {c} : /\ mem'[d] = mem[d] /\ exec'[d] = exec[d]
                                             /\ (d \in succeeded') <=> (d \in succeeded)
    BY <2>1 DEF TaskDecided, TypeOK
  <2>2. CASE StageIn(c) \/ ScriptEnds(c) \/ TaskSettled(c)
    BY <2>2 DEF StageIn, ScriptEnds, TaskSettled, TypeOK
  <2>3. CASE StageOut(c) \/ TaskCompleted(c) \/ \E b \in BOOLEAN : StageOutEnds(c, b)
    BY <2>3 DEF StageOut, TaskCompleted, StageOutEnds, TypeOK
  <2> QED BY <2>1, <2>2, <2>3 DEF Execution
<1>2. Kind[c] \in TaskKinds BY <1>1 DEF QuietInv, TaskOnly
<1>3. AtWork(c) /\ Apart(c) /\ Kept(c) BY <1>2 DEF SubmitInv, Submitted
<1>4. AtWork(c)' /\ Apart(c)' BY <1>1, <1>3 DEF AtWork, Apart
<1>5. Kept(c)'
  <2>1. CASE StageIn(c) \/ ScriptEnds(c)
    <3>1. c \notin succeeded /\ UNCHANGED succeeded
      BY <1>3, <2>1 DEF StageIn, ScriptEnds, Kept
    <3> QED BY <3>1 DEF Kept
  <2>2. ASSUME NEW s \in TaskResults, TaskDecided(c, s) PROVE Kept(c)'
    <3>1. c \notin succeeded BY <1>3, <2>2 DEF TaskDecided, Kept
    <3>2. /\ c \in succeeded' => s = "finished"
          /\ exec'[c] = "decided" /\ mem'[c] = s
      BY <2>2, <3>1 DEF TaskDecided, TypeOK
    <3> QED BY <1>1, <1>3, <3>2 DEF Kept, Good, Apart
  <2>3. CASE TaskSettled(c)
    BY <1>1, <1>3, <2>3 DEF TaskSettled, Kept, Apart, TypeOK
  <2>4. CASE StageOut(c)
    BY <1>3, <2>4 DEF StageOut, Kept, Good, TypeOK
  <2>5. ASSUME NEW b \in BOOLEAN, StageOutEnds(c, b) PROVE Kept(c)'
    BY <1>1, <1>3, <2>5 DEF StageOutEnds, Kept, Good, Apart, TypeOK
  <2>6. CASE TaskCompleted(c)
    BY <1>3, <2>6 DEF TaskCompleted, Kept, TypeOK
  <2> QED BY <2>1, <2>2, <2>3, <2>4, <2>5, <2>6 DEF Execution
<1> QED BY <1>1, <1>2, <1>4, <1>5

LEMMA SubmitNext ==
  ASSUME TasksStart, TypeOK, QuietInv, SubmitInv, AtMostOnce', TypeOK', [Next]_vars
  PROVE  SubmitInv' /\ NotAgain
<1> USE DEF lists, events, result, tasks, loops, history
<1>1. ASSUME NEW c \in Component, Pass(c) PROVE SubmitInv' /\ NotAgain
  <2>1. UNCHANGED <<mem, exec, succeeded>>
    BY <1>1 DEF Pass, ScanDisabled, ScanNotReady, ScanInputsFail, ScanMandatoryMissing,
                ScanDispatch
  <2>2. \A d \in Component \ {c} :
          disk'[d] = disk[d] /\ step'[d] = step[d] /\ starts'[d] = starts[d]
    BY <1>1, ActorLocal
  <2>3. Submitted' BY <1>1, <2>1, <2>2, SubmitLocal, PassSubmit DEF Submitted
  <2> QED BY <2>1, <2>3 DEF SubmitInv, OnlyTasks, NotAgain
<1>2. ASSUME NEW c \in Component, Handler(c) PROVE SubmitInv' /\ NotAgain
  <2>1. \A d \in Component \ {c} : /\ disk'[d] = disk[d] /\ step'[d] = step[d]
                                   /\ exec'[d] = exec[d] /\ starts'[d] = starts[d]
    BY <1>2, ActorLocal
  <2>2. CASE Kind[c] \in TaskKinds
    <3>1. /\ AtWork(c)' /\ Apart(c)' /\ Kept(c)'
          /\ c \in succeeded /\ exec[c] = "none" => exec'[c] \in {"none", "settled"}
          /\ UNCHANGED succeeded
          /\ \A d \in Component \ {c} : mem'[d] = mem[d]
      BY <1>2, <2>2, HandlerSubmit
    <3>2. Submitted' BY <2>1, <3>1, SubmitLocal DEF Submitted
    <3>3. NotAgain BY <2>1, <3>1 DEF NotAgain, TypeOK
    <3> QED BY <3>1, <3>2, <3>3 DEF SubmitInv, OnlyTasks
  <2>3. CASE Kind[c] \notin TaskKinds
    <3>1. step[c] \notin {"launch", "launched"}
      BY <2>3 DEF QuietInv, TaskOnly
    <3>2. UNCHANGED <<exec, succeeded>>
      BY <1>2, <3>1
      DEF Handler, Skip, Begin, LaunchTask, TaskDispatched, RunInstant, RunViewer,
          CheckIf, Jump, ChildSettles, LoopTrip, LoopFinalize, TripSettles,
          HandlerThrows, Handling
    <3>3. \A d \in Component : mem[d] \in Good => mem'[d] = mem[d]
      <4>1. ASSUME NEW b \in BOOLEAN, Jump(c, b)
            PROVE  \A d \in Component : mem[d] \in Good => mem'[d] = mem[d]
        <5>1. CASE Pause(hasFailed, removal # "no")
          BY <5>1, CancelKeeps DEF Pause
        <5> QED BY <4>1, <5>1 DEF Jump
      <4>2. CASE \A b \in BOOLEAN : ~Jump(c, b)
        BY <1>2, <3>1, <4>2
        DEF Handler, Skip, Begin, LaunchTask, TaskDispatched, RunInstant, RunViewer,
            CheckIf, ChildSettles, LoopTrip, LoopFinalize, TripSettles,
            HandlerThrows, Handling
      <4> QED BY <4>1, <4>2
    <3>4. Submitted' BY <2>1, <2>3, <3>2, <3>3, SubmitLocal DEF Submitted
    <3> QED BY <3>2, <3>4 DEF SubmitInv, OnlyTasks, NotAgain
  <2> QED BY <2>2, <2>3
<1>3. ASSUME NEW c \in Component, Execution(c) PROVE SubmitInv' /\ NotAgain
  <2>1. \A d \in Component \ {c} : /\ disk'[d] = disk[d] /\ step'[d] = step[d]
                                   /\ starts'[d] = starts[d]
    BY <1>3, ActorLocal
  <2>2. /\ Kind[c] \in TaskKinds /\ AtWork(c)' /\ Apart(c)' /\ Kept(c)'
        /\ exec[c] # "none"
        /\ \A d \in Component \ {c} :
             /\ mem'[d] = mem[d] /\ exec'[d] = exec[d]
             /\ (d \in succeeded') <=> (d \in succeeded)
    BY <1>3, ExecutionSubmit
  <2>3. Submitted' BY <2>1, <2>2, SubmitLocal DEF Submitted
  <2>4. OnlyTasks' BY <2>2 DEF SubmitInv, OnlyTasks, TypeOK
  <2>5. NotAgain BY <2>2 DEF NotAgain, TypeOK
  <2> QED BY <2>3, <2>4, <2>5 DEF SubmitInv
<1>4. CASE \/ Loop \/ UNCHANGED vars \/ \E c \in Component : BreakArrives(c)
           \/ \E reason \in {"none", "failed"} : Remove(reason)
           \/ Removed
  <2>1. UNCHANGED <<disk, step, exec, starts, succeeded>>
    BY <1>4
    DEF Loop, EmitDispatch, Collect, CheckBlocked, PassError, BreakArrives, Remove,
        Removed, vars
  <2>2. \A d \in Component : mem[d] \in Good => mem'[d] = mem[d]
    <3>1. ASSUME NEW reason \in {"none", "failed"}, Remove(reason)
          PROVE  \A d \in Component : mem[d] \in Good => mem'[d] = mem[d]
      BY <3>1, CancelKeeps DEF Remove, Pause
    <3>2. CASE UNCHANGED mem BY <3>2
    <3> QED
      BY <1>4, <3>1, <3>2
      DEF Loop, EmitDispatch, Collect, CheckBlocked, PassError, BreakArrives, Removed,
          vars
  <2>3. Submitted' BY <2>1, <2>2, SubmitLocal DEF Submitted
  <2> QED BY <2>1, <2>3 DEF SubmitInv, OnlyTasks, NotAgain
<1>5. CASE Continue
  <2>1. /\ UNCHANGED <<disk, mem, step, exec, succeeded>>
        /\ \A c \in Component : step[c] = "idle" /\ exec[c] = "none"
    BY <1>5 DEF Continue, Quiescent
  <2>2. \A c \in Component : Kind[c] \in TaskKinds => AtWork(c)' /\ Apart(c)' /\ Kept(c)'
    BY <2>1 DEF SubmitInv, Submitted, AtWork, Apart, Kept
  <2> QED BY <2>1, <2>2 DEF SubmitInv, Submitted, OnlyTasks, NotAgain
<1> QED BY <1>1, <1>2, <1>3, <1>4, <1>5 DEF Next

\* As long as no task is begun twice in a run, a task whose script succeeded is
\* never submitted again, by this run or by a continuation (NoResubmission).
THEOREM NotResubmitted ==
  ASSUME TasksStart, BreaksNeedNoFile
  PROVE  Spec /\ []AtMostOnce => NoResubmission
<1>1. Init => SubmitInv
  BY DEF Init, SubmitInv, OnlyTasks, Submitted, AtWork, Apart, Kept
<1>2. TypeOK /\ TypeOK' /\ QuietInv /\ SubmitInv /\ AtMostOnce' /\ [Next]_vars
        => SubmitInv' /\ [NotAgain]_vars
  BY SubmitNext
<1>3. [NotAgain]_vars
      <=> [\A c \in succeeded : exec[c] = "none" => exec'[c] \in {"none", "settled"}]_vars
  BY DEF NotAgain
<1> QED
  BY <1>1, <1>2, <1>3, QuietInvariant, TypeCorrect, PTL DEF Spec, NoResubmission

-----------------------------------------------------------------------------
(* Nothing is forgotten.  Whoever a handler has handed over to was begun or *)
(* is in a list that the dispatcher will read, so a dispatcher that         *)
(* concludes has only left out what there was a reason to leave out.        *)

\* What can be drawn: only an "if" has an else side, a source, a storage and a
\* viewer have no control links, and nothing takes a file from a viewer.
Drawn ==
  \A c \in Component :
    /\ Kind[c] # "if" => ElseLinks[c] = {}
    /\ Kind[c] \in {"source", "viewer", "storage"} => NextLinks[c] = {}
    /\ Kind[c] = "viewer" => FileLinks[c] = {}

\* What the code does not start, or drops: a component behind an "if" of the
\* workflow above that takes a file from there and follows nothing here; a loop
\* that only takes a file from there, after its first trip; what takes a file and
\* follows only a disabled "if"; and what follows a component that may fail for
\* want of a mandatory file, which hands over to nobody.
Startable ==
  /\ ParentBehindIf => \A c \in ParentFed : Pred(c) # {}
  /\ \A c \in HollowInput : Kind[c] = "loop" => Pred(c) # {}
  /\ \A c \in Component :
       BehindIfByFile(c) /\ ~(Source(c) \subseteq Disabled) => ~(Previous(c) \subseteq Disabled)
  /\ \A c \in MandatoryMissing : NextLinks[c] = {} /\ ElseLinks[c] = {} /\ FileLinks[c] = {}

AtScript == {"stage-in", "running", "checking"}

\* c was begun, or failed for want of a file.
Touched(c) == disk[c] # "not-started" \/ step[c] # "idle"

\* The file, the memory and the handler of c say the same of it.
Honest(c) ==
  /\ disk[c] # "stage-out" /\ mem[c] # "stage-out" /\ exec[c] \notin {"stage-out", "concluded"}
  /\ step[c] \notin {"idle", "starting"} \/ exec[c] # "none" => disk[c] # "not-started"
  /\ step[c] = "launched" \/ exec[c] # "none" => mem[c] # "not-started"
  /\ mem[c] = "running" => exec[c] \in AtScript
  /\ disk[c] = "running" /\ step[c] = "idle" /\ Kind[c] # "loop" =>
       exec[c] \in AtScript \union {"decided"}
  /\ step[c] = "adding" => disk[c] \in FinishedStates
  /\ step[c] = "child" => Kind[c] = "loop"
  /\ Kind[c] = "if" /\ disk[c] = "finished" => step[c] \in {"idle", "adding"}
  /\ Touched(c) => c \notin Disabled

\* A loop in a list was begun by something, so that it is not dropped from it.
LoopsFed ==
  \A c \in Component :
    Kind[c] = "loop" /\ (searchList[c] > 0 \/ pending[c] > 0 \/ scan[c] > 0 \/ step[c] # "idle")
      => Pred(c) = {} \/ ~(Pred(c) \subseteq Disabled)

Unstarted == firstCall => phase = "idle" /\ \A c \in Component : ~Touched(c)
Going == Awake => outcome = "none"

\* c is in a list that will be read.
Waits(c) ==
  pending[c] > 0 \/ (IF phase = "scanning" THEN scan[c] > 0 ELSE searchList[c] > 0)

\* p has handed over to its successors, with an "if" to those of one side.
Handover(p) == Successors(p, Kind[p] = "if" /\ cond[p] # "true")
Over(p) ==
  disk[p] # "not-started" /\ (step[p] = "idle" \/ (Kind[p] = "if" /\ step[p] = "adding"))

Scanned ==
  phase = "scanning" => \A c \in Component \ Disabled : searchList[c] > 0 => Touched(c) \/ Waits(c)
Roots ==
  ~firstCall => \A c \in Initial \ Disabled :
    Pred(c) = {} => Touched(c) \/ (phase = "scanning" /\ scan[c] > 0)
Called ==
  \A p \in Component \ Disabled : Over(p) =>
    \A c \in Handover(p) \ Disabled : Touched(c) \/ Waits(c)
Rounds ==
  \A c \in Component : Kind[c] = "loop" /\ disk[c] = "running" =>
    /\ step[c] = "idle" => Waits(c)
    /\ step[c] = "child" => pending[c] > 0

Awaited == Awake /\ ~threw => Scanned /\ Roots /\ Called /\ Rounds

DoneWith(c) ==
  \/ disk[c] \in FinishedStates \union {"stage-out"} \/ exec[c] = "decided"
  \/ disk[c] = "not-started" /\ LeftOut(c)

Ran == outcome \in FinishedStates => \A c \in Component \ Disabled : DoneWith(c)

AllHonest == \A c \in Component : Honest(c)
Running == AllHonest /\ LoopsFed /\ Unstarted /\ Going /\ ThrowEnds /\ Awaited /\ Ran
WholeInv == Undisturbed => Running

\* Only what depends on disabled components alone is dropped from a list.
LEMMA DroppedIs ==
  ASSUME NEW c \in DisabledDependency
  PROVE  Pred(c) \subseteq Disabled /\ (Pred(c) # {} \/ c \in HollowInput)
<1> DEFINE S == {d \in Component : Pred(d) \subseteq Disabled /\ (Pred(d) # {} \/ d \in HollowInput)}
<1>1. \A d \in Component :
        /\ Previous(d) # {} \/ Source(d) # {} \/ d \in HollowInput
        /\ \A p \in Pred(d) : p \in Disabled /\ p \in S
        => d \in S
  BY DEF Pred
<1>2. S \in SUBSET Component OBVIOUS
<1>3. c \in S
  <2> HIDE DEF S
  <2> QED BY <1>1, <1>2 DEF DisabledDependency
<1> QED BY <1>3

\* What follows nothing is not behind an "if".
LEMMA BehindIs ==
  ASSUME Startable, NEW c \in BehindIf
  PROVE  Pred(c) # {}
<1> DEFINE S == {d \in Component : Pred(d) # {}}
<1>1. \A d \in Component :
        \/ \E p \in Pred(d) : Kind[p] = "if" \/ p \in S
        \/ d \in ParentFed /\ ParentBehindIf
        => d \in S
  BY DEF Startable
<1>2. S \in SUBSET Component OBVIOUS
<1>3. c \in S
  <2> HIDE DEF S
  <2> QED BY <1>1, <1>2 DEF BehindIf
<1> QED BY <1>3

\* Those to whom p hands over follow p.
LEMMA HandoverIs ==
  ASSUME NEW p \in Component, NEW useElse \in BOOLEAN, NEW c \in Successors(p, useElse)
  PROVE  c \in Component /\ p \in Pred(c)
BY LinkAssumption DEF Successors, Pred, Previous, Source

\* A step of one component's handler or execution changes the memory of its task
\* only, unless a break jumps.
LEMMA MemLocal ==
  ASSUME TypeOK, Undisturbed', NEW c \in Component, Pass(c) \/ Handler(c) \/ Execution(c)
  PROVE  \A d \in Component : d # c => mem'[d] = mem[d]
<1> USE DEF tasks
<1>a. /\ disk \in [Component -> States] /\ mem \in [Component -> States]
      /\ step \in [Component -> Steps] /\ exec \in [Component -> Execs]
  BY DEF TypeOK
<1> USE <1>a
<1>1. ASSUME NEW b \in BOOLEAN, Jump(c, b) PROVE mem' = mem
  <2>1. ~b
    <3>1. Kind[c] \in {"break", "continue"} BY <1>1 DEF Jump
    <3>2. cond'[c] # "true" BY <3>1 DEF Undisturbed, Jumped
    <3>3. cond'[c] = IF b THEN "true" ELSE "false" BY <1>1 DEF Jump, TypeOK
    <3> QED BY <3>2, <3>3
  <2> QED BY <1>1, <2>1 DEF Jump
<1>2. CASE Pass(c)
  BY <1>2 DEF Pass, ScanDisabled, ScanNotReady, ScanInputsFail, ScanMandatoryMissing,
              ScanDispatch
<1>3. CASE Handler(c)
  <2>1. CASE LaunchTask(c) BY <2>1 DEF LaunchTask
  <2>2. CASE ~LaunchTask(c)
    <3>1. mem' = mem
      BY <1>1, <1>3, <2>2
      DEF Handler, Skip, Begin, TaskDispatched, RunInstant, RunViewer, CheckIf,
          ChildSettles, LoopTrip, LoopFinalize, TripSettles, HandlerThrows
    <3> QED BY <3>1
  <2> QED BY <2>1, <2>2
<1>4. CASE Execution(c)
  BY <1>4 DEF Execution, StageIn, ScriptEnds, TaskDecided, TaskSettled, StageOut,
              StageOutEnds, TaskCompleted
<1> QED BY <1>2, <1>3, <1>4

LEMMA HonestPass ==
  ASSUME TypeOK, TypeOK', NEW c \in Component, Honest(c), Pass(c)
  PROVE  Honest(c)'
<1> USE DEF tasks, events, result, loops, history
<1>a. /\ disk \in [Component -> States] /\ mem \in [Component -> States]
      /\ step \in [Component -> Steps] /\ exec \in [Component -> Execs]
  BY DEF TypeOK
<1> USE <1>a
<1>1. CASE ScanDisabled(c) \/ ScanNotReady(c) \/ ScanInputsFail(c)
  <2>1. UNCHANGED <<disk, mem, step, exec>>
    BY <1>1 DEF ScanDisabled, ScanNotReady, ScanInputsFail
  <2> QED BY <2>1 DEF Honest, Touched
<1>2. CASE ScanMandatoryMissing(c)
  <2>1. disk'[c] = "failed" /\ UNCHANGED <<mem, step, exec>> /\ c \notin Disabled
    BY <1>2 DEF ScanMandatoryMissing
  <2> QED BY <2>1 DEF Honest, Touched, FinishedStates
<1>3. CASE ScanDispatch(c)
  <2>1. /\ UNCHANGED <<mem, disk, exec>> /\ c \notin Disabled
        /\ step'[c] = IF disk[c] = "finished" THEN "adding" ELSE "starting"
    BY <1>3 DEF ScanDispatch, Resuming, Honest
  <2> QED BY <2>1 DEF Honest, Touched, FinishedStates
<1> QED BY <1>1, <1>2, <1>3 DEF Pass

\* The end of a handler that has written the result of its component.
LEMMA HonestEnd ==
  ASSUME NEW c \in Component, Honest(c), step[c] # "idle", UNCHANGED <<mem, exec>>,
         disk'[c] \in FinishedStates, step'[c] = "idle"
  PROVE  Honest(c)'
<1>1. c \notin Disabled BY DEF Honest, Touched
<1> QED BY <1>1 DEF Honest, Touched, FinishedStates

LEMMA HonestHandler ==
  ASSUME Remote = {}, TypeOK, TypeOK', QuietInv, Undisturbed', NEW c \in Component, Honest(c),
         Handler(c)
  PROVE  Honest(c)'
<1> USE DEF tasks, events, result, loops, history, Handling
<1>a. /\ disk \in [Component -> States] /\ mem \in [Component -> States]
      /\ step \in [Component -> Steps] /\ exec \in [Component -> Execs]
      /\ cond \in [Component -> {"none", "true", "false"}]
  BY DEF TypeOK
<1> USE <1>a
<1>1. CASE Skip(c)
  <2>1. step[c] = "adding" /\ step'[c] = "idle" /\ UNCHANGED <<disk, mem, exec>>
    BY <1>1 DEF Skip, EndHandler
  <2>2. disk'[c] \in FinishedStates BY <2>1 DEF Honest
  <2> QED BY <2>1, <2>2, HonestEnd
<1>2. CASE Begin(c)
  <2>1. /\ step[c] = "starting" /\ step'[c] \in {"launch", "body"} /\ disk'[c] = "running"
        /\ UNCHANGED <<mem, exec>>
    BY <1>2 DEF Begin
  <2> QED BY <2>1 DEF Honest, Touched
<1>3. CASE LaunchTask(c)
  <2>1. ~Resuming(c) BY DEF Resuming, Honest
  <2>2. /\ step[c] = "launch" /\ step'[c] = "launched" /\ UNCHANGED disk
        /\ mem'[c] = "running" /\ exec'[c] = "running"
    BY <1>3, <2>1 DEF LaunchTask
  <2>3. Kind[c] \in TaskKinds BY <2>2 DEF QuietInv, TaskOnly
  <2> QED BY <2>2, <2>3 DEF Honest, Touched, AtScript, TaskKinds
<1>4. CASE TaskDispatched(c)
  <2>1. /\ step[c] = "launched" /\ step'[c] = "idle" /\ disk'[c] = mem[c]
        /\ UNCHANGED <<mem, exec>>
    BY <1>4 DEF TaskDispatched, EndHandler
  <2>2. c \notin Disabled /\ mem[c] # "not-started" BY <2>1 DEF Honest, Touched
  <2> QED BY <2>1, <2>2 DEF Honest, Touched, AtScript
<1>5. CASE RunInstant(c) \/ RunViewer(c)
  <2>1. /\ step[c] = "body" /\ step'[c] = "idle" /\ disk'[c] = "finished"
        /\ UNCHANGED <<mem, exec>>
    BY <1>5 DEF RunInstant, RunViewer, EndHandler
  <2> QED BY <2>1, HonestEnd DEF FinishedStates
<1>6. ASSUME NEW b \in BOOLEAN, CheckIf(c, b) PROVE Honest(c)'
  BY <1>6, HonestEnd DEF CheckIf, EndHandler, FinishedStates
<1>7. ASSUME NEW b \in BOOLEAN, Jump(c, b) PROVE Honest(c)'
  <2>1. ~b
    <3>1. cond'[c] # "true" BY <1>7 DEF Undisturbed, Jumped, Jump
    <3> QED BY <1>7, <3>1 DEF Jump
  <2> QED BY <1>7, <2>1, HonestEnd DEF Jump, FinishedStates
<1>8. ASSUME NEW s \in ChildResults, ChildSettles(c, s) PROVE Honest(c)'
  BY <1>8, HonestEnd, ResultAssumption DEF ChildSettles, EndDelegation
<1>9. CASE LoopTrip(c)
  <2>1. /\ step[c] = "body" /\ step'[c] = "child" /\ Kind[c] = "loop"
        /\ UNCHANGED <<disk, mem, exec>>
    BY <1>9 DEF LoopTrip
  <2> QED BY <2>1 DEF Honest, Touched
<1>10. CASE LoopFinalize(c)
  BY <1>10, HonestEnd DEF LoopFinalize, EndHandler, FinishedStates
<1>11. ASSUME NEW s \in ChildResults, NEW b \in BOOLEAN, TripSettles(c, s, b)
       PROVE  Honest(c)'
  <2>1. step[c] = "child" /\ step'[c] = "idle" /\ UNCHANGED <<disk, mem, exec>>
    BY <1>11 DEF TripSettles, EndDelegation
  <2> QED BY <2>1 DEF Honest, Touched
<1>12. CASE HandlerThrows(c)
  <2>1. /\ step[c] # "idle" /\ disk'[c] = "failed" /\ UNCHANGED <<mem, exec>>
        /\ EndHandler(c) \/ EndDelegation(c)
    BY <1>12 DEF HandlerThrows
  <2>2. step'[c] = "idle" BY <2>1 DEF EndHandler, EndDelegation
  <2> QED BY <2>1, <2>2, HonestEnd DEF FinishedStates
<1> QED
  BY <1>1, <1>2, <1>3, <1>4, <1>5, <1>6, <1>7, <1>8, <1>9, <1>10, <1>11, <1>12 DEF Handler

\* A task's file is written when its execution has a result.
LEMMA HonestExecution ==
  ASSUME Remote = {}, TypeOK, TypeOK', QuietInv, NEW c \in Component, Honest(c), Execution(c)
  PROVE  /\ Honest(c)'
         /\ disk[c] # "not-started" /\ disk'[c] # "not-started" /\ Kind[c] # "loop"
         /\ UNCHANGED <<step, cond, lists, phase, firstCall, threw>>
<1> USE DEF tasks, events, result, lists, loops, history
<1>a. /\ disk \in [Component -> States] /\ mem \in [Component -> States]
      /\ step \in [Component -> Steps] /\ exec \in [Component -> Execs]
  BY DEF TypeOK
<1> USE <1>a
<1>0. exec[c] # "none"
  BY DEF Execution, StageIn, ScriptEnds, TaskDecided, TaskSettled, StageOut,
         StageOutEnds, TaskCompleted
<1>1. /\ disk[c] # "not-started" /\ mem[c] # "not-started" /\ c \notin Disabled
      /\ Kind[c] \in TaskKinds
  BY <1>0 DEF Honest, Touched, QuietInv, TaskOnly
<1>2. Kind[c] # "loop" BY <1>1 DEF TaskKinds
<1>3. UNCHANGED <<step, cond, lists, phase, firstCall, threw>>
  BY DEF Execution, StageIn, ScriptEnds, TaskDecided, TaskSettled, StageOut,
         StageOutEnds, TaskCompleted
<1>4. Honest(c)' /\ disk'[c] # "not-started"
  <2>1. CASE StageIn(c)
    BY <1>1, <1>3, <2>1 DEF StageIn, Honest, Touched, AtScript
  <2>2. CASE ScriptEnds(c)
    BY <1>1, <1>3, <2>2 DEF ScriptEnds, Honest, Touched, AtScript
  <2>3. ASSUME NEW s \in TaskResults, TaskDecided(c, s)
        PROVE  Honest(c)' /\ disk'[c] # "not-started"
    <3>1. s \in FinishedStates BY ResultAssumption
    <3>2. UNCHANGED disk /\ mem'[c] = s /\ exec'[c] = "decided" BY <2>3 DEF TaskDecided
    <3> QED BY <1>1, <1>3, <3>1, <3>2 DEF Honest, Touched, FinishedStates
  <2>4. CASE TaskSettled(c)
    <3>1. exec[c] = "decided" /\ exec'[c] = "settled" /\ disk'[c] = mem[c] /\ UNCHANGED mem
      BY <2>4 DEF TaskSettled
    <3>2. mem[c] \in FinishedStates
      BY <1>1, <3>1 DEF Honest, AtScript, States
    <3> QED BY <1>1, <1>3, <3>1, <3>2 DEF Honest, Touched, FinishedStates, TaskKinds
  <2>5. CASE StageOut(c) BY <2>5 DEF StageOut
  <2>6. ASSUME NEW b \in BOOLEAN, StageOutEnds(c, b)
        PROVE  Honest(c)' /\ disk'[c] # "not-started"
    BY <2>6 DEF StageOutEnds, Honest
  <2>7. CASE TaskCompleted(c)
    <3>1. exec[c] = "settled" /\ exec'[c] = "none" /\ UNCHANGED <<disk, mem>>
      BY <2>7 DEF TaskCompleted, Honest
    <3> QED BY <1>1, <1>3, <3>1 DEF Honest, Touched, AtScript
  <2> QED BY <2>1, <2>2, <2>3, <2>4, <2>5, <2>6, <2>7 DEF Execution
<1> QED BY <1>1, <1>2, <1>3, <1>4

\* What the handler of c puts into the lists when it ends, if it does.
Effect(c) ==
  \/ threw'
  \/ step'[c] \notin {"idle", "adding", "child"} /\ pending' = pending
  \/ Kind[c] = "loop" /\ step'[c] = "child" /\ pending' = AddTo(pending, {c})
  \/ /\ Kind[c] # "if" /\ step'[c] = "idle"
     /\ pending' = AddTo(pending, NextComponents(c, FALSE))
     /\ Kind[c] = "loop" /\ disk'[c] = "running" => step[c] = "child" /\ disk[c] = "running"
  \/ Kind[c] = "if" /\ step[c] = "adding" /\ step'[c] = "idle" /\ UNCHANGED <<disk, cond>>
  \/ /\ Kind[c] = "if" /\ step'[c] = "idle"
     /\ pending' = AddTo(pending, NextComponents(c, cond'[c] # "true"))
  \/ Kind[c] = "viewer" /\ step'[c] = "idle" /\ pending' = pending

Grows(c) ==
  \/ pending' = pending
  \/ pending' = AddTo(pending, {c})
  \/ \E u \in BOOLEAN : pending' = AddTo(pending, NextComponents(c, u))

LEMMA HandlerEffect ==
  ASSUME TypeOK, TypeOK', QuietInv, Undisturbed', NEW c \in Component, Honest(c),
         Handler(c)
  PROVE  /\ UNCHANGED <<searchList, scan, phase, firstCall, listener, outcome>>
         /\ step[c] # "idle" /\ (threw' = threw \/ threw')
         /\ Grows(c)
         /\ Effect(c)
<1> USE DEF lists, events, result, tasks, loops, history, Handling, unchangedByHandler
<1>a. /\ disk \in [Component -> States] /\ mem \in [Component -> States]
      /\ step \in [Component -> Steps] /\ exec \in [Component -> Execs]
      /\ searchList \in [Component -> Nat] /\ pending \in [Component -> Nat]
      /\ scan \in [Component -> Nat]
      /\ cond \in [Component -> {"none", "true", "false"}]
  BY DEF TypeOK
<1> USE <1>a
<1>1. CASE Skip(c)
  <2>1. /\ step[c] = "adding" /\ step'[c] = "idle" /\ UNCHANGED <<disk, cond>>
        /\ pending' = AddTo(pending, NextComponents(c, FALSE))
    BY <1>1 DEF Skip, EndHandler
  <2>2. UNCHANGED <<searchList, scan, phase, firstCall, listener, outcome, threw>>
    BY <1>1 DEF Skip, EndHandler, ReserveDispatch
  <2>3. disk[c] # "running" BY <2>1 DEF Honest, FinishedStates
  <2>4. Effect(c) BY <2>1, <2>3 DEF Effect
  <2> QED BY <2>1, <2>2, <2>4 DEF Grows
<1>2. CASE Begin(c) \/ LaunchTask(c)
  <2>1. /\ step[c] # "idle" /\ step'[c] \in {"launch", "body", "launched"}
        /\ UNCHANGED <<searchList, scan, phase, firstCall, listener, outcome, threw, pending>>
    BY <1>2 DEF Begin, LaunchTask
  <2>2. Effect(c) BY <2>1 DEF Effect
  <2> QED BY <2>1, <2>2 DEF Grows
<1>3. CASE TaskDispatched(c)
  <2>1. /\ step[c] = "launched" /\ step'[c] = "idle"
        /\ pending' = AddTo(pending, NextComponents(c, FALSE))
    BY <1>3 DEF TaskDispatched, EndHandler
  <2>2. UNCHANGED <<searchList, scan, phase, firstCall, listener, outcome, threw>>
    BY <1>3 DEF TaskDispatched, EndHandler, ReserveDispatch
  <2>3. Kind[c] \notin {"if", "loop"} BY <2>1 DEF QuietInv, TaskOnly, TaskKinds
  <2>4. Effect(c) BY <2>1, <2>3 DEF Effect
  <2> QED BY <2>1, <2>2, <2>4 DEF Grows
<1>4. CASE RunInstant(c)
  <2>1. /\ step[c] = "body" /\ step'[c] = "idle" /\ Kind[c] \in {"source", "storage"}
        /\ pending' = AddTo(pending, NextComponents(c, FALSE))
    BY <1>4 DEF RunInstant, EndHandler
  <2>2. UNCHANGED <<searchList, scan, phase, firstCall, listener, outcome, threw>>
    BY <1>4 DEF RunInstant, EndHandler, ReserveDispatch
  <2>4. Effect(c) BY <2>1 DEF Effect
  <2> QED BY <2>1, <2>2, <2>4 DEF Grows
<1>5. CASE RunViewer(c)
  <2>1. step[c] = "body" /\ step'[c] = "idle" /\ Kind[c] = "viewer" /\ pending' = pending
    BY <1>5 DEF RunViewer, EndHandler
  <2>2. UNCHANGED <<searchList, scan, phase, firstCall, listener, outcome, threw>>
    BY <1>5 DEF RunViewer, EndHandler, ReserveDispatch
  <2>4. Effect(c) BY <2>1 DEF Effect
  <2> QED BY <2>1, <2>2, <2>4 DEF Grows
<1>6. ASSUME NEW b \in BOOLEAN, CheckIf(c, b)
      PROVE  /\ UNCHANGED <<searchList, scan, phase, firstCall, listener, outcome>>
             /\ step[c] # "idle" /\ (threw' = threw \/ threw')
             /\ Grows(c)
             /\ Effect(c)
  <2>1. /\ step[c] = "body" /\ step'[c] = "idle" /\ Kind[c] = "if"
        /\ pending' = AddTo(pending, NextComponents(c, ~b))
        /\ cond'[c] = (IF b THEN "true" ELSE "false")
    BY <1>6 DEF CheckIf, EndHandler
  <2>2. UNCHANGED <<searchList, scan, phase, firstCall, listener, outcome, threw>>
    BY <1>6 DEF CheckIf, EndHandler, ReserveDispatch
  <2>3. (cond'[c] # "true") = ~b BY <2>1
  <2>4. pending' = AddTo(pending, NextComponents(c, cond'[c] # "true")) BY <2>1, <2>3
  <2>5. Effect(c) BY <2>1, <2>4 DEF Effect
  <2> QED BY <2>1, <2>2, <2>5 DEF Grows
<1>7. ASSUME NEW b \in BOOLEAN, Jump(c, b)
      PROVE  /\ UNCHANGED <<searchList, scan, phase, firstCall, listener, outcome>>
             /\ step[c] # "idle" /\ (threw' = threw \/ threw')
             /\ Grows(c)
             /\ Effect(c)
  <2>1. b = FALSE
    <3>1. cond'[c] # "true" BY <1>7 DEF Undisturbed, Jumped, Jump
    <3> QED BY <1>7, <3>1 DEF Jump
  <2>2. /\ step[c] = "body" /\ step'[c] = "idle" /\ Kind[c] \in {"break", "continue"}
        /\ pending' = AddTo(pending, NextComponents(c, FALSE))
    BY <1>7, <2>1 DEF Jump
  <2>3. UNCHANGED <<searchList, scan, phase, firstCall, listener, outcome, threw>>
    <3>1. UNCHANGED <<searchList, scan, phase, firstCall, outcome, threw>>
      BY <1>7, <2>1 DEF Jump
    <3>2. listener' = (listener /\ ~(b /\ Kind[c] = "break")) BY <1>7 DEF Jump
    <3>3. listener \in BOOLEAN BY DEF TypeOK
    <3> QED BY <2>1, <3>1, <3>2, <3>3
  <2>4. Effect(c) BY <2>2 DEF Effect
  <2>5. Grows(c) BY <2>2 DEF Grows
  <2> QED BY <2>2, <2>3, <2>4, <2>5
<1>8. ASSUME NEW s \in ChildResults, ChildSettles(c, s)
      PROVE  /\ UNCHANGED <<searchList, scan, phase, firstCall, listener, outcome>>
             /\ step[c] # "idle" /\ (threw' = threw \/ threw')
             /\ Grows(c)
             /\ Effect(c)
  <2>1. /\ step[c] = "body" /\ step'[c] = "idle" /\ Kind[c] = "delegate"
        /\ pending' = AddTo(pending, NextComponents(c, FALSE))
    BY <1>8 DEF ChildSettles, EndDelegation
  <2>2. UNCHANGED <<searchList, scan, phase, firstCall, listener, outcome, threw>>
    BY <1>8 DEF ChildSettles, EndDelegation
  <2>4. Effect(c) BY <2>1 DEF Effect
  <2> QED BY <2>1, <2>2, <2>4 DEF Grows
<1>9. CASE LoopTrip(c)
  <2>1. /\ step[c] = "body" /\ step'[c] = "child" /\ Kind[c] = "loop"
        /\ pending' = AddTo(pending, {c})
        /\ UNCHANGED <<searchList, scan, phase, firstCall, listener, outcome, threw>>
    BY <1>9 DEF LoopTrip
  <2>2. Effect(c) BY <2>1 DEF Effect
  <2> QED BY <2>1, <2>2 DEF Grows
<1>10. CASE LoopFinalize(c)
  <2>1. /\ step[c] = "body" /\ step'[c] = "idle" /\ Kind[c] = "loop"
        /\ disk'[c] # "running"
        /\ pending' = AddTo(pending, NextComponents(c, FALSE))
    BY <1>10 DEF LoopFinalize, EndHandler
  <2>2. UNCHANGED <<searchList, scan, phase, firstCall, listener, outcome, threw>>
    BY <1>10 DEF LoopFinalize, EndHandler, ReserveDispatch
  <2>4. Effect(c) BY <2>1 DEF Effect
  <2> QED BY <2>1, <2>2, <2>4 DEF Grows
<1>11. ASSUME NEW s \in ChildResults, NEW b \in BOOLEAN, TripSettles(c, s, b)
       PROVE  /\ UNCHANGED <<searchList, scan, phase, firstCall, listener, outcome>>
              /\ step[c] # "idle" /\ (threw' = threw \/ threw')
              /\ Grows(c)
              /\ Effect(c)
  <2>1. /\ step[c] = "child" /\ step'[c] = "idle" /\ UNCHANGED disk
        /\ pending' = AddTo(pending, NextComponents(c, FALSE))
    BY <1>11 DEF TripSettles, EndDelegation
  <2>2. UNCHANGED <<searchList, scan, phase, firstCall, listener, outcome, threw>>
    BY <1>11 DEF TripSettles, EndDelegation
  <2>3. Kind[c] = "loop" BY <2>1 DEF Honest
  <2>4. Effect(c) BY <2>1, <2>3 DEF Effect
  <2> QED BY <2>1, <2>2, <2>4 DEF Grows
<1>12. CASE HandlerThrows(c)
  <2>1. threw' /\ step[c] # "idle" BY <1>12 DEF HandlerThrows
  <2>2. UNCHANGED <<searchList, scan, phase, firstCall, listener, outcome>>
    BY <1>12 DEF HandlerThrows, EndHandler, EndDelegation, ReserveDispatch
  <2>3. pending' \in {pending, AddTo(pending, NextComponents(c, FALSE))}
    BY <1>12 DEF HandlerThrows, EndDelegation
  <2>4. Effect(c) BY <2>1 DEF Effect
  <2> QED BY <2>1, <2>2, <2>3, <2>4 DEF Grows
<1> QED
  BY <1>1, <1>2, <1>3, <1>4, <1>5, <1>6, <1>7, <1>8, <1>9, <1>10, <1>11, <1>12 DEF Handler

\* A step of c that keeps its place in the lists, or has begun it, and after which
\* those it has handed over to are in one.
LEMMA AwaitedKept ==
  ASSUME TypeOK, TypeOK', NEW c \in Component, Awaited,
         UNCHANGED <<searchList, phase, listener, firstCall>>, ~threw' => ~threw,
         \A d \in Component : d # c =>
           disk'[d] = disk[d] /\ step'[d] = step[d] /\ cond'[d] = cond[d] /\ scan'[d] = scan[d],
         \A d \in Component : pending[d] > 0 => pending'[d] > 0,
         Touched(c) => Touched(c)',
         \/ scan'[c] = scan[c] \/ c \in Disabled \/ Touched(c)'
         \/ pending'[c] > 0 /\ Pred(c) # {},
         Kind[c] = "loop" /\ disk'[c] = "running" =>
           /\ step'[c] = "idle" =>
                pending'[c] > 0 \/ (step[c] = "idle" /\ disk[c] = "running" /\ scan'[c] = scan[c])
           /\ step'[c] = "child" =>
                pending'[c] > 0 \/ (step[c] = "child" /\ disk[c] = "running"),
         \/ ~Over(c)'
         \/ Over(c) /\ Handover(c)' = Handover(c)
         \/ phase = "scanning" /\ \A d \in Handover(c)' : searchList[d] > 0 \/ pending'[d] > 0
  PROVE  Awaited'
<1> SUFFICES ASSUME Awake', ~threw' PROVE Scanned' /\ Roots' /\ Called' /\ Rounds'
  BY DEF Awaited
<1>1. Scanned /\ Roots /\ Called /\ Rounds BY DEF Awaited, Awake
<1>2. \A d \in Component : Touched(d) => Touched(d)' BY DEF Touched
<1>3. \A d \in Component \ Disabled : Touched(d) \/ Waits(d) => Touched(d)' \/ Waits(d)'
  BY <1>2 DEF Waits
<1>4. Scanned'
  BY <1>1, <1>3 DEF Scanned
<1>5. Roots'
  <2> SUFFICES ASSUME ~firstCall, NEW d \in Initial \ Disabled, Pred(d) = {}
               PROVE  Touched(d)' \/ (phase = "scanning" /\ scan'[d] > 0)
    BY DEF Roots, Initial, BehindIf, Pred, Previous, Source
  <2>1. d \in Component BY DEF Initial
  <2>2. Touched(d) \/ (phase = "scanning" /\ scan[d] > 0) BY <1>1 DEF Roots
  <2> QED BY <1>2, <2>1, <2>2
<1>6. Called'
  <2> SUFFICES ASSUME NEW p \in Component \ Disabled, Over(p)', NEW d \in Handover(p)' \ Disabled
               PROVE  Touched(d)' \/ Waits(d)'
    BY DEF Called
  <2>1. d \in Component
    BY HandoverIs DEF Handover
  <2>2. CASE Over(p) /\ Handover(p)' = Handover(p)
    <3>1. Touched(d) \/ Waits(d) BY <1>1, <2>2 DEF Called
    <3> QED BY <1>3, <2>1, <3>1
  <2>3. CASE p # c
    <3>1. Over(p) /\ Handover(p)' = Handover(p)
      BY <2>3 DEF Over, Handover, Successors, BehindIfByFile, Previous
    <3> QED BY <2>2, <3>1
  <2>4. CASE p = c /\ phase = "scanning" /\ (searchList[d] > 0 \/ pending'[d] > 0)
    <3>1. CASE pending'[d] > 0 BY <3>1 DEF Waits
    <3>2. CASE searchList[d] > 0
      <4>1. Touched(d) \/ Waits(d) BY <1>1, <2>1, <2>4, <3>2 DEF Scanned
      <4> QED BY <1>3, <2>1, <4>1
    <3> QED BY <2>4, <3>1, <3>2
  <2> QED BY <2>2, <2>3, <2>4
<1>7. Rounds'
  <2> SUFFICES ASSUME NEW d \in Component, Kind[d] = "loop", disk'[d] = "running"
               PROVE  /\ step'[d] = "idle" => Waits(d)'
                      /\ step'[d] = "child" => pending'[d] > 0
    BY DEF Rounds
  <2>1. CASE disk[d] = "running" /\ step[d] = "idle" /\ step'[d] = "idle" /\ scan'[d] = scan[d]
    <3>1. Waits(d) BY <1>1, <2>1 DEF Rounds
    <3> QED BY <2>1, <3>1 DEF Waits
  <2>2. CASE disk[d] = "running" /\ step[d] = "child" /\ step'[d] = "child"
    BY <1>1, <2>2 DEF Rounds
  <2>3. CASE pending'[d] > 0 BY <2>3 DEF Waits
  <2> QED BY <2>1, <2>2, <2>3
<1> QED BY <1>4, <1>5, <1>6, <1>7

LEMMA AwaitedPass ==
  ASSUME Startable, TypeOK, TypeOK', Scheduling, Going, AllHonest, Awaited,
         NEW c \in Component, Pass(c)
  PROVE  Awaited'
<1> SUFFICES ASSUME Awake', ~threw' PROVE Awaited'
  BY DEF Awaited
<1> USE DEF lists, events, result, tasks, loops, history
<1>a. /\ disk \in [Component -> States] /\ mem \in [Component -> States]
      /\ step \in [Component -> Steps] /\ exec \in [Component -> Execs]
      /\ searchList \in [Component -> Nat] /\ pending \in [Component -> Nat]
      /\ scan \in [Component -> Nat]
      /\ cond \in [Component -> {"none", "true", "false"}]
  BY DEF TypeOK
<1> USE <1>a
<1>1. /\ phase = "scanning" /\ scan[c] > 0
      /\ UNCHANGED <<searchList, listener, firstCall, threw, cond>>
  BY DEF Pass, Scan, ScanDisabled, ScanNotReady, ScanInputsFail, ScanMandatoryMissing,
         ScanDispatch
<1>2. \A d \in Component : d # c =>
        disk'[d] = disk[d] /\ step'[d] = step[d] /\ cond'[d] = cond[d]
  BY ActorLocal
<1>3. Touched(c) => c \notin Disabled BY DEF AllHonest, Honest
<1>4. Handover(c)' = Handover(c)
  BY <1>1 DEF Handover, Successors, BehindIfByFile, Previous
<1>5. CASE ScanDisabled(c)
  <2>1. /\ UNCHANGED <<phase, pending, disk, step>> /\ c \in Disabled
        /\ \A d \in Component : d # c => scan'[d] = scan[d]
    BY <1>5 DEF ScanDisabled, Scan
  <2>2. ~Touched(c) BY <1>3, <2>1
  <2>3. disk'[c] # "running" /\ ~Over(c)' BY <2>1, <2>2 DEF Touched, Over
  <2> QED BY <1>1, <1>2, <2>1, <2>2, <2>3, AwaitedKept DEF Touched
<1>6. CASE ScanNotReady(c)
  <2>1. /\ UNCHANGED <<phase, disk, step>> /\ ~Ready(c)
        /\ pending' = AddTo(pending, {c})
        /\ \A d \in Component : d # c => scan'[d] = scan[d]
    BY <1>6 DEF ScanNotReady, Scan
  <2>2. pending'[c] > 0 /\ \A d \in Component : pending[d] > 0 => pending'[d] > 0
    <3>1. pending \in [Component -> Nat] BY DEF TypeOK
    <3>2. \A d \in Component : pending'[d] = IF d \in {c} THEN pending[d] + 1 ELSE pending[d]
      BY <2>1, Zenon DEF AddTo
    <3> HIDE DEF TypeOK
    <3> QED BY <3>1, <3>2
  <2>3. Pred(c) # {} BY <2>1 DEF Ready, Pred
  <2>4. Over(c)' => Over(c) BY <2>1 DEF Over
  <2> QED BY <1>1, <1>2, <1>4, <2>1, <2>2, <2>3, <2>4, AwaitedKept DEF Touched
<1>7. CASE ScanInputsFail(c)
  <2>1. ~Awake' BY <1>1, <1>7 DEF ScanInputsFail, Awake, Scheduling
  <2> QED BY <2>1
<1>8. CASE ScanMandatoryMissing(c)
  <2>1. /\ UNCHANGED <<phase, pending, step>> /\ c \in MandatoryMissing /\ disk'[c] = "failed"
        /\ \A d \in Component : d # c => scan'[d] = scan[d]
    BY <1>8 DEF ScanMandatoryMissing, Scan
  <2>2. Handover(c)' = {}
    BY <2>1 DEF Startable, Handover, Successors
  <2>3. Touched(c)' BY <2>1 DEF Touched
  <2> QED BY <1>1, <1>2, <2>1, <2>2, <2>3, AwaitedKept
<1>9. CASE ScanDispatch(c)
  <2>1. /\ UNCHANGED <<phase, pending, disk>> /\ disk[c] # "stage-out"
        /\ step'[c] = IF disk[c] = "finished" THEN "adding" ELSE "starting"
        /\ \A d \in Component : d # c => scan'[d] = scan[d]
    BY <1>9 DEF ScanDispatch, Scan, Resuming, AllHonest, Honest
  <2>2. Over(c)' => Over(c)
    BY <2>1 DEF Over, AllHonest, Honest
  <2>3. Touched(c)' BY <2>1 DEF Touched
  <2> QED BY <1>1, <1>2, <1>4, <2>1, <2>2, <2>3, AwaitedKept
<1> QED BY <1>5, <1>6, <1>7, <1>8, <1>9 DEF Pass

LEMMA AwaitedHandler ==
  ASSUME Drawn, TypeOK, TypeOK', QuietInv, Undisturbed', Scheduling, Going, AllHonest, Awaited,
         NEW c \in Component, Handler(c), Honest(c)'
  PROVE  Awaited'
<1> SUFFICES ASSUME Awake', ~threw' PROVE Awaited'
  BY DEF Awaited
<1>1. /\ UNCHANGED <<searchList, scan, phase, firstCall, listener, outcome>>
      /\ step[c] # "idle" /\ (threw' = threw \/ threw') /\ Effect(c)
      /\ Grows(c)
  BY HandlerEffect DEF AllHonest
<1>2. phase = "scanning"
  <2>1. outcome = "none" BY <1>1 DEF Going, Awake
  <2> QED BY <1>1, <2>1 DEF Scheduling, HandlerActive
<1>3. \A d \in Component : d # c =>
        disk'[d] = disk[d] /\ step'[d] = step[d] /\ cond'[d] = cond[d]
  BY ActorLocal
<1>4. \A d \in Component : pending[d] > 0 => pending'[d] > 0
  BY <1>1 DEF Grows, AddTo, TypeOK
<1>5. Touched(c) => Touched(c)'
  <2>1. step[c] # "starting" => disk[c] # "not-started"
    BY <1>1 DEF AllHonest, Honest
  <2>2. CASE step[c] = "starting"
    <3>1. step'[c] # "idle"
      BY <2>2 DEF Handler, Handling, Skip, Begin, LaunchTask, TaskDispatched, RunInstant,
                  RunViewer, CheckIf, Jump, ChildSettles, LoopTrip, LoopFinalize,
                  TripSettles, HandlerThrows, TypeOK
    <3> QED BY <3>1 DEF Touched
  <2>3. CASE step[c] # "starting"
    <3>1. disk'[c] # "not-started"
      <4>0. disk \in [Component -> States] BY DEF TypeOK
      <4>1. CASE UNCHANGED disk BY <2>1, <2>3, <4>1
      <4>2. CASE TaskDispatched(c)
        BY <4>2 DEF TaskDispatched, Handling, AllHonest, Honest, TypeOK
      <4>3. ASSUME NEW s \in ChildResults, ChildSettles(c, s) PROVE disk'[c] # "not-started"
        BY <4>3, ResultAssumption DEF ChildSettles, FinishedStates, TypeOK
      <4>4. CASE \/ Skip(c) \/ LaunchTask(c) \/ LoopTrip(c)
                 \/ \E s \in ChildResults, b \in BOOLEAN : TripSettles(c, s, b)
        BY <4>1, <4>4 DEF Skip, LaunchTask, LoopTrip, TripSettles
      <4>5. CASE RunInstant(c) \/ RunViewer(c) \/ LoopFinalize(c) \/ HandlerThrows(c)
        BY <4>0, <4>5 DEF RunInstant, RunViewer, LoopFinalize, HandlerThrows
      <4>6. CASE \E b \in BOOLEAN : CheckIf(c, b) \/ Jump(c, b)
        BY <4>0, <4>6 DEF CheckIf, Jump
      <4>7. ~Begin(c) BY <2>3 DEF Begin, Handling
      <4> QED BY <4>2, <4>3, <4>4, <4>5, <4>6, <4>7 DEF Handler
    <3> QED BY <3>1 DEF Touched
  <2> QED BY <2>2, <2>3
<1>6. \A u \in BOOLEAN : pending' = AddTo(pending, NextComponents(c, u)) =>
        \A d \in Successors(c, u) : searchList[d] > 0 \/ pending'[d] > 0
  <2> SUFFICES ASSUME NEW u \in BOOLEAN, pending' = AddTo(pending, NextComponents(c, u)),
                      NEW d \in Successors(c, u), ~(searchList[d] > 0)
               PROVE  pending'[d] > 0
    OBVIOUS
  <2>1. d \in Component BY HandoverIs
  <2>2. searchList[d] = 0 BY <2>1 DEF TypeOK
  <2>3. d \in NextComponents(c, u) BY <2>2 DEF NextComponents
  <2> QED BY <2>1, <2>3 DEF AddTo, TypeOK
<1>7. \A u \in BOOLEAN : Successors(c, u)' = Successors(c, u)
  BY DEF Successors, BehindIfByFile, Previous
<1>8. CASE step'[c] \notin {"idle", "adding", "child"} /\ pending' = pending
  <2>1. ~Over(c)' BY <1>8 DEF Over
  <2> QED BY <1>1, <1>3, <1>4, <1>5, <1>8, <2>1, AwaitedKept
<1>9. CASE Kind[c] = "loop" /\ step'[c] = "child" /\ pending' = AddTo(pending, {c})
  <2>1. ~Over(c)' BY <1>9 DEF Over
  <2>2. pending'[c] > 0 BY <1>9 DEF AddTo, TypeOK
  <2> QED BY <1>1, <1>3, <1>4, <1>5, <1>9, <2>1, <2>2, AwaitedKept
<1>10. CASE /\ Kind[c] # "if" /\ step'[c] = "idle"
            /\ pending' = AddTo(pending, NextComponents(c, FALSE))
            /\ Kind[c] = "loop" /\ disk'[c] = "running" => step[c] = "child" /\ disk[c] = "running"
  <2>1. Handover(c)' = Successors(c, FALSE) BY <1>7, <1>10 DEF Handover
  <2>2. \A d \in Handover(c)' : searchList[d] > 0 \/ pending'[d] > 0 BY <1>6, <1>10, <2>1
  <2>3. Kind[c] = "loop" /\ disk'[c] = "running" => pending'[c] > 0
    <3> SUFFICES ASSUME Kind[c] = "loop", disk'[c] = "running" PROVE pending'[c] > 0
      OBVIOUS
    <3>1. Awake /\ ~threw BY <1>1 DEF Awake
    <3>2. pending[c] > 0 BY <1>10, <3>1 DEF Awaited, Rounds
    <3> QED BY <1>4, <3>2
  <2>4. step'[c] = "idle" BY <1>10
  <2> QED BY <1>1, <1>2, <1>3, <1>4, <1>5, <2>2, <2>3, <2>4, AwaitedKept
<1>11. CASE Kind[c] = "if" /\ step[c] = "adding" /\ step'[c] = "idle" /\ UNCHANGED <<disk, cond>>
  <2>1. Handover(c)' = Handover(c) BY <1>11 DEF Handover, Successors, BehindIfByFile, Previous
  <2>2. Over(c)' => Over(c) BY <1>11 DEF Over
  <2> QED BY <1>1, <1>3, <1>4, <1>5, <1>11, <2>1, <2>2, AwaitedKept
<1>12. CASE /\ Kind[c] = "if" /\ step'[c] = "idle"
            /\ pending' = AddTo(pending, NextComponents(c, cond'[c] # "true"))
  <2>1. Handover(c)' = Successors(c, cond'[c] # "true") BY <1>7, <1>12 DEF Handover
  <2>2. \A d \in Handover(c)' : searchList[d] > 0 \/ pending'[d] > 0 BY <1>6, <1>12, <2>1
  <2> QED BY <1>1, <1>2, <1>3, <1>4, <1>5, <1>12, <2>2, AwaitedKept
<1>13. CASE Kind[c] = "viewer" /\ step'[c] = "idle" /\ pending' = pending
  <2>1. Handover(c)' = {} BY <1>13 DEF Handover, Successors, Drawn
  <2> QED BY <1>1, <1>2, <1>3, <1>4, <1>5, <1>13, <2>1, AwaitedKept
<1> QED BY <1>1, <1>8, <1>9, <1>10, <1>11, <1>12, <1>13 DEF Effect

LEMMA AwaitedExecution ==
  ASSUME Remote = {}, TypeOK, TypeOK', QuietInv, AllHonest, Awaited, NEW c \in Component,
         Execution(c)
  PROVE  Awaited'
<1>1. /\ disk[c] # "not-started" /\ disk'[c] # "not-started" /\ Kind[c] # "loop"
      /\ UNCHANGED <<step, cond, lists, phase, firstCall, threw>>
  BY HonestExecution DEF AllHonest
<1>2. UNCHANGED listener
  BY DEF Execution, StageIn, ScriptEnds, TaskDecided, TaskSettled, StageOut,
         StageOutEnds, TaskCompleted, ReserveDispatch, events
<1>3. \A d \in Component : d # c => disk'[d] = disk[d]
  BY ActorLocal
<1>4. Over(c)' => Over(c) BY <1>1 DEF Over
<1>5. Handover(c)' = Handover(c) BY <1>1 DEF Handover, Successors, BehindIfByFile, Previous
<1>6. Touched(c)' BY <1>1 DEF Touched
<1> QED BY <1>1, <1>2, <1>3, <1>4, <1>5, <1>6, AwaitedKept DEF lists

\* A loop gets into a list as an initial component, by one that is not disabled, or
\* by itself.
LEMMA FedKept ==
  ASSUME TypeOK, TypeOK', AllHonest, LoopsFed, NEW c \in Component,
         UNCHANGED searchList, \A d \in Component : d # c => step'[d] = step[d],
         \A d \in Component : scan'[d] > 0 => scan[d] > 0,
         step'[c] # "idle" => step[c] # "idle" \/ scan[c] > 0,
         \/ pending' = pending
         \/ pending' = AddTo(pending, {c}) /\ (scan[c] > 0 \/ step[c] # "idle")
         \/ step[c] # "idle" /\ \E u \in BOOLEAN : pending' = AddTo(pending, NextComponents(c, u))
  PROVE  LoopsFed'
<1> DEFINE Any(d) == searchList[d] > 0 \/ pending[d] > 0 \/ scan[d] > 0 \/ step[d] # "idle"
           Fed(d) == Pred(d) = {} \/ ~(Pred(d) \subseteq Disabled)
<1> SUFFICES ASSUME NEW d \in Component, Kind[d] = "loop",
                    searchList'[d] > 0 \/ pending'[d] > 0 \/ scan'[d] > 0 \/ step'[d] # "idle"
             PROVE  Fed(d)
  BY DEF LoopsFed, Pred, Previous, Source
<1>1. Any(d) => Fed(d) BY DEF LoopsFed
<1>2. CASE pending'[d] > 0
  <2>1. CASE pending[d] > 0 BY <1>1, <2>1
  <2>2. CASE d = c /\ (scan[c] > 0 \/ step[c] # "idle") BY <1>1, <2>2
  <2>3. ASSUME step[c] # "idle", NEW u \in BOOLEAN, d \in NextComponents(c, u) PROVE Fed(d)
    <3>1. c \in Pred(d) BY <2>3, HandoverIs DEF NextComponents
    <3>2. c \notin Disabled BY <2>3 DEF AllHonest, Honest, Touched
    <3> QED BY <3>1, <3>2
  <2> QED BY <1>2, <2>1, <2>2, <2>3 DEF AddTo
<1>3. CASE searchList'[d] > 0 \/ scan'[d] > 0 \/ step'[d] # "idle"
  <2>1. Any(d)
    <3>1. CASE d = c BY <1>3, <3>1
    <3>2. CASE d # c BY <1>3, <3>2
    <3> QED BY <3>1, <3>2
  <2> QED BY <1>1, <2>1
<1> QED BY <1>2, <1>3

\* A dispatcher that has nothing at work and nothing in its lists but what depends
\* on disabled components has left nothing out without a reason.
LEMMA NothingLeft ==
  ASSUME Drawn, Startable, TypeOK, AllHonest, LoopsFed, Unstarted, Awaited, ~threw,
         phase # "idle", phase = "scanning" => scan = Empty,
         \A c \in Component : step[c] = "idle" /\ exec[c] \notin AtScript,
         \A c \in Component : Waits(c) => c \in DisabledDependency
  PROVE  \A c \in Component \ Disabled : DoneWith(c)
<1> SUFFICES ASSUME NEW c \in Component \ Disabled PROVE DoneWith(c)
  OBVIOUS
<1>1. Roots /\ Called /\ Rounds /\ ~firstCall
  BY DEF Awaited, Awake, Unstarted
<1>2. CASE disk[c] = "running"
  <2>1. CASE Kind[c] # "loop" BY <1>2, <2>1 DEF AllHonest, Honest, DoneWith
  <2>2. CASE Kind[c] = "loop"
    <3>1. Waits(c) BY <1>1, <1>2, <2>2 DEF Rounds
    <3>2. Pred(c) = {} \/ ~(Pred(c) \subseteq Disabled)
      BY <2>2, <3>1 DEF Waits, LoopsFed
    <3>3. Pred(c) = {} /\ c \in HollowInput BY <3>1, <3>2, DroppedIs
    <3> QED BY <2>2, <3>3 DEF Startable
  <2> QED BY <2>1, <2>2
<1>3. CASE disk[c] = "not-started"
  <2> SUFFICES ASSUME ~LeftOut(c) PROVE FALSE
    BY <1>3 DEF DoneWith
  <2>1. ~Touched(c) BY <1>3 DEF Touched
  <2>2. ASSUME NEW p \in Pred(c) \ Disabled
        PROVE  /\ p \in Component /\ Over(p)
               /\ Kind[p] = "if" /\ c \in NextLinks[p] \union ElseLinks[p] => Taken(p, c)
    <3>1. p \in Component BY DEF Pred, Previous, Source
    <3>2. disk[p] # "not-started" BY DEF LeftOut
    <3> QED BY <3>1, <3>2 DEF LeftOut, Over
  <2>3. ASSUME NEW p \in Pred(c) \ Disabled, c \in Handover(p) PROVE FALSE
    <3>1. Touched(c) \/ Waits(c) BY <1>1, <2>2, <2>3 DEF Called
    <3> QED BY <2>1, <2>3, <3>1, DroppedIs
  <2>4. CASE Pred(c) = {}
    <3>1. c \notin BehindIf BY <2>4, BehindIs
    <3>2. Kind[c] \in {"source", "storage"} => FileLinks[c] # {} BY <2>4 DEF LeftOut
    <3>3. c \in Initial BY <2>4, <3>1, <3>2 DEF Initial
    <3>4. phase = "scanning" /\ scan[c] > 0 BY <1>1, <2>1, <2>4, <3>3 DEF Roots
    <3> QED BY <3>4 DEF Empty
  <2>5. ASSUME NEW q \in Previous(c) \ Disabled PROVE FALSE
    <3>1. /\ q \in Pred(c) \ Disabled /\ q \in Component
          /\ c \in NextLinks[q] \union ElseLinks[q]
      BY DEF Pred, Previous
    <3>2. Kind[q] \notin {"source", "viewer", "storage"}
      BY <3>1 DEF Drawn
    <3>3. CASE Kind[q] = "if"
      <4>1. Taken(q, c) BY <2>2, <3>1, <3>3
      <4>2. c \in Handover(q) BY <3>2, <3>3, <4>1 DEF Taken, Handover, Successors
      <4> QED BY <2>3, <3>1, <4>2
    <3>4. CASE Kind[q] # "if"
      <4>1. c \in NextLinks[q] BY <3>1, <3>4 DEF Drawn
      <4>2. c \in Handover(q) BY <3>2, <3>4, <4>1 DEF Handover, Successors
      <4> QED BY <2>3, <3>1, <4>2
    <3> QED BY <3>3, <3>4
  <2>6. CASE Pred(c) # {}
    <3>1. ~(Pred(c) \subseteq Disabled) BY <2>6 DEF LeftOut
    <3>2. Previous(c) \subseteq Disabled BY <2>5
    <3>3. ~(Source(c) \subseteq Disabled) BY <3>1, <3>2 DEF Pred
    <3>4. PICK p \in Source(c) : p \notin Disabled BY <3>3
    <3>5. ~BehindIfByFile(c) BY <3>2, <3>3 DEF Startable
    <3>6. p \in Pred(c) \ Disabled /\ c \in FileLinks[p] BY <3>4 DEF Pred, Source
    <3>7. c \in Handover(p) BY <3>5, <3>6 DEF Handover, Successors
    <3> QED BY <2>3, <3>6, <3>7
  <2> QED BY <2>4, <2>6
<1> QED BY <1>2, <1>3 DEF TypeOK, States, DoneWith

\* The loop of passes.
LEMMA AwaitedEmit ==
  ASSUME TypeOK, TypeOK', QuietInv, ThrowEnds, Unstarted, Awaited, EmitDispatch
  PROVE  Awaited'
<1> USE DEF result, tasks, loops, history
<1>0. UNCHANGED <<disk, step, cond, pending>> BY DEF EmitDispatch
<1>1. CASE ~listener
  <2>1. UNCHANGED <<phase, listener, threw, firstCall, searchList, scan>>
    BY <1>1 DEF EmitDispatch
  <2> QED
    BY <1>0, <2>1
    DEF Awaited, Awake, Scanned, Roots, Called, Rounds, Waits, Touched, Over, Handover,
        Successors, BehindIfByFile, Initial, BehindIf, Pred, Previous, Source
<1>2. CASE listener
  <2>1. /\ phase' = "scanning" /\ scan' = searchList' /\ ~firstCall'
        /\ searchList' = IF firstCall THEN AddTo(Empty, Initial) ELSE searchList
    BY <1>2 DEF EmitDispatch
  <2>2. phase = "idle" /\ ~threw BY <1>2 DEF QuietInv, Asleep, ThrowEnds
  <2>3. Scanned /\ Roots /\ Called /\ Rounds BY <1>2, <2>2 DEF Awaited, Awake
  <2>4. Scanned' BY <2>1 DEF Scanned, Waits
  <2>5. CASE firstCall
    <3>1. \A c \in Component : ~Touched(c) BY <2>5 DEF Unstarted
    <3>2. Roots'
      <4>1. \A c \in Initial : c \in Component /\ scan'[c] > 0
        BY <2>1, <2>5 DEF AddTo, Empty, Initial
      <4> QED BY <2>1, <4>1 DEF Roots, Initial, BehindIf, Pred, Previous, Source
    <3>3. Called' /\ Rounds' BY <1>0, <3>1 DEF Called, Rounds, Over, Touched
    <3> QED BY <2>4, <3>2, <3>3 DEF Awaited
  <2>6. CASE ~firstCall
    <3>1. \A c \in Component : (Touched(c)' <=> Touched(c)) /\ (Waits(c) => Waits(c)')
      BY <1>0, <2>1, <2>2, <2>6 DEF Touched, Waits
    <3>2. Roots'
      BY <2>2, <2>3, <2>6, <3>1 DEF Roots, Initial, BehindIf, Pred, Previous, Source
    <3>3. \A p \in Component : Over(p)' = Over(p) /\ Handover(p)' = Handover(p)
      BY <1>0 DEF Over, Handover, Successors, BehindIfByFile, Previous
    <3>4. \A p \in Component : Handover(p) \subseteq Component
      BY HandoverIs DEF Handover
    <3>5. Called' BY <2>3, <3>1, <3>3, <3>4 DEF Called
    <3>6. Rounds' BY <1>0, <2>3, <3>1 DEF Rounds
    <3> QED BY <2>4, <3>2, <3>5, <3>6 DEF Awaited
  <2> QED BY <2>5, <2>6
<1> QED BY <1>1, <1>2

\* A pass ends: what waits for the next one is kept, but for what depends on
\* disabled components alone.
LEMMA AwaitedEnd ==
  ASSUME Startable, TypeOK, TypeOK', LoopsFed, Unstarted, Awaited, ~threw, phase # "idle",
         phase' # "scanning", UNCHANGED <<disk, step, cond, firstCall>>,
         phase = "scanning" => scan = Empty,
         \A c \in Component : step[c] = "idle",
         \A c \in Component : Waits(c) => searchList'[c] > 0 \/ c \in DisabledDependency
  PROVE  Awaited'
<1>1. Scanned /\ Roots /\ Called /\ Rounds /\ ~firstCall BY DEF Awaited, Awake, Unstarted
<1>2. \A c \in Component : Touched(c)' <=> Touched(c) BY DEF Touched
<1>3. Scanned' BY DEF Scanned
<1>4. Roots'
  <2> SUFFICES ASSUME NEW c \in Initial \ Disabled, Pred(c) = {} PROVE Touched(c)'
    BY DEF Roots, Initial, BehindIf, Pred, Previous, Source
  <2>1. c \in Component BY DEF Initial
  <2>2. Touched(c) \/ (phase = "scanning" /\ scan[c] > 0) BY <1>1 DEF Roots
  <2> QED BY <1>2, <2>1, <2>2 DEF Empty
<1>5. Called'
  <2> SUFFICES ASSUME NEW p \in Component \ Disabled, Over(p)', NEW c \in Handover(p)' \ Disabled
               PROVE  Touched(c)' \/ Waits(c)'
    BY DEF Called
  <2>1. Over(p) /\ c \in Handover(p)
    BY DEF Over, Handover, Successors, BehindIfByFile, Previous
  <2>2. c \in Component /\ p \in Pred(c) BY <2>1, HandoverIs DEF Handover
  <2>3. Touched(c) \/ Waits(c) BY <1>1, <2>1 DEF Called
  <2>4. c \notin DisabledDependency BY <2>2, DroppedIs
  <2> QED BY <1>2, <2>2, <2>3, <2>4 DEF Waits
<1>6. Rounds'
  <2> SUFFICES ASSUME NEW c \in Component, Kind[c] = "loop", disk[c] = "running"
               PROVE  Waits(c)'
    BY DEF Rounds
  <2>1. Waits(c) BY <1>1 DEF Rounds
  <2>2. Pred(c) = {} \/ ~(Pred(c) \subseteq Disabled) BY <2>1 DEF Waits, LoopsFed
  <2>3. c \notin DisabledDependency BY <2>2, DroppedIs DEF Startable
  <2> QED BY <2>1, <2>3 DEF Waits
<1> QED BY <1>3, <1>4, <1>5, <1>6 DEF Awaited

LEMMA LoopRunning ==
  ASSUME Drawn, Startable, TypeOK, TypeOK', QuietInv, Scheduling, Running, Loop
  PROVE  Running'
<1> USE DEF tasks, loops, history
<1>0. AllHonest /\ LoopsFed /\ Unstarted /\ Going /\ ThrowEnds /\ Awaited /\ Ran
  BY DEF Running
<1>1. UNCHANGED <<disk, mem, step, exec, cond, removal>>
  BY DEF Loop, EmitDispatch, Collect, CheckBlocked, PassError, result
<1>2. AllHonest' BY <1>0, <1>1 DEF AllHonest, Honest, Touched
<1>3. \A c \in Component : DoneWith(c)' <=> DoneWith(c)
  BY <1>1 DEF DoneWith, LeftOut, Taken, Pred, Previous, Source
<1>4. CASE EmitDispatch
  <2>1. UNCHANGED <<pending, outcome>> BY <1>4 DEF EmitDispatch, result
  <2>2. ASSUME listener PROVE LoopsFed' /\ Unstarted' /\ Going' /\ ThrowEnds'
    <3>1. /\ phase' = "scanning" /\ scan' = searchList' /\ ~firstCall' /\ ~threw'
          /\ searchList' = IF firstCall THEN AddTo(Empty, Initial) ELSE searchList
      BY <1>4, <2>2 DEF EmitDispatch
    <3>2. \A c \in Component : searchList'[c] > 0 =>
            searchList[c] > 0 \/ c \in Initial
      BY <3>1 DEF AddTo, Empty
    <3>3. \A c \in Initial : Kind[c] = "loop" => Pred(c) = {} BY DEF Initial
    <3>4. LoopsFed'
      BY <1>0, <1>1, <2>1, <3>1, <3>2, <3>3 DEF LoopsFed, Pred, Previous, Source
    <3>5. Going' BY <1>0, <2>1, <2>2 DEF Going, Awake
    <3>6. Unstarted' /\ ThrowEnds' BY <3>1 DEF Unstarted, ThrowEnds
    <3> QED BY <3>4, <3>5, <3>6
  <2>3. ASSUME ~listener PROVE LoopsFed' /\ Unstarted' /\ Going' /\ ThrowEnds'
    <3>1. UNCHANGED <<phase, listener, threw, firstCall, searchList, scan>>
      BY <1>4, <2>3 DEF EmitDispatch
    <3>2. LoopsFed'
      BY <1>0, <1>1, <2>1, <3>1 DEF LoopsFed, Pred, Previous, Source
    <3> QED
      BY <1>0, <1>1, <2>1, <3>1, <3>2 DEF Unstarted, Going, ThrowEnds, Awake, Touched
  <2>4. LoopsFed' /\ Unstarted' /\ Going' /\ ThrowEnds' BY <2>2, <2>3
  <2>5. Awaited' BY <1>0, <1>4, AwaitedEmit
  <2>6. Ran' BY <1>0, <1>3, <2>1 DEF Ran
  <2> QED BY <1>2, <2>4, <2>5, <2>6 DEF Running
<1>5. CASE PassError
  <2>1. /\ phase = "scanning" /\ phase' = "idle" /\ UNCHANGED <<lists, listener, firstCall>>
        /\ outcome' = IF outcome = "none" THEN "error" ELSE outcome
    BY <1>5 DEF PassError, events
  <2>2. ~Awake' BY <2>1 DEF Scheduling, Awake
  <2>3. LoopsFed' BY <1>0, <1>1, <2>1 DEF lists, LoopsFed, Pred, Previous, Source
  <2>4. Unstarted' BY <1>0, <1>1, <2>1 DEF Unstarted, Touched
  <2>5. Going' /\ ThrowEnds' /\ Awaited' BY <2>1, <2>2 DEF Going, ThrowEnds, Awaited, Awake
  <2>6. Ran' BY <1>0, <1>3, <2>1 DEF Ran, FinishedStates
  <2> QED BY <1>2, <2>3, <2>4, <2>5, <2>6 DEF Running
<1>6. ASSUME NEW done \in BOOLEAN, phase # "idle", ~threw, phase = "scanning" => scan = Empty,
             \A c \in Component : step[c] = "idle", UNCHANGED <<scan, firstCall, threw>>,
             \/ EndPass(done) /\ (done => (\A c \in Component : exec[c] \notin AtScript)
                                   /\ \A c \in Component : searchList'[c] = 0)
             \/ phase' = "closing" /\ UNCHANGED <<listener, outcome>>,
             \A c \in Component : pending'[c] > 0 => pending[c] > 0,
             \A c \in Component : searchList'[c] > 0 => searchList[c] > 0 \/ pending[c] > 0,
             \A c \in Component : Waits(c) => searchList'[c] > 0 \/ c \in DisabledDependency
      PROVE  Running'
  <2>1. phase' # "scanning" BY <1>6 DEF EndPass
  <2>2. LoopsFed' BY <1>0, <1>1, <1>6 DEF LoopsFed, Pred, Previous, Source
  <2>3. ~firstCall BY <1>0, <1>6 DEF Unstarted
  <2>4. Unstarted' /\ ThrowEnds' BY <1>6, <2>3 DEF Unstarted, ThrowEnds
  <2>5. outcome = "none" /\ ~listener BY <1>0, <1>6 DEF Going, Awake, Scheduling
  <2>6. Going' BY <1>6, <2>5 DEF Going, Awake, EndPass
  <2>7. Awaited' BY <1>0, <1>1, <1>6, <2>1, AwaitedEnd
  <2>8. Ran'
    <3>1. CASE outcome' = "none" BY <3>1 DEF Ran, FinishedStates
    <3>2. CASE outcome' # "none"
      <4>1. /\ \A c \in Component : exec[c] \notin AtScript
            /\ \A c \in Component : Waits(c) => c \in DisabledDependency
        BY <1>6, <2>5, <3>2 DEF EndPass
      <4>2. \A c \in Component \ Disabled : DoneWith(c)
        BY <1>0, <1>6, <4>1, NothingLeft
      <4> QED BY <1>3, <4>2 DEF Ran
    <3> QED BY <3>1, <3>2
  <2> QED BY <1>2, <2>2, <2>4, <2>6, <2>7, <2>8 DEF Running
<1>7. CASE Collect
  <2>1. /\ phase = "scanning" /\ scan = Empty /\ ~threw /\ UNCHANGED <<scan, firstCall, threw>>
        /\ \A c \in Component : step[c] = "idle"
        /\ pending' = Empty
        /\ searchList' = [c \in Component |->
             IF c \in DisabledDependency THEN 0 ELSE RemoveDuplicated(pending)[c]]
        /\ IF StillRunning = {} /\ searchList' # Empty
           THEN phase' = "closing" /\ UNCHANGED <<listener, outcome>>
           ELSE EndPass(StillRunning = {})
    BY <1>7 DEF Collect, events
  <2>2. \A c \in Component :
          /\ searchList'[c] > 0 => pending[c] > 0
          /\ pending[c] > 0 => searchList'[c] > 0 \/ c \in DisabledDependency
          /\ pending'[c] = 0
    BY <2>1 DEF RemoveDuplicated, Empty
  <2>3. \A c \in Component : Waits(c) => pending[c] > 0 BY <2>1 DEF Waits, Empty
  <2>4. StillRunning = {} => \A c \in Component : exec[c] \notin AtScript
    BY DEF StillRunning, QuietInv, Executing, AtScript
  <2>5. \/ EndPass(StillRunning = {})
             /\ (StillRunning = {} => \A c \in Component : searchList'[c] = 0)
        \/ phase' = "closing" /\ UNCHANGED <<listener, outcome>>
    BY <2>1 DEF Empty
  <2> DEFINE done == StillRunning = {}
  <2>6. done \in BOOLEAN OBVIOUS
  <2>7. \/ EndPass(done) /\ (done => (\A c \in Component : exec[c] \notin AtScript)
                                   /\ \A c \in Component : searchList'[c] = 0)
        \/ phase' = "closing" /\ UNCHANGED <<listener, outcome>>
    BY <2>4, <2>5
  <2> HIDE DEF done
  <2> QED BY <1>6, <2>1, <2>2, <2>3, <2>6, <2>7
<1>8. CASE CheckBlocked
  <2> DEFINE done == \A c \in Component : searchList[c] > 0 => HasStuckPredecessor(c)
  <2>1. phase = "closing" /\ EndPass(done) /\ UNCHANGED <<lists, firstCall, threw>>
    BY <1>8 DEF CheckBlocked
  <2>2. /\ \A c \in Component : step[c] = "idle" /\ exec[c] \notin AtScript
        /\ ~threw
    BY <1>0, <2>1 DEF QuietInv, Asleep, Executing, AtScript, ThrowEnds
  <2>3. \A c \in Component : ~HasStuckPredecessor(c)
    BY <1>0 DEF HasStuckPredecessor, StuckStageOut, Source, AllHonest, Honest
  <2>4. done => \A c \in Component : searchList'[c] = 0 BY <2>1, <2>3 DEF lists, TypeOK
  <2>5. outcome = "none" BY <1>0, <2>1 DEF Going, Awake
  <2>6. pending = Empty BY <2>1, <2>5 DEF Scheduling
  <2>7. \A c \in Component : /\ Waits(c) => searchList'[c] > 0
                             /\ pending'[c] > 0 => pending[c] > 0
                             /\ searchList'[c] > 0 => searchList[c] > 0
    BY <2>1, <2>6 DEF Waits, Empty, lists
  <2>8. done \in BOOLEAN OBVIOUS
  <2>9. UNCHANGED <<scan, firstCall, threw>> BY <2>1 DEF lists
  <2> HIDE DEF done
  <2> QED BY <1>6, <2>1, <2>2, <2>4, <2>7, <2>8, <2>9
<1> QED BY <1>4, <1>5, <1>7, <1>8 DEF Loop

\* After the conclusion only executions that have a result go on.
LEMMA RanExecution ==
  ASSUME Remote = {}, TypeOK, TypeOK', QuietInv, Undisturbed, AllHonest, Ran,
         NEW c \in Component, Execution(c)
  PROVE  Ran'
<1> USE DEF tasks, events, result, lists, loops, history
<1>a. /\ disk \in [Component -> States] /\ mem \in [Component -> States]
      /\ step \in [Component -> Steps] /\ exec \in [Component -> Execs]
  BY DEF TypeOK
<1> USE <1>a
<1>1. UNCHANGED outcome
  BY DEF Execution, StageIn, ScriptEnds, TaskDecided, TaskSettled, StageOut,
         StageOutEnds, TaskCompleted
<1> SUFFICES ASSUME outcome \in FinishedStates, NEW d \in Component \ Disabled
             PROVE  DoneWith(d)'
  BY <1>1 DEF Ran
<1>2. AtRest
  <2>1. ~ \E b \in Component : BrokeAt(b) BY DEF Undisturbed, Jumped, BrokeAt
  <2> QED BY <2>1 DEF QuietInv, SettledQuiet, Undisturbed
<1>3. exec[c] \notin AtScript BY <1>2 DEF AtRest, QuietInv, Executing, AtScript
<1>4. disk[c] # "not-started" /\ UNCHANGED cond
  BY HonestExecution DEF AllHonest
<1>5. disk'[c] \in FinishedStates \/ (disk'[c] = disk[c] /\ exec[c] = "settled")
  <2>1. CASE TaskSettled(c)
    <3>1. disk'[c] = mem[c] /\ exec[c] = "decided" BY <2>1 DEF TaskSettled
    <3> QED BY <1>3, <3>1 DEF AllHonest, Honest, AtScript, States
  <2>2. CASE TaskCompleted(c) BY <2>2 DEF TaskCompleted, AllHonest, Honest
  <2> QED
    BY <1>3, <2>1, <2>2
    DEF Execution, StageIn, ScriptEnds, TaskDecided, StageOut, StageOutEnds, AtScript,
        AllHonest, Honest
<1>6. DoneWith(d) BY DEF Ran
<1>7. CASE d = c BY <1>4, <1>5, <1>6, <1>7 DEF DoneWith
<1>8. CASE d # c
  <2>1. disk'[d] = disk[d] /\ exec'[d] = exec[d] BY <1>8, ActorLocal
  <2>2. LeftOut(d) => LeftOut(d)'
    <3>1. \A p \in Pred(d) \ Disabled :
            disk[p] \in {"not-started", "stage-out"} => disk'[p] = disk[p]
      <4>1. \A p \in Pred(d) : p \in Component BY DEF Pred, Previous, Source
      <4>2. \A p \in Component : p # c => disk'[p] = disk[p] BY ActorLocal
      <4> QED BY <1>4, <4>1, <4>2 DEF AllHonest, Honest
    <3> QED BY <1>4, <3>1 DEF LeftOut, Taken, Pred, Previous, Source
  <2> QED BY <1>6, <2>1, <2>2 DEF DoneWith
<1> QED BY <1>7, <1>8

\* A step of one component's entry, handler or execution.
LEMMA PassRunning ==
  ASSUME Startable, TypeOK, TypeOK', Undisturbed', QuietInv, Scheduling, Running,
         NEW c \in Component, Pass(c)
  PROVE  Running'
<1> USE DEF events, result, tasks, loops, history
<1>0. AllHonest /\ LoopsFed /\ Unstarted /\ Going /\ ThrowEnds /\ Awaited /\ Ran
  BY DEF Running
<1>1. /\ phase = "scanning" /\ scan[c] > 0 /\ UNCHANGED <<searchList, listener, firstCall, threw>>
      /\ phase' \in {"scanning", "idle"} /\ (phase' = "idle" \/ outcome' = outcome)
      /\ outcome' \in {outcome, "error"}
  BY DEF Pass, Scan, ScanDisabled, ScanNotReady, ScanInputsFail, ScanMandatoryMissing,
         ScanDispatch
<1>2. outcome = "none" /\ ~listener /\ ~firstCall
  BY <1>0, <1>1 DEF Going, Awake, Scheduling, Unstarted
<1>3. \A d \in Component : d # c =>
        disk'[d] = disk[d] /\ step'[d] = step[d] /\ exec'[d] = exec[d] /\ mem'[d] = mem[d]
  BY ActorLocal, MemLocal
<1>4. AllHonest'
  <2>1. Honest(c)' BY <1>0, HonestPass DEF AllHonest
  <2> QED BY <1>0, <1>3, <2>1 DEF AllHonest, Honest, Touched
<1>5. LoopsFed'
  <2>1. /\ \A d \in Component : scan'[d] > 0 => scan[d] > 0
        /\ pending' = pending \/ pending' = AddTo(pending, {c})
    BY DEF Pass, Scan, ScanDisabled, ScanNotReady, ScanInputsFail, ScanMandatoryMissing,
           ScanDispatch, Empty, TypeOK
  <2> QED BY <1>0, <1>1, <1>3, <2>1, FedKept
<1>6. Unstarted' /\ Going' /\ ThrowEnds'
  BY <1>1, <1>2 DEF Unstarted, Going, Awake, ThrowEnds
<1>7. Awaited' BY <1>0, AwaitedPass
<1>8. Ran' BY <1>1, <1>2 DEF Ran, FinishedStates
<1> QED BY <1>4, <1>5, <1>6, <1>7, <1>8 DEF Running

LEMMA HandlerRunning ==
  ASSUME Drawn, Remote = {}, TypeOK, TypeOK', Undisturbed, Undisturbed', QuietInv, Scheduling,
         Running, NEW c \in Component, Handler(c)
  PROVE  Running'
<1>0. AllHonest /\ LoopsFed /\ Unstarted /\ Going /\ ThrowEnds /\ Awaited /\ Ran
  BY DEF Running
<1>1. /\ UNCHANGED <<searchList, scan, phase, firstCall, listener, outcome>>
      /\ step[c] # "idle" /\ Grows(c)
  BY <1>0, HandlerEffect DEF AllHonest
<1>2. \A d \in Component : d # c =>
        disk'[d] = disk[d] /\ step'[d] = step[d] /\ exec'[d] = exec[d] /\ mem'[d] = mem[d]
  BY ActorLocal, MemLocal
<1>3. Honest(c)' BY <1>0, HonestHandler DEF AllHonest
<1>4. AllHonest' BY <1>0, <1>2, <1>3 DEF AllHonest, Honest, Touched
<1>5. LoopsFed' BY <1>0, <1>1, <1>2, FedKept DEF Grows
<1>6. ~firstCall BY <1>0, <1>1 DEF Unstarted, Touched
<1>7. phase = "scanning" \/ ~Awake
  BY <1>0, <1>1 DEF Going, Scheduling, HandlerActive
<1>8. Unstarted' /\ Going' /\ ThrowEnds'
  BY <1>0, <1>1, <1>6, <1>7 DEF Unstarted, Going, Awake, ThrowEnds
<1>9. Awaited' BY <1>0, <1>3, AwaitedHandler
<1>10. Ran'
  <2>1. ~ \E b \in Component : BrokeAt(b) BY DEF Undisturbed, Jumped, BrokeAt
  <2>2. outcome \notin FinishedStates
    BY <1>1, <2>1 DEF QuietInv, SettledQuiet, Undisturbed, AtRest
  <2> QED BY <1>1, <2>2 DEF Ran
<1> QED BY <1>4, <1>5, <1>8, <1>9, <1>10 DEF Running

LEMMA ExecutionRunning ==
  ASSUME Remote = {}, TypeOK, TypeOK', Undisturbed, Undisturbed', QuietInv, Running,
         NEW c \in Component, Execution(c)
  PROVE  Running'
<1>0. AllHonest /\ LoopsFed /\ Unstarted /\ Going /\ ThrowEnds /\ Awaited /\ Ran
  BY DEF Running
<1>1. /\ Honest(c)' /\ disk[c] # "not-started"
      /\ UNCHANGED <<step, cond, lists, phase, firstCall, threw>>
  BY <1>0, HonestExecution DEF AllHonest
<1>2. UNCHANGED <<listener, outcome>>
  BY DEF Execution, StageIn, ScriptEnds, TaskDecided, TaskSettled, StageOut,
         StageOutEnds, TaskCompleted, ReserveDispatch, events, result
<1>3. \A d \in Component : d # c =>
        disk'[d] = disk[d] /\ step'[d] = step[d] /\ exec'[d] = exec[d] /\ mem'[d] = mem[d]
  BY ActorLocal, MemLocal
<1>4. AllHonest' BY <1>0, <1>1, <1>3 DEF AllHonest, Honest, Touched
<1>5. LoopsFed' BY <1>0, <1>1 DEF LoopsFed, lists, Pred, Previous, Source
<1>6. ~firstCall BY <1>0, <1>1 DEF Unstarted, Touched
<1>7. Unstarted' /\ Going' /\ ThrowEnds'
  BY <1>0, <1>1, <1>2, <1>6 DEF Unstarted, Going, Awake, ThrowEnds
<1>8. Awaited' BY <1>0, AwaitedExecution
<1>9. Ran' BY <1>0, RanExecution
<1> QED BY <1>4, <1>5, <1>7, <1>8, <1>9 DEF Running

LEMMA WholeInit == Init => WholeInv
<1> SUFFICES ASSUME Init PROVE Running
  BY DEF WholeInv
<1>1. \A c \in Component : /\ disk[c] = "not-started" /\ mem[c] = "not-started"
                           /\ step[c] = "idle" /\ exec[c] = "none"
                           /\ searchList[c] = 0 /\ pending[c] = 0 /\ scan[c] = 0
  BY DEF Init, Empty
<1>2. phase = "idle" /\ firstCall /\ ~threw /\ outcome = "none" BY DEF Init
<1>3. AllHonest BY <1>1 DEF AllHonest, Honest, Touched
<1>4. LoopsFed /\ Unstarted BY <1>1, <1>2 DEF LoopsFed, Unstarted, Touched
<1>5. Going /\ ThrowEnds /\ Ran BY <1>2 DEF Going, ThrowEnds, Ran, FinishedStates
<1>6. Awaited BY <1>1, <1>2 DEF Awaited, Scanned, Roots, Called, Rounds, Over
<1> QED BY <1>3, <1>4, <1>5, <1>6 DEF Running

LEMMA WholeNext ==
  ASSUME Drawn, Startable, Remote = {}, TypeOK, QuietInv, HistoryInv, Scheduling, WholeInv,
         TypeOK', [Next]_vars
  PROVE  WholeInv'
<1> SUFFICES ASSUME Undisturbed' PROVE Running'
  BY DEF WholeInv
<1>1. /\ Undisturbed
      /\ \/ Loop \/ UNCHANGED vars
         \/ \E c \in Component :
              Pass(c) \/ Handler(c) \/ Execution(c) \/ BreakArrives(c)
  BY StaysUndisturbed
<1>2. Running BY <1>1 DEF WholeInv
<1>3. CASE Loop BY <1>2, <1>3, LoopRunning
<1>4. ASSUME NEW c \in Component, Pass(c) PROVE Running'
  BY <1>2, <1>4, PassRunning
<1>5. ASSUME NEW c \in Component, Handler(c) PROVE Running'
  BY <1>1, <1>2, <1>5, HandlerRunning
<1>6. ASSUME NEW c \in Component, Execution(c) PROVE Running'
  BY <1>1, <1>2, <1>6, ExecutionRunning
<1>7. CASE UNCHANGED vars \/ \E c \in Component : BreakArrives(c)
  <2>1. UNCHANGED <<disk, mem, exec, step, cond, searchList, pending, scan, phase, listener,
                    firstCall, threw, outcome>>
    BY <1>7 DEF BreakArrives, vars, lists, events, result, tasks, history
  <2>2. AllHonest' /\ LoopsFed' /\ Unstarted' /\ Going' /\ ThrowEnds'
    BY <1>2, <2>1 DEF Running, AllHonest, Honest, Touched, LoopsFed, Pred, Previous, Source,
                      Unstarted, Going, Awake, ThrowEnds
  <2>3. Awaited'
    BY <1>2, <2>1
    DEF Running, Awaited, Awake, Scanned, Roots, Called, Rounds, Waits, Touched, Over,
        Handover, Successors, BehindIfByFile, Initial, BehindIf, Pred, Previous, Source
  <2>4. Ran'
    BY <1>2, <2>1 DEF Running, Ran, DoneWith, LeftOut, Taken, Pred, Previous, Source
  <2> QED BY <2>2, <2>3, <2>4 DEF Running
<1> QED BY <1>1, <1>3, <1>4, <1>5, <1>6, <1>7

\* In a first run a dispatcher that concludes, and in which no continue jumped, has
\* run every enabled component of its workflow that there was no reason to leave
\* out, and finished what it has begun (Complete): what _addNextComponent() pushes
\* stays in a list until it is handled.
THEOREM NothingForgotten ==
  ASSUME Drawn, Startable, JumpsNeedNoFile, Remote = {}
  PROVE  Spec => [](runs = 1 => Complete)
<1>1. /\ TypeOK /\ TypeOK' /\ QuietInv /\ HistoryInv /\ Scheduling /\ WholeInv /\ [Next]_vars
      => WholeInv'
  BY WholeNext
<1>2. WholeInv => (runs = 1 => Complete)
  BY DEF WholeInv, Running, Ran, DoneWith, Complete, Concluded, Undisturbed, Jumped,
         FinishedStates
<1> QED
  BY WholeInit, <1>1, <1>2, HistoryInvariant, SchedulingInvariant, TypeCorrect, PTL DEF Spec

=============================================================================
