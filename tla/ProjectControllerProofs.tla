---------------------- MODULE ProjectControllerProofs ----------------------
(* Theorems about ProjectController for any number of runs and any bounds: *)
(* type correctness for any user, hasty or not, and the safety of the runs *)
(* of a project whose users ask only for what the client offers.           *)
EXTENDS ProjectController, TLAPS

-----------------------------------------------------------------------------
(* Type correctness.  The state that is written is one of the project's    *)
(* states because a run records its outcome only after start() has settled, *)
(* and the chain of a run never runs out of entries under a stop that one  *)
(* of them is waiting for.                                                 *)

\* While an abort of a run waits for remove(), its entry is in the chain.
StopsOwned == \A r \in Run : stopping[r] # 0 => aborts[r] > 0

\* A run is at its end only when start() of its dispatcher has settled.
Settled ==
  \A r \in Run :
    /\ run[r] = "running" => start[r] # "none"
    /\ run[r] = "writing" => start[r] \notin {"none", "pending"}

TypeInv == TypeOK /\ StopsOwned /\ Settled

LEMMA RunsAreNumbers == Run \subseteq Nat /\ User \notin Run /\ 0 \in Stopper
BY BoundAssumption DEF Run, User, Stopper

LEMMA EmptyQueue == <<>> \in Seq(Operations)
OBVIOUS

LEMMA InitTypeInv == Init => TypeInv
<1> SUFFICES ASSUME Init PROVE TypeInv OBVIOUS
<1>1. queue \in Seq(Operations) BY EmptyQueue DEF Init
<1>2. /\ state \in ProjectStates /\ committed \in ProjectStates
      /\ run \in [Run -> Steps]
      /\ start \in [Run -> Verdicts \union {"none", "pending", "rejected"}]
  BY DEF Init, ProjectStates, Steps
<1>3. /\ aborts \in [Run -> Nat] /\ stopping \in [Stopper -> Run \union {0}]
      /\ removers \in [Run -> SUBSET Stopper]
  BY DEF Init
<1>4. TypeOK BY <1>1, <1>2, <1>3 DEF Init, TypeOK
<1>5. StopsOwned BY DEF Init, StopsOwned, Stopper
<1>6. Settled BY DEF Init, Settled
<1> QED BY <1>4, <1>5, <1>6 DEF TypeInv

LEMMA BeginStopTypeInv ==
  ASSUME TypeInv, NEW s \in Stopper, BeginStop(s)
  PROVE  TypeInv'
<1>1. TypeOK /\ StopsOwned /\ Settled BY DEF TypeInv
<1>2. s = User \/ s \in Run BY DEF Stopper
<1>3. GetState(current \in flagged', TRUE) \subseteq Verdicts BY DEF GetState, Verdicts
<1>4. CASE current # 0
  <2>1. PICK v \in GetState(current \in flagged', TRUE) : RemoveDispatcher(s, current, v)
    BY <1>4 DEF BeginStop
  <2>2. current \in Run BY <1>1, <1>4 DEF TypeOK
  <2>3. s \in Run => aborts[s] > 0
    BY RunsAreNumbers DEF BeginStop
  <2>4. /\ UNCHANGED <<disk, queue, run, current, emitter, crashes, operation, aborts, ssh>>
        /\ flagged' \in {flagged, flagged \union {current}}
    BY <1>4, <2>1 DEF BeginStop, RemoveDispatcher, Reason
  <2>5. TypeOK'
    BY <1>1, <1>2, <1>3, <2>1, <2>2, <2>4 DEF TypeOK, RemoveDispatcher, disk, Verdicts, Stopper
  <2>6. StopsOwned'
    BY <1>1, <2>1, <2>3, <2>4, RunsAreNumbers DEF StopsOwned, RemoveDispatcher, TypeOK, Stopper
  <2>7. Settled'
    BY <1>1, <1>3, <2>1, <2>4 DEF Settled, RemoveDispatcher, TypeOK, Verdicts
  <2> QED BY <2>5, <2>6, <2>7 DEF TypeInv
<1>5. CASE current = 0
  <2>1. /\ ssh' = FALSE /\ CallerGoesOn(s)
        /\ UNCHANGED <<start, stopping, removers, disk, queue, run, flagged, current,
                       emitter, crashes>>
    BY <1>5 DEF BeginStop
  <2>2. stopping[s] = 0 /\ (s \in Run => aborts[s] > 0)
    BY RunsAreNumbers DEF BeginStop
  <2>3. /\ operation' \in Operations \union {"none", "forcing"}
        /\ aborts' \in [Run -> Nat]
        /\ \A r \in Run : r # s => aborts'[r] = aborts[r]
    BY <1>1, <1>2, <2>1, <2>2, RunsAreNumbers DEF CallerGoesOn, TypeOK
  <2>4. TypeOK' BY <1>1, <2>1, <2>3 DEF TypeOK, disk
  <2>5. StopsOwned' BY <1>1, <2>1, <2>2, <2>3 DEF StopsOwned
  <2>6. Settled' BY <1>1, <2>1 DEF Settled
  <2> QED BY <2>4, <2>5, <2>6 DEF TypeInv
<1> QED BY <1>4, <1>5

LEMMA EndStopTypeInv ==
  ASSUME TypeInv, NEW s \in Stopper, EndStop(s)
  PROVE  TypeInv'
<1>1. TypeOK /\ StopsOwned /\ Settled BY DEF TypeInv
<1>2. s = User \/ s \in Run BY DEF Stopper
<1>3. /\ stopping[s] # 0
      /\ stopping' = [stopping EXCEPT ![s] = 0]
      /\ current' = 0 /\ ssh' = FALSE /\ CallerGoesOn(s)
      /\ UNCHANGED <<disk, queue, runs, emitter, removers, crashes>>
  BY DEF EndStop
<1>4. s \in Run => aborts[s] > 0 BY <1>1, <1>3 DEF StopsOwned
<1>5. /\ operation' \in Operations \union {"none", "forcing"}
      /\ aborts' \in [Run -> Nat]
      /\ \A r \in Run : r # s => aborts'[r] = aborts[r]
  BY <1>1, <1>2, <1>3, <1>4, RunsAreNumbers DEF CallerGoesOn, TypeOK
<1>6. TypeOK' BY <1>1, <1>3, <1>5 DEF TypeOK, disk, runs
<1>7. StopsOwned' BY <1>1, <1>3, <1>5 DEF StopsOwned, TypeOK, Stopper
<1>8. Settled' BY <1>1, <1>3 DEF Settled, runs
<1> QED BY <1>6, <1>7, <1>8 DEF TypeInv

\* The steps of the queue of operations leave runs and stops as they are but
\* for the run they begin.
LEMMA OperationTypeInv ==
  ASSUME TypeInv,
         \/ \E o \in Asked : Submit(o)
         \/ TakeOperation \/ RunProject \/ ForceStopped \/ CleanProject
         \/ RevertProject \/ SaveProject
  PROVE  TypeInv'
<1>1. TypeOK /\ StopsOwned /\ Settled BY DEF TypeInv
<1>2. CASE \E o \in Asked : Submit(o)
  <2>1. PICK o \in Asked : Submit(o) BY <1>2
  <2>2. o \in Operations BY <2>1, AskedAssumption
  <2>3. queue' \in Seq(Operations) BY <1>1, <2>1, <2>2 DEF Submit, TypeOK
  <2> QED BY <1>1, <2>1, <2>3
    DEF Submit, TypeInv, TypeOK, StopsOwned, Settled, disk, runs, maps, stop
<1>3. CASE TakeOperation
  <2>1. /\ queue' \in Seq(Operations)
        /\ operation' \in Operations \union {"none", "forcing"}
    BY <1>1, <1>3 DEF TakeOperation, TypeOK
  <2> QED BY <1>1, <1>3, <2>1
    DEF TakeOperation, TypeInv, TypeOK, StopsOwned, Settled, disk, runs, maps, stop
<1>4. CASE RunProject
  <2>1. /\ run' \in [Run -> Steps] /\ committed' \in ProjectStates
        /\ \A r \in Run : run'[r] \in {"running", "writing"} => run'[r] = run[r]
    BY <1>1, <1>4 DEF RunProject, TypeOK, Steps
  <2> QED BY <1>1, <1>4, <2>1
    DEF RunProject, TypeInv, TypeOK, StopsOwned, Settled, maps, stop
<1>5. CASE ForceStopped
  BY <1>1, <1>5
  DEF ForceStopped, TypeInv, TypeOK, StopsOwned, Settled, runs, maps, stop, ProjectStates
<1>6. CASE CleanProject
  BY <1>1, <1>6 DEF CleanProject, TypeInv, TypeOK, StopsOwned, Settled, runs, stop
<1>7. CASE RevertProject
  BY <1>1, <1>7 DEF RevertProject, TypeInv, TypeOK, StopsOwned, Settled, runs, maps, stop
<1>8. CASE SaveProject
  BY <1>1, <1>8
  DEF SaveProject, TypeInv, TypeOK, StopsOwned, Settled, disk, runs, maps, stop, ProjectStates
<1> QED BY <1>2, <1>3, <1>4, <1>5, <1>6, <1>7, <1>8

-----------------------------------------------------------------------------
\* A step of a run that moves it anywhere but to "running" or "writing".
LEMMA RunGoesOnTypeInv ==
  ASSUME TypeInv, NEW r \in Run, NEW s \in Steps \ {"running", "writing"},
         GoTo(r, s),
         state' \in ProjectStates,
         current' \in Run \union {0}, emitter' \in Run \union {0}, ssh' \in BOOLEAN,
         UNCHANGED <<committed, ops, start, flagged, stop, crashes>>
  PROVE  TypeInv'
<1>1. TypeOK /\ StopsOwned /\ Settled BY DEF TypeInv
<1>2. run' \in [Run -> Steps] BY <1>1 DEF GoTo, TypeOK
<1>3. TypeOK' BY <1>1, <1>2 DEF TypeOK, ops, stop
<1>4. StopsOwned' BY <1>1 DEF StopsOwned, stop
<1>5. Settled' BY <1>1 DEF Settled, GoTo, TypeOK
<1> QED BY <1>3, <1>4, <1>5 DEF TypeInv

LEMMA RunTypeInv ==
  ASSUME TypeInv, NEW r \in Run,
         \/ Prepare(r) \/ Connect(r) \/ PreparationFails(r) \/ Register(r)
         \/ Leave(r) \/ Release(r) \/ AwaitAborts(r) \/ Close(r) \/ WriteOutcome(r)
  PROVE  TypeInv'
<1>1. TypeOK /\ StopsOwned /\ Settled BY DEF TypeInv
<1>2. CASE Prepare(r)
  BY <1>1, <1>2, RunGoesOnTypeInv DEF Prepare, maps, TypeOK, Steps, ProjectStates
<1>3. CASE Connect(r)
  BY <1>1, <1>3, RunGoesOnTypeInv DEF Connect, disk, TypeOK, Steps
<1>4. CASE PreparationFails(r)
  BY <1>1, <1>4, RunGoesOnTypeInv DEF PreparationFails, TypeOK, Steps, ProjectStates
<1>5. CASE Register(r)
  <2>1. /\ state' = state /\ committed' = committed /\ ssh' = ssh
        /\ emitter' = r /\ current' \in Run \union {0}
        /\ UNCHANGED <<ops, start, flagged, stop, crashes>>
        /\ GoTo(r, "finishing") \/ GoTo(r, "registered")
    BY <1>1, <1>5 DEF Register, disk, TypeOK
  <2> QED BY <1>1, <2>1, RunGoesOnTypeInv DEF TypeOK, Steps
<1>6. CASE Leave(r)
  <2>1. /\ state' = state /\ committed' = committed /\ emitter' = emitter
        /\ ssh' \in BOOLEAN /\ current' \in Run \union {0}
        /\ UNCHANGED <<ops, start, flagged, stop, crashes>>
        /\ GoTo(r, "finishing") \/ GoTo(r, "cleaning")
    BY <1>1, <1>6 DEF Leave, disk, TypeOK
  <2> QED BY <1>1, <2>1, RunGoesOnTypeInv DEF TypeOK, Steps
<1>7. CASE Release(r)
  BY <1>1, <1>7, RunGoesOnTypeInv DEF Release, disk, TypeOK, Steps
<1>8. CASE AwaitAborts(r)
  BY <1>1, <1>8, RunGoesOnTypeInv DEF AwaitAborts, disk, maps, TypeOK, Steps
<1>9. CASE Close(r)
  BY <1>1, <1>9, RunGoesOnTypeInv DEF Close, disk, TypeOK, Steps
<1>10. CASE WriteOutcome(r)
  <2>1. start[r] \in Verdicts \union {"rejected"}
    BY <1>1, <1>10 DEF WriteOutcome, Settled, TypeOK
  <2>2. state' \in ProjectStates
    BY <1>10, <2>1 DEF WriteOutcome, Outcome, Verdicts, ProjectStates
  <2> QED BY <1>1, <1>10, <2>2, RunGoesOnTypeInv DEF WriteOutcome, maps, TypeOK, Steps
<1> QED BY <1>2, <1>3, <1>4, <1>5, <1>6, <1>7, <1>8, <1>9, <1>10

LEMMA StartTypeInv ==
  ASSUME TypeInv, NEW r \in Run,
         \/ BeginRunning(r) \/ ComponentFails(r) \/ TaskFails(r) \/ Settles(r) \/ Rejects(r)
         \/ CheckOutcome(r)
  PROVE  TypeInv'
<1>1. TypeOK /\ StopsOwned /\ Settled BY DEF TypeInv
<1>2. CASE BeginRunning(r)
  <2>1. /\ run' \in [Run -> Steps] /\ state' \in ProjectStates
        /\ start' \in [Run -> Verdicts \union {"none", "pending", "rejected"}]
    BY <1>1, <1>2 DEF BeginRunning, GoTo, TypeOK, Steps, ProjectStates
  <2>2. Settled' BY <1>1, <1>2 DEF BeginRunning, GoTo, Settled, TypeOK
  <2> QED BY <1>1, <1>2, <2>1, <2>2
    DEF BeginRunning, TypeInv, TypeOK, StopsOwned, ops, maps, stop
<1>3. CASE TaskFails(r)
  <2>1. /\ aborts' \in [Run -> Nat]
        /\ \A q \in Run : aborts'[q] >= aborts[q]
    <3>1. CASE UNCHANGED aborts BY <1>1, <3>1 DEF TypeOK
    <3>2. CASE emitter # 0 /\ aborts' = [aborts EXCEPT ![emitter] = @ + 1]
      <4>1. emitter \in Run /\ aborts \in [Run -> Nat] BY <1>1, <3>2 DEF TypeOK
      <4>2. \A q \in Run : aborts'[q] = IF q = emitter THEN aborts[q] + 1 ELSE aborts[q]
        BY <3>2, <4>1
      <4> QED BY <3>2, <4>1, <4>2
    <3> QED BY <1>3, <3>1, <3>2 DEF TaskFails
  <2> QED BY <1>1, <1>3, <2>1
    DEF TaskFails, TypeInv, TypeOK, StopsOwned, Settled, disk, ops, runs, maps
<1>4. CASE Settles(r) \/ Rejects(r)
  <2>1. PICK v \in Verdicts \union {"rejected"} : start' = [start EXCEPT ![r] = v]
    BY <1>4 DEF Settles, Rejects, GetState, Verdicts
  <2>2. UNCHANGED <<disk, ops, run, flagged, maps, stop, crashes>>
    BY <1>4 DEF Settles, Rejects
  <2>3. Settled' BY <1>1, <2>1, <2>2 DEF Settled, TypeOK, Verdicts
  <2> QED BY <1>1, <2>1, <2>2, <2>3 DEF TypeInv, TypeOK, StopsOwned, disk, ops, maps, stop
<1>5. CASE CheckOutcome(r)
  <2>1. run' \in [Run -> Steps] BY <1>1, <1>5 DEF CheckOutcome, GoTo, TypeOK, Steps
  <2>2. Settled' BY <1>1, <1>5 DEF CheckOutcome, GoTo, Settled, TypeOK
  <2> QED BY <1>1, <1>5, <2>1, <2>2
    DEF CheckOutcome, TypeInv, TypeOK, StopsOwned, disk, ops, maps, stop
<1>6. CASE ComponentFails(r)
  BY <1>1, <1>6
  DEF ComponentFails, TypeInv, TypeOK, StopsOwned, Settled, disk, ops, maps, stop
<1> QED BY <1>2, <1>3, <1>4, <1>5, <1>6

LEMMA CrashTypeInv ==
  ASSUME TypeInv, Crash
  PROVE  TypeInv'
<1>1. TypeOK /\ StopsOwned /\ Settled BY DEF TypeInv
<1>2. queue' \in Seq(Operations) BY EmptyQueue DEF Crash
<1>3. state' \in ProjectStates /\ committed' \in ProjectStates
  BY <1>1 DEF Crash, Reconciled, TypeOK, ProjectStates
<1>4. /\ run' \in [Run -> Steps]
      /\ start' \in [Run -> Verdicts \union {"none", "pending", "rejected"}]
      /\ crashes' \in Nat
  BY <1>1 DEF Crash, TypeOK, Steps
<1>5. aborts' \in [Run -> Nat] /\ stopping' \in [Stopper -> Run \union {0}]
  BY DEF Crash
<1>6. TypeOK' BY <1>1, <1>2, <1>3, <1>4, <1>5 DEF Crash, TypeOK
<1>7. StopsOwned' BY DEF Crash, StopsOwned, Stopper
<1>8. Settled' BY DEF Crash, Settled
<1> QED BY <1>6, <1>7, <1>8 DEF TypeInv

LEMMA NextTypeInv == TypeInv /\ [Next]_vars => TypeInv'
<1> SUFFICES ASSUME TypeInv, [Next]_vars PROVE TypeInv' OBVIOUS
<1>1. CASE \/ \E o \in Asked : Submit(o)
           \/ TakeOperation \/ RunProject \/ ForceStopped \/ CleanProject
           \/ RevertProject \/ SaveProject
  BY <1>1, OperationTypeInv
<1>2. CASE \E s \in Stopper : BeginStop(s) \/ EndStop(s)
  BY <1>2, BeginStopTypeInv, EndStopTypeInv
<1>3. ASSUME NEW r \in Run,
             \/ Prepare(r) \/ Connect(r) \/ PreparationFails(r) \/ Register(r)
             \/ Leave(r) \/ Release(r) \/ AwaitAborts(r) \/ Close(r) \/ WriteOutcome(r)
      PROVE  TypeInv'
  BY <1>3, RunTypeInv
<1>4. ASSUME NEW r \in Run,
             \/ BeginRunning(r) \/ ComponentFails(r) \/ TaskFails(r) \/ Settles(r)
             \/ Rejects(r) \/ CheckOutcome(r)
      PROVE  TypeInv'
  BY <1>4, StartTypeInv
<1>5. CASE Crash BY <1>5, CrashTypeInv
<1>6. CASE UNCHANGED vars
  BY <1>6 DEF vars, disk, ops, runs, maps, stop, TypeInv, TypeOK, StopsOwned, Settled
<1> QED BY <1>1, <1>2, <1>3, <1>4, <1>5, <1>6 DEF Next

\* Every variable of the project's life cycle keeps its type: the state written
\* to prj.wheel.json is always a state the client and allowedOperations know,
\* and no stop takes more entries off the chain of a run than were put on it.
THEOREM TypeCorrect == Spec => []TypeOK
<1>1. TypeInv => TypeOK BY DEF TypeInv
<1> QED BY <1>1, InitTypeInv, NextTypeInv, PTL DEF Spec

-----------------------------------------------------------------------------
(* What holds as long as the users ask only for what the client offers: the *)
(* buttons of a project that is at work are disabled, so the next operation *)
(* is submitted when the one before is done and no run is on its way to     *)
(* start() or back from it (Quiet).                                         *)

Active(r) == run[r] \notin {"none", "ended"}
Before == {"none", "accepted", "preparing", "connected", "registered"}
Ready == {"not-started", "stopped", "failed", "unknown"}

AtRest ==
  /\ \A r \in Run : ~Active(r) /\ aborts[r] = 0
  /\ \A s \in Stopper : stopping[s] = 0

Idle == operation = "none" /\ queue = <<>>

\* One run at a time.
OneRun == \A r, q \in Run : Active(r) /\ Active(q) => r = q

\* One operation at a time; all but a stop find the project at rest.
OneRequest ==
  /\ queue # <<>> => operation = "none" /\ Len(queue) = 1
  /\ queue # <<>> /\ Head(queue) # "stopProject" => AtRest
  /\ operation \notin {"none", "stopProject", "forcing"} => AtRest

\* The user's stop forces the state when no dispatcher is left at work.
Forcing == operation = "forcing" => \A r \in Run : start[r] # "pending"

\* A run whose dispatcher is not started has left no trace.
Untouched ==
  \A r \in Run : run[r] \in Before =>
    /\ start[r] = "none" /\ r \notin flagged /\ removers[r] = {} /\ aborts[r] = 0
    /\ \A s \in Stopper : stopping[s] # r
    /\ current = r <=> run[r] = "registered"
    /\ emitter = r => run[r] = "registered"

\* Nothing but the active run, and what stops it, is going on.
Alone ==
  \A r \in Run : Active(r) =>
    /\ start[r] = "none" =>
         /\ Idle
         /\ \A q \in Run : aborts[q] = 0
         /\ \A s \in Stopper : stopping[s] = 0
    /\ start[r] # "none" => current \in {0, r}
    /\ \A q \in Run : q # r => aborts[q] = 0
    /\ stopping[User] \in {0, r}

\* The two maps: a dispatcher a run that was refused finds has been started,
\* an emitter belongs to a run.
Registered ==
  /\ current # 0 => run[current] = "registered" \/ start[current] # "none"
  /\ emitter # 0 => Active(emitter)

\* The chain of a run stops its own dispatcher.
Chains == \A r \in Run : aborts[r] > 0 => current \in {0, r}

Stops ==
  /\ \A s \in Stopper : stopping[s] # 0 =>
       s \in removers[stopping[s]] /\ s \in {User, stopping[s]}
  /\ \A r \in Run : removers[r] # {} => start[r] \notin {"none", "pending"}
  /\ stopping[User] # 0 => operation = "stopProject"

Connected ==
  \A r \in Run :
    /\ run[r] \in {"connected", "registered"} => ssh
    /\ start[r] = "pending" =>
         run[r] = "running" /\ current = r /\ ssh /\ state = "running"

\* HEAD never holds the state of a run on its way.
Committed ==
  /\ committed \in Ready
  /\ operation = "runProject" => state \in Ready

\* A dispatcher that knows of a failure does not settle without saying so, and
\* only a user's stop makes one settle with "stopped".
FailureKept ==
  \A r \in Run :
    /\ r \in flagged => start[r] \notin {"finished", "stopped"}
    /\ User \notin removers[r] => start[r] # "stopped"

\* Connections are held for a dispatcher in the map, a run that will register
\* or release, or a stop; who is in removers has not forgotten the map.
Held ==
  /\ ssh => \/ current # 0
            \/ \E r \in Run : run[r] \in {"connected", "cleaning"}
            \/ \E s \in Stopper : stopping[s] # 0
  /\ \A r \in Run : current = r /\ removers[r] # {} => \E s \in Stopper : stopping[s] = r

PatientInv ==
  /\ TypeInv
  /\ OneRun /\ OneRequest /\ Forcing /\ Untouched /\ Alone /\ Registered
  /\ Chains /\ Stops /\ Connected /\ Committed /\ FailureKept /\ Held /\ RunningIsRun

LEMMA InitPatient == Init => PatientInv
<1> SUFFICES ASSUME Init PROVE PatientInv OBVIOUS
<1>1. TypeInv BY InitTypeInv
<1>2. /\ OneRun /\ OneRequest /\ Forcing /\ Untouched /\ Alone
  BY <1>1, RunsAreNumbers
  DEF Init, OneRun, OneRequest, Forcing, Untouched, Alone, Active, Before, User
<1>3. Registered /\ Chains /\ Stops /\ Connected
  BY <1>1, RunsAreNumbers DEF Init, Registered, Chains, Stops, Connected, User
<1>4. Committed /\ FailureKept /\ Held /\ RunningIsRun
  BY RunsAreNumbers DEF Init, Committed, Ready, FailureKept, Held, RunningIsRun, User
<1> QED BY <1>1, <1>2, <1>3, <1>4 DEF PatientInv

\* The queue of operations.  A request finds the project quiet.
LEMMA SubmitKeeps ==
  ASSUME ~Hasty, PatientInv, NEW o \in Asked, Submit(o)
  PROVE  PatientInv'
<1>1. /\ TypeOK /\ StopsOwned /\ Settled
      /\ OneRun /\ OneRequest /\ Forcing /\ Untouched /\ Alone /\ Registered
      /\ Chains /\ Stops /\ Connected /\ Committed /\ FailureKept /\ Held /\ RunningIsRun
  BY DEF PatientInv, TypeInv
<1>2. OneRequest'
  <2>1. /\ queue = <<>> /\ operation = "none" /\ operation' = "none"
        /\ queue' = <<o>> /\ o \in allowedOperations[state]
    <3>1. queue = <<>> /\ operation = "none" /\ o \in allowedOperations[state]
      BY DEF Submit, Quiet
    <3>2. queue' = <<o>> BY <3>1 DEF Submit
    <3> QED BY <3>1, <3>2 DEF Submit
  <2>2. ASSUME o # "stopProject" PROVE AtRest'
    <3>1. state # "running" BY <2>1, <2>2 DEF allowedOperations, ProjectStates
    <3>2. \A r \in Run : start[r] # "pending" BY <1>1, <3>1 DEF Connected
    <3> QED BY <3>2 DEF Submit, Quiet, AtRest, Active, runs, stop
  <2> QED BY <2>1, <2>2 DEF OneRequest
<1>3. Alone' BY <1>1 DEF Submit, Quiet, disk, runs, maps, stop, Alone, Active, Idle
<1>4. /\ OneRun' /\ Forcing' /\ Untouched' /\ Registered' /\ Chains' /\ Stops'
      /\ Connected' /\ Committed' /\ FailureKept' /\ Held' /\ RunningIsRun'
  BY <1>1
  DEF Submit, Quiet, disk, runs, maps, stop, OneRun, Active, Forcing, Untouched,
      Before, Registered, Chains, Stops, Connected, Committed, Ready, FailureKept,
      Held, RunningIsRun
<1> QED BY <1>2, <1>3, <1>4, NextTypeInv DEF PatientInv, Next

LEMMA TakeOperationKeeps ==
  ASSUME ~Hasty, PatientInv, TakeOperation
  PROVE  PatientInv'
<1>1. /\ TypeOK /\ StopsOwned /\ Settled
      /\ OneRun /\ OneRequest /\ Forcing /\ Untouched /\ Alone /\ Registered
      /\ Chains /\ Stops /\ Connected /\ Committed /\ FailureKept /\ Held /\ RunningIsRun
  BY DEF PatientInv, TypeInv
<1>2. OneRequest'
  <2>1. Len(queue) = 1 BY <1>1 DEF TakeOperation, OneRequest
  <2>2. queue' = <<>> BY <1>1, <2>1 DEF TakeOperation, TypeOK
  <2>3. operation' \in {"none", Head(queue)} BY DEF TakeOperation
  <2> QED BY <1>1, <2>2, <2>3
    DEF TakeOperation, OneRequest, AtRest, Active, runs, stop
<1>3. Forcing'
  <2>1. operation' \in Operations \union {"none"} BY <1>1 DEF TakeOperation, TypeOK
  <2> QED BY <2>1 DEF Forcing, Operations
<1>4. Alone' BY <1>1 DEF TakeOperation, disk, runs, maps, stop, Alone, Active, Idle
<1>5. Stops' BY <1>1 DEF TakeOperation, disk, runs, maps, stop, Stops
<1>6. Committed'
  <2>1. "runProject" \in allowedOperations[state] => state \in Ready
    BY <1>1 DEF TypeOK, allowedOperations, ProjectStates, Ready
  <2> QED BY <1>1, <2>1 DEF TakeOperation, Committed, disk
<1>7. /\ OneRun' /\ Untouched' /\ Registered' /\ Chains' /\ Connected' /\ FailureKept'
      /\ Held' /\ RunningIsRun'
  BY <1>1
  DEF TakeOperation, disk, runs, maps, stop, OneRun, Active, Untouched, Before,
      Registered, Chains, Connected, FailureKept, Held, RunningIsRun
<1> QED BY <1>2, <1>3, <1>4, <1>5, <1>6, <1>7, NextTypeInv DEF PatientInv, Next

LEMMA RunProjectKeeps ==
  ASSUME ~Hasty, PatientInv, RunProject
  PROVE  PatientInv'
<1>1. /\ TypeOK /\ StopsOwned /\ Settled
      /\ OneRun /\ OneRequest /\ Forcing /\ Untouched /\ Alone /\ Registered
      /\ Chains /\ Stops /\ Connected /\ Committed /\ FailureKept /\ Held /\ RunningIsRun
  BY DEF PatientInv, TypeInv
<1>2. OneRun'
  <2>1. \A q \in Run : ~Active(q) BY <1>1 DEF RunProject, OneRequest, AtRest
  <2>2. run' = run \/ \E r \in Run : run' = [run EXCEPT ![r] = "accepted"] BY DEF RunProject
  <2> QED BY <1>1, <2>1, <2>2 DEF OneRun, Active, TypeOK
<1>3. OneRequest' BY <1>1 DEF RunProject, maps, stop, OneRequest, AtRest, Active
<1>4. Forcing' BY <1>1 DEF RunProject, maps, stop, Forcing, OneRequest, AtRest, Active
<1>5. Untouched'
  BY <1>1, RunsAreNumbers
  DEF RunProject, maps, stop, Untouched, Before, OneRequest, AtRest, Active, TypeOK,
      Stopper, User
<1>6. Alone'
  <2>1. /\ AtRest /\ operation' = "none" /\ queue' = <<>>
        /\ UNCHANGED <<start, aborts, stopping>>
    BY <1>1 DEF RunProject, OneRequest, stop
  <2>2. run' = run \/ \E r \in Run : run[r] = "none" /\ run' = [run EXCEPT ![r] = "accepted"]
    BY DEF RunProject
  <2>3. \A r \in Run : run'[r] \notin {"none", "ended"} => start[r] = "none"
    BY <1>1, <2>1, <2>2 DEF AtRest, Active, Untouched, Before, TypeOK
  <2> QED BY <2>1, <2>3 DEF Alone, Active, AtRest, Idle, Stopper
<1>7. Registered'
  BY <1>1, RunsAreNumbers
  DEF RunProject, maps, stop, Registered, Active, OneRequest, AtRest, TypeOK,
      Stopper, User
<1>8. Stops' BY <1>1 DEF RunProject, maps, stop, Stops, OneRequest, AtRest, Active
<1>9. Connected'
  BY <1>1, RunsAreNumbers
  DEF RunProject, maps, stop, Connected, OneRequest, AtRest, Active, TypeOK,
      Stopper, User
<1>10. Committed'
  BY <1>1 DEF RunProject, maps, stop, Committed, Ready, OneRequest, AtRest, Active
<1>11. Held' BY <1>1 DEF RunProject, maps, stop, Held, OneRequest, AtRest, Active
<1>12. RunningIsRun'
  BY <1>1 DEF RunProject, maps, stop, RunningIsRun, OneRequest, AtRest, Active
<1>13. Chains' /\ FailureKept' BY <1>1 DEF RunProject, maps, stop, Chains, FailureKept
<1> QED BY <1>2, <1>3, <1>4, <1>5, <1>6, <1>7, <1>8, <1>9, <1>10, <1>11, <1>12, <1>13,
           NextTypeInv DEF PatientInv, Next

LEMMA ForceStoppedKeeps ==
  ASSUME ~Hasty, PatientInv, ForceStopped
  PROVE  PatientInv'
<1>1. /\ TypeOK /\ StopsOwned /\ Settled
      /\ OneRun /\ OneRequest /\ Forcing /\ Untouched /\ Alone /\ Registered
      /\ Chains /\ Stops /\ Connected /\ Committed /\ FailureKept /\ Held /\ RunningIsRun
  BY DEF PatientInv, TypeInv
<1>2. OneRequest' BY <1>1 DEF ForceStopped, runs, maps, stop, OneRequest, AtRest, Active
<1>3. Forcing' BY <1>1 DEF ForceStopped, runs, maps, stop, Forcing
<1>4. Alone' BY <1>1 DEF ForceStopped, runs, maps, stop, Alone, Active, Idle
<1>5. Stops' BY <1>1 DEF ForceStopped, runs, maps, stop, Stops
<1>6. Connected' BY <1>1 DEF ForceStopped, runs, maps, stop, Connected, Forcing
<1>7. Committed' BY <1>1 DEF ForceStopped, runs, maps, stop, Committed, Ready
<1>8. RunningIsRun' BY <1>1 DEF ForceStopped, runs, maps, stop, RunningIsRun
<1>9. OneRun' /\ Untouched' /\ Registered' /\ Chains' /\ FailureKept' /\ Held'
  BY <1>1
  DEF ForceStopped, runs, maps, stop, OneRun, Active, Untouched, Before, Registered,
      Chains, FailureKept, Held
<1> QED BY <1>2, <1>3, <1>4, <1>5, <1>6, <1>7, <1>8, <1>9, NextTypeInv DEF PatientInv,
           Next

LEMMA CleanProjectKeeps ==
  ASSUME ~Hasty, PatientInv, CleanProject
  PROVE  PatientInv'
<1>1. /\ TypeOK /\ StopsOwned /\ Settled
      /\ OneRun /\ OneRequest /\ Forcing /\ Untouched /\ Alone /\ Registered
      /\ Chains /\ Stops /\ Connected /\ Committed /\ FailureKept /\ Held /\ RunningIsRun
  BY DEF PatientInv, TypeInv
<1>2. OneRequest' BY <1>1 DEF CleanProject, runs, stop, OneRequest, AtRest, Active
<1>3. Forcing' BY <1>1 DEF CleanProject, runs, stop, Forcing, OneRequest, AtRest, Active
<1>4. Alone'
  BY <1>1 DEF CleanProject, runs, stop, Alone, Active, Idle, OneRequest, AtRest
<1>5. Stops' BY <1>1 DEF CleanProject, runs, stop, Stops, OneRequest, AtRest, Active
<1>6. Connected'
  BY <1>1 DEF CleanProject, runs, stop, Connected, OneRequest, AtRest, Active
<1>7. Committed'
  BY <1>1 DEF CleanProject, runs, stop, Committed, Ready, OneRequest, AtRest, Active
<1>8. Held'
  <2>1. (ssh' => ssh) /\ UNCHANGED <<current, run, stopping, removers>>
    <3>1. ssh' = ssh \/ ssh' = FALSE BY DEF CleanProject
    <3> QED BY <3>1 DEF CleanProject, runs, stop
  <2> QED BY <1>1, <2>1 DEF Held
<1>9. RunningIsRun'
  BY <1>1
  DEF CleanProject, runs, stop, RunningIsRun, Committed, Ready, OneRequest, AtRest,
      Active
<1>10. OneRun' /\ Untouched' /\ Registered' /\ Chains' /\ FailureKept'
  BY <1>1
  DEF CleanProject, runs, stop, OneRun, Active, Untouched, Before, Registered,
      Chains, FailureKept
<1> QED BY <1>2, <1>3, <1>4, <1>5, <1>6, <1>7, <1>8, <1>9, <1>10, NextTypeInv DEF
           PatientInv, Next

LEMMA RevertProjectKeeps ==
  ASSUME ~Hasty, PatientInv, RevertProject
  PROVE  PatientInv'
<1>1. /\ TypeOK /\ StopsOwned /\ Settled
      /\ OneRun /\ OneRequest /\ Forcing /\ Untouched /\ Alone /\ Registered
      /\ Chains /\ Stops /\ Connected /\ Committed /\ FailureKept /\ Held /\ RunningIsRun
  BY DEF PatientInv, TypeInv
<1>2. OneRequest'
  BY <1>1 DEF RevertProject, runs, maps, stop, OneRequest, AtRest, Active
<1>3. Forcing'
  BY <1>1 DEF RevertProject, runs, maps, stop, Forcing, OneRequest, AtRest, Active
<1>4. Alone'
  BY <1>1 DEF RevertProject, runs, maps, stop, Alone, Active, Idle, OneRequest, AtRest
<1>5. Stops'
  BY <1>1 DEF RevertProject, runs, maps, stop, Stops, OneRequest, AtRest, Active
<1>6. Connected'
  BY <1>1 DEF RevertProject, runs, maps, stop, Connected, OneRequest, AtRest, Active
<1>7. Committed'
  BY <1>1
  DEF RevertProject, runs, maps, stop, Committed, Ready, OneRequest, AtRest, Active
<1>8. RunningIsRun'
  BY <1>1
  DEF RevertProject, runs, maps, stop, RunningIsRun, Committed, Ready, OneRequest,
      AtRest, Active
<1>9. OneRun' /\ Untouched' /\ Registered' /\ Chains' /\ FailureKept' /\ Held'
  BY <1>1
  DEF RevertProject, runs, maps, stop, OneRun, Active, Untouched, Before,
      Registered, Chains, FailureKept, Held
<1> QED BY <1>2, <1>3, <1>4, <1>5, <1>6, <1>7, <1>8, <1>9, NextTypeInv DEF PatientInv,
           Next

LEMMA SaveProjectKeeps ==
  ASSUME ~Hasty, PatientInv, SaveProject
  PROVE  PatientInv'
<1>1. /\ TypeOK /\ StopsOwned /\ Settled
      /\ OneRun /\ OneRequest /\ Forcing /\ Untouched /\ Alone /\ Registered
      /\ Chains /\ Stops /\ Connected /\ Committed /\ FailureKept /\ Held /\ RunningIsRun
  BY DEF PatientInv, TypeInv
<1>2. OneRequest'
  BY <1>1 DEF SaveProject, disk, runs, maps, stop, OneRequest, AtRest, Active
<1>3. Forcing'
  BY <1>1 DEF SaveProject, disk, runs, maps, stop, Forcing, OneRequest, AtRest, Active
<1>4. Alone'
  BY <1>1
  DEF SaveProject, disk, runs, maps, stop, Alone, Active, Idle, OneRequest, AtRest
<1>5. Stops'
  BY <1>1 DEF SaveProject, disk, runs, maps, stop, Stops, OneRequest, AtRest, Active
<1>6. Connected'
  BY <1>1 DEF SaveProject, disk, runs, maps, stop, Connected, OneRequest, AtRest, Active
<1>7. Committed'
  BY <1>1
  DEF SaveProject, disk, runs, maps, stop, Committed, Ready, OneRequest, AtRest,
      Active
<1>8. RunningIsRun'
  BY <1>1
  DEF SaveProject, disk, runs, maps, stop, RunningIsRun, OneRequest, AtRest, Active
<1>9. OneRun' /\ Untouched' /\ Registered' /\ Chains' /\ FailureKept' /\ Held'
  BY <1>1
  DEF SaveProject, disk, runs, maps, stop, OneRun, Active, Untouched, Before,
      Registered, Chains, FailureKept, Held
<1> QED BY <1>2, <1>3, <1>4, <1>5, <1>6, <1>7, <1>8, <1>9, NextTypeInv DEF PatientInv,
           Next

\* A stop that finds a dispatcher in the map finds the one that is at work, or
\* was last: it was started, and the only chain that stops it is its own.
LEMMA StopFindsDispatcher ==
  ASSUME ~Hasty, PatientInv, NEW s \in Stopper, BeginStop(s), current # 0
  PROVE  PatientInv'
<1>1. /\ TypeOK /\ StopsOwned /\ Settled
      /\ OneRun /\ OneRequest /\ Forcing /\ Untouched /\ Alone /\ Registered
      /\ Chains /\ Stops /\ Connected /\ Committed /\ FailureKept /\ Held /\ RunningIsRun
  BY DEF PatientInv, TypeInv
<1>2. current \in Run /\ (s = User \/ s \in Run)
  BY <1>1 DEF TypeOK, Stopper
<1>3. PICK v \in GetState(current \in flagged', TRUE) : RemoveDispatcher(s, current, v)
  BY DEF BeginStop
<1>4. /\ UNCHANGED <<disk, queue, operation, run, current, emitter, ssh, aborts, crashes>>
      /\ flagged' = Reason(s, current)
      /\ start' = [start EXCEPT ![current] = IF @ = "pending" THEN v ELSE @]
      /\ stopping' = [stopping EXCEPT ![s] = current]
      /\ removers' = [removers EXCEPT ![current] = @ \union {s}]
      /\ s = User => operation = "stopProject"
      /\ s \in Run => aborts[s] > 0
  BY <1>3, RunsAreNumbers DEF BeginStop, RemoveDispatcher
<1>5. /\ v \in {"failed", "unknown", "stopped"}
      /\ v = "stopped" => current \notin flagged'
  BY <1>3 DEF GetState
<1>6. s \in {User, current}
  BY <1>1, <1>2, <1>4 DEF Chains
<1>7. start[current] # "none" /\ run[current] \notin Before
  <2>1. run[current] # "registered"
    <3> SUFFICES ASSUME run[current] = "registered" PROVE FALSE OBVIOUS
    <3>1. start[current] = "none" /\ Active(current)
      BY <1>1, <1>2 DEF Untouched, Before, Active
    <3>2. operation = "none" /\ \A q \in Run : aborts[q] = 0
      BY <1>1, <1>2, <3>1 DEF Alone, Idle
    <3> QED BY <1>2, <1>4, <3>2 DEF User
  <2>2. start[current] # "none" BY <1>1, <2>1 DEF Registered
  <2> QED BY <1>1, <1>2, <2>2 DEF Untouched
<1>8. /\ start'[current] \notin {"none", "pending"}
      /\ \A q \in Run : q # current => start'[q] = start[q] /\ removers'[q] = removers[q]
      /\ \A q \in Run : start'[q] = "none" <=> start[q] = "none"
      /\ \A q \in Run : start'[q] = "pending" => start[q] = "pending"
      /\ removers'[current] = removers[current] \union {s}
      /\ stopping'[s] = current
      /\ \A t \in Stopper : t # s => stopping'[t] = stopping[t]
  BY <1>1, <1>2, <1>4, <1>5, <1>7 DEF TypeOK
<1>9. s \in Run => ~AtRest
  BY <1>4 DEF AtRest
<1>10. OneRequest' BY <1>1, <1>2, <1>4, <1>9 DEF OneRequest
<1>11. Forcing' BY <1>1, <1>4, <1>8 DEF Forcing
<1>12. Untouched' BY <1>1, <1>2, <1>4, <1>7, <1>8 DEF Untouched, Before, Reason
<1>13. Alone'
  <2>1. \A q \in Run : Active(q) => start[q] # "none" /\ q = current
    BY <1>1, <1>2, <1>4 DEF Alone, Idle, User
  <2> QED BY <1>1, <1>4, <1>6, <1>8, <2>1 DEF Alone, Active, Stopper
<1>14. Registered' /\ Chains' BY <1>1, <1>2, <1>4, <1>8 DEF Registered, Chains, Active
<1>15. Stops' BY <1>1, <1>2, <1>4, <1>6, <1>8 DEF Stops, TypeOK
<1>16. Connected' BY <1>1, <1>4, <1>8 DEF Connected, disk
<1>17. FailureKept'
  <2>1. \A q \in Run : q # current => (q \in flagged' <=> q \in flagged)
    BY <1>4 DEF Reason
  <2>2. CASE start[current] = "pending"
    <3>1. start'[current] = v BY <1>1, <1>2, <1>4, <2>2 DEF TypeOK
    <3>2. s # User => current \in flagged' BY <1>4, <2>2 DEF Reason
    <3> QED BY <1>1, <1>2, <1>5, <1>8, <2>1, <3>1, <3>2 DEF FailureKept
  <2>3. CASE start[current] # "pending"
    <3>1. start' = start /\ flagged' = flagged
      BY <1>1, <1>2, <1>4, <1>7, <2>3 DEF Reason, TypeOK
    <3> QED BY <1>1, <1>2, <1>8, <3>1 DEF FailureKept
  <2> QED BY <2>2, <2>3
<1>18. Held' BY <1>1, <1>2, <1>4, <1>8, RunsAreNumbers DEF Held, User
<1>19. OneRun' /\ Committed' /\ RunningIsRun'
  BY <1>1, <1>4 DEF OneRun, Active, Committed, RunningIsRun, disk
<1> QED BY <1>10, <1>11, <1>12, <1>13, <1>14, <1>15, <1>16, <1>17, <1>18, <1>19,
           NextTypeInv DEF PatientInv, Next

\* What the caller of stopProject() does next.
LEMMA CallerStep ==
  ASSUME TypeInv, NEW s \in Stopper, CallerGoesOn(s), s \in Run => aborts[s] > 0
  PROVE  /\ \A q \in Run : q # s => aborts'[q] = aborts[q]
         /\ \A q \in Run : aborts'[q] > 0 => aborts[q] > 0
         /\ \A q \in Run : aborts[q] = 0 => aborts'[q] = 0
         /\ s = User => operation' = "forcing"
         /\ s # User => operation' = operation
<1>1. aborts \in [Run -> Nat] BY DEF TypeInv, TypeOK
<1>2. s = User \/ s \in Run BY DEF Stopper
<1> QED BY <1>1, <1>2, RunsAreNumbers DEF CallerGoesOn

\* A stop that finds no dispatcher tears down what no run uses any more.
LEMMA StopFindsNone ==
  ASSUME ~Hasty, PatientInv, NEW s \in Stopper, BeginStop(s), current = 0
  PROVE  PatientInv'
<1>1. /\ TypeOK /\ StopsOwned /\ Settled
      /\ OneRun /\ OneRequest /\ Forcing /\ Untouched /\ Alone /\ Registered
      /\ Chains /\ Stops /\ Connected /\ Committed /\ FailureKept /\ Held /\ RunningIsRun
  BY DEF PatientInv, TypeInv
<1>2. /\ UNCHANGED <<disk, queue, runs, current, emitter, stopping, removers, crashes>>
      /\ stopping[s] = 0 /\ ssh' = FALSE /\ CallerGoesOn(s)
      /\ s = User => operation = "stopProject"
      /\ s \in Run => aborts[s] > 0
  BY RunsAreNumbers DEF BeginStop, runs
<1>3. s = User \/ s \in Run BY DEF Stopper
<1>4. /\ \A q \in Run : aborts'[q] > 0 => aborts[q] > 0
      /\ \A q \in Run : aborts[q] = 0 => aborts'[q] = 0
      /\ s = User => operation' = "forcing"
      /\ s # User => operation' = operation
  BY <1>2, CallerStep DEF PatientInv
<1>5. \A q \in Run : Active(q) => start[q] # "none"
  BY <1>1, <1>2, <1>3 DEF Alone, Idle
<1>6. \A q \in Run : start[q] # "pending" /\ run[q] \notin {"connected", "registered"}
  BY <1>1, <1>5, RunsAreNumbers DEF Connected, Untouched, Before, Active, User
<1>7. OneRequest'
  BY <1>1, <1>2, <1>3, <1>4, RunsAreNumbers DEF OneRequest, AtRest, Active, runs
<1>8. Untouched' BY <1>1, <1>2, <1>4 DEF Untouched, Before, runs
<1>9. Alone' BY <1>1, <1>2, <1>4, <1>5 DEF Alone, Active, runs
<1>10. Registered' /\ Chains'
  BY <1>1, <1>2, <1>4 DEF Registered, Chains, Active, runs
<1>11. Connected' /\ Forcing' BY <1>2, <1>6 DEF Connected, Forcing, runs
<1>12. Stops' BY <1>1, <1>2, <1>3, <1>4 DEF Stops, runs, Alone
<1>13. Committed' BY <1>1, <1>2, <1>3, <1>4 DEF Committed, disk
<1>14. Held' BY <1>1, <1>2 DEF Held
<1>15. OneRun' /\ FailureKept' /\ RunningIsRun'
  BY <1>1, <1>2 DEF OneRun, Active, FailureKept, RunningIsRun, runs, disk
<1> QED BY <1>7, <1>8, <1>9, <1>10, <1>11, <1>12, <1>13, <1>14, <1>15,
           NextTypeInv DEF PatientInv, Next

\* The stop is over: the map is empty and nothing is connected.
LEMMA EndStopKeeps ==
  ASSUME ~Hasty, PatientInv, NEW s \in Stopper, EndStop(s)
  PROVE  PatientInv'
<1>1. /\ TypeOK /\ StopsOwned /\ Settled
      /\ OneRun /\ OneRequest /\ Forcing /\ Untouched /\ Alone /\ Registered
      /\ Chains /\ Stops /\ Connected /\ Committed /\ FailureKept /\ Held /\ RunningIsRun
  BY DEF PatientInv, TypeInv
<1>2. /\ UNCHANGED <<disk, queue, runs, emitter, removers, crashes>>
      /\ stopping[s] # 0 /\ stopping' = [stopping EXCEPT ![s] = 0]
      /\ current' = 0 /\ ssh' = FALSE /\ CallerGoesOn(s)
  BY DEF EndStop
<1>3. /\ s = User \/ s \in Run
      /\ s \in Run => aborts[s] > 0
      /\ s = User => operation = "stopProject"
  BY <1>1, <1>2 DEF Stopper, StopsOwned, Stops
<1>4. /\ \A q \in Run : aborts'[q] > 0 => aborts[q] > 0
      /\ \A q \in Run : aborts[q] = 0 => aborts'[q] = 0
      /\ s = User => operation' = "forcing"
      /\ s # User => operation' = operation
  BY <1>2, <1>3, CallerStep DEF PatientInv
<1>5. /\ stopping'[s] = 0
      /\ \A t \in Stopper : t # s => stopping'[t] = stopping[t]
  BY <1>1, <1>2 DEF TypeOK
<1>6. \A q \in Run : Active(q) => start[q] # "none"
  BY <1>1, <1>2 DEF Alone
<1>7. \A q \in Run : run[q] \notin {"connected", "registered"} /\ start[q] # "pending"
  <2>1. \A q \in Run : run[q] \notin {"connected", "registered"}
    BY <1>1, <1>6 DEF Untouched, Before, Active
  <2>2. ASSUME NEW q \in Run, start[q] = "pending" PROVE FALSE
    <3>1. Active(q) /\ removers[q] = {}
      BY <1>1, <2>2 DEF Connected, Active, Stops
    <3>2. stopping[s] # q BY <1>1, <3>1, <2>2, RunsAreNumbers DEF Stops, User
    <3> QED BY <1>1, <1>2, <1>3, <3>1, <3>2 DEF Alone, Stops
  <2> QED BY <2>1, <2>2
<1>8. OneRequest'
  BY <1>1, <1>2, <1>3, <1>4, RunsAreNumbers DEF OneRequest, AtRest, Active, runs
<1>9. Untouched'
  BY <1>1, <1>2, <1>4, <1>5, <1>7, RunsAreNumbers DEF Untouched, Before, runs, Stopper, User
<1>10. Alone' BY <1>1, <1>2, <1>4, <1>5, <1>6 DEF Alone, Active, runs, Stopper
<1>11. Registered' /\ Chains' BY <1>1, <1>2, <1>4 DEF Registered, Chains, Active, runs
<1>12. Connected' /\ Forcing' BY <1>2, <1>7 DEF Connected, Forcing, runs
<1>13. Stops' BY <1>1, <1>2, <1>3, <1>4, <1>5 DEF Stops, runs, Stopper
<1>14. Committed' BY <1>1, <1>2, <1>3, <1>4 DEF Committed, disk
<1>15. Held' BY <1>2, RunsAreNumbers DEF Held, User
<1>16. OneRun' /\ FailureKept' /\ RunningIsRun'
  BY <1>1, <1>2 DEF OneRun, Active, FailureKept, RunningIsRun, runs, disk
<1> QED BY <1>8, <1>9, <1>10, <1>11, <1>12, <1>13, <1>14, <1>15, <1>16,
           NextTypeInv DEF PatientInv, Next

\* A run on its way to start(): no other run, no stop, no operation.
LEMMA PrepareKeeps ==
  ASSUME ~Hasty, PatientInv, NEW r \in Run, Prepare(r)
  PROVE  PatientInv'
<1>1. /\ TypeOK /\ StopsOwned /\ Settled
      /\ OneRun /\ OneRequest /\ Forcing /\ Untouched /\ Alone /\ Registered
      /\ Chains /\ Stops /\ Connected /\ Committed /\ FailureKept /\ Held /\ RunningIsRun
  BY DEF PatientInv, TypeInv
<1>2. OneRun'
  BY <1>1
  DEF Prepare, GoTo, ops, maps, stop, OneRun, Active, Untouched, Before, Alone, Idle
<1>3. OneRequest'
  BY <1>1
  DEF Prepare, GoTo, ops, maps, stop, OneRequest, AtRest, Active, OneRun, Untouched,
      Before, Alone, Idle
<1>4. Untouched'
  BY <1>1
  DEF Prepare, GoTo, ops, maps, stop, Untouched, Before, OneRun, Active, Alone, Idle
<1>5. Alone'
  BY <1>1
  DEF Prepare, GoTo, ops, maps, stop, Alone, Active, Idle, OneRun, Untouched, Before
<1>6. Registered'
  BY <1>1
  DEF Prepare, GoTo, ops, maps, stop, Registered, Active, OneRun, Untouched, Before,
      Alone, Idle
<1>7. Connected'
  BY <1>1
  DEF Prepare, GoTo, ops, maps, stop, Connected, OneRun, Active, Untouched, Before,
      Alone, Idle
<1>8. Committed'
  BY <1>1
  DEF Prepare, GoTo, ops, maps, stop, Committed, Ready, OneRun, Active, Untouched,
      Before, Alone, Idle
<1>9. Held'
  BY <1>1
  DEF Prepare, GoTo, ops, maps, stop, Held, OneRun, Active, Untouched, Before,
      Alone, Idle
<1>10. RunningIsRun'
  BY <1>1
  DEF Prepare, GoTo, ops, maps, stop, RunningIsRun, OneRun, Active, Untouched,
      Before, Alone, Idle
<1>11. Forcing' /\ Chains' /\ Stops' /\ FailureKept'
  BY <1>1 DEF Prepare, GoTo, ops, maps, stop, Forcing, Chains, Stops, FailureKept
<1> QED BY <1>2, <1>3, <1>4, <1>5, <1>6, <1>7, <1>8, <1>9, <1>10, <1>11, NextTypeInv
           DEF PatientInv, Next

LEMMA ConnectKeeps ==
  ASSUME ~Hasty, PatientInv, NEW r \in Run, Connect(r)
  PROVE  PatientInv'
<1>1. /\ TypeOK /\ StopsOwned /\ Settled
      /\ OneRun /\ OneRequest /\ Forcing /\ Untouched /\ Alone /\ Registered
      /\ Chains /\ Stops /\ Connected /\ Committed /\ FailureKept /\ Held /\ RunningIsRun
  BY DEF PatientInv, TypeInv
<1>2. OneRun'
  BY <1>1
  DEF Connect, GoTo, disk, ops, stop, OneRun, Active, Untouched, Before, Alone, Idle
<1>3. OneRequest'
  BY <1>1
  DEF Connect, GoTo, disk, ops, stop, OneRequest, AtRest, Active, OneRun, Untouched,
      Before, Alone, Idle
<1>4. Untouched'
  BY <1>1
  DEF Connect, GoTo, disk, ops, stop, Untouched, Before, OneRun, Active, Alone, Idle
<1>5. Alone'
  BY <1>1
  DEF Connect, GoTo, disk, ops, stop, Alone, Active, Idle, OneRun, Untouched, Before
<1>6. Registered'
  BY <1>1
  DEF Connect, GoTo, disk, ops, stop, Registered, Active, OneRun, Untouched, Before,
      Alone, Idle
<1>7. Connected'
  BY <1>1
  DEF Connect, GoTo, disk, ops, stop, Connected, OneRun, Active, Untouched, Before,
      Alone, Idle
<1>8. Held'
  BY <1>1, RunsAreNumbers
  DEF Connect, GoTo, disk, ops, stop, Held, OneRun, Active, Untouched, Before,
      Alone, Idle, TypeOK, Stopper, User
<1>9. RunningIsRun'
  BY <1>1
  DEF Connect, GoTo, disk, ops, stop, RunningIsRun, OneRun, Active, Untouched,
      Before, Alone, Idle
<1>10. Forcing' /\ Chains' /\ Stops' /\ Committed' /\ FailureKept'
  BY <1>1
  DEF Connect, GoTo, disk, ops, stop, Forcing, Chains, Stops, Committed, Ready,
      FailureKept
<1> QED BY <1>2, <1>3, <1>4, <1>5, <1>6, <1>7, <1>8, <1>9, <1>10, NextTypeInv DEF
           PatientInv, Next

LEMMA PreparationFailsKeeps ==
  ASSUME ~Hasty, PatientInv, NEW r \in Run, PreparationFails(r)
  PROVE  PatientInv'
<1>1. /\ TypeOK /\ StopsOwned /\ Settled
      /\ OneRun /\ OneRequest /\ Forcing /\ Untouched /\ Alone /\ Registered
      /\ Chains /\ Stops /\ Connected /\ Committed /\ FailureKept /\ Held /\ RunningIsRun
  BY DEF PatientInv, TypeInv
<1>2. OneRun'
  BY <1>1
  DEF PreparationFails, GoTo, ops, stop, OneRun, Active, Untouched, Before, Alone,
      Idle
<1>3. OneRequest'
  BY <1>1
  DEF PreparationFails, GoTo, ops, stop, OneRequest, AtRest, Active, OneRun,
      Untouched, Before, Alone, Idle
<1>4. Untouched'
  BY <1>1
  DEF PreparationFails, GoTo, ops, stop, Untouched, Before, OneRun, Active, Alone,
      Idle
<1>5. Alone'
  BY <1>1
  DEF PreparationFails, GoTo, ops, stop, Alone, Active, Idle, OneRun, Untouched,
      Before
<1>6. Registered'
  BY <1>1
  DEF PreparationFails, GoTo, ops, stop, Registered, Active, OneRun, Untouched,
      Before, Alone, Idle
<1>7. Connected'
  BY <1>1, RunsAreNumbers
  DEF PreparationFails, GoTo, ops, stop, Connected, OneRun, Active, Untouched,
      Before, Alone, Idle, TypeOK, Stopper, User
<1>8. Committed'
  BY <1>1
  DEF PreparationFails, GoTo, ops, stop, Committed, Ready, OneRun, Active,
      Untouched, Before, Alone, Idle
<1>9. Held'
  BY <1>1
  DEF PreparationFails, GoTo, ops, stop, Held, OneRun, Active, Untouched, Before,
      Alone, Idle
<1>10. RunningIsRun'
  BY <1>1
  DEF PreparationFails, GoTo, ops, stop, RunningIsRun, OneRun, Active, Untouched,
      Before, Alone, Idle
<1>11. Forcing' /\ Chains' /\ Stops' /\ FailureKept'
  BY <1>1 DEF PreparationFails, GoTo, ops, stop, Forcing, Chains, Stops, FailureKept
<1> QED BY <1>2, <1>3, <1>4, <1>5, <1>6, <1>7, <1>8, <1>9, <1>10, <1>11, NextTypeInv
           DEF PatientInv, Next

LEMMA RegisterKeeps ==
  ASSUME ~Hasty, PatientInv, NEW r \in Run, Register(r)
  PROVE  PatientInv'
<1>1. /\ TypeOK /\ StopsOwned /\ Settled
      /\ OneRun /\ OneRequest /\ Forcing /\ Untouched /\ Alone /\ Registered
      /\ Chains /\ Stops /\ Connected /\ Committed /\ FailureKept /\ Held /\ RunningIsRun
  BY DEF PatientInv, TypeInv
<1>2. /\ run'[r] \in {"finishing", "registered"}
      /\ \A q \in Run : q # r => run'[q] = run[q]
  BY <1>1 DEF Register, GoTo, TypeOK
<1>3. OneRun' BY <1>1, <1>2 DEF OneRun, Active, Register
<1>4. OneRequest'
  BY <1>1
  DEF Register, GoTo, disk, ops, stop, OneRequest, AtRest, Active, OneRun,
      Untouched, Before, Alone, Idle
<1>5. Untouched'
  BY <1>1, RunsAreNumbers
  DEF Register, GoTo, disk, ops, stop, Untouched, Before, OneRun, Active, Alone,
      Idle, TypeOK, Stopper, User
<1>6. Alone'
  <2>1. start[r] = "none" /\ Active(r) BY <1>1 DEF Register, Untouched, Before, Active
  <2>2. UNCHANGED <<start, operation, queue, aborts, stopping>> BY DEF Register, ops, stop
  <2>3. \A q \in Run : q # r => ~Active(q) /\ ~Active(q)'
    BY <1>1, <1>2, <2>1 DEF OneRun, Active
  <2> QED BY <1>1, <2>1, <2>2, <2>3 DEF Alone, Idle, Stopper
<1>7. Registered'
  BY <1>1, RunsAreNumbers
  DEF Register, GoTo, disk, ops, stop, Registered, Active, OneRun, Untouched,
      Before, Alone, Idle, TypeOK, Stopper, User
<1>8. Chains'
  BY <1>1
  DEF Register, GoTo, disk, ops, stop, Chains, OneRun, Active, Untouched, Before,
      Alone, Idle
<1>9. Connected'
  BY <1>1
  DEF Register, GoTo, disk, ops, stop, Connected, OneRun, Active, Untouched, Before,
      Alone, Idle
<1>10. Held'
  BY <1>1
  DEF Register, GoTo, disk, ops, stop, Held, OneRun, Active, Untouched, Before,
      Alone, Idle
<1>11. RunningIsRun'
  BY <1>1
  DEF Register, GoTo, disk, ops, stop, RunningIsRun, OneRun, Active, Untouched,
      Before, Alone, Idle
<1>12. Forcing' /\ Stops' /\ Committed' /\ FailureKept'
  BY <1>1
  DEF Register, GoTo, disk, ops, stop, Forcing, Stops, Committed, Ready, FailureKept
<1> QED BY <1>3, <1>4, <1>5, <1>6, <1>7, <1>8, <1>9, <1>10, <1>11, <1>12, NextTypeInv
           DEF PatientInv, Next

LEMMA BeginRunningKeeps ==
  ASSUME ~Hasty, PatientInv, NEW r \in Run, BeginRunning(r)
  PROVE  PatientInv'
<1>1. /\ TypeOK /\ StopsOwned /\ Settled
      /\ OneRun /\ OneRequest /\ Forcing /\ Untouched /\ Alone /\ Registered
      /\ Chains /\ Stops /\ Connected /\ Committed /\ FailureKept /\ Held /\ RunningIsRun
  BY DEF PatientInv, TypeInv
<1>2. OneRun'
  BY <1>1
  DEF BeginRunning, GoTo, ops, maps, stop, OneRun, Active, Untouched, Before, Alone,
      Idle
<1>3. OneRequest'
  BY <1>1
  DEF BeginRunning, GoTo, ops, maps, stop, OneRequest, AtRest, Active, OneRun,
      Untouched, Before, Alone, Idle
<1>4. Forcing'
  BY <1>1
  DEF BeginRunning, GoTo, ops, maps, stop, Forcing, OneRun, Active, Untouched,
      Before, Alone, Idle
<1>5. Untouched'
  BY <1>1, RunsAreNumbers
  DEF BeginRunning, GoTo, ops, maps, stop, Untouched, Before, OneRun, Active, Alone,
      Idle, TypeOK, Stopper, User
<1>6. Alone'
  BY <1>1
  DEF BeginRunning, GoTo, ops, maps, stop, Alone, Active, Idle, OneRun, Untouched,
      Before
<1>7. Registered'
  BY <1>1, RunsAreNumbers
  DEF BeginRunning, GoTo, ops, maps, stop, Registered, Active, OneRun, Untouched,
      Before, Alone, Idle, TypeOK, Stopper, User
<1>8. Stops'
  BY <1>1
  DEF BeginRunning, GoTo, ops, maps, stop, Stops, OneRun, Active, Untouched, Before,
      Alone, Idle
<1>9. Connected'
  BY <1>1, RunsAreNumbers
  DEF BeginRunning, GoTo, ops, maps, stop, Connected, Untouched, Before, OneRun,
      Active, Alone, Idle, TypeOK, Stopper, User
<1>10. Committed'
  BY <1>1
  DEF BeginRunning, GoTo, ops, maps, stop, Committed, Ready, OneRun, Active,
      Untouched, Before, Alone, Idle
<1>11. FailureKept'
  BY <1>1
  DEF BeginRunning, GoTo, ops, maps, stop, FailureKept, OneRun, Active, Untouched,
      Before, Alone, Idle
<1>12. Held'
  BY <1>1
  DEF BeginRunning, GoTo, ops, maps, stop, Held, OneRun, Active, Untouched, Before,
      Alone, Idle
<1>13. RunningIsRun'
  BY <1>1, RunsAreNumbers
  DEF BeginRunning, GoTo, ops, maps, stop, RunningIsRun, OneRun, Active, Untouched,
      Before, Alone, Idle, TypeOK, Stopper, User
<1>14. Chains' BY <1>1 DEF BeginRunning, GoTo, ops, maps, stop, Chains
<1> QED BY <1>2, <1>3, <1>4, <1>5, <1>6, <1>7, <1>8, <1>9, <1>10, <1>11, <1>12, <1>13,
           <1>14, NextTypeInv DEF PatientInv, Next

\* What the dispatcher at work hears of is not forgotten.
LEMMA ComponentFailsKeeps ==
  ASSUME ~Hasty, PatientInv, NEW r \in Run, ComponentFails(r)
  PROVE  PatientInv'
<1>1. /\ TypeOK /\ StopsOwned /\ Settled
      /\ OneRun /\ OneRequest /\ Forcing /\ Untouched /\ Alone /\ Registered
      /\ Chains /\ Stops /\ Connected /\ Committed /\ FailureKept /\ Held /\ RunningIsRun
  BY DEF PatientInv, TypeInv
<1>2. Untouched' BY <1>1 DEF ComponentFails, disk, ops, maps, stop, Untouched, Before
<1>3. FailureKept' BY <1>1 DEF ComponentFails, stop, FailureKept
<1>4. /\ OneRun' /\ OneRequest' /\ Forcing' /\ Alone' /\ Registered' /\ Chains' /\ Stops'
      /\ Connected' /\ Committed' /\ Held' /\ RunningIsRun'
  BY <1>1
  DEF ComponentFails, disk, ops, maps, stop, OneRun, Active, OneRequest, AtRest, Forcing,
      Alone, Idle, Registered, Chains, Stops, Connected, Committed, Ready, Held, RunningIsRun
<1> QED BY <1>2, <1>3, <1>4, NextTypeInv DEF PatientInv, Next

\* The failure of a task may be heard of while its run is going on or its
\* dispatcher is being removed; the emitter that hears of it is that of the run.
LEMMA TaskFailsKeeps ==
  ASSUME ~Hasty, PatientInv, NEW r \in Run, TaskFails(r)
  PROVE  PatientInv'
<1>1. /\ TypeOK /\ StopsOwned /\ Settled
      /\ OneRun /\ OneRequest /\ Forcing /\ Untouched /\ Alone /\ Registered
      /\ Chains /\ Stops /\ Connected /\ Committed /\ FailureKept /\ Held /\ RunningIsRun
  BY DEF PatientInv, TypeInv
<1>2. CASE UNCHANGED aborts
  <2>1. UNCHANGED vars BY <1>2 DEF TaskFails, vars, stop
  <2>2. OneRun' /\ OneRequest' /\ Forcing' /\ Untouched' /\ Alone' /\ Registered'
        /\ Chains' /\ Stops'
    BY <1>1, <2>1
    DEF vars, disk, ops, runs, maps, stop, OneRun, OneRequest, Forcing, Untouched, Alone,
        Registered, Chains, Stops, Active, AtRest, Idle
  <2>3. Connected' /\ Committed' /\ FailureKept' /\ Held' /\ RunningIsRun'
    BY <1>1, <2>1
    DEF vars, disk, ops, runs, maps, stop, Connected, Committed, FailureKept, Held,
        RunningIsRun
  <2> QED BY <2>2, <2>3, NextTypeInv DEF PatientInv, Next
<1>3. CASE emitter # 0 /\ aborts' = [aborts EXCEPT ![emitter] = @ + 1]
  <2>1. emitter \in Run /\ Active(emitter) BY <1>1, <1>3 DEF Registered, TypeOK
  <2>2. start[r] # "none" /\ run[r] \notin Before
    BY <1>1, RunsAreNumbers DEF TaskFails, Stops, Untouched, User
  <2>3. emitter = r
    <3>1. CASE run[r] # "ended" BY <1>1, <2>1, <2>2, <3>1 DEF OneRun, Active, Before
    <3>2. ASSUME NEW s \in Stopper, stopping[s] = r PROVE emitter = r
      <4>1. s \in {User, r} BY <1>1, <3>2, RunsAreNumbers DEF Stops, User
      <4>2. start[emitter] # "none"
        BY <1>1, <2>1, <3>2, RunsAreNumbers DEF Alone, User
      <4> QED BY <1>1, <2>1, <3>2, <4>1, <4>2, RunsAreNumbers DEF Alone, StopsOwned, User
    <3> QED BY <3>1, <3>2 DEF TaskFails
  <2>4. /\ \A q \in Run : q # r => aborts'[q] = aborts[q]
        /\ current \in {0, r}
    BY <1>1, <1>3, <2>1, <2>2, <2>3 DEF TypeOK, Alone
  <2>5. UNCHANGED <<disk, ops, runs, maps, stopping, removers, crashes>> BY DEF TaskFails
  <2>6. OneRequest' BY <1>1, <2>1, <2>5 DEF OneRequest, AtRest, ops
  <2>7. Untouched' BY <1>1, <2>2, <2>4, <2>5 DEF Untouched, runs, maps
  <2>8. Alone'
    <3>1. \A q \in Run : Active(q) => q = r BY <1>1, <2>1, <2>3 DEF OneRun
    <3> QED BY <1>1, <2>2, <2>4, <2>5, <3>1 DEF Alone, Active, runs, maps
  <2>9. Chains' BY <1>1, <2>4, <2>5 DEF Chains, maps
  <2>10. OneRun' /\ Forcing' /\ Registered' /\ Stops' /\ Connected'
    BY <1>1, <2>5
    DEF disk, ops, runs, maps, OneRun, Active, Forcing, Registered, Stops, Connected
  <2>11. Committed' /\ FailureKept' /\ Held' /\ RunningIsRun'
    BY <1>1, <2>5 DEF disk, ops, runs, maps, Committed, FailureKept, Held, RunningIsRun
  <2> QED BY <2>6, <2>7, <2>8, <2>9, <2>10, <2>11, NextTypeInv DEF PatientInv, Next
<1> QED BY <1>2, <1>3 DEF TaskFails

LEMMA SettlesKeeps ==
  ASSUME ~Hasty, PatientInv, NEW r \in Run, Settles(r)
  PROVE  PatientInv'
<1>1. /\ TypeOK /\ StopsOwned /\ Settled
      /\ OneRun /\ OneRequest /\ Forcing /\ Untouched /\ Alone /\ Registered
      /\ Chains /\ Stops /\ Connected /\ Committed /\ FailureKept /\ Held /\ RunningIsRun
  BY DEF PatientInv, TypeInv
<1>2. PICK v \in {"finished", "failed", "unknown"} :
        /\ start' = [start EXCEPT ![r] = v]
        /\ r \in flagged => v # "finished"
  BY DEF Settles, GetState
<1>3. /\ start[r] = "pending" /\ start'[r] = v
      /\ \A q \in Run : q # r => start'[q] = start[q]
      /\ UNCHANGED <<disk, ops, run, flagged, maps, stop, crashes>>
  BY <1>1, <1>2 DEF Settles, TypeOK
<1>4. Forcing' BY <1>1, <1>3 DEF ops, Forcing
<1>5. Untouched' BY <1>1, <1>3 DEF maps, stop, Untouched, Before
<1>6. Alone' BY <1>1, <1>3 DEF ops, maps, stop, Alone, Active, Idle
<1>7. Registered' BY <1>1, <1>3 DEF maps, Registered, Active, TypeOK
<1>8. Stops' BY <1>1, <1>3 DEF ops, stop, Stops
<1>9. Connected' BY <1>1, <1>3 DEF disk, maps, Connected
<1>10. FailureKept' BY <1>1, <1>2, <1>3 DEF stop, FailureKept
<1>11. OneRun' /\ OneRequest' /\ Chains' /\ Committed' /\ Held' /\ RunningIsRun'
  BY <1>1, <1>3
  DEF disk, ops, maps, stop, OneRun, Active, OneRequest, AtRest, Chains, Committed, Ready,
      Held, RunningIsRun
<1> QED BY <1>4, <1>5, <1>6, <1>7, <1>8, <1>9, <1>10, <1>11, NextTypeInv DEF PatientInv,
           Next

LEMMA RejectsKeeps ==
  ASSUME ~Hasty, PatientInv, NEW r \in Run, Rejects(r)
  PROVE  PatientInv'
<1>1. /\ TypeOK /\ StopsOwned /\ Settled
      /\ OneRun /\ OneRequest /\ Forcing /\ Untouched /\ Alone /\ Registered
      /\ Chains /\ Stops /\ Connected /\ Committed /\ FailureKept /\ Held /\ RunningIsRun
  BY DEF PatientInv, TypeInv
<1>2. Forcing' BY <1>1 DEF Rejects, disk, ops, maps, stop, Forcing
<1>3. Untouched' BY <1>1 DEF Rejects, disk, ops, maps, stop, Untouched, Before
<1>4. Alone' BY <1>1 DEF Rejects, disk, ops, maps, stop, Alone, Active, Idle
<1>5. Registered' BY <1>1 DEF Rejects, disk, ops, maps, stop, Registered, Active
<1>6. Stops' BY <1>1 DEF Rejects, disk, ops, maps, stop, Stops
<1>7. Connected' BY <1>1 DEF Rejects, disk, ops, maps, stop, Connected
<1>8. FailureKept' BY <1>1 DEF Rejects, disk, ops, maps, stop, FailureKept
<1>9. OneRun' /\ OneRequest' /\ Chains' /\ Committed' /\ Held' /\ RunningIsRun'
  BY <1>1
  DEF Rejects, disk, ops, maps, stop, OneRun, Active, OneRequest, AtRest, Chains,
      Committed, Ready, Held, RunningIsRun
<1> QED BY <1>2, <1>3, <1>4, <1>5, <1>6, <1>7, <1>8, <1>9, NextTypeInv DEF PatientInv,
           Next

\* A run on its way back from start().
LEMMA CheckOutcomeKeeps ==
  ASSUME ~Hasty, PatientInv, NEW r \in Run, CheckOutcome(r)
  PROVE  PatientInv'
<1>1. /\ TypeOK /\ StopsOwned /\ Settled
      /\ OneRun /\ OneRequest /\ Forcing /\ Untouched /\ Alone /\ Registered
      /\ Chains /\ Stops /\ Connected /\ Committed /\ FailureKept /\ Held /\ RunningIsRun
  BY DEF PatientInv, TypeInv
<1>2. OneRun'
  BY <1>1 DEF CheckOutcome, GoTo, Concluded, disk, ops, maps, stop, OneRun, Active
<1>3. OneRequest'
  BY <1>1
  DEF CheckOutcome, GoTo, Concluded, disk, ops, maps, stop, OneRequest, AtRest,
      Active, OneRun
<1>4. Untouched'
  BY <1>1
  DEF CheckOutcome, GoTo, Concluded, disk, ops, maps, stop, Untouched, Before,
      OneRun, Active
<1>5. Alone'
  BY <1>1
  DEF CheckOutcome, GoTo, Concluded, disk, ops, maps, stop, Alone, Active, Idle,
      OneRun
<1>6. Registered'
  BY <1>1
  DEF CheckOutcome, GoTo, Concluded, disk, ops, maps, stop, Registered, Active,
      OneRun
<1>7. Connected'
  BY <1>1
  DEF CheckOutcome, GoTo, Concluded, disk, ops, maps, stop, Connected, OneRun,
      Active
<1>8. Held'
  BY <1>1 DEF CheckOutcome, GoTo, Concluded, disk, ops, maps, stop, Held, OneRun, Active
<1>9. RunningIsRun'
  BY <1>1 DEF CheckOutcome, GoTo, Concluded, terminalProjectStates, disk, RunningIsRun, TypeOK
<1>10. Forcing' /\ Chains' /\ Stops' /\ Committed' /\ FailureKept'
  BY <1>1
  DEF CheckOutcome, GoTo, Concluded, disk, ops, maps, stop, Forcing, Chains, Stops,
      Committed, Ready, FailureKept
<1> QED BY <1>2, <1>3, <1>4, <1>5, <1>6, <1>7, <1>8, <1>9, <1>10, NextTypeInv DEF
           PatientInv, Next

LEMMA WriteOutcomeKeeps ==
  ASSUME ~Hasty, PatientInv, NEW r \in Run, WriteOutcome(r)
  PROVE  PatientInv'
<1>1. /\ TypeOK /\ StopsOwned /\ Settled
      /\ OneRun /\ OneRequest /\ Forcing /\ Untouched /\ Alone /\ Registered
      /\ Chains /\ Stops /\ Connected /\ Committed /\ FailureKept /\ Held /\ RunningIsRun
  BY DEF PatientInv, TypeInv
<1>2. OneRun' BY <1>1 DEF WriteOutcome, GoTo, Outcome, ops, maps, stop, OneRun, Active
<1>3. OneRequest'
  BY <1>1
  DEF WriteOutcome, GoTo, Outcome, ops, maps, stop, OneRequest, AtRest, Active,
      OneRun
<1>4. Untouched'
  BY <1>1
  DEF WriteOutcome, GoTo, Outcome, ops, maps, stop, Untouched, Before, OneRun,
      Active
<1>5. Alone'
  BY <1>1 DEF WriteOutcome, GoTo, Outcome, ops, maps, stop, Alone, Active, Idle, OneRun
<1>6. Registered'
  BY <1>1 DEF WriteOutcome, GoTo, Outcome, ops, maps, stop, Registered, Active, OneRun
<1>7. Connected'
  BY <1>1 DEF WriteOutcome, GoTo, Outcome, ops, maps, stop, Connected, OneRun, Active
<1>8. Committed' BY <1>1 DEF WriteOutcome, ops, Committed, OneRequest, AtRest, Active
<1>9. Held'
  BY <1>1 DEF WriteOutcome, GoTo, Outcome, ops, maps, stop, Held, OneRun, Active
<1>10. RunningIsRun'
  <2>1. state' # "running" BY <1>1 DEF WriteOutcome, Outcome, Settled, TypeOK, Verdicts
  <2> QED BY <2>1 DEF RunningIsRun
<1>11. Forcing' /\ Chains' /\ Stops' /\ FailureKept'
  BY <1>1
  DEF WriteOutcome, GoTo, Outcome, ops, maps, stop, Forcing, Chains, Stops,
      FailureKept
<1> QED BY <1>2, <1>3, <1>4, <1>5, <1>6, <1>7, <1>8, <1>9, <1>10, <1>11, NextTypeInv
           DEF PatientInv, Next

LEMMA LeaveKeeps ==
  ASSUME ~Hasty, PatientInv, NEW r \in Run, Leave(r)
  PROVE  PatientInv'
<1>1. /\ TypeOK /\ StopsOwned /\ Settled
      /\ OneRun /\ OneRequest /\ Forcing /\ Untouched /\ Alone /\ Registered
      /\ Chains /\ Stops /\ Connected /\ Committed /\ FailureKept /\ Held /\ RunningIsRun
  BY DEF PatientInv, TypeInv
<1>2. OneRun'
  BY <1>1, RunsAreNumbers
  DEF Leave, GoTo, disk, ops, stop, OneRun, Active, TypeOK, Stopper, User
<1>3. OneRequest'
  BY <1>1 DEF Leave, GoTo, disk, ops, stop, OneRequest, AtRest, Active, OneRun
<1>4. Untouched'
  BY <1>1, RunsAreNumbers
  DEF Leave, GoTo, disk, ops, stop, Untouched, Before, OneRun, Active, TypeOK,
      Stopper, User
<1>5. Alone'
  BY <1>1, RunsAreNumbers
  DEF Leave, GoTo, disk, ops, stop, Alone, Active, Idle, OneRun, TypeOK, Stopper,
      User
<1>6. Registered'
  BY <1>1, RunsAreNumbers
  DEF Leave, GoTo, disk, ops, stop, Registered, Active, OneRun, TypeOK, Stopper,
      User
<1>7. Chains' BY <1>1 DEF Leave, GoTo, disk, ops, stop, Chains, OneRun, Active
<1>8. Connected'
  BY <1>1, RunsAreNumbers
  DEF Leave, GoTo, disk, ops, stop, Connected, OneRun, Active, TypeOK, Stopper, User
<1>9. Held'
  <2>1. UNCHANGED <<stopping, removers>> BY DEF Leave, stop
  <2>2. CASE start[r] = "rejected"
    BY <1>1, <2>1, <2>2 DEF Leave, Held
  <2>3. CASE start[r] # "rejected" /\ removers[r] = {}
    BY <1>1, <2>1, <2>3, RunsAreNumbers DEF Leave, GoTo, Held, TypeOK, User
  <2>4. CASE start[r] # "rejected" /\ removers[r] # {}
    <3>1. current' = 0 /\ ssh' = ssh BY <2>4 DEF Leave
    <3>2. current \in {0, r}
      BY <1>1, <2>4 DEF Leave, Alone, Active, Stops
    <3>3. \A q \in Run : run[q] \notin {"connected", "cleaning"}
      BY <1>1 DEF Leave, OneRun, Active
    <3>4. ssh => \E s \in Stopper : stopping[s] # 0
      BY <1>1, <2>4, <3>2, <3>3, RunsAreNumbers DEF Held
    <3> QED BY <2>1, <3>1, <3>4, RunsAreNumbers DEF Held, User
  <2> QED BY <2>2, <2>3, <2>4
<1>10. RunningIsRun'
  BY <1>1 DEF Leave, GoTo, disk, ops, stop, RunningIsRun, OneRun, Active
<1>11. Forcing' /\ Stops' /\ Committed' /\ FailureKept'
  BY <1>1
  DEF Leave, GoTo, disk, ops, stop, Forcing, Stops, Committed, Ready, FailureKept
<1> QED BY <1>2, <1>3, <1>4, <1>5, <1>6, <1>7, <1>8, <1>9, <1>10, <1>11, NextTypeInv
           DEF PatientInv, Next

LEMMA ReleaseKeeps ==
  ASSUME ~Hasty, PatientInv, NEW r \in Run, Release(r)
  PROVE  PatientInv'
<1>1. /\ TypeOK /\ StopsOwned /\ Settled
      /\ OneRun /\ OneRequest /\ Forcing /\ Untouched /\ Alone /\ Registered
      /\ Chains /\ Stops /\ Connected /\ Committed /\ FailureKept /\ Held /\ RunningIsRun
  BY DEF PatientInv, TypeInv
<1>2. OneRun' BY <1>1 DEF Release, GoTo, disk, ops, stop, OneRun, Active
<1>3. OneRequest'
  BY <1>1 DEF Release, GoTo, disk, ops, stop, OneRequest, AtRest, Active, OneRun
<1>4. Untouched'
  BY <1>1 DEF Release, GoTo, disk, ops, stop, Untouched, Before, OneRun, Active
<1>5. Alone' BY <1>1 DEF Release, GoTo, disk, ops, stop, Alone, Active, Idle, OneRun
<1>6. Registered' BY <1>1 DEF Release, GoTo, disk, ops, stop, Registered, Active, OneRun
<1>7. Connected' BY <1>1 DEF Release, GoTo, disk, ops, stop, Connected, OneRun, Active
<1>8. Held' BY <1>1 DEF Release, GoTo, disk, ops, stop, Held, OneRun, Active
<1>9. RunningIsRun'
  BY <1>1 DEF Release, GoTo, disk, ops, stop, RunningIsRun, OneRun, Active
<1>10. Forcing' /\ Chains' /\ Stops' /\ Committed' /\ FailureKept'
  BY <1>1
  DEF Release, GoTo, disk, ops, stop, Forcing, Chains, Stops, Committed, Ready,
      FailureKept
<1> QED BY <1>2, <1>3, <1>4, <1>5, <1>6, <1>7, <1>8, <1>9, <1>10, NextTypeInv DEF
           PatientInv, Next

LEMMA AwaitAbortsKeeps ==
  ASSUME ~Hasty, PatientInv, NEW r \in Run, AwaitAborts(r)
  PROVE  PatientInv'
<1>1. /\ TypeOK /\ StopsOwned /\ Settled
      /\ OneRun /\ OneRequest /\ Forcing /\ Untouched /\ Alone /\ Registered
      /\ Chains /\ Stops /\ Connected /\ Committed /\ FailureKept /\ Held /\ RunningIsRun
  BY DEF PatientInv, TypeInv
<1>2. OneRun' BY <1>1 DEF AwaitAborts, GoTo, disk, ops, maps, stop, OneRun, Active
<1>3. OneRequest'
  BY <1>1
  DEF AwaitAborts, GoTo, disk, ops, maps, stop, OneRequest, AtRest, Active, OneRun
<1>4. Untouched'
  BY <1>1
  DEF AwaitAborts, GoTo, disk, ops, maps, stop, Untouched, Before, OneRun, Active
<1>5. Alone'
  BY <1>1 DEF AwaitAborts, GoTo, disk, ops, maps, stop, Alone, Active, Idle, OneRun
<1>6. Registered'
  BY <1>1 DEF AwaitAborts, GoTo, disk, ops, maps, stop, Registered, Active, OneRun
<1>7. Connected'
  BY <1>1 DEF AwaitAborts, GoTo, disk, ops, maps, stop, Connected, OneRun, Active
<1>8. Held' BY <1>1 DEF AwaitAborts, GoTo, disk, ops, maps, stop, Held, OneRun, Active
<1>9. RunningIsRun'
  BY <1>1 DEF AwaitAborts, GoTo, disk, ops, maps, stop, RunningIsRun, OneRun, Active
<1>10. Forcing' /\ Chains' /\ Stops' /\ Committed' /\ FailureKept'
  BY <1>1
  DEF AwaitAborts, GoTo, disk, ops, maps, stop, Forcing, Chains, Stops, Committed,
      Ready, FailureKept
<1> QED BY <1>2, <1>3, <1>4, <1>5, <1>6, <1>7, <1>8, <1>9, <1>10, NextTypeInv DEF
           PatientInv, Next

LEMMA CloseKeeps ==
  ASSUME ~Hasty, PatientInv, NEW r \in Run, Close(r)
  PROVE  PatientInv'
<1>1. /\ TypeOK /\ StopsOwned /\ Settled
      /\ OneRun /\ OneRequest /\ Forcing /\ Untouched /\ Alone /\ Registered
      /\ Chains /\ Stops /\ Connected /\ Committed /\ FailureKept /\ Held /\ RunningIsRun
  BY DEF PatientInv, TypeInv
<1>2. OneRun' BY <1>1 DEF Close, GoTo, disk, ops, stop, OneRun, Active
<1>3. OneRequest'
  BY <1>1 DEF Close, GoTo, disk, ops, stop, OneRequest, AtRest, Active, OneRun
<1>4. Untouched'
  BY <1>1, RunsAreNumbers
  DEF Close, GoTo, disk, ops, stop, Untouched, Before, OneRun, Active, TypeOK,
      Stopper, User
<1>5. Alone' BY <1>1 DEF Close, GoTo, disk, ops, stop, Alone, Active, Idle, OneRun
<1>6. Registered' BY <1>1 DEF Close, GoTo, disk, ops, stop, Registered, Active, OneRun
<1>7. Connected' BY <1>1 DEF Close, GoTo, disk, ops, stop, Connected, OneRun, Active
<1>8. Held' BY <1>1 DEF Close, GoTo, disk, ops, stop, Held, OneRun, Active
<1>9. RunningIsRun'
  BY <1>1 DEF Close, GoTo, disk, ops, stop, RunningIsRun, OneRun, Active
<1>10. Forcing' /\ Chains' /\ Stops' /\ Committed' /\ FailureKept'
  BY <1>1
  DEF Close, GoTo, disk, ops, stop, Forcing, Chains, Stops, Committed, Ready,
      FailureKept
<1> QED BY <1>2, <1>3, <1>4, <1>5, <1>6, <1>7, <1>8, <1>9, <1>10, NextTypeInv DEF
           PatientInv, Next

\* A restart of the server.
LEMMA CrashKeeps ==
  ASSUME ~Hasty, PatientInv, Crash
  PROVE  PatientInv'
<1>1. /\ TypeOK /\ StopsOwned /\ Settled
      /\ OneRun /\ OneRequest /\ Forcing /\ Untouched /\ Alone /\ Registered
      /\ Chains /\ Stops /\ Connected /\ Committed /\ FailureKept /\ Held /\ RunningIsRun
  BY DEF PatientInv, TypeInv
<1>2. OneRun' BY <1>1 DEF Crash, Reconciled, OneRun, Active
<1>3. OneRequest' BY <1>1 DEF Crash, Reconciled, OneRequest, AtRest, Active
<1>4. Forcing' BY <1>1 DEF Crash, Reconciled, Forcing
<1>5. Untouched'
  BY <1>1, RunsAreNumbers
  DEF Crash, Reconciled, Untouched, Before, TypeOK, Stopper, User
<1>6. Alone' BY <1>1 DEF Crash, Reconciled, Alone, Active, Idle
<1>7. Registered' BY <1>1 DEF Crash, Reconciled, Registered, Active
<1>8. Chains' BY <1>1 DEF Crash, Reconciled, Chains
<1>9. Stops' BY <1>1, RunsAreNumbers DEF Crash, Reconciled, Stops, TypeOK, Stopper, User
<1>10. Connected' BY <1>1 DEF Crash, Reconciled, Connected
<1>11. Committed' BY <1>1 DEF Crash, Reconciled, Committed, Ready
<1>12. FailureKept'
  BY <1>1, RunsAreNumbers DEF Crash, Reconciled, FailureKept, TypeOK, Stopper, User
<1>13. Held' BY <1>1 DEF Crash, Reconciled, Held
<1>14. RunningIsRun' BY <1>1 DEF Crash, Reconciled, RunningIsRun
<1> QED BY <1>2, <1>3, <1>4, <1>5, <1>6, <1>7, <1>8, <1>9, <1>10, <1>11, <1>12, <1>13,
           <1>14, NextTypeInv DEF PatientInv, Next

LEMMA NextPatient == ~Hasty /\ PatientInv /\ [Next]_vars => PatientInv'
<1> SUFFICES ASSUME ~Hasty, PatientInv, [Next]_vars PROVE PatientInv' OBVIOUS
<1>1. CASE \/ \E o \in Asked : Submit(o)
           \/ TakeOperation \/ RunProject \/ ForceStopped \/ CleanProject
           \/ RevertProject \/ SaveProject
  BY <1>1, SubmitKeeps, TakeOperationKeeps, RunProjectKeeps, ForceStoppedKeeps,
     CleanProjectKeeps, RevertProjectKeeps, SaveProjectKeeps
<1>2. ASSUME NEW s \in Stopper, BeginStop(s) \/ EndStop(s) PROVE PatientInv'
  BY <1>2, StopFindsDispatcher, StopFindsNone, EndStopKeeps
<1>3. ASSUME NEW r \in Run,
             Prepare(r) \/ Connect(r) \/ PreparationFails(r) \/ Register(r) \/ BeginRunning(r)
      PROVE  PatientInv'
  BY <1>3, PrepareKeeps, ConnectKeeps, PreparationFailsKeeps, RegisterKeeps, BeginRunningKeeps
<1>4. ASSUME NEW r \in Run, ComponentFails(r) \/ TaskFails(r) \/ Settles(r) \/ Rejects(r)
      PROVE  PatientInv'
  BY <1>4, ComponentFailsKeeps, TaskFailsKeeps, SettlesKeeps, RejectsKeeps
<1>5. ASSUME NEW r \in Run,
             \/ CheckOutcome(r) \/ WriteOutcome(r) \/ Leave(r) \/ Release(r)
             \/ AwaitAborts(r) \/ Close(r)
      PROVE  PatientInv'
  BY <1>5, CheckOutcomeKeeps, WriteOutcomeKeeps, LeaveKeeps, ReleaseKeeps,
     AwaitAbortsKeeps, CloseKeeps
<1>6. CASE Crash BY <1>6, CrashKeeps
<1>7. CASE UNCHANGED vars
  <2>1. TypeInv' BY NextTypeInv DEF PatientInv
  <2>2. /\ OneRun' /\ OneRequest' /\ Forcing' /\ Untouched' /\ Alone' /\ Registered'
        /\ Chains' /\ Stops'
    BY <1>7
    DEF PatientInv, vars, disk, ops, runs, maps, stop, OneRun, OneRequest, Forcing,
        Untouched, Alone, Registered, Chains, Stops, Active, AtRest, Idle
  <2>3. Connected' /\ Committed' /\ FailureKept' /\ Held' /\ RunningIsRun'
    BY <1>7
    DEF PatientInv, vars, disk, ops, runs, maps, stop, Connected, Committed,
        FailureKept, Held, RunningIsRun
  <2> QED BY <2>1, <2>2, <2>3 DEF PatientInv
<1> QED BY <1>1, <1>2, <1>3, <1>4, <1>5, <1>6, <1>7 DEF Next

LEMMA Patient == ASSUME ~Hasty PROVE Spec => []PatientInv
BY InitPatient, NextPatient, PTL DEF Spec

-----------------------------------------------------------------------------
\* A project whose users ask for what the client offers: prj.wheel.json says
\* "running" only as long as a run is there that will write its outcome over it
\* (setProjectState() in runProject()), whatever fails, is stopped or crashes.
THEOREM RunningEnds == ASSUME ~Hasty PROVE Spec => []RunningIsRun
<1>1. PatientInv => RunningIsRun BY DEF PatientInv
<1> QED BY <1>1, Patient, PTL

\* No teardown of runProject(), stopProject() or runDispatcher() takes the
\* connections and executers from a dispatcher whose start() is pending.
THEOREM NotCutOff == ASSUME ~Hasty PROVE Spec => []ConnectionsKept
<1>1. PatientInv => ConnectionsKept BY DEF PatientInv, Connected, ConnectionsKept
<1> QED BY <1>1, Patient, PTL

\* When the last run has ended and no dispatcher is left in the map, whichever
\* of the run and those who stopped it had to do it has released the resources.
THEOREM NothingHeld == ASSUME ~Hasty PROVE Spec => []Released
<1>1. PatientInv => Released BY DEF PatientInv, Held, Released
<1> QED BY <1>1, Patient, PTL

\* The outcome recorded for a run is the one its dispatcher concluded with: one
\* that knew of a failure is recorded as "failed" or "unknown", and one that no
\* user stopped is never recorded as a plain stop, in whatever order the failures,
\* the stops they set off, those they meet and the end of the run come (_getState(),
\* the reason stopProject() hands over, issue #1000).
THEOREM FailuresReported == ASSUME ~Hasty PROVE Spec => FailureReported
<1>1. ASSUME PatientInv, [Next]_vars, NEW r \in Run,
             run[r] = "writing", run'[r] = "recorded"
      PROVE  /\ r \in flagged => state' \in {"failed", "unknown"}
             /\ User \notin removers[r] => state' # "stopped"
  <2>1. TypeOK /\ FailureKept BY <1>1 DEF PatientInv, TypeInv
  <2>2. start[r] \in Verdicts \union {"rejected"}
    BY <1>1, <2>1 DEF PatientInv, TypeInv, TypeOK, Settled
  <2>3. WriteOutcome(r)
    <3>1. TypeOK BY <2>1
    <3>2. ASSUME NEW q \in Run, NEW st, GoTo(q, st), q # r PROVE FALSE
      BY <1>1, <3>1, <3>2 DEF GoTo, TypeOK
    <3>3. run' # run BY <1>1
    <3>4. ~\E o \in Asked : Submit(o)
      BY <3>3 DEF Submit, runs
    <3>5. ~(TakeOperation \/ ForceStopped \/ CleanProject \/ RevertProject \/ SaveProject)
      BY <3>3 DEF TakeOperation, ForceStopped, CleanProject, RevertProject, SaveProject, runs
    <3>6. ~RunProject /\ ~Crash
      BY <1>1, <2>1, <3>1 DEF RunProject, Crash, TypeOK
    <3>7. ~\E s \in Stopper : BeginStop(s) \/ EndStop(s)
      BY <3>3 DEF BeginStop, EndStop, runs
    <3>8. ASSUME NEW q \in Run,
                 \/ Prepare(q) \/ Connect(q) \/ PreparationFails(q) \/ Register(q)
                 \/ BeginRunning(q) \/ ComponentFails(q) \/ TaskFails(q) \/ Settles(q)
                 \/ Rejects(q) \/ CheckOutcome(q) \/ Leave(q) \/ Release(q)
                 \/ AwaitAborts(q) \/ Close(q)
          PROVE  FALSE
      <4>1. q = r \/ run'[r] = run[r]
        BY <2>1, <3>1, <3>8
        DEF Prepare, Connect, PreparationFails, Register, BeginRunning, ComponentFails,
            TaskFails, Settles, Rejects, CheckOutcome, Leave, Release, AwaitAborts, Close,
            GoTo, TypeOK, runs
      <4>2. q = r BY <1>1, <4>1
      <4> QED
        BY <1>1, <3>3, <3>8, <4>2
        DEF Prepare, Connect, PreparationFails, Register, BeginRunning, ComponentFails,
            TaskFails, Settles, Rejects, CheckOutcome, Leave, Release, AwaitAborts, Close,
            runs
    <3>9. ASSUME NEW q \in Run, WriteOutcome(q) PROVE q = r
      BY <3>2, <3>9 DEF WriteOutcome
    <3>10. ~UNCHANGED vars BY <3>3 DEF vars, runs
    <3> QED BY <1>1, <3>4, <3>5, <3>6, <3>7, <3>8, <3>9, <3>10 DEF Next
  <2> QED BY <2>1, <2>2, <2>3 DEF WriteOutcome, Outcome, FailureKept, Verdicts
<1>2. PatientInv /\ [Next]_vars =>
        [\A r \in Run :
           run[r] = "writing" /\ run'[r] = "recorded"
           => /\ r \in flagged => state' \in {"failed", "unknown"}
              /\ User \notin removers[r] => state' # "stopped"]_vars
  BY <1>1
<1> QED BY <1>2, Patient, PTL DEF Spec, FailureReported

=============================================================================
