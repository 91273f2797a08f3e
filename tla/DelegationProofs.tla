------------------------- MODULE DelegationProofs -------------------------
(* Theorems about Delegation, for any components, any number of tasks,     *)
(* trips and runs.                                                         *)
EXTENDS Delegation, FiniteSetTheorems, SequenceTheorems, WellFoundedInduction, TLAPS

-----------------------------------------------------------------------------
(* Records, and what the runs of any component have in common.             *)

States == {"not-started", "running", "finished", "failed", "stopped"}
TaskStates == {"not-started", "finished", "failed"}

\* Progress over the indexes I, a directory with results of the directories N.
ProgressOver(I) ==
  [state : States, initialized : BOOLEAN, currentIndex : I \cup {Null, Undefined},
   prevIndex : I \cup {Null, Undefined}, numFinished : Nat, numFailed : Nat, hasFaild : BOOLEAN]
DirectoryOver(N) == [state : States, tasks : [Task -> TaskStates], trail : Seq(N \X Task)]
Child == [left : SUBSET Task, failed : BOOLEAN, state : States \ {"not-started"}]

NoChild == [d \in {} |-> Null]

RunType ==
  /\ component \in Component
  /\ dispatcher \in {"gone", "running", "stopping"} /\ forced \in {"no", "pending", "yes"}
  /\ runs \in 0..MaxRuns /\ fails \in 0..MaxFailed /\ cut \in {"none", "stop", "crash"}
  /\ dispatcher = "stopping" => cut = "stop"

LEMMA InitRun == Init => RunType
BY CountAssumption DEF Init, RunType

LEMMA NextRun ==
  ASSUME RunType, [Next]_vars
  PROVE  RunType'
<1> USE CountAssumption DEF RunType
<1>1. CASE \E d \in DOMAIN child : \E t \in Task, result \in {"finished", "failed"} : TaskEnds(d, t, result)
  BY <1>1 DEF TaskEnds
<1>2. CASE \E d \in DOMAIN child : InstanceEnds(d)
  BY <1>2 DEF InstanceEnds
<1>3. CASE DelegateWorkflow \/ WorkflowEnds
  BY <1>3 DEF DelegateWorkflow, WorkflowEnds
<1>4. CASE _loopHandler \/ CopyTrip \/ CopyFails
  BY <1>4 DEF _loopHandler, CopyTrip, CopyFails
<1>5. CASE DelegateTrip \/ TripEnds \/ EndTrip \/ _loopFinalize
  BY <1>5 DEF DelegateTrip, TripEnds, EndTrip, _loopFinalize
<1>6. CASE _PSHandler \/ DelegateInstance \/ syncComponentStateFrom
  BY <1>6 DEF _PSHandler, DelegateInstance, syncComponentStateFrom
<1>7. CASE gatherFiles \/ StudyEnds \/ DeleteInstances
  BY <1>7 DEF gatherFiles, StudyEnds, DeleteInstances
<1>8. CASE BreakHeard \/ RemoveEnds
  BY <1>8 DEF BreakHeard, RemoveEnds
<1>9. CASE \E d \in DOMAIN child : BreakTrip(d)
  BY <1>9 DEF BreakTrip
<1>10. CASE Stop
  BY <1>10 DEF Stop
<1>13. CASE Run
  <2>1. runs + 1 \in 0..MaxRuns BY <1>13 DEF Run
  <2> QED BY <1>13, <2>1 DEF Run
<1>12. CASE Crash
  BY <1>12 DEF Crash
<1>11. CASE UNCHANGED vars
  BY <1>11 DEF vars
<1> QED BY <1>1, <1>2, <1>3, <1>4, <1>5, <1>6, <1>7, <1>8, <1>9, <1>10, <1>11, <1>12, <1>13 DEF Next, Step, ChildStep

-----------------------------------------------------------------------------
(* Directories and child dispatchers.                                      *)

DirOver(N) == DOMAIN dir \subseteq N /\ dir \in [DOMAIN dir -> DirectoryOver(N)]
ChildType ==
  /\ child \in [DOMAIN child -> Child] /\ DOMAIN child \subseteq DOMAIN dir
  /\ \A d \in DOMAIN child : child[d].state # "running" => child[d].left = {}

\* A new child takes all that is not finished.
LEMMA NewChildType ==
  ASSUME NEW x
  PROVE  /\ NewChild(x) \in Child /\ NewChild(x).state = "running" /\ NewChild(x).failed = FALSE
         /\ NewChild(x).left = {t \in Task : x.tasks[t] # "finished"}
BY DEF NewChild, Child, States

\* A paused child has nothing left; what it comes to depends on its failures.
LEMMA PauseType ==
  ASSUME NEW c \in Child, NEW b \in BOOLEAN
  PROVE  /\ pause(c, b) \in Child /\ pause(c, b).failed = c.failed
         /\ c.state = "running" => pause(c, b).left = {} /\ pause(c, b).state = _getState(c, b)
         /\ c.state # "running" => pause(c, b) = c
         /\ pause(c, b).state # "running"
BY DEF pause, _getState, Child, States

LEMMA PausedType ==
  ASSUME NEW b \in BOOLEAN, ChildType, UNCHANGED dir,
         child' = [d \in DOMAIN child |-> pause(child[d], b)]
  PROVE  ChildType' /\ DOMAIN child' = DOMAIN child
<1>1. DOMAIN child' = DOMAIN child OBVIOUS
<1>2. \A d \in DOMAIN child : child[d] \in Child BY DEF ChildType
<1>3. \A d \in DOMAIN child : child'[d] = pause(child[d], b) OBVIOUS
<1>4. \A d \in DOMAIN child : child'[d] \in Child BY <1>2, <1>3, PauseType
<1>5. \A d \in DOMAIN child : child'[d].left = {}
  BY <1>2, <1>3, PauseType DEF ChildType
<1>6. child' \in [DOMAIN child' -> Child] BY <1>1, <1>4
<1> QED BY <1>1, <1>5, <1>6 DEF ChildType

\* What the end of a task does to its directory and to its child.
Noted(d, t, result) ==
  /\ DOMAIN dir' = DOMAIN dir /\ \A e \in DOMAIN dir : e # d => dir'[e] = dir[e]
  /\ dir'[d].state = dir[d].state
  /\ dir'[d].tasks = [dir[d].tasks EXCEPT ![t] = result]
  /\ result = "finished" => dir'[d].trail = Append(dir[d].trail, <<d, t>>)
  /\ result = "failed" => dir'[d].trail = dir[d].trail
  /\ DOMAIN child' = DOMAIN child /\ \A e \in DOMAIN child : e # d => child'[e] = child[e]
  /\ child'[d].left = child[d].left \ {t} /\ child'[d].state = child[d].state
  /\ child'[d].failed = (child[d].failed \/ result = "failed")

LEMMA TaskEndsType ==
  ASSUME NEW N, DirOver(N), ChildType, NEW d \in DOMAIN child, NEW t \in Task,
         NEW result \in {"finished", "failed"}, TaskEnds(d, t, result)
  PROVE  DirOver(N)' /\ ChildType' /\ Noted(d, t, result)
<1>1. dir[d] \in DirectoryOver(N) /\ d \in N /\ d \in DOMAIN dir BY DEF DirOver, ChildType
<1>2. child[d] \in Child BY DEF ChildType
<1> DEFINE y == WithResult(dir[d], <<d, t>>, result)
<1>3. dir' = [dir EXCEPT ![d] = y]
  BY DEF TaskEnds
<1>4. Append(dir[d].trail, <<d, t>>) \in Seq(N \X Task) BY <1>1 DEF DirectoryOver
<1>5. y \in DirectoryOver(N)
  BY <1>1, <1>4 DEF DirectoryOver, TaskStates, WithResult
<1>6. /\ y.state = dir[d].state /\ y.tasks = [dir[d].tasks EXCEPT ![t] = result]
      /\ result = "finished" => y.trail = Append(dir[d].trail, <<d, t>>)
      /\ result = "failed" => y.trail = dir[d].trail
  BY <1>1 DEF DirectoryOver, WithResult
<1> HIDE DEF y
<1>7. /\ DOMAIN dir' = DOMAIN dir /\ dir'[d] = y
      /\ \A e \in DOMAIN dir : e # d => dir'[e] = dir[e]
  BY <1>1, <1>3
<1>8. DirOver(N)'
  BY <1>3, <1>5, <1>7 DEF DirOver
<1> DEFINE z == Advanced(child[d], t, result)
<1>9. child' = [child EXCEPT ![d] = z]
  BY DEF TaskEnds
<1>10. /\ z.left = child[d].left \ {t} /\ z.state = child[d].state
       /\ z.failed = (child[d].failed \/ result = "failed")
  BY <1>2 DEF Child, Advanced
<1>11. z \in Child
  BY <1>2 DEF Child, Advanced
<1> HIDE DEF z
<1>12. /\ DOMAIN child' = DOMAIN child /\ child'[d] = z
       /\ \A e \in DOMAIN child : e # d => child'[e] = child[e]
  BY <1>9
<1>13. child[d].state = "running" BY DEF ChildType, TaskEnds
<1>14. ChildType'
  BY <1>7, <1>9, <1>10, <1>11, <1>12, <1>13 DEF ChildType
<1> QED BY <1>6, <1>7, <1>8, <1>10, <1>12, <1>14 DEF Noted

-----------------------------------------------------------------------------
(* A trail to which each task of one directory adds at most once.          *)

Trail(d, x) ==
  /\ x.trail \in Seq({d} \X Task)
  /\ \A k \in DOMAIN x.trail : x.tasks[x.trail[k][2]] = "finished"
  /\ \A j, k \in DOMAIN x.trail : j # k => x.trail[j][2] # x.trail[k][2]

\* Every task that ended well is in the trail.
Listed(d, x) ==
  \A t \in Task : x.tasks[t] = "finished" => \E k \in DOMAIN x.trail : x.trail[k] = <<d, t>>

LEMMA TrailGrows ==
  ASSUME NEW N, NEW d \in DOMAIN dir, DirOver(N), Trail(d, dir[d]), NEW t \in Task,
         NEW result \in {"finished", "failed"}, dir[d].tasks[t] # "finished", Noted(d, t, result)
  PROVE  Trail(d, dir'[d]) /\ (Listed(d, dir[d]) => Listed(d, dir'[d]))
<1> DEFINE x == dir[d]
<1> DEFINE y == dir'[d]
<1>1. x.trail \in Seq({d} \X Task) /\ x.tasks \in [Task -> TaskStates]
  BY DEF DirOver, DirectoryOver, Trail
<1>2. \A u \in Task : y.tasks[u] = IF u = t THEN result ELSE x.tasks[u]
  BY <1>1 DEF Noted
<1>3. \A k \in DOMAIN x.trail :
        /\ x.trail[k] = <<d, x.trail[k][2]>> /\ x.trail[k][2] \in Task
        /\ x.trail[k][2] # t /\ y.tasks[x.trail[k][2]] = "finished"
  <2> TAKE k \in DOMAIN x.trail
  <2>1. x.trail[k] \in {d} \X Task BY <1>1
  <2>2. x.tasks[x.trail[k][2]] = "finished" BY DEF Trail
  <2> QED BY <1>2, <2>1, <2>2
<1>4. CASE result = "failed"
  <2>1. y.trail = x.trail BY <1>4 DEF Noted
  <2>2. Trail(d, y) BY <1>1, <1>3, <2>1 DEF Trail
  <2>3. ASSUME Listed(d, x) PROVE Listed(d, y)
    BY <1>2, <1>4, <2>1, <2>3 DEF Listed
  <2> QED BY <2>2, <2>3
<1>5. CASE result = "finished"
  <2> DEFINE n == Len(x.trail) + 1
  <2>1. y.trail = Append(x.trail, <<d, t>>) BY <1>5 DEF Noted
  <2>2. /\ y.trail \in Seq({d} \X Task) /\ DOMAIN y.trail = 1..n /\ DOMAIN x.trail = 1..(n - 1)
        /\ n \in Nat \ {0} /\ y.trail[n] = <<d, t>>
        /\ \A k \in 1..(n - 1) : y.trail[k] = x.trail[k]
    BY <1>1, <2>1
  <2> HIDE DEF x, y, n
  <2>3. \A k \in 1..n : y.tasks[y.trail[k][2]] = "finished"
    <3> TAKE k \in 1..n
    <3>1. k = n \/ k \in 1..(n - 1) BY <2>2
    <3> QED BY <1>2, <1>3, <1>5, <2>2, <3>1
  <2>4. \A j, k \in 1..n : j # k => y.trail[j][2] # y.trail[k][2]
    <3>1. \A j, k \in 1..(n - 1) : j # k => y.trail[j][2] # y.trail[k][2]
      BY <2>2 DEF Trail, x
    <3>2. y.trail[n][2] = t /\ \A k \in 1..(n - 1) : y.trail[k][2] # t
      BY <1>3, <2>2
    <3>3. \A k \in 1..n : k = n \/ k \in 1..(n - 1) BY <2>2
    <3> QED BY <3>1, <3>2, <3>3
  <2>5. Trail(d, y) BY <2>2, <2>3, <2>4 DEF Trail
  <2>6. ASSUME Listed(d, x) PROVE Listed(d, y)
    <3> SUFFICES ASSUME NEW u \in Task, y.tasks[u] = "finished"
                 PROVE  \E k \in 1..n : y.trail[k] = <<d, u>>
      BY <2>2 DEF Listed
    <3>1. CASE u = t
      <4>1. n \in 1..n BY <2>2
      <4> QED BY <2>2, <3>1, <4>1
    <3>2. CASE u # t
      <4>1. x.tasks[u] = "finished" BY <1>2, <3>2
      <4>2. PICK k \in 1..(n - 1) : x.trail[k] = <<d, u>> BY <2>2, <2>6, <4>1 DEF Listed
      <4>3. k \in 1..n BY <2>2
      <4> QED BY <2>2, <4>2, <4>3
    <3> QED BY <3>1, <3>2
  <2> QED BY <2>5, <2>6 DEF x, y
<1> QED BY <1>4, <1>5

\* It depends on the trail and the states of the tasks only.
LEMMA TrailKept ==
  ASSUME NEW d, NEW x, NEW y, y.trail = x.trail, y.tasks = x.tasks, Trail(d, x)
  PROVE  Trail(d, y)
BY Zenon DEF Trail

LEMMA NoTrail == \A d, x : x.trail = <<>> => Trail(d, x)
BY DEF Trail

\* Such a trail is in order.
LEMMA TrailInOrder ==
  ASSUME NEW d, NEW x, Trail(d, x), NEW a \in DOMAIN x.trail, NEW b \in DOMAIN x.trail, a < b
  PROVE  x.trail[a][1] = x.trail[b][1] /\ x.trail[a][2] # x.trail[b][2]
<1>1. DOMAIN x.trail \subseteq Int BY DEF Trail
<1>2. x.trail[a] \in {d} \X Task /\ x.trail[b] \in {d} \X Task BY DEF Trail
<1>3. a # b BY <1>1
<1>4. x.trail[a][2] # x.trail[b][2] BY <1>3 DEF Trail
<1> QED BY <1>2, <1>4

\* If all tasks ended well, it is a list of all of them.
LEMMA WholeTrail ==
  ASSUME NEW d, NEW x, Trail(d, x), Listed(d, x), \A t \in Task : x.tasks[t] = "finished"
  PROVE  Range(x.trail) = {d} \X Task /\ Len(x.trail) = NTask
<1> DEFINE f == [k \in 1..Len(x.trail) |-> x.trail[k][2]]
<1>1. x.trail \in Seq({d} \X Task) /\ Len(x.trail) \in Nat /\ DOMAIN x.trail = 1..Len(x.trail) BY DEF Trail
<1>2. \A k \in 1..Len(x.trail) : x.trail[k] \in {d} \X Task BY <1>1
<1>3. \A t \in Task : \E k \in 1..Len(x.trail) : x.trail[k] = <<d, t>> BY <1>1 DEF Listed
<1>4. Range(x.trail) = {d} \X Task
  <2>1. Range(x.trail) = {x.trail[k] : k \in 1..Len(x.trail)} BY <1>1 DEF Range
  <2>2. ASSUME NEW e \in {d} \X Task PROVE e \in Range(x.trail)
    <3>1. PICK t \in Task : e = <<d, t>> OBVIOUS
    <3> QED BY <1>3, <2>1, <3>1
  <2>3. \A e \in Range(x.trail) : e \in {d} \X Task BY <1>2, <2>1
  <2> QED BY <2>2, <2>3
<1>5. f \in [1..Len(x.trail) -> Task] BY <1>2
<1>6. \A j, k \in 1..Len(x.trail) : f[j] = f[k] => j = k BY <1>1 DEF Trail
<1>7. \A t \in Task : \E k \in 1..Len(x.trail) : f[k] = t
  <2> TAKE t \in Task
  <2>1. PICK k \in 1..Len(x.trail) : x.trail[k] = <<d, t>> BY <1>3
  <2> QED BY <2>1
<1> HIDE DEF f
<1>8. ExistsBijection(1..Len(x.trail), Task)
  BY <1>5, <1>6, <1>7 DEF ExistsBijection, Bijection, Injection, Surjection, IsInjective
<1>9. IsFiniteSet(1..Len(x.trail)) /\ Cardinality(1..Len(x.trail)) = Len(x.trail)
  BY <1>1, FS_Interval
<1>10. Cardinality(Task) = Len(x.trail) BY <1>8, <1>9, FS_Bijection
<1>11. Cardinality(Task) = NTask BY FS_Interval, CountAssumption DEF Task
<1> QED BY <1>4, <1>10, <1>11

-----------------------------------------------------------------------------
(* Workflows                                                               *)

\* The child of a workflow has all that is left to do and, unless the user has
\* stopped the project, is told of what fails in its directory.
ChildOfWorkflow ==
  LET c == child[Template]
      x == dir[Template]
  IN /\ \A t \in c.left : x.tasks[t] # "finished"
     /\ cut # "stop" =>
          /\ c.state = "running"
          /\ \A t \in Task \ c.left : x.tasks[t] = "finished" \/ c.failed
          /\ c.failed => \E t \in Task \ c.left : x.tasks[t] = "failed"

\* The recorded state says what is in the directory.
EndOfWorkflow ==
  /\ disk.state = "finished" => \A t \in Task : dir[Template].tasks[t] = "finished"
  /\ disk.state = "failed" => \E t \in Task : dir[Template].tasks[t] = "failed"

WorkflowType ==
  /\ mem = disk /\ disk \in ProgressOver({}) /\ gathered = {}
  /\ pc \in {"idle", "trip"} /\ (pc = "trip" => disk.state = "running")
  /\ DOMAIN dir = {Template} /\ DirOver({Template})
  /\ DOMAIN child = (IF pc = "trip" THEN {Template} ELSE {}) /\ ChildType

WorkflowInv ==
  /\ WorkflowType
  /\ Trail(Template, dir[Template]) /\ Listed(Template, dir[Template])
  /\ pc = "trip" => ChildOfWorkflow
  /\ cut # "stop" => EndOfWorkflow

LEMMA InitWorkflow == Init => WorkflowInv
<1> SUFFICES ASSUME Init PROVE WorkflowInv OBVIOUS
<1> DEFINE x == [state |-> "not-started", tasks |-> NotStarted, trail |-> <<>>]
<1>1. dir[Template] = x /\ DOMAIN dir = {Template} /\ dir \in [{Template} -> {x}] BY DEF Init
<1>2. \A N : x \in DirectoryOver(N)
  BY DEF DirectoryOver, States, TaskStates, NotStarted
<1>3. DirOver({Template}) BY <1>1, <1>2 DEF DirOver
<1>4. DOMAIN child = {} /\ ChildType BY DEF Init, ChildType
<1>5. Trail(Template, x) /\ Listed(Template, x)
  BY DEF Trail, Listed, NotStarted
<1>6. mem = disk /\ disk \in ProgressOver({}) /\ gathered = {} /\ pc = "idle"
  BY DEF Init, Progress, ProgressOver, States
<1>7. disk.state = "not-started" BY DEF Init, Progress
<1> QED BY <1>1, <1>3, <1>4, <1>5, <1>6, <1>7 DEF WorkflowInv, WorkflowType, EndOfWorkflow

\* What a workflow does.
LEMMA WorkflowSteps ==
  ASSUME RunType, WorkflowType, Type = "workflow", [Next]_vars
  PROVE  \/ \E t \in Task, result \in {"finished", "failed"} : TaskEnds(Template, t, result)
         \/ DelegateWorkflow \/ WorkflowEnds \/ Run \/ Stop \/ Crash \/ RemoveEnds
         \/ UNCHANGED <<component, disk, mem, dir, child, pc, gathered, cut>>
<1>1. DOMAIN child \subseteq {Template} /\ pc \in {"idle", "trip"} BY DEF WorkflowType
<1>2. ASSUME NEW d \in DOMAIN child, InstanceEnds(d) PROVE FALSE BY <1>1, <1>2 DEF InstanceEnds
<1>3. ASSUME NEW d \in DOMAIN child, BreakTrip(d) PROVE FALSE BY <1>3 DEF BreakTrip, Loop
<1>4. ASSUME _loopHandler \/ _PSHandler PROVE FALSE BY <1>4 DEF _loopHandler, _PSHandler, Loop
<1>5. ASSUME CopyTrip \/ CopyFails \/ DelegateTrip \/ EndTrip \/ _loopFinalize PROVE FALSE
  BY <1>1, <1>5 DEF CopyTrip, CopyFails, DelegateTrip, EndTrip, _loopFinalize
<1>6. ASSUME TripEnds PROVE FALSE BY <1>6 DEF TripEnds, Loop
<1>7. ASSUME DelegateInstance \/ syncComponentStateFrom \/ gatherFiles PROVE FALSE
  BY <1>1, <1>7 DEF DelegateInstance, syncComponentStateFrom, gatherFiles
<1>8. ASSUME StudyEnds \/ DeleteInstances PROVE FALSE
  BY <1>1, <1>8 DEF StudyEnds, DeleteInstances
<1>9. CASE BreakHeard BY <1>9 DEF BreakHeard
<1>10. CASE UNCHANGED vars BY <1>10 DEF vars
<1>11. ASSUME NEW d \in DOMAIN child, NEW t \in Task, NEW result \in {"finished", "failed"},
              TaskEnds(d, t, result)
       PROVE  TaskEnds(Template, t, result)
  BY <1>1, <1>11
<1> QED BY <1>2, <1>3, <1>4, <1>5, <1>6, <1>7, <1>8, <1>9, <1>10, <1>11 DEF Next, Step, ChildStep

LEMMA WorkflowTask ==
  ASSUME WorkflowInv, Type = "workflow", NEW t \in Task, NEW result \in {"finished", "failed"},
         TaskEnds(Template, t, result)
  PROVE  WorkflowInv'
<1> DEFINE x == dir[Template]
<1> DEFINE c == child[Template]
<1>1. pc = "trip" /\ Template \in DOMAIN child /\ Template \in DOMAIN dir /\ t \in c.left
  BY DEF TaskEnds, WorkflowInv, WorkflowType
<1>2. UNCHANGED <<disk, mem, pc, gathered, cut>> BY DEF TaskEnds
<1>3. DirOver({Template}) /\ ChildType BY DEF WorkflowInv, WorkflowType
<1>4. DirOver({Template})' /\ ChildType' /\ Noted(Template, t, result)
  BY <1>1, <1>3, TaskEndsType
<1>5. DOMAIN dir' = DOMAIN dir /\ DOMAIN child' = DOMAIN child BY <1>4 DEF Noted
<1>6. x.tasks[t] # "finished" BY <1>1 DEF WorkflowInv, ChildOfWorkflow
<1>7. Trail(Template, dir'[Template]) /\ Listed(Template, dir'[Template])
  BY <1>1, <1>3, <1>4, <1>6, TrailGrows DEF WorkflowInv
<1>8. WorkflowType' BY <1>2, <1>4, <1>5 DEF WorkflowInv, WorkflowType
<1>9. x.tasks \in [Task -> TaskStates] /\ c \in Child
  BY <1>1, <1>3 DEF DirOver, DirectoryOver, ChildType
<1>10. \A u \in Task : dir'[Template].tasks[u] = IF u = t THEN result ELSE x.tasks[u]
  BY <1>4, <1>9 DEF Noted
<1>11. /\ child'[Template].left = c.left \ {t} /\ child'[Template].state = c.state
       /\ child'[Template].failed = (c.failed \/ result = "failed")
  BY <1>4 DEF Noted
<1>12. ChildOfWorkflow'
  <2>1. c.left \subseteq Task BY <1>9 DEF Child
  <2>2. \A u \in child'[Template].left : dir'[Template].tasks[u] # "finished"
    BY <1>1, <1>10, <1>11, <2>1 DEF WorkflowInv, ChildOfWorkflow
  <2>3. ASSUME cut # "stop"
        PROVE  /\ child'[Template].state = "running"
               /\ \A u \in Task \ child'[Template].left :
                    dir'[Template].tasks[u] = "finished" \/ child'[Template].failed
               /\ child'[Template].failed =>
                    \E u \in Task \ child'[Template].left : dir'[Template].tasks[u] = "failed"
    <3>1. /\ c.state = "running"
          /\ \A u \in Task \ c.left : x.tasks[u] = "finished" \/ c.failed
          /\ c.failed => \E u \in Task \ c.left : x.tasks[u] = "failed"
      BY <1>1, <2>3 DEF WorkflowInv, ChildOfWorkflow
    <3>2. \A u \in Task \ child'[Template].left :
            dir'[Template].tasks[u] = "finished" \/ child'[Template].failed
      BY <1>10, <1>11, <3>1
    <3>3. ASSUME child'[Template].failed
          PROVE  \E u \in Task \ child'[Template].left : dir'[Template].tasks[u] = "failed"
      <4>1. CASE result = "failed" BY <1>10, <1>11, <4>1
      <4>2. CASE result = "finished" BY <1>1, <1>10, <1>11, <3>1, <3>3, <4>2
      <4> QED BY <4>1, <4>2
    <3> QED BY <1>11, <3>1, <3>2, <3>3
  <2> QED BY <1>2, <2>2, <2>3 DEF ChildOfWorkflow
<1>13. disk.state = "running" BY <1>1 DEF WorkflowInv, WorkflowType
<1> QED BY <1>2, <1>7, <1>8, <1>12, <1>13 DEF WorkflowInv, EndOfWorkflow

LEMMA WorkflowDelegated ==
  ASSUME WorkflowInv, Type = "workflow", DelegateWorkflow
  PROVE  WorkflowInv'
<1> DEFINE x == dir[Template]
<1>1. UNCHANGED <<dir, gathered, cut>> /\ pc' = "trip" BY DEF DelegateWorkflow
<1>2. mem' = disk' /\ disk' = [disk EXCEPT !.state = "running"]
  BY DEF DelegateWorkflow, Write, WorkflowInv, WorkflowType
<1>3. disk \in ProgressOver({}) BY DEF WorkflowInv, WorkflowType
<1>4. disk' \in ProgressOver({}) /\ disk'.state = "running"
  BY <1>2, <1>3 DEF ProgressOver, States
<1>5. child' = [d \in {Template} |-> NewChild(x)] BY DEF DelegateWorkflow
<1>6. child'[Template] = NewChild(x) /\ DOMAIN child' = {Template} BY <1>5
<1>7. NewChild(x) \in Child BY NewChildType
<1>8. ChildType' BY <1>1, <1>5, <1>6, <1>7, NewChildType DEF ChildType, WorkflowInv, WorkflowType
<1>9. WorkflowType'
  BY <1>1, <1>2, <1>4, <1>6, <1>8 DEF WorkflowInv, WorkflowType, DirOver
<1>10. ChildOfWorkflow'
  <2>1. /\ child'[Template].state = "running" /\ ~child'[Template].failed
        /\ child'[Template].left = {t \in Task : dir'[Template].tasks[t] # "finished"}
    BY <1>1, <1>6, NewChildType
  <2> QED BY <2>1 DEF ChildOfWorkflow
<1> QED BY <1>1, <1>4, <1>9, <1>10 DEF WorkflowInv, EndOfWorkflow

LEMMA WorkflowEnded ==
  ASSUME WorkflowInv, Type = "workflow", WorkflowEnds
  PROVE  WorkflowInv'
<1> DEFINE x == dir[Template]
<1> DEFINE c == child[Template]
<1>1. UNCHANGED <<dir, gathered, cut>> /\ pc' = "idle" /\ pc = "trip" BY DEF WorkflowEnds
<1>2. Template \in DOMAIN child /\ c \in Child /\ c.left = {}
  BY <1>1 DEF WorkflowInv, WorkflowType, ChildType, WorkflowEnds, Done
<1>3. mem' = disk' /\ disk' = [disk EXCEPT !.state = Outcome(c)]
  BY DEF WorkflowEnds, Write, WorkflowInv, WorkflowType
<1>4. Outcome(c) \in States BY <1>2, PauseType DEF Outcome, Child
<1>5. disk \in ProgressOver({}) BY DEF WorkflowInv, WorkflowType
<1>6. disk' \in ProgressOver({}) /\ disk'.state = Outcome(c)
  BY <1>3, <1>4, <1>5 DEF ProgressOver
<1>7. child' = [d \in {} |-> child[d]] /\ DOMAIN child' = {}
  BY <1>1 DEF WorkflowEnds, Without, Restrict, WorkflowInv, WorkflowType
<1>8. ChildType' BY <1>7 DEF ChildType
<1>9. WorkflowType'
  BY <1>1, <1>3, <1>6, <1>7, <1>8 DEF WorkflowInv, WorkflowType, DirOver
<1>10. ASSUME cut # "stop" PROVE EndOfWorkflow'
  <2>1. /\ c.state = "running"
        /\ \A t \in Task : x.tasks[t] = "finished" \/ c.failed
        /\ c.failed => \E t \in Task : x.tasks[t] = "failed"
    BY <1>1, <1>2, <1>10 DEF WorkflowInv, ChildOfWorkflow
  <2>2. Outcome(c) = IF c.failed THEN "failed" ELSE "finished"
    BY <1>2, <2>1, PauseType DEF Outcome, _getState
  <2> QED BY <1>1, <1>6, <2>1, <2>2 DEF EndOfWorkflow
<1> QED BY <1>1, <1>9, <1>10 DEF WorkflowInv

LEMMA NextWorkflow ==
  ASSUME RunType, WorkflowInv, Type = "workflow", [Next]_vars
  PROVE  WorkflowInv'

<1>1. CASE \E t \in Task, result \in {"finished", "failed"} : TaskEnds(Template, t, result)
  BY <1>1, WorkflowTask
<1>2. CASE DelegateWorkflow BY <1>2, WorkflowDelegated
<1>3. CASE WorkflowEnds BY <1>3, WorkflowEnded
<1>4. CASE Run
  <2>1. UNCHANGED <<disk, dir, child, pc, gathered, cut>> /\ mem' = disk BY <1>4 DEF Run
  <2> QED BY <2>1 DEF WorkflowInv, WorkflowType, DirOver, ChildType, ChildOfWorkflow, EndOfWorkflow
<1>5. CASE Stop
  <2>1. UNCHANGED <<disk, mem, dir, pc, gathered>> /\ cut' = "stop" BY <1>5 DEF Stop
  <2>2. child' = [d \in DOMAIN child |-> pause(child[d], FALSE)] BY <1>5 DEF Stop
  <2>3. ChildType' /\ DOMAIN child' = DOMAIN child
    BY <2>1, <2>2, PausedType DEF WorkflowInv, WorkflowType
  <2>4. pc = "trip" => child'[Template].left = {}
    <3>1. ASSUME pc = "trip" PROVE Template \in DOMAIN child /\ child[Template] \in Child
      BY <3>1 DEF WorkflowInv, WorkflowType, ChildType
    <3> QED BY <2>2, <3>1, PauseType DEF WorkflowInv, WorkflowType, ChildType
  <2>5. pc = "trip" => ChildOfWorkflow' BY <2>1, <2>4 DEF ChildOfWorkflow
  <2> QED BY <2>1, <2>3, <2>5 DEF WorkflowInv, WorkflowType, DirOver
<1>6. CASE RemoveEnds
  <2>1. UNCHANGED <<disk, mem, dir, pc, gathered, cut>> BY <1>6 DEF RemoveEnds
  <2>2. child' = [d \in DOMAIN child |-> pause(child[d], TRUE)] BY <1>6 DEF RemoveEnds
  <2>3. ChildType' /\ DOMAIN child' = DOMAIN child
    BY <2>1, <2>2, PausedType DEF WorkflowInv, WorkflowType
  <2>4. pc = "trip" => child'[Template].left = {}
    <3>1. ASSUME pc = "trip" PROVE Template \in DOMAIN child /\ child[Template] \in Child
      BY <3>1 DEF WorkflowInv, WorkflowType, ChildType
    <3> QED BY <2>2, <3>1, PauseType DEF WorkflowInv, WorkflowType, ChildType
  <2>5. dispatcher = "stopping" BY <1>6 DEF RemoveEnds
  <2>6. cut = "stop" BY <2>5 DEF RunType
  <2>7. pc = "trip" => ChildOfWorkflow' BY <2>1, <2>4, <2>6 DEF ChildOfWorkflow
  <2> QED BY <2>1, <2>3, <2>6, <2>7 DEF WorkflowInv, WorkflowType, DirOver
<1>7. CASE Crash
  <2>1. /\ UNCHANGED <<disk, dir, gathered>> /\ mem' = disk /\ pc' = "idle"
        /\ child' = [d \in {} |-> Null] /\ (cut' # "stop" => cut # "stop")
    BY <1>7 DEF Crash
  <2>2. DOMAIN child' = {} /\ ChildType' BY <2>1 DEF ChildType
  <2> QED BY <2>1, <2>2 DEF WorkflowInv, WorkflowType, DirOver, EndOfWorkflow
<1>8. CASE UNCHANGED <<component, disk, mem, dir, child, pc, gathered, cut>>
  BY <1>8 DEF WorkflowInv, WorkflowType, DirOver, ChildType, ChildOfWorkflow, EndOfWorkflow
<1> QED
  BY <1>1, <1>2, <1>3, <1>4, <1>5, <1>6, <1>7, <1>8, WorkflowSteps DEF WorkflowInv

-----------------------------------------------------------------------------
(* Induction and recursion over 0..n, for sets and functions.              *)

LEMMA CountUp ==
  ASSUME NEW n \in Nat, NEW S, 0 \in S, \A k \in 0..(n - 1) : k \in S => k + 1 \in S
  PROVE  0..n \subseteq S
<1> DEFINE bad == (0..n) \ S
<1> SUFFICES ASSUME bad # {} PROVE FALSE OBVIOUS
<1>1. PICK x \in bad : \A y \in bad : ~(<<y, x>> \in OpToRel(<, Nat))
  <2>1. bad \subseteq Nat OBVIOUS
  <2> HIDE DEF bad
  <2> QED BY <2>1, WFMin, NatLessThanWellFounded
<1>2. x \in 1..n /\ x - 1 \in 0..(n - 1) /\ x - 1 \in Nat /\ x \in Nat OBVIOUS
<1>3. <<x - 1, x>> \in OpToRel(<, Nat)
  <2> DEFINE p == <<x - 1, x>>
  <2>1. p \in Nat \X Nat /\ p[1] < p[2] BY <1>2
  <2> HIDE DEF p
  <2>2. p \in OpToRel(<, Nat) BY <2>1, Zenon DEF OpToRel
  <2> QED BY <2>2 DEF p
<1>4. x - 1 \in S
  <2>1. x - 1 \in bad => FALSE BY <1>1, <1>3, Zenon
  <2>2. x - 1 \in 0..n BY <1>2
  <2> QED BY <2>1, <2>2
<1> QED BY <1>2, <1>4

LEMMA RecursionExists ==
  ASSUME NEW n \in Nat, NEW a \in Nat, NEW G \in [1..n -> [Nat -> Nat]]
  PROVE  \E f \in [0..n -> Nat] : f[0] = a /\ \A k \in 1..n : f[k] = G[k][f[k - 1]]
<1> DEFINE Up(m) == {f \in [0..m -> Nat] : f[0] = a /\ \A k \in 1..m : f[k] = G[k][f[k - 1]]}
<1> DEFINE S == {m \in 0..n : Up(m) # {}}
<1>1. 0 \in S
  <2>1. [k \in 0..0 |-> a] \in Up(0) OBVIOUS
  <2> QED BY <2>1
<1>2. ASSUME NEW m \in 0..(n - 1), m \in S PROVE m + 1 \in S
  <2>1. PICK f : f \in Up(m)
    <3>1. Up(m) # {} BY <1>2
    <3> HIDE DEF Up
    <3> QED BY <3>1
  <2> DEFINE g == [k \in 0..(m + 1) |-> IF k = m + 1 THEN G[m + 1][f[m]] ELSE f[k]]
  <2>0. f \in [0..m -> Nat] /\ f[0] = a /\ \A k \in 1..m : f[k] = G[k][f[k - 1]] BY <2>1
  <2>2. m + 1 \in 1..n /\ f[m] \in Nat /\ G[m + 1] \in [Nat -> Nat] BY <2>0
  <2>3. G[m + 1][f[m]] \in Nat BY <2>2
  <2>4. g \in [0..(m + 1) -> Nat]
    <3>1. \A k \in 0..(m + 1) : k # m + 1 => k \in 0..m OBVIOUS
    <3> QED BY <2>0, <2>3, <3>1
  <2>5. ASSUME NEW k \in 1..(m + 1) PROVE g[k] = G[k][g[k - 1]]
    <3>1. k - 1 \in 0..m /\ g[k - 1] = f[k - 1] OBVIOUS
    <3>2. CASE k = m + 1 BY <3>1, <3>2
    <3>3. CASE k \in 1..m
      <4>1. g[k] = f[k] BY <3>3
      <4> QED BY <2>0, <3>1, <3>3, <4>1
    <3> QED BY <3>2, <3>3
  <2>6. g[0] = a BY <2>0
  <2> HIDE DEF g
  <2>7. g \in Up(m + 1) BY <2>4, <2>5, <2>6
  <2> HIDE DEF Up
  <2> QED BY <2>2, <2>7
<1> HIDE DEF S
<1>3. 0..n \subseteq S BY <1>1, <1>2, CountUp
<1>4. n \in S BY <1>3
<1> QED BY <1>4 DEF S

-----------------------------------------------------------------------------
(* Division                                                                *)

LEMMA Divided ==
  ASSUME NEW a \in Nat, NEW b \in Nat \ {0}
  PROVE  /\ a \div b \in Nat /\ a % b \in 0..(b - 1)
         /\ a = (a \div b) * b + (a % b)
OBVIOUS

LEMMA DividedUniquely ==
  ASSUME NEW b \in Nat \ {0}, NEW q \in Nat, NEW r \in 0..(b - 1)
  PROVE  (q * b + r) \div b = q /\ (q * b + r) % b = r
OBVIOUS

-----------------------------------------------------------------------------
(* One axis of a parameter space                                           *)

AxisValues(axis) ==
  IF "list" \in DOMAIN axis THEN Range(axis.list)
  ELSE {x \in axis.min..axis.max : (x - axis.min) % axis.step = 0}

\* A list that names no value twice.
Distinct(axis) ==
  "list" \in DOMAIN axis => \A i, j \in DOMAIN axis.list : axis.list[i] = axis.list[j] => i = j

LEMMA AxisExact ==
  ASSUME NEW axis, IsAxis(axis)
  PROVE  /\ getParamAxisSize(axis) \in Nat \ {0}
         /\ AxisValues(axis) = {getNthValue(j, axis) : j \in 0..(getParamAxisSize(axis) - 1)}
         /\ Distinct(axis) =>
              \A i, j \in 0..(getParamAxisSize(axis) - 1) :
                getNthValue(i, axis) = getNthValue(j, axis) => i = j
<1> DEFINE L == getParamAxisSize(axis)
<1>1. CASE "list" \in DOMAIN axis
  <2> DEFINE s == axis.list
  <2>1. s \in Seq(Range(s)) /\ s # <<>> BY <1>1 DEF IsAxis, IsSequence
  <2>2. Len(s) \in Nat \ {0} /\ DOMAIN s = 1..Len(s) BY <2>1
  <2>3. L = Len(s) /\ \A j : getNthValue(j, axis) = s[j + 1] BY <1>1 DEF getParamAxisSize, getNthValue
  <2>4. \A j \in 0..(L - 1) : j + 1 \in DOMAIN s BY <2>2, <2>3
  <2>5. \A k \in DOMAIN s : k - 1 \in 0..(L - 1) /\ (k - 1) + 1 = k BY <2>2, <2>3
  <2>6. AxisValues(axis) = {s[k] : k \in DOMAIN s} BY <1>1 DEF AxisValues, Range
  <2> HIDE DEF s, L
  <2>7. AxisValues(axis) = {getNthValue(j, axis) : j \in 0..(L - 1)}
    <3>1. \A x \in AxisValues(axis) : \E j \in 0..(L - 1) : x = getNthValue(j, axis)
      BY <2>3, <2>5, <2>6
    <3>2. \A j \in 0..(L - 1) : getNthValue(j, axis) \in AxisValues(axis) BY <2>3, <2>4, <2>6
    <3> QED BY <3>1, <3>2
  <2>8. ASSUME Distinct(axis), NEW i \in 0..(L - 1), NEW j \in 0..(L - 1),
               getNthValue(i, axis) = getNthValue(j, axis)
        PROVE  i = j
    <3>1. i + 1 = j + 1 BY <1>1, <2>3, <2>4, <2>8 DEF Distinct, s
    <3> QED BY <2>2, <2>3, <3>1
  <2> QED BY <2>2, <2>3, <2>7, <2>8 DEF L
<1>2. CASE "list" \notin DOMAIN axis
  <2> DEFINE a == axis.min
  <2> DEFINE b == axis.max
  <2> DEFINE w == axis.step
  <2>1. a \in Int /\ b \in Int /\ a <= b /\ w \in Nat \ {0} BY <1>2 DEF IsAxis
  <2>2. L = (b - a) \div w + 1 /\ \A j : getNthValue(j, axis) = a + w * j
    BY <1>2 DEF getParamAxisSize, getNthValue
  <2>3. AxisValues(axis) = {x \in a..b : (x - a) % w = 0} BY <1>2 DEF AxisValues
  <2> HIDE DEF a, b, w, L
  <2>4. (b - a) \in Nat /\ (b - a) \div w \in Nat BY <2>1, Divided
  <2>5. ASSUME NEW x \in a..b, (x - a) % w = 0
        PROVE  \E j \in 0..(L - 1) : x = a + w * j
    <3> DEFINE j == (x - a) \div w
    <3>1. x - a \in Nat /\ b - a \in Nat BY <2>1
    <3>2. j \in Nat /\ x - a = j * w BY <2>1, <2>5, <3>1, Divided
    <3> DEFINE q == (b - a) \div w
    <3>3. b - a = q * w + ((b - a) % w) /\ (b - a) % w \in 0..(w - 1) /\ q \in Nat
      BY <2>1, <3>1, Divided
    <3> HIDE DEF j, q
    <3>4. j * w < (q + 1) * w BY <2>1, <3>2, <3>3
    <3>5. j <= q BY <2>1, <3>2, <3>3, <3>4
    <3>6. j \in 0..(L - 1) /\ x = a + w * j BY <2>1, <2>2, <3>2, <3>3, <3>5 DEF q
    <3> QED BY <3>6
  <2>6. ASSUME NEW j \in 0..(L - 1)
        PROVE  a + w * j \in a..b /\ ((a + w * j) - a) % w = 0
    <3> DEFINE q == (b - a) \div w
    <3>1. b - a = q * w + ((b - a) % w) /\ (b - a) % w \in 0..(w - 1) /\ q \in Nat
      BY <2>1, <2>4, Divided
    <3>2. j \in Nat /\ j <= q BY <2>2, <2>4
    <3> HIDE DEF q
    <3>3. w * j \in Nat /\ w * j <= w * q BY <2>1, <3>1, <3>2
    <3>4. (w * j) % w = 0
      <4>1. w * j = j * w + 0 /\ 0 \in 0..(w - 1) BY <2>1, <3>2
      <4>2. (j * w + 0) % w = 0 BY <2>1, <3>2, <4>1, DividedUniquely
      <4> QED BY <4>1, <4>2
    <3>5. w * q <= b - a BY <2>1, <3>1
    <3>6. w * q \in Nat BY <2>1, <3>1
    <3> DEFINE u == w * j
    <3> DEFINE v == w * q
    <3>7. u \in Nat /\ v \in Nat /\ u <= v /\ v <= b - a /\ u % w = 0 BY <3>3, <3>4, <3>5, <3>6
    <3> HIDE DEF u, v
    <3>8. a + u \in a..b /\ (a + u) - a = u BY <2>1, <3>7
    <3>9. a + u \in a..b /\ ((a + u) - a) % w = 0 BY <3>7, <3>8
    <3> QED BY <3>9 DEF u
  <2>7. AxisValues(axis) = {getNthValue(j, axis) : j \in 0..(L - 1)}
    <3>1. \A x \in AxisValues(axis) : \E j \in 0..(L - 1) : x = getNthValue(j, axis)
      BY <2>2, <2>3, <2>5
    <3>2. \A j \in 0..(L - 1) : getNthValue(j, axis) \in AxisValues(axis) BY <2>2, <2>3, <2>6
    <3> QED BY <3>1, <3>2
  <2>8. ASSUME NEW i \in 0..(L - 1), NEW j \in 0..(L - 1), a + w * i = a + w * j
        PROVE  i = j
    <3>1. i \in Nat /\ j \in Nat BY <2>2, <2>4
    <3>2. w * i = w * j BY <2>1, <2>8, <3>1
    <3>3. \A m, n \in Nat : m < n => w * m < w * n
      <4> TAKE m, n \in Nat
      <4> HAVE m < n
      <4>1. w * n = w * m + w * (n - m) /\ n - m \in Nat \ {0} BY <2>1
      <4>2. w * (n - m) > 0 BY <2>1, <4>1
      <4> QED BY <2>1, <4>1, <4>2
    <3>4. w * i \in Nat /\ w * j \in Nat BY <2>1, <3>1
    <3>5. ~(i < j) BY <3>1, <3>2, <3>3, <3>4
    <3>6. ~(j < i) BY <3>1, <3>2, <3>3, <3>4
    <3> QED BY <3>1, <3>5, <3>6
  <2>9. L \in Nat \ {0} BY <2>2, <2>4
  <2> QED BY <2>2, <2>7, <2>8, <2>9 DEF L
<1> QED BY <1>1, <1>2

-----------------------------------------------------------------------------
(* The size of a space, and the digits of a number in it                   *)

IsSizes(L, n) == L \in [1..n -> Nat \ {0}]

\* The products of the first sizes, and what is left of a number when the
\* first digits have been taken away.
IsProducts(p, L, n) ==
  p \in [0..n -> Nat \ {0}] /\ p[0] = 1 /\ \A k \in 1..n : p[k] = p[k - 1] * L[k]
IsChain(r, L, n) ==
  r \in [0..n -> Nat] /\ \A k \in 1..n : r[k] = r[k - 1] \div L[k]

LEMMA ProductsExist ==
  ASSUME NEW n \in Nat, NEW L, IsSizes(L, n)
  PROVE  \E p : IsProducts(p, L, n)
<1> DEFINE G == [k \in 1..n |-> [x \in Nat |-> x * L[k]]]
<1>1. \A k \in 1..n : L[k] \in Nat \ {0} BY DEF IsSizes
<1>2. G \in [1..n -> [Nat -> Nat]] BY <1>1
<1>3. \A k \in 1..n, x \in Nat : G[k][x] = x * L[k] OBVIOUS
<1> HIDE DEF G
<1>4. PICK p \in [0..n -> Nat] : p[0] = 1 /\ \A k \in 1..n : p[k] = G[k][p[k - 1]]
  <2>1. 1 \in Nat OBVIOUS
  <2> QED BY <1>2, <2>1, RecursionExists, Zenon
<1>5. \A k \in 1..n : k - 1 \in 0..n OBVIOUS
<1>6. \A k \in 1..n : p[k] = p[k - 1] * L[k] BY <1>3, <1>4, <1>5
<1> DEFINE S == {k \in 0..n : p[k] # 0}
<1>7. 0 \in S BY <1>4
<1>8. ASSUME NEW k \in 0..(n - 1), k \in S PROVE k + 1 \in S
  <2>1. k + 1 \in 1..n /\ (k + 1) - 1 = k /\ k \in 0..n OBVIOUS
  <2>2. p[k + 1] = p[k] * L[k + 1] BY <1>6, <2>1
  <2>3. p[k] \in Nat \ {0} /\ L[k + 1] \in Nat \ {0} BY <1>1, <1>4, <1>8, <2>1
  <2> QED BY <2>1, <2>2, <2>3
<1> HIDE DEF S
<1>9. 0..n \subseteq S BY <1>7, <1>8, CountUp
<1>10. p \in [0..n -> Nat \ {0}]
  <2>1. \A k \in 0..n : p[k] \in Nat \ {0} BY <1>4, <1>9 DEF S
  <2> QED BY <1>4, <2>1
<1> QED BY <1>4, <1>6, <1>10 DEF IsProducts

LEMMA ChainExists ==
  ASSUME NEW n \in Nat, NEW L, IsSizes(L, n), NEW m \in Nat
  PROVE  \E r : IsChain(r, L, n) /\ r[0] = m
<1> DEFINE G == [k \in 1..n |-> [x \in Nat |-> x \div L[k]]]
<1>1. \A k \in 1..n : L[k] \in Nat \ {0} BY DEF IsSizes
<1>2. G \in [1..n -> [Nat -> Nat]]
  <2>1. \A k \in 1..n, x \in Nat : x \div L[k] \in Nat BY <1>1, Divided
  <2> QED BY <2>1
<1>3. \A k \in 1..n, x \in Nat : G[k][x] = x \div L[k] OBVIOUS
<1> HIDE DEF G
<1>4. PICK r \in [0..n -> Nat] : r[0] = m /\ \A k \in 1..n : r[k] = G[k][r[k - 1]]
  BY <1>2, RecursionExists
<1>5. \A k \in 1..n : k - 1 \in 0..n OBVIOUS
<1>6. \A k \in 1..n : r[k] = r[k - 1] \div L[k] BY <1>3, <1>4, <1>5
<1> QED BY <1>4, <1>6 DEF IsChain

\* Nothing is left of a number below the product.
LEMMA ChainEnds ==
  ASSUME NEW n \in Nat, NEW L, IsSizes(L, n), NEW p, IsProducts(p, L, n),
         NEW r, IsChain(r, L, n), r[0] < p[n]
  PROVE  r[n] = 0
<1> DEFINE S == {k \in 0..n : r[k] * p[k] <= r[0]}
<1>1. \A k \in 0..n : r[k] \in Nat /\ p[k] \in Nat \ {0} BY DEF IsChain, IsProducts
<1>2. 0 \in S BY <1>1 DEF IsProducts
<1>3. ASSUME NEW k \in 0..(n - 1), k \in S PROVE k + 1 \in S
  <2>1. k + 1 \in 1..n /\ (k + 1) - 1 = k /\ k \in 0..n /\ k + 1 \in 0..n /\ 0 \in 0..n OBVIOUS
  <2> DEFINE l == L[k + 1]
  <2>2. r[k + 1] = r[k] \div l /\ p[k + 1] = p[k] * l BY <2>1 DEF IsChain, IsProducts
  <2>3. l \in Nat \ {0} BY <2>1 DEF IsSizes
  <2> HIDE DEF l
  <2>4. /\ r[k] \div l \in Nat /\ r[k] % l \in 0..(l - 1)
        /\ r[k] = (r[k] \div l) * l + (r[k] % l)
    <3>1. r[k] \in Nat BY <1>1, <2>1
    <3> QED BY <2>3, <3>1, Divided
  <2> DEFINE a == r[k + 1]
  <2> DEFINE b == p[k]
  <2> DEFINE c == r[k] % l
  <2>5. a \in Nat /\ b \in Nat /\ c \in Nat /\ r[k] = a * l + c
    BY <1>1, <2>1, <2>2, <2>3, <2>4
  <2>6. a * (b * l) <= r[k] * b
    <3> HIDE DEF a, b, c
    <3>1. r[k] * b = a * (b * l) + c * b BY <2>3, <2>5
    <3>2. c * b >= 0 BY <2>5
    <3> QED BY <2>3, <2>5, <3>1, <3>2
  <2>7. r[k + 1] * p[k + 1] <= r[k] * p[k] BY <2>2, <2>6
  <2>8. r[k] * p[k] <= r[0] BY <1>3
  <2>9. r[k + 1] * p[k + 1] \in Nat /\ r[k] * p[k] \in Nat /\ r[0] \in Nat BY <1>1, <2>1
  <2>10. r[k + 1] * p[k + 1] <= r[0] BY <2>7, <2>8, <2>9
  <2> QED BY <2>1, <2>10
<1> HIDE DEF S
<1>4. 0..n \subseteq S BY <1>2, <1>3, CountUp
<1>5. r[n] * p[n] <= r[0] BY <1>4 DEF S
<1>6. r[n] \in Nat /\ p[n] \in Nat /\ r[0] \in Nat BY <1>1
<1>7. r[n] >= 1 => r[n] * p[n] >= p[n] BY <1>6
<1> QED BY <1>5, <1>6, <1>7

\* A number is known by its digits.
LEMMA ChainUnique ==
  ASSUME NEW n \in Nat, NEW L, IsSizes(L, n), NEW r, IsChain(r, L, n), NEW s, IsChain(s, L, n),
         r[n] = s[n], \A k \in 1..n : r[k - 1] % L[k] = s[k - 1] % L[k]
  PROVE  r[0] = s[0]
<1> DEFINE S == {k \in 0..n : r[n - k] = s[n - k]}
<1>1. 0 \in S OBVIOUS
<1>2. ASSUME NEW k \in 0..(n - 1), k \in S PROVE k + 1 \in S
  <2> DEFINE j == n - k
  <2>1. j \in 1..n /\ j - 1 \in 0..n /\ n - (k + 1) = j - 1 /\ k + 1 \in 0..n OBVIOUS
  <2> HIDE DEF j
  <2>2. r[j] = s[j] BY <1>2 DEF j
  <2>3. r[j] = r[j - 1] \div L[j] /\ s[j] = s[j - 1] \div L[j] BY <2>1 DEF IsChain
  <2>4. L[j] \in Nat \ {0} /\ r[j - 1] \in Nat /\ s[j - 1] \in Nat BY <2>1 DEF IsSizes, IsChain
  <2>5. r[j - 1] = (r[j - 1] \div L[j]) * L[j] + (r[j - 1] % L[j]) BY <2>4, Divided
  <2>6. s[j - 1] = (s[j - 1] \div L[j]) * L[j] + (s[j - 1] % L[j]) BY <2>4, Divided
  <2>7. r[j - 1] % L[j] = s[j - 1] % L[j] BY <2>1
  <2>8. r[j - 1] = s[j - 1] BY <2>2, <2>3, <2>5, <2>6, <2>7
  <2> QED BY <2>1, <2>8
<1> HIDE DEF S
<1>3. 0..n \subseteq S BY <1>1, <1>2, CountUp
<1>4. r[n - n] = s[n - n] BY <1>3 DEF S
<1> QED BY <1>4

\* Every choice of digits is that of a number below the product.
LEMMA DigitsExist ==
  ASSUME NEW n \in Nat, NEW L, IsSizes(L, n), NEW p, IsProducts(p, L, n),
         NEW c \in [1..n -> Nat], \A k \in 1..n : c[k] < L[k]
  PROVE  \E r : IsChain(r, L, n) /\ r[0] < p[n] /\ \A k \in 1..n : r[k - 1] % L[k] = c[k]
<1> DEFINE G == [k \in 1..n |-> [x \in Nat |-> x * L[n + 1 - k] + c[n + 1 - k]]]
<1>1. \A k \in 1..n : L[k] \in Nat \ {0} /\ c[k] \in 0..(L[k] - 1) BY DEF IsSizes
<1>2. \A k \in 1..n : n + 1 - k \in 1..n OBVIOUS
<1>3. G \in [1..n -> [Nat -> Nat]]
  <2>1. \A k \in 1..n, x \in Nat : x * L[n + 1 - k] + c[n + 1 - k] \in Nat BY <1>1, <1>2
  <2> QED BY <2>1
<1>4. \A k \in 1..n, x \in Nat : G[k][x] = x * L[n + 1 - k] + c[n + 1 - k] OBVIOUS
<1> HIDE DEF G
<1>5. PICK f \in [0..n -> Nat] : f[0] = 0 /\ \A k \in 1..n : f[k] = G[k][f[k - 1]]
  <2>1. 0 \in Nat OBVIOUS
  <2> QED BY <1>3, <2>1, RecursionExists, Zenon
<1>6. ASSUME NEW k \in 1..n PROVE f[k] = f[k - 1] * L[n + 1 - k] + c[n + 1 - k]
  <2>1. k - 1 \in 0..n OBVIOUS
  <2> QED BY <1>4, <1>5, <2>1
<1> DEFINE r == [k \in 0..n |-> f[n - k]]
<1>7. \A k \in 0..n : n - k \in 0..n /\ r[k] = f[n - k] /\ f[n - k] \in Nat BY <1>5
<1>8. r \in [0..n -> Nat] BY <1>7
<1>9. ASSUME NEW k \in 1..n
      PROVE  r[k] = r[k - 1] \div L[k] /\ r[k - 1] % L[k] = c[k]
  <2>1. k - 1 \in 0..n /\ k \in 0..n /\ n - (k - 1) = n + 1 - k /\ n + 1 - k \in 1..n OBVIOUS
  <2>2. (n + 1 - k) - 1 = n - k /\ n + 1 - (n + 1 - k) = k OBVIOUS
  <2>3. f[n + 1 - k] = f[n - k] * L[k] + c[k]
    <3> DEFINE j == n + 1 - k
    <3>1. f[j] = f[j - 1] * L[n + 1 - j] + c[n + 1 - j] BY <1>6, <2>1
    <3> QED BY <2>2, <3>1
  <2>4. r[k - 1] = f[n + 1 - k] /\ r[k] = f[n - k] /\ f[n - k] \in Nat BY <1>7, <2>1
  <2> DEFINE q == f[n - k]
  <2> DEFINE b == L[k]
  <2>5. q \in Nat /\ b \in Nat \ {0} /\ c[k] \in 0..(b - 1) BY <1>1, <2>4
  <2> HIDE DEF q, b
  <2>6. (q * b + c[k]) \div b = q /\ (q * b + c[k]) % b = c[k] BY <2>5, DividedUniquely
  <2> QED BY <2>3, <2>4, <2>6 DEF q, b
<1> HIDE DEF r
<1> DEFINE S == {k \in 0..n : (f[k] + 1) * p[n - k] <= p[n]}
<1>10. \A k \in 0..n : p[k] \in Nat \ {0} /\ n - k \in 0..n BY DEF IsProducts
<1>11. 0 \in S BY <1>5, <1>10
<1>12. ASSUME NEW k \in 0..(n - 1), k \in S PROVE k + 1 \in S
  <2> DEFINE j == n - k
  <2>1. j \in 1..n /\ j - 1 \in 0..n /\ n - (k + 1) = j - 1 /\ k + 1 \in 1..n /\ k \in 0..n OBVIOUS
  <2>2. f[k + 1] = f[k] * L[j] + c[j]
    <3> DEFINE i == k + 1
    <3>1. f[i] = f[i - 1] * L[n + 1 - i] + c[n + 1 - i] BY <1>6, <2>1
    <3>2. n + 1 - i = j /\ i - 1 = k OBVIOUS
    <3> QED BY <3>1, <3>2
  <2>3. p[j] = p[j - 1] * L[j] BY <2>1 DEF IsProducts
  <2> DEFINE a == f[k]
  <2> DEFINE b == p[j - 1]
  <2> DEFINE l == L[j]
  <2> DEFINE d == c[j]
  <2>4. a \in Nat /\ b \in Nat /\ l \in Nat /\ d \in Nat /\ d + 1 <= l
    <3>1. l \in Nat \ {0} /\ d \in 0..(l - 1) BY <1>1, <2>1
    <3>2. a \in Nat /\ b \in Nat BY <1>5, <1>10, <2>1
    <3> HIDE DEF a, b, l, d
    <3> QED BY <3>1, <3>2
  <2>5. (a * l + d + 1) * b <= (a + 1) * (b * l)
    <3> HIDE DEF a, b, l, d
    <3>1. (a + 1) * (b * l) = (a * l + l) * b
      <4>1. (a + 1) * (b * l) = a * (b * l) + b * l BY <2>4
      <4>2. (a * l + l) * b = (a * l) * b + l * b BY <2>4
      <4>3. a * (b * l) = (a * l) * b BY <2>4
      <4> QED BY <2>4, <4>1, <4>2, <4>3
    <3>2. a * l + d + 1 <= a * l + l BY <2>4
    <3> DEFINE x == a * l + d + 1
    <3> DEFINE y == a * l + l
    <3>3. x \in Nat /\ y \in Nat /\ x <= y BY <2>4, <3>2
    <3> HIDE DEF x, y
    <3>4. x * b <= y * b BY <2>4, <3>3
    <3> QED BY <3>1, <3>4 DEF x, y
  <2>6. (f[k] + 1) * p[j] <= p[n] BY <1>12
  <2>7. (f[k + 1] + 1) * p[j - 1] <= (f[k] + 1) * p[j] BY <2>2, <2>3, <2>5
  <2>8. /\ f[k + 1] \in Nat /\ p[j - 1] \in Nat /\ f[k] \in Nat /\ p[j] \in Nat /\ p[n] \in Nat
    <3>1. j \in 0..n /\ k + 1 \in 0..n /\ n \in 0..n BY <2>1
    <3> QED BY <1>5, <1>10, <2>1, <3>1
  <2> DEFINE A == (f[k + 1] + 1) * p[j - 1]
  <2> DEFINE B == (f[k] + 1) * p[j]
  <2>10. A \in Nat /\ B \in Nat /\ A <= B /\ B <= p[n]
    <3>1. \A x, y \in Nat : (x + 1) * y \in Nat OBVIOUS
    <3>2. A \in Nat /\ B \in Nat BY <2>8, <3>1
    <3> QED BY <2>6, <2>7, <3>2
  <2> HIDE DEF A, B
  <2>11. A <= p[n] BY <2>8, <2>10
  <2>9. (f[k + 1] + 1) * p[j - 1] <= p[n] BY <2>11 DEF A
  <2> QED BY <2>1, <2>9
<1> HIDE DEF S
<1>13. 0..n \subseteq S BY <1>11, <1>12, CountUp
<1>14. (f[n] + 1) * p[n - n] <= p[n] BY <1>13 DEF S
<1>15. n - n = 0 /\ p[0] = 1 /\ f[n] \in Nat /\ p[n] \in Nat BY <1>5, <1>10 DEF IsProducts
<1>16. r[0] < p[n]
  <2>1. r[0] = f[n] BY <1>7
  <2> QED BY <1>14, <1>15, <2>1
<1>17. IsChain(r, L, n) BY <1>8, <1>9 DEF IsChain
<1> QED BY <1>9, <1>16, <1>17

-----------------------------------------------------------------------------
(* paramVecGenerator()                                                     *)

SizesOf(axes) == [k \in 1..Len(axes) |-> getParamAxisSize(axes[k])]

LEMMA SizesType ==
  ASSUME NEW axes, IsSpace(axes)
  PROVE  /\ Len(axes) \in Nat /\ DOMAIN axes = 1..Len(axes) /\ IsSizes(SizesOf(axes), Len(axes))
         /\ \A k \in 1..Len(axes) : SizesOf(axes)[k] = getParamAxisSize(axes[k]) /\ IsAxis(axes[k])
<1>1. axes \in Seq(Range(axes)) /\ \A k \in DOMAIN axes : IsAxis(axes[k]) BY DEF IsSpace, IsSequence
<1>2. Len(axes) \in Nat /\ DOMAIN axes = 1..Len(axes) BY <1>1
<1>3. \A k \in 1..Len(axes) : getParamAxisSize(axes[k]) \in Nat \ {0} BY <1>1, <1>2, AxisExact
<1> QED BY <1>1, <1>2, <1>3 DEF SizesOf, IsSizes

\* getParamSize() is the product of the sizes.
LEMMA SizeIsProduct ==
  ASSUME NEW axes, IsSpace(axes), NEW p, IsProducts(p, SizesOf(axes), Len(axes))
  PROVE  getParamSize(axes) = p[Len(axes)]
<1> DEFINE n == Len(axes)
<1> DEFINE L == SizesOf(axes)
<1> DEFINE e(f) == [k \in 0..n |-> IF k = 0 THEN 1 ELSE f[k - 1] * getParamAxisSize(axes[k])]
<1> DEFINE size == CHOOSE f : f = e(f)
<1>1. n \in Nat /\ \A k \in 1..n : L[k] = getParamAxisSize(axes[k]) BY SizesType
<1>2. getParamSize(axes) = size[n] BY Zenon DEF getParamSize
<1>3. p = e(p)
  <2>1. p \in [0..n -> Nat \ {0}] /\ p[0] = 1 /\ \A k \in 1..n : p[k] = p[k - 1] * L[k]
    BY DEF IsProducts
  <2>2. \A k \in 0..n : p[k] = IF k = 0 THEN 1 ELSE p[k - 1] * getParamAxisSize(axes[k])
    BY <1>1, <2>1
  <2> QED BY <2>1, <2>2
<1>4. size = e(size) BY <1>3
<1>5. \A k \in 0..n : size[k] = IF k = 0 THEN 1 ELSE size[k - 1] * getParamAxisSize(axes[k])
  <2> HIDE DEF size
  <2> QED BY <1>4
<1> HIDE DEF size, e
<1> DEFINE S == {k \in 0..n : size[k] = p[k]}
<1>6. 0 \in S BY <1>1, <1>5 DEF IsProducts
<1>7. ASSUME NEW k \in 0..(n - 1), k \in S PROVE k + 1 \in S
  <2>1. k + 1 \in 1..n /\ (k + 1) - 1 = k /\ k + 1 \in 0..n /\ k + 1 # 0 BY <1>1
  <2>2. size[k + 1] = size[k] * L[k + 1] BY <1>1, <1>5, <2>1
  <2>3. p[k + 1] = p[k] * L[k + 1] BY <2>1 DEF IsProducts
  <2> QED BY <1>7, <2>1, <2>2, <2>3
<1> HIDE DEF S
<1>8. 0..n \subseteq S BY <1>1, <1>6, <1>7, CountUp
<1> QED BY <1>1, <1>2, <1>8 DEF S

\* The vector of a number consists of the values at its digits.
LEMMA VectorOfDigits ==
  ASSUME NEW axes, IsSpace(axes), NEW r, IsChain(r, SizesOf(axes), Len(axes))
  PROVE  getNthParamVec(r[0], axes) =
           [k \in DOMAIN axes |-> getNthValue(r[k - 1] % SizesOf(axes)[k], axes[k])]
<1> DEFINE n == Len(axes)
<1> DEFINE L == SizesOf(axes)
<1> DEFINE e(f) == [k \in 1..n |-> IF k = 1 THEN r[0] ELSE f[k - 1] \div getParamAxisSize(axes[k - 1])]
<1> DEFINE rest == CHOOSE f : f = e(f)
<1> DEFINE s == [k \in 1..n |-> r[k - 1]]
<1>1. n \in Nat /\ DOMAIN axes = 1..n /\ \A k \in 1..n : L[k] = getParamAxisSize(axes[k]) BY SizesType
<1>2. getNthParamVec(r[0], axes) =
        [k \in DOMAIN axes |-> getNthValue(rest[k] % getParamAxisSize(axes[k]), axes[k])]
  BY Zenon DEF getNthParamVec
<1>3. s = e(s)
  <2>1. ASSUME NEW k \in 1..n, k # 1 PROVE s[k] = s[k - 1] \div getParamAxisSize(axes[k - 1])
    <3>1. k - 1 \in 1..n BY <1>1, <2>1
    <3>2. r[k - 1] = r[(k - 1) - 1] \div L[k - 1] BY <3>1 DEF IsChain
    <3>3. s[k] = r[k - 1] /\ s[k - 1] = r[(k - 1) - 1] BY <3>1
    <3> QED BY <1>1, <3>1, <3>2, <3>3
  <2> QED BY <2>1
<1>4. rest = e(rest) BY <1>3
<1>5. \A k \in 1..n : rest[k] = IF k = 1 THEN r[0] ELSE rest[k - 1] \div getParamAxisSize(axes[k - 1])
  <2> HIDE DEF rest
  <2> QED BY <1>4
<1> HIDE DEF rest, e, s
<1> DEFINE S == {k \in 0..n : k = 0 \/ rest[k] = r[k - 1]}
<1>6. 0 \in S BY <1>1
<1>7. ASSUME NEW k \in 0..(n - 1), k \in S PROVE k + 1 \in S
  <2>1. k + 1 \in 1..n /\ k + 1 \in 0..n /\ (k + 1) - 1 = k BY <1>1
  <2>2. CASE k = 0 BY <1>5, <2>1, <2>2
  <2>3. CASE k # 0
    <3>1. k \in 1..n BY <1>1, <2>3
    <3>2. rest[k + 1] = rest[k] \div L[k] BY <1>1, <1>5, <2>1, <2>3, <3>1
    <3>3. r[k] = r[k - 1] \div L[k] BY <3>1 DEF IsChain
    <3> QED BY <1>7, <2>1, <2>3, <3>2, <3>3
  <2> QED BY <2>2, <2>3
<1> HIDE DEF S
<1>8. 0..n \subseteq S BY <1>1, <1>6, <1>7, CountUp
<1>9. \A k \in 1..n : rest[k] = r[k - 1] BY <1>1, <1>8 DEF S
<1> QED BY <1>1, <1>2, <1>9

IsExact(axes) == \A k \in DOMAIN axes : Distinct(axes[k])

LEMMA ProductOf ==
  ASSUME NEW axes, IsSpace(axes), NEW v
  PROVE  v \in Product(axes) <=>
           v = [k \in DOMAIN axes |-> v[k]] /\ \A k \in DOMAIN axes : v[k] \in AxisValues(axes[k])
<1>1. Product(axes) =
        {u \in [DOMAIN axes -> UNION {AxisValues(axes[k]) : k \in DOMAIN axes}] :
           \A k \in DOMAIN axes : u[k] \in AxisValues(axes[k])}
  BY DEF Product, AxisValues
<1> DEFINE U == UNION {AxisValues(axes[k]) : k \in DOMAIN axes}
<1>2. \A k \in DOMAIN axes : AxisValues(axes[k]) \subseteq U OBVIOUS
<1> HIDE DEF U
<1>3. Product(axes) = {u \in [DOMAIN axes -> U] : \A k \in DOMAIN axes : u[k] \in AxisValues(axes[k])}
  BY <1>1 DEF U
<1>4. ASSUME v = [k \in DOMAIN axes |-> v[k]], \A k \in DOMAIN axes : v[k] \in AxisValues(axes[k])
      PROVE  v \in [DOMAIN axes -> U]
  <2>1. \A k \in DOMAIN axes : v[k] \in U BY <1>2, <1>4
  <2> QED BY <1>4, <2>1
<1>5. v \in [DOMAIN axes -> U] => v = [k \in DOMAIN axes |-> v[k]] OBVIOUS
<1> QED BY <1>3, <1>4, <1>5

LEMMA SpaceEnumerated ==
  ASSUME NEW axes, IsSpace(axes)
  PROVE  /\ getParamSize(axes) \in Nat \ {0}
         /\ {getNthParamVec(n, axes) : n \in 0..(getParamSize(axes) - 1)} = Product(axes)
<1> DEFINE K == Len(axes)
<1> DEFINE L == SizesOf(axes)
<1> DEFINE N == getParamSize(axes)
<1>1. /\ K \in Nat /\ DOMAIN axes = 1..K /\ IsSizes(L, K)
      /\ \A k \in 1..K : L[k] = getParamAxisSize(axes[k]) /\ IsAxis(axes[k])
  BY SizesType
<1>2. PICK p : IsProducts(p, L, K)
  <2> HIDE DEF K, L
  <2> QED BY <1>1, ProductsExist
<1>3. N = p[K] /\ N \in Nat \ {0}
  <2>1. N = p[K] BY <1>2, SizeIsProduct
  <2>2. K \in 0..K BY <1>1
  <2> QED BY <1>2, <2>1, <2>2 DEF IsProducts
<1>4. ASSUME NEW n \in 0..(N - 1) PROVE getNthParamVec(n, axes) \in Product(axes)
  <2>1. n \in Nat BY <1>3
  <2>2. PICK r : IsChain(r, L, K) /\ r[0] = n
    <3> HIDE DEF K, L
    <3> QED BY <1>1, <2>1, ChainExists
  <2> DEFINE v == getNthParamVec(n, axes)
  <2>3. v = [k \in DOMAIN axes |-> getNthValue(r[k - 1] % L[k], axes[k])]
    BY <2>2, VectorOfDigits
  <2> HIDE DEF v, L
  <2>4. \A k \in 1..K : v[k] \in AxisValues(axes[k])
    <3> TAKE k \in 1..K
    <3>1. k - 1 \in 0..K BY <1>1
    <3>2. r[k - 1] \in Nat /\ L[k] \in Nat \ {0} BY <1>1, <2>2, <3>1 DEF IsChain, IsSizes
    <3>3. r[k - 1] % L[k] \in 0..(L[k] - 1) BY <3>2, Divided
    <3>4. AxisValues(axes[k]) = {getNthValue(j, axes[k]) : j \in 0..(L[k] - 1)} BY <1>1, AxisExact
    <3> QED BY <1>1, <2>3, <3>3, <3>4
  <2>5. v = [k \in DOMAIN axes |-> v[k]] BY <2>3
  <2> QED BY <1>1, <2>4, <2>5, ProductOf DEF v
<1>5. ASSUME NEW v \in Product(axes) PROVE \E n \in 0..(N - 1) : v = getNthParamVec(n, axes)
  <2>1. v = [k \in DOMAIN axes |-> v[k]] /\ \A k \in 1..K : v[k] \in AxisValues(axes[k])
    BY <1>1, ProductOf
  <2> HIDE DEF L
  <2>2. \A k \in 1..K : \E j \in 0..(L[k] - 1) : v[k] = getNthValue(j, axes[k])
    <3> TAKE k \in 1..K
    <3>1. AxisValues(axes[k]) = {getNthValue(j, axes[k]) : j \in 0..(L[k] - 1)} BY <1>1, AxisExact
    <3> QED BY <2>1, <3>1
  <2> DEFINE c == [k \in 1..K |-> CHOOSE j \in 0..(L[k] - 1) : v[k] = getNthValue(j, axes[k])]
  <2>3. \A k \in 1..K : c[k] \in 0..(L[k] - 1) /\ v[k] = getNthValue(c[k], axes[k])
    BY <2>2
  <2>4. \A k \in 1..K : L[k] \in Nat \ {0} BY <1>1 DEF IsSizes
  <2>5. c = [k \in 1..K |-> c[k]] OBVIOUS
  <2> HIDE DEF c
  <2>6. c \in [1..K -> Nat] /\ \A k \in 1..K : c[k] < L[k]
    <3>1. \A k \in 1..K : c[k] \in Nat /\ c[k] < L[k] BY <2>3, <2>4
    <3> QED BY <2>5, <3>1
  <2>7. PICK r : IsChain(r, L, K) /\ r[0] < p[K] /\ \A k \in 1..K : r[k - 1] % L[k] = c[k]
    <3> HIDE DEF K
    <3> QED BY <1>1, <1>2, <2>6, DigitsExist
  <2>8. getNthParamVec(r[0], axes) = [k \in DOMAIN axes |-> getNthValue(r[k - 1] % L[k], axes[k])]
    BY <2>7, VectorOfDigits DEF L
  <2>9. v = getNthParamVec(r[0], axes) BY <1>1, <2>1, <2>3, <2>7, <2>8
  <2>10. r[0] \in 0..(N - 1)
    <3>1. 0 \in 0..K BY <1>1
    <3>2. r[0] \in Nat BY <2>7, <3>1 DEF IsChain
    <3> HIDE DEF N
    <3> QED BY <1>3, <2>7, <3>2
  <2> QED BY <2>9, <2>10
<1> HIDE DEF N
<1>6. {getNthParamVec(n, axes) : n \in 0..(N - 1)} = Product(axes) BY <1>4, <1>5
<1> QED BY <1>3, <1>6 DEF N

LEMMA NoVectorTwice ==
  ASSUME NEW axes, IsSpace(axes), IsExact(axes),
         NEW m \in 0..(getParamSize(axes) - 1), NEW n \in 0..(getParamSize(axes) - 1),
         getNthParamVec(m, axes) = getNthParamVec(n, axes)
  PROVE  m = n
<1> DEFINE K == Len(axes)
<1> DEFINE L == SizesOf(axes)
<1> DEFINE N == getParamSize(axes)
<1>1. /\ K \in Nat /\ DOMAIN axes = 1..K /\ IsSizes(L, K)
      /\ \A k \in 1..K : L[k] = getParamAxisSize(axes[k]) /\ IsAxis(axes[k])
  BY SizesType
<1>2. PICK p : IsProducts(p, L, K)
  <2> HIDE DEF K, L
  <2> QED BY <1>1, ProductsExist
<1>3. N = p[K] BY <1>2, SizeIsProduct
<1>4. N \in Nat \ {0} BY SpaceEnumerated
<1>5. m \in Nat /\ n \in Nat /\ m < N /\ n < N BY <1>4
<1>6. PICK r : IsChain(r, L, K) /\ r[0] = m
  <2> HIDE DEF K, L
  <2> QED BY <1>1, <1>5, ChainExists
<1>7. PICK s : IsChain(s, L, K) /\ s[0] = n
  <2> HIDE DEF K, L
  <2> QED BY <1>1, <1>5, ChainExists
<1>8. r[K] = 0 /\ s[K] = 0
  <2> HIDE DEF K, L, N
  <2> QED BY <1>1, <1>2, <1>3, <1>5, <1>6, <1>7, ChainEnds
<1>9. /\ getNthParamVec(m, axes) = [k \in DOMAIN axes |-> getNthValue(r[k - 1] % L[k], axes[k])]
      /\ getNthParamVec(n, axes) = [k \in DOMAIN axes |-> getNthValue(s[k - 1] % L[k], axes[k])]
  BY <1>6, <1>7, VectorOfDigits
<1> HIDE DEF L
<1>10. \A k \in 1..K : r[k - 1] % L[k] = s[k - 1] % L[k]
  <2> TAKE k \in 1..K
  <2>1. k - 1 \in 0..K BY <1>1
  <2>2. r[k - 1] \in Nat /\ s[k - 1] \in Nat /\ L[k] \in Nat \ {0}
    BY <1>1, <1>6, <1>7, <2>1 DEF IsChain, IsSizes
  <2>3. r[k - 1] % L[k] \in 0..(L[k] - 1) /\ s[k - 1] % L[k] \in 0..(L[k] - 1) BY <2>2, Divided
  <2>4. getNthValue(r[k - 1] % L[k], axes[k]) = getNthValue(s[k - 1] % L[k], axes[k])
    BY <1>1, <1>9
  <2>5. Distinct(axes[k]) BY <1>1 DEF IsExact
  <2> QED BY <1>1, <2>3, <2>4, <2>5, AxisExact
<1> HIDE DEF K, N
<1>11. r[0] = s[0] BY <1>1, <1>6, <1>7, <1>8, <1>10, ChainUnique
<1> QED BY <1>6, <1>7, <1>11

LEMMA SpaceCounted ==
  ASSUME NEW axes, IsSpace(axes), IsExact(axes)
  PROVE  IsFiniteSet(Product(axes)) /\ Cardinality(Product(axes)) = getParamSize(axes)
<1> DEFINE N == getParamSize(axes)
<1> DEFINE f == [n \in 0..(N - 1) |-> getNthParamVec(n, axes)]
<1>1. N \in Nat \ {0} /\ {getNthParamVec(n, axes) : n \in 0..(N - 1)} = Product(axes)
  BY SpaceEnumerated
<1>2. f \in [0..(N - 1) -> Product(axes)] BY <1>1
<1>3. \A m, n \in 0..(N - 1) : f[m] = f[n] => m = n BY NoVectorTwice
<1>4. \A v \in Product(axes) : \E n \in 0..(N - 1) : f[n] = v BY <1>1
<1> HIDE DEF f, N
<1>5. ExistsBijection(0..(N - 1), Product(axes))
  BY <1>2, <1>3, <1>4 DEF ExistsBijection, Bijection, Injection, Surjection, IsInjective
<1>6. 0 \in Int /\ N - 1 \in Int /\ IsFiniteSet(0..(N - 1)) /\ Cardinality(0..(N - 1)) = N
  BY <1>1, FS_Interval
<1> QED BY <1>5, <1>6, FS_Bijection DEF N

-----------------------------------------------------------------------------
(* Parameter studies: what their parts are                                 *)

LEMMA StudyAxes ==
  ASSUME RunType, Type = "parameterStudy"
  PROVE  /\ component.deleteLoopInstance \in BOOLEAN /\ IsSpace(component.axes)
         /\ numTotal \in Nat \ {0} /\ Instances = Product(component.axes)
         /\ \A n \in 0..(numTotal - 1) : paramVec(n) \in Instances
         /\ Template \notin Instances /\ Null \notin Instances
<1>1. component \in Component BY DEF RunType
<1>2. IsStudy(component) BY <1>1, ComponentAssumption DEF Type
<1>3. IsSpace(component.axes) /\ component.deleteLoopInstance \in BOOLEAN BY <1>2 DEF IsStudy
<1>4. numTotal \in Nat \ {0} /\ Instances = Product(component.axes)
  BY <1>3, SpaceEnumerated DEF numTotal, Instances, paramVec
<1>5. \A n \in 0..(getParamSize(component.axes) - 1) :
        getNthParamVec(n, component.axes) # Template /\ getNthParamVec(n, component.axes) # Null
  BY <1>1, NameAssumption DEF Type
<1>6. Template \notin Instances /\ Null \notin Instances BY <1>5 DEF Instances, paramVec, numTotal
<1>7. \A n \in 0..(numTotal - 1) : paramVec(n) \in Instances BY DEF Instances
<1> QED BY <1>3, <1>4, <1>6, <1>7

StudyPlaces == {"idle", "spawn", "gather", "conclude", "delete"}

\* While instances are spawned, one of those that have ended is the
\* representative; when all have been, they have all been made.
StudyProgress ==
  /\ study \in [spawned : 0..numTotal, representative : Instances \cup {Null}]
  /\ pc = "spawn" =>
       /\ study.representative \in DOMAIN dir \cup {Null}
       /\ \A n \in 0..(study.spawned - 1) : paramVec(n) \in DOMAIN dir
       /\ study.representative = Null => \A n \in 0..(study.spawned - 1) : paramVec(n) \in DOMAIN child
  /\ pc \in {"gather", "conclude", "delete"} => Instances \subseteq DOMAIN dir

StudyType ==
  /\ mem \in ProgressOver({}) /\ disk \in ProgressOver({}) /\ gathered \subseteq Instances
  /\ pc \in StudyPlaces
  /\ Template \in DOMAIN dir /\ DirOver(Instances \cup {Template})
  /\ ChildType /\ DOMAIN child \subseteq Instances /\ (pc # "spawn" => DOMAIN child = {})
  /\ StudyProgress

\* Each instance has its own results, each once.
StudyTrails ==
  /\ dir[Template].trail = <<>>
  /\ \A d \in DOMAIN dir \ {Template} : Trail(d, dir[d])
  /\ \A d \in DOMAIN child : \A t \in child[d].left : dir[d].tasks[t] # "finished"

StudyBase == StudyType /\ StudyTrails

LEMMA InitStudy == RunType /\ Init /\ Type = "parameterStudy" => StudyBase
<1> SUFFICES ASSUME RunType, Init, Type = "parameterStudy" PROVE StudyBase OBVIOUS
<1> DEFINE x == [state |-> "not-started", tasks |-> NotStarted, trail |-> <<>>]
<1>1. dir[Template] = x /\ DOMAIN dir = {Template} /\ dir \in [{Template} -> {x}] BY DEF Init
<1>2. \A N : x \in DirectoryOver(N)
  BY DEF DirectoryOver, States, TaskStates, NotStarted
<1>3. DirOver(Instances \cup {Template}) BY <1>1, <1>2 DEF DirOver
<1>4. DOMAIN child = {} /\ ChildType BY DEF Init, ChildType
<1>5. mem \in ProgressOver({}) /\ disk \in ProgressOver({}) /\ gathered = {} /\ pc = "idle"
  BY DEF Init, Progress, ProgressOver, States
<1>6. study = [spawned |-> 0, representative |-> Null] BY DEF Init, NoStudy
<1>7. numTotal \in Nat BY StudyAxes
<1>8. StudyProgress BY <1>5, <1>6, <1>7 DEF StudyProgress
<1> HIDE DEF x
<1>9. StudyType BY <1>1, <1>3, <1>4, <1>5, <1>8 DEF StudyType, StudyPlaces
<1>10. StudyTrails BY <1>1, <1>4 DEF StudyTrails, x
<1> QED BY <1>9, <1>10 DEF StudyBase

\* What a study does.
LEMMA StudySteps ==
  ASSUME RunType, StudyType, Type = "parameterStudy", [Next]_vars
  PROVE  \/ \E d \in DOMAIN child, t \in Task, result \in {"finished", "failed"} : TaskEnds(d, t, result)
         \/ \E v \in DOMAIN child : InstanceEnds(v)
         \/ _PSHandler \/ DelegateInstance \/ syncComponentStateFrom \/ gatherFiles
         \/ StudyEnds \/ DeleteInstances \/ Run \/ Stop \/ Crash \/ RemoveEnds
         \/ UNCHANGED <<component, disk, mem, dir, child, pc, study, gathered, cut>>
<1>1. pc \in StudyPlaces BY DEF StudyType
<1>2. ASSUME NEW d \in DOMAIN child, BreakTrip(d) PROVE FALSE BY <1>2 DEF BreakTrip, Loop
<1>3. ASSUME _loopHandler \/ DelegateWorkflow PROVE FALSE BY <1>3 DEF _loopHandler, DelegateWorkflow, Loop
<1>4. ASSUME CopyTrip \/ CopyFails \/ DelegateTrip \/ EndTrip \/ _loopFinalize PROVE FALSE
  BY <1>1, <1>4 DEF CopyTrip, CopyFails, DelegateTrip, EndTrip, _loopFinalize, StudyPlaces
<1>5. ASSUME TripEnds \/ WorkflowEnds PROVE FALSE BY <1>5 DEF TripEnds, WorkflowEnds, Loop
<1>6. CASE BreakHeard BY <1>6 DEF BreakHeard
<1>7. CASE UNCHANGED vars BY <1>7 DEF vars
<1> QED BY <1>2, <1>3, <1>4, <1>5, <1>6, <1>7 DEF Next, Step, ChildStep

LEMMA InstancesKept ==
  component' = component => Instances' = Instances /\ numTotal' = numTotal
BY DEF Instances, numTotal, paramVec

LEMMA StudyTask ==
  ASSUME RunType, StudyBase, Type = "parameterStudy", NEW d \in DOMAIN child, NEW t \in Task,
         NEW result \in {"finished", "failed"}, TaskEnds(d, t, result)
  PROVE  StudyBase' /\ Noted(d, t, result)
<1>1. UNCHANGED <<component, disk, mem, pc, study, gathered>> BY DEF TaskEnds
<1>2. DirOver(Instances \cup {Template}) /\ ChildType /\ d \in DOMAIN dir /\ d # Template
  BY StudyAxes DEF StudyBase, StudyType, ChildType
<1>3. /\ DirOver(Instances \cup {Template})' /\ ChildType' /\ Noted(d, t, result)
  <2> DEFINE N == Instances \cup {Template}
  <2>1. N' = N BY <1>1, InstancesKept
  <2> HIDE DEF N
  <2>2. DirOver(N) BY <1>2 DEF N
  <2>3. DOMAIN dir' \subseteq N /\ dir' \in [DOMAIN dir' -> DirectoryOver(N)] /\ ChildType' /\ Noted(d, t, result)
    BY <1>2, <2>2, TaskEndsType DEF DirOver
  <2>4. DirOver(N)' BY <2>1, <2>3 DEF DirOver, DirectoryOver
  <2> QED BY <2>3, <2>4 DEF N
<1>4. DOMAIN dir' = DOMAIN dir /\ DOMAIN child' = DOMAIN child BY <1>3 DEF Noted
<1>5. StudyProgress'
  BY <1>1, <1>4, InstancesKept DEF StudyBase, StudyType, StudyProgress, paramVec
<1>6. StudyType'
  BY <1>1, <1>3, <1>4, <1>5, InstancesKept DEF StudyBase, StudyType
<1>7. dir[d].tasks[t] # "finished" BY DEF StudyBase, StudyTrails, TaskEnds
<1>8. Trail(d, dir'[d]) BY <1>2, <1>3, <1>7, TrailGrows DEF StudyBase, StudyTrails
<1>9. dir[d].tasks \in [Task -> TaskStates] BY <1>2 DEF DirOver, DirectoryOver
<1>10. \A e \in DOMAIN child' : \A u \in child'[e].left : dir'[e].tasks[u] # "finished"
  <2> TAKE e \in DOMAIN child'
  <2>1. CASE e # d BY <1>2, <1>3, <1>4, <2>1 DEF Noted, StudyBase, StudyTrails, ChildType
  <2>2. CASE e = d
    <3>1. child'[d].left = child[d].left \ {t} /\ dir'[d].tasks = [dir[d].tasks EXCEPT ![t] = result]
      BY <1>3 DEF Noted
    <3>2. child[d].left \subseteq Task BY <1>2 DEF ChildType, Child
    <3> QED BY <1>9, <2>2, <3>1, <3>2 DEF StudyBase, StudyTrails
  <2> QED BY <2>1, <2>2
<1>11. StudyTrails'
  <2>1. \A e \in DOMAIN dir : e # d => dir'[e] = dir[e] BY <1>3 DEF Noted
  <2>2. dir'[Template].trail = <<>> BY <1>2, <2>1 DEF StudyBase, StudyTrails, StudyType
  <2>3. \A e \in DOMAIN dir' \ {Template} : Trail(e, dir'[e])
    BY <1>4, <1>8, <2>1 DEF StudyBase, StudyTrails
  <2> QED BY <1>10, <2>2, <2>3 DEF StudyTrails
<1> QED BY <1>3, <1>6, <1>11 DEF StudyBase

\* A new instance starts from the states of the study's own components.
Spawned(v) ==
  IF v \in DOMAIN dir THEN [dir[v] EXCEPT !.state = "running"]
  ELSE [state |-> "running", tasks |-> dir[Template].tasks, trail |-> <<>>]

LEMMA StudySpawns ==
  ASSUME RunType, StudyBase, Type = "parameterStudy", DelegateInstance
  PROVE  StudyBase'
<1> DEFINE v == paramVec(study.spawned)
<1> DEFINE x == Spawned(v)
<1> DEFINE N == Instances \cup {Template}
<1>1. UNCHANGED <<component, disk, mem, pc, gathered>> /\ pc = "spawn" BY DEF DelegateInstance
<1>2. study.spawned \in 0..(numTotal - 1) /\ study.spawned + 1 \in 0..numTotal /\ study.spawned \in Nat
  BY StudyAxes DEF DelegateInstance, StudyBase, StudyType, StudyProgress
<1>3. v \in Instances /\ v # Template BY <1>2, StudyAxes
<1>4. dir' = Put(dir, v, x) /\ child' = Put(child, v, NewChild(x)) BY DEF DelegateInstance, Spawned
<1>5. study' = [study EXCEPT !.spawned = @ + 1] BY DEF DelegateInstance
<1>6. DirOver(N) /\ ChildType /\ Template \in DOMAIN dir BY DEF StudyBase, StudyType
<1>7. /\ x \in DirectoryOver(N) /\ x.state = "running"
      /\ v \in DOMAIN dir => x.trail = dir[v].trail /\ x.tasks = dir[v].tasks
      /\ v \notin DOMAIN dir => x.trail = <<>> /\ x.tasks = dir[Template].tasks
  BY <1>6 DEF DirOver, DirectoryOver, States, Spawned
<1> HIDE DEF x, N, v
<1>8. /\ DOMAIN dir' = DOMAIN dir \cup {v} /\ dir'[v] = x
      /\ \A d \in DOMAIN dir : d # v => dir'[d] = dir[d]
      /\ dir' \in [DOMAIN dir' -> DirectoryOver(N)]
  BY <1>4, <1>6, <1>7 DEF Put, DirOver
<1>9. N' = N /\ Instances' = Instances /\ numTotal' = numTotal BY <1>1, InstancesKept DEF N
<1>10. DirOver(N)' BY <1>3, <1>6, <1>8, <1>9 DEF DirOver, DirectoryOver, N
<1>11. NewChild(x) \in Child /\ NewChild(x).state = "running" BY NewChildType
<1>12. /\ DOMAIN child' = DOMAIN child \cup {v} /\ child'[v] = NewChild(x)
       /\ \A d \in DOMAIN child : d # v => child'[d] = child[d]
       /\ child' \in [DOMAIN child' -> Child]
  BY <1>4, <1>6, <1>11 DEF Put, ChildType
<1>13. ChildType' BY <1>6, <1>8, <1>11, <1>12 DEF ChildType
<1>14. study'.spawned = study.spawned + 1 /\ study'.representative = study.representative
  BY <1>5 DEF StudyBase, StudyType, StudyProgress
<1>15. StudyProgress'
  <2>1. \A n \in 0..(study'.spawned - 1) : n \in 0..(study.spawned - 1) \/ paramVec(n) = v
    BY <1>2, <1>14 DEF v
  <2>2. \A n : paramVec(n)' = paramVec(n) BY <1>1 DEF paramVec
  <2>3. study' \in [spawned : 0..numTotal', representative : Instances' \cup {Null}]
    <3>1. study \in [spawned : 0..numTotal, representative : Instances \cup {Null}]
      BY DEF StudyBase, StudyType, StudyProgress
    <3>2. study' \in [spawned : 0..numTotal, representative : Instances \cup {Null}]
      BY <1>2, <1>5, <3>1
    <3> QED BY <1>9, <3>2
  <2>6. study'.representative \in DOMAIN dir' \cup {Null}
    BY <1>1, <1>8, <1>14 DEF StudyBase, StudyType, StudyProgress
  <2>4. \A n \in 0..(study'.spawned - 1) : paramVec(n) \in DOMAIN dir'
    BY <1>1, <1>8, <2>1 DEF StudyBase, StudyType, StudyProgress
  <2>5. study'.representative = Null => \A n \in 0..(study'.spawned - 1) : paramVec(n) \in DOMAIN child'
    BY <1>1, <1>12, <1>14, <2>1 DEF StudyBase, StudyType, StudyProgress
  <2> QED BY <1>1, <2>2, <2>3, <2>4, <2>5, <2>6 DEF StudyProgress
<1>16. StudyType'
  BY <1>1, <1>3, <1>8, <1>9, <1>10, <1>12, <1>13, <1>15 DEF StudyBase, StudyType, N
<1>17. Trail(v, x)
  <2>1. CASE v \in DOMAIN dir
    <3>1. Trail(v, dir[v]) BY <1>3, <2>1 DEF StudyBase, StudyTrails
    <3> QED BY <1>7, <2>1, <3>1, TrailKept
  <2>2. CASE v \notin DOMAIN dir BY <1>7, <2>2, NoTrail
  <2> QED BY <2>1, <2>2
<1>18. StudyTrails'
  <2>1. \A t \in child'[v].left : dir'[v].tasks[t] # "finished"
    <3>1. child'[v].left = {t \in Task : x.tasks[t] # "finished"} BY <1>12, NewChildType
    <3> QED BY <1>8, <3>1
  <2>2. dir'[Template].trail = <<>> BY <1>3, <1>6, <1>8 DEF StudyBase, StudyTrails
  <2>3. \A d \in DOMAIN dir' \ {Template} : Trail(d, dir'[d])
    BY <1>8, <1>17 DEF StudyBase, StudyTrails
  <2>4. ASSUME NEW d \in DOMAIN child', d # v
        PROVE  \A t \in child'[d].left : dir'[d].tasks[t] # "finished"
    <3>1. d \in DOMAIN child /\ d \in DOMAIN dir /\ child'[d] = child[d] /\ dir'[d] = dir[d]
      BY <1>6, <1>8, <1>12, <2>4 DEF ChildType
    <3> QED BY <3>1 DEF StudyBase, StudyTrails
  <2> QED BY <2>1, <2>2, <2>3, <2>4 DEF StudyTrails
<1> QED BY <1>16, <1>18 DEF StudyBase

LEMMA StudyInstanceEnds ==
  ASSUME RunType, StudyBase, Type = "parameterStudy", NEW v \in DOMAIN child, InstanceEnds(v)
  PROVE  /\ StudyBase'
         /\ DOMAIN dir' = DOMAIN dir /\ dir'[v].state = Outcome(child[v])
         /\ \A d \in DOMAIN dir : dir'[d].tasks = dir[d].tasks
         /\ \A d \in DOMAIN dir : d # v => dir'[d] = dir[d]
         /\ DOMAIN child' = DOMAIN child \ {v}
         /\ \A d \in DOMAIN child' : child'[d] = child[d]
<1> DEFINE N == Instances \cup {Template}
<1> DEFINE state == Outcome(child[v])
<1>1. /\ UNCHANGED <<component, pc, gathered>> /\ pc = "spawn"
      /\ child' = Without(child, {v}) /\ dir' = [dir EXCEPT ![v].state = state]
      /\ mem' = disk'
      /\ mem' = CASE state = "finished" -> [mem EXCEPT !.numFinished = @ + 1]
                  [] state = "failed" -> [mem EXCEPT !.numFailed = @ + 1]
                  [] OTHER -> mem
      /\ study' = IF Represents(v, state) THEN [study EXCEPT !.representative = v] ELSE study
  BY DEF InstanceEnds, Write
<1>2. /\ DirOver(N) /\ ChildType /\ Template \in DOMAIN dir /\ v \in DOMAIN dir
      /\ v \in Instances /\ v # Template /\ v # Null /\ mem \in ProgressOver({})
  BY StudyAxes DEF StudyBase, StudyType, ChildType
<1>3. child[v] \in Child BY <1>2 DEF ChildType
<1>4. state \in States BY <1>3, PauseType DEF Outcome, Child
<1> HIDE DEF state, N
<1>5. /\ DOMAIN dir' = DOMAIN dir /\ dir'[v].state = state /\ dir' \in [DOMAIN dir' -> DirectoryOver(N)]
      /\ dir'[v].tasks = dir[v].tasks /\ dir'[v].trail = dir[v].trail
      /\ \A d \in DOMAIN dir : d # v => dir'[d] = dir[d]
  BY <1>1, <1>2, <1>4 DEF DirOver, DirectoryOver
<1>6. /\ DOMAIN child' = DOMAIN child \ {v} /\ \A d \in DOMAIN child' : child'[d] = child[d]
      /\ child' = [d \in DOMAIN child' |-> child'[d]]
  BY <1>1 DEF Without, Restrict
<1>7. N' = N /\ Instances' = Instances /\ numTotal' = numTotal BY <1>1, InstancesKept DEF N
<1>8. DirOver(N)' BY <1>2, <1>5, <1>7 DEF DirOver, DirectoryOver
<1>9. ChildType' BY <1>2, <1>5, <1>6 DEF ChildType
<1>10. mem' \in ProgressOver({}) BY <1>1, <1>2 DEF ProgressOver
<1>11. study'.representative \in DOMAIN dir /\ study'.representative # Null /\ study'.spawned = study.spawned
       /\ study' \in [spawned : 0..numTotal, representative : Instances \cup {Null}]
  <2>1. study \in [spawned : 0..numTotal, representative : Instances \cup {Null}]
        /\ study.representative \in DOMAIN dir \cup {Null}
    BY <1>1 DEF StudyBase, StudyType, StudyProgress
  <2>2. CASE Represents(v, state) BY <1>1, <1>2, <2>1, <2>2
  <2>3. CASE ~Represents(v, state) BY <1>1, <2>1, <2>3 DEF Represents
  <2> QED BY <2>2, <2>3
<1>12. StudyProgress'
  <2>1. \A n : paramVec(n)' = paramVec(n) BY <1>1 DEF paramVec
  <2>2. \A n \in 0..(study'.spawned - 1) : paramVec(n) \in DOMAIN dir'
    BY <1>1, <1>5, <1>11 DEF StudyBase, StudyType, StudyProgress
  <2> QED BY <1>1, <1>5, <1>7, <1>11, <2>1, <2>2 DEF StudyProgress
<1>13. StudyType'
  <2>1. DirOver(Instances \cup {Template})' BY <1>8 DEF N
  <2> QED BY <1>1, <1>2, <1>5, <1>6, <1>7, <1>9, <1>10, <1>12, <2>1 DEF StudyBase, StudyType
<1>14. StudyTrails'
  <2>1. dir'[Template].trail = <<>> BY <1>2, <1>5 DEF StudyBase, StudyTrails
  <2>2. ASSUME NEW d \in DOMAIN dir' \ {Template} PROVE Trail(d, dir'[d])
    <3>1. Trail(d, dir[d]) BY <1>5 DEF StudyBase, StudyTrails
    <3>2. dir'[d].trail = dir[d].trail /\ dir'[d].tasks = dir[d].tasks BY <1>5
    <3> QED BY <3>1, <3>2, TrailKept
  <2>3. ASSUME NEW d \in DOMAIN child' PROVE \A t \in child'[d].left : dir'[d].tasks[t] # "finished"
    <3>1. d \in DOMAIN child /\ d \in DOMAIN dir /\ child'[d] = child[d] /\ dir'[d].tasks = dir[d].tasks
      BY <1>2, <1>5, <1>6 DEF ChildType
    <3> QED BY <3>1 DEF StudyBase, StudyTrails
  <2> QED BY <2>1, <2>2, <2>3 DEF StudyTrails
<1> QED BY <1>5, <1>6, <1>13, <1>14 DEF StudyBase, state

LEMMA StudyBegins ==
  ASSUME RunType, StudyBase, Type = "parameterStudy", _PSHandler
  PROVE  StudyBase'
<1>1. /\ UNCHANGED <<component, dir, child, gathered>> /\ pc' = "spawn" /\ pc = "idle"
      /\ study' = [spawned |-> 0, representative |-> Null]
      /\ mem' = [mem EXCEPT !.state = "running", !.initialized = TRUE, !.numFinished = 0, !.numFailed = 0]
      /\ disk' = [disk EXCEPT !.state = "running"]
  BY DEF _PSHandler, Handled, NoStudy
<1>2. mem \in ProgressOver({}) /\ disk \in ProgressOver({}) BY DEF StudyBase, StudyType
<1>3. mem' \in ProgressOver({}) /\ disk' \in ProgressOver({}) BY <1>1, <1>2 DEF ProgressOver, States
<1>4. Instances' = Instances /\ numTotal' = numTotal BY <1>1, InstancesKept
<1>5. StudyProgress' BY <1>1, <1>4, StudyAxes DEF StudyProgress
<1>6. StudyType'
  BY <1>1, <1>3, <1>4, <1>5 DEF StudyBase, StudyType, StudyPlaces, DirOver, ChildType
<1>7. StudyTrails' BY <1>1 DEF StudyBase, StudyTrails
<1> QED BY <1>6, <1>7 DEF StudyBase

\* All instances have been spawned and have ended, so that there is a
\* representative.
LEMMA StudySynced ==
  ASSUME RunType, StudyBase, Type = "parameterStudy", syncComponentStateFrom
  PROVE  /\ StudyBase' /\ study.representative \in Instances /\ Instances \subseteq DOMAIN dir
         /\ DOMAIN dir' = DOMAIN dir /\ \A d \in Instances : dir'[d] = dir[d]
<1> DEFINE r == study.representative
<1> DEFINE N == Instances \cup {Template}
<1>1. /\ UNCHANGED <<component, mem, child, study, gathered>> /\ pc = "spawn" /\ pc' = "gather"
      /\ study.spawned = numTotal /\ DOMAIN child = {}
      /\ dir' = [dir EXCEPT ![Template].tasks = dir[r].tasks]
      /\ disk' = [disk EXCEPT !.state = dir[r].state]
  BY DEF syncComponentStateFrom
<1>2. /\ DirOver(N) /\ Template \in DOMAIN dir /\ Template \notin Instances /\ disk \in ProgressOver({})
      /\ numTotal \in Nat \ {0} /\ 0 \in 0..(numTotal - 1)
  BY StudyAxes DEF StudyBase, StudyType
<1>3. r # Null BY <1>1, <1>2 DEF StudyBase, StudyType, StudyProgress
<1>4. r \in Instances /\ r \in DOMAIN dir BY <1>1, <1>3 DEF StudyBase, StudyType, StudyProgress
<1> HIDE DEF r, N
<1>5. dir[r] \in DirectoryOver(N) BY <1>2, <1>4 DEF DirOver
<1>6. /\ DOMAIN dir' = DOMAIN dir /\ dir' \in [DOMAIN dir' -> DirectoryOver(N)]
      /\ dir'[Template].trail = dir[Template].trail
      /\ \A d \in DOMAIN dir : d # Template => dir'[d] = dir[d]
  BY <1>1, <1>2, <1>5 DEF DirOver, DirectoryOver
<1>7. N' = N /\ Instances' = Instances /\ numTotal' = numTotal BY <1>1, InstancesKept DEF N
<1>8. DirOver(N)' BY <1>2, <1>6, <1>7 DEF DirOver, DirectoryOver
<1>9. disk' \in ProgressOver({}) BY <1>1, <1>2, <1>5 DEF ProgressOver, DirectoryOver
<1>10. Instances \subseteq DOMAIN dir
  <2>1. \A n \in 0..(numTotal - 1) : paramVec(n) \in DOMAIN dir
    BY <1>1 DEF StudyBase, StudyType, StudyProgress
  <2> QED BY <2>1 DEF Instances
<1>11. StudyProgress'
  BY <1>1, <1>6, <1>7, <1>10 DEF StudyBase, StudyType, StudyProgress
<1>12. ChildType' BY <1>1, <1>6 DEF StudyBase, StudyType, ChildType
<1>13. StudyType'
  <2>1. DirOver(Instances \cup {Template})' BY <1>8 DEF N
  <2> QED BY <1>1, <1>2, <1>6, <1>7, <1>9, <1>11, <1>12, <2>1 DEF StudyBase, StudyType, StudyPlaces
<1>14. StudyTrails'
  BY <1>1, <1>2, <1>6 DEF StudyBase, StudyTrails
<1> QED BY <1>2, <1>4, <1>6, <1>10, <1>13, <1>14 DEF StudyBase, r

LEMMA StudyGathers ==
  ASSUME RunType, StudyBase, Type = "parameterStudy", gatherFiles
  PROVE  StudyBase'
<1>1. /\ UNCHANGED <<component, disk, mem, dir, child, study>> /\ pc = "gather" /\ pc' = "conclude"
      /\ gathered' \subseteq gathered \cup Instances
  BY DEF gatherFiles
<1>2. Instances' = Instances /\ numTotal' = numTotal BY <1>1, InstancesKept
<1>3. StudyProgress' BY <1>1, <1>2 DEF StudyBase, StudyType, StudyProgress
<1>4. StudyType'
  BY <1>1, <1>2, <1>3 DEF StudyBase, StudyType, StudyPlaces, DirOver, ChildType
<1>5. StudyTrails' BY <1>1 DEF StudyBase, StudyTrails
<1> QED BY <1>4, <1>5 DEF StudyBase

LEMMA StudyConcludes ==
  ASSUME RunType, StudyBase, Type = "parameterStudy", StudyEnds
  PROVE  StudyBase'
<1>1. /\ UNCHANGED <<component, dir, child, study, gathered>> /\ pc = "conclude" /\ pc' \in {"delete", "idle"}
      /\ disk' = mem'
      /\ mem' = [mem EXCEPT !.state = IF mem.numFailed > 0 THEN "failed" ELSE "finished",
                            !.initialized = FALSE]
  BY DEF StudyEnds, Write
<1>2. mem \in ProgressOver({}) BY DEF StudyBase, StudyType
<1>3. mem' \in ProgressOver({}) BY <1>1, <1>2 DEF ProgressOver, States
<1>4. Instances' = Instances /\ numTotal' = numTotal BY <1>1, InstancesKept
<1>5. StudyProgress' BY <1>1, <1>4 DEF StudyBase, StudyType, StudyProgress
<1>6. StudyType'
  BY <1>1, <1>3, <1>4, <1>5 DEF StudyBase, StudyType, StudyPlaces, DirOver, ChildType
<1>7. StudyTrails' BY <1>1 DEF StudyBase, StudyTrails
<1> QED BY <1>6, <1>7 DEF StudyBase

LEMMA StudyDeletes ==
  ASSUME RunType, StudyBase, Type = "parameterStudy", DeleteInstances
  PROVE  StudyBase'
<1>1. /\ UNCHANGED <<component, disk, mem, child, study, gathered>> /\ pc = "delete" /\ pc' = "idle"
      /\ dir' = Without(dir, Instances)
  BY DEF DeleteInstances
<1>2. Instances' = Instances /\ numTotal' = numTotal BY <1>1, InstancesKept
<1>3. /\ DirOver(Instances \cup {Template}) /\ Template \in DOMAIN dir /\ Template \notin Instances
      /\ DOMAIN child = {} /\ ChildType
  BY <1>1, StudyAxes DEF StudyBase, StudyType
<1>4. /\ DOMAIN dir' = DOMAIN dir \ Instances /\ \A d \in DOMAIN dir' : dir'[d] = dir[d]
      /\ dir' = [d \in DOMAIN dir' |-> dir'[d]]
  BY <1>1 DEF Without, Restrict
<1>5. DirOver(Instances \cup {Template})'
  <2> DEFINE N == Instances \cup {Template}
  <2>1. N' = N BY <1>2
  <2>2. DirOver(N) BY <1>3
  <2> HIDE DEF N
  <2>3. DOMAIN dir' \subseteq N /\ dir' \in [DOMAIN dir' -> DirectoryOver(N)] BY <1>4, <2>2 DEF DirOver
  <2>4. DirOver(N)' BY <2>1, <2>3 DEF DirOver, DirectoryOver
  <2> QED BY <2>4 DEF N
<1>6. StudyProgress' BY <1>1, <1>2 DEF StudyBase, StudyType, StudyProgress
<1>7. ChildType' BY <1>1, <1>3 DEF ChildType
<1>8. StudyType'
  BY <1>1, <1>2, <1>3, <1>4, <1>5, <1>6, <1>7 DEF StudyBase, StudyType, StudyPlaces
<1>9. StudyTrails' BY <1>1, <1>3, <1>4 DEF StudyBase, StudyTrails
<1> QED BY <1>8, <1>9 DEF StudyBase

LEMMA StudyPaused ==
  ASSUME RunType, StudyBase, Type = "parameterStudy", Stop \/ RemoveEnds
  PROVE  StudyBase'
<1>1. UNCHANGED <<component, disk, mem, dir, pc, study, gathered>> BY DEF Stop, RemoveEnds
<1>2. PICK b \in BOOLEAN : child' = [d \in DOMAIN child |-> pause(child[d], b)] BY DEF Stop, RemoveEnds
<1>3. ChildType' /\ DOMAIN child' = DOMAIN child BY <1>1, <1>2, PausedType DEF StudyBase, StudyType
<1>4. Instances' = Instances /\ numTotal' = numTotal /\ \A n : paramVec(n)' = paramVec(n)
  BY <1>1, InstancesKept DEF paramVec
<1>5. StudyProgress' BY <1>1, <1>3, <1>4 DEF StudyBase, StudyType, StudyProgress
<1>6. StudyType' BY <1>1, <1>3, <1>4, <1>5 DEF StudyBase, StudyType, DirOver
<1>7. \A d \in DOMAIN child : child'[d].left = {}
  BY <1>2, PauseType DEF StudyBase, StudyType, ChildType
<1>8. StudyTrails' BY <1>1, <1>3, <1>7 DEF StudyBase, StudyTrails
<1> QED BY <1>6, <1>8 DEF StudyBase

LEMMA NextStudy ==
  ASSUME RunType, StudyBase, Type = "parameterStudy", [Next]_vars
  PROVE  StudyBase'
<1>1. CASE \E d \in DOMAIN child, t \in Task, result \in {"finished", "failed"} : TaskEnds(d, t, result)
  BY <1>1, StudyTask
<1>2. CASE \E v \in DOMAIN child : InstanceEnds(v) BY <1>2, StudyInstanceEnds
<1>3. CASE _PSHandler \/ DelegateInstance \/ syncComponentStateFrom
  BY <1>3, StudyBegins, StudySpawns, StudySynced
<1>4. CASE gatherFiles \/ StudyEnds \/ DeleteInstances
  BY <1>4, StudyGathers, StudyConcludes, StudyDeletes
<1>5. CASE Stop \/ RemoveEnds BY <1>5, StudyPaused
<1>6. CASE Run
  <2>1. UNCHANGED <<component, disk, dir, child, pc, study, gathered>> /\ mem' = disk BY <1>6 DEF Run
  <2>2. Instances' = Instances /\ numTotal' = numTotal /\ \A n : paramVec(n)' = paramVec(n)
    BY <2>1, InstancesKept DEF paramVec
  <2>3. StudyProgress' BY <2>1, <2>2 DEF StudyBase, StudyType, StudyProgress
  <2>4. StudyType' BY <2>1, <2>2, <2>3 DEF StudyBase, StudyType, DirOver, ChildType
  <2> QED BY <2>1, <2>4 DEF StudyBase, StudyTrails
<1>7. CASE Crash
  <2>1. /\ UNCHANGED <<component, disk, dir, gathered>> /\ mem' = disk /\ pc' = "idle"
        /\ DOMAIN child' = {} /\ study' = [spawned |-> 0, representative |-> Null]
    BY <1>7 DEF Crash, NoStudy
  <2>2. Instances' = Instances /\ numTotal' = numTotal BY <2>1, InstancesKept
  <2>3. StudyProgress' BY <2>1, <2>2, StudyAxes DEF StudyProgress
  <2>4. ChildType' BY <1>7, <2>1 DEF ChildType, Crash
  <2>5. StudyType' BY <2>1, <2>2, <2>3, <2>4 DEF StudyBase, StudyType, DirOver, StudyPlaces
  <2> QED BY <2>1, <2>5 DEF StudyBase, StudyTrails
<1>8. CASE UNCHANGED <<component, disk, mem, dir, child, pc, study, gathered, cut>>
  <2>1. Instances' = Instances /\ numTotal' = numTotal /\ \A n : paramVec(n)' = paramVec(n)
    BY <1>8, InstancesKept DEF paramVec
  <2>2. StudyProgress' BY <1>8, <2>1 DEF StudyBase, StudyType, StudyProgress
  <2>3. StudyType' BY <1>8, <2>1, <2>2 DEF StudyBase, StudyType, DirOver, ChildType
  <2> QED BY <1>8, <2>3 DEF StudyBase, StudyTrails
<1> QED BY <1>1, <1>2, <1>3, <1>4, <1>5, <1>6, <1>7, <1>8, StudySteps DEF StudyBase

-----------------------------------------------------------------------------
(* Parameter studies: what is counted                                      *)

\* The instances that have been spawned and have ended.
SpawnedBefore == {paramVec(n) : n \in 0..(study.spawned - 1)}
Ended == SpawnedBefore \ DOMAIN child
InState(D, S, state) == {v \in S : D[v].state = state}

\* The child c of an instance is told of what fails in its directory x.
ToldOfFailures(c, x) ==
  /\ c.state = "running"
  /\ \A t \in Task \ c.left : x.tasks[t] = "finished" \/ c.failed
  /\ c.failed => \E t \in Task \ c.left : x.tasks[t] = "failed"

\* The state of a directory tells whether all of its tasks ended well.
AllFinished(x) == \A t \in Task : x.tasks[t] = "finished"
StatesTell(D, S) ==
  \A v \in S : D[v].state \in {"finished", "failed"} /\ (D[v].state = "finished" <=> AllFinished(D[v]))
Counted(D, m, S) ==
  /\ m.numFinished = Cardinality(InState(D, S, "finished"))
  /\ m.numFailed = Cardinality(InState(D, S, "failed"))

\* While instances are running, those that have ended are counted, and one of
\* them that failed, if any did, represents the study.
Represented(D, r, S) ==
  /\ r = Null => S = {}
  /\ r # Null => r \in S /\ (D[r].state # "failed" => InState(D, S, "failed") = {})
CountsEnded ==
  /\ disk.state = "running" /\ mem.state = "running" /\ DOMAIN child \subseteq SpawnedBefore
  /\ \A d \in DOMAIN child : ToldOfFailures(child[d], dir[d])
  /\ StatesTell(dir, Ended) /\ Counted(dir, mem, Ended) /\ Represented(dir, study.representative, Ended)
  /\ Ended # {} => Counted(dir, disk, Ended)

\* When all have ended, that holds for all of them.
CountsAll ==
  /\ StatesTell(dir, Instances) /\ Counted(dir, mem, Instances) /\ Counted(dir, disk, Instances)
  /\ disk.state = IF mem.numFailed > 0 THEN "failed" ELSE "finished"
  /\ pc # "gather" /\ disk.state = "finished" => gathered = Instances

\* What is recorded of a study that has ended.
CountsRecorded ==
  /\ disk.numFinished + disk.numFailed = Cardinality(Instances)
  /\ disk.state = "finished" => gathered = Instances
  /\ ~component.deleteLoopInstance =>
       /\ Instances \subseteq DOMAIN dir
       /\ disk.numFinished = Cardinality({v \in Instances : AllFinished(dir[v])})

StudyCount ==
  cut # "stop" =>
    /\ pc = "spawn" => CountsEnded
    /\ pc \in {"gather", "conclude", "delete"} => CountsAll
    /\ pc = "idle" /\ disk.state \in {"finished", "failed"} => CountsRecorded

LEMMA StudyExact ==
  ASSUME RunType, Type = "parameterStudy", IsExact(component.axes)
  PROVE  /\ IsFiniteSet(Instances) /\ Cardinality(Instances) = Cardinality(Product(component.axes))
         /\ \A m, n \in 0..(numTotal - 1) : paramVec(m) = paramVec(n) => m = n
<1>1. IsSpace(component.axes) /\ Instances = Product(component.axes) BY StudyAxes
<1>2. IsFiniteSet(Product(component.axes)) BY <1>1, SpaceCounted
<1>3. \A m, n \in 0..(numTotal - 1) : paramVec(m) = paramVec(n) => m = n
  BY <1>1, NoVectorTwice DEF paramVec, numTotal
<1> QED BY <1>1, <1>2, <1>3

LEMMA SpawnedKept ==
  ASSUME component' = component
  PROVE  SpawnedBefore' = {paramVec(n) : n \in 0..(study'.spawned - 1)}
<1>1. \A n : paramVec(n)' = paramVec(n) BY DEF paramVec
<1> QED BY <1>1 DEF SpawnedBefore

LEMMA EndedAreInstances ==
  ASSUME RunType, StudyBase, Type = "parameterStudy"
  PROVE  SpawnedBefore \subseteq Instances /\ Ended \subseteq Instances
<1>1. study.spawned \in 0..numTotal /\ numTotal \in Nat BY StudyAxes DEF StudyBase, StudyType, StudyProgress
<1>2. \A n \in 0..(study.spawned - 1) : n \in 0..(numTotal - 1) BY <1>1
<1> QED BY <1>2 DEF SpawnedBefore, Ended, Instances

\* These depend on the directories of S only.
LEMMA SameStates ==
  ASSUME NEW D, NEW E, NEW S, \A v \in S : E[v] = D[v]
  PROVE  /\ StatesTell(E, S) = StatesTell(D, S)
         /\ \A state : InState(E, S, state) = InState(D, S, state)
         /\ \A m : Counted(E, m, S) = Counted(D, m, S)
         /\ \A r : Represented(E, r, S) = Represented(D, r, S)
<1>1. StatesTell(E, S) = StatesTell(D, S) BY DEF StatesTell, AllFinished
<1>2. \A state : InState(E, S, state) = InState(D, S, state) BY DEF InState
<1>3. \A m : Counted(E, m, S) = Counted(D, m, S) BY <1>2 DEF Counted
<1>4. \A r : Represented(E, r, S) = Represented(D, r, S) BY <1>2 DEF Represented
<1> QED BY <1>1, <1>2, <1>3, <1>4

\* One more directory of one state or the other is counted with it.
LEMMA CountOneMore ==
  ASSUME NEW D, NEW S, IsFiniteSet(S), NEW v, v \notin S, D[v].state \in {"finished", "failed"},
         NEW m, NEW n, Counted(D, m, S),
         n.numFinished = m.numFinished + (IF D[v].state = "finished" THEN 1 ELSE 0),
         n.numFailed = m.numFailed + (IF D[v].state = "failed" THEN 1 ELSE 0)
  PROVE  Counted(D, n, S \cup {v})
<1>1. \A state : InState(D, S, state) \subseteq S /\ v \notin InState(D, S, state) BY DEF InState
<1>2. \A state : IsFiniteSet(InState(D, S, state)) BY <1>1, FS_Subset
<1>3. \A state : Cardinality(InState(D, S, state)) \in Nat BY <1>2, FS_CardinalityType
<1>4. \A state : InState(D, S \cup {v}, state) =
        IF D[v].state = state THEN InState(D, S, state) \cup {v} ELSE InState(D, S, state)
  BY DEF InState
<1>5. \A state : Cardinality(InState(D, S, state) \cup {v}) = Cardinality(InState(D, S, state)) + 1
  BY <1>1, <1>2, FS_AddElement
<1>6. CASE D[v].state = "finished"
  <2>1. InState(D, S \cup {v}, "finished") = InState(D, S, "finished") \cup {v} BY <1>4, <1>6
  <2>2. InState(D, S \cup {v}, "failed") = InState(D, S, "failed") BY <1>4, <1>6
  <2>3. m.numFinished = Cardinality(InState(D, S, "finished")) /\ m.numFailed = Cardinality(InState(D, S, "failed"))
    BY DEF Counted
  <2>4. n.numFinished = m.numFinished + 1 /\ n.numFailed = m.numFailed + 0 BY <1>6
  <2>5. n.numFailed = m.numFailed BY <1>3, <2>3, <2>4
  <2> QED BY <1>5, <2>1, <2>2, <2>3, <2>4, <2>5 DEF Counted
<1>7. CASE D[v].state = "failed"
  <2>1. InState(D, S \cup {v}, "failed") = InState(D, S, "failed") \cup {v} BY <1>4, <1>7
  <2>2. InState(D, S \cup {v}, "finished") = InState(D, S, "finished") BY <1>4, <1>7
  <2>3. m.numFinished = Cardinality(InState(D, S, "finished")) /\ m.numFailed = Cardinality(InState(D, S, "failed"))
    BY DEF Counted
  <2>4. n.numFailed = m.numFailed + 1 /\ n.numFinished = m.numFinished + 0 BY <1>7
  <2>5. n.numFinished = m.numFinished BY <1>3, <2>3, <2>4
  <2> QED BY <1>5, <2>1, <2>2, <2>3, <2>4, <2>5 DEF Counted
<1> QED BY <1>6, <1>7

\* Finished and failed ones together are all.
LEMMA CountsAddUp ==
  ASSUME NEW D, NEW S, IsFiniteSet(S), StatesTell(D, S), NEW m, Counted(D, m, S)
  PROVE  /\ m.numFinished \in Nat /\ m.numFailed \in Nat
         /\ m.numFinished + m.numFailed = Cardinality(S)
         /\ m.numFailed > 0 <=> InState(D, S, "failed") # {}
         /\ m.numFinished = Cardinality({v \in S : AllFinished(D[v])})
<1> DEFINE F == InState(D, S, "finished")
<1> DEFINE G == InState(D, S, "failed")
<1>1. F \subseteq S /\ G \subseteq S /\ F \cap G = {} /\ F \cup G = S BY DEF InState, StatesTell
<1>2. F = {v \in S : AllFinished(D[v])} BY DEF InState, StatesTell
<1>3. m.numFinished = Cardinality(F) /\ m.numFailed = Cardinality(G) BY DEF Counted
<1> HIDE DEF F, G
<1>4. IsFiniteSet(F) /\ IsFiniteSet(G) BY <1>1, FS_Subset
<1>5. Cardinality(F) \in Nat /\ Cardinality(G) \in Nat BY <1>4, FS_CardinalityType
<1>6. Cardinality(F \cup G) = Cardinality(F) + Cardinality(G) - Cardinality(F \cap G) BY <1>4, FS_Union
<1>7. Cardinality(F \cap G) = 0 BY <1>1, FS_EmptySet
<1>8. Cardinality(S) = Cardinality(F) + Cardinality(G)
  <2>1. Cardinality(S) = Cardinality(F) + Cardinality(G) - 0 BY <1>1, <1>6, <1>7
  <2> QED BY <1>5, <2>1
<1>9. Cardinality(G) > 0 <=> G # {}
  <2>1. Cardinality(G) = 0 <=> G = {} BY <1>4, FS_EmptySet
  <2> QED BY <1>5, <2>1
<1> QED BY <1>2, <1>3, <1>5, <1>8, <1>9 DEF G

\* While instances are running, the invariant is about these.
LEMMA CountSpawning ==
  ASSUME pc' = "spawn", cut' # "stop" => CountsEnded'
  PROVE  StudyCount'
BY DEF StudyCount

LEMMA CountTask ==
  ASSUME RunType, StudyBase, StudyCount, Type = "parameterStudy", NEW d \in DOMAIN child, NEW t \in Task,
         NEW result \in {"finished", "failed"}, TaskEnds(d, t, result)
  PROVE  StudyCount'
<1>1. UNCHANGED <<component, disk, mem, pc, study, gathered, cut>> BY DEF TaskEnds
<1>2. Noted(d, t, result) BY StudyTask
<1>3. pc = "spawn" BY DEF StudyBase, StudyType
<1> SUFFICES ASSUME cut # "stop" PROVE CountsEnded' BY <1>1, <1>3, CountSpawning
<1>4. CountsEnded BY <1>3 DEF StudyCount
<1>5. /\ DOMAIN child' = DOMAIN child /\ \A e \in DOMAIN child : e # d => child'[e] = child[e]
      /\ \A e \in DOMAIN dir : e # d => dir'[e] = dir[e]
      /\ DOMAIN child \subseteq DOMAIN dir /\ child[d] \in Child
  BY <1>2 DEF Noted, StudyBase, StudyType, ChildType
<1>6. SpawnedBefore' = SpawnedBefore /\ Ended' = Ended
  <2>1. SpawnedBefore' = SpawnedBefore BY <1>1, SpawnedKept DEF SpawnedBefore
  <2> QED BY <1>5, <2>1 DEF Ended
<1>7. \A v \in Ended : dir'[v] = dir[v]
  <2>1. \A v \in Ended : v \in Instances /\ v # d BY EndedAreInstances DEF Ended
  <2>2. Ended \subseteq DOMAIN dir
    <3>1. \A n \in 0..(study.spawned - 1) : paramVec(n) \in DOMAIN dir
      BY <1>3 DEF StudyBase, StudyType, StudyProgress
    <3> QED BY <3>1 DEF Ended, SpawnedBefore
  <2> QED BY <1>5, <2>1, <2>2
<1>8. ToldOfFailures(child'[d], dir'[d])
  <2> DEFINE c == child[d]
  <2> DEFINE x == dir[d]
  <2>1. ToldOfFailures(c, x) /\ t \in c.left /\ c.left \subseteq Task
    BY <1>4, <1>5 DEF CountsEnded, TaskEnds, Child
  <2>2. /\ child'[d].left = c.left \ {t} /\ child'[d].state = c.state
        /\ child'[d].failed = (c.failed \/ result = "failed")
    BY <1>2 DEF Noted
  <2>3. x.tasks \in [Task -> TaskStates]
    BY <1>5 DEF StudyBase, StudyType, DirOver, DirectoryOver
  <2>4. \A u \in Task : dir'[d].tasks[u] = IF u = t THEN result ELSE x.tasks[u]
    BY <1>2, <2>3 DEF Noted
  <2> DEFINE f == child'[d].failed
  <2>5. f <=> c.failed \/ result = "failed" BY <2>2
  <2> HIDE DEF c, x, f
  <2>6. \A u \in Task \ (c.left \ {t}) : dir'[d].tasks[u] = "finished" \/ f
    BY <2>1, <2>4, <2>5 DEF ToldOfFailures
  <2>7. ASSUME f PROVE \E u \in Task \ (c.left \ {t}) : dir'[d].tasks[u] = "failed"
    <3>1. CASE result = "failed" BY <2>1, <2>4, <3>1
    <3>2. CASE c.failed BY <2>1, <2>4, <3>2 DEF ToldOfFailures
    <3> QED BY <2>5, <2>7, <3>1, <3>2
  <2> QED BY <2>1, <2>2, <2>6, <2>7 DEF ToldOfFailures, f
<1>9. \A e \in DOMAIN child' : ToldOfFailures(child'[e], dir'[e])
  BY <1>4, <1>5, <1>8 DEF CountsEnded
<1>10. /\ StatesTell(dir', Ended) /\ Counted(dir', mem, Ended)
       /\ Represented(dir', study.representative, Ended)
       /\ Ended # {} => Counted(dir', disk, Ended)
  BY <1>4, <1>7, SameStates DEF CountsEnded
<1> QED BY <1>1, <1>4, <1>5, <1>6, <1>9, <1>10 DEF CountsEnded

LEMMA CountSpawns ==
  ASSUME RunType, StudyBase, StudyCount, Type = "parameterStudy", IsExact(component.axes), DelegateInstance
  PROVE  StudyCount'
<1> DEFINE v == paramVec(study.spawned)
<1> DEFINE x == Spawned(v)
<1>1. UNCHANGED <<component, disk, mem, pc, gathered, cut>> /\ pc = "spawn" BY DEF DelegateInstance
<1> SUFFICES ASSUME cut # "stop" PROVE CountsEnded' BY <1>1, CountSpawning
<1>2. CountsEnded BY <1>1 DEF StudyCount
<1>3. study.spawned \in 0..(numTotal - 1) /\ study.spawned \in Nat /\ numTotal \in Nat
  BY StudyAxes DEF DelegateInstance, StudyBase, StudyType, StudyProgress
<1>4. v \notin SpawnedBefore
  <2>1. \A n \in 0..(study.spawned - 1) : n \in 0..(numTotal - 1) /\ n # study.spawned BY <1>3
  <2> QED BY <1>3, <2>1, StudyExact DEF SpawnedBefore
<1>5. dir' = Put(dir, v, x) /\ child' = Put(child, v, NewChild(x)) BY DEF DelegateInstance, Spawned
<1>6. study'.spawned = study.spawned + 1 /\ study'.representative = study.representative
  BY DEF DelegateInstance, StudyBase, StudyType, StudyProgress
<1>7. SpawnedBefore' = SpawnedBefore \cup {v}
  <2>1. SpawnedBefore' = {paramVec(n) : n \in 0..study.spawned}
    BY <1>1, <1>3, <1>6, SpawnedKept
  <2>2. 0..study.spawned = (0..(study.spawned - 1)) \cup {study.spawned} BY <1>3
  <2> QED BY <2>1, <2>2 DEF SpawnedBefore
<1> HIDE DEF v, x
<1>8. /\ DOMAIN child' = DOMAIN child \cup {v} /\ child'[v] = NewChild(x) /\ dir'[v] = x
      /\ \A d \in DOMAIN child : d # v => child'[d] = child[d]
      /\ \A d \in DOMAIN dir : d # v => dir'[d] = dir[d]
  BY <1>5 DEF Put
<1>9. v \notin DOMAIN child BY <1>2, <1>4 DEF CountsEnded
<1>10. Ended' = Ended /\ v \notin Ended BY <1>4, <1>7, <1>8 DEF Ended
<1>11. \A e \in Ended : dir'[e] = dir[e]
  <2>1. \A n \in 0..(study.spawned - 1) : paramVec(n) \in DOMAIN dir
    BY <1>1 DEF StudyBase, StudyType, StudyProgress
  <2>2. Ended \subseteq DOMAIN dir BY <2>1 DEF Ended, SpawnedBefore
  <2> QED BY <1>8, <1>10, <2>2
<1>12. ToldOfFailures(child'[v], dir'[v])
  <2>1. /\ NewChild(x).state = "running" /\ NewChild(x).failed = FALSE
        /\ NewChild(x).left = {t \in Task : x.tasks[t] # "finished"}
    BY NewChildType
  <2> QED BY <1>8, <2>1 DEF ToldOfFailures
<1>13. \A e \in DOMAIN child' : ToldOfFailures(child'[e], dir'[e])
  <2>1. DOMAIN child \subseteq DOMAIN dir BY DEF StudyBase, StudyType, ChildType
  <2> QED BY <1>2, <1>8, <1>9, <1>12, <2>1 DEF CountsEnded
<1>14. /\ StatesTell(dir', Ended) /\ Counted(dir', mem, Ended)
       /\ Represented(dir', study.representative, Ended)
       /\ Ended # {} => Counted(dir', disk, Ended)
  BY <1>2, <1>11, SameStates DEF CountsEnded
<1> QED BY <1>1, <1>2, <1>6, <1>7, <1>8, <1>10, <1>13, <1>14 DEF CountsEnded

LEMMA CountInstanceEnds ==
  ASSUME RunType, StudyBase, StudyCount, Type = "parameterStudy", IsExact(component.axes),
         NEW v \in DOMAIN child, InstanceEnds(v)
  PROVE  StudyCount'
<1> DEFINE state == Outcome(child[v])
<1>1. UNCHANGED <<component, pc, gathered, cut>> /\ pc = "spawn" /\ child[v].left = {}
  BY DEF InstanceEnds, Done
<1> SUFFICES ASSUME cut # "stop" PROVE CountsEnded' BY <1>1, CountSpawning
<1>2. CountsEnded BY <1>1 DEF StudyCount
<1>3. /\ DOMAIN dir' = DOMAIN dir /\ dir'[v].state = state
      /\ \A d \in DOMAIN dir : dir'[d].tasks = dir[d].tasks
      /\ \A d \in DOMAIN dir : d # v => dir'[d] = dir[d]
      /\ DOMAIN child' = DOMAIN child \ {v}
      /\ \A d \in DOMAIN child' : child'[d] = child[d]
  BY StudyInstanceEnds
<1>4. /\ child[v] \in Child /\ v \in DOMAIN dir /\ v \in SpawnedBefore
      /\ ToldOfFailures(child[v], dir[v]) /\ DOMAIN child \subseteq DOMAIN dir
  BY <1>2 DEF CountsEnded, StudyBase, StudyType, ChildType
<1>5. child[v].state = "running" BY <1>4 DEF ToldOfFailures
<1>6. state = IF child[v].failed THEN "failed" ELSE "finished"
  BY <1>4, <1>5, PauseType DEF Outcome, _getState
<1>7. (state = "finished" <=> AllFinished(dir'[v])) /\ state \in {"finished", "failed"}
  <2>1. AllFinished(dir'[v]) <=> \A t \in Task : dir[v].tasks[t] = "finished"
    BY <1>3, <1>4 DEF AllFinished
  <2> QED BY <1>1, <1>4, <1>6, <2>1 DEF ToldOfFailures
<1>8. /\ mem' = disk' /\ mem'.state = mem.state
      /\ mem'.numFinished = mem.numFinished + (IF state = "finished" THEN 1 ELSE 0)
      /\ mem'.numFailed = mem.numFailed + (IF state = "failed" THEN 1 ELSE 0)
  <2>1. /\ mem' = disk' /\ mem \in ProgressOver({})
        /\ mem' = CASE state = "finished" -> [mem EXCEPT !.numFinished = @ + 1]
                    [] state = "failed" -> [mem EXCEPT !.numFailed = @ + 1]
                    [] OTHER -> mem
    BY DEF InstanceEnds, Write, StudyBase, StudyType
  <2> HIDE DEF state
  <2>2. mem.numFinished \in Nat /\ mem.numFailed \in Nat BY <2>1 DEF ProgressOver
  <2>3. CASE state = "finished" BY <2>1, <2>2, <2>3 DEF ProgressOver
  <2>4. CASE state = "failed" BY <2>1, <2>2, <2>4 DEF ProgressOver
  <2> QED BY <1>7, <2>3, <2>4
<1>9. study'.spawned = study.spawned
      /\ study'.representative = IF Represents(v, state) THEN v ELSE study.representative
  BY DEF InstanceEnds, StudyBase, StudyType, StudyProgress
<1> HIDE DEF state
<1>10. SpawnedBefore' = SpawnedBefore BY <1>1, <1>9, SpawnedKept DEF SpawnedBefore
<1>11. Ended' = Ended \cup {v} /\ v \notin Ended BY <1>3, <1>4, <1>10 DEF Ended
<1>12. \A e \in Ended : dir'[e] = dir[e]
  <2>1. \A n \in 0..(study.spawned - 1) : paramVec(n) \in DOMAIN dir
    BY <1>1 DEF StudyBase, StudyType, StudyProgress
  <2>2. Ended \subseteq DOMAIN dir BY <2>1 DEF Ended, SpawnedBefore
  <2> QED BY <1>3, <1>11, <2>2
<1>13. StatesTell(dir', Ended) /\ Counted(dir', mem, Ended)
  BY <1>2, <1>12, SameStates DEF CountsEnded
<1>14. StatesTell(dir', Ended \cup {v}) BY <1>3, <1>7, <1>13 DEF StatesTell
<1>15. IsFiniteSet(Ended) BY EndedAreInstances, StudyExact, FS_Subset
<1>16. Counted(dir', mem', Ended \cup {v})
  BY <1>3, <1>7, <1>8, <1>11, <1>13, <1>15, CountOneMore
<1>17. Represented(dir', study'.representative, Ended \cup {v})
  <2> DEFINE r == study.representative
  <2>1. v # Null /\ \A d \in Ended : d # Null BY StudyAxes, EndedAreInstances DEF StudyBase, StudyType
  <2>2. r = Null => Ended = {}
    BY <1>2 DEF CountsEnded, Represented
  <2>3. r # Null => r \in Ended /\ dir'[r] = dir[r]
                    /\ (dir[r].state # "failed" => InState(dir, Ended, "failed") = {})
    BY <1>2, <1>12 DEF CountsEnded, Represented
  <2>4. InState(dir', Ended, "failed") = InState(dir, Ended, "failed") BY <1>12, SameStates
  <2>5. InState(dir', Ended \cup {v}, "failed")
          = InState(dir', Ended, "failed") \cup (IF state = "failed" THEN {v} ELSE {})
    BY <1>3, <1>11 DEF InState
  <2>6. CASE Represents(v, state)
    <3>1. study'.representative = v BY <1>9, <2>6
    <3>2. ASSUME state # "failed" PROVE InState(dir', Ended \cup {v}, "failed") = {}
      <4>1. r = Null BY <2>6, <3>2 DEF Represents
      <4>2. Ended = {} BY <2>2, <4>1
      <4> QED BY <2>5, <3>2, <4>2 DEF InState
    <3> QED BY <1>3, <2>1, <3>1, <3>2 DEF Represented
  <2>7. CASE ~Represents(v, state)
    <3>1. study'.representative = r BY <1>9, <2>7
    <3>2. r # Null /\ (state = "failed" => dir[r].state = "failed") BY <2>7 DEF Represents
    <3>3. ASSUME dir'[r].state # "failed" PROVE InState(dir', Ended \cup {v}, "failed") = {}
      BY <2>3, <2>4, <2>5, <3>2, <3>3
    <3> QED BY <2>3, <3>1, <3>2, <3>3 DEF Represented
  <2> QED BY <2>6, <2>7
<1>18. \A d \in DOMAIN child' : ToldOfFailures(child'[d], dir'[d])
  BY <1>2, <1>3, <1>4 DEF CountsEnded
<1>19. disk'.state = "running"
  <2>1. mem.state = "running" BY <1>2 DEF CountsEnded
  <2> QED BY <1>8, <2>1
<1> QED
  BY <1>2, <1>3, <1>8, <1>10, <1>11, <1>14, <1>16, <1>17, <1>18, <1>19 DEF CountsEnded

LEMMA CountBegins ==
  ASSUME RunType, StudyBase, Type = "parameterStudy", _PSHandler
  PROVE  StudyCount'
<1>1. /\ UNCHANGED <<component, dir, child, cut>> /\ pc = "idle" /\ pc' = "spawn"
      /\ study' = [spawned |-> 0, representative |-> Null]
      /\ mem' = [mem EXCEPT !.state = "running", !.initialized = TRUE, !.numFinished = 0, !.numFailed = 0]
      /\ disk' = [disk EXCEPT !.state = "running"]
  BY DEF _PSHandler, Handled, NoStudy
<1>2. mem \in ProgressOver({}) /\ disk \in ProgressOver({}) /\ DOMAIN child = {}
  BY <1>1 DEF StudyBase, StudyType
<1>3. disk'.state = "running" /\ mem'.state = "running" /\ mem'.numFinished = 0 /\ mem'.numFailed = 0
  BY <1>1, <1>2 DEF ProgressOver
<1>4. SpawnedBefore' = {} BY <1>1, SpawnedKept
<1>5. Ended' = {} /\ DOMAIN child' = {} BY <1>1, <1>2, <1>4 DEF Ended
<1>6. Cardinality({}) = 0 BY FS_EmptySet
<1>7. \A state : InState(dir', {}, state) = {} BY DEF InState
<1>8. Counted(dir', mem', {}) BY <1>3, <1>6, <1>7 DEF Counted
<1>9. StatesTell(dir', {}) /\ Represented(dir', study'.representative, {})
  BY <1>1 DEF StatesTell, Represented
<1> QED BY <1>1, <1>3, <1>4, <1>5, <1>8, <1>9, CountSpawning DEF CountsEnded

LEMMA CountSynced ==
  ASSUME RunType, StudyBase, StudyCount, Type = "parameterStudy", IsExact(component.axes),
         syncComponentStateFrom
  PROVE  StudyCount'
<1> DEFINE r == study.representative
<1>1. /\ UNCHANGED <<component, mem, child, study, gathered, cut>> /\ pc = "spawn" /\ pc' = "gather"
      /\ study.spawned = numTotal /\ DOMAIN child = {}
      /\ disk' = [disk EXCEPT !.state = dir[r].state]
  BY DEF syncComponentStateFrom
<1> SUFFICES ASSUME cut # "stop" PROVE CountsAll' BY <1>1 DEF StudyCount
<1>2. CountsEnded BY <1>1 DEF StudyCount
<1>3. Ended = Instances BY <1>1 DEF Ended, SpawnedBefore, Instances
<1>4. r \in Instances /\ Instances \subseteq DOMAIN dir /\ \A d \in Instances : dir'[d] = dir[d]
  BY StudySynced
<1>5. /\ disk \in ProgressOver({}) /\ Instances' = Instances /\ r # Null
  BY <1>1, <1>4, InstancesKept, StudyAxes DEF StudyBase, StudyType
<1> HIDE DEF r
<1>6. /\ disk'.state = dir[r].state /\ disk'.numFinished = disk.numFinished
      /\ disk'.numFailed = disk.numFailed
  BY <1>1, <1>5 DEF ProgressOver
<1>7. StatesTell(dir, Instances) /\ Counted(dir, mem, Instances) /\ Counted(dir, disk, Instances)
  BY <1>2, <1>3, <1>4 DEF CountsEnded
<1>8. Counted(dir, disk', Instances) BY <1>6, <1>7 DEF Counted
<1>9. StatesTell(dir', Instances) /\ Counted(dir', mem, Instances) /\ Counted(dir', disk', Instances)
  BY <1>4, <1>7, <1>8, SameStates
<1>10. dir[r].state = IF mem.numFailed > 0 THEN "failed" ELSE "finished"
  <2>1. mem.numFailed > 0 <=> InState(dir, Instances, "failed") # {}
    BY <1>7, StudyExact, CountsAddUp
  <2>2. dir[r].state # "failed" => InState(dir, Instances, "failed") = {}
    BY <1>2, <1>3, <1>5 DEF CountsEnded, Represented, r
  <2>3. dir[r].state = "failed" => r \in InState(dir, Instances, "failed") BY <1>4 DEF InState
  <2>4. dir[r].state \in {"finished", "failed"} BY <1>4, <1>7 DEF StatesTell
  <2> QED BY <2>1, <2>2, <2>3, <2>4
<1> QED BY <1>1, <1>5, <1>6, <1>9, <1>10 DEF CountsAll

LEMMA CountGathers ==
  ASSUME RunType, StudyBase, StudyCount, Type = "parameterStudy", IsExact(component.axes), gatherFiles
  PROVE  StudyCount'
<1>1. /\ UNCHANGED <<component, disk, mem, dir, cut>> /\ pc = "gather" /\ pc' = "conclude"
      /\ gathered' = gathered \cup {v \in Instances : dir[v].tasks[NTask] = "finished"}
  BY DEF gatherFiles
<1> SUFFICES ASSUME cut # "stop" PROVE CountsAll' BY <1>1 DEF StudyCount
<1>2. CountsAll BY <1>1 DEF StudyCount
<1>3. Instances' = Instances /\ gathered \subseteq Instances BY <1>1, InstancesKept DEF StudyBase, StudyType
<1>4. ASSUME disk.state = "finished" PROVE gathered' = Instances
  <2>1. mem.numFailed > 0 <=> InState(dir, Instances, "failed") # {}
    BY <1>2, StudyExact, CountsAddUp DEF CountsAll
  <2>2. InState(dir, Instances, "failed") = {} BY <1>2, <1>4, <2>1 DEF CountsAll
  <2>3. \A v \in Instances : dir[v].state = "finished"
    BY <1>2, <2>2 DEF CountsAll, StatesTell, InState
  <2>4. \A v \in Instances : AllFinished(dir[v]) BY <1>2, <2>3 DEF CountsAll, StatesTell
  <2>5. NTask \in Task BY CountAssumption DEF Task
  <2>6. \A v \in Instances : dir[v].tasks[NTask] = "finished" BY <2>4, <2>5 DEF AllFinished
  <2> QED BY <1>1, <1>3, <2>6
<1> QED BY <1>1, <1>2, <1>3, <1>4 DEF CountsAll

\* What is recorded at the end follows from what has been counted.
LEMMA AllRecorded ==
  ASSUME RunType, StudyBase, Type = "parameterStudy", IsExact(component.axes),
         pc \in {"conclude", "delete"}, CountsAll
  PROVE  CountsRecorded
<1>1. /\ IsFiniteSet(Instances) /\ StatesTell(dir, Instances) /\ Counted(dir, disk, Instances)
      /\ Instances \subseteq DOMAIN dir
  BY StudyExact DEF CountsAll, StudyBase, StudyType, StudyProgress
<1>2. /\ disk.numFinished + disk.numFailed = Cardinality(Instances)
      /\ disk.numFinished = Cardinality({v \in Instances : AllFinished(dir[v])})
  BY <1>1, CountsAddUp
<1> QED BY <1>1, <1>2 DEF CountsAll, CountsRecorded

LEMMA CountConcludes ==
  ASSUME RunType, StudyBase, StudyCount, Type = "parameterStudy", IsExact(component.axes), StudyEnds
  PROVE  StudyCount'
<1>1. /\ UNCHANGED <<component, dir, child, study, gathered, cut>>
      /\ pc = "conclude" /\ pc' \in {"delete", "idle"} /\ disk' = mem'
      /\ mem' = [mem EXCEPT !.state = IF mem.numFailed > 0 THEN "failed" ELSE "finished",
                            !.initialized = FALSE]
  BY DEF StudyEnds, Write
<1> SUFFICES ASSUME cut # "stop" PROVE CountsAll' /\ CountsRecorded'
  BY <1>1 DEF StudyCount
<1>2. CountsAll BY <1>1 DEF StudyCount
<1>3. mem \in ProgressOver({}) /\ Instances' = Instances BY <1>1, InstancesKept DEF StudyBase, StudyType
<1>4. /\ disk'.state = (IF mem'.numFailed > 0 THEN "failed" ELSE "finished")
      /\ mem'.numFinished = mem.numFinished /\ mem'.numFailed = mem.numFailed
  BY <1>1, <1>3 DEF ProgressOver
<1>5. Counted(dir, mem', Instances) BY <1>2, <1>4 DEF CountsAll, Counted
<1>6. CountsAll' BY <1>1, <1>2, <1>3, <1>4, <1>5 DEF CountsAll
<1>7. /\ IsFiniteSet(Instances) /\ StatesTell(dir, Instances) /\ Instances \subseteq DOMAIN dir
  BY <1>1, <1>2, StudyExact DEF CountsAll, StudyBase, StudyType, StudyProgress
<1>8. /\ disk'.numFinished + disk'.numFailed = Cardinality(Instances)
      /\ disk'.numFinished = Cardinality({v \in Instances : AllFinished(dir[v])})
  <2>1. Counted(dir, disk', Instances) BY <1>1, <1>5
  <2> QED BY <1>7, <2>1, CountsAddUp
<1>9. CountsRecorded'
  BY <1>1, <1>3, <1>4, <1>6, <1>7, <1>8 DEF CountsAll, CountsRecorded
<1> QED BY <1>6, <1>9

LEMMA CountDeletes ==
  ASSUME RunType, StudyBase, StudyCount, Type = "parameterStudy", IsExact(component.axes), DeleteInstances,
         pc = "delete" => component.deleteLoopInstance
  PROVE  StudyCount'
<1>1. /\ UNCHANGED <<component, disk, mem, study, gathered, cut>> /\ pc = "delete" /\ pc' = "idle"
  BY DEF DeleteInstances
<1> SUFFICES ASSUME cut # "stop" PROVE CountsRecorded' BY <1>1 DEF StudyCount
<1>2. CountsAll BY <1>1 DEF StudyCount
<1>3. CountsRecorded BY <1>1, <1>2, AllRecorded
<1>4. Instances' = Instances BY <1>1, InstancesKept
<1> QED BY <1>1, <1>3, <1>4 DEF CountsRecorded

LEMMA CountRests ==
  ASSUME RunType, StudyBase, StudyCount, Type = "parameterStudy", IsExact(component.axes),
         UNCHANGED <<component, disk, dir, gathered>>, cut' # "stop" => cut # "stop", pc' = "idle",
         pc \in {"idle", "spawn", "conclude", "delete"}
  PROVE  StudyCount'
<1> SUFFICES ASSUME cut # "stop", disk.state \in {"finished", "failed"} PROVE CountsRecorded'
  BY DEF StudyCount
<1>1. Instances' = Instances BY InstancesKept
<1>2. pc # "spawn" BY DEF StudyCount, CountsEnded
<1>3. CountsRecorded BY <1>2, AllRecorded DEF StudyCount
<1> QED BY <1>1, <1>3 DEF CountsRecorded

LEMMA CountStays ==
  ASSUME StudyCount, UNCHANGED <<component, disk, mem, dir, child, pc, study, gathered, cut>>
  PROVE  StudyCount'
<1>1. Instances' = Instances BY InstancesKept
<1>2. SpawnedBefore' = SpawnedBefore BY SpawnedKept DEF SpawnedBefore
<1>3. Ended' = Ended BY <1>2 DEF Ended
<1>4. CountsEnded => CountsEnded' BY <1>2, <1>3 DEF CountsEnded
<1>5. CountsAll => CountsAll' BY <1>1 DEF CountsAll
<1>6. CountsRecorded => CountsRecorded' BY <1>1 DEF CountsRecorded
<1> QED BY <1>4, <1>5, <1>6 DEF StudyCount

DeletesOnlyThen == pc = "delete" => component.deleteLoopInstance
StudyInv == StudyBase /\ StudyCount /\ DeletesOnlyThen

LEMMA InitStudyInv ==
  ASSUME RunType, Init, Type = "parameterStudy"
  PROVE  StudyInv
<1>1. pc = "idle" /\ disk.state = "not-started" BY DEF Init, Progress
<1> QED BY <1>1, InitStudy DEF StudyInv, StudyCount, DeletesOnlyThen

LEMMA NextStudyInv ==
  ASSUME RunType, StudyInv, Type = "parameterStudy", IsExact(component.axes), ~Unwary, [Next]_vars
  PROVE  StudyInv'
<1>1. StudyBase /\ StudyType /\ StudyCount BY DEF StudyInv, StudyBase
<1>2. StudyBase' BY <1>1, NextStudy
<1>3. CASE \E d \in DOMAIN child, t \in Task, result \in {"finished", "failed"} : TaskEnds(d, t, result)
  <2>1. StudyCount' BY <1>1, <1>3, CountTask
  <2> QED BY <1>2, <1>3, <2>1 DEF StudyInv, DeletesOnlyThen, TaskEnds
<1>4. CASE \E v \in DOMAIN child : InstanceEnds(v)
  <2>1. StudyCount' BY <1>1, <1>4, CountInstanceEnds
  <2> QED BY <1>2, <1>4, <2>1 DEF StudyInv, DeletesOnlyThen, InstanceEnds
<1>5. CASE _PSHandler \/ DelegateInstance \/ syncComponentStateFrom \/ gatherFiles
  <2>1. StudyCount' BY <1>1, <1>5, CountBegins, CountSpawns, CountSynced, CountGathers
  <2>2. pc' # "delete"
    BY <1>5 DEF _PSHandler, DelegateInstance, syncComponentStateFrom, gatherFiles
  <2> QED BY <1>2, <2>1, <2>2 DEF StudyInv, DeletesOnlyThen
<1>6. CASE StudyEnds
  <2>1. StudyCount' BY <1>1, <1>6, CountConcludes
  <2> QED BY <1>2, <1>6, <2>1 DEF StudyInv, DeletesOnlyThen, StudyEnds
<1>7. CASE DeleteInstances
  <2>1. StudyCount' BY <1>1, <1>7, CountDeletes DEF StudyInv, DeletesOnlyThen
  <2> QED BY <1>2, <1>7, <2>1 DEF StudyInv, DeletesOnlyThen, DeleteInstances
<1>8. CASE Run
  <2>1. UNCHANGED <<component, disk, dir, gathered, cut, pc>> /\ pc' = "idle" /\ pc = "idle" BY <1>8 DEF Run
  <2>2. StudyCount' BY <1>1, <2>1, CountRests
  <2> QED BY <1>2, <2>1, <2>2 DEF StudyInv, DeletesOnlyThen
<1>9. CASE Crash
  <2>1. /\ UNCHANGED <<component, disk, dir, gathered>> /\ pc' = "idle" /\ pc # "gather"
        /\ (cut' # "stop" => cut # "stop")
    BY <1>9 DEF Crash, MayCrash
  <2>2. pc \in {"idle", "spawn", "conclude", "delete"} BY <1>1, <2>1 DEF StudyType, StudyPlaces
  <2>3. StudyCount' BY <1>1, <2>1, <2>2, CountRests
  <2> QED BY <1>2, <2>1, <2>3 DEF StudyInv, DeletesOnlyThen
<1>10. CASE Stop \/ RemoveEnds
  <2>1. UNCHANGED <<component, pc>> /\ cut' = "stop"
    BY <1>10 DEF Stop, RemoveEnds, RunType
  <2>2. StudyCount' BY <2>1 DEF StudyCount
  <2> QED BY <1>2, <2>1, <2>2 DEF StudyInv, DeletesOnlyThen
<1>11. CASE UNCHANGED <<component, disk, mem, dir, child, pc, study, gathered, cut>>
  <2>1. StudyCount' BY <1>1, <1>11, CountStays
  <2> QED BY <1>2, <1>11, <2>1 DEF StudyInv, DeletesOnlyThen
<1> QED
  BY <1>1, <1>3, <1>4, <1>5, <1>6, <1>7, <1>8, <1>9, <1>10, <1>11, StudySteps

-----------------------------------------------------------------------------
(* Loops                                                                   *)

LoopPlaces == {"idle", "copy", "reset", "trip", "ended", "finalize"}
Index == IF Type = "foreach" THEN Range(component.indexList) ELSE Int

\* Where the trip of an index comes among the trips.
Place(i) == CASE Type = "foreach" -> At(i)
              [] Type = "for" -> i * component.step
              [] Type = "while" -> i
              [] OTHER -> 0

\* A trail to which the trips have added in their order.
Sorted(x) ==
  \A a, b \in DOMAIN x.trail :
    a < b => \/ Place(x.trail[a][1]) < Place(x.trail[b][1])
             \/ (x.trail[a][1] = x.trail[b][1] /\ x.trail[a][2] # x.trail[b][2])

\* It has the results of trips that come before, or not after, that of index
\* i, or of those before it and of some of its own tasks.
Before(x, i) ==
  \A k \in DOMAIN x.trail : x.trail[k][1] \in Index /\ Place(x.trail[k][1]) < Place(i)
UpTo(x, i) ==
  \A k \in DOMAIN x.trail : x.trail[k][1] \in Index /\ Place(x.trail[k][1]) <= Place(i)
Within(x, i, left) ==
  \A k \in DOMAIN x.trail :
    /\ x.trail[k][1] \in Index
    /\ Place(x.trail[k][1]) < Place(i) \/ (x.trail[k][1] = i /\ x.trail[k][2] \notin left)

Over == disk.state \in {"finished", "failed"}

LoopType ==
  /\ mem = disk /\ disk \in ProgressOver(Index) /\ gathered = {} /\ pc \in LoopPlaces
  /\ Template \in DOMAIN dir /\ DirOver(Index \cup {Template})
  /\ DOMAIN child = (IF pc = "trip" THEN {mem.currentIndex} ELSE {}) /\ ChildType
  /\ Over => pc = "idle" /\ dispatcher = "gone"

\* Where a loop that is not over has come to.
LoopProgress ==
  /\ disk.state \in {"not-started", "running"} /\ disk.prevIndex # Null
  /\ ~disk.initialized =>
       /\ pc = "idle" /\ DOMAIN dir = {Template} /\ disk.prevIndex = Undefined
       /\ dispatcher # "gone" => forced = "no"
  /\ disk.initialized =>
       disk.currentIndex \in Index \cup {Null} /\ (pc # "finalize" => disk.currentIndex # Null)
  /\ disk.initialized /\ disk.prevIndex = Undefined =>
       disk.currentIndex = firstIndex /\ (pc = "finalize" => component.keep # 0)
  /\ disk.initialized /\ disk.prevIndex # Undefined /\ disk.currentIndex # Null =>
       Place(disk.prevIndex) < Place(disk.currentIndex)
  /\ pc \in {"reset", "trip", "ended"} => disk.currentIndex \in DOMAIN dir

\* No trip has results yet of those that follow.
LoopTrails ==
  /\ dir[Template].trail = <<>>
  /\ \A d \in DOMAIN dir \ {Template} : UpTo(dir[d], d)
  /\ pc = "reset" => Before(dir[disk.currentIndex], disk.currentIndex)
  /\ pc = "trip" => Within(dir[disk.currentIndex], disk.currentIndex, child[disk.currentIndex].left)

LoopInv ==
  /\ LoopType
  /\ \A d \in DOMAIN dir : Sorted(dir[d])
  /\ ~Over => LoopProgress /\ LoopTrails

\* Each index of a list is at one place of it.
IsOrdered == Type = "foreach" =>
  \A j, k \in DOMAIN component.indexList : component.indexList[j] = component.indexList[k] => j = k

LEMMA ListPlaces ==
  ASSUME RunType, Type = "foreach", IsOrdered
  PROVE  /\ Len(component.indexList) \in Nat \ {0}
         /\ DOMAIN component.indexList = 1..Len(component.indexList)
         /\ Range(component.indexList) = {component.indexList[k] : k \in 1..Len(component.indexList)}
         /\ \A k \in 1..Len(component.indexList) : At(component.indexList[k]) = k
<1>1. component.type = "foreach" /\ component \in Component BY DEF RunType, Type
<1>2. IsForeach(component) BY <1>1, ComponentAssumption
<1>3. component.indexList \in Seq(Range(component.indexList)) /\ component.indexList # <<>>
  BY <1>2 DEF IsForeach, IsSequence
<1>4. /\ Len(component.indexList) \in Nat \ {0}
      /\ DOMAIN component.indexList = 1..Len(component.indexList)
  BY <1>3
<1>5. \A k \in 1..Len(component.indexList) : At(component.indexList[k]) = k
  <2> TAKE k \in 1..Len(component.indexList)
  <2>1. \A j \in DOMAIN component.indexList :
          component.indexList[j] = component.indexList[k] <=> j = k
    BY <1>4 DEF IsOrdered
  <2> QED BY <1>4, <2>1 DEF At
<1> QED BY <1>4, <1>5 DEF Range

LEMMA LoopNames ==
  ASSUME RunType, Type \in Loop, IsOrdered
  PROVE  /\ {Null, Undefined, Template} \cap Index = {} /\ Undefined # Null
         /\ firstIndex \in Index /\ \A i \in Index : Place(i) \in Int
<1>1. component \in Component /\ component.type = Type BY DEF RunType, Type
<1>2. CASE Type = "foreach"
  <2>1. {Null, Undefined, Template} \cap Range(component.indexList) = {} BY <1>1, <1>2, NameAssumption
  <2>2. Index = Range(component.indexList) /\ firstIndex = component.indexList[1]
        /\ \A i : Place(i) = At(i)
    BY <1>2 DEF Index, firstIndex, Place
  <2>3. /\ Len(component.indexList) \in Nat \ {0}
        /\ Range(component.indexList) = {component.indexList[k] : k \in 1..Len(component.indexList)}
        /\ \A k \in 1..Len(component.indexList) : At(component.indexList[k]) = k
    BY <1>2, ListPlaces
  <2>4. firstIndex \in Index BY <2>2, <2>3
  <2>5. ASSUME NEW i \in Index PROVE Place(i) \in Int
    <3>1. PICK k \in 1..Len(component.indexList) : i = component.indexList[k] BY <2>2, <2>3
    <3>2. At(i) = k BY <2>3, <3>1
    <3> QED BY <2>2, <2>3, <3>1, <3>2
  <2> QED BY <2>1, <2>2, <2>4, <2>5, NameAssumption
<1>3. CASE Type = "for"
  <2>1. IsFor(component) BY <1>1, <1>3, ComponentAssumption
  <2>2. Index = Int /\ firstIndex = component.start /\ \A i : Place(i) = i * component.step
    BY <1>3, <2>1 DEF Index, firstIndex, Place, Field, IsFor
  <2> QED BY <2>1, <2>2, NameAssumption DEF IsFor
<1>4. CASE Type = "while"
  <2>1. {"start", "step"} \cap DOMAIN component = {} BY <1>1, <1>4, ComponentAssumption
  <2>2. Index = Int /\ firstIndex = 0 /\ \A i : Place(i) = i
    BY <1>4, <2>1 DEF Index, firstIndex, Place, Field
  <2> QED BY <2>2, NameAssumption
<1> QED BY <1>2, <1>3, <1>4 DEF Loop

\* The index that follows comes later; none comes before the first.
LEMMA NextComesLater ==
  ASSUME RunType, Type \in Loop, IsOrdered, NEW i \in Index
  PROVE  LET next == getNextIndex(i) IN
         /\ next \in Index \cup {Null} /\ (next # Null => Place(i) < Place(next))
         /\ ~isFinished(next) => next \in Index
<1>1. component \in Component /\ component.type = Type BY DEF RunType, Type
<1>2. CASE Type = "foreach"
  <2> DEFINE L == component.indexList
  <2>1. Index = Range(L) /\ (\A j : Place(j) = At(j)) /\ getNextIndex(i) = foreachGetNextIndex(i)
        /\ isFinished(getNextIndex(i)) = foreachIsFinished(getNextIndex(i))
    BY <1>2 DEF Index, Place, getNextIndex, isFinished
  <2>2. /\ Len(L) \in Nat \ {0} /\ Range(L) = {L[k] : k \in 1..Len(L)}
        /\ \A k \in 1..Len(L) : At(L[k]) = k
    BY <1>2, ListPlaces
  <2>3. PICK k \in 1..Len(L) : i = L[k] BY <2>1, <2>2
  <2>4. i # Null BY LoopNames
  <2> HIDE DEF L
  <2>5. foreachGetNextIndex(i) = IF k = Len(L) THEN Null ELSE L[k + 1]
    BY <2>1, <2>2, <2>3, <2>4 DEF foreachGetNextIndex, L
  <2>6. CASE k = Len(L)
    <3>1. Null \notin Index BY LoopNames
    <3> QED BY <2>1, <2>5, <2>6, <3>1 DEF foreachIsFinished, L
  <2>7. CASE k # Len(L)
    <3>1. k + 1 \in 1..Len(L) BY <2>2, <2>7
    <3> QED BY <2>1, <2>2, <2>3, <2>5, <2>7, <3>1
  <2> QED BY <2>6, <2>7
<1>3. CASE Type = "for"
  <2>1. IsFor(component) BY <1>1, <1>3, ComponentAssumption
  <2>2. Index = Int /\ (\A j : Place(j) = j * component.step) /\ getNextIndex(i) = i + component.step
    BY <1>3, LoopNames DEF Index, Place, getNextIndex, forGetNextIndex
  <2> DEFINE s == component.step
  <2>3. s \in Int /\ s # 0 /\ i \in Int BY <2>1, <2>2 DEF IsFor
  <2> HIDE DEF s
  <2>4. s * s > 0 /\ (i + s) * s = i * s + s * s /\ s * s \in Int /\ i * s \in Int
    <3>1. CASE s > 0 BY <2>3, <3>1
    <3>2. CASE s < 0 BY <2>3, <3>2
    <3> QED BY <2>3, <3>1, <3>2
  <2> DEFINE a == i * s
  <2> DEFINE b == s * s
  <2> DEFINE c == (i + s) * s
  <2>5. a < c
    <3>1. a \in Int /\ b \in Int /\ b > 0 /\ c = a + b BY <2>4
    <3> HIDE DEF a, b, c
    <3> QED BY <3>1
  <2> QED BY <2>2, <2>3, <2>5 DEF s
<1>4. CASE Type = "while"
  <2>1. Index = Int /\ (\A j : Place(j) = j) /\ getNextIndex(i) = i + 1
    BY <1>4, LoopNames DEF Index, Place, getNextIndex, whileGetNextIndex
  <2> QED BY <2>1
<1> QED BY <1>2, <1>3, <1>4 DEF Loop

LEMMA FirstIsRun ==
  ASSUME RunType, Type \in Loop, IsOrdered
  PROVE  ~isFinished(firstIndex)
<1>1. component \in Component /\ component.type = Type BY DEF RunType, Type
<1>2. CASE Type = "foreach"
  BY <1>2, LoopNames DEF isFinished, foreachIsFinished, Index
<1>3. CASE Type = "for"
  <2>1. IsFor(component) BY <1>1, <1>3, ComponentAssumption
  <2>2. firstIndex = component.start BY <1>3, <2>1 DEF firstIndex, Field, IsFor
  <2> DEFINE s == component.step
  <2> DEFINE d == component.end - component.start
  <2>3. s \in Int /\ d \in Int /\ d * s >= 0 BY <2>1 DEF IsFor
  <2>4. ~(d < 0 /\ s > 0) /\ ~(d > 0 /\ s < 0)
    <3> HIDE DEF d, s
    <3> QED BY <2>3
  <2>5. ~forIsFinished(component.start) BY <2>1, <2>4 DEF forIsFinished, IsFor
  <2> QED BY <1>3, <2>2, <2>5 DEF isFinished
<1>4. CASE Type = "while"
  <2>1. {"start", "step"} \cap DOMAIN component = {} BY <1>1, <1>4, ComponentAssumption
  <2>2. firstIndex = 0 BY <1>4, <2>1 DEF firstIndex, Field
  <2> QED BY <1>4, <2>2, CountAssumption DEF isFinished
<1> QED BY <1>2, <1>3, <1>4 DEF Loop

\* The first trip is made from the loop's own directory, any other from that
\* of the index before.
LEMMA SourceOfTrip ==
  ASSUME RunType, Type \in Loop, IsOrdered
  PROVE  /\ mem.prevIndex = Undefined /\ mem.currentIndex = firstIndex => Src = Template
         /\ mem.prevIndex \in Index => Src = mem.prevIndex
<1>1. component \in Component /\ component.type = Type BY DEF RunType, Type
<1>2. ASSUME mem.prevIndex \in Index PROVE Src = mem.prevIndex
  <2>1. mem.prevIndex # Undefined /\ mem.prevIndex # Null BY <1>2, LoopNames
  <2>2. getPrevIndex(mem) = mem.prevIndex BY <2>1 DEF getPrevIndex, foreachGetPrevIndex
  <2> QED BY <2>1, <2>2 DEF Src
<1>3. ASSUME mem.prevIndex = Undefined, mem.currentIndex = firstIndex PROVE getPrevIndex(mem) = Null
  <2>1. CASE Type = "foreach"
    <3>1. /\ 1 \in 1..Len(component.indexList)
          /\ \A k \in 1..Len(component.indexList) : At(component.indexList[k]) = k
      BY <2>1, ListPlaces
    <3>2. At(mem.currentIndex) = 1 BY <1>3, <2>1, <3>1 DEF firstIndex
    <3> QED BY <1>3, <2>1, <3>2 DEF getPrevIndex, foreachGetPrevIndex
  <2>2. CASE Type \in {"for", "while"}
    <3>1. Field("start", 0) \in Int /\ firstIndex = Field("start", 0) /\ step \in Int /\ step # 0
      <4>1. CASE Type = "for"
        <5>1. IsFor(component) BY <1>1, <4>1, ComponentAssumption
        <5> QED BY <4>1, <5>1 DEF firstIndex, Field, IsFor, step
      <4>2. CASE Type = "while"
        <5>1. {"start", "step"} \cap DOMAIN component = {} BY <1>1, <4>2, ComponentAssumption
        <5> QED BY <4>2, <5>1 DEF firstIndex, Field, step
      <4> QED BY <2>2, <4>1, <4>2
    <3> DEFINE s == step
    <3> DEFINE f == Field("start", 0)
    <3>2. s \in Int /\ f \in Int /\ s # 0 BY <3>1
    <3>3. ~(((f - s) - f) * s >= 0)
      <4> HIDE DEF s, f
      <4>1. (f - s) - f = -s BY <3>2
      <4>2. (-s) * s < 0
        <5>1. CASE s > 0 BY <3>2, <5>1
        <5>2. CASE s < 0 BY <3>2, <5>2
        <5> QED BY <3>2, <5>1, <5>2
      <4> QED BY <4>1, <4>2, <3>2
    <3>4. getPrevIndex(mem) =
            LET candidate == mem.currentIndex - step
            IN IF (candidate - Field("start", 0)) * step >= 0 THEN candidate ELSE Null
      BY <1>3, <2>2 DEF getPrevIndex
    <3> QED BY <1>3, <3>1, <3>3, <3>4
  <2> QED BY <2>1, <2>2 DEF Loop
<1> QED BY <1>2, <1>3 DEF Src

LEMMA InitLoop ==
  ASSUME RunType, Init, Type \in Loop, IsOrdered
  PROVE  LoopInv
<1> DEFINE x == [state |-> "not-started", tasks |-> NotStarted, trail |-> <<>>]
<1>1. dir[Template] = x /\ DOMAIN dir = {Template} /\ dir \in [{Template} -> {x}] BY DEF Init
<1>2. \A N : x \in DirectoryOver(N)
  BY DEF DirectoryOver, States, TaskStates, NotStarted
<1>3. DirOver(Index \cup {Template}) BY <1>1, <1>2 DEF DirOver
<1>4. DOMAIN child = {} /\ ChildType BY DEF Init, ChildType
<1>5. mem = disk /\ disk \in ProgressOver(Index) /\ gathered = {} /\ pc = "idle" /\ forced = "no"
  BY DEF Init, Progress, ProgressOver, States
<1>6. disk.state = "not-started" /\ disk.prevIndex = Undefined /\ disk.initialized = FALSE
  BY DEF Init, Progress
<1>7. LoopProgress BY <1>1, <1>5, <1>6, NameAssumption DEF LoopProgress
<1>8. LoopTrails BY <1>1, <1>5 DEF LoopTrails
<1>9. \A d \in DOMAIN dir : Sorted(dir[d]) BY <1>1 DEF Sorted
<1>10. LoopType BY <1>1, <1>3, <1>4, <1>5, <1>6 DEF LoopType, LoopPlaces, Over
<1> QED BY <1>7, <1>8, <1>9, <1>10 DEF LoopInv

\* What a loop does.
LEMMA LoopSteps ==
  ASSUME RunType, LoopType, Type \in Loop, ~Unwary, [Next]_vars
  PROVE  \/ /\ ~Over
            /\ \/ \E t \in Task, result \in {"finished", "failed"} : TaskEnds(disk.currentIndex, t, result)
               \/ BreakTrip(disk.currentIndex) \/ _loopHandler \/ CopyTrip \/ CopyFails \/ DelegateTrip
               \/ TripEnds \/ EndTrip \/ _loopFinalize \/ Run \/ Stop \/ RemoveEnds \/ Crash
         \/ BreakHeard \/ UNCHANGED vars
<1>1. /\ DOMAIN child = (IF pc = "trip" THEN {disk.currentIndex} ELSE {}) /\ pc \in LoopPlaces
      /\ Over => pc = "idle" /\ dispatcher = "gone"
  BY DEF LoopType
<1>2. ASSUME NEW d \in DOMAIN child PROVE d = disk.currentIndex /\ ~Over BY <1>1, <1>2
<1>3. ASSUME NEW d \in DOMAIN child, InstanceEnds(d) PROVE FALSE
  BY <1>1, <1>3 DEF InstanceEnds, LoopPlaces
<1>4. ASSUME DelegateWorkflow \/ WorkflowEnds \/ _PSHandler PROVE FALSE
  BY <1>4 DEF DelegateWorkflow, WorkflowEnds, _PSHandler, Loop
<1>5. ASSUME DelegateInstance \/ syncComponentStateFrom \/ gatherFiles \/ StudyEnds \/ DeleteInstances PROVE FALSE
  BY <1>1, <1>5
     DEF DelegateInstance, syncComponentStateFrom, gatherFiles, StudyEnds, DeleteInstances, LoopPlaces
<1>6. ASSUME Over, _loopHandler \/ CopyTrip \/ CopyFails \/ DelegateTrip PROVE FALSE
  BY <1>1, <1>6 DEF _loopHandler, CopyTrip, CopyFails, DelegateTrip, Handled
<1>7. ASSUME Over, TripEnds \/ EndTrip \/ _loopFinalize PROVE FALSE
  BY <1>1, <1>7 DEF TripEnds, EndTrip, _loopFinalize
<1>8. ASSUME Over, Run \/ Stop \/ RemoveEnds \/ Crash PROVE FALSE
  BY <1>1, <1>8 DEF Over, Run, MayContinue, Stop, RemoveEnds, Crash
<1> QED BY <1>2, <1>3, <1>4, <1>5, <1>6, <1>7, <1>8 DEF Next, Step, ChildStep

\* The component does not change, and so do the places of the trips.
LEMMA LoopKept ==
  ASSUME component' = component
  PROVE  /\ Index' = Index /\ firstIndex' = firstIndex /\ Type' = Type
         /\ (\A d \in DOMAIN dir' : Sorted(dir'[d])) => (\A d \in DOMAIN dir : Sorted(dir[d]))'
         /\ (\A d \in DOMAIN dir' \ {Template} : UpTo(dir'[d], d))
              => (\A d \in DOMAIN dir \ {Template} : UpTo(dir[d], d))'
         /\ Before(dir'[disk'.currentIndex], disk'.currentIndex)
              => Before(dir[disk.currentIndex], disk.currentIndex)'
         /\ Within(dir'[disk'.currentIndex], disk'.currentIndex, child'[disk'.currentIndex].left)
              => Within(dir[disk.currentIndex], disk.currentIndex, child[disk.currentIndex].left)'
         /\ Place(disk'.prevIndex) < Place(disk'.currentIndex)
              => (Place(disk.prevIndex) < Place(disk.currentIndex))'
<1>1. Index' = Index BY DEF Index, Type
<1>2. firstIndex' = firstIndex BY DEF firstIndex, Field, Type
<1>3. Type' = Type BY DEF Type
<1>4. ASSUME \A d \in DOMAIN dir' : Sorted(dir'[d]) PROVE (\A d \in DOMAIN dir : Sorted(dir[d]))'
  BY <1>4 DEF Sorted, Place, Type, At
<1>5. ASSUME \A d \in DOMAIN dir' \ {Template} : UpTo(dir'[d], d)
      PROVE  (\A d \in DOMAIN dir \ {Template} : UpTo(dir[d], d))'
  BY <1>1, <1>5 DEF UpTo, Place, Type, At
<1>6. ASSUME Before(dir'[disk'.currentIndex], disk'.currentIndex)
      PROVE  Before(dir[disk.currentIndex], disk.currentIndex)'
  BY <1>1, <1>6 DEF Before, Place, Type, At
<1>7. ASSUME Within(dir'[disk'.currentIndex], disk'.currentIndex, child'[disk'.currentIndex].left)
      PROVE  Within(dir[disk.currentIndex], disk.currentIndex, child[disk.currentIndex].left)'
  BY <1>1, <1>7 DEF Within, Place, Type, At
<1>8. ASSUME Place(disk'.prevIndex) < Place(disk'.currentIndex)
      PROVE  (Place(disk.prevIndex) < Place(disk.currentIndex))'
  BY <1>8 DEF Place, Type, At
<1> QED BY <1>1, <1>2, <1>3, <1>4, <1>5, <1>6, <1>7, <1>8

\* A trail with the results of earlier trips is one to which a trip may add.
LEMMA ComesLater ==
  ASSUME RunType, Type \in Loop, IsOrdered, NEW x, NEW i \in Index
  PROVE  /\ Before(x, i) => UpTo(x, i) /\ \A left : Within(x, i, left)
         /\ \A j \in Index : (UpTo(x, j) /\ Place(j) < Place(i)) => Before(x, i)
         /\ x.trail = <<>> => Before(x, i) /\ Sorted(x)
         /\ \A left : Within(x, i, left) => UpTo(x, i)
<1>1. \A j \in Index : Place(j) \in Int BY LoopNames
<1>2. ASSUME Before(x, i) PROVE UpTo(x, i) /\ \A left : Within(x, i, left)
  BY <1>1, <1>2 DEF Before, UpTo, Within
<1>3. ASSUME NEW j \in Index, UpTo(x, j), Place(j) < Place(i) PROVE Before(x, i)
  BY <1>1, <1>3 DEF Before, UpTo
<1>4. x.trail = <<>> => Before(x, i) /\ Sorted(x) BY DEF Before, Sorted
<1>5. ASSUME NEW left, Within(x, i, left) PROVE UpTo(x, i)
  BY <1>1, <1>5 DEF Within, UpTo
<1> QED BY <1>2, <1>3, <1>4, <1>5

\* These depend on the trail only.
LEMMA SameTrail ==
  ASSUME NEW x, NEW y, y.trail = x.trail
  PROVE  /\ Sorted(y) = Sorted(x)
         /\ \A i : Before(y, i) = Before(x, i) /\ UpTo(y, i) = UpTo(x, i)
         /\ \A i, left : Within(y, i, left) = Within(x, i, left)
BY DEF Sorted, Before, UpTo, Within

LEMMA ProgressKept ==
  ASSUME LoopProgress, UNCHANGED <<component, disk, pc, dispatcher, forced>>, DOMAIN dir' = DOMAIN dir
  PROVE  LoopProgress' /\ Over' = Over
<1>1. Index' = Index /\ firstIndex' = firstIndex BY LoopKept
<1>2. ASSUME disk.initialized, disk.prevIndex # Undefined, disk.currentIndex # Null
      PROVE  (Place(disk.prevIndex) < Place(disk.currentIndex))'
  BY <1>2, LoopKept DEF LoopProgress
<1> QED BY <1>1, <1>2 DEF LoopProgress, Over

\* A task that ends adds to its trail what comes last.
LEMMA TripAppends ==
  ASSUME RunType, Type \in Loop, IsOrdered, NEW x, NEW y, NEW i \in Index, NEW left, NEW t \in left,
         x.trail \in Seq((Index \cup {Template}) \X Task), Sorted(x), Within(x, i, left),
         y.trail = Append(x.trail, <<i, t>>)
  PROVE  Sorted(y) /\ Within(y, i, left \ {t})
<1> DEFINE n == Len(x.trail) + 1
<1>1. /\ DOMAIN y.trail = 1..n /\ DOMAIN x.trail = 1..(n - 1)
      /\ n \in Nat \ {0} /\ y.trail[n] = <<i, t>>
      /\ \A k \in 1..(n - 1) : y.trail[k] = x.trail[k]
  OBVIOUS
<1>2. \A k \in 1..n : k = n \/ k \in 1..(n - 1) BY <1>1
<1> HIDE DEF n
<1>3. ASSUME NEW k \in 1..(n - 1)
      PROVE  /\ x.trail[k][1] \in Index
             /\ \/ Place(x.trail[k][1]) < Place(i)
                \/ (x.trail[k][1] = i /\ x.trail[k][2] \notin left)
  BY <1>1, <1>3 DEF Within
<1>4. Within(y, i, left \ {t})
  <2> SUFFICES ASSUME NEW k \in 1..n
               PROVE  /\ y.trail[k][1] \in Index
                      /\ \/ Place(y.trail[k][1]) < Place(i)
                         \/ (y.trail[k][1] = i /\ y.trail[k][2] \notin left \ {t})
    BY <1>1 DEF Within
  <2>1. CASE k = n BY <1>1, <2>1
  <2>2. CASE k \in 1..(n - 1) BY <1>1, <1>3, <2>2
  <2> QED BY <1>2, <2>1, <2>2
<1>5. Sorted(y)
  <2> SUFFICES ASSUME NEW a \in 1..n, NEW b \in 1..n, a < b
               PROVE  \/ Place(y.trail[a][1]) < Place(y.trail[b][1])
                      \/ (y.trail[a][1] = y.trail[b][1] /\ y.trail[a][2] # y.trail[b][2])
    BY <1>1 DEF Sorted
  <2>1. a \in 1..(n - 1) BY <1>1
  <2>2. CASE b = n
    <3>1. y.trail[b][1] = i /\ y.trail[b][2] = t /\ y.trail[a] = x.trail[a] BY <1>1, <2>1, <2>2
    <3>2. CASE Place(x.trail[a][1]) < Place(i) BY <3>1, <3>2
    <3>3. CASE x.trail[a][1] = i /\ x.trail[a][2] \notin left BY <3>1, <3>3
    <3> QED BY <1>3, <2>1, <3>2, <3>3
  <2>3. CASE b \in 1..(n - 1)
    <3>1. y.trail[b] = x.trail[b] /\ y.trail[a] = x.trail[a] BY <1>1, <2>1, <2>3
    <3>2. \/ Place(x.trail[a][1]) < Place(x.trail[b][1])
          \/ (x.trail[a][1] = x.trail[b][1] /\ x.trail[a][2] # x.trail[b][2])
      BY <1>1, <2>1, <2>3 DEF Sorted
    <3> QED BY <3>1, <3>2
  <2> QED BY <1>2, <2>2, <2>3
<1> QED BY <1>4, <1>5

LEMMA LoopTask ==
  ASSUME RunType, LoopInv, ~Over, Type \in Loop, IsOrdered, NEW t \in Task,
         NEW result \in {"finished", "failed"}, TaskEnds(disk.currentIndex, t, result)
  PROVE  LoopInv'
<1> DEFINE i == disk.currentIndex
<1> DEFINE N == Index \cup {Template}
<1>1. UNCHANGED <<component, disk, mem, pc, dispatcher, forced, gathered>> BY DEF TaskEnds
<1>2. LoopType /\ LoopProgress /\ LoopTrails BY DEF LoopInv
<1>3. i \in DOMAIN child /\ pc = "trip" /\ t \in child[i].left BY <1>2 DEF TaskEnds, LoopType
<1>4. i \in Index /\ i \in DOMAIN dir BY <1>2, <1>3 DEF LoopProgress
<1>5. i # Template BY <1>4, LoopNames
<1>6. DirOver(N) /\ ChildType BY <1>2 DEF LoopType
<1> HIDE DEF N
<1>7. DirOver(N)' /\ ChildType' /\ Noted(i, t, result)
  <2>1. N' = N BY <1>1, LoopKept DEF N
  <2>2. DOMAIN dir' \subseteq N /\ dir' \in [DOMAIN dir' -> DirectoryOver(N)] /\ ChildType' /\ Noted(i, t, result)
    BY <1>3, <1>6, TaskEndsType DEF DirOver
  <2>3. DirOver(N)' BY <2>1, <2>2 DEF DirOver, DirectoryOver
  <2> QED BY <2>2, <2>3
<1>8. /\ DOMAIN dir' = DOMAIN dir /\ \A e \in DOMAIN dir : e # i => dir'[e] = dir[e]
      /\ DOMAIN child' = DOMAIN child /\ child'[i].left = child[i].left \ {t}
      /\ result = "finished" => dir'[i].trail = Append(dir[i].trail, <<i, t>>)
      /\ result = "failed" => dir'[i].trail = dir[i].trail
  BY <1>7 DEF Noted
<1>9. Sorted(dir[i]) /\ Within(dir[i], i, child[i].left) BY <1>2, <1>3, <1>4 DEF LoopInv, LoopTrails
<1>10. Sorted(dir'[i]) /\ Within(dir'[i], i, child'[i].left)
  <2>1. CASE result = "failed"
    <3>1. Within(dir[i], i, child[i].left \ {t}) BY <1>9 DEF Within
    <3> QED BY <1>8, <1>9, <2>1, <3>1, SameTrail
  <2>2. CASE result = "finished"
    <3>1. dir[i].trail \in Seq((Index \cup {Template}) \X Task)
      BY <1>4, <1>6 DEF DirOver, DirectoryOver, N
    <3>2. dir'[i].trail = Append(dir[i].trail, <<i, t>>) BY <1>8, <2>2
    <3> DEFINE x == dir[i]
    <3> DEFINE y == dir'[i]
    <3> DEFINE left == child[i].left
    <3>3. /\ i \in Index /\ t \in left /\ x.trail \in Seq((Index \cup {Template}) \X Task)
          /\ Sorted(x) /\ Within(x, i, left) /\ y.trail = Append(x.trail, <<i, t>>)
          /\ dir'[i] = y /\ child'[i].left = left \ {t}
      BY <1>3, <1>4, <1>8, <1>9, <3>1, <3>2
    <3> HIDE DEF i, x, y, left
    <3>4. Sorted(y) /\ Within(y, i, left \ {t}) BY <3>3, TripAppends
    <3> QED BY <3>3, <3>4
  <2> QED BY <2>1, <2>2
<1>11. \A d \in DOMAIN dir' : Sorted(dir'[d]) BY <1>8, <1>10 DEF LoopInv
<1>12. \A d \in DOMAIN dir' \ {Template} : UpTo(dir'[d], d)
  <2>1. UpTo(dir'[i], i) BY <1>4, <1>10, ComesLater
  <2> QED BY <1>2, <1>8, <2>1 DEF LoopTrails
<1>13. LoopTrails'
  <2>1. dir'[Template].trail = <<>> BY <1>2, <1>5, <1>8 DEF LoopTrails, LoopType
  <2>2. Within(dir[disk.currentIndex], disk.currentIndex, child[disk.currentIndex].left)'
    BY <1>1, <1>10, LoopKept
  <2>3. (\A d \in DOMAIN dir \ {Template} : UpTo(dir[d], d))' BY <1>1, <1>12, LoopKept
  <2> QED BY <1>1, <1>3, <2>1, <2>2, <2>3 DEF LoopTrails
<1>14. LoopProgress' /\ Over' = Over BY <1>1, <1>2, <1>8, ProgressKept
<1>15. LoopType'
  <2>1. N' = N /\ Index' = Index BY <1>1, LoopKept DEF N
  <2>2. DirOver(Index \cup {Template})' BY <1>7 DEF N
  <2> QED BY <1>1, <1>2, <1>3, <1>7, <1>8, <1>14, <2>1, <2>2 DEF LoopType
<1>16. (\A d \in DOMAIN dir : Sorted(dir[d]))' BY <1>1, <1>11, LoopKept
<1> QED BY <1>13, <1>14, <1>15, <1>16 DEF LoopInv

LEMMA LoopAgain ==
  ASSUME component' = component, \A d \in DOMAIN dir' : Sorted(dir'[d]),
         DOMAIN dir' \subseteq Index \cup {Template},
         dir' \in [DOMAIN dir' -> DirectoryOver(Index \cup {Template})]
  PROVE  /\ (\A d \in DOMAIN dir : Sorted(dir[d]))' /\ DirOver(Index \cup {Template})'
         /\ /\ dir'[Template].trail = <<>> /\ \A d \in DOMAIN dir' \ {Template} : UpTo(dir'[d], d)
            /\ pc' = "reset" => Before(dir'[disk'.currentIndex], disk'.currentIndex)
            /\ pc' = "trip" =>
                 Within(dir'[disk'.currentIndex], disk'.currentIndex, child'[disk'.currentIndex].left)
            => LoopTrails'
<1> DEFINE N == Index \cup {Template}
<1>1. N' = N BY LoopKept
<1>2. DOMAIN dir' \subseteq N /\ dir' \in [DOMAIN dir' -> DirectoryOver(N)] OBVIOUS
<1> HIDE DEF N
<1>3. DirOver(N)' BY <1>1, <1>2 DEF DirOver, DirectoryOver
<1>4. DirOver(Index \cup {Template})' BY <1>3 DEF N
<1>5. (\A d \in DOMAIN dir : Sorted(dir[d]))' BY LoopKept
<1>6. ASSUME dir'[Template].trail = <<>>, \A d \in DOMAIN dir' \ {Template} : UpTo(dir'[d], d),
             pc' = "reset" => Before(dir'[disk'.currentIndex], disk'.currentIndex),
             pc' = "trip" =>
               Within(dir'[disk'.currentIndex], disk'.currentIndex, child'[disk'.currentIndex].left)
      PROVE  LoopTrails'
  BY <1>6, LoopKept DEF LoopTrails
<1> QED BY <1>4, <1>5, <1>6

\* What the invariant says of a loop that is about to do something.
LEMMA LoopFacts ==
  ASSUME RunType, LoopInv, ~Over, Type \in Loop, IsOrdered
  PROVE  /\ LoopType /\ LoopProgress /\ LoopTrails /\ mem = disk /\ disk \in ProgressOver(Index)
         /\ DOMAIN dir \subseteq Index \cup {Template} /\ Template \in DOMAIN dir
         /\ \A d \in DOMAIN dir : dir[d] \in DirectoryOver(Index \cup {Template}) /\ Sorted(dir[d])
         /\ dir = [d \in DOMAIN dir |-> dir[d]]
         /\ disk.prevIndex \in Index \cup {Undefined}
         /\ disk.initialized \in BOOLEAN /\ (pc # "idle" => disk.initialized)
         /\ component.keep \in Nat \cup {Null}
<1>1. LoopType /\ LoopProgress /\ LoopTrails BY DEF LoopInv
<1>2. mem = disk /\ disk \in ProgressOver(Index) BY <1>1 DEF LoopType
<1>3. disk.prevIndex \in Index \cup {Undefined} /\ disk.initialized \in BOOLEAN
  BY <1>1, <1>2 DEF LoopProgress, ProgressOver
<1>4. component.keep \in Nat \cup {Null} BY ComponentAssumption DEF RunType, Type
<1> QED BY <1>1, <1>2, <1>3, <1>4 DEF LoopType, LoopInv, DirOver, LoopProgress

\* The directory that a trip, or the result, is copied from.
LEMMA LoopSource ==
  ASSUME RunType, LoopInv, ~Over, Type \in Loop, IsOrdered, disk.initialized
  PROVE  /\ Src \in Index \cup {Template}
         /\ Src = Template => disk.prevIndex = Undefined /\ disk.currentIndex = firstIndex
         /\ Src # Template => Src = disk.prevIndex
         /\ Src \in DOMAIN dir /\ disk.currentIndex # Null => Before(dir[Src], disk.currentIndex)
<1>1. /\ LoopProgress /\ LoopTrails /\ mem = disk /\ Template \in DOMAIN dir
      /\ disk.prevIndex \in Index \cup {Undefined}
  BY LoopFacts
<1>2. disk.prevIndex = Undefined => disk.currentIndex = firstIndex /\ disk.currentIndex \in Index
  BY <1>1, LoopNames DEF LoopProgress
<1>3. Template \notin Index /\ Undefined \notin Index BY LoopNames
<1>4. CASE disk.prevIndex = Undefined
  <2>1. Src = Template BY <1>1, <1>2, <1>4, SourceOfTrip
  <2>2. dir[Template].trail = <<>> BY <1>1 DEF LoopTrails
  <2>3. Before(dir[Src], disk.currentIndex) BY <2>1, <2>2 DEF Before
  <2> QED BY <1>2, <1>4, <2>1, <2>3
<1>5. CASE disk.prevIndex \in Index
  <2>1. Src = disk.prevIndex BY <1>1, <1>5, SourceOfTrip
  <2>2. ASSUME Src \in DOMAIN dir, disk.currentIndex # Null PROVE Before(dir[Src], disk.currentIndex)
    <3>1. UpTo(dir[Src], Src) BY <1>1, <1>3, <1>5, <2>1, <2>2 DEF LoopTrails
    <3>2. Place(Src) < Place(disk.currentIndex) /\ disk.currentIndex \in Index
      BY <1>1, <1>3, <1>5, <2>1, <2>2 DEF LoopProgress
    <3> QED BY <1>5, <2>1, <3>1, <3>2, ComesLater
  <2> QED BY <1>3, <1>5, <2>1, <2>2
<1> QED BY <1>1, <1>4, <1>5

LEMMA LoopHandled ==
  ASSUME RunType, LoopInv, ~Over, Type \in Loop, IsOrdered, _loopHandler
  PROVE  LoopInv'
<1> DEFINE m == IF mem.initialized THEN Advance ELSE loopInitialize
<1>1. /\ UNCHANGED <<component, dir, child, dispatcher, forced, gathered>>
      /\ pc = "idle" /\ dispatcher # "gone" /\ mem' = m /\ disk' = m
      /\ \/ pc' = "copy" /\ ~isFinished(m.currentIndex)
         \/ /\ pc' = "finalize"
            /\ forced = "yes" \/ isFinished(m.currentIndex) \/ mem.initialized \/ component.keep # 0
  BY DEF _loopHandler, Handled, Write
<1>2. /\ LoopType /\ LoopProgress /\ LoopTrails /\ mem = disk /\ disk \in ProgressOver(Index)
      /\ disk.prevIndex \in Index \cup {Undefined} /\ disk.initialized \in BOOLEAN
  BY LoopFacts
<1>3. /\ m \in ProgressOver(Index) /\ m.state = "running" /\ m.initialized = TRUE
      /\ mem.initialized =>
           /\ m.prevIndex = disk.currentIndex /\ m.currentIndex = getNextIndex(disk.currentIndex)
           /\ disk.currentIndex \in Index /\ m.currentIndex \in Index \cup {Null}
           /\ m.currentIndex # Null => Place(m.prevIndex) < Place(m.currentIndex)
           /\ ~isFinished(m.currentIndex) => m.currentIndex \in Index
      /\ ~mem.initialized => m.prevIndex = Undefined /\ m.currentIndex = firstIndex
  <2>1. CASE mem.initialized
    <3>1. disk.currentIndex \in Index BY <1>1, <1>2, <2>1 DEF LoopProgress
    <3> DEFINE next == getNextIndex(disk.currentIndex)
    <3>2. /\ next \in Index \cup {Null} /\ (next # Null => Place(disk.currentIndex) < Place(next))
          /\ ~isFinished(next) => next \in Index
      BY <3>1, NextComesLater
    <3> HIDE DEF next
    <3>3. m = [disk EXCEPT !.state = "running", !.prevIndex = disk.currentIndex, !.currentIndex = next]
      BY <1>2, <2>1 DEF Advance, next
    <3>4. /\ m \in ProgressOver(Index) /\ m.state = "running" /\ m.initialized = disk.initialized
          /\ m.prevIndex = disk.currentIndex /\ m.currentIndex = next
      BY <1>2, <3>1, <3>2, <3>3 DEF ProgressOver, States
    <3> HIDE DEF m
    <3> QED BY <1>2, <2>1, <3>1, <3>2, <3>4 DEF next
  <2>2. CASE ~mem.initialized
    <3>1. firstIndex \in Index BY LoopNames
    <3>2. m = [disk EXCEPT !.state = "running", !.initialized = TRUE, !.currentIndex = firstIndex,
                           !.numFinished = 0, !.numFailed = 0]
      BY <1>2, <2>2 DEF loopInitialize
    <3>3. disk.prevIndex = Undefined BY <1>2, <2>2 DEF LoopProgress
    <3> HIDE DEF m
    <3> QED BY <1>2, <2>2, <3>1, <3>2, <3>3 DEF ProgressOver, States
  <2> QED BY <2>1, <2>2
<1> HIDE DEF m
<1>4. /\ Undefined \notin Index /\ Null \notin Index /\ Undefined # Null /\ firstIndex \in Index
      /\ ~isFinished(firstIndex)
  BY LoopNames, FirstIsRun
<1>5. m.currentIndex \in Index \cup {Null} /\ (pc' # "finalize" => m.currentIndex # Null)
  BY <1>1, <1>3, <1>4
<1>6. m.prevIndex # Undefined /\ m.currentIndex # Null => Place(m.prevIndex) < Place(m.currentIndex)
  BY <1>3
<1>7. m.prevIndex = Undefined => m.currentIndex = firstIndex /\ (pc' = "finalize" => component.keep # 0)
  <2>1. ASSUME m.prevIndex = Undefined PROVE ~mem.initialized
    BY <1>3, <1>4, <2>1
  <2>2. ASSUME ~mem.initialized PROVE forced # "yes"
    BY <1>1, <1>2, <2>2 DEF LoopProgress
  <2> QED BY <1>1, <1>3, <1>4, <2>1, <2>2
<1>8. m.prevIndex \in Index \cup {Undefined} BY <1>3
<1>9. LoopProgress'
  <2>1. Index' = Index /\ firstIndex' = firstIndex BY <1>1, LoopKept
  <2>2. ASSUME disk'.prevIndex # Undefined, disk'.currentIndex # Null
        PROVE  (Place(disk.prevIndex) < Place(disk.currentIndex))'
    BY <1>1, <1>6, <2>2, LoopKept
  <2> QED BY <1>1, <1>3, <1>4, <1>5, <1>7, <1>8, <2>1, <2>2 DEF LoopProgress
<1>10. \A d \in DOMAIN dir' : Sorted(dir'[d]) BY <1>1 DEF LoopInv
<1>11. /\ DOMAIN dir' \subseteq Index \cup {Template}
       /\ dir' \in [DOMAIN dir' -> DirectoryOver(Index \cup {Template})]
  BY <1>1, <1>2 DEF LoopType, DirOver
<1>12. LoopTrails' BY <1>1, <1>2, <1>10, <1>11, LoopAgain DEF LoopTrails
<1>13. Over' = FALSE BY <1>1, <1>3 DEF Over
<1>14. LoopType'
  <2>1. Index' = Index BY <1>1, LoopKept
  <2>2. DirOver(Index \cup {Template})' BY <1>1, <1>10, <1>11, LoopAgain
  <2> QED BY <1>1, <1>2, <1>3, <1>13, <2>1, <2>2 DEF LoopType, LoopPlaces, ChildType
<1>15. (\A d \in DOMAIN dir : Sorted(dir[d]))' BY <1>1, <1>10, <1>11, LoopAgain
<1> QED BY <1>9, <1>12, <1>14, <1>15 DEF LoopInv

LEMMA LoopCopies ==
  ASSUME RunType, LoopInv, ~Over, Type \in Loop, IsOrdered, CopyTrip
  PROVE  LoopInv'
<1> DEFINE i == disk.currentIndex
<1> DEFINE y == dir[Src]
<1>1. /\ LoopType /\ LoopProgress /\ LoopTrails /\ mem = disk /\ DOMAIN dir \subseteq Index \cup {Template}
      /\ \A d \in DOMAIN dir : dir[d] \in DirectoryOver(Index \cup {Template}) /\ Sorted(dir[d])
      /\ pc # "idle" => disk.initialized
  BY LoopFacts
<1>2. /\ UNCHANGED <<component, disk, mem, child, dispatcher, forced, gathered>>
      /\ pc = "copy" /\ pc' = "reset" /\ Src \in DOMAIN dir /\ dir' = Put(dir, i, y)
  BY <1>1 DEF CopyTrip
<1>3. i \in Index /\ i # Null /\ i # Template BY <1>1, <1>2, LoopNames DEF LoopProgress
<1>4. Before(y, i) BY <1>1, <1>2, <1>3, LoopSource
<1>5. y \in DirectoryOver(Index \cup {Template}) /\ Sorted(y) BY <1>1, <1>2
<1> HIDE DEF i, y
<1>6. /\ DOMAIN dir' = DOMAIN dir \cup {i} /\ dir'[i] = y
      /\ \A d \in DOMAIN dir' : d # i => d \in DOMAIN dir /\ dir'[d] = dir[d]
      /\ dir' = [d \in DOMAIN dir' |-> dir'[d]]
  BY <1>2 DEF Put
<1>7. \A d \in DOMAIN dir' : Sorted(dir'[d]) BY <1>1, <1>5, <1>6
<1>8. /\ DOMAIN dir' \subseteq Index \cup {Template}
      /\ dir' \in [DOMAIN dir' -> DirectoryOver(Index \cup {Template})]
  BY <1>1, <1>3, <1>5, <1>6
<1>9. LoopProgress'
  <2>1. Index' = Index /\ firstIndex' = firstIndex BY <1>2, LoopKept
  <2>2. ASSUME disk'.prevIndex # Undefined, disk'.currentIndex # Null
        PROVE  (Place(disk.prevIndex) < Place(disk.currentIndex))'
    BY <1>1, <1>2, <2>2, LoopKept DEF LoopProgress
  <2> QED BY <1>1, <1>2, <1>6, <2>1, <2>2 DEF LoopProgress, i
<1>10. LoopTrails'
  <2>1. dir'[Template].trail = <<>> BY <1>1, <1>3, <1>6 DEF LoopTrails, LoopType
  <2>2. \A d \in DOMAIN dir' \ {Template} : UpTo(dir'[d], d)
    BY <1>1, <1>3, <1>4, <1>6, ComesLater DEF LoopTrails
  <2>3. Before(dir'[disk'.currentIndex], disk'.currentIndex) BY <1>2, <1>4, <1>6 DEF i
  <2> QED BY <1>2, <1>7, <1>8, <2>1, <2>2, <2>3, LoopAgain
<1>11. LoopType'
  <2>1. Index' = Index BY <1>2, LoopKept
  <2>2. DirOver(Index \cup {Template})' BY <1>2, <1>7, <1>8, LoopAgain
  <2>3. Over' = Over BY <1>2 DEF Over
  <2>4. ChildType' BY <1>1, <1>2, <1>6 DEF LoopType, ChildType
  <2> QED BY <1>1, <1>2, <1>6, <2>1, <2>2, <2>3, <2>4 DEF LoopType, LoopPlaces
<1>12. (\A d \in DOMAIN dir : Sorted(dir[d]))' BY <1>2, <1>7, <1>8, LoopAgain
<1> QED BY <1>9, <1>10, <1>11, <1>12 DEF LoopInv

LEMMA LoopFails ==
  ASSUME RunType, LoopInv, ~Over, Type \in Loop, IsOrdered, CopyFails
  PROVE  LoopInv'
<1>1. /\ LoopType /\ mem = disk /\ disk \in ProgressOver(Index) BY LoopFacts
<1>2. /\ UNCHANGED <<component, dir, child, gathered>> /\ pc # "trip"
      /\ pc' = "idle" /\ dispatcher' = "gone"
      /\ mem' = disk' /\ disk' = [disk EXCEPT !.state = "failed"]
  BY <1>1 DEF CopyFails, Write
<1>3. disk' \in ProgressOver(Index) /\ disk'.state = "failed" BY <1>1, <1>2 DEF ProgressOver, States
<1>4. /\ \A d \in DOMAIN dir' : Sorted(dir'[d])
      /\ DOMAIN dir' \subseteq Index \cup {Template}
      /\ dir' \in [DOMAIN dir' -> DirectoryOver(Index \cup {Template})]
  BY <1>1, <1>2 DEF LoopInv, LoopType, DirOver
<1>5. (\A d \in DOMAIN dir : Sorted(dir[d]))' /\ DirOver(Index \cup {Template})'
  BY <1>2, <1>4, LoopAgain
<1>6. Over' = TRUE BY <1>3 DEF Over
<1>7. Index' = Index BY <1>2, LoopKept
<1>8. LoopType' BY <1>1, <1>2, <1>3, <1>5, <1>6, <1>7 DEF LoopType, LoopPlaces, ChildType
<1> QED BY <1>5, <1>6, <1>8 DEF LoopInv

LEMMA LoopDelegates ==
  ASSUME RunType, LoopInv, ~Over, Type \in Loop, IsOrdered, DelegateTrip
  PROVE  LoopInv'
<1> DEFINE i == disk.currentIndex
<1> DEFINE y == ResetTrip(i)
<1>1. /\ LoopType /\ LoopProgress /\ LoopTrails /\ mem = disk /\ DOMAIN dir \subseteq Index \cup {Template}
      /\ \A d \in DOMAIN dir : dir[d] \in DirectoryOver(Index \cup {Template}) /\ Sorted(dir[d])
      /\ pc # "idle" => disk.initialized
  BY LoopFacts
<1>2. /\ UNCHANGED <<component, disk, mem, dispatcher, forced, gathered>>
      /\ pc = "reset" /\ pc' = "trip" /\ dir' = [dir EXCEPT ![i] = y]
      /\ child' = [d \in {i} |-> NewChild(y)]
  BY <1>1 DEF DelegateTrip
<1>3. i \in Index /\ i # Template /\ i \in DOMAIN dir /\ Before(dir[i], i)
  BY <1>1, <1>2, LoopNames DEF LoopProgress, LoopTrails
<1>4. y \in DirectoryOver(Index \cup {Template}) /\ y.trail = dir[i].trail
  <2>1. dir[i] \in DirectoryOver(Index \cup {Template}) BY <1>1, <1>3
  <2> QED BY <2>1 DEF ResetTrip, DirectoryOver, States, TaskStates, NotStarted
<1>5. NewChild(y) \in Child /\ NewChild(y).state = "running" BY NewChildType
<1> HIDE DEF i, y
<1>6. /\ DOMAIN dir' = DOMAIN dir /\ dir'[i] = y
      /\ \A d \in DOMAIN dir' : d # i => dir'[d] = dir[d]
      /\ dir' = [d \in DOMAIN dir' |-> dir'[d]]
  BY <1>1, <1>2, <1>3 DEF LoopType, DirOver
<1>7. \A d \in DOMAIN dir' : dir'[d].trail = dir[d].trail BY <1>4, <1>6
<1>8. \A d \in DOMAIN dir' : Sorted(dir'[d]) BY <1>1, <1>6, <1>7, SameTrail
<1>9. /\ DOMAIN dir' \subseteq Index \cup {Template}
      /\ dir' \in [DOMAIN dir' -> DirectoryOver(Index \cup {Template})]
  BY <1>1, <1>4, <1>6
<1>10. ~Over' /\ LoopProgress'
  <2>1. Index' = Index /\ firstIndex' = firstIndex /\ Over' = Over BY <1>2, LoopKept DEF Over
  <2>2. ASSUME disk'.prevIndex # Undefined, disk'.currentIndex # Null
        PROVE  (Place(disk.prevIndex) < Place(disk.currentIndex))'
    BY <1>1, <1>2, <2>2, LoopKept DEF LoopProgress
  <2> QED BY <1>1, <1>2, <1>6, <2>1, <2>2 DEF LoopProgress, i
<1>11. LoopTrails'
  <2>1. dir'[Template].trail = <<>> BY <1>1, <1>6, <1>7 DEF LoopTrails, LoopType
  <2>2. \A d \in DOMAIN dir' \ {Template} : UpTo(dir'[d], d)
    BY <1>1, <1>6, <1>7, SameTrail DEF LoopTrails
  <2>3. Within(dir'[i], i, child'[i].left)
    <3>1. Within(dir[i], i, child'[i].left) BY <1>3, ComesLater
    <3>2. dir'[i].trail = dir[i].trail BY <1>3, <1>6, <1>7
    <3> QED BY <3>1, <3>2, SameTrail
  <2> QED BY <1>2, <1>8, <1>9, <2>1, <2>2, <2>3, LoopAgain DEF i
<1>12. LoopType'
  <2>1. Index' = Index BY <1>2, LoopKept
  <2>2. DirOver(Index \cup {Template})' BY <1>2, <1>8, <1>9, LoopAgain
  <2>3. DOMAIN child' = {i} /\ child'[i] = NewChild(y) BY <1>2
  <2>4. ChildType' BY <1>2, <1>3, <1>5, <1>6, <2>3 DEF ChildType
  <2> QED BY <1>1, <1>2, <1>6, <1>10, <2>1, <2>2, <2>3, <2>4 DEF LoopType, LoopPlaces, i
<1>13. (\A d \in DOMAIN dir : Sorted(dir[d]))' BY <1>2, <1>8, <1>9, LoopAgain
<1> QED BY <1>10, <1>11, <1>12, <1>13 DEF LoopInv

LEMMA LoopTripEnds ==
  ASSUME RunType, LoopInv, ~Over, Type \in Loop, IsOrdered, TripEnds
  PROVE  LoopInv'
<1> DEFINE i == disk.currentIndex
<1> DEFINE state == Outcome(child[i])
<1>1. /\ LoopType /\ LoopProgress /\ LoopTrails /\ mem = disk /\ DOMAIN dir \subseteq Index \cup {Template}
      /\ \A d \in DOMAIN dir : dir[d] \in DirectoryOver(Index \cup {Template}) /\ Sorted(dir[d])
      /\ pc # "idle" => disk.initialized
  BY LoopFacts
<1>2. /\ UNCHANGED <<component, disk, mem, dispatcher, forced, gathered>>
      /\ pc = "trip" /\ pc' = "ended" /\ dir' = [dir EXCEPT ![i].state = state]
      /\ child' = Without(child, {i})
  BY <1>1 DEF TripEnds
<1>3. i \in Index /\ i # Template /\ i \in DOMAIN dir /\ i \in DOMAIN child /\ child[i] \in Child
      /\ DOMAIN child = {i}
  BY <1>1, <1>2, LoopNames DEF LoopProgress, LoopTrails, LoopType, ChildType
<1>4. state \in States BY <1>3, PauseType DEF Outcome, Child
<1> HIDE DEF i, state
<1>6. /\ DOMAIN dir' = DOMAIN dir /\ dir'[i].trail = dir[i].trail
      /\ dir'[i] \in DirectoryOver(Index \cup {Template})
      /\ \A d \in DOMAIN dir' : d # i => dir'[d] = dir[d]
      /\ dir' = [d \in DOMAIN dir' |-> dir'[d]]
  BY <1>1, <1>2, <1>3, <1>4 DEF LoopType, DirOver, DirectoryOver
<1>7. \A d \in DOMAIN dir' : dir'[d].trail = dir[d].trail BY <1>6
<1>8. \A d \in DOMAIN dir' : Sorted(dir'[d]) BY <1>1, <1>6, <1>7, SameTrail
<1>9. /\ DOMAIN dir' \subseteq Index \cup {Template}
      /\ dir' \in [DOMAIN dir' -> DirectoryOver(Index \cup {Template})]
  BY <1>1, <1>6
<1>10. ~Over' /\ LoopProgress'
  <2>1. Index' = Index /\ firstIndex' = firstIndex /\ Over' = Over BY <1>2, LoopKept DEF Over
  <2>2. ASSUME disk'.prevIndex # Undefined, disk'.currentIndex # Null
        PROVE  (Place(disk.prevIndex) < Place(disk.currentIndex))'
    BY <1>1, <1>2, <2>2, LoopKept DEF LoopProgress
  <2> QED BY <1>1, <1>2, <1>6, <2>1, <2>2 DEF LoopProgress, i
<1>11. LoopTrails'
  <2>1. dir'[Template].trail = <<>> BY <1>1, <1>6, <1>7 DEF LoopTrails, LoopType
  <2>2. \A d \in DOMAIN dir' \ {Template} : UpTo(dir'[d], d)
    BY <1>1, <1>6, <1>7, SameTrail DEF LoopTrails
  <2> QED BY <1>2, <1>8, <1>9, <2>1, <2>2, LoopAgain
<1>12. LoopType'
  <2>1. Index' = Index BY <1>2, LoopKept
  <2>2. DirOver(Index \cup {Template})' BY <1>2, <1>8, <1>9, LoopAgain
  <2>3. DOMAIN child' = {} /\ ChildType' BY <1>2, <1>3 DEF Without, Restrict, ChildType
  <2> QED BY <1>1, <1>2, <1>6, <1>10, <2>1, <2>2, <2>3 DEF LoopType, LoopPlaces
<1>13. (\A d \in DOMAIN dir : Sorted(dir[d]))' BY <1>2, <1>8, <1>9, LoopAgain
<1> QED BY <1>10, <1>11, <1>12, <1>13 DEF LoopInv

\* What is removed after a trip is never the loop's own directory.
LEMMA ObsoleteKeepsOwn ==
  ASSUME RunType, Type \in Loop, IsOrdered, NEW i \in Index, NEW src
  PROVE  Template \notin Obsolete(i, src)
<1>1. component \in Component /\ component.type = Type BY DEF RunType, Type
<1>2. component.keep \in Nat \cup {Null} BY <1>1, ComponentAssumption
<1>3. Template \notin Index BY LoopNames
<1>4. CASE component.keep \in {Null, 0} BY <1>4 DEF Obsolete
<1>5. CASE component.keep \in Nat \ {0}
  <2>0. component.keep # Null BY <1>5, NameAssumption
  <2>1. CASE Type = "foreach"
    <3>1. /\ Index = Range(component.indexList) /\ Len(component.indexList) \in Nat
          /\ Range(component.indexList) = {component.indexList[k] : k \in 1..Len(component.indexList)}
          /\ \A k \in 1..Len(component.indexList) : At(component.indexList[k]) = k
      BY <2>1, ListPlaces DEF Index
    <3>2. At(i) \in 1..Len(component.indexList) BY <3>1
    <3>3. ASSUME At(i) - component.keep >= 1
          PROVE  At(i) - component.keep \in 1..Len(component.indexList)
      BY <1>5, <3>1, <3>2, <3>3
    <3>4. foreachKeepLoopInstance(i) \subseteq Index BY <3>1, <3>3 DEF foreachKeepLoopInstance
    <3> QED BY <1>3, <1>5, <2>0, <2>1, <3>4 DEF Obsolete
  <2>2. CASE Type \in {"for", "while"}
    <3>1. Index = Int BY <2>2 DEF Index
    <3>2. step \in Int
      <4>1. CASE Type = "for"
        <5>1. IsFor(component) BY <1>1, <4>1, ComponentAssumption
        <5> QED BY <5>1 DEF step, Field, IsFor
      <4>2. CASE Type = "while"
        <5>1. {"start", "step"} \cap DOMAIN component = {} BY <1>1, <4>2, ComponentAssumption
        <5> QED BY <5>1 DEF step, Field
      <4> QED BY <2>2, <4>1, <4>2
    <3>3. i - component.keep * step \in Int BY <1>5, <3>1, <3>2
    <3>4. keepLoopInstance(i) \subseteq Index BY <3>1, <3>3 DEF keepLoopInstance
    <3> QED BY <1>3, <1>5, <2>0, <2>2, <3>4 DEF Obsolete
  <2> QED BY <2>1, <2>2 DEF Loop
<1> QED BY <1>2, <1>4, <1>5

LEMMA LoopEndsTrip ==
  ASSUME RunType, LoopInv, ~Over, Type \in Loop, IsOrdered, EndTrip
  PROVE  LoopInv'
<1> DEFINE i == disk.currentIndex
<1> DEFINE S == Obsolete(i, Src)
<1> DEFINE state == dir[i].state
<1>1. /\ LoopType /\ LoopProgress /\ LoopTrails /\ mem = disk /\ DOMAIN dir \subseteq Index \cup {Template}
      /\ \A d \in DOMAIN dir : dir[d] \in DirectoryOver(Index \cup {Template}) /\ Sorted(dir[d])
      /\ pc # "idle" => disk.initialized
      /\ disk \in ProgressOver(Index)
  BY LoopFacts
<1>2. /\ UNCHANGED <<component, child, dispatcher, forced, gathered>>
      /\ pc = "ended" /\ pc' = "idle" /\ dir' = Without(dir, S)
      /\ mem' = disk' /\ disk' = CountTrip(disk, state)
  BY <1>1 DEF EndTrip, Write
<1>3. i \in Index /\ Template \notin S BY <1>1, <1>2, ObsoleteKeepsOwn DEF LoopProgress
<1>4. /\ disk' \in ProgressOver(Index) /\ disk'.state = disk.state /\ disk'.initialized = disk.initialized
      /\ disk'.prevIndex = disk.prevIndex /\ disk'.currentIndex = disk.currentIndex
  <2> HIDE DEF state, S, i
  <2>1. \/ disk' = [disk EXCEPT !.numFailed = disk.numFailed + 1, !.hasFaild = TRUE]
        \/ disk' = [disk EXCEPT !.numFinished = disk.numFinished + 1]
    <3>1. disk' = CountTrip(disk, state) BY <1>2
    <3>2. CASE state = "failed" BY <3>1, <3>2 DEF CountTrip
    <3>3. CASE state # "failed" BY <3>1, <3>3 DEF CountTrip
    <3> QED BY <3>2, <3>3
  <2>2. CASE disk' = [disk EXCEPT !.numFailed = disk.numFailed + 1, !.hasFaild = TRUE]
    <3> DEFINE I == Index
    <3>1. disk \in ProgressOver(I) BY <1>1
    <3> HIDE DEF I
    <3>2. disk.numFailed + 1 \in Nat BY <3>1 DEF ProgressOver
    <3>3. disk' \in ProgressOver(I) BY <2>2, <3>1, <3>2 DEF ProgressOver
    <3>4. /\ disk'.state = disk.state /\ disk'.initialized = disk.initialized
          /\ disk'.prevIndex = disk.prevIndex /\ disk'.currentIndex = disk.currentIndex
      BY <2>2, <3>1 DEF ProgressOver
    <3> QED BY <3>3, <3>4 DEF I
  <2>3. CASE disk' = [disk EXCEPT !.numFinished = disk.numFinished + 1]
    BY <1>1, <2>3 DEF ProgressOver
  <2> QED BY <2>1, <2>2, <2>3
<1> HIDE DEF i, S, state
<1>6. /\ DOMAIN dir' = DOMAIN dir \ S
      /\ \A d \in DOMAIN dir' : dir'[d] = dir[d]
      /\ dir' = [d \in DOMAIN dir' |-> dir'[d]]
  BY <1>2 DEF Without, Restrict
<1>8. \A d \in DOMAIN dir' : Sorted(dir'[d]) BY <1>1, <1>6
<1>9. /\ DOMAIN dir' \subseteq Index \cup {Template}
      /\ dir' \in [DOMAIN dir' -> DirectoryOver(Index \cup {Template})]
  BY <1>1, <1>6
<1>10. ~Over' /\ LoopProgress'
  <2>1. Index' = Index /\ firstIndex' = firstIndex /\ Over' = Over BY <1>2, <1>4, LoopKept DEF Over
  <2>2. ASSUME disk'.prevIndex # Undefined, disk'.currentIndex # Null
        PROVE  (Place(disk.prevIndex) < Place(disk.currentIndex))'
    BY <1>1, <1>2, <1>4, <2>2, LoopKept DEF LoopProgress
  <2> QED BY <1>1, <1>2, <1>4, <1>6, <2>1, <2>2 DEF LoopProgress
<1>11. LoopTrails'
  <2>1. dir'[Template].trail = <<>> BY <1>1, <1>3, <1>6 DEF LoopTrails, LoopType
  <2>2. \A d \in DOMAIN dir' \ {Template} : UpTo(dir'[d], d) BY <1>1, <1>6 DEF LoopTrails
  <2> QED BY <1>2, <1>8, <1>9, <2>1, <2>2, LoopAgain
<1>12. LoopType'
  <2>1. Index' = Index BY <1>2, LoopKept
  <2>2. DirOver(Index \cup {Template})' BY <1>2, <1>8, <1>9, LoopAgain
  <2>3. DOMAIN child' = {} /\ ChildType' BY <1>1, <1>2 DEF LoopType, ChildType
  <2> QED BY <1>1, <1>2, <1>3, <1>4, <1>6, <1>10, <2>1, <2>2, <2>3 DEF LoopType, LoopPlaces
<1>13. (\A d \in DOMAIN dir : Sorted(dir[d]))' BY <1>2, <1>8, <1>9, LoopAgain
<1> QED BY <1>10, <1>11, <1>12, <1>13 DEF LoopInv

LEMMA LoopConcludes ==
  ASSUME RunType, LoopInv, ~Over, Type \in Loop, IsOrdered, _loopFinalize
  PROVE  LoopInv'
<1> DEFINE S == IF component.keep = 0 THEN {Src} ELSE {}
<1> DEFINE y == dir[Src]
<1> DEFINE copied == Put(dir, Template, y)
<1>1. /\ LoopType /\ LoopProgress /\ LoopTrails /\ mem = disk /\ DOMAIN dir \subseteq Index \cup {Template}
      /\ \A d \in DOMAIN dir : dir[d] \in DirectoryOver(Index \cup {Template}) /\ Sorted(dir[d])
      /\ pc # "idle" => disk.initialized
      /\ disk \in ProgressOver(Index)
  BY LoopFacts
<1>2. /\ UNCHANGED <<component, child, gathered>> /\ dispatcher' = "gone"
      /\ pc = "finalize" /\ pc' = "idle" /\ Src \in DOMAIN dir /\ dir' = Without(copied, S)
      /\ mem' = disk'
      /\ disk' = [disk EXCEPT !.state = IF disk.hasFaild THEN "failed" ELSE "finished",
                              !.initialized = FALSE, !.currentIndex = Undefined, !.prevIndex = Undefined]
  BY <1>1 DEF _loopFinalize, Write
<1>3. Template \notin S
  <2>1. Src = Template => component.keep # 0
    BY <1>1, <1>2, LoopSource DEF LoopProgress
  <2> QED BY <2>1
<1>4. disk' \in ProgressOver(Index) /\ disk'.state \in {"failed", "finished"}
  BY <1>1, <1>2 DEF ProgressOver, States
<1>5. y \in DirectoryOver(Index \cup {Template}) /\ Sorted(y) BY <1>1, <1>2
<1> HIDE DEF S, y
<1>6. /\ DOMAIN copied = DOMAIN dir \cup {Template}
      /\ \A d \in DOMAIN copied : copied[d] = y \/ (d \in DOMAIN dir /\ copied[d] = dir[d])
  BY DEF Put
<1> HIDE DEF copied
<1>7. /\ DOMAIN dir' = DOMAIN copied \ S
      /\ \A d \in DOMAIN dir' : dir'[d] = copied[d]
      /\ dir' = [d \in DOMAIN dir' |-> dir'[d]]
  BY <1>2 DEF Without, Restrict
<1>8. \A d \in DOMAIN dir' : Sorted(dir'[d]) BY <1>1, <1>5, <1>6, <1>7
<1>9. /\ DOMAIN dir' \subseteq Index \cup {Template}
      /\ dir' \in [DOMAIN dir' -> DirectoryOver(Index \cup {Template})]
  BY <1>1, <1>5, <1>6, <1>7
<1>10. Over' = TRUE BY <1>4 DEF Over
<1>12. LoopType'
  <2>1. Index' = Index BY <1>2, LoopKept
  <2>2. DirOver(Index \cup {Template})' BY <1>2, <1>8, <1>9, LoopAgain
  <2>3. DOMAIN child' = {} /\ ChildType' BY <1>1, <1>2 DEF LoopType, ChildType
  <2> QED BY <1>1, <1>2, <1>3, <1>4, <1>6, <1>7, <1>10, <2>1, <2>2, <2>3 DEF LoopType, LoopPlaces
<1>13. (\A d \in DOMAIN dir : Sorted(dir[d]))' BY <1>2, <1>8, <1>9, LoopAgain
<1> QED BY <1>10, <1>12, <1>13 DEF LoopInv

LEMMA LoopPauses ==
  ASSUME RunType, LoopInv, ~Over, Type \in Loop, IsOrdered,
         Stop \/ RemoveEnds \/ BreakTrip(disk.currentIndex)
  PROVE  LoopInv'
<1>1. /\ LoopType /\ LoopProgress /\ LoopTrails
      /\ pc # "idle" => disk.initialized
  BY LoopFacts
<1>2. UNCHANGED <<component, disk, mem, dir, pc, gathered>> BY DEF Stop, RemoveEnds, BreakTrip
<1>3. /\ ChildType' /\ DOMAIN child' = DOMAIN child /\ \A d \in DOMAIN child : child'[d].left = {}
  <2>1. CASE Stop \/ RemoveEnds
    <3>1. PICK b \in BOOLEAN : child' = [d \in DOMAIN child |-> pause(child[d], b)]
      BY <2>1 DEF Stop, RemoveEnds
    <3>2. ChildType' /\ DOMAIN child' = DOMAIN child BY <1>1, <1>2, <3>1, PausedType DEF LoopType
    <3>3. \A d \in DOMAIN child : child'[d].left = {}
      BY <1>1, <3>1, PauseType DEF LoopType, ChildType
    <3> QED BY <3>2, <3>3
  <2>2. CASE BreakTrip(disk.currentIndex)
    <3> DEFINE i == disk.currentIndex
    <3>1. i \in DOMAIN child /\ child' = [child EXCEPT ![i] = pause(child[i], FALSE)] /\ DOMAIN child = {i}
      BY <1>1, <2>2 DEF BreakTrip, LoopType
    <3>2. child[i] \in Child BY <1>1, <3>1 DEF LoopType, ChildType
    <3>3. pause(child[i], FALSE) \in Child /\ pause(child[i], FALSE).left = {}
      BY <1>1, <3>1, <3>2, PauseType DEF LoopType, ChildType
    <3> HIDE DEF i
    <3>4. DOMAIN child' = {i} /\ child'[i] = pause(child[i], FALSE) BY <3>1
    <3>5. child' = [d \in {i} |-> pause(child[i], FALSE)] BY <3>1
    <3>6. child' \in [DOMAIN child' -> Child] BY <3>3, <3>4, <3>5
    <3>7. DOMAIN child' \subseteq DOMAIN dir' BY <1>1, <1>2, <3>1, <3>4 DEF LoopType, ChildType
    <3>8. \A d \in DOMAIN child' : child'[d].left = {} BY <3>3, <3>4
    <3>9. ChildType' BY <3>6, <3>7, <3>8 DEF ChildType
    <3> QED BY <3>1, <3>3, <3>4, <3>9
  <2> QED BY <2>1, <2>2
<1>4. /\ \A d \in DOMAIN dir' : Sorted(dir'[d])
      /\ DOMAIN dir' \subseteq Index \cup {Template}
      /\ dir' \in [DOMAIN dir' -> DirectoryOver(Index \cup {Template})]
  BY <1>1, <1>2 DEF LoopInv, LoopType, DirOver
<1>5. LoopTrails'
  <2>1. ASSUME pc' = "trip"
        PROVE  Within(dir'[disk'.currentIndex], disk'.currentIndex, child'[disk'.currentIndex].left)
    <3>1. disk.currentIndex \in DOMAIN child BY <1>1, <1>2, <2>1 DEF LoopType
    <3>2. child'[disk.currentIndex].left = {} BY <1>3, <3>1
    <3>3. Within(dir[disk.currentIndex], disk.currentIndex, {})
      BY <1>1, <1>2, <2>1 DEF LoopTrails, Within
    <3> QED BY <1>2, <3>2, <3>3
  <2> QED BY <1>1, <1>2, <1>4, <2>1, LoopAgain DEF LoopTrails
<1>6. LoopProgress'
  <2>1. Index' = Index /\ firstIndex' = firstIndex BY <1>2, LoopKept
  <2>2. ASSUME disk'.prevIndex # Undefined, disk'.currentIndex # Null, disk.initialized
        PROVE  (Place(disk.prevIndex) < Place(disk.currentIndex))'
    BY <1>1, <1>2, <2>2, LoopKept DEF LoopProgress
  <2>3. ASSUME ~disk.initialized, dispatcher' # "gone" PROVE forced' = "no"
    <3>1. pc = "idle" /\ DOMAIN child = {} BY <1>1, <2>3 DEF LoopProgress, LoopType
    <3> QED BY <1>1, <2>3, <3>1 DEF Stop, RemoveEnds, BreakTrip
  <2> QED BY <1>1, <1>2, <2>1, <2>2, <2>3 DEF LoopProgress
<1>7. ~Over' BY <1>2 DEF Over
<1>8. LoopType'
  <2>1. Index' = Index BY <1>2, LoopKept
  <2>2. DirOver(Index \cup {Template})' BY <1>2, <1>4, LoopAgain
  <2> QED BY <1>1, <1>2, <1>3, <1>7, <2>1, <2>2 DEF LoopType
<1>9. (\A d \in DOMAIN dir : Sorted(dir[d]))' BY <1>2, <1>4, LoopAgain
<1> QED BY <1>5, <1>6, <1>7, <1>8, <1>9 DEF LoopInv

\* The project is run again, or the server ends: what is on disk is what is
\* known, and the directories are as they were left.
LEMMA LoopRestarts ==
  ASSUME RunType, LoopInv, ~Over, Type \in Loop, IsOrdered, Run \/ Crash, ~Unwary
  PROVE  LoopInv'
<1>1. /\ LoopType /\ LoopProgress /\ LoopTrails /\ mem = disk
      /\ pc # "idle" => disk.initialized
  BY LoopFacts
<1>2. /\ UNCHANGED <<component, disk, dir, gathered>> /\ mem' = disk /\ forced' = "no" /\ pc' = "idle"
      /\ DOMAIN child' = {} /\ (Crash => disk.currentIndex # Null)
  BY DEF Run, Crash, MayCrash
<1>4. /\ \A d \in DOMAIN dir' : Sorted(dir'[d])
      /\ DOMAIN dir' \subseteq Index \cup {Template}
      /\ dir' \in [DOMAIN dir' -> DirectoryOver(Index \cup {Template})]
  BY <1>1, <1>2 DEF LoopInv, LoopType, DirOver
<1>5. LoopTrails' BY <1>1, <1>2, <1>4, LoopAgain DEF LoopTrails
<1>6. LoopProgress'
  <2>1. Index' = Index /\ firstIndex' = firstIndex BY <1>2, LoopKept
  <2>2. ASSUME disk'.prevIndex # Undefined, disk'.currentIndex # Null, disk.initialized
        PROVE  (Place(disk.prevIndex) < Place(disk.currentIndex))'
    BY <1>1, <1>2, <2>2, LoopKept DEF LoopProgress
  <2>3. disk.initialized => disk.currentIndex # Null
    BY <1>1, <1>2 DEF LoopProgress, Run
  <2> QED BY <1>1, <1>2, <2>1, <2>2, <2>3 DEF LoopProgress
<1>7. ~Over' BY <1>2 DEF Over
<1>8. LoopType'
  <2>1. Index' = Index BY <1>2, LoopKept
  <2>2. DirOver(Index \cup {Template})' BY <1>2, <1>4, LoopAgain
  <2>3. child' = [d \in {} |-> Null] BY DEF Run, Crash
  <2>4. ChildType' BY <1>2, <2>3 DEF ChildType
  <2> QED BY <1>1, <1>2, <1>7, <2>1, <2>2, <2>4 DEF LoopType, LoopPlaces
<1>9. (\A d \in DOMAIN dir : Sorted(dir[d]))' BY <1>2, <1>4, LoopAgain
<1> QED BY <1>5, <1>6, <1>7, <1>8, <1>9 DEF LoopInv

LEMMA LoopStays ==
  ASSUME RunType, LoopInv, Type \in Loop, IsOrdered, BreakHeard \/ UNCHANGED vars
  PROVE  LoopInv'
<1>1. LoopType BY DEF LoopInv
<1>2. /\ UNCHANGED <<component, disk, mem, dir, child, pc, dispatcher, gathered>>
      /\ forced' = forced \/ forced = "pending"
  BY DEF BreakHeard, vars
<1>4. /\ \A d \in DOMAIN dir' : Sorted(dir'[d])
      /\ DOMAIN dir' \subseteq Index \cup {Template}
      /\ dir' \in [DOMAIN dir' -> DirectoryOver(Index \cup {Template})]
  BY <1>1, <1>2 DEF LoopInv, LoopType, DirOver
<1>5. ASSUME ~Over PROVE LoopTrails' /\ LoopProgress'
  <2>0. LoopTrails /\ LoopProgress BY <1>5 DEF LoopInv
  <2>1. Index' = Index /\ firstIndex' = firstIndex BY <1>2, LoopKept
  <2>2. ASSUME disk'.prevIndex # Undefined, disk'.currentIndex # Null, disk.initialized
        PROVE  (Place(disk.prevIndex) < Place(disk.currentIndex))'
    BY <1>2, <2>0, <2>2, LoopKept DEF LoopProgress
  <2>3. LoopProgress' BY <1>2, <2>0, <2>1, <2>2 DEF LoopProgress
  <2>4. LoopTrails' BY <1>2, <1>4, <2>0, LoopAgain DEF LoopTrails
  <2> QED BY <2>3, <2>4
<1>7. Over' = Over BY <1>2 DEF Over
<1>8. LoopType'
  <2>1. Index' = Index BY <1>2, LoopKept
  <2>2. DirOver(Index \cup {Template})' BY <1>2, <1>4, LoopAgain
  <2>4. ChildType' BY <1>1, <1>2 DEF ChildType, LoopType
  <2> QED BY <1>1, <1>2, <1>7, <2>1, <2>2, <2>4 DEF LoopType
<1>9. (\A d \in DOMAIN dir : Sorted(dir[d]))' BY <1>2, <1>4, LoopAgain
<1> QED BY <1>5, <1>7, <1>8, <1>9 DEF LoopInv

LEMMA NextLoop ==
  ASSUME RunType, LoopInv, Type \in Loop, IsOrdered, ~Unwary, [Next]_vars
  PROVE  LoopInv'
<1>1. LoopType BY DEF LoopInv
<1>2. CASE ~Over /\ \E t \in Task, result \in {"finished", "failed"} : TaskEnds(disk.currentIndex, t, result)
  BY <1>2, LoopTask
<1>3. CASE ~Over /\ (_loopHandler \/ CopyTrip \/ CopyFails \/ DelegateTrip)
  BY <1>3, LoopHandled, LoopCopies, LoopFails, LoopDelegates
<1>4. CASE ~Over /\ (TripEnds \/ EndTrip \/ _loopFinalize)
  BY <1>4, LoopTripEnds, LoopEndsTrip, LoopConcludes
<1>5. CASE ~Over /\ (Stop \/ RemoveEnds \/ BreakTrip(disk.currentIndex)) BY <1>5, LoopPauses
<1>6. CASE ~Over /\ (Run \/ Crash) BY <1>6, LoopRestarts
<1>7. CASE BreakHeard \/ UNCHANGED vars BY <1>7, LoopStays
<1> QED BY <1>1, <1>2, <1>3, <1>4, <1>5, <1>6, <1>7, LoopSteps

-----------------------------------------------------------------------------
(* All kinds of components                                                 *)

ListsDistinct ==
  \A c \in Component : c.type = "foreach" =>
    \A j, k \in DOMAIN c.indexList : c.indexList[j] = c.indexList[k] => j = k

Inv ==
  /\ RunType
  /\ Type = "workflow" => WorkflowInv
  /\ Type = "parameterStudy" => StudyBase
  /\ Type \in Loop => LoopInv

LEMMA ComponentStays == [Next]_vars => component' = component
<1> SUFFICES ASSUME [Next]_vars PROVE component' = component OBVIOUS
<1>1. CASE \E d \in DOMAIN child : \E t \in Task, result \in {"finished", "failed"} : TaskEnds(d, t, result)
  BY <1>1 DEF TaskEnds
<1>2. CASE \E d \in DOMAIN child : InstanceEnds(d) BY <1>2 DEF InstanceEnds
<1>3. CASE DelegateWorkflow \/ WorkflowEnds \/ _loopHandler \/ CopyTrip \/ CopyFails
  BY <1>3 DEF DelegateWorkflow, WorkflowEnds, _loopHandler, CopyTrip, CopyFails
<1>4. CASE DelegateTrip \/ TripEnds \/ EndTrip \/ _loopFinalize
  BY <1>4 DEF DelegateTrip, TripEnds, EndTrip, _loopFinalize
<1>5. CASE _PSHandler \/ DelegateInstance \/ syncComponentStateFrom \/ gatherFiles
  BY <1>5 DEF _PSHandler, DelegateInstance, syncComponentStateFrom, gatherFiles
<1>6. CASE StudyEnds \/ DeleteInstances \/ BreakHeard \/ RemoveEnds
  BY <1>6 DEF StudyEnds, DeleteInstances, BreakHeard, RemoveEnds
<1>7. CASE \E d \in DOMAIN child : BreakTrip(d) BY <1>7 DEF BreakTrip
<1>8. CASE Run \/ Stop \/ Crash BY <1>8 DEF Run, Stop, Crash
<1>9. CASE UNCHANGED vars BY <1>9 DEF vars
<1> QED BY <1>1, <1>2, <1>3, <1>4, <1>5, <1>6, <1>7, <1>8, <1>9 DEF Next, Step, ChildStep

LEMMA KindOfComponent ==
  ASSUME RunType
  PROVE  /\ Type \in Loop \/ Type = "workflow" \/ Type = "parameterStudy"
         /\ ListsDistinct => IsOrdered
<1>1. component \in Component /\ component.type = Type BY DEF RunType, Type
<1> QED BY <1>1, ComponentAssumption DEF ListsDistinct, IsOrdered

LEMMA InitInv ==
  ASSUME ListsDistinct, Init
  PROVE  Inv
<1>1. RunType BY InitRun
<1>2. IsOrdered BY <1>1, KindOfComponent
<1> QED BY <1>1, <1>2, InitWorkflow, InitStudy, InitLoop DEF Inv

LEMMA NextInv ==
  ASSUME ListsDistinct, ~Unwary, Inv, [Next]_vars
  PROVE  Inv'
<1>1. RunType /\ RunType' BY NextRun DEF Inv
<1>2. IsOrdered BY <1>1, KindOfComponent
<1>3. Type' = Type BY ComponentStays DEF Type
<1>4. Type = "workflow" => WorkflowInv' BY <1>1, NextWorkflow DEF Inv
<1>5. Type = "parameterStudy" => StudyBase' BY <1>1, NextStudy DEF Inv
<1>6. Type \in Loop => LoopInv' BY <1>1, <1>2, NextLoop DEF Inv
<1> QED BY <1>1, <1>3, <1>4, <1>5, <1>6 DEF Inv

LEMMA InvInOrder ==
  ASSUME Inv
  PROVE  InOrder
<1>1. RunType /\ (Type \in Loop \/ Type = "workflow" \/ Type = "parameterStudy")
  BY KindOfComponent DEF Inv
<1>2. \A d \in DOMAIN dir : Sorted(dir[d])
  <2>1. CASE Type \in Loop BY <2>1 DEF Inv, LoopInv
  <2>2. CASE Type = "workflow"
    <3>1. DOMAIN dir = {Template} /\ Trail(Template, dir[Template])
      BY <2>2 DEF Inv, WorkflowInv, WorkflowType
    <3> QED BY <3>1, TrailInOrder DEF Sorted
  <2>3. CASE Type = "parameterStudy"
    <3>1. dir[Template].trail = <<>> /\ \A d \in DOMAIN dir \ {Template} : Trail(d, dir[d])
      BY <2>3 DEF Inv, StudyBase, StudyTrails
    <3>2. Sorted(dir[Template]) BY <3>1 DEF Sorted
    <3>3. \A d \in DOMAIN dir \ {Template} : Sorted(dir[d])
      BY <3>1, TrailInOrder DEF Sorted
    <3> QED BY <3>2, <3>3
  <2> QED BY <1>1, <2>1, <2>2, <2>3
<1> QED BY <1>2 DEF InOrder, Sorted, Place

\* Every variable of a component that holds others keeps its type, however it
\* is interrupted, stopped and continued.
THEOREM TypeCorrect ==
  ASSUME ListsDistinct, ~Unwary
  PROVE  Spec => []TypeOK
<1>1. Init => Inv BY InitInv
<1>2. Inv /\ [Next]_vars => Inv' BY NextInv
<1>3. ASSUME Inv PROVE TypeOK
  <2>1. /\ RunType /\ ChildType /\ Template \in DOMAIN dir /\ \E N : DirOver(N)
        /\ {disk.state, mem.state} \subseteq States
        /\ {disk.numFinished, disk.numFailed} \subseteq Nat
        /\ (gathered # {} => gathered \subseteq Instances)
        /\ pc \in {"idle", "trip", "copy", "reset", "ended", "finalize", "spawn", "gather", "conclude", "delete"}
    <3>1. RunType BY <1>3 DEF Inv
    <3>2. CASE Type \in Loop
      <4>1. /\ LoopType /\ mem = disk /\ disk \in ProgressOver(Index) /\ gathered = {}
        BY <1>3, <3>2 DEF Inv, LoopInv, LoopType
      <4>2. disk.state \in States /\ disk.numFinished \in Nat /\ disk.numFailed \in Nat
        BY <4>1 DEF ProgressOver
      <4> QED BY <3>1, <4>1, <4>2 DEF LoopType, LoopPlaces
    <3>3. CASE Type = "workflow"
      <4>1. /\ WorkflowType /\ mem = disk /\ disk \in ProgressOver({}) /\ gathered = {}
        BY <1>3, <3>3 DEF Inv, WorkflowInv, WorkflowType
      <4>2. disk.state \in States /\ disk.numFinished \in Nat /\ disk.numFailed \in Nat
        BY <4>1 DEF ProgressOver
      <4> QED BY <3>1, <4>1, <4>2 DEF WorkflowType
    <3>4. CASE Type = "parameterStudy"
      <4>1. /\ StudyType /\ mem \in ProgressOver({}) /\ disk \in ProgressOver({})
            /\ gathered \subseteq Instances
        BY <1>3, <3>4 DEF Inv, StudyBase, StudyType
      <4>2. /\ disk.state \in States /\ disk.numFinished \in Nat /\ disk.numFailed \in Nat
            /\ mem.state \in States
        BY <4>1 DEF ProgressOver
      <4> QED BY <3>1, <4>1, <4>2 DEF StudyType, StudyPlaces
    <3> QED BY <3>1, <3>2, <3>3, <3>4, KindOfComponent
  <2>2. \A d \in DOMAIN dir : dir[d].state \in States /\ dir[d].tasks \in [Task -> TaskStates]
    BY <2>1 DEF DirOver, DirectoryOver
  <2>3. \A d \in DOMAIN child : child[d].state \in {"running", "finished", "failed", "stopped"}
    BY <2>1 DEF ChildType, Child, States
  <2> QED BY <2>1, <2>2, <2>3 DEF TypeOK, RunType, ChildType, States, TaskStates
<1> QED BY <1>1, <1>2, <1>3, PTL DEF Spec

\* Whatever is interrupted, stopped or broken off, no directory ever holds the
\* same result twice, nor those of a later trip before an earlier one's: each
\* trip is made from the results of the one before (_loopHandler), and a child
\* dispatcher passes over what is finished (_dispatchOneComponent).
THEOREM OrderKept ==
  ASSUME ListsDistinct, ~Unwary
  PROVE  Spec => []InOrder
<1>1. Init => Inv BY InitInv
<1>2. Inv /\ [Next]_vars => Inv' BY NextInv
<1>3. Inv => InOrder BY InvInOrder
<1> QED BY <1>1, <1>2, <1>3, PTL DEF Spec

-----------------------------------------------------------------------------
(* What is recorded as ended is whole *)

\* The values of an axis of a parameter study differ from each other.
StudiesExact == \A c \in Component : c.type = "parameterStudy" => IsExact(c.axes)
SpacesAreExact == \A axes \in Spaces : IsExact(axes)

EndInv ==
  /\ RunType
  /\ Type = "workflow" => WorkflowInv
  /\ Type = "parameterStudy" => StudyInv

LEMMA StudyOfComponent ==
  ASSUME RunType, StudiesExact, Type = "parameterStudy"
  PROVE  IsExact(component.axes)
BY DEF RunType, StudiesExact, Type

LEMMA InitEndInv ==
  ASSUME Init
  PROVE  EndInv
<1>1. RunType BY InitRun
<1>2. Type = "workflow" => WorkflowInv BY InitWorkflow
<1>3. Type = "parameterStudy" => StudyInv BY <1>1, InitStudyInv
<1> QED BY <1>1, <1>2, <1>3 DEF EndInv

LEMMA NextEndInv ==
  ASSUME StudiesExact, ~Unwary, EndInv, [Next]_vars
  PROVE  EndInv'
<1>1. RunType BY DEF EndInv
<1>2. RunType' BY <1>1, NextRun
<1>3. Type' = Type BY ComponentStays DEF Type
<1>4. ASSUME Type = "workflow" PROVE WorkflowInv' BY <1>1, <1>4, NextWorkflow DEF EndInv
<1>5. ASSUME Type = "parameterStudy" PROVE StudyInv'
  <2>1. IsExact(component.axes) BY <1>1, <1>5, StudyOfComponent
  <2>2. StudyInv BY <1>5 DEF EndInv
  <2> QED BY <1>1, <1>5, <2>1, <2>2, NextStudyInv
<1> QED BY <1>2, <1>3, <1>4, <1>5 DEF EndInv

LEMMA WorkflowIsWhole ==
  ASSUME Type = "workflow" => WorkflowInv
  PROVE  WorkflowWhole
<1> SUFFICES ASSUME Type = "workflow", cut # "stop"
             PROVE  /\ disk.state = "finished" =>
                         /\ Range(dir[Template].trail) = {Template} \X Task
                         /\ Len(dir[Template].trail) = NTask
                    /\ disk.state = "failed" => \E t \in Task : dir[Template].tasks[t] = "failed"
  BY DEF WorkflowWhole
<1>1. /\ Trail(Template, dir[Template]) /\ Listed(Template, dir[Template]) /\ EndOfWorkflow
  BY DEF WorkflowInv
<1>2. disk.state = "failed" => \E t \in Task : dir[Template].tasks[t] = "failed"
  BY <1>1 DEF EndOfWorkflow
<1>3. ASSUME disk.state = "finished"
      PROVE  Range(dir[Template].trail) = {Template} \X Task /\ Len(dir[Template].trail) = NTask
  <2>1. \A t \in Task : dir[Template].tasks[t] = "finished" BY <1>1, <1>3 DEF EndOfWorkflow
  <2> QED BY <1>1, <2>1, WholeTrail
<1> QED BY <1>2, <1>3

LEMMA StudyIsCovered ==
  ASSUME RunType, StudiesExact, Type = "parameterStudy" => StudyInv
  PROVE  StudyCovers
<1> SUFFICES ASSUME Type = "parameterStudy", cut # "stop", Resting, disk.state \in {"finished", "failed"},
                    NEW points, points = Product(component.axes)
             PROVE  /\ disk.numFinished + disk.numFailed = Cardinality(points)
                    /\ disk.state = "finished" => gathered = points
                    /\ ~component.deleteLoopInstance =>
                         /\ DOMAIN dir = points \cup {Template}
                         /\ disk.numFinished = Cardinality({v \in points : AllRan(v)})
  BY DEF StudyCovers
<1>1. points = Instances BY StudyAxes
<1>2. StudyBase /\ StudyType /\ StudyCount /\ pc = "idle" BY DEF StudyInv, StudyBase, Resting
<1>3. CountsRecorded BY <1>2 DEF StudyCount
<1>4. Template \in DOMAIN dir /\ DOMAIN dir \subseteq Instances \cup {Template}
  BY <1>2 DEF StudyType, DirOver
<1>5. {v \in points : AllRan(v)} = {v \in Instances : AllFinished(dir[v])}
  BY <1>1 DEF AllRan, AllFinished
<1>6. ~component.deleteLoopInstance => DOMAIN dir = points \cup {Template}
  BY <1>1, <1>3, <1>4 DEF CountsRecorded
<1> QED BY <1>1, <1>3, <1>5, <1>6 DEF CountsRecorded

LEMMA SpaceIsExact ==
  ASSUME SpacesAreExact
  PROVE  SpaceExact
<1> SUFFICES ASSUME NEW axes \in Spaces
             PROVE  /\ {getNthParamVec(n, axes) : n \in 0..(getParamSize(axes) - 1)} = Product(axes)
                    /\ getParamSize(axes) = Cardinality(Product(axes))
  BY DEF SpaceExact
<1>1. IsSpace(axes) /\ IsExact(axes) BY SpacesAssumption DEF SpacesAreExact
<1> QED BY <1>1, SpaceEnumerated, SpaceCounted

\* A workflow that is recorded "finished", and was not stopped, has run every
\* one of its tasks once, also when the server ended in earlier runs; one that
\* is recorded "failed" has a task that failed (_delegate, _getState).
THEOREM WorkflowsWhole == Spec => []WorkflowWhole
<1> DEFINE I == RunType /\ (Type = "workflow" => WorkflowInv)
<1>1. Init => I BY InitRun, InitWorkflow
<1>2. I /\ [Next]_vars => I'
  <2> SUFFICES ASSUME RunType, Type = "workflow" => WorkflowInv, [Next]_vars PROVE I' OBVIOUS
  <2>1. RunType' /\ Type' = Type BY NextRun, ComponentStays DEF Type
  <2>2. Type = "workflow" => WorkflowInv' BY NextWorkflow
  <2> QED BY <2>1, <2>2
<1>3. I => WorkflowWhole BY WorkflowIsWhole
<1> QED BY <1>1, <1>2, <1>3, PTL DEF Spec

\* A study that was not stopped is "finished" only when exactly the points of
\* its parameter space have an instance, each of them has run and all results
\* are gathered, and its counters tell the instances apart: for any number of
\* axes, of any length, whatever instances fail and whenever the server ends
\* (_PSHandler, paramVecGenerator, gatherFiles).
THEOREM StudiesCover ==
  ASSUME StudiesExact, ~Unwary
  PROVE  Spec => []StudyCovers
<1>1. Init => EndInv BY InitEndInv
<1>2. EndInv /\ [Next]_vars => EndInv' BY NextEndInv
<1>3. EndInv => StudyCovers BY StudyIsCovered DEF EndInv
<1> QED BY <1>1, <1>2, <1>3, PTL DEF Spec

\* What is recorded as ended is whole: a workflow, a study, and the parameter
\* space as paramVecGenerator() enumerates it.
THEOREM EndedIsWhole ==
  ASSUME StudiesExact, SpacesAreExact, ~Unwary
  PROVE  Spec => []Whole
<1>1. Init => EndInv BY InitEndInv
<1>2. EndInv /\ [Next]_vars => EndInv' BY NextEndInv
<1>3. ASSUME EndInv PROVE Whole
  <2>1. WorkflowWhole BY <1>3, WorkflowIsWhole DEF EndInv
  <2>2. StudyCovers BY <1>3, StudyIsCovered DEF EndInv
  <2>3. SpaceExact BY SpaceIsExact
  <2> QED BY <2>1, <2>2, <2>3 DEF Whole
<1> QED BY <1>1, <1>2, <1>3, PTL DEF Spec

-----------------------------------------------------------------------------
(* What a loop delivers that nothing interrupts                            *)

\* The index of the k-th trip of a loop c, and the trips it makes.
NthOf(c, k) ==
  CASE c.type = "for" -> c.start + (k - 1) * c.step
    [] c.type = "foreach" -> c.indexList[k]
    [] OTHER -> k - 1
TripsOf(c) ==
  CASE c.type = "for" ->
         {k \in Nat \ {0} : IF c.step > 0 THEN NthOf(c, k) <= c.end ELSE NthOf(c, k) >= c.end}
    [] c.type = "foreach" -> 1..Len(c.indexList)
    [] OTHER -> 1..MaxTrips

\* The directory that has the result of n trips; the index before that of trip k.
ResultOf(c, n) == IF n = 0 THEN Template ELSE NthOf(c, n)
BeforeOf(c, k) == IF k = 1 THEN Undefined ELSE NthOf(c, k - 1)

Made(m) == m.numFinished + m.numFailed
IsOver(m) == m.state \in {"finished", "failed"}
OnTrip == {"copy", "reset", "trip", "ended"}

\* All trips have been made, or a break, or the script of a "while", ends it.
Through(c, n, f) == f = "no" => c.type = "while" \/ (n # 0 /\ n + 1 \notin TripsOf(c))

\* Where a loop c stands that has made n trips.
Course(c, m, p, d, f) ==
  LET n == Made(m) IN
  /\ n = 0 \/ n \in TripsOf(c)
  /\ m.state = "not-started" <=> ~m.initialized /\ ~IsOver(m)
  /\ m.state = "not-started" => n = 0 /\ ~m.hasFaild
  /\ m.initialized => d # "gone"
  /\ m.initialized /\ p = "idle" =>
       n # 0 /\ m.currentIndex = NthOf(c, n) /\ m.prevIndex = BeforeOf(c, n)
  /\ p \in OnTrip =>
       n + 1 \in TripsOf(c) /\ m.currentIndex = NthOf(c, n + 1) /\ m.prevIndex = BeforeOf(c, n + 1)
  /\ p = "finalize" => m.prevIndex = BeforeOf(c, n + 1)
  /\ p = "finalize" \/ IsOver(m) => Through(c, n, f)

\* The result of the last trip is where the next one looks for it.
LastThere(c, m, D) == ~IsOver(m) => ResultOf(c, Made(m)) \in D

\* The k-th of all results, and the first ones.
EntryOf(c, k) == <<NthOf(c, ((k - 1) \div NTask) + 1), ((k - 1) % NTask) + 1>>
FirstOf(c, len) == [k \in 1..len |-> EntryOf(c, k)]

\* A task of the first n trips, not one that the last of them has left, has
\* no result in x.
Misses(c, x, n, left) ==
  \E k \in 1..n, t \in Task :
    (k = n => t \notin left) /\ \A a \in DOMAIN x.trail : x.trail[a] # <<NthOf(c, k), t>>
Yields(c, x, n, bad) == IF bad THEN Misses(c, x, n, {}) ELSE x.trail = FirstOf(c, n * NTask)

\* The trip that is running has added the results of its first tasks.
RunningYields(c, x, n, bad, ch) ==
  /\ ch.state = "running"
  /\ \E done \in 0..NTask :
       /\ ch.left = (done + 1)..NTask
       /\ IF bad \/ ch.failed THEN Misses(c, x, n + 1, ch.left)
          ELSE x.trail = FirstOf(c, n * NTask + done)

Yield(c, m, p, D, ch) ==
  LET n == Made(m)
      i == NthOf(c, n + 1)
  IN CASE IsOver(m) -> Yields(c, D[Template], n, m.state = "failed")
       [] p = "reset" -> Yields(c, D[i], n, m.hasFaild)
       [] p = "trip" -> RunningYields(c, D[i], n, m.hasFaild, ch[i])
       [] p = "ended" -> Yields(c, D[i], n + 1, m.hasFaild \/ D[i].state = "failed")
       [] OTHER -> Yields(c, D[ResultOf(c, n)], n, m.hasFaild)

Unbroken ==
  cut = "none" =>
    /\ Course(component, mem, pc, dispatcher, forced)
    /\ LastThere(component, mem, DOMAIN dir)
    /\ forced = "no" => Yield(component, mem, pc, dir, child)

\* The instances that are kept of n trips.
KeptOf(c, n) ==
  LET keep == IF c.keep = Null THEN n ELSE IF c.keep = 0 THEN 1 ELSE c.keep
  IN {NthOf(c, k) : k \in {j \in 1..n : j > n - keep}}
KeptDirs(c, m, p, D) ==
  LET n == Made(m) IN
  D = {Template} \cup (IF IsOver(m) /\ c.keep = 0 THEN {} ELSE KeptOf(c, n))
                 \cup (IF p \in {"reset", "trip", "ended"} THEN {NthOf(c, n + 1)} ELSE {})
KeptExactly == cut = "none" => KeptDirs(component, mem, pc, DOMAIN dir)

-----------------------------------------------------------------------------
(* The indexes of a loop, in order                                        *)


\* How often u goes into d.
LEMMA Multiples ==
  ASSUME NEW u \in Nat \ {0}, NEW d \in Nat, NEW q \in Nat
  PROVE  q * u <= d <=> q <= d \div u
<1> DEFINE Q == d \div u
<1> DEFINE R == d % u
<1>1. Q \in Nat /\ R \in 0..(u - 1) /\ d = Q * u + R BY Divided
<1> HIDE DEF Q, R
<1>2. CASE q <= Q
  <2>1. Q * u = q * u + (Q - q) * u /\ Q - q \in Nat BY <1>1, <1>2
  <2>2. (Q - q) * u >= 0 /\ q * u \in Nat BY <2>1
  <2> QED BY <1>1, <1>2, <2>1, <2>2 DEF Q
<1>3. CASE q > Q
  <2>1. q * u = Q * u + (q - Q) * u /\ q - Q \in Nat /\ q - Q >= 1 BY <1>1, <1>3
  <2>2. (q - Q) * u >= u /\ Q * u \in Nat /\ (q - Q) * u \in Nat
    <3>1. (q - Q) * u = u + ((q - Q) - 1) * u BY <2>1
    <3>2. ((q - Q) - 1) * u >= 0 BY <2>1
    <3> QED BY <1>1, <2>1, <3>1, <3>2
  <2> QED BY <1>1, <1>3, <2>1, <2>2 DEF Q
<1> QED BY <1>1, <1>2, <1>3

\* A multiple is one in both directions.
LEMMA Negated ==
  ASSUME NEW u \in Nat \ {0}
  PROVE  /\ \A q \in Int : (q * u) % u = 0
         /\ \A y \in Int : y % u = 0 => (-y) % u = 0 /\ y = (y \div u) * u
<1>1. ASSUME NEW q \in Int PROVE (q * u) % u = 0
  <2>1. (q * u + 0) % u = 0 OBVIOUS
  <2>2. q * u + 0 = q * u OBVIOUS
  <2> QED BY <2>1, <2>2
<1>2. ASSUME NEW y \in Int, y % u = 0 PROVE (-y) % u = 0 /\ y = (y \div u) * u
  <2> DEFINE q == y \div u
  <2>1. q \in Int /\ y = q * u BY <1>2
  <2> HIDE DEF q
  <2>2. -y = (-q) * u /\ -q \in Int BY <2>1
  <2>3. ((-q) * u) % u = 0 BY <1>1, <2>2
  <2> QED BY <2>1, <2>2, <2>3 DEF q
<1> QED BY <1>1, <1>2

\* The numbers from a to e that are whole steps u away; the first L in steps
\* of s, and whether the k-th is not beyond e; those of S in the order of s.
Between(a, e, u) == {i \in (a..e) \cup (e..a) : (i - a) % u = 0}
FirstSteps(a, s, L) == {a + (k - 1) * s : k \in 1..L}
Reached(a, e, s, k) == IF s > 0 THEN a + (k - 1) * s <= e ELSE a + (k - 1) * s >= e
GoesBy(f, s) == \A i, j \in DOMAIN f : i < j => (f[j] - f[i]) * s > 0
InStepsOf(S, s) == CHOOSE f \in [1..Cardinality(S) -> S] : GoesBy(f, s)
Steps(a, s, L) == [k \in 1..L |-> a + (k - 1) * s]
Leads(a, e, s) == (e - a) * s >= 0

\* The numbers from a to e in steps of s, in either direction.
LEMMA Stepped ==
  ASSUME NEW a \in Int, NEW e \in Int, NEW s \in Int, s # 0, Leads(a, e, s),
         NEW u \in Int, u = (IF s > 0 THEN s ELSE -s)
  PROVE  \E L \in Nat \ {0} :
           /\ \A k \in Nat \ {0} : Reached(a, e, s, k) <=> k <= L
           /\ Between(a, e, u) = FirstSteps(a, s, L)
<1> DEFINE d == IF s > 0 THEN e - a ELSE a - e
<1>1. u \in Nat \ {0} /\ d \in Nat
  <2>1. CASE s > 0
    <3>1. e - a >= 0
      <4> DEFINE z == e - a
      <4>1. z \in Int /\ z * s >= 0 BY DEF Leads
      <4> HIDE DEF z
      <4>2. z >= 0 BY <2>1, <4>1
      <4> QED BY <4>2 DEF z
    <3> QED BY <2>1, <3>1
  <2>2. CASE s < 0
    <3>1. a - e >= 0
      <4> DEFINE z == e - a
      <4>1. z \in Int /\ z * s >= 0 BY DEF Leads
      <4> HIDE DEF z
      <4>2. z <= 0 BY <2>2, <4>1
      <4> QED BY <4>1, <4>2 DEF z
    <3> QED BY <2>2, <3>1
  <2> QED BY <2>1, <2>2
<1> DEFINE Q == d \div u
<1>2. Q \in Nat BY <1>1, Divided
<1>3. \A q \in Nat : q * u \in Nat /\ (q * u <= d <=> q <= Q)
  <2> HIDE DEF d
  <2> QED BY <1>1, Multiples
<1>4. \A q \in Nat : q * s = IF s > 0 THEN q * u ELSE -(q * u) BY <1>1
<1>5. s > 0 => d = e - a /\ e >= a BY <1>1
<1>6. s < 0 => d = a - e /\ a >= e BY <1>1
<1> HIDE DEF d, Q
<1>7. ASSUME NEW k \in Nat \ {0}
      PROVE  (IF s > 0 THEN a + (k - 1) * s <= e ELSE a + (k - 1) * s >= e) <=> k <= Q + 1
  <2> DEFINE q == k - 1
  <2> DEFINE v == q * u
  <2> DEFINE w == q * s
  <2>1. q \in Nat /\ k = q + 1 OBVIOUS
  <2>2. v \in Nat /\ (v <= d <=> q <= Q) /\ w = (IF s > 0 THEN v ELSE -v) BY <1>3, <1>4, <2>1
  <2> HIDE DEF v, w
  <2>3. (IF s > 0 THEN a + w <= e ELSE a + w >= e) <=> v <= d BY <1>1, <1>5, <1>6, <2>2
  <2> QED BY <1>2, <2>1, <2>2, <2>3 DEF w
<1>8. ASSUME NEW i \in (a..e) \cup (e..a), (i - a) % u = 0
      PROVE  \E k \in 1..(Q + 1) : i = a + (k - 1) * s
  <2> DEFINE x == IF s > 0 THEN i - a ELSE a - i
  <2>1. x \in Nat /\ x <= d BY <1>1, <1>5, <1>6
  <2>2. x % u = 0
    <3>1. CASE s > 0 BY <1>8, <3>1
    <3>2. CASE s < 0
      <4>1. x = -(i - a) /\ i - a \in Int BY <3>2
      <4> DEFINE y == i - a
      <4>2. y \in Int /\ x = -y /\ y % u = 0 BY <1>8, <4>1
      <4> HIDE DEF x, y
      <4> QED BY <1>1, <4>2, Negated
    <3> QED BY <3>1, <3>2
  <2> HIDE DEF x
  <2>0. x = (x \div u) * u
    <3>1. x \in Int BY <2>1
    <3>2. \A y \in Int : y % u = 0 => y = (y \div u) * u BY <1>1, Negated
    <3> QED BY <2>2, <3>1, <3>2
  <2> DEFINE q == x \div u
  <2>3. q \in Nat /\ x = q * u
    <3>1. q \in Nat BY <1>1, <2>1, Divided
    <3> QED BY <2>0, <3>1
  <2> HIDE DEF q
  <2>4. q <= Q BY <1>3, <2>1, <2>3
  <2>5. i = a + q * s
    <3> DEFINE v == q * u
    <3> DEFINE w == q * s
    <3>1. x = v /\ w = (IF s > 0 THEN v ELSE -v) /\ v \in Nat BY <1>3, <1>4, <2>3
    <3> HIDE DEF v, w
    <3>2. i = a + w BY <3>1, <1>5, <1>6 DEF x
    <3> QED BY <3>2 DEF w
  <2>6. q + 1 \in 1..(Q + 1) /\ (q + 1) - 1 = q BY <1>2, <2>3, <2>4
  <2> QED BY <2>5, <2>6
<1>9. ASSUME NEW k \in 1..(Q + 1)
      PROVE  /\ a + (k - 1) * s \in (a..e) \cup (e..a)
             /\ ((a + (k - 1) * s) - a) % u = 0
  <2> DEFINE q == k - 1
  <2> DEFINE v == q * u
  <2> DEFINE w == q * s
  <2>1. q \in Nat /\ q <= Q BY <1>2
  <2>2. v \in Nat /\ v <= d /\ w = (IF s > 0 THEN v ELSE -v) BY <1>3, <1>4, <2>1
  <2>3. v % u = 0 /\ (-v) % u = 0
    <3>1. \A x \in Int : x % u = 0 => (-x) % u = 0 BY <1>1, Negated
    <3>0. u \in Nat \ {0} /\ q \in Int BY <1>1, <2>1
    <3> HIDE DEF q
    <3>2. (q * u) % u = 0
      <4>1. \A z \in Int : (z * u) % u = 0 BY <3>0, Negated
      <4> QED BY <3>0, <4>1
    <3>3. v \in Int /\ v % u = 0 BY <2>2, <3>2
    <3> QED BY <3>1, <3>3
  <2> HIDE DEF v, w
  <2>4. a + w \in (a..e) \cup (e..a) /\ (a + w) - a = w
    BY <1>1, <1>5, <1>6, <2>2
  <2>5. w % u = 0 BY <2>2, <2>3
  <2>6. a + w \in (a..e) \cup (e..a) /\ ((a + w) - a) % u = 0 BY <2>4, <2>5
  <2> QED BY <2>6 DEF w, q
<1>10. {i \in (a..e) \cup (e..a) : (i - a) % u = 0} = {a + (k - 1) * s : k \in 1..(Q + 1)}
  BY <1>8, <1>9
<1>11. Q + 1 \in Nat \ {0} BY <1>2
<1> QED BY <1>7, <1>10, <1>11 DEF Reached, Between, FirstSteps

\* What takes the numbers up to L to such numbers, and rises, moves none.
LEMMA Increasing ==
  ASSUME NEW L \in Nat, NEW r \in [1..L -> 1..L], \A i, j \in 1..L : i < j => r[i] < r[j]
  PROVE  \A k \in 1..L : r[k] = k
<1>0. \A k \in 1..L : r[k] \in 1..L OBVIOUS
<1> DEFINE A == {k \in 0..L : k = 0 \/ r[k] >= k}
<1> DEFINE B == {m \in 0..L : m = L \/ r[L - m] <= L - m}
<1>1. 0..L \subseteq A
  <2>1. 0 \in A OBVIOUS
  <2>2. ASSUME NEW k \in 0..(L - 1), k \in A PROVE k + 1 \in A
    <3>1. k + 1 \in 1..L /\ r[k + 1] \in 1..L BY <1>0
    <3>2. CASE k = 0 BY <3>1, <3>2
    <3>3. CASE k # 0
      <4>1. k \in 1..L /\ r[k] >= k /\ r[k] < r[k + 1] /\ r[k] \in 1..L BY <1>0, <2>2, <3>1, <3>3
      <4> QED BY <3>1, <4>1
    <3> QED BY <3>2, <3>3
  <2> HIDE DEF A
  <2> QED BY <2>1, <2>2, CountUp
<1>2. 0..L \subseteq B
  <2>1. 0 \in B
    <3>1. CASE L = 0 BY <3>1
    <3>2. CASE L # 0
      <4>1. L \in 1..L /\ r[L] \in 1..L /\ L - 0 = L BY <1>0, <3>2
      <4> QED BY <4>1
    <3> QED BY <3>1, <3>2
  <2>2. ASSUME NEW m \in 0..(L - 1), m \in B PROVE m + 1 \in B
    <3>1. CASE m + 1 = L BY <3>1
    <3>2. CASE m + 1 # L
      <4> DEFINE j == L - m
      <4>1. j \in 1..L /\ j - 1 \in 1..L /\ L - (m + 1) = j - 1 /\ r[j] <= j BY <2>2, <3>2
      <4> HIDE DEF j
      <4>2. r[j - 1] < r[j] /\ r[j - 1] \in 1..L /\ r[j] \in 1..L BY <1>0, <4>1
      <4>3. r[j - 1] <= j - 1 BY <4>1, <4>2
      <4>4. m + 1 \in 0..L OBVIOUS
      <4> QED BY <4>1, <4>3, <4>4
    <3> QED BY <3>1, <3>2
  <2> HIDE DEF B
  <2> QED BY <2>1, <2>2, CountUp
<1>3. ASSUME NEW k \in 1..L PROVE r[k] = k
  <2>1. r[k] >= k BY <1>1
  <2>2. L - k \in 0..L /\ L - (L - k) = k /\ L - k # L OBVIOUS
  <2>3. r[k] <= k BY <1>2, <2>2
  <2> QED BY <1>0, <2>1, <2>3
<1> QED BY <1>3

\* The numbers from a in steps of s are put in order in one way.
LEMMA OrderedOnce ==
  ASSUME NEW L \in Nat, NEW a \in Int, NEW s \in Int, s # 0,
         NEW S, S = FirstSteps(a, s, L)
  PROVE  /\ Cardinality(S) = L
         /\ InStepsOf(S, s) = Steps(a, s, L)
<1> DEFINE g == [k \in 1..L |-> a + (k - 1) * s]
<1>1. s * s \in Nat /\ s * s > 0
  <2>1. CASE s > 0 BY <2>1
  <2>2. CASE s < 0 BY <2>2
  <2> QED BY <2>1, <2>2
<1>2. ASSUME NEW i \in Int, NEW j \in Int
      PROVE  ((a + (j - 1) * s) - (a + (i - 1) * s)) * s = (j - i) * (s * s)
  OBVIOUS
<1>3. \A d \in Int : d * (s * s) > 0 <=> d > 0
  <2> DEFINE q == s * s
  <2>1. q \in Int /\ q > 0 BY <1>1
  <2> HIDE DEF q
  <2>2. \A d \in Int : d * q > 0 <=> d > 0 BY <2>1
  <2> QED BY <2>2 DEF q
<1>4. \A i, j \in 1..L : (g[j] - g[i]) * s > 0 <=> i < j
  <2> TAKE i, j \in 1..L
  <2>1. (g[j] - g[i]) * s = (j - i) * (s * s) BY <1>2
  <2>2. (j - i) * (s * s) > 0 <=> j - i > 0 BY <1>3
  <2> QED BY <2>1, <2>2
<1>5. g \in [1..L -> S] /\ \A x \in S : \E k \in 1..L : x = g[k] BY DEF FirstSteps
<1>6. \A i, j \in 1..L : g[i] = g[j] => i = j
  <2> TAKE i, j \in 1..L
  <2> HAVE g[i] = g[j]
  <2>1. g[i] \in Int /\ g[j] \in Int OBVIOUS
  <2>2. (g[j] - g[i]) * s = 0 /\ (g[i] - g[j]) * s = 0 BY <2>1
  <2>3. ~(i < j) /\ ~(j < i) BY <1>4, <2>2
  <2> QED BY <2>3
<1> HIDE DEF g
<1>7. ExistsBijection(1..L, S)
  BY <1>5, <1>6 DEF ExistsBijection, Bijection, Injection, Surjection, IsInjective
<1>8. Cardinality(S) = L
  <2>1. 1 \in Int /\ L \in Int /\ IsFiniteSet(1..L) /\ Cardinality(1..L) = L BY FS_Interval
  <2> QED BY <1>7, <2>1, FS_Bijection
<1>9. ASSUME NEW f \in [1..L -> S], GoesBy(f, s)
      PROVE  f = g
  <2> DEFINE r == [k \in 1..L |-> CHOOSE m \in 1..L : f[k] = g[m]]
  <2>1. \A k \in 1..L : r[k] \in 1..L /\ f[k] = g[r[k]]
    <3> TAKE k \in 1..L
    <3>1. f[k] \in S OBVIOUS
    <3>2. \E m \in 1..L : f[k] = g[m] BY <1>5, <3>1
    <3> QED BY <3>2
  <2>2. r \in [1..L -> 1..L] BY <2>1
  <2> HIDE DEF r
  <2>3. \A i, j \in 1..L : i < j => r[i] < r[j]
    <3> TAKE i, j \in 1..L
    <3> HAVE i < j
    <3>1. (g[r[j]] - g[r[i]]) * s > 0 BY <1>9, <2>1 DEF GoesBy
    <3> QED BY <1>4, <2>1, <3>1
  <2>4. \A k \in 1..L : r[k] = k BY <2>2, <2>3, Increasing
  <2>5. \A k \in 1..L : f[k] = g[k] BY <2>1, <2>4
  <2> QED BY <1>5, <2>5
<1>10. GoesBy(g, s) BY <1>4, <1>5 DEF GoesBy
<1>11. \A f \in [1..L -> S] : GoesBy(f, s) => f = g BY <1>9
<1>12. InStepsOf(S, s) \in [1..L -> S] /\ GoesBy(InStepsOf(S, s), s)
  BY <1>5, <1>8, <1>10 DEF InStepsOf
<1>13. InStepsOf(S, s) = g BY <1>11, <1>12
<1> QED BY <1>8, <1>13 DEF g, Steps

\* A loop makes one trip at least, and Indexes lists what they are made of.
LEMMA TripsAre ==
  ASSUME RunType, Type \in Loop, IsOrdered
  PROVE  \E L \in Nat \ {0} :
           /\ TripsOf(component) = 1..L
           /\ \A n : Indexes(n) = [k \in 1..(IF Type = "while" THEN n ELSE L) |-> NthOf(component, k)]
<1>1. component \in Component /\ component.type = Type BY DEF RunType, Type
<1>2. CASE Type = "for"
  <2> DEFINE a == component.start
  <2> DEFINE e == component.end
  <2> DEFINE s == component.step
  <2> DEFINE u == IF s > 0 THEN s ELSE -s
  <2> DEFINE S == {i \in (a..e) \cup (e..a) : (i - a) % u = 0}
  <2>1. IsFor(component) BY <1>1, <1>2, ComponentAssumption
  <2>2. a \in Int /\ e \in Int /\ s \in Int /\ s # 0 /\ (e - a) * s >= 0 BY <2>1 DEF IsFor
  <2>3. \A k : NthOf(component, k) = a + (k - 1) * s BY <1>1, <1>2 DEF NthOf
  <2>4. TripsOf(component) =
          {k \in Nat \ {0} : IF s > 0 THEN a + (k - 1) * s <= e ELSE a + (k - 1) * s >= e}
    BY <1>1, <1>2, <2>3 DEF TripsOf
  <2>5. \A n : Indexes(n) = (CHOOSE f \in [1..Cardinality(S) -> S] :
                               \A i, j \in DOMAIN f : i < j => (f[j] - f[i]) * s > 0)
    BY <1>2 DEF Indexes
  <2>6. PICK L \in Nat \ {0} :
          /\ \A k \in Nat \ {0} :
               (IF s > 0 THEN a + (k - 1) * s <= e ELSE a + (k - 1) * s >= e) <=> k <= L
          /\ S = {a + (k - 1) * s : k \in 1..L}
    <3>1. u = (IF s > 0 THEN s ELSE -s) /\ S = Between(a, e, u) /\ u \in Int /\ Leads(a, e, s)
      BY <2>2 DEF Between, Leads
    <3> HIDE DEF a, e, s, u, S
    <3>2. PICK L \in Nat \ {0} :
            /\ \A k \in Nat \ {0} : Reached(a, e, s, k) <=> k <= L
            /\ Between(a, e, u) = FirstSteps(a, s, L)
      BY <2>2, <3>1, Stepped
    <3>3. \A k \in Nat \ {0} : (IF s > 0 THEN a + (k - 1) * s <= e ELSE a + (k - 1) * s >= e) <=> k <= L
      BY <3>2 DEF Reached
    <3>4. S = {a + (k - 1) * s : k \in 1..L} BY <3>1, <3>2 DEF FirstSteps
    <3> QED BY <3>3, <3>4
  <2>7. TripsOf(component) = 1..L
    <3> HIDE DEF a, e, s
    <3>1. TripsOf(component) = {k \in Nat \ {0} : k <= L} BY <2>4, <2>6
    <3> QED BY <3>1
  <2>8. \A n : Indexes(n) = [k \in 1..L |-> a + (k - 1) * s]
    <3> HIDE DEF a, e, s, S
    <3>1. L \in Nat /\ S = FirstSteps(a, s, L) BY <2>6 DEF FirstSteps
    <3>2. InStepsOf(S, s) = Steps(a, s, L) BY <2>2, <3>1, OrderedOnce
    <3> QED BY <2>5, <3>2 DEF InStepsOf, GoesBy, Steps
  <2>9. \A n : Indexes(n) = [k \in 1..(IF Type = "while" THEN n ELSE L) |-> NthOf(component, k)]
    BY <1>2, <2>3, <2>8
  <2> QED BY <2>7, <2>9
<1>3. CASE Type = "foreach"
  <2> DEFINE l == component.indexList
  <2>1. Len(l) \in Nat \ {0} /\ DOMAIN l = 1..Len(l) BY <1>3, ListPlaces
  <2>2. IsForeach(component) BY <1>1, <1>3, ComponentAssumption
  <2>3. l \in Seq(Range(l)) BY <2>2 DEF IsForeach, IsSequence
  <2>4. l = [k \in 1..Len(l) |-> l[k]] BY <2>3
  <2>5. \A n : Indexes(n) = l BY <1>3 DEF Indexes
  <2>6. TripsOf(component) = 1..Len(l) /\ \A k : NthOf(component, k) = l[k]
    BY <1>1, <1>3 DEF TripsOf, NthOf
  <2>7. \A n : Indexes(n) = [k \in 1..(IF Type = "while" THEN n ELSE Len(l)) |-> NthOf(component, k)]
    BY <1>3, <2>4, <2>5, <2>6
  <2> QED BY <2>1, <2>6, <2>7
<1>4. CASE Type = "while"
  <2>1. TripsOf(component) = 1..MaxTrips /\ \A k : NthOf(component, k) = k - 1
    BY <1>1, <1>4 DEF TripsOf, NthOf
  <2>2. \A n : Indexes(n) = [k \in 1..n |-> k - 1] BY <1>4 DEF Indexes
  <2> QED BY <1>4, <2>1, <2>2, CountAssumption
<1> QED BY <1>2, <1>3, <1>4 DEF Loop

\* The index of each trip is another one, and getNextIndex() goes from one to
\* the next until isFinished().
LEMMA NthFacts ==
  ASSUME RunType, Type \in Loop, IsOrdered
  PROVE  LET T == TripsOf(component)
             Nth(k) == NthOf(component, k)
         IN /\ 1 \in T /\ Nth(1) = firstIndex
            /\ \A k \in T : k \in Nat \ {0} /\ 1..k \subseteq T /\ Nth(k) \in Index
            /\ \A j, k \in T : Nth(j) = Nth(k) => j = k
            /\ \A k \in T : /\ isFinished(getNextIndex(Nth(k))) <=> k + 1 \notin T
                            /\ k + 1 \in T => getNextIndex(Nth(k)) = Nth(k + 1)
<1> DEFINE T == TripsOf(component)
<1> DEFINE Nth(k) == NthOf(component, k)
<1>1. component \in Component /\ component.type = Type BY DEF RunType, Type
<1>2. PICK L \in Nat \ {0} : T = 1..L BY TripsAre
<1>3. 1 \in T /\ \A k \in T : k \in Nat \ {0} /\ 1..k \subseteq T BY <1>2
<1>4. CASE Type = "for"
  <2> DEFINE a == component.start
  <2> DEFINE e == component.end
  <2> DEFINE s == component.step
  <2>1. IsFor(component) BY <1>1, <1>4, ComponentAssumption
  <2>2. a \in Int /\ e \in Int /\ s \in Int /\ s # 0 BY <2>1 DEF IsFor
  <2>3. \A k : Nth(k) = a + (k - 1) * s BY <1>1, <1>4 DEF NthOf
  <2>4. T = {k \in Nat \ {0} : IF s > 0 THEN Nth(k) <= e ELSE Nth(k) >= e}
    BY <1>1, <1>4, <2>3 DEF TripsOf
  <2>5. Index = Int /\ firstIndex = a BY <1>4, <2>1 DEF Index, firstIndex, Field, IsFor
  <2>6. \A i \in Int : getNextIndex(i) = i + s /\ (isFinished(i) <=> ((i > e /\ s > 0) \/ (i < e /\ s < 0)))
    BY <1>4, <2>5, LoopNames DEF getNextIndex, forGetNextIndex, isFinished, forIsFinished
  <2> HIDE DEF a, e, s, T, Nth
  <2>7. \A k \in Int : Nth(k) \in Int /\ Nth(k + 1) = Nth(k) + s
    <3> TAKE k \in Int
    <3>1. Nth(k) = a + (k - 1) * s /\ Nth(k + 1) = a + k * s BY <2>3
    <3>2. k * s = (k - 1) * s + s /\ (k - 1) * s \in Int BY <2>2
    <3> QED BY <2>2, <3>1, <3>2
  <2>8. Nth(1) = a BY <2>2, <2>3
  <2>9. \A j, k \in T : Nth(j) = Nth(k) => j = k
    <3> TAKE j, k \in T
    <3> HAVE Nth(j) = Nth(k)
    <3>1. j \in Int /\ k \in Int BY <1>3
    <3>2. (j - 1) * s = (k - 1) * s BY <2>2, <2>3, <3>1
    <3>3. (j - k) * s = 0 BY <2>2, <3>1, <3>2
    <3>4. j - k = 0
      <4> DEFINE z == j - k
      <4>1. z \in Int /\ z * s = 0 BY <3>1, <3>3
      <4> HIDE DEF z
      <4>2. z = 0 BY <2>2, <4>1
      <4> QED BY <4>2 DEF z
    <3> QED BY <3>1, <3>4
  <2>10. ASSUME NEW k \in T
         PROVE  /\ isFinished(getNextIndex(Nth(k))) <=> k + 1 \notin T
                /\ getNextIndex(Nth(k)) = Nth(k + 1)
    <3>1. k + 1 \in Nat \ {0} /\ Nth(k) \in Int /\ Nth(k + 1) \in Int /\ getNextIndex(Nth(k)) = Nth(k + 1)
      BY <1>3, <2>6, <2>7
    <3>2. k + 1 \in T <=> (IF s > 0 THEN Nth(k + 1) <= e ELSE Nth(k + 1) >= e) BY <2>4, <3>1
    <3> QED BY <2>2, <2>6, <3>1, <3>2
  <2> QED BY <1>3, <2>5, <2>7, <2>8, <2>9, <2>10 DEF T, Nth
<1>5. CASE Type = "foreach"
  <2> DEFINE l == component.indexList
  <2>1. /\ Len(l) \in Nat \ {0} /\ DOMAIN l = 1..Len(l)
        /\ Range(l) = {l[k] : k \in 1..Len(l)} /\ \A k \in 1..Len(l) : At(l[k]) = k
    BY <1>5, ListPlaces
  <2>2. T = 1..Len(l) /\ \A k : Nth(k) = l[k] BY <1>1, <1>5 DEF TripsOf, NthOf
  <2>3. Index = Range(l) /\ firstIndex = l[1] /\ Null \notin Index BY <1>5, LoopNames DEF Index, firstIndex
  <2>4. \A i \in Index : getNextIndex(i) = IF At(i) = Len(l) THEN Null ELSE l[At(i) + 1]
    BY <1>5, <2>3 DEF getNextIndex, foreachGetNextIndex
  <2>5. \A i : isFinished(i) <=> i \notin Index BY <1>5, <2>3 DEF isFinished, foreachIsFinished
  <2> HIDE DEF l, T, Nth
  <2>6. \A k \in T : Nth(k) \in Index /\ At(Nth(k)) = k BY <2>1, <2>2, <2>3
  <2>7. ASSUME NEW k \in T
        PROVE  /\ isFinished(getNextIndex(Nth(k))) <=> k + 1 \notin T
               /\ k + 1 \in T => getNextIndex(Nth(k)) = Nth(k + 1)
    <3>1. CASE k = Len(l)
      <4>1. getNextIndex(Nth(k)) = Null BY <2>4, <2>6, <3>1
      <4> QED BY <2>1, <2>2, <2>3, <2>5, <3>1, <4>1
    <3>2. CASE k # Len(l)
      <4>1. k + 1 \in T BY <2>1, <2>2, <3>2
      <4>2. getNextIndex(Nth(k)) = Nth(k + 1) BY <2>2, <2>4, <2>6, <3>2
      <4> QED BY <2>5, <2>6, <4>1, <4>2
    <3> QED BY <3>1, <3>2
  <2>8. Nth(1) = firstIndex BY <2>2, <2>3
  <2>9. \A j, k \in T : Nth(j) = Nth(k) => j = k BY <2>6
  <2> QED BY <1>3, <2>6, <2>7, <2>8, <2>9 DEF T, Nth
<1>6. CASE Type = "while"
  <2>1. T = 1..MaxTrips /\ \A k : Nth(k) = k - 1 BY <1>1, <1>6 DEF TripsOf, NthOf
  <2>2. {"start", "step"} \cap DOMAIN component = {} BY <1>1, <1>6, ComponentAssumption
  <2>3. Index = Int /\ firstIndex = 0 BY <1>6, <2>2 DEF Index, firstIndex, Field
  <2>4. \A i \in Int : getNextIndex(i) = i + 1 /\ (isFinished(i) <=> i >= MaxTrips)
    BY <1>6, <2>3, LoopNames DEF getNextIndex, whileGetNextIndex, isFinished
  <2> HIDE DEF T, Nth
  <2>5. ASSUME NEW k \in T
        PROVE  /\ isFinished(getNextIndex(Nth(k))) <=> k + 1 \notin T
               /\ getNextIndex(Nth(k)) = Nth(k + 1) /\ Nth(k) \in Index
    <3>1. k \in Int /\ k >= 1 /\ Nth(k) = k - 1 /\ Nth(k + 1) = k BY <2>1, CountAssumption
    <3>2. getNextIndex(k - 1) = k BY <2>4, <3>1
    <3>3. isFinished(k) <=> k >= MaxTrips BY <2>4, <3>1
    <3>4. k + 1 \notin T <=> k >= MaxTrips BY <2>1, <3>1, CountAssumption
    <3>5. Nth(k) \in Index BY <2>3, <3>1
    <3>6. getNextIndex(Nth(k)) = k BY <3>1, <3>2
    <3> QED BY <3>1, <3>3, <3>4, <3>5, <3>6
  <2>6. \A j, k \in T : Nth(j) = Nth(k) => j = k BY <2>1
  <2>7. Nth(1) = firstIndex BY <2>1, <2>3
  <2> QED BY <1>3, <2>5, <2>6, <2>7 DEF T, Nth
<1> QED BY <1>4, <1>5, <1>6 DEF Loop

\* No index of a "for" is negative (keepLoopInstance() removes none that is).
NotNegative == Type = "for" => component.start >= 0 /\ component.end >= 0

\* After a trip the instance is removed that was kept long enough.
LEMMA ObsoleteIs ==
  ASSUME RunType, Type \in Loop, IsOrdered, NEW k \in TripsOf(component), NEW src
  PROVE  LET Nth(j) == NthOf(component, j)
             S == Obsolete(Nth(k), src)
         IN /\ src # Nth(k) => Nth(k) \notin S
            /\ component.keep = Null => S = {}
            /\ component.keep = 0 => S = {src} \ {Template}
            /\ component.keep \notin {Null, 0} /\ NotNegative =>
                 \A j \in 1..k : Nth(j) \in S <=> j = k - component.keep
<1> DEFINE Nth(j) == NthOf(component, j)
<1> DEFINE S == Obsolete(Nth(k), src)
<1> DEFINE keep == component.keep
<1>1. component \in Component /\ component.type = Type BY DEF RunType, Type
<1>2. keep \in Nat \cup {Null} /\ Null \notin Int
  <2>1. keep \in Nat \cup {Null} BY <1>1, ComponentAssumption
  <2>2. Null \notin Int BY NameAssumption
  <2> QED BY <2>1, <2>2
<1>3. keep = Null => S = {} BY <1>2 DEF Obsolete
<1>4. keep = 0 => S = {src} \ {Template} BY <1>2 DEF Obsolete
<1>5. k \in Nat \ {0} /\ 1..k \subseteq TripsOf(component) BY NthFacts
<1>6. CASE keep \in {Null, 0} BY <1>3, <1>4, <1>6
<1>7. CASE keep \notin {Null, 0} /\ Type = "foreach"
  <2> DEFINE l == component.indexList
  <2>1. /\ Len(l) \in Nat \ {0} /\ \A j \in 1..Len(l) : At(l[j]) = j
    BY <1>7, ListPlaces
  <2>2. TripsOf(component) = 1..Len(l) /\ \A j : Nth(j) = l[j] BY <1>1, <1>7 DEF TripsOf, NthOf
  <2>3. At(Nth(k)) = k BY <2>1, <2>2
  <2>4. S = IF k - keep >= 1 THEN {Nth(k - keep)} ELSE {}
    BY <1>7, <2>2, <2>3 DEF Obsolete, foreachKeepLoopInstance
  <2> HIDE DEF l, S, Nth, keep
  <2>5. \A j \in 1..k : Nth(j) \in S <=> j = k - keep
    <3> TAKE j \in 1..k
    <3>1. CASE k - keep >= 1
      <4>1. k - keep \in 1..k BY <1>2, <1>5, <1>7, <3>1
      <4>2. Nth(j) = Nth(k - keep) <=> j = k - keep BY <1>5, <2>1, <2>2, <4>1
      <4> QED BY <2>4, <3>1, <4>2
    <3>2. CASE ~(k - keep >= 1) BY <2>4, <3>2
    <3> QED BY <3>1, <3>2
  <2>6. Nth(k) \notin S
    <3>1. k \in 1..k /\ k # k - keep BY <1>2, <1>5, <1>7
    <3> QED BY <2>5, <3>1
  <2> QED BY <1>7, <2>5, <2>6 DEF S, Nth, keep
<1>8. CASE keep \notin {Null, 0} /\ Type \in {"for", "while"}
  <2> DEFINE s == step
  <2> DEFINE b == IF Type = "for" THEN component.start ELSE 0
  <2>1. /\ s \in Int /\ s # 0 /\ b \in Int /\ \A j \in Int : Nth(j) = b + (j - 1) * s
        /\ NotNegative => \A j \in 1..k : Nth(j) >= 0
    <3>1. CASE Type = "for"
      <4>1. IsFor(component) BY <1>1, <3>1, ComponentAssumption
      <4>2. s = component.step /\ s \in Int /\ s # 0 /\ b = component.start /\ b \in Int /\ component.end \in Int
        BY <3>1, <4>1 DEF step, Field, IsFor
      <4>3. \A j \in Int : Nth(j) = b + (j - 1) * s BY <1>1, <3>1, <4>2 DEF NthOf
      <4>4. ASSUME NotNegative, NEW j \in 1..k PROVE Nth(j) >= 0
        <5>1. j \in TripsOf(component) /\ j \in Nat \ {0} BY <1>5
        <5>2. IF s > 0 THEN Nth(j) <= component.end ELSE Nth(j) >= component.end
          BY <1>1, <3>1, <4>2, <5>1 DEF TripsOf
        <5>3. component.end >= 0 /\ b >= 0 BY <3>1, <4>2, <4>4 DEF NotNegative
        <5> DEFINE w == (j - 1) * s
        <5>5. j - 1 \in Nat BY <5>1
        <5>6. w \in Int /\ (s > 0 => w >= 0)
          <6> HIDE DEF s
          <6> QED BY <4>2, <5>5
        <5>7. Nth(j) = b + w
          <6> HIDE DEF s, b, Nth
          <6> QED BY <4>3, <5>1
        <5>4. w \in Int /\ (s > 0 => w >= 0) /\ Nth(j) = b + w BY <5>6, <5>7
        <5> HIDE DEF w, b, s, Nth
        <5> QED BY <4>2, <5>2, <5>3, <5>4
      <4> QED BY <4>2, <4>3, <4>4
    <3>2. CASE Type = "while"
      <4>1. {"start", "step"} \cap DOMAIN component = {} BY <1>1, <3>2, ComponentAssumption
      <4>2. s = 1 /\ b = 0 BY <3>2, <4>1 DEF step, Field
      <4>3. \A j : Nth(j) = j - 1 BY <1>1, <3>2 DEF NthOf
      <4>4. TripsOf(component) = 1..MaxTrips BY <1>1, <3>2 DEF TripsOf
      <4>5. \A j \in 1..k : Nth(j) >= 0 BY <1>5, <4>3
      <4>6. \A j \in Int : j - 1 = 0 + (j - 1) * 1 OBVIOUS
      <4> QED BY <4>2, <4>3, <4>5, <4>6
    <3> QED BY <1>8, <3>1, <3>2
  <2>2. S = LET old == Nth(k) - keep * s IN IF old >= 0 THEN {old} ELSE {}
    BY <1>8 DEF Obsolete, keepLoopInstance
  <2> HIDE DEF s, b, S, Nth, keep
  <2>3. keep \in Nat \ {0} BY <1>2, <1>8
  <2>4. \A j \in 1..k : Nth(j) = Nth(k) - keep * s <=> j = k - keep
    <3> TAKE j \in 1..k
    <3>1. j \in Int /\ k \in Int BY <1>5
    <3>2. Nth(j) = b + (j - 1) * s /\ Nth(k) - keep * s = b + ((k - keep) - 1) * s
      <4>1. Nth(k) = b + (k - 1) * s BY <2>1, <3>1
      <4>2. (k - 1) * s - keep * s = ((k - keep) - 1) * s BY <2>1, <2>3, <3>1
      <4>3. (k - 1) * s \in Int /\ keep * s \in Int /\ ((k - keep) - 1) * s \in Int BY <2>1, <2>3, <3>1
      <4> QED BY <2>1, <4>1, <4>2, <4>3
    <3> DEFINE z == j - (k - keep)
    <3>3. z \in Int /\ (j - 1) * s - ((k - keep) - 1) * s = z * s BY <2>1, <2>3, <3>1
    <3>4. z * s = 0 <=> z = 0
      <4> HIDE DEF z
      <4> QED BY <2>1, <3>3
    <3>5. Nth(j) = Nth(k) - keep * s <=> z * s = 0
      <4> DEFINE p == (j - 1) * s
      <4> DEFINE q == ((k - keep) - 1) * s
      <4>1. p \in Int /\ q \in Int /\ p - q = z * s BY <2>1, <2>3, <3>1, <3>3
      <4> HIDE DEF p, q, z
      <4>2. Nth(j) = b + p /\ Nth(k) - keep * s = b + q BY <3>2 DEF p, q
      <4> DEFINE x == z * s
      <4>3. p - q = x BY <4>1
      <4> HIDE DEF x
      <4> DEFINE y == Nth(k) - keep * s
      <4>5. b \in Int /\ p \in Int /\ q \in Int /\ Nth(j) = b + p /\ y = b + q BY <2>1, <4>1, <4>2
      <4> HIDE DEF y
      <4>6. Nth(j) = y <=> x = 0 BY <4>3, <4>5
      <4>4. Nth(j) = Nth(k) - keep * s <=> x = 0 BY <4>6 DEF y
      <4> QED BY <4>4 DEF x
    <3>6. z = 0 <=> j = k - keep BY <2>3, <3>1
    <3> QED BY <3>4, <3>5, <3>6
  <2>5. Nth(k) \notin S
    <3>1. k \in 1..k /\ k # k - keep BY <1>5, <2>3
    <3>2. Nth(k) # Nth(k) - keep * s BY <2>4, <3>1
    <3> QED BY <2>2, <3>2
  <2>6. NotNegative => \A j \in 1..k : Nth(j) \in S <=> j = k - keep
    BY <2>1, <2>2, <2>4
  <2> QED BY <1>8, <2>5, <2>6 DEF S, Nth, keep
<1> QED BY <1>6, <1>7, <1>8 DEF Loop

-----------------------------------------------------------------------------
(* What each step does to a loop that nothing interrupts                   *)

\* The result of the tasks in the order in which they are run.
LEMMA EntryIs ==
  ASSUME NEW c, NEW n \in Nat, NEW done \in 0..(NTask - 1)
  PROVE  /\ n * NTask + done \in Nat
         /\ EntryOf(c, (n * NTask + done) + 1) = <<NthOf(c, n + 1), done + 1>>
<1> DEFINE w == n * NTask + done
<1>1. NTask \in Nat \ {0} BY CountAssumption
<1>2. w \in Nat
  <2>1. n * NTask \in Nat BY <1>1
  <2> QED BY <1>1, <2>1
<1>3. w \div NTask = n /\ w % NTask = done
  <2>1. w \in Nat /\ w = n * NTask + done /\ done \in Nat /\ done < NTask BY <1>1, <1>2
  <2> HIDE DEF w
  <2> QED BY <1>1, <2>1, DividedUniquely
<1> HIDE DEF w
<1>4. (w + 1) - 1 = w BY <1>2
<1>5. EntryOf(c, w + 1) = <<NthOf(c, n + 1), done + 1>> BY <1>3, <1>4 DEF EntryOf
<1> QED BY <1>2, <1>5 DEF w

\* One more task makes one more result.
LEMMA FirstGrows ==
  ASSUME NEW c, NEW len \in Nat
  PROVE  Append(FirstOf(c, len), EntryOf(c, len + 1)) = FirstOf(c, len + 1)
<1> DEFINE f == FirstOf(c, len)
<1> DEFINE g == FirstOf(c, len + 1)
<1> DEFINE e == EntryOf(c, len + 1)
<1>1. f = [k \in 1..len |-> EntryOf(c, k)] /\ g = [k \in 1..(len + 1) |-> EntryOf(c, k)] BY DEF FirstOf
<1>2. g[len + 1] = e /\ \A k \in 1..len : g[k] = f[k] BY <1>1
<1>3. f \in Seq({EntryOf(c, k) : k \in 1..(len + 1)}) /\ Len(f) = len BY <1>1
<1>4. Append(f, e) = [k \in 1..(len + 1) |-> IF k = len + 1 THEN e ELSE f[k]]
  BY <1>3
<1>5. g = [k \in 1..(len + 1) |-> g[k]] BY <1>1
<1> HIDE DEF f, g, e
<1>6. \A k \in 1..(len + 1) : k = len + 1 \/ k \in 1..len OBVIOUS
<1>7. \A k \in 1..(len + 1) : g[k] = IF k = len + 1 THEN e ELSE f[k] BY <1>2, <1>6
<1> QED BY <1>4, <1>5, <1>7 DEF f, g, e

\* These depend on the trail only.
LEMMA SameResults ==
  ASSUME NEW c, NEW x, NEW y, y.trail = x.trail
  PROVE  /\ \A n, left : Misses(c, y, n, left) <=> Misses(c, x, n, left)
         /\ \A n, bad : Yields(c, y, n, bad) <=> Yields(c, x, n, bad)
BY DEF Misses, Yields

\* What is missing stays so.
LEMMA MissesMore ==
  ASSUME NEW c, NEW x, NEW n \in Nat, NEW left, NEW less, less \subseteq left
  PROVE  /\ Misses(c, x, n, {}) => Misses(c, x, n + 1, left)
         /\ Misses(c, x, n, left) => Misses(c, x, n, less)
<1>1. ASSUME Misses(c, x, n, {}) PROVE Misses(c, x, n + 1, left)
  <2>1. PICK k \in 1..n, t \in Task : \A a \in DOMAIN x.trail : x.trail[a] # <<NthOf(c, k), t>>
    BY <1>1 DEF Misses
  <2>2. k \in 1..(n + 1) /\ k # n + 1 OBVIOUS
  <2> QED BY <2>1, <2>2 DEF Misses
<1>2. ASSUME Misses(c, x, n, left) PROVE Misses(c, x, n, less) BY <1>2 DEF Misses
<1> QED BY <1>1, <1>2

\* What has become of a loop, of the variables after a step.
Stands(c, m, p, d, f, D, ch) ==
  /\ Course(c, m, p, d, f)
  /\ LastThere(c, m, DOMAIN D)
  /\ f = "no" => Yield(c, m, p, D, ch)

LEMMA StandsNext ==
  ASSUME component' = component
  PROVE  /\ Stands(component, mem', pc', dispatcher', forced', dir', child') => Unbroken'
         /\ cut' # "none" => Unbroken' /\ KeptExactly'
         /\ KeptDirs(component, mem', pc', DOMAIN dir') => KeptExactly'
BY DEF Stands, Unbroken, KeptExactly

\* A loop that is not over and that nothing interrupted copies from the result
\* of the trip before, which is there.
LEMMA CourseFacts ==
  ASSUME RunType, LoopInv, ~Over, Type \in Loop, IsOrdered, Unbroken, cut = "none"
  PROVE  LET c == component
             n == Made(mem)
         IN /\ Course(c, mem, pc, dispatcher, forced) /\ (forced = "no" => Yield(c, mem, pc, dir, child))
            /\ n \in Nat /\ ~IsOver(mem) /\ mem = disk /\ mem \in ProgressOver(Index)
            /\ n = 0 \/ n \in TripsOf(c)
            /\ ResultOf(c, n) \in DOMAIN dir
            /\ pc # "idle" => mem.initialized /\ Src = ResultOf(c, n)
<1> DEFINE c == component
<1> DEFINE n == Made(mem)
<1>1. /\ LoopProgress /\ LoopTrails /\ mem = disk /\ disk \in ProgressOver(Index)
      /\ pc # "idle" => disk.initialized
      /\ pc \in LoopPlaces
  BY LoopFacts DEF LoopType
<1>2. Course(c, mem, pc, dispatcher, forced) /\ LastThere(c, mem, DOMAIN dir)
      /\ (forced = "no" => Yield(c, mem, pc, dir, child))
  BY DEF Unbroken
<1>3. n \in Nat BY <1>1 DEF Made, ProgressOver
<1>4. ~IsOver(mem) BY <1>1 DEF IsOver, Over
<1>5. n = 0 \/ n \in TripsOf(c) BY <1>2 DEF Course
<1>6. ResultOf(c, n) \in DOMAIN dir BY <1>2, <1>4 DEF LastThere
<1>7. ASSUME pc # "idle" PROVE Src = ResultOf(c, n)
  <2>1. mem.prevIndex = BeforeOf(c, n + 1) BY <1>1, <1>2, <1>7 DEF Course, LoopPlaces, OnTrip
  <2>2. CASE n = 0
    <3>1. mem.prevIndex = Undefined BY <2>1, <2>2 DEF BeforeOf
    <3>2. mem.currentIndex = firstIndex BY <1>1, <1>7, <3>1 DEF LoopProgress
    <3> QED BY <2>2, <3>1, <3>2, SourceOfTrip DEF ResultOf
  <2>3. CASE n # 0
    <3> HIDE DEF n
    <3>1. n + 1 # 1 /\ (n + 1) - 1 = n BY <1>3, <2>3
    <3>2. mem.prevIndex = NthOf(c, n) BY <2>1, <3>1 DEF BeforeOf
    <3>3. NthOf(c, n) \in Index BY <1>5, <2>3, NthFacts
    <3> QED BY <2>3, <3>2, <3>3, SourceOfTrip DEF ResultOf
  <2> QED BY <2>2, <2>3
<1> QED BY <1>1, <1>2, <1>3, <1>4, <1>5, <1>6, <1>7

\* Before its first trip a loop has not anything.
LEMMA NothingYet ==
  ASSUME RunType, LoopInv, ~Over, Type \in Loop, IsOrdered, Unbroken, cut = "none", ~mem.initialized
  PROVE  Made(mem) = 0 /\ ~mem.hasFaild /\ mem.state = "not-started" /\ pc = "idle"
         /\ Yields(component, dir[Template], 0, FALSE)
<1>1. /\ LoopProgress /\ LoopTrails /\ mem = disk BY LoopFacts
<1>2. Course(component, mem, pc, dispatcher, forced) /\ ~IsOver(mem) BY CourseFacts
<1>3. Made(mem) = 0 /\ ~mem.hasFaild /\ mem.state = "not-started" BY <1>2 DEF Course
<1>4. dir[Template].trail = <<>> BY <1>1 DEF LoopTrails
<1>5. FirstOf(component, 0 * NTask) = <<>>
  <2>1. 0 * NTask = 0 BY CountAssumption
  <2> QED BY <2>1 DEF FirstOf
<1> QED BY <1>1, <1>3, <1>4, <1>5 DEF Yields, LoopProgress

\* The loop is run for the first time.
LEMMA StandsRun ==
  ASSUME RunType, LoopInv, ~Over, Type \in Loop, IsOrdered, Unbroken, cut = "none", ~Unwary, Run
  PROVE  /\ Stands(component, mem', pc', dispatcher', forced', dir', child')
         /\ KeptExactly => KeptDirs(component, mem', pc', DOMAIN dir')
<1>1. /\ Course(component, mem, pc, dispatcher, forced) /\ mem = disk /\ ~IsOver(mem)
      /\ ResultOf(component, Made(mem)) \in DOMAIN dir
  BY CourseFacts
<1>2. /\ UNCHANGED <<dir, child, pc>> /\ mem' = mem /\ pc = "idle"
      /\ forced' = "no" /\ dispatcher' = "running" /\ dispatcher = "gone"
  BY <1>1 DEF Run
<1>3. ~mem.initialized BY <1>1, <1>2 DEF Course
<1>4. /\ Made(mem) = 0 /\ ~mem.hasFaild /\ mem.state = "not-started"
      /\ Yields(component, dir[Template], 0, FALSE)
  BY <1>3, NothingYet
<1>5. Course(component, mem', pc', dispatcher', forced')
  BY <1>1, <1>2, <1>3, <1>4 DEF Course, OnTrip
<1>6. LastThere(component, mem', DOMAIN dir') BY <1>1, <1>2 DEF LastThere
<1>7. Yield(component, mem, "idle", dir, child)
  <2>1. ResultOf(component, Made(mem)) = Template BY <1>4 DEF ResultOf
  <2>2. Yields(component, dir[Template], Made(mem), mem.hasFaild) BY <1>4 DEF Yields
  <2> QED BY <1>1, <2>1, <2>2 DEF Yield
<1>8. KeptExactly => KeptDirs(component, mem', pc', DOMAIN dir') BY <1>2 DEF KeptExactly
<1> QED BY <1>2, <1>5, <1>6, <1>7, <1>8 DEF Stands

\* The handler goes to the first trip, to the next, or to the end.
LEMMA StandsHandled ==
  ASSUME RunType, LoopInv, ~Over, Type \in Loop, IsOrdered, Unbroken, cut = "none", _loopHandler
  PROVE  /\ Stands(component, mem', pc', dispatcher', forced', dir', child')
         /\ KeptExactly => KeptDirs(component, mem', pc', DOMAIN dir')
<1> DEFINE c == component
<1> DEFINE n == Made(mem)
<1> DEFINE m == IF mem.initialized THEN Advance ELSE loopInitialize
<1>1. /\ UNCHANGED <<component, dir, child, dispatcher, forced>>
      /\ pc = "idle" /\ dispatcher # "gone" /\ mem' = m
      /\ \/ pc' = "copy" /\ ~isFinished(m.currentIndex)
         \/ /\ pc' = "finalize"
            /\ forced = "yes" \/ isFinished(m.currentIndex) \/ Type = "while"
  BY DEF _loopHandler, Handled, Write
<1>2. /\ Course(c, mem, pc, dispatcher, forced) /\ (forced = "no" => Yield(c, mem, pc, dir, child))
      /\ n \in Nat /\ ~IsOver(mem) /\ mem = disk /\ mem \in ProgressOver(Index)
      /\ n = 0 \/ n \in TripsOf(c)
      /\ ResultOf(c, n) \in DOMAIN dir
  BY CourseFacts
<1>3. LoopProgress BY LoopFacts
<1>4. /\ 1 \in TripsOf(c) /\ NthOf(c, 1) = firstIndex
      /\ \A k \in TripsOf(c) : /\ isFinished(getNextIndex(NthOf(c, k))) <=> k + 1 \notin TripsOf(c)
                               /\ k + 1 \in TripsOf(c) => getNextIndex(NthOf(c, k)) = NthOf(c, k + 1)
  BY NthFacts
<1>5. /\ m.state = "running" /\ m.initialized /\ m.hasFaild = mem.hasFaild /\ Made(m) = n
      /\ m.prevIndex = BeforeOf(c, n + 1)
      /\ pc' = "copy" => n + 1 \in TripsOf(c) /\ m.currentIndex = NthOf(c, n + 1)
      /\ pc' = "finalize" => Through(c, n, forced)
  <2>1. CASE ~mem.initialized
    <3>1. n = 0 BY <2>1, NothingYet
    <3>2. m = [mem EXCEPT !.state = "running", !.initialized = TRUE, !.currentIndex = firstIndex,
                          !.numFinished = 0, !.numFailed = 0]
      BY <2>1 DEF loopInitialize
    <3>3. /\ m.state = "running" /\ m.initialized /\ m.hasFaild = mem.hasFaild
          /\ m.prevIndex = mem.prevIndex /\ m.currentIndex = firstIndex
          /\ m.numFinished = 0 /\ m.numFailed = 0
      BY <1>2, <3>2 DEF ProgressOver
    <3>4. mem.prevIndex = Undefined /\ forced = "no" BY <1>1, <1>2, <1>3, <2>1 DEF LoopProgress
    <3> HIDE DEF m
    <3>5. Made(m) = 0 BY <3>3 DEF Made
    <3>6. Made(m) = n /\ m.prevIndex = BeforeOf(c, n + 1) /\ m.currentIndex = NthOf(c, n + 1)
          /\ n + 1 \in TripsOf(c)
      BY <1>4, <3>1, <3>3, <3>4, <3>5 DEF BeforeOf
    <3>7. pc' = "finalize" => Through(c, n, forced)
      <4>1. ~isFinished(firstIndex) BY FirstIsRun
      <4> QED BY <1>1, <3>3, <3>4, <4>1 DEF Through, Type
    <3> QED BY <3>3, <3>6, <3>7
  <2>2. CASE mem.initialized
    <3> DEFINE next == getNextIndex(mem.currentIndex)
    <3>1. n # 0 /\ mem.currentIndex = NthOf(c, n) BY <1>1, <1>2, <2>2 DEF Course
    <3>2. m = [mem EXCEPT !.state = "running", !.prevIndex = mem.currentIndex, !.currentIndex = next]
      BY <2>2 DEF Advance
    <3> HIDE DEF next
    <3>3. /\ m.state = "running" /\ m.initialized /\ m.hasFaild = mem.hasFaild
          /\ m.prevIndex = mem.currentIndex /\ m.currentIndex = next
          /\ m.numFinished = mem.numFinished /\ m.numFailed = mem.numFailed
      BY <1>2, <2>2, <3>2 DEF ProgressOver
    <3> HIDE DEF m
    <3>4. Made(m) = n BY <3>3 DEF Made
    <3>5. m.prevIndex = BeforeOf(c, n + 1)
      <4> HIDE DEF n
      <4>1. n + 1 # 1 /\ (n + 1) - 1 = n BY <1>2, <3>1
      <4> QED BY <3>1, <3>3, <4>1 DEF BeforeOf
    <3>6. n \in TripsOf(c) BY <1>2, <3>1
    <3>7. /\ isFinished(next) <=> n + 1 \notin TripsOf(c)
          /\ n + 1 \in TripsOf(c) => next = NthOf(c, n + 1)
      BY <1>4, <3>1, <3>6 DEF next
    <3>8. pc' = "copy" => n + 1 \in TripsOf(c) /\ m.currentIndex = NthOf(c, n + 1)
      BY <1>1, <3>3, <3>7
    <3>9. pc' = "finalize" => Through(c, n, forced)
      BY <1>1, <3>1, <3>3, <3>7 DEF Through, Type
    <3> QED BY <3>3, <3>4, <3>5, <3>8, <3>9
  <2> QED BY <2>1, <2>2
<1> HIDE DEF m
<1>6. ~IsOver(m) BY <1>5 DEF IsOver
<1>7. Course(c, m, pc', dispatcher, forced)
  BY <1>1, <1>2, <1>5, <1>6 DEF Course, OnTrip
<1>8. LastThere(c, m, DOMAIN dir) BY <1>2, <1>5 DEF LastThere
<1>9. ASSUME forced = "no" PROVE Yield(c, m, pc', dir, child)
  <2>1. Yields(c, dir[ResultOf(c, n)], n, mem.hasFaild) BY <1>1, <1>2, <1>9 DEF Yield
  <2> QED BY <1>1, <1>5, <1>6, <2>1 DEF Yield
<1>10. ASSUME KeptExactly PROVE KeptDirs(c, m, pc', DOMAIN dir)
  <2>1. KeptDirs(c, mem, pc, DOMAIN dir) BY <1>10 DEF KeptExactly
  <2> QED BY <1>1, <1>2, <1>5, <1>6, <2>1 DEF KeptDirs
<1> QED BY <1>1, <1>7, <1>8, <1>9, <1>10 DEF Stands

\* The directory of a trip is made, ...
LEMMA StandsCopied ==
  ASSUME RunType, LoopInv, ~Over, Type \in Loop, IsOrdered, Unbroken, cut = "none", CopyTrip
  PROVE  /\ Stands(component, mem', pc', dispatcher', forced', dir', child')
         /\ KeptExactly => KeptDirs(component, mem', pc', DOMAIN dir')
<1> DEFINE c == component
<1> DEFINE n == Made(mem)
<1> DEFINE i == mem.currentIndex
<1>1. /\ UNCHANGED <<mem, child, dispatcher, forced>> /\ pc = "copy" /\ pc' = "reset"
      /\ dir' = Put(dir, i, dir[Src])
  BY DEF CopyTrip
<1>2. /\ Course(c, mem, pc, dispatcher, forced) /\ (forced = "no" => Yield(c, mem, pc, dir, child))
      /\ n \in Nat /\ ~IsOver(mem)
      /\ ResultOf(c, n) \in DOMAIN dir /\ Src = ResultOf(c, n)
  BY <1>1, CourseFacts
<1>3. i = NthOf(c, n + 1) /\ n + 1 \in TripsOf(c) BY <1>1, <1>2 DEF Course, OnTrip
<1>4. DOMAIN dir' = DOMAIN dir \cup {i} /\ dir'[i] = dir[ResultOf(c, n)]
  BY <1>1, <1>2 DEF Put
<1>5. Course(c, mem, "reset", dispatcher, forced) BY <1>1, <1>2 DEF Course, OnTrip
<1>6. LastThere(c, mem, DOMAIN dir') BY <1>2, <1>4 DEF LastThere
<1>7. ASSUME forced = "no" PROVE Yield(c, mem, "reset", dir', child)
  <2>1. Yields(c, dir[ResultOf(c, n)], n, mem.hasFaild) BY <1>1, <1>2, <1>7 DEF Yield
  <2> QED BY <1>2, <1>3, <1>4, <2>1 DEF Yield
<1>8. ASSUME KeptExactly PROVE KeptDirs(c, mem, "reset", DOMAIN dir')
  <2>1. KeptDirs(c, mem, "copy", DOMAIN dir) BY <1>1, <1>8 DEF KeptExactly
  <2> QED BY <1>2, <1>3, <1>4, <2>1 DEF KeptDirs
<1> QED BY <1>1, <1>5, <1>6, <1>7, <1>8 DEF Stands

\* ... its tasks are taken up, ...
LEMMA StandsDelegated ==
  ASSUME RunType, LoopInv, ~Over, Type \in Loop, IsOrdered, Unbroken, cut = "none", DelegateTrip
  PROVE  /\ Stands(component, mem', pc', dispatcher', forced', dir', child')
         /\ KeptExactly => KeptDirs(component, mem', pc', DOMAIN dir')
<1> DEFINE c == component
<1> DEFINE n == Made(mem)
<1> DEFINE i == mem.currentIndex
<1>1. /\ UNCHANGED <<mem, dispatcher, forced>> /\ pc = "reset" /\ pc' = "trip"
      /\ dir' = [dir EXCEPT ![i] = ResetTrip(i)]
      /\ child' = [d \in {i} |-> NewChild(ResetTrip(i))]
  BY DEF DelegateTrip
<1>2. /\ Course(c, mem, pc, dispatcher, forced) /\ (forced = "no" => Yield(c, mem, pc, dir, child))
      /\ n \in Nat /\ ~IsOver(mem) /\ mem = disk
      /\ ResultOf(c, n) \in DOMAIN dir
  BY <1>1, CourseFacts
<1>3. i = NthOf(c, n + 1) /\ n + 1 \in TripsOf(c) BY <1>1, <1>2 DEF Course, OnTrip
<1>4. i \in DOMAIN dir /\ dir[i] \in DirectoryOver(Index \cup {Template})
  <2>1. /\ LoopProgress /\ \A d \in DOMAIN dir : dir[d] \in DirectoryOver(Index \cup {Template})
    BY LoopFacts
  <2> QED BY <1>1, <1>2, <2>1 DEF LoopProgress
<1>5. DOMAIN dir' = DOMAIN dir /\ dir'[i].trail = dir[i].trail
  BY <1>1, <1>4 DEF ResetTrip, DirectoryOver
<1>6. child'[i].left = 1..NTask /\ child'[i].state = "running" /\ child'[i].failed = FALSE
  <2>1. ResetTrip(i).tasks = NotStarted BY <1>4 DEF ResetTrip, DirectoryOver
  <2>2. \A t \in Task : ResetTrip(i).tasks[t] # "finished" BY <2>1 DEF NotStarted
  <2>3. child'[i] = NewChild(ResetTrip(i)) BY <1>1
  <2> HIDE DEF i
  <2>4. {t \in Task : ResetTrip(i).tasks[t] # "finished"} = Task BY <2>2
  <2> QED BY <2>3, <2>4, NewChildType DEF Task
<1>7. Course(c, mem, "trip", dispatcher, forced) BY <1>1, <1>2 DEF Course, OnTrip
<1>8. LastThere(c, mem, DOMAIN dir') BY <1>2, <1>5 DEF LastThere
<1>9. ASSUME forced = "no" PROVE Yield(c, mem, "trip", dir', child')
  <2> DEFINE bad == mem.hasFaild
  <2>1. Yields(c, dir[i], n, bad) BY <1>1, <1>2, <1>3, <1>9 DEF Yield
  <2>2. Yields(c, dir'[i], n, bad) BY <1>5, <2>1, SameResults
  <2> HIDE DEF bad, n, i
  <2>3. NTask \in Nat \ {0} BY CountAssumption
  <2>4. 0 \in 0..NTask /\ child'[i].left = (0 + 1)..NTask BY <1>6, <2>3
  <2>5. ASSUME bad PROVE Misses(c, dir'[i], n + 1, child'[i].left)
    <3>1. Misses(c, dir'[i], n, {}) BY <2>2, <2>5 DEF Yields
    <3> QED BY <1>2, <3>1, MissesMore
  <2>6. ASSUME ~bad PROVE dir'[i].trail = FirstOf(c, n * NTask + 0)
    <3>1. dir'[i].trail = FirstOf(c, n * NTask) BY <2>2, <2>6 DEF Yields
    <3>2. n * NTask \in Nat BY <1>2, <2>3
    <3> DEFINE w == n * NTask
    <3>3. w = w + 0 BY <3>2
    <3> QED BY <3>1, <3>3
  <2>7. RunningYields(c, dir'[i], n, bad, child'[i]) BY <1>6, <2>4, <2>5, <2>6 DEF RunningYields
  <2> QED BY <1>2, <1>3, <2>7 DEF Yield, bad, n, i
<1>10. ASSUME KeptExactly PROVE KeptDirs(c, mem, "trip", DOMAIN dir')
  <2>1. KeptDirs(c, mem, "reset", DOMAIN dir) BY <1>1, <1>10 DEF KeptExactly
  <2> QED BY <1>2, <1>5, <2>1 DEF KeptDirs
<1> QED BY <1>1, <1>7, <1>8, <1>9, <1>10 DEF Stands

\* One more task of a trip, that of all with its place, has ended.
\* The next task t of directory i ends: x becomes y, the child ch becomes ch2.
EndsNext(x, y, i, ch, ch2, t, result) ==
  /\ ch \in Child /\ ch2 \in Child
  /\ t \in ch.left /\ \A u \in ch.left : t <= u
  /\ ch2.left = ch.left \ {t} /\ ch2.state = ch.state
  /\ ch2.failed <=> ch.failed \/ result = "failed"
  /\ result = "finished" => y.trail = Append(x.trail, <<i, t>>)
  /\ result = "failed" => y.trail = x.trail
  /\ x.trail \in Seq(Range(x.trail)) /\ \A a \in DOMAIN x.trail : x.trail[a] # <<i, t>>

LEMMA TaskYields ==
  ASSUME NEW c, NEW x, NEW y, NEW n \in Nat, NEW bad \in BOOLEAN, NEW ch, NEW ch2,
         NEW t \in Task, NEW result \in {"finished", "failed"},
         RunningYields(c, x, n, bad, ch),
         EndsNext(x, y, NthOf(c, n + 1), ch, ch2, t, result),
         \A j \in 1..n : NthOf(c, j) # NthOf(c, n + 1)
  PROVE  RunningYields(c, y, n, bad, ch2)
<1> USE DEF EndsNext
<1>0. NTask \in Nat \ {0} /\ Task = 1..NTask BY CountAssumption DEF Task
<1>1. PICK done \in 0..NTask :
        /\ ch.left = (done + 1)..NTask
        /\ IF bad \/ ch.failed THEN Misses(c, x, n + 1, ch.left)
           ELSE x.trail = FirstOf(c, n * NTask + done)
  BY DEF RunningYields
<1>2. ch.state = "running" BY DEF RunningYields
<1>3. t = done + 1 /\ done + 1 \in 0..NTask /\ done \in 0..(NTask - 1)
  <2>1. t \in (done + 1)..NTask BY <1>1
  <2>2. done + 1 \in ch.left BY <1>0, <1>1, <2>1
  <2>3. t <= done + 1 BY <2>2
  <2> QED BY <1>0, <2>1, <2>3
<1>4. ch2.left = ((done + 1) + 1)..NTask BY <1>0, <1>1, <1>3
<1>5. ASSUME result = "failed" PROVE Misses(c, y, n + 1, ch2.left)
  <2>1. n + 1 \in 1..(n + 1) /\ t \notin ch2.left /\ y.trail = x.trail BY <1>5
  <2> QED BY <2>1 DEF Misses
<1>6. ASSUME result = "finished", bad \/ ch.failed PROVE Misses(c, y, n + 1, ch2.left)
  <2>1. PICK k \in 1..(n + 1), u \in Task :
          (k = n + 1 => u \notin ch.left) /\ \A a \in DOMAIN x.trail : x.trail[a] # <<NthOf(c, k), u>>
    BY <1>1, <1>6 DEF Misses
  <2>2. <<NthOf(c, n + 1), t>> # <<NthOf(c, k), u>>
    <3>1. CASE k = n + 1 BY <2>1, <3>1
    <3>2. CASE k # n + 1
      <4>1. k \in 1..n BY <3>2
      <4> QED BY <4>1
    <3> QED BY <3>1, <3>2
  <2> DEFINE e == <<NthOf(c, n + 1), t>>
  <2> DEFINE f == <<NthOf(c, k), u>>
  <2>3. \A a \in DOMAIN y.trail : y.trail[a] # f
    <3>1. y.trail = Append(x.trail, e) /\ e # f /\ \A a \in DOMAIN x.trail : x.trail[a] # f
      BY <1>6, <2>1, <2>2
    <3> HIDE DEF e, f
    <3>2. /\ DOMAIN y.trail = 1..(Len(x.trail) + 1) /\ y.trail[Len(x.trail) + 1] = e
          /\ \A a \in 1..Len(x.trail) : a \in DOMAIN x.trail /\ y.trail[a] = x.trail[a]
          /\ Len(x.trail) \in Nat
      BY <3>1
    <3> QED BY <3>1, <3>2
  <2>4. k = n + 1 => u \notin ch2.left BY <2>1
  <2> QED BY <2>3, <2>4 DEF Misses
<1>7. ASSUME result = "finished", ~bad, ~ch.failed PROVE y.trail = FirstOf(c, n * NTask + (done + 1))
  <2>1. x.trail = FirstOf(c, n * NTask + done) BY <1>1, <1>7
  <2>2. y.trail = Append(x.trail, <<NthOf(c, n + 1), done + 1>>) BY <1>3, <1>7
  <2>3. /\ n * NTask + done \in Nat
        /\ EntryOf(c, (n * NTask + done) + 1) = <<NthOf(c, n + 1), done + 1>>
    BY <1>3, EntryIs
  <2> DEFINE w == n * NTask
  <2> DEFINE v == w + done
  <2>4. n * NTask + (done + 1) = v + 1
    <3>1. w \in Nat BY <1>0
    <3> HIDE DEF w
    <3>2. w + (done + 1) = (w + done) + 1 BY <1>3, <3>1
    <3> QED BY <3>2 DEF w
  <2>5. x.trail = FirstOf(c, v) /\ v \in Nat /\ EntryOf(c, v + 1) = <<NthOf(c, n + 1), done + 1>>
    BY <2>1, <2>3
  <2> HIDE DEF v
  <2>6. Append(FirstOf(c, v), EntryOf(c, v + 1)) = FirstOf(c, v + 1) BY <2>5, FirstGrows
  <2> QED BY <2>2, <2>4, <2>5, <2>6
<1>8. IF bad \/ ch2.failed THEN Misses(c, y, n + 1, ch2.left)
      ELSE y.trail = FirstOf(c, n * NTask + (done + 1))
  <2>1. CASE result = "failed" BY <1>5, <2>1
  <2>2. CASE result = "finished"
    <3>1. ch2.failed <=> ch.failed BY <2>2 DEF Child
    <3>2. CASE bad \/ ch.failed BY <1>6, <2>2, <3>1, <3>2
    <3>3. CASE ~(bad \/ ch.failed) BY <1>7, <2>2, <3>1, <3>3
    <3> QED BY <3>2, <3>3
  <2> QED BY <2>1, <2>2
<1> QED BY <1>2, <1>3, <1>4, <1>8 DEF RunningYields

\* ... each of them ends, ...
LEMMA StandsTask ==
  ASSUME RunType, LoopInv, ~Over, Type \in Loop, IsOrdered, Unbroken, cut = "none",
         NEW t \in Task, NEW result \in {"finished", "failed"}, TaskEnds(disk.currentIndex, t, result)
  PROVE  /\ Stands(component, mem', pc', dispatcher', forced', dir', child')
         /\ KeptExactly => KeptDirs(component, mem', pc', DOMAIN dir')
<1> DEFINE c == component
<1> DEFINE n == Made(mem)
<1> DEFINE i == mem.currentIndex
<1>1. /\ LoopType /\ LoopProgress /\ LoopTrails /\ mem = disk
      /\ \A d \in DOMAIN dir : dir[d] \in DirectoryOver(Index \cup {Template})
  BY LoopFacts
<1>2. /\ UNCHANGED <<mem, pc, dispatcher, forced>> /\ TaskEnds(i, t, result)
      /\ i \in DOMAIN child /\ t \in child[i].left /\ \A u \in child[i].left : t <= u
  BY <1>1 DEF TaskEnds
<1>3. pc = "trip" /\ i \in DOMAIN dir BY <1>1, <1>2 DEF LoopType, LoopProgress
<1>4. /\ Course(c, mem, pc, dispatcher, forced) /\ (forced = "no" => Yield(c, mem, pc, dir, child))
      /\ n \in Nat /\ ~IsOver(mem) /\ mem \in ProgressOver(Index)
      /\ n = 0 \/ n \in TripsOf(c)
      /\ ResultOf(c, n) \in DOMAIN dir
  BY <1>3, CourseFacts
<1>5. i = NthOf(c, n + 1) /\ n + 1 \in TripsOf(c) BY <1>3, <1>4 DEF Course, OnTrip
<1>6. Noted(i, t, result) /\ ChildType'
  <2> DEFINE N == Index \cup {Template}
  <2>1. DirOver(N) /\ ChildType BY <1>1 DEF LoopType
  <2>2. i \in DOMAIN child /\ TaskEnds(i, t, result) BY <1>2
  <2> HIDE DEF N, i
  <2>3. DOMAIN dir' \subseteq N /\ dir' \in [DOMAIN dir' -> DirectoryOver(N)] /\ ChildType' /\ Noted(i, t, result)
    BY <2>1, <2>2, TaskEndsType DEF DirOver
  <2> QED BY <2>3
<1>7. /\ DOMAIN dir' = DOMAIN dir
      /\ child'[i].left = child[i].left \ {t} /\ child'[i].state = child[i].state
      /\ child'[i].failed = (child[i].failed \/ result = "failed")
      /\ result = "finished" => dir'[i].trail = Append(dir[i].trail, <<i, t>>)
      /\ result = "failed" => dir'[i].trail = dir[i].trail
      /\ DOMAIN child' = DOMAIN child
  BY <1>6 DEF Noted
<1>8. child[i] \in Child /\ child'[i] \in Child
  <2>1. ChildType BY <1>1 DEF LoopType
  <2> QED BY <1>2, <1>6, <1>7, <2>1 DEF ChildType
<1>9. LastThere(c, mem, DOMAIN dir') BY <1>4, <1>7 DEF LastThere
<1>10. ASSUME forced = "no" PROVE Yield(c, mem, pc, dir', child')
  <2> DEFINE x == dir[i]
  <2> DEFINE y == dir'[i]
  <2> DEFINE ch == child[i]
  <2> DEFINE ch2 == child'[i]
  <2> DEFINE bad == mem.hasFaild
  <2>1. RunningYields(c, x, n, bad, ch) BY <1>3, <1>4, <1>5, <1>10 DEF Yield
  <2>2. bad \in BOOLEAN BY <1>4 DEF ProgressOver
  <2>3. \A a \in DOMAIN x.trail : x.trail[a] # <<NthOf(c, n + 1), t>>
    <3>1. Within(x, i, ch.left) BY <1>1, <1>3 DEF LoopTrails
    <3>2. Place(i) \in Int
      <4>1. i \in Index BY <1>5, NthFacts
      <4> QED BY <4>1, LoopNames
    <3>3. ASSUME NEW a \in DOMAIN x.trail, x.trail[a] = <<i, t>> PROVE FALSE
      <4>1. x.trail[a][1] = i /\ x.trail[a][2] = t BY <3>3
      <4>2. Place(x.trail[a][1]) < Place(i) \/ x.trail[a][2] \notin ch.left BY <3>1 DEF Within
      <4> QED BY <1>2, <3>2, <4>1, <4>2
    <3> QED BY <1>5, <3>3
  <2>4. x.trail \in Seq(Range(x.trail))
    <3>1. x.trail \in Seq((Index \cup {Template}) \X Task) BY <1>1, <1>3 DEF DirectoryOver
    <3> QED BY <3>1 DEF Range
  <2>5. \A j \in 1..n : NthOf(c, j) # NthOf(c, n + 1)
    <3>1. ASSUME NEW j \in 1..n PROVE NthOf(c, j) # NthOf(c, n + 1)
      <4>1. j \in 1..(n + 1) /\ j # n + 1 BY <1>4
      <4>2. j \in TripsOf(c) BY <1>5, <4>1, NthFacts
      <4> QED BY <1>5, <4>1, <4>2, NthFacts
    <3> QED BY <3>1
  <2>6. /\ ch \in Child /\ ch2 \in Child /\ t \in ch.left /\ \A u \in ch.left : t <= u
        /\ ch2.left = ch.left \ {t} /\ ch2.state = ch.state
        /\ ch2.failed <=> ch.failed \/ result = "failed"
        /\ result = "finished" => y.trail = Append(x.trail, <<NthOf(c, n + 1), t>>)
        /\ result = "failed" => y.trail = x.trail
    BY <1>2, <1>5, <1>7, <1>8
  <2>8. EndsNext(x, y, NthOf(c, n + 1), ch, ch2, t, result)
    <3> HIDE DEF n, i, x, y, ch, ch2
    <3> QED BY <2>3, <2>4, <2>6 DEF EndsNext
  <2> HIDE DEF n, i, x, y, ch, ch2, bad
  <2>7. RunningYields(c, y, n, bad, ch2)
    BY <1>4, <2>1, <2>2, <2>5, <2>8, TaskYields
  <2> QED BY <1>3, <1>4, <1>5, <2>7 DEF Yield, n, i, y, ch2, bad
<1>11. KeptExactly => KeptDirs(c, mem, pc, DOMAIN dir') BY <1>7 DEF KeptExactly
<1> QED BY <1>2, <1>4, <1>9, <1>10, <1>11 DEF Stands

\* ... the trip is over, ...
LEMMA StandsTripEnded ==
  ASSUME RunType, LoopInv, ~Over, Type \in Loop, IsOrdered, Unbroken, cut = "none", TripEnds
  PROVE  /\ Stands(component, mem', pc', dispatcher', forced', dir', child')
         /\ KeptExactly => KeptDirs(component, mem', pc', DOMAIN dir')
<1> DEFINE c == component
<1> DEFINE n == Made(mem)
<1> DEFINE i == mem.currentIndex
<1>1. /\ UNCHANGED <<mem, dispatcher, forced>> /\ pc = "trip" /\ pc' = "ended" /\ child[i].left = {}
      /\ dir' = [dir EXCEPT ![i].state = Outcome(child[i])]
  BY DEF TripEnds, Done
<1>2. /\ Course(c, mem, pc, dispatcher, forced) /\ (forced = "no" => Yield(c, mem, pc, dir, child))
      /\ n \in Nat /\ ~IsOver(mem) /\ mem \in ProgressOver(Index) /\ mem = disk
      /\ ResultOf(c, n) \in DOMAIN dir
  BY <1>1, CourseFacts
<1>3. i = NthOf(c, n + 1) /\ n + 1 \in TripsOf(c) BY <1>1, <1>2 DEF Course, OnTrip
<1>4. i \in DOMAIN dir /\ dir[i] \in DirectoryOver(Index \cup {Template}) /\ child[i] \in Child
  <2>1. /\ LoopType /\ LoopProgress /\ \A d \in DOMAIN dir : dir[d] \in DirectoryOver(Index \cup {Template})
    BY LoopFacts
  <2> QED BY <1>1, <1>2, <2>1 DEF LoopProgress, LoopType, ChildType
<1>5. DOMAIN dir' = DOMAIN dir /\ dir'[i].trail = dir[i].trail /\ dir'[i].state = Outcome(child[i])
  BY <1>1, <1>4 DEF DirectoryOver
<1>6. Course(c, mem, "ended", dispatcher, forced) BY <1>1, <1>2 DEF Course, OnTrip
<1>7. LastThere(c, mem, DOMAIN dir') BY <1>2, <1>5 DEF LastThere
<1>8. ASSUME forced = "no" PROVE Yield(c, mem, "ended", dir', child')
  <2> DEFINE ch == child[i]
  <2> DEFINE x == dir[i]
  <2> DEFINE y == dir'[i]
  <2> DEFINE bad == mem.hasFaild
  <2> DEFINE ill == bad \/ y.state = "failed"
  <2>0. NTask \in Nat \ {0} BY CountAssumption
  <2>1. RunningYields(c, x, n, bad, ch) BY <1>1, <1>2, <1>3, <1>8 DEF Yield
  <2>2. ch \in Child /\ ch.left = {} /\ y.state = Outcome(ch) /\ y.trail = x.trail BY <1>1, <1>4, <1>5
  <2> HIDE DEF ch, x, y, bad, n, i
  <2>3. PICK done \in 0..NTask :
          /\ ch.state = "running" /\ ch.left = (done + 1)..NTask
          /\ IF bad \/ ch.failed THEN Misses(c, x, n + 1, ch.left)
             ELSE x.trail = FirstOf(c, n * NTask + done)
    BY <2>1 DEF RunningYields
  <2>4. done = NTask
    <3>1. (done + 1)..NTask = {} BY <2>2, <2>3
    <3>2. done < NTask => done + 1 \in (done + 1)..NTask BY <2>0
    <3> QED BY <2>0, <3>1, <3>2
  <2>5. y.state = "failed" <=> ch.failed
    <3>1. pause(ch, FALSE).state = _getState(ch, FALSE) BY <2>2, <2>3, PauseType
    <3> QED BY <2>2, <3>1 DEF Outcome, _getState
  <2>6. IF ill THEN Misses(c, y, n + 1, {}) ELSE y.trail = FirstOf(c, (n + 1) * NTask)
    <3>1. CASE ill
      <4>1. Misses(c, x, n + 1, {}) BY <2>2, <2>3, <2>5, <3>1
      <4> QED BY <2>2, <3>1, <4>1, SameResults
    <3>2. CASE ~ill
      <4>1. x.trail = FirstOf(c, n * NTask + NTask) BY <2>3, <2>4, <2>5, <3>2
      <4>2. n * NTask + NTask = (n + 1) * NTask BY <1>2, <2>0
      <4> QED BY <2>2, <3>2, <4>1, <4>2
    <3> QED BY <3>1, <3>2
  <2> HIDE DEF ill
  <2>7. Yields(c, y, n + 1, ill) BY <2>6 DEF Yields
  <2> QED BY <1>2, <1>3, <2>7 DEF Yield, n, i, y, bad, ill
<1>9. ASSUME KeptExactly PROVE KeptDirs(c, mem, "ended", DOMAIN dir')
  <2>1. KeptDirs(c, mem, "trip", DOMAIN dir) BY <1>1, <1>9 DEF KeptExactly
  <2> QED BY <1>2, <1>5, <2>1 DEF KeptDirs
<1> QED BY <1>1, <1>6, <1>7, <1>8, <1>9 DEF Stands

\* The instances kept, one by one.
LEMMA KeptIs ==
  ASSUME NEW c, NEW n \in Nat, c.keep \in Nat \cup {Null}
  PROVE  \A x : x \in KeptOf(c, n) <=>
           \E j \in 1..n : /\ x = NthOf(c, j)
                           /\ c.keep # Null => j > n - (IF c.keep = 0 THEN 1 ELSE c.keep)
<1>1. CASE c.keep = Null
  <2>1. KeptOf(c, n) = {NthOf(c, k) : k \in {j \in 1..n : j > n - n}} BY <1>1 DEF KeptOf
  <2>2. {j \in 1..n : j > n - n} = 1..n OBVIOUS
  <2> QED BY <1>1, <2>1, <2>2
<1>2. CASE c.keep # Null
  <2> DEFINE w == IF c.keep = 0 THEN 1 ELSE c.keep
  <2>1. KeptOf(c, n) = {NthOf(c, k) : k \in {j \in 1..n : j > n - w}} BY <1>2 DEF KeptOf
  <2> HIDE DEF w
  <2>2. \A x : x \in KeptOf(c, n) <=> \E j \in 1..n : x = NthOf(c, j) /\ j > n - w BY <2>1
  <2> QED BY <1>2, <2>2 DEF w
<1> QED BY <1>1, <1>2

\* One more trip, and what is obsolete after it is gone.
LEMMA KeptNext ==
  ASSUME RunType, Type \in Loop, IsOrdered, NotNegative, NEW n \in Nat, n + 1 \in TripsOf(component),
         NEW src, src = ResultOf(component, n), NEW S, S = Obsolete(NthOf(component, n + 1), src)
  PROVE  (KeptOf(component, n) \cup {NthOf(component, n + 1)}) \ S = KeptOf(component, n + 1)
<1> DEFINE c == component
<1> DEFINE keep == component.keep
<1> DEFINE Nth(j) == NthOf(component, j)
<1> DEFINE A == KeptOf(component, n)
<1> DEFINE B == KeptOf(component, n + 1)
<1>1. keep \in Nat \cup {Null} /\ Null \notin Int /\ Template \notin Index /\ n + 1 \in Nat
  <2>1. c \in Component /\ c.type = Type BY DEF RunType, Type
  <2>2. keep \in Nat \cup {Null} BY <2>1, ComponentAssumption
  <2>3. Null \notin Int BY NameAssumption
  <2> QED BY <2>2, <2>3, LoopNames
<1>2. /\ \A j \in 1..(n + 1) : j \in TripsOf(component) /\ Nth(j) \in Index
      /\ \A j, k \in 1..(n + 1) : Nth(j) = Nth(k) => j = k
  BY NthFacts
<1>3. \A x : x \in A <=> \E j \in 1..n : /\ x = Nth(j)
                                         /\ keep # Null => j > n - (IF keep = 0 THEN 1 ELSE keep)
  BY <1>1, KeptIs
<1>4. \A x : x \in B <=> \E j \in 1..(n + 1) : /\ x = Nth(j)
                                               /\ keep # Null => j > (n + 1) - (IF keep = 0 THEN 1 ELSE keep)
  BY <1>1, KeptIs
<1>5. /\ keep = Null => S = {}
      /\ keep = 0 => S = {src} \ {Template}
      /\ keep \notin {Null, 0} => \A j \in 1..(n + 1) : Nth(j) \in S <=> j = (n + 1) - keep
  BY ObsoleteIs
<1>6. src = IF n = 0 THEN Template ELSE Nth(n) BY DEF ResultOf
<1> HIDE DEF keep, Nth, A, B
<1>7. CASE keep = Null
  <2>1. \A x : x \in A <=> \E j \in 1..n : x = Nth(j) BY <1>3, <1>7
  <2>2. \A x : x \in B <=> \E j \in 1..(n + 1) : x = Nth(j) BY <1>4, <1>7
  <2>3. \A j : j \in 1..(n + 1) <=> j \in 1..n \/ j = n + 1 OBVIOUS
  <2> QED BY <1>5, <1>7, <2>1, <2>2, <2>3 DEF A, B, Nth
<1>8. CASE keep = 0
  <2>1. \A x : x \in A <=> n # 0 /\ x = Nth(n)
    <3>1. \A j \in 1..n : j > n - 1 <=> j = n OBVIOUS
    <3>2. n # 0 => n \in 1..n OBVIOUS
    <3>3. \A x : x \in A <=> \E j \in 1..n : x = Nth(j) /\ j > n - 1 BY <1>1, <1>3, <1>8
    <3>4. n = 0 => 1..n = {} OBVIOUS
    <3> QED BY <3>1, <3>2, <3>3, <3>4
  <2>2. \A x : x \in B <=> x = Nth(n + 1)
    <3>1. \A j \in 1..(n + 1) : j > (n + 1) - 1 <=> j = n + 1 OBVIOUS
    <3>2. n + 1 \in 1..(n + 1) OBVIOUS
    <3>3. \A x : x \in B <=> \E j \in 1..(n + 1) : x = Nth(j) /\ j > (n + 1) - 1 BY <1>1, <1>4, <1>8
    <3> QED BY <3>1, <3>2, <3>3
  <2>3. Nth(n + 1) \notin S
    <3>1. n + 1 \in 1..(n + 1) BY <1>1
    <3>2. CASE n = 0 BY <1>5, <1>6, <1>8, <3>2
    <3>3. CASE n # 0
      <4>1. n \in 1..(n + 1) /\ n # n + 1 BY <3>3
      <4>2. Nth(n) # Nth(n + 1) BY <1>2, <3>1, <4>1
      <4> QED BY <1>5, <1>6, <1>8, <3>3, <4>2
    <3> QED BY <3>2, <3>3
  <2>4. \A x \in A : x \in S
    <3>1. ASSUME n # 0 PROVE Nth(n) \in Index
      <4>1. n \in 1..(n + 1) BY <3>1
      <4> QED BY <1>2, <4>1
    <3> QED BY <1>1, <1>5, <1>6, <1>8, <2>1, <3>1
  <2>5. (A \cup {Nth(n + 1)}) \ S = B BY <2>2, <2>3, <2>4
  <2> QED BY <2>5 DEF A, B, Nth
<1>9. CASE keep \notin {Null, 0}
  <2>0. keep \in Nat \ {0} BY <1>1, <1>9
  <2>1. \A x : x \in A <=> \E j \in 1..n : x = Nth(j) /\ j > n - keep BY <1>3, <1>9
  <2>2. \A x : x \in B <=> \E j \in 1..(n + 1) : x = Nth(j) /\ j > (n + 1) - keep BY <1>4, <1>9
  <2>3. \A j \in 1..(n + 1) : Nth(j) \in S <=> j = (n + 1) - keep BY <1>5, <1>9
  <2>4. ASSUME NEW x \in A \cup {Nth(n + 1)}, x \notin S PROVE x \in B
    <3>1. PICK j \in 1..(n + 1) : x = Nth(j) /\ (j > n - keep \/ j = n + 1)
      <4>1. CASE x \in A
        <5>1. PICK j \in 1..n : x = Nth(j) /\ j > n - keep BY <2>1, <4>1
        <5>2. j \in 1..(n + 1) OBVIOUS
        <5> QED BY <5>1, <5>2
      <4>2. CASE x = Nth(n + 1)
        <5>1. n + 1 \in 1..(n + 1) BY <1>1
        <5> QED BY <4>2, <5>1
      <4> QED BY <2>4, <4>1, <4>2
    <3>2. j # (n + 1) - keep BY <2>3, <2>4, <3>1
    <3>3. j > (n + 1) - keep BY <2>0, <3>1, <3>2
    <3> QED BY <2>2, <3>1, <3>3
  <2>5. ASSUME NEW x \in B PROVE x \in A \cup {Nth(n + 1)} /\ x \notin S
    <3>1. PICK j \in 1..(n + 1) : x = Nth(j) /\ j > (n + 1) - keep BY <2>2, <2>5
    <3>2. x \notin S
      <4>1. j # (n + 1) - keep BY <2>0, <3>1
      <4> QED BY <2>3, <3>1, <4>1
    <3>3. CASE j = n + 1 BY <3>1, <3>2, <3>3
    <3>4. CASE j # n + 1
      <4>1. j \in 1..n /\ j > n - keep BY <2>0, <3>1, <3>4
      <4> QED BY <2>1, <3>1, <3>2, <4>1
    <3> QED BY <3>3, <3>4
  <2>6. (A \cup {Nth(n + 1)}) \ S = B BY <2>4, <2>5
  <2> QED BY <2>6 DEF A, B, Nth
<1> QED BY <1>7, <1>8, <1>9

\* ... it is counted, and what is obsolete is removed.
LEMMA StandsTripCounted ==
  ASSUME RunType, LoopInv, ~Over, Type \in Loop, IsOrdered, Unbroken, cut = "none", EndTrip
  PROVE  /\ Stands(component, mem', pc', dispatcher', forced', dir', child')
         /\ KeptExactly /\ NotNegative => KeptDirs(component, mem', pc', DOMAIN dir')
<1> DEFINE c == component
<1> DEFINE n == Made(mem)
<1> DEFINE i == mem.currentIndex
<1> DEFINE S == Obsolete(i, Src)
<1> DEFINE m == CountTrip(mem, dir[i].state)
<1>1. /\ UNCHANGED <<child, dispatcher, forced>> /\ pc = "ended" /\ pc' = "idle"
      /\ dir' = Without(dir, S) /\ mem' = m
  BY DEF EndTrip, Write
<1>2. /\ Course(c, mem, pc, dispatcher, forced) /\ (forced = "no" => Yield(c, mem, pc, dir, child))
      /\ n \in Nat /\ ~IsOver(mem) /\ mem \in ProgressOver(Index) /\ mem = disk
      /\ ResultOf(c, n) \in DOMAIN dir /\ mem.initialized /\ Src = ResultOf(c, n)
      /\ n = 0 \/ n \in TripsOf(c)
  BY <1>1, CourseFacts
<1>3. i = NthOf(c, n + 1) /\ n + 1 \in TripsOf(c) /\ mem.prevIndex = BeforeOf(c, n + 1)
  BY <1>1, <1>2 DEF Course, OnTrip
<1>4. i \in Index /\ i \in DOMAIN dir
  <2>1. LoopProgress BY LoopFacts
  <2>2. i \in Index BY <1>3, NthFacts
  <2> QED BY <1>1, <1>2, <2>1, <2>2 DEF LoopProgress
<1>5. /\ m.state = mem.state /\ m.initialized = mem.initialized
      /\ m.prevIndex = mem.prevIndex /\ m.currentIndex = i
      /\ Made(m) = n + 1 /\ (m.hasFaild <=> mem.hasFaild \/ dir[i].state = "failed")
  <2> DEFINE I == Index
  <2>0. mem \in ProgressOver(I) BY <1>2
  <2> HIDE DEF I
  <2>1. mem.numFinished \in Nat /\ mem.numFailed \in Nat BY <2>0 DEF ProgressOver
  <2>2. CASE dir[i].state = "failed"
    <3>1. m = [mem EXCEPT !.numFailed = mem.numFailed + 1, !.hasFaild = TRUE] BY <2>2 DEF CountTrip
    <3>2. /\ m.state = mem.state /\ m.initialized = mem.initialized
          /\ m.prevIndex = mem.prevIndex /\ m.currentIndex = i
          /\ m.numFinished = mem.numFinished /\ m.numFailed = mem.numFailed + 1 /\ m.hasFaild = TRUE
      BY <2>0, <3>1 DEF ProgressOver
    <3> HIDE DEF m
    <3> QED BY <2>1, <2>2, <3>2 DEF Made
  <2>3. CASE dir[i].state # "failed"
    <3>1. m = [mem EXCEPT !.numFinished = mem.numFinished + 1] BY <2>3 DEF CountTrip
    <3>2. /\ m.state = mem.state /\ m.initialized = mem.initialized
          /\ m.prevIndex = mem.prevIndex /\ m.currentIndex = i
          /\ m.numFinished = mem.numFinished + 1 /\ m.numFailed = mem.numFailed /\ m.hasFaild = mem.hasFaild
      BY <2>0, <3>1 DEF ProgressOver
    <3> HIDE DEF m
    <3> QED BY <2>1, <2>3, <3>2 DEF Made
  <2> QED BY <2>2, <2>3
<1>6. DOMAIN dir' = DOMAIN dir \ S /\ \A d \in DOMAIN dir' : dir'[d] = dir[d]
  BY <1>1 DEF Without, Restrict
<1>7. i \notin S
  <2>1. \A j, k \in TripsOf(c) : NthOf(c, j) = NthOf(c, k) => j = k BY NthFacts
  <2>2. ResultOf(c, n) # i
    <3>1. CASE n = 0 BY <1>4, <3>1, LoopNames DEF ResultOf
    <3>2. CASE n # 0
      <4>1. n \in TripsOf(c) /\ n # n + 1 BY <1>2, <3>2
      <4> QED BY <1>3, <2>1, <3>2, <4>1 DEF ResultOf
    <3> QED BY <3>1, <3>2
  <2>3. Src # NthOf(c, n + 1) BY <1>2, <1>3, <2>2
  <2>4. NthOf(c, n + 1) \notin Obsolete(NthOf(c, n + 1), Src) BY <1>3, <2>3, ObsoleteIs
  <2> QED BY <1>3, <2>4
<1> HIDE DEF m
<1>8. ~IsOver(m) BY <1>2, <1>5 DEF IsOver
<1>9. n + 1 # 0 BY <1>2
<1>10. Course(c, m, "idle", dispatcher, forced)
  <2> DEFINE k == n + 1
  <2>1. /\ Made(m) = k /\ k \in TripsOf(c) /\ k # 0 /\ m.initialized /\ m.state # "not-started"
        /\ m.currentIndex = NthOf(c, k) /\ m.prevIndex = BeforeOf(c, k) /\ dispatcher # "gone"
    BY <1>1, <1>2, <1>3, <1>5, <1>9 DEF Course
  <2> HIDE DEF k
  <2> QED BY <1>8, <2>1 DEF Course, OnTrip
<1>11. ResultOf(c, n + 1) = i BY <1>3, <1>9 DEF ResultOf
<1>12. LastThere(c, m, DOMAIN dir') BY <1>4, <1>5, <1>6, <1>7, <1>11 DEF LastThere
<1>13. ASSUME forced = "no" PROVE Yield(c, m, "idle", dir', child)
  <2>1. Yields(c, dir[i], n + 1, mem.hasFaild \/ dir[i].state = "failed")
    BY <1>1, <1>2, <1>3, <1>13 DEF Yield
  <2>2. dir'[i] = dir[i] BY <1>4, <1>6, <1>7
  <2>3. Yields(c, dir'[i], n + 1, m.hasFaild) BY <1>5, <2>1, <2>2 DEF Yields
  <2> QED BY <1>5, <1>8, <1>11, <2>3 DEF Yield
<1>14. ASSUME KeptExactly, NotNegative PROVE KeptDirs(c, m, "idle", DOMAIN dir')
  <2>1. DOMAIN dir = {Template} \cup KeptOf(c, n) \cup {NthOf(c, n + 1)}
    <3>1. KeptDirs(c, mem, "ended", DOMAIN dir) BY <1>1, <1>14 DEF KeptExactly
    <3> QED BY <1>2, <3>1 DEF KeptDirs
  <2>2. Template \notin S BY <1>4, ObsoleteKeepsOwn
  <2>3. (KeptOf(c, n) \cup {NthOf(c, n + 1)}) \ S = KeptOf(c, n + 1)
    <3>1. S = Obsolete(NthOf(component, n + 1), Src) BY <1>3
    <3> HIDE DEF S, n
    <3> QED BY <1>2, <1>3, <1>14, <3>1, KeptNext
  <2>4. DOMAIN dir' = {Template} \cup KeptOf(c, n + 1) BY <1>6, <2>1, <2>2, <2>3
  <2> QED BY <1>5, <1>8, <2>4 DEF KeptDirs
<1> QED BY <1>1, <1>10, <1>12, <1>13, <1>14 DEF Stands

\* The result of the last trip becomes that of the loop.
LEMMA StandsConcluded ==
  ASSUME RunType, LoopInv, ~Over, Type \in Loop, IsOrdered, Unbroken, cut = "none", _loopFinalize
  PROVE  /\ Stands(component, mem', pc', dispatcher', forced', dir', child')
         /\ KeptExactly => KeptDirs(component, mem', pc', DOMAIN dir')
<1> DEFINE c == component
<1> DEFINE n == Made(mem)
<1> DEFINE S == IF component.keep = 0 THEN {Src} ELSE {}
<1> DEFINE m == [mem EXCEPT !.state = IF mem.hasFaild THEN "failed" ELSE "finished",
                            !.initialized = FALSE, !.currentIndex = Undefined, !.prevIndex = Undefined]
<1>1. /\ UNCHANGED <<child, forced>> /\ dispatcher' = "gone" /\ pc = "finalize" /\ pc' = "idle"
      /\ Src \in DOMAIN dir /\ dir' = Without(Put(dir, Template, dir[Src]), S) /\ mem' = m
  BY DEF _loopFinalize, Write
<1>2. /\ Course(c, mem, pc, dispatcher, forced) /\ (forced = "no" => Yield(c, mem, pc, dir, child))
      /\ n \in Nat /\ ~IsOver(mem) /\ mem \in ProgressOver(Index) /\ mem = disk
      /\ mem.initialized /\ Src = ResultOf(c, n)
      /\ n = 0 \/ n \in TripsOf(c)
  BY <1>1, CourseFacts
<1>3. Template \notin S /\ Template \in DOMAIN dir /\ c.keep \in Nat \cup {Null}
  <2>1. /\ LoopProgress /\ Template \in DOMAIN dir /\ component.keep \in Nat \cup {Null} BY LoopFacts
  <2>2. Src = Template => disk.prevIndex = Undefined BY <1>2, LoopSource
  <2> QED BY <1>1, <1>2, <2>1, <2>2 DEF LoopProgress
<1>4. /\ m.state = (IF mem.hasFaild THEN "failed" ELSE "finished") /\ ~m.initialized
      /\ m.numFinished = mem.numFinished /\ m.numFailed = mem.numFailed
  BY <1>2 DEF ProgressOver
<1> HIDE DEF m, S
<1>5. Made(m) = n /\ IsOver(m) /\ m.state # "not-started" /\ (m.state = "failed" <=> mem.hasFaild)
  BY <1>4 DEF Made, IsOver
<1>6. Through(c, n, forced) BY <1>1, <1>2 DEF Course
<1>7. Course(c, m, "idle", "gone", forced)
  BY <1>2, <1>4, <1>5, <1>6 DEF Course, OnTrip
<1>8. LastThere(c, m, DOMAIN dir') BY <1>5 DEF LastThere
<1>9. DOMAIN dir' = DOMAIN dir \ S /\ dir'[Template] = dir[ResultOf(c, n)]
  <2> DEFINE copied == Put(dir, Template, dir[Src])
  <2>1. DOMAIN copied = DOMAIN dir /\ copied[Template] = dir[Src] BY <1>3 DEF Put
  <2> HIDE DEF copied
  <2>2. DOMAIN dir' = DOMAIN copied \ S /\ \A d \in DOMAIN dir' : dir'[d] = copied[d]
    BY <1>1 DEF Without, Restrict, copied
  <2> QED BY <1>2, <1>3, <2>1, <2>2
<1>10. ASSUME forced = "no" PROVE Yield(c, m, "idle", dir', child)
  <2>1. Yields(c, dir[ResultOf(c, n)], n, mem.hasFaild) BY <1>1, <1>2, <1>10 DEF Yield
  <2>2. Yields(c, dir'[Template], n, m.state = "failed") BY <1>5, <1>9, <2>1 DEF Yields
  <2> QED BY <1>5, <2>2 DEF Yield
<1>11. ASSUME KeptExactly PROVE KeptDirs(c, m, "idle", DOMAIN dir')
  <2>1. DOMAIN dir = {Template} \cup KeptOf(c, n)
    <3>1. KeptDirs(c, mem, "finalize", DOMAIN dir) BY <1>1, <1>11 DEF KeptExactly
    <3> QED BY <1>2, <3>1 DEF KeptDirs
  <2>2. CASE c.keep = 0
    <3>1. n # 0 /\ S = {NthOf(c, n)} BY <1>2, <1>3, <2>2 DEF S, ResultOf
    <3>2. \A x \in KeptOf(c, n) : x = NthOf(c, n)
      <4>1. \A x \in KeptOf(c, n) : \E j \in 1..n : x = NthOf(c, j) /\ j > n - 1
        <5>1. c.keep # Null BY <2>2, NameAssumption
        <5> QED BY <1>2, <1>3, <2>2, <5>1, KeptIs
      <4> QED BY <1>2, <4>1
    <3>3. DOMAIN dir' = {Template} BY <1>3, <1>9, <2>1, <3>1, <3>2
    <3> QED BY <1>5, <2>2, <3>3 DEF KeptDirs
  <2>3. CASE c.keep # 0
    <3>1. DOMAIN dir' = {Template} \cup KeptOf(c, n) BY <1>9, <2>1, <2>3 DEF S
    <3> QED BY <1>5, <2>3, <3>1 DEF KeptDirs
  <2> QED BY <2>2, <2>3
<1> QED BY <1>1, <1>7, <1>8, <1>10, <1>11 DEF Stands

\* A break is asked for among the tasks of a trip, and heard of at any time.
LEMMA StandsBroken ==
  ASSUME RunType, LoopInv, Type \in Loop, IsOrdered, Unbroken, cut = "none",
         (~Over /\ BreakTrip(disk.currentIndex)) \/ BreakHeard
  PROVE  /\ Stands(component, mem', pc', dispatcher', forced', dir', child')
         /\ KeptExactly => KeptDirs(component, mem', pc', DOMAIN dir')
<1>1. /\ UNCHANGED <<mem, dir, pc, dispatcher>> /\ forced' # "no"
  BY DEF BreakTrip, BreakHeard
<1>2. Course(component, mem, pc, dispatcher, forced) /\ LastThere(component, mem, DOMAIN dir)
  BY DEF Unbroken
<1>3. Course(component, mem, pc, dispatcher, forced')
  <2> DEFINE n == Made(mem)
  <2>1. Through(component, n, forced') BY <1>1 DEF Through
  <2> HIDE DEF n
  <2> QED BY <1>2, <2>1 DEF Course, n
<1>4. KeptExactly => KeptDirs(component, mem, pc, DOMAIN dir) BY DEF KeptExactly
<1> QED BY <1>1, <1>2, <1>3, <1>4 DEF Stands

LEMMA InitUnbroken ==
  ASSUME RunType, Init, Type \in Loop
  PROVE  Unbroken /\ KeptExactly
<1>1. /\ mem = Progress /\ pc = "idle" /\ forced = "no" /\ DOMAIN dir = {Template}
      /\ dir[Template].trail = <<>>
  BY DEF Init
<1>2. /\ Made(mem) = 0 /\ ~IsOver(mem) /\ mem.state = "not-started" /\ ~mem.initialized /\ ~mem.hasFaild
  BY <1>1 DEF Progress, Made, IsOver
<1>3. Course(component, mem, pc, dispatcher, forced) BY <1>1, <1>2 DEF Course, OnTrip
<1>4. LastThere(component, mem, DOMAIN dir) BY <1>1, <1>2 DEF LastThere, ResultOf
<1>5. Yield(component, mem, pc, dir, child)
  <2>1. FirstOf(component, 0 * NTask) = <<>>
    <3>1. 0 * NTask = 0 BY CountAssumption
    <3> QED BY <3>1 DEF FirstOf
  <2>2. Yields(component, dir[ResultOf(component, Made(mem))], Made(mem), mem.hasFaild)
    BY <1>1, <1>2, <2>1 DEF Yields, ResultOf
  <2> QED BY <1>1, <1>2, <2>2 DEF Yield
<1>6. KeptDirs(component, mem, pc, DOMAIN dir)
  <2>1. component.keep \in Nat \cup {Null} BY ComponentAssumption DEF RunType, Type
  <2>2. KeptOf(component, 0) = {}
    <3>1. \A j \in 1..0 : FALSE OBVIOUS
    <3>2. 0 \in Nat OBVIOUS
    <3> QED BY <2>1, <3>1, <3>2, KeptIs
  <2> QED BY <1>1, <1>2, <2>2 DEF KeptDirs
<1> QED BY <1>3, <1>4, <1>5, <1>6 DEF Unbroken, KeptExactly

LEMMA NextUnbroken ==
  ASSUME RunType, LoopInv, Type \in Loop, IsOrdered, ~Unwary, [Next]_vars, Unbroken
  PROVE  Unbroken' /\ (KeptExactly /\ NotNegative => KeptExactly')
<1>1. LoopType BY DEF LoopInv
<1>2. component' = component BY ComponentStays
<1>3. CASE cut' # "none" BY <1>2, <1>3, StandsNext
<1>4. CASE UNCHANGED vars
  BY <1>4 DEF vars, Unbroken, KeptExactly
<1>5. CASE cut' = "none" /\ ~UNCHANGED vars
  <2>1. cut = "none" /\ ~Stop /\ ~RemoveEnds /\ ~Crash
    <3>1. ~Stop /\ ~Crash BY <1>5 DEF Stop, Crash
    <3>2. cut' = cut
      <4>1. CASE \E t \in Task, result \in {"finished", "failed"} : TaskEnds(disk.currentIndex, t, result)
        BY <4>1 DEF TaskEnds
      <4>2. CASE BreakTrip(disk.currentIndex) \/ _loopHandler \/ CopyTrip \/ CopyFails \/ DelegateTrip
        BY <4>2 DEF BreakTrip, _loopHandler, CopyTrip, CopyFails, DelegateTrip
      <4>3. CASE TripEnds \/ EndTrip \/ _loopFinalize \/ Run \/ RemoveEnds \/ BreakHeard
        BY <4>3 DEF TripEnds, EndTrip, _loopFinalize, Run, RemoveEnds, BreakHeard
      <4> QED BY <1>1, <1>5, <3>1, <4>1, <4>2, <4>3, LoopSteps
    <3>3. ~RemoveEnds BY <1>5, <3>2 DEF RemoveEnds, RunType
    <3> QED BY <1>5, <3>1, <3>2, <3>3
  <2>2. ~Over => ~CopyFails
    <3>1. ASSUME ~Over, CopyFails PROVE FALSE
      <4>1. pc # "idle" /\ Src \notin DOMAIN dir BY <3>1 DEF CopyFails
      <4> QED BY <2>1, <3>1, <4>1, CourseFacts
    <3> QED BY <3>1
  <2> DEFINE Good == /\ Stands(component, mem', pc', dispatcher', forced', dir', child')
                     /\ KeptExactly /\ NotNegative => KeptDirs(component, mem', pc', DOMAIN dir')
  <2>3. ASSUME ~Over, NEW t \in Task, NEW result \in {"finished", "failed"}, TaskEnds(disk.currentIndex, t, result)
        PROVE  Good
    BY <2>1, <2>3, StandsTask
  <2>4. ASSUME ~Over, _loopHandler \/ CopyTrip \/ DelegateTrip PROVE Good
    BY <2>1, <2>4, StandsHandled, StandsCopied, StandsDelegated
  <2>5. ASSUME ~Over, TripEnds \/ EndTrip \/ _loopFinalize PROVE Good
    BY <2>1, <2>5, StandsTripEnded, StandsTripCounted, StandsConcluded
  <2>6. ASSUME ~Over, Run PROVE Good BY <2>1, <2>6, StandsRun
  <2>7. ASSUME (~Over /\ BreakTrip(disk.currentIndex)) \/ BreakHeard PROVE Good
    BY <2>1, <2>7, StandsBroken
  <2> HIDE DEF Good
  <2>8. Good BY <1>1, <1>5, <2>1, <2>2, <2>3, <2>4, <2>5, <2>6, <2>7, LoopSteps
  <2> QED BY <1>2, <2>8, StandsNext DEF Good
<1> QED BY <1>3, <1>4, <1>5

\* All results of n trips, in the order of the trips and their tasks.
LEMMA ResultsAre ==
  ASSUME NEW c, NEW n \in Nat, NEW all, n <= Len(all), Len(all) = n,
         \A k \in 1..n : all[k] = NthOf(c, k)
  PROVE  /\ Results(all) = FirstOf(c, n * NTask)
         /\ \A x : Misses(c, x, n, {}) => x.trail # FirstOf(c, n * NTask)
<1>0. NTask \in Nat \ {0} BY CountAssumption
<1> DEFINE w == n * NTask
<1>1. w \in Nat BY <1>0
<1>2. \A k \in 1..w : ((k - 1) \div NTask) + 1 \in 1..n
  <2> TAKE k \in 1..w
  <2> DEFINE q == (k - 1) \div NTask
  <2> DEFINE r == (k - 1) % NTask
  <2>1. k - 1 \in Nat /\ k - 1 < w BY <1>1
  <2>2. q \in Nat /\ r \in 0..(NTask - 1) /\ k - 1 = q * NTask + r
    <3> DEFINE a == k - 1
    <3>1. a \in Nat BY <2>1
    <3> HIDE DEF a
    <3> QED BY <1>0, <3>1, Divided DEF a
  <2> HIDE DEF q, r
  <2>3. q < n
    <3>1. ASSUME q >= n PROVE FALSE
      <4>1. q * NTask = n * NTask + (q - n) * NTask BY <1>0, <2>2
      <4>2. (q - n) * NTask >= 0 BY <1>0, <2>2, <3>1
      <4> DEFINE v == (q - n) * NTask
      <4> DEFINE u == q * NTask
      <4>3. u = w + v /\ v >= 0 /\ v \in Int /\ k - 1 = u + r BY <1>0, <2>2, <4>1, <4>2
      <4> HIDE DEF v, u, w
      <4> QED BY <1>1, <2>1, <2>2, <4>3
    <3> QED BY <2>2, <3>1
  <2>4. q + 1 \in 1..n BY <2>2, <2>3
  <2> QED BY <2>4 DEF q
<1>3. Results(all) = FirstOf(c, w)
  <2>1. \A k \in 1..w : <<all[((k - 1) \div NTask) + 1], ((k - 1) % NTask) + 1>> = EntryOf(c, k)
    BY <1>2 DEF EntryOf
  <2>2. Len(all) * NTask = w OBVIOUS
  <2> HIDE DEF w
  <2> QED BY <2>1, <2>2 DEF Results, FirstOf
<1>4. ASSUME NEW x, Misses(c, x, n, {}), x.trail = FirstOf(c, w) PROVE FALSE
  <2>1. PICK k \in 1..n, t \in Task : \A a \in DOMAIN x.trail : x.trail[a] # <<NthOf(c, k), t>>
    BY <1>4 DEF Misses
  <2> DEFINE p == (k - 1) * NTask
  <2> DEFINE a == p + (t - 1)
  <2>2. k - 1 \in Nat /\ t - 1 \in 0..(NTask - 1) /\ (k - 1) + 1 = k /\ (t - 1) + 1 = t
    BY <1>0 DEF Task
  <2>3. a \in Nat /\ EntryOf(c, a + 1) = <<NthOf(c, k), t>>
    <3> DEFINE i == k - 1
    <3> DEFINE j == t - 1
    <3>1. i \in Nat /\ j \in 0..(NTask - 1) /\ i + 1 = k /\ j + 1 = t BY <2>2
    <3> HIDE DEF i, j
    <3>2. i * NTask + j \in Nat /\ EntryOf(c, (i * NTask + j) + 1) = <<NthOf(c, i + 1), j + 1>>
      BY <3>1, EntryIs
    <3> QED BY <3>1, <3>2 DEF i, j
  <2>4. a + 1 \in 1..w
    <3> DEFINE z == (n - k) * NTask
    <3>1. p \in Nat /\ z \in Nat /\ w = (p + NTask) + z
      <4>1. n - k \in Nat BY <2>1
      <4>2. w = p + NTask + z BY <1>0, <2>1
      <4>3. p \in Nat BY <1>0, <2>2
      <4>4. z \in Nat BY <1>0, <4>1
      <4> QED BY <1>0, <4>2, <4>3, <4>4
    <3> HIDE DEF p, z, w
    <3> QED BY <1>0, <1>1, <2>2, <3>1
  <2> HIDE DEF a, w
  <2>5. a + 1 \in DOMAIN x.trail /\ x.trail[a + 1] = EntryOf(c, a + 1)
    BY <1>4, <2>4 DEF FirstOf
  <2> QED BY <2>1, <2>3, <2>5
<1> QED BY <1>3, <1>4

\* An uninterrupted loop that is over has delivered.
LEMMA DeliversOfUnbroken ==
  ASSUME RunType, LoopInv, Type \in Loop, IsOrdered, Unbroken
  PROVE  LoopDelivers
<1> SUFFICES ASSUME Resting, cut = "none", forced = "no", disk.state \in {"finished", "failed"}
             PROVE  /\ Trips = Len(Indexes(Trips))
                    /\ disk.state = "finished" <=> dir[Template].trail = Results(Indexes(Trips))
  BY DEF LoopDelivers
<1> DEFINE c == component
<1> DEFINE n == Made(mem)
<1>1. mem = disk /\ disk \in ProgressOver(Index) BY DEF LoopInv, LoopType
<1>2. n = Trips /\ n \in Nat /\ IsOver(mem) BY <1>1 DEF Made, Trips, ProgressOver, IsOver
<1>3. /\ n = 0 \/ n \in TripsOf(c)
      /\ c.type = "while" \/ (n # 0 /\ n + 1 \notin TripsOf(c))
      /\ Yields(c, dir[Template], n, mem.state = "failed")
  <2>1. Course(c, mem, pc, dispatcher, "no") /\ Yield(c, mem, pc, dir, child) BY DEF Unbroken
  <2>2. n = 0 \/ n \in TripsOf(c) BY <2>1 DEF Course
  <2>3. Through(c, n, "no") BY <1>2, <2>1 DEF Course
  <2>4. Yields(c, dir[Template], n, mem.state = "failed")
    <3>1. IsOver(mem) /\ pc = "idle" BY <1>2 DEF Resting
    <3> QED BY <2>1, <3>1 DEF Yield
  <2> QED BY <2>2, <2>3, <2>4 DEF Through
<1>4. PICK L \in Nat \ {0} :
        /\ TripsOf(c) = 1..L
        /\ \A k : Indexes(k) = [j \in 1..(IF Type = "while" THEN k ELSE L) |-> NthOf(c, j)]
  BY TripsAre
<1> HIDE DEF n
<1>5. (IF Type = "while" THEN n ELSE L) = n
  <2>1. CASE Type = "while" BY <2>1
  <2>2. CASE Type # "while"
    <3>1. n \in 1..L /\ n + 1 \notin 1..L BY <1>3, <1>4, <2>2 DEF Type
    <3> QED BY <2>2, <3>1
  <2> QED BY <2>1, <2>2
<1> DEFINE all == Indexes(n)
<1>6. all = [j \in 1..n |-> NthOf(c, j)] BY <1>4, <1>5
<1>7. Len(all) = n /\ n <= Len(all) /\ \A k \in 1..n : all[k] = NthOf(c, k) BY <1>2, <1>6
<1> HIDE DEF all
<1>8. /\ Results(all) = FirstOf(c, n * NTask)
      /\ \A x : Misses(c, x, n, {}) => x.trail # FirstOf(c, n * NTask)
  BY <1>2, <1>7, ResultsAre
<1>9. disk.state = "finished" <=> dir[Template].trail = Results(all)
  <2>1. CASE disk.state = "failed"
    <3>1. Misses(c, dir[Template], n, {}) BY <1>1, <1>3, <2>1 DEF Yields
    <3> QED BY <1>8, <2>1, <3>1
  <2>2. CASE disk.state = "finished"
    <3>1. dir[Template].trail = FirstOf(c, n * NTask) BY <1>1, <1>3, <2>2 DEF Yields
    <3> QED BY <1>8, <2>2, <3>1
  <2> QED BY <2>1, <2>2
<1> QED BY <1>2, <1>7, <1>9 DEF all

\* The instances are those that Indexes tells.
LEMMA KeptOfExactly ==
  ASSUME RunType, LoopInv, Type \in Loop, IsOrdered, Unbroken, KeptExactly
  PROVE  Kept
<1> DEFINE over == disk.state \in {"finished", "failed"}
<1> DEFINE keep == CASE component.keep = Null -> Trips
                     [] component.keep = 0 -> IF over THEN 0 ELSE 1
                     [] OTHER -> component.keep
<1> SUFFICES ASSUME pc = "idle", cut = "none", disk.state # "not-started"
             PROVE  DOMAIN dir \ {Template} = {Indexes(Trips)[k] : k \in {j \in 1..Trips : j > Trips - keep}}
  BY DEF Kept
<1> DEFINE c == component
<1> DEFINE n == Made(mem)
<1>1. mem = disk /\ disk \in ProgressOver(Index) BY DEF LoopInv, LoopType
<1>2. n = Trips /\ n \in Nat /\ (IsOver(mem) <=> over) BY <1>1 DEF Made, Trips, ProgressOver, IsOver
<1>3. n = 0 \/ n \in TripsOf(c) BY DEF Unbroken, Course
<1>4. DOMAIN dir = {Template} \cup (IF IsOver(mem) /\ c.keep = 0 THEN {} ELSE KeptOf(c, n))
  BY DEF KeptExactly, KeptDirs
<1>5. PICK L \in Nat \ {0} :
        /\ TripsOf(c) = 1..L
        /\ \A k : Indexes(k) = [j \in 1..(IF Type = "while" THEN k ELSE L) |-> NthOf(c, j)]
  BY TripsAre
<1>6. c.keep \in Nat \cup {Null} /\ Null \notin Int
  <2>1. c.keep \in Nat \cup {Null} BY ComponentAssumption DEF RunType, Type
  <2>2. Null \notin Int BY NameAssumption
  <2> QED BY <2>1, <2>2
<1> HIDE DEF n, over
<1>7. \A k \in 1..n : Indexes(n)[k] = NthOf(c, k)
  <2>1. CASE Type = "while" BY <1>5, <2>1
  <2>2. CASE Type # "while"
    <3>1. \A k \in 1..n : k \in 1..L BY <1>2, <1>3, <1>5
    <3> QED BY <1>5, <2>2, <3>1
  <2> QED BY <2>1, <2>2
<1>8. Template \notin KeptOf(c, n)
  <2>1. ASSUME NEW j \in 1..n PROVE NthOf(c, j) # Template
    <3>1. j \in TripsOf(c) BY <1>2, <1>3, <1>5
    <3>2. NthOf(c, j) \in Index BY <3>1, NthFacts
    <3> QED BY <3>2, LoopNames
  <2>2. \A x \in KeptOf(c, n) : \E j \in 1..n : x = NthOf(c, j) BY <1>2, <1>6, KeptIs
  <2> QED BY <2>1, <2>2
<1>9. DOMAIN dir \ {Template} = IF over /\ c.keep = 0 THEN {} ELSE KeptOf(c, n)
  BY <1>2, <1>4, <1>8
<1> DEFINE old == {j \in 1..n : j > n - keep}
<1>10. {Indexes(n)[k] : k \in old} = {NthOf(c, k) : k \in old} BY <1>7
<1>11. CASE over /\ c.keep = 0
  <2>1. keep = 0 BY <1>6, <1>11
  <2>2. old = {} BY <1>2, <2>1
  <2> QED BY <1>2, <1>9, <1>11, <2>2
<1>12. CASE ~(over /\ c.keep = 0)
  <2>1. keep = IF c.keep = Null THEN n ELSE IF c.keep = 0 THEN 1 ELSE c.keep
    BY <1>2, <1>6, <1>12
  <2>2. KeptOf(c, n) = {NthOf(c, k) : k \in old} BY <2>1 DEF KeptOf
  <2> QED BY <1>2, <1>9, <1>10, <1>12, <2>2
<1> QED BY <1>11, <1>12

-----------------------------------------------------------------------------
(* Loops among all components                                              *)

LoopsCourse == Type \in Loop => Unbroken /\ (NotNegative => KeptExactly)

LEMMA InitCourse ==
  ASSUME Init
  PROVE  LoopsCourse
BY InitRun, InitUnbroken DEF LoopsCourse

LEMMA NextCourse ==
  ASSUME ListsDistinct, ~Unwary, Inv, LoopsCourse, [Next]_vars
  PROVE  LoopsCourse'
<1>1. RunType /\ (Type \in Loop => LoopInv) BY DEF Inv
<1>2. IsOrdered BY <1>1, KindOfComponent
<1>3. component' = component /\ Type' = Type BY ComponentStays DEF Type
<1>4. NotNegative' <=> NotNegative BY <1>3 DEF NotNegative
<1>5. ASSUME Type \in Loop PROVE Unbroken' /\ (KeptExactly /\ NotNegative => KeptExactly')
  BY <1>1, <1>2, <1>5, NextUnbroken DEF LoopsCourse
<1> QED BY <1>3, <1>4, <1>5 DEF LoopsCourse

\* A loop that ran without interruption has gone through all its indexes, once
\* and in order, each trip on the results of the one before, and the result of
\* the last one is in the loop's own directory; it is "finished" only if no
\* task of any trip failed: for every "for" that is validated, every list of
\* different indexes, any number of tasks and any of them that fail
\* (_loopHandler, _loopFinalize and loopUtils.js).
THEOREM LoopsDeliver ==
  ASSUME ListsDistinct, ~Unwary
  PROVE  Spec => []LoopDelivers
<1>1. Init => Inv /\ LoopsCourse BY InitInv, InitCourse
<1>2. Inv /\ LoopsCourse /\ [Next]_vars => Inv' /\ LoopsCourse' BY NextInv, NextCourse
<1>3. ASSUME Inv, LoopsCourse PROVE LoopDelivers
  <2>1. RunType /\ IsOrdered BY <1>3, KindOfComponent DEF Inv
  <2>2. CASE Type \in Loop BY <1>3, <2>1, <2>2, DeliversOfUnbroken DEF Inv, LoopsCourse
  <2>3. CASE Type \notin Loop BY <2>3 DEF LoopDelivers
  <2> QED BY <2>2, <2>3
<1> QED BY <1>1, <1>2, <1>3, PTL DEF Spec

\* The indexes of every "for" are not negative: keepLoopInstance() takes a
\* negative index for one that there is no instance of.
CountsFromZero == \A c \in Component : c.type = "for" => c.start >= 0 /\ c.end >= 0

\* Between two trips, and after the last, an uninterrupted loop has exactly
\* the instances it is to keep: the newest ones (keepLoopInstance and
\* foreachKeepLoopInstance).
THEOREM InstancesAreKept ==
  ASSUME ListsDistinct, CountsFromZero, ~Unwary
  PROVE  Spec => []Kept
<1>1. Init => Inv /\ LoopsCourse BY InitInv, InitCourse
<1>2. Inv /\ LoopsCourse /\ [Next]_vars => Inv' /\ LoopsCourse' BY NextInv, NextCourse
<1>3. ASSUME Inv, LoopsCourse PROVE Kept
  <2>1. RunType /\ IsOrdered BY <1>3, KindOfComponent DEF Inv
  <2>2. NotNegative BY <2>1 DEF RunType, Type, NotNegative, CountsFromZero
  <2>3. CASE Type \in Loop BY <1>3, <2>1, <2>2, <2>3, KeptOfExactly DEF Inv, LoopsCourse
  <2>4. CASE Type \notin Loop BY <2>4 DEF Kept
  <2> QED BY <2>3, <2>4
<1> QED BY <1>1, <1>2, <1>3, PTL DEF Spec

=============================================================================
