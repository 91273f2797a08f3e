----------------------------- MODULE Delegation -----------------------------
(***************************************************************************)
(* A component that holds others, as the dispatcher of its parent runs it: *)
(* a workflow, the trips of a "for", "while" or "foreach", the instances   *)
(* of a parameter study.  A directory holds the states of its Task-s and,  *)
(* as "trail", the results found in it.  The trips of a loop are run in    *)
(* copies of the loop's directory, each made from the one before; the      *)
(* instances of a study are made from the study's own.  The server may     *)
(* end, the user may stop the project and continue it.                     *)
(***************************************************************************)
EXTENDS Integers, Sequences, FiniteSets, SequencesExt

CONSTANTS
  Component, \* records, one of which is the component under study
  NTask,     \* tasks in one directory, run one after the other
  Template,  \* the component's own directory
  Null,
  Undefined,
  MaxTrips,  \* bound on the trips of a "while"
  MaxRuns,   \* bound on the runs of the project
  MaxFailed, \* bound on the tasks that fail
  Spaces,    \* parameter spaces to enumerate
  Unwary     \* are cases modelled that are known to give wrong results?

ASSUME CountAssumption == {NTask, MaxTrips} \subseteq Nat \ {0} /\ {MaxRuns, MaxFailed} \subseteq Nat
ASSUME UnwaryAssumption == Unwary \in BOOLEAN

VARIABLES
  component,
  disk,       \* what the component's JSON file says of its progress
  mem,        \* the same, as the dispatcher has it
  dir,        \* directories by name
  child,      \* child dispatchers by the directory they run
  pc,         \* where the component's handler is
  dispatcher, \* of the parent: "gone", "running", "stopping"
  forced,     \* forceFinishedLoops has the component: "no", "pending", "yes"
  study,      \* what _PSHandler keeps in local variables
  gathered,   \* instances the results of which were gathered
  runs,
  fails,      \* tasks that have failed
  cut         \* has the user stopped a run ("stop"), the server ended in one ("crash")?

vars == <<component, disk, mem, dir, child, pc, dispatcher, forced, study, gathered, runs, fails, cut>>

Type == component.type
Loop == {"for", "while", "foreach"}
Task == 1..NTask

Field(f, default) == IF f \in DOMAIN component THEN component[f] ELSE default

Without(f, S) == Restrict(f, DOMAIN f \ S)
Put(f, d, x) == [e \in DOMAIN f \cup {d} |-> IF e = d THEN x ELSE f[e]]

-----------------------------------------------------------------------------
(* The index of a loop *)

step == LET s == Field("step", 0) IN IF s = 0 THEN 1 ELSE s

\* Each directory of a list of indexes is at one place of it.
At(i) == CHOOSE k \in DOMAIN component.indexList : component.indexList[k] = i

forGetNextIndex(i) == IF i = Null THEN component.start ELSE i + component.step
whileGetNextIndex(i) == IF i = Null THEN 0 ELSE i + 1

foreachGetNextIndex(i) ==
  IF i = Null THEN component.indexList[1]
  ELSE IF i \notin Range(component.indexList) \/ At(i) = Len(component.indexList) THEN Null
  ELSE component.indexList[At(i) + 1]

getNextIndex(i) ==
  CASE Type = "for" -> forGetNextIndex(i)
    [] Type = "while" -> whileGetNextIndex(i)
    [] Type = "foreach" -> foreachGetNextIndex(i)

foreachGetPrevIndex(m) ==
  IF m.prevIndex # Undefined THEN m.prevIndex
  ELSE IF At(m.currentIndex) = 1 THEN Null ELSE component.indexList[At(m.currentIndex) - 1]

getPrevIndex(m) ==
  IF Type = "foreach" THEN foreachGetPrevIndex(m)
  ELSE IF m.prevIndex # Undefined THEN m.prevIndex
  ELSE LET candidate == m.currentIndex - step
       IN IF (candidate - Field("start", 0)) * step >= 0 THEN candidate ELSE Null

forIsFinished(i) ==
  \/ i > component.end /\ component.step > 0
  \/ i < component.end /\ component.step < 0
foreachIsFinished(i) == i \notin Range(component.indexList)

isFinished(i) ==
  CASE Type = "for" -> forIsFinished(i)
    [] Type = "foreach" -> foreachIsFinished(i)
    [] Type = "while" -> i >= MaxTrips

firstIndex ==
  IF Type = "foreach" THEN component.indexList[1] ELSE Field("start", 0)

\* The instances that are removed after the trip of index i.
foreachKeepLoopInstance(i) ==
  LET k == At(i) - component.keep
  IN IF k >= 1 THEN {component.indexList[k]} ELSE {}

\* (wrong) one instance less is kept
Mut_keepLoopInstance(i) ==
  LET old == i - (component.keep - 1) * step IN IF old >= 0 THEN {old} ELSE {}

keepLoopInstance(i) ==
  LET old == i - component.keep * step IN IF old >= 0 THEN {old} ELSE {}

Obsolete(i, src) ==
  CASE component.keep = Null -> {}
    [] component.keep = 0 -> {src} \ {Template}
    [] OTHER -> IF Type = "foreach" THEN foreachKeepLoopInstance(i) ELSE keepLoopInstance(i)

-----------------------------------------------------------------------------
(* The parameter space of a study: axes are [min, max, step] or [list] *)

getParamAxisSize(axis) ==
  IF "list" \in DOMAIN axis THEN Len(axis.list) ELSE (axis.max - axis.min) \div axis.step + 1

getNthValue(n, axis) ==
  IF "list" \in DOMAIN axis THEN axis.list[n + 1] ELSE axis.min + axis.step * n

getParamSize(axes) ==
  LET size[k \in 0..Len(axes)] == IF k = 0 THEN 1 ELSE size[k - 1] * getParamAxisSize(axes[k])
  IN size[Len(axes)]

getNthParamVec(n, axes) ==
  LET rest[k \in 1..Len(axes)] ==
        IF k = 1 THEN n ELSE rest[k - 1] \div getParamAxisSize(axes[k - 1])
  IN [k \in DOMAIN axes |-> getNthValue(rest[k] % getParamAxisSize(axes[k]), axes[k])]

paramVec(n) == getNthParamVec(n, component.axes)
numTotal == getParamSize(component.axes)
Instances == {paramVec(n) : n \in 0..(numTotal - 1)}

-----------------------------------------------------------------------------
(* What is validated before a project is run, and what a name is told from *)

IsSequence(s) == s \in Seq(Range(s))

IsAxis(axis) ==
  \/ "list" \in DOMAIN axis /\ IsSequence(axis.list) /\ axis.list # <<>>
  \/ /\ "list" \notin DOMAIN axis
     /\ {axis.min, axis.max} \subseteq Int /\ axis.min <= axis.max /\ axis.step \in Nat \ {0}
IsSpace(axes) == IsSequence(axes) /\ \A k \in DOMAIN axes : IsAxis(axes[k])

IsFor(c) ==
  /\ {"start", "end", "step"} \subseteq DOMAIN c
  /\ {c.start, c.end, c.step} \subseteq Int /\ c.step # 0 /\ (c.end - c.start) * c.step >= 0
IsForeach(c) == IsSequence(c.indexList) /\ c.indexList # <<>>
IsStudy(c) == c.deleteLoopInstance \in BOOLEAN /\ IsSpace(c.axes)

ASSUME ComponentAssumption ==
  \A c \in Component :
    /\ c.type \in Loop \cup {"workflow", "parameterStudy"}
    /\ c.type \in Loop => c.keep \in Nat \cup {Null}
    /\ c.type = "for" => IsFor(c)
    /\ c.type = "foreach" => IsForeach(c)
    /\ c.type = "while" => {"start", "step"} \cap DOMAIN c = {}
    /\ c.type = "parameterStudy" => IsStudy(c)

ASSUME SpacesAssumption == \A axes \in Spaces : IsSpace(axes)

ASSUME NameAssumption ==
  /\ {Null, Undefined, Template} \cap Int = {} /\ Undefined # Null
  /\ \A c \in Component :
       /\ c.type = "foreach" => {Null, Undefined, Template} \cap Range(c.indexList) = {}
       /\ c.type = "parameterStudy" =>
            \A n \in 0..(getParamSize(c.axes) - 1) : getNthParamVec(n, c.axes) \notin {Null, Template}

-----------------------------------------------------------------------------
(* Directories and child dispatchers *)

NotStarted == [t \in Task |-> "not-started"]

\* (wrong) finished components are run again
Mut_NewChild(d) == [left |-> Task, failed |-> FALSE, state |-> "running"]

\* A new child dispatcher goes through the tasks that are not finished.
NewChild(d) ==
  [left |-> {t \in Task : d.tasks[t] # "finished"}, failed |-> FALSE, state |-> "running"]

\* (wrong) the flag of a failed component is not asked
Mut_getState(c, stoppedExternally) == IF stoppedExternally THEN "stopped" ELSE "finished"

\* What start() of a child comes to, and has come to once it was paused.
_getState(c, stoppedExternally) ==
  IF c.failed THEN "failed" ELSE IF stoppedExternally THEN "stopped" ELSE "finished"
pause(c, stoppedExternally) ==
  IF c.state # "running" THEN c
  ELSE [c EXCEPT !.left = {}, !.state = _getState(c, stoppedExternally)]
Outcome(c) == pause(c, FALSE).state
Done(c) == c.left = {}

Progress == [state |-> "not-started", initialized |-> FALSE, currentIndex |-> Undefined,
             prevIndex |-> Undefined, numFinished |-> 0, numFailed |-> 0, hasFaild |-> FALSE]
NoStudy == [spawned |-> 0, representative |-> Null]

Init ==
  /\ component \in Component
  /\ disk = Progress /\ mem = Progress
  /\ dir = [d \in {Template} |-> [state |-> "not-started", tasks |-> NotStarted, trail |-> <<>>]]
  /\ child = [d \in {} |-> Null]
  /\ pc = "idle" /\ dispatcher = "gone" /\ forced = "no"
  /\ study = NoStudy /\ gathered = {}
  /\ runs = 0 /\ fails = 0 /\ cut = "none"

WithResult(x, entry, result) ==
  [x EXCEPT !.tasks[entry[2]] = result,
            !.trail = IF result = "finished" THEN Append(x.trail, entry) ELSE x.trail]
Advanced(c, t, result) ==
  [c EXCEPT !.left = c.left \ {t}, !.failed = c.failed \/ result = "failed"]

\* The next task of the child in directory d ends.  One that fails has ignoreFailure.
TaskEnds(d, t, result) ==
  /\ d \in DOMAIN child /\ t \in child[d].left
  /\ \A u \in child[d].left : t <= u
  /\ dir' = [dir EXCEPT ![d] = WithResult(dir[d], <<d, t>>, result)]
  /\ child' = [child EXCEPT ![d] = Advanced(child[d], t, result)]
  /\ fails' = IF result = "failed" THEN fails + 1 ELSE fails
  /\ fails' <= MaxFailed
  /\ UNCHANGED <<component, disk, mem, pc, dispatcher, forced, study, gathered, runs, cut>>

\* A "break" among the tasks: the child is paused and settles; the event
\* comes when what else the child was running has been cancelled.
BreakTrip(d) ==
  /\ d \in DOMAIN child /\ child[d].left # {} /\ Type \in Loop
  /\ dir[d].tasks # NotStarted
  /\ child' = [child EXCEPT ![d] = pause(@, FALSE)]
  /\ forced' = "pending"
  /\ UNCHANGED <<component, disk, mem, dir, pc, dispatcher, study, gathered, runs, fails, cut>>

BreakHeard ==
  /\ forced = "pending" /\ forced' = "yes"
  /\ UNCHANGED <<component, disk, mem, dir, child, pc, dispatcher, study, gathered, runs, fails, cut>>

-----------------------------------------------------------------------------
(* The handler of a workflow *)

\* mem and disk are written together.
Write(m) == mem' = m /\ disk' = m

Handled == pc = "idle" /\ dispatcher # "gone"

DelegateWorkflow ==
  /\ Handled /\ Type = "workflow"
  /\ Write([mem EXCEPT !.state = "running"])
  /\ child' = [d \in {Template} |-> NewChild(dir[d])] /\ pc' = "trip"
  /\ UNCHANGED <<component, dir, dispatcher, forced, study, gathered, runs, fails, cut>>

WorkflowEnds ==
  /\ pc = "trip" /\ Type = "workflow" /\ Done(child[Template])
  /\ Write([mem EXCEPT !.state = Outcome(child[Template])])
  /\ child' = Without(child, {Template}) /\ pc' = "idle" /\ dispatcher' = "gone"
  /\ UNCHANGED <<component, dir, forced, study, gathered, runs, fails, cut>>

-----------------------------------------------------------------------------
(* The handler of a loop *)

loopInitialize ==
  [mem EXCEPT !.state = "running", !.initialized = TRUE, !.currentIndex = firstIndex,
              !.numFinished = 0, !.numFailed = 0]

Advance ==
  [mem EXCEPT !.state = "running", !.prevIndex = mem.currentIndex,
              !.currentIndex = getNextIndex(mem.currentIndex)]

\* The directory that the coming trip is made from, or that has the result.
Src == IF getPrevIndex(mem) = Null THEN Template ELSE mem.prevIndex

\* The condition of a "while" is a script: it may end the loop at any time.
\* (Before the first trip of a loop that keeps no instance, _loopFinalize()
\* would remove the loop's own directory; the script is not of that kind.)
_loopHandler ==
  /\ Handled /\ Type \in Loop
  /\ LET m == IF mem.initialized THEN Advance ELSE loopInitialize IN
     /\ Write(m)
     /\ \/ /\ forced # "yes" /\ ~isFinished(m.currentIndex)
           /\ pc' = "copy"
        \/ /\ forced = "yes" \/ isFinished(m.currentIndex)
              \/ (Type = "while" /\ (mem.initialized \/ component.keep # 0))
           /\ pc' = "finalize"
  /\ UNCHANGED <<component, dir, child, dispatcher, forced, study, gathered, runs, fails, cut>>

CopyTrip ==
  /\ pc = "copy" /\ Src \in DOMAIN dir
  /\ dir' = Put(dir, mem.currentIndex, dir[Src])
  /\ pc' = "reset"
  /\ UNCHANGED <<component, disk, mem, child, dispatcher, forced, study, gathered, runs, fails, cut>>

\* (wrong) the error is noted, and not passed on
Mut_CopyFails ==
  /\ pc \in {"copy", "finalize"} /\ Src \notin DOMAIN dir
  /\ Write([mem EXCEPT !.state = "failed"])
  /\ UNCHANGED <<component, dir, child, pc, dispatcher, forced, study, gathered, runs, fails, cut>>

\* The directory to copy was never made: the component fails, the run ends.
CopyFails ==
  /\ pc \in {"copy", "finalize"} /\ Src \notin DOMAIN dir
  /\ Write([mem EXCEPT !.state = "failed"])
  /\ pc' = "idle" /\ dispatcher' = "gone"
  /\ UNCHANGED <<component, dir, child, forced, study, gathered, runs, fails, cut>>

\* (wrong) the copied states of the components are left as they are
Mut_ResetTrip(i) == [dir[i] EXCEPT !.state = "running"]

ResetTrip(i) == [dir[i] EXCEPT !.state = "running", !.tasks = NotStarted]

DelegateTrip ==
  LET i == mem.currentIndex IN
  /\ pc = "reset" /\ pc' = "trip"
  /\ dir' = [dir EXCEPT ![i] = ResetTrip(i)]
  /\ child' = [d \in {i} |-> NewChild(ResetTrip(i))]
  /\ UNCHANGED <<component, disk, mem, dispatcher, forced, study, gathered, runs, fails, cut>>

TripEnds ==
  LET i == mem.currentIndex IN
  /\ pc = "trip" /\ Type \in Loop /\ Done(child[i])
  /\ dir' = [dir EXCEPT ![i].state = Outcome(child[i])]
  /\ child' = Without(child, {i}) /\ pc' = "ended"
  /\ UNCHANGED <<component, disk, mem, dispatcher, forced, study, gathered, runs, fails, cut>>

CountTrip(m, state) ==
  IF state = "failed" THEN [m EXCEPT !.numFailed = @ + 1, !.hasFaild = TRUE]
  ELSE [m EXCEPT !.numFinished = @ + 1]

EndTrip ==
  LET i == mem.currentIndex IN
  /\ pc = "ended" /\ pc' = "idle"
  /\ dir' = Without(dir, Obsolete(i, Src))
  /\ Write(CountTrip(mem, dir[i].state))
  /\ UNCHANGED <<component, child, dispatcher, forced, study, gathered, runs, fails, cut>>

_loopFinalize ==
  /\ pc = "finalize" /\ Src \in DOMAIN dir
  /\ dir' = Without(Put(dir, Template, dir[Src]), IF component.keep = 0 THEN {Src} ELSE {})
  /\ Write([mem EXCEPT !.state = IF mem.hasFaild THEN "failed" ELSE "finished",
                       !.initialized = FALSE, !.currentIndex = Undefined, !.prevIndex = Undefined])
  /\ pc' = "idle" /\ dispatcher' = "gone"
  /\ UNCHANGED <<component, child, forced, study, gathered, runs, fails, cut>>

-----------------------------------------------------------------------------
(* The handler of a parameter study *)

_PSHandler ==
  /\ Handled /\ Type = "parameterStudy"
  /\ mem' = [mem EXCEPT !.state = "running", !.initialized = TRUE, !.numFinished = 0, !.numFailed = 0]
  /\ disk' = [disk EXCEPT !.state = "running"]
  /\ study' = NoStudy /\ pc' = "spawn"
  /\ UNCHANGED <<component, dir, child, dispatcher, forced, gathered, runs, fails, cut>>

\* What an instance has already is not overwritten (no forceOverwrite).
DelegateInstance ==
  LET v == paramVec(study.spawned)
      d == IF v \in DOMAIN dir THEN [dir[v] EXCEPT !.state = "running"]
           ELSE [state |-> "running", tasks |-> dir[Template].tasks, trail |-> <<>>]
  IN /\ pc = "spawn" /\ study.spawned < numTotal
     /\ study' = [study EXCEPT !.spawned = @ + 1]
     /\ dir' = Put(dir, v, d) /\ child' = Put(child, v, NewChild(d))
     /\ UNCHANGED <<component, disk, mem, pc, dispatcher, forced, gathered, runs, fails, cut>>

\* The first instance that failed stands for the study, or the first of all.
Represents(v, state) ==
  LET r == study.representative IN r = Null \/ (state = "failed" /\ dir[r].state # "failed")

InstanceEnds(v) ==
  LET state == Outcome(child[v]) IN
  /\ pc = "spawn" /\ v \in DOMAIN child /\ Done(child[v])
  /\ child' = Without(child, {v}) /\ dir' = [dir EXCEPT ![v].state = state]
  /\ Write(CASE state = "finished" -> [mem EXCEPT !.numFinished = @ + 1]
             [] state = "failed" -> [mem EXCEPT !.numFailed = @ + 1]
             [] OTHER -> mem)
  /\ study' = IF Represents(v, state) THEN [study EXCEPT !.representative = v] ELSE study
  /\ UNCHANGED <<component, pc, dispatcher, forced, gathered, runs, fails, cut>>

\* The states of the representative's components become those of the study's,
\* the state of the study itself included.
syncComponentStateFrom ==
  /\ pc = "spawn" /\ study.spawned = numTotal /\ child = [d \in {} |-> Null]
  /\ dir' = [dir EXCEPT ![Template].tasks = dir[study.representative].tasks]
  /\ disk' = [disk EXCEPT !.state = dir[study.representative].state]
  /\ pc' = "gather"
  /\ UNCHANGED <<component, mem, child, dispatcher, forced, study, gathered, runs, fails, cut>>

gatherFiles ==
  /\ pc = "gather" /\ pc' = "conclude"
  /\ gathered' = gathered \cup {v \in Instances : dir[v].tasks[NTask] = "finished"}
  /\ UNCHANGED <<component, disk, mem, dir, child, dispatcher, forced, study, runs, fails, cut>>

StudyEnds ==
  /\ pc = "conclude"
  /\ Write([mem EXCEPT !.state = IF mem.numFailed > 0 THEN "failed" ELSE "finished",
                       !.initialized = FALSE])
  /\ IF component.deleteLoopInstance THEN pc' = "delete" /\ UNCHANGED dispatcher
     ELSE pc' = "idle" /\ dispatcher' = "gone"
  /\ UNCHANGED <<component, dir, child, forced, study, gathered, runs, fails, cut>>

DeleteInstances ==
  /\ pc = "delete" /\ dir' = Without(dir, Instances)
  /\ pc' = "idle" /\ dispatcher' = "gone"
  /\ UNCHANGED <<component, disk, mem, child, forced, study, gathered, runs, fails, cut>>

-----------------------------------------------------------------------------
(* The project is run, stopped, continued; the server ends *)

\* The user cleans, instead of continuing, a loop that failed (it would start
\* from its own result) and a failed study the instances of which are gone.
MayContinue ==
  disk.state # "failed" \/ ~(Type \in Loop \/ Field("deleteLoopInstance", FALSE))

\* The dispatcher passes over a component that is finished.
Run ==
  /\ dispatcher = "gone" /\ pc = "idle" /\ child = [d \in {} |-> Null]
  /\ runs < MaxRuns /\ disk.state # "finished" /\ (Unwary \/ MayContinue)
  /\ runs' = runs + 1 /\ dispatcher' = "running" /\ mem' = disk /\ forced' = "no"
  /\ UNCHANGED <<component, disk, dir, child, pc, study, gathered, fails, cut>>

\* remove() pauses the dispatcher and its children at once.  If a handler is
\* at work, more may be begun until what was running has been cancelled.
Stop ==
  /\ dispatcher = "running"
  /\ dispatcher' = IF pc = "idle" THEN "gone" ELSE "stopping"
  /\ child' = [d \in DOMAIN child |-> pause(child[d], FALSE)]
  /\ cut' = "stop"
  /\ UNCHANGED <<component, disk, mem, dir, pc, forced, study, gathered, runs, fails>>

RemoveEnds ==
  /\ dispatcher = "stopping" /\ dispatcher' = "gone"
  /\ child' = [d \in DOMAIN child |-> pause(child[d], TRUE)]
  /\ UNCHANGED <<component, disk, mem, dir, pc, forced, study, gathered, runs, fails, cut>>

\* A "foreach" that has only its result left to copy would start again from
\* it, a study that has only to gather would be taken for finished.
MayCrash == pc # "gather" /\ disk.currentIndex # Null

Crash ==
  /\ dispatcher # "gone" \/ pc # "idle"
  /\ Unwary \/ MayCrash
  /\ mem' = disk /\ child' = [d \in {} |-> Null] /\ pc' = "idle" /\ dispatcher' = "gone"
  /\ forced' = "no" /\ study' = NoStudy
  /\ cut' = IF cut = "stop" THEN "stop" ELSE "crash"
  /\ UNCHANGED <<component, disk, dir, gathered, runs, fails>>

ChildStep ==
  \E d \in DOMAIN child :
    \/ \E t \in Task, result \in {"finished", "failed"} : TaskEnds(d, t, result)
    \/ InstanceEnds(d)

\* What happens without the user and without the end of the server.
Step ==
  \/ ChildStep
  \/ DelegateWorkflow \/ WorkflowEnds
  \/ _loopHandler \/ CopyTrip \/ CopyFails \/ DelegateTrip \/ TripEnds \/ EndTrip
  \/ _loopFinalize
  \/ _PSHandler \/ DelegateInstance \/ syncComponentStateFrom \/ gatherFiles
  \/ StudyEnds \/ DeleteInstances
  \/ BreakHeard \/ RemoveEnds

Next ==
  \/ Step
  \/ \E d \in DOMAIN child : BreakTrip(d)
  \/ Run \/ Stop \/ Crash

Spec == Init /\ [][Next]_vars /\ WF_vars(Step)

-----------------------------------------------------------------------------
(* What a component that holds others promises *)

\* The indexes of a "for" or "foreach" in order, those of a "while" so far.
Indexes(n) ==
  CASE Type = "for" ->
         LET S == {i \in (component.start..component.end) \cup (component.end..component.start) :
                     (i - component.start) % (IF component.step > 0 THEN component.step ELSE -component.step) = 0}
         IN CHOOSE f \in [1..Cardinality(S) -> S] :
              \A a, b \in DOMAIN f : a < b => (f[b] - f[a]) * component.step > 0
    [] Type = "foreach" -> component.indexList
    [] Type = "while" -> [k \in 1..n |-> k - 1]

Trips == disk.numFinished + disk.numFailed
Results(is) == [k \in 1..(Len(is) * NTask) |-> <<is[((k - 1) \div NTask) + 1], ((k - 1) % NTask) + 1>>]
Product(axes) ==
  LET Values(axis) == IF "list" \in DOMAIN axis THEN Range(axis.list)
                      ELSE {x \in axis.min..axis.max : (x - axis.min) % axis.step = 0}
  IN {v \in [DOMAIN axes -> UNION {Values(axes[k]) : k \in DOMAIN axes}] :
        \A k \in DOMAIN axes : v[k] \in Values(axes[k])}
AllRan(d) == \A t \in Task : dir[d].tasks[t] = "finished"
Resting == dispatcher = "gone" /\ pc = "idle"

\* Every variable has a value of its kind.
TypeOK ==
  /\ component \in Component /\ Template \in DOMAIN dir
  /\ \A d \in DOMAIN dir :
       /\ dir[d].state \in {"not-started", "running", "finished", "failed", "stopped"}
       /\ dir[d].tasks \in [Task -> {"not-started", "finished", "failed"}]
  /\ DOMAIN child \subseteq DOMAIN dir
  /\ \A d \in DOMAIN child : child[d].state \in {"running", "finished", "failed", "stopped"}
  /\ {disk.state, mem.state} \subseteq {"not-started", "running", "finished", "failed", "stopped"}
  /\ {disk.numFinished, disk.numFailed} \subseteq Nat
  /\ pc \in {"idle", "trip", "copy", "reset", "ended", "finalize", "spawn", "gather", "conclude", "delete"}
  /\ dispatcher \in {"gone", "running", "stopping"}
  /\ forced \in {"no", "pending", "yes"} /\ (gathered # {} => gathered \subseteq Instances)
  /\ runs \in 0..MaxRuns /\ fails \in 0..MaxFailed /\ cut \in {"none", "stop", "crash"}

\* A loop that ran without interruption has gone through all its indexes, once
\* and in order, each trip on the results of the one before, and the result of
\* the last one is in the loop's own directory; it is "finished" only if no
\* task of any trip failed (_loopHandler, _loopFinalize and loopUtils.js).
LoopDelivers ==
  Type \in Loop /\ Resting /\ cut = "none" /\ forced = "no" /\ disk.state \in {"finished", "failed"}
  => LET all == Indexes(Trips) IN
     /\ Trips = Len(all)
     /\ disk.state = "finished" <=> dir[Template].trail = Results(all)

\* Whatever is interrupted, stopped or broken off: no directory ever holds
\* the same result twice, nor those of a later trip before an earlier one's.
\* So no task that ended well is executed again in the same place.
InOrder ==
  \A d \in DOMAIN dir :
    LET trail == dir[d].trail
        Place(i) == CASE Type = "foreach" -> At(i)
                      [] Type = "for" -> i * component.step
                      [] Type = "while" -> i
                      [] OTHER -> 0
    IN \A a, b \in DOMAIN trail :
         a < b => \/ Place(trail[a][1]) < Place(trail[b][1])
                  \/ (trail[a][1] = trail[b][1] /\ trail[a][2] # trail[b][2])

\* Between two trips, and after the last, an uninterrupted loop has exactly
\* the instances it is to keep: the newest ones (keepLoopInstance).  The trip
\* that comes next still finds the directory it is to be made from.
Kept ==
  Type \in Loop /\ pc = "idle" /\ cut = "none" /\ disk.state # "not-started"
  => LET is == Indexes(Trips)
         over == disk.state \in {"finished", "failed"}
         keep == CASE component.keep = Null -> Trips
                   [] component.keep = 0 -> IF over THEN 0 ELSE 1
                   [] OTHER -> component.keep
     IN DOMAIN dir \ {Template} = {is[k] : k \in {j \in 1..Trips : j > Trips - keep}}

\* A workflow that is recorded "finished", and was not stopped, has run every
\* one of its tasks once, also when the server ended during earlier runs; one
\* recorded "failed" has a task that failed.
WorkflowWhole ==
  Type = "workflow" /\ cut # "stop" /\ Resting
  => /\ disk.state = "finished" =>
          /\ Range(dir[Template].trail) = {Template} \X Task
          /\ Len(dir[Template].trail) = NTask
     /\ disk.state = "failed" => \E t \in Task : dir[Template].tasks[t] = "failed"

\* A study that was not stopped is "finished" only when exactly the points of
\* its parameter space have an instance, every task of each was executed, and
\* all results are gathered, also when the server ended during earlier runs;
\* the counters tell the instances apart.
StudyCovers ==
  Type = "parameterStudy" /\ cut # "stop" /\ Resting /\ disk.state \in {"finished", "failed"}
  => LET points == Product(component.axes) IN
     /\ disk.numFinished + disk.numFailed = Cardinality(points)
     /\ disk.state = "finished" => gathered = points
     /\ ~component.deleteLoopInstance =>
          /\ DOMAIN dir = points \cup {Template}
          /\ disk.numFinished = Cardinality({v \in points : AllRan(v)})

\* paramVecGenerator() yields every point of a parameter space exactly once:
\* as many vectors as it says there are, and no two alike.
SpaceExact ==
  runs = 0 => \A axes \in Spaces :
    /\ {getNthParamVec(n, axes) : n \in 0..(getParamSize(axes) - 1)} = Product(axes)
    /\ getParamSize(axes) = Cardinality(Product(axes))

\* What is recorded as ended is whole, for the components that are a set of
\* parts without an order; for a study, over a space that is enumerated exactly.
Whole == WorkflowWhole /\ StudyCovers /\ SpaceExact

\* A run comes to its end, however its trips and instances end.
Concludes == (dispatcher = "running") ~> (dispatcher = "gone")

-----------------------------------------------------------------------------
(* What the documents or the code's comments ask for and the code does not  *)
(* keep: no run checks it, README.md says how it fails.                     *)

\* What is recorded "finished" has run all of its tasks.
FinishedHasRun == Type = "workflow" /\ disk.state = "finished" => AllRan(Template)

=============================================================================
