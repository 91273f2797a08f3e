----------------------------- MODULE Validation -----------------------------
(***************************************************************************)
(* What the validation before a run promises about the run.                *)
(*                                                                         *)
(* runValidationPhase() asks validateComponents() for a report; a project  *)
(* with an error that cannot be ignored is not run.  The validators        *)
(* (validateComponents.js, dependencyGraphValidator.js, taskValidator.js,  *)
(* componentTypeValidator.js, componentResourceValidator.js and            *)
(* fileValidator.js) and the code that uses what they have looked at       *)
(* (dispatcher.js, loopUtils.js, executerManager.js, dispatchUtils.js) are *)
(* different files that have to agree.                                     *)
(*                                                                         *)
(* One workflow w, chosen at the beginning, is validated and, if accepted, *)
(* run.  The run is coarser than in module Dispatcher: a component is      *)
(* handled in one step, and only its settings make it fail.                *)
(***************************************************************************)
EXTENDS Integers, Sequences, FiniteSets, SequencesExt

CONSTANTS
  Workflow,     \* the workflows that are looked at
  RemoteHost,   \* names of the hosts in the database of remote hosts
  Scheduled,    \* those the job scheduler of which is defined
  BulkHost,     \* those set to use, and with a scheduler that supports, bulkjobs
  StepHost      \* the same for stepjobs

ASSUME HostAssumption ==
  /\ BulkHost \union StepHost \subseteq Scheduled /\ Scheduled \subseteq RemoteHost
  /\ "localhost" \notin RemoteHost

\* A workflow: its components in the order getChildren() reads them, their
\* links, the disabled ones, those fed by an inputFile of the workflow itself
\* and whether the workflow is behind an "if"; the settings of a component are
\* a record that depends on its kind.
Component(w) == DOMAIN w.kind
Previous(w, c) == {p \in Component(w) : c \in w.next[p] \union w.else[p]}
Source(w, c)   == {p \in Component(w) : c \in w.file[p]}
Pred(w, c)     == Previous(w, c) \union Source(w, c)

WithoutLinks == {"source", "viewer", "storage"}

-----------------------------------------------------------------------------
(* The dependency graph.                                                   *)

\* mutant: files are not looked at
Mut_getNextComponents(w, c) ==
  SelectSeq(w.order, LAMBDA d : d \in w.next[c] \union w.else[c])

getNextComponents(w, c) ==
  SelectSeq(w.order, LAMBDA d : d \in w.next[c] \union w.else[c] \union w.file[c])

\* The depth-first search from c.  A search s has the colours of the components
\* met so far, its path and whether it has found a cycle.
RECURSIVE isCycleGraph(_, _, _)
isCycleGraph(w, c, s) ==
  LET Visit(t, d) ==
        CASE t.found \/ t.colour[d] = "black" -> t
          [] ~t.found /\ t.colour[d] = "gray" ->
               [t EXCEPT !.path = Append(@, d), !.found = TRUE]
          [] OTHER -> isCycleGraph(w, d, t)
      t == FoldLeft(Visit, [s EXCEPT !.colour[c] = "gray", !.path = Append(@, c)],
                    getNextComponents(w, c))
  IN IF t.found THEN t ELSE [t EXCEPT !.colour[c] = "black", !.path = Front(@)]

\* The part of a path after the first visit of its last component.
getComponentIDsInCycle(path) ==
  LET n == Len(path)
      back == {i \in 1 .. n - 1 : \A j \in i + 1 .. n - 1 : path[j] # path[n]}
  IN {path[i] : i \in back}

\* One search from every component no earlier search has met.  A search that
\* finds a cycle leaves the components of its path gray.
getCycleGraph(w) ==
  LET Search(s, c) ==
        IF s.colour[c] # "white" THEN s
        ELSE LET t == isCycleGraph(w, c,
                        [colour |-> s.colour, path |-> <<>>, found |-> FALSE])
             IN [colour |-> t.colour, ids |-> s.ids \union getComponentIDsInCycle(t.path)]
  IN FoldLeft(Search,
       [colour |-> [c \in Component(w) |-> "white"], ids |-> {}], w.order).ids

\* A set of components with everything upstream of it.
RECURSIVE Upstream(_, _)
Upstream(w, C) ==
  LET D == C \union UNION {Pred(w, c) : c \in C}
  IN IF D = C THEN C ELSE Upstream(w, D)

\* The components isBehindIfComponent() tracks back to an "if".
BehindIf(w) ==
  {c \in Component(w) : \E d \in Upstream(w, {c}) :
     \/ d \in w.parentFed /\ w.behindIf
     \/ \E p \in Pred(w, d) : w.kind[p] = "if"}

isInitialComponent(w, c) ==
  /\ c \notin BehindIf(w)
  /\ CASE w.kind[c] \in {"storage", "source"} -> w.file[c] # {}
       [] w.kind[c] = "viewer" -> TRUE
       [] OTHER -> Pred(w, c) = {}

-----------------------------------------------------------------------------
(* The settings of a component, a record by kind:                          *)
(*   task          host, useJobScheduler, script, checker, submitOption,   *)
(*                 sourceScript, connected (to the host, at validation)    *)
(*   bulkjobTask   host, useJobScheduler, script, submitOption,            *)
(*                 sourceScript, parameterFile ("number" if                *)
(*                 usePSSettingFile is false), range of bulk numbers,      *)
(*                 condition ("off" without manualFinishCondition)         *)
(*   stepjob       host, useJobScheduler, submitOption, and of one of its  *)
(*                 stepjobTasks: script, sourceScript, head (nothing goes  *)
(*                 before it), dependency ("off" without useDependency,    *)
(*                 else whether its dependencyForm is set)                 *)
(*   for           start, step, end and number, those that are numbers     *)
(*                 (the others are null, which counts as 0)                *)
(*   foreach       indexList, isArray                                      *)
(*   if, while     condition                                               *)
(*   storage       host, storagePath                                       *)
(*   parameterStudy  parameterFile; nodes and targets: whether those it    *)
(*                 names in scatter/gather and targetFiles are children    *)
(* and plain for the others.  A file is "unset", "missing", "directory" or *)
(* "file"; a parameter file is "notJSON", "invalid" or "valid" instead.    *)

checkScript(s)  == s.script = "file"
checkChecker(s) == s.checker = "file"

\* Without a connection nobody looks at the host.
checkSourceScript(s) ==
  s.host \in RemoteHost /\ (s.connected => s.sourceScript = "file")

checkPSSettingFile(s)    == s.parameterFile = "valid"
checkPSNodeReferences(s) == s.nodes = "children"      \* targetFiles are not looked at

validateConditionalCheck(s) == s.condition \in {"file", "expression"}

validateTask(s) ==
  /\ s.host = "localhost" \/ s.host \in RemoteHost
  /\ s.host # "localhost" /\ s.useJobScheduler =>
       s.host \in Scheduled /\ s.submitOption # "queue"
  /\ s.useJobScheduler /\ s.sourceScript # "unset" => checkSourceScript(s)
  /\ checkScript(s)
  /\ s.checker # "unset" => checkChecker(s)

validateBulkjobTask(s) ==
  /\ s.useJobScheduler
  /\ s.host \in BulkHost
  /\ IF s.parameterFile = "number" THEN s.range = "forward"
     ELSE s.parameterFile # "unset"
  /\ s.condition # "off" => validateConditionalCheck(s)
  /\ checkScript(s)

validateStepjob(s) == s.useJobScheduler /\ s.host \in StepHost

validateStepjobTask(s) == (s.dependency # "off" => ~s.head) /\ checkScript(s)

\* mutant: a step of zero goes through
Mut_validateForLoop(s) ==
  /\ s.number = {"start", "step", "end"}
  /\ (s.end - s.start) * s.step >= 0

validateForLoop(s) ==
  /\ s.number = {"start", "step", "end"}
  /\ s.step # 0 /\ (s.end - s.start) * s.step >= 0

validateForeach(s) == s.isArray /\ s.indexList # <<>>

validateStorage(s) ==
  IF s.host = "localhost" THEN s.storagePath = "directory"
  ELSE s.storagePath \notin {"unset", "blank"} /\ s.host \in RemoteHost

validateParameterStudy(s) == checkPSSettingFile(s) /\ checkPSNodeReferences(s)

validateComponent(w, c) ==
  LET s == w.setting[c]
  IN CASE w.kind[c] = "task" -> validateTask(s)
       [] w.kind[c] = "bulkjobTask" -> validateBulkjobTask(s)
       [] w.kind[c] = "stepjob" -> validateStepjob(s) /\ validateStepjobTask(s)
       [] w.kind[c] = "for" -> validateForLoop(s)
       [] w.kind[c] = "foreach" -> validateForeach(s)
       [] w.kind[c] \in {"if", "while"} -> validateConditionalCheck(s)
       [] w.kind[c] = "storage" -> validateStorage(s)
       [] w.kind[c] = "parameterStudy" -> validateParameterStudy(s)
       [] OTHER -> TRUE

-----------------------------------------------------------------------------
(* What comes of the settings when the component is run: "finished",       *)
(* "failed", "thrown" (the handler throws and the run ends in error),      *)
(* "stuck" (a task that never leaves the state running), "endless" (a      *)
(* loop, or a stepjob with a task that is stuck), "amiss" (it runs, but    *)
(* not what, not where or not how the user asked).                         *)

forGetNextIndex(s, i) == IF "start" \in s.number THEN i + s.step ELSE s.start

forIsFinished(s, i) == (i > s.end /\ s.step > 0) \/ (i < s.end /\ s.step < 0)

RECURSIVE ForEnds(_, _, _)
ForEnds(s, i, seen) ==
  \/ forIsFinished(s, i)
  \/ i \notin seen /\ ForEnds(s, forGetNextIndex(s, i), seen \union {i})

foreachGetNextIndex(s, i) ==
  LET n == SelectInSeq(s.indexList, LAMBDA e : e = i)
  IN IF n \in {0, Len(s.indexList)} THEN "null" ELSE s.indexList[n + 1]

foreachIsFinished(s, i) == i \notin ToSet(s.indexList)

RECURSIVE ForeachEnds(_, _, _)
ForeachEnds(s, i, seen) ==
  \/ foreachIsFinished(s, i)
  \/ i \notin seen /\ ForeachEnds(s, foreachGetNextIndex(s, i), seen \union {i})

\* _dispatchTask() makes script and checker executable, exec() looks the host
\* up, createExecuter() its scheduler; then the script or the job is run.
TaskOutcome(s) ==
  CASE s.script \in {"unset", "missing"} -> "thrown"
    [] s.checker \in {"missing", "absolute"} -> "thrown"
    [] s.useJobScheduler /\ s.host \notin Scheduled -> "stuck"
    [] s.script = "directory" -> "failed"
    [] s.useJobScheduler /\ s.sourceScript = "missing" -> "failed"
    [] s.host \notin RemoteHost \union {"localhost"} -> "amiss"
    [] s.useJobScheduler /\ s.submitOption = "queue" -> "amiss"
    [] s.checker = "directory" -> "failed"
    [] OTHER -> "finished"

\* _bulkjobHandler() reads the parameter file first.  The submit command takes
\* the source script and the submit option as they are; a job that has ended is
\* judged by decideFinishState(), for which an unset condition holds.
BulkOutcome(s) ==
  CASE s.parameterFile \notin {"number", "valid"} -> "thrown"
    [] s.script \in {"unset", "missing"} -> "thrown"
    [] s.useJobScheduler /\ s.host \notin Scheduled -> "stuck"
    [] s.script = "directory" -> "failed"
    [] s.useJobScheduler /\ s.sourceScript = "missing" -> "failed"
    [] ~s.useJobScheduler \/ s.host \notin BulkHost -> "amiss"
    [] s.parameterFile = "number" /\ s.range # "forward" -> "failed"
    [] s.submitOption = "queue" -> "amiss"
    [] s.condition = "directory" -> "failed"
    [] s.condition = "unset" -> "amiss"
    [] OTHER -> "finished"

\* _dispatchTask() gives the tasks of a stepjob its host and its queue, but not
\* its submit option; makeStepOpt() writes the dependency form as it is.
StepjobOutcome(s) ==
  CASE s.script \in {"unset", "missing"} -> "thrown"
    [] s.host \notin Scheduled -> "endless"
    [] s.script = "directory" \/ s.sourceScript = "missing" -> "failed"
    [] s.host \notin StepHost \/ s.submitOption # "unset" -> "amiss"
    [] s.dependency = "unset" \/ (s.head /\ s.dependency = "set") -> "amiss"
    [] OTHER -> "finished"

\* evalCondition() of an unset condition is an Error, which is true; a
\* directory is executed, which is false.
ConditionOutcome(kind, s) ==
  CASE s.condition = "unset" -> IF kind = "while" THEN "endless" ELSE "amiss"
    [] s.condition = "directory" -> "amiss"
    [] OTHER -> "finished"

\* _storageHandler() makes a missing local directory, and does nothing without
\* an input.
StorageOutcome(s, hasInput) ==
  CASE ~hasInput -> "finished"
    [] s.host = "localhost" ->
         IF s.storagePath \in {"missing", "directory"} THEN "finished" ELSE "thrown"
    [] s.host \notin RemoteHost -> "thrown"
    [] s.storagePath = "file" -> "thrown"
    [] s.storagePath \in {"unset", "blank"} -> "amiss"
    [] OTHER -> "finished"

Outcome(w, c) ==
  LET s == w.setting[c]
      Ends(b) == IF b THEN "finished" ELSE "endless"
  IN CASE w.kind[c] = "task" -> TaskOutcome(s)
       [] w.kind[c] = "bulkjobTask" -> BulkOutcome(s)
       [] w.kind[c] = "stepjob" -> StepjobOutcome(s)
       [] w.kind[c] = "for" -> Ends(ForEnds(s, s.start, {}))
       [] w.kind[c] = "foreach" ->
            IF ~s.isArray THEN "thrown"
            ELSE Ends(s.indexList = <<>> \/ ForeachEnds(s, s.indexList[1], {}))
       [] w.kind[c] \in {"if", "while"} -> ConditionOutcome(w.kind[c], s)
       [] w.kind[c] = "storage" -> StorageOutcome(s, Source(w, c) # {})
       [] w.kind[c] = "parameterStudy" ->
            IF s.parameterFile = "valid" /\ s.nodes = "children" /\ s.targets = "children"
            THEN "finished" ELSE "thrown"
       [] OTHER -> "finished"

-----------------------------------------------------------------------------
VARIABLES
  w,       \* the workflow
  phase,   \* "editing", "accepted", "rejected", then "finished" or "error"
  report,  \* what validateComponents() has found: the invalid components
           \* (a single workflow with the name "parent" stands for its own entry)
  list,    \* currentSearchList, as a set
  state,   \* how far each component has come: "not-started" or its outcome
  side     \* what each "if" that was evaluated has chosen

vars == <<w, phase, report, list, state, side>>

Disabled == w.disable
Invalid  == {c \in Component(w) \ Disabled : ~validateComponent(w, c)}
Initial  == {c \in Component(w) : isInitialComponent(w, c)}

TypeOK ==
  /\ w \in Workflow
  /\ phase \in {"editing", "accepted", "rejected", "finished", "error"}
  /\ report \in [invalid : SUBSET Component(w), cycle : SUBSET Component(w),
                 noInitial : BOOLEAN]
  /\ list \subseteq Component(w)
  /\ state \in [Component(w) -> {"not-started", "finished", "failed", "thrown",
                                 "stuck", "endless", "amiss"}]
  /\ side \in [Component(w) -> {"none", "next", "else"}]

\* A component the run is over with: isFinishedState().
Over(c) == state[c] \in {"finished", "failed", "thrown", "amiss"}

\* _isReady(): what is disabled is not waited for.
IsReady(c) ==
  w.kind[c] = "source" \/ \A p \in Pred(w, c) \ Disabled : Over(p)

\* _getBehindIfComponentList(): a file does not start what an "if" decides on.
StartedByFile(c) ==
  {d \in w.file[c] : ~(/\ w.kind[d] \notin {"viewer", "storage"}
                       /\ \E p \in Previous(w, d) : w.kind[p] = "if")}

\* _addNextComponent()
Successors(c, chosen) ==
  StartedByFile(c) \union
  (CASE w.kind[c] \in WithoutLinks -> {}
     [] chosen = "else" -> w.else[c]
     [] OTHER -> w.next[c])

\* mutant: one disabled component before it is enough
Mut_hasDisabledDependency(c) == \E p \in Pred(w, c) : p \in Disabled

\* _hasDisabledDependency(): nothing but disabled components upstream, up to
\* components that have an input from outside.
RECURSIVE hasDisabledDependency(_)
hasDisabledDependency(c) ==
  /\ Pred(w, c) # {} \/ c \in w.parentFed
  /\ \A p \in Pred(w, c) : p \in Disabled /\ hasDisabledDependency(p)

Init ==
  /\ w \in Workflow
  /\ phase = "editing"
  /\ report = [invalid |-> {}, cycle |-> {}, noInitial |-> FALSE]
  /\ list = {}
  /\ state = [c \in Component(w) |-> "not-started"]
  /\ side = [c \in Component(w) |-> "none"]

\* runValidationPhase() with recursiveValidateComponents(): disabled components
\* are not validated, but they count as initial ones; then the first part of
\* _dispatch().
Validate ==
  /\ phase = "editing"
  /\ report' = [invalid |-> Invalid, cycle |-> getCycleGraph(w),
                noInitial |-> Initial = {}]
  /\ IF report'.invalid = {} /\ report'.cycle = {} /\ ~report'.noInitial
     THEN phase' = "accepted" /\ list' = Initial
     ELSE phase' = "rejected" /\ UNCHANGED list
  /\ UNCHANGED <<w, state, side>>

\* One pass of _dispatch(): whatever is ready is handled to the end.  A handler
\* that throws ends the run; a loop that goes on stays in the list; a task that
\* is stuck has had its successors added when it was dispatched.
Dispatch ==
  LET ready  == {c \in list \ Disabled : state[c] # "endless" /\ IsReady(c)}
      ifs    == {c \in ready : w.kind[c] = "if"}
      came   == [c \in ready |-> Outcome(w, c)]
      goOn   == {c \in ready : came[c] = "endless"}
      handed == ready \ goOn
  IN /\ phase = "accepted"
     /\ ready # {} \/ list \intersect Disabled # {}
     /\ \E chosen \in [ifs -> {"next", "else"}] :
          LET Chosen(c) == IF c \in ifs THEN chosen[c] ELSE "next"
              added == UNION {Successors(c, Chosen(c)) : c \in handed} \ list
              rest  == (list \ (ready \union Disabled)) \union goOn
          IN /\ side' = [c \in Component(w) |-> IF c \in ifs THEN chosen[c] ELSE side[c]]
             /\ list' = {c \in rest \union added : ~hasDisabledDependency(c)}
     /\ state' = [c \in Component(w) |-> IF c \in ready THEN came[c] ELSE state[c]]
     /\ phase' = IF \E c \in ready : came[c] = "thrown" THEN "error" ELSE "accepted"
     /\ UNCHANGED <<w, report>>

\* _isFinished()
Conclude ==
  /\ phase = "accepted" /\ list = {}
  /\ phase' = "finished"
  /\ UNCHANGED <<w, report, list, state, side>>

Next == Validate \/ Dispatch \/ Conclude

Spec == Init /\ [][Next]_vars

-----------------------------------------------------------------------------
(* Properties.                                                             *)

Downstream(c) ==
  {d \in Component(w) : d # c /\ c \in Upstream(w, {d})}
OnCycle == {c \in Component(w) : \E p \in Pred(w, c) : c \in Upstream(w, {p})}

\* The search of validateComponents() for cycles finds one if and only if some
\* component depends on itself, and what it reports leads into a cycle.  (It
\* need not be on one: what hangs in front of a cycle found earlier is reported
\* too.)
CycleExact ==
  phase # "editing" =>
    /\ report.cycle = {} <=> OnCycle = {}
    /\ \A c \in report.cycle : c \in OnCycle \/ Downstream(c) \intersect OnCycle # {}

\* Nothing more can happen in the run.
AtRest ==
  \/ phase = "finished"
  \/ /\ phase = "accepted"
     /\ \A c \in list \ Disabled : state[c] = "endless" \/ ~IsReady(c)
     /\ list \intersect Disabled = {}

NotRun == {c \in Component(w) \ Disabled : state[c] = "not-started"}

\* The reasons for which a component is left out by itself: an "if" before it
\* has chosen the other side, or is disabled; everything before it is disabled;
\* it only holds files and nobody reads them; or it gets its files from a
\* workflow that is behind an "if".
LeftOut(c) ==
  \/ \E p \in Previous(w, c) : w.kind[p] = "if" /\
       \/ p \in Disabled
       \/ side[p] = "next" /\ c \notin w.next[p]
       \/ side[p] = "else" /\ c \notin w.else[p]
  \/ Pred(w, c) # {} /\ Pred(w, c) \subseteq Disabled
  \/ Pred(w, c) = {} /\ w.kind[c] \in {"source", "storage"} /\ w.file[c] = {}
  \/ Pred(w, c) = {} /\ c \in w.parentFed /\ w.behindIf

\* C with the components that were not run and wait for one of them.
RECURSIVE Held(_)
Held(C) ==
  LET D == C \union {c \in NotRun : Pred(w, c) \intersect C # {}}
  IN IF D = C THEN C ELSE Held(D)

\* An enabled component of an accepted project that was not run when the run
\* has come to rest is left out by itself or waits, directly or through others
\* that were not run, for one that is, or for one that never ends.
Explained ==
  AtRest =>
    NotRun \subseteq Held({c \in NotRun : LeftOut(c)} \union
                          {c \in Component(w) : state[c] \in {"stuck", "endless"}})

\* What the validators do not look at.
Gap(c) ==
  LET s == w.setting[c]
  IN CASE w.kind[c] = "task" ->
            \/ s.host = "localhost" /\ s.useJobScheduler
            \/ ~s.connected /\ s.useJobScheduler /\ s.sourceScript = "missing"
       [] w.kind[c] = "bulkjobTask" ->
            \/ s.parameterFile \notin {"number", "valid"}
            \/ s.sourceScript = "missing" \/ s.submitOption = "queue"
       [] w.kind[c] = "stepjob" ->
            \/ s.sourceScript = "missing" \/ s.submitOption # "unset"
            \/ ~s.head /\ s.dependency = "unset"
       [] w.kind[c] = "foreach" -> \E i, j \in DOMAIN s.indexList :
                                     i # j /\ s.indexList[i] = s.indexList[j]
       [] w.kind[c] = "parameterStudy" -> s.targets # "children"
       [] w.kind[c] = "storage" -> s.host # "localhost" /\ s.storagePath = "file"
       [] OTHER -> FALSE

\* In a project validateComponents() has accepted, every component that is run
\* comes to the end its settings ask for, but for those whose settings no
\* validator looks at.
KeepsPromise ==
  \A c \in Component(w) : Gap(c) \/ state[c] \in {"not-started", "finished"}
=============================================================================
