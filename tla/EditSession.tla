---------------------------- MODULE EditSession ----------------------------
(***************************************************************************)
(* How what a user does in the browser gets into the project.              *)
(*                                                                         *)
(* The client (Workflow.vue, tabEditor.vue, textEditorManager.vue, the     *)
(* property panel and its copy of a component in store/index.js) sends     *)
(* saves of texts, edits of components and operations on the project over  *)
(* one connection that keeps their order.  The server debounces the saves  *)
(* (rapid.js), puts the edits into one queue (workflowEditor.js), the      *)
(* operations into another (projectController.js), and a run goes on       *)
(* beside all three.  They meet in the files of the project and in its     *)
(* repository (module Repository).                                         *)
(*                                                                         *)
(* There is one user, one text file and one component.  A text and a value *)
(* of a property are the number of the change that made them; the first    *)
(* ones are 0.  What the server tells the client arrives at once.          *)
(***************************************************************************)
EXTENDS Repository, Sequences

CONSTANTS
  Null,
  Answers,    \* what the user may answer about unsaved files
  Invalid,    \* values of the property with which validation fails
  Careless,   \* does the user do what loses or resurrects edits?
  MaxKeys,    \* bound: changes of the text
  MaxChanges, \* bound: changes of the property
  MaxOps,     \* bound: operations asked for
  MaxRuns     \* bound: runs

ASSUME AnswersAssumption == Answers \subseteq {"cancel", "discard", "commit", "update"}
ASSUME InvalidAssumption == Invalid \subseteq Nat
ASSUME CarelessAssumption == Careless \in BOOLEAN
ASSUME BoundAssumption == {MaxKeys, MaxChanges, MaxOps, MaxRuns} \subseteq Nat

Operations == {"runProject", "stopProject", "cleanProject", "revertProject", "saveProject"}
ProjectStates == {"not-started", "preparing", "running", "stopped", "finished", "failed"}

allowedOperations ==
  [s \in ProjectStates |->
     CASE s = "not-started" -> {"runProject", "revertProject", "saveProject"}
       [] s \in {"preparing", "finished"} -> {"cleanProject"}
       [] s = "running" -> {"stopProject"}
       [] s \in {"stopped", "failed"} -> {"runProject", "cleanProject"}]

VARIABLES
  repo,     \* the files text, json (of the component) and project
  queue,    \* edits waiting in the queue of the project
  editing,  \* the edit in hand: what it has read and what it does next
  enabled,  \* is the queue of edits started?
  pending,  \* entry of saveFileTimers: its text; has its timer fired?
  flights,  \* pending saves being flushed, by the timer and by a run
  ops,      \* operations waiting in projectOperationQueues
  op,       \* the operation in hand and where it is
  runner,   \* where runDispatcher() is
  memory,   \* the component as the dispatcher knows it
  wire,     \* what the client has sent and the server has not received
  tab,      \* the text in the editor, as saved, as opened; autoSaveTimer
  panel,    \* selectedComponent and copySelectedComponent
  seen,     \* state and readOnly as the client knows them
  count,    \* history: changes, operations and runs so far
  meant,    \* history: the text as the user left it
  asked,    \* history: the component as the server was asked to make it
  due,      \* history: what a run has to take
  mark,     \* history: count when the project was to be reset
  void      \* history: what was reset

edits   == <<queue, editing, enabled>>
saves   == <<pending, flights>>
opvars  == <<ops, op>>
run     == <<runner, memory>>
history == <<meant, asked, due, mark, void>>
vars == <<repo, edits, saves, opvars, run, wire, tab, panel, seen, count, history>>

tree == repo.tree

\* The kinds of values.
Json == [prop : Nat, link : BOOLEAN, done : BOOLEAN]
Files == [text : Nat, json : Json, project : [state : ProjectStates, readOnly : BOOLEAN]]
EditMessage == [kind : {"update"}, prop : Nat, done : BOOLEAN] \union [kind : {"link"}]
Message == EditMessage \union [kind : {"save"}, text : Nat] \union [kind : {"op"}, name : Operations]
InHand == [edit : EditMessage, read : Json, at : {"write", "add"}]
Timer == [text : Nat, fired : BOOLEAN]
Flushing == [text : Nat, own : BOOLEAN]
InProgress ==
  [name : {"runProject"}, at : {"sentinel", "flushing", "commit"}]
  \union [name : {"cleanProject", "revertProject"}, at : {"ask", "asked", "clear", "drain"}]
  \union [name : {"stopProject", "saveProject"}, at : {"go"}]
Tab == [doc : Nat, content : Nat, initial : Nat, timer : BOOLEAN]
Panel == [selected : Json, copied : Json]
Due == [prop : Nat, link : BOOLEAN, texts : SUBSET Nat]
Counts == [key : Nat, change : Nat, op : Nat, run : Nat]

ASSUME NullAssumption ==
  Null \notin Json \union InHand \union Timer \union Flushing \union InProgress
             \union Tab \union Panel \union Due \union Counts

Sentinel == [kind |-> "sentinel"]
NoFlight == [timer |-> Null, run |-> Null]

\* Everything is of its kind; an operation in hand has got to a place of its own.
TypeOK ==
  /\ repo \in [tree : Files, index : Files, head : Files]
  /\ queue \in Seq(EditMessage \union {Sentinel}) /\ editing \in InHand \union {Null}
  /\ enabled \in BOOLEAN
  /\ pending \in Timer \union {Null}
  /\ flights \in [timer : Flushing \union {Null}, run : Flushing \union {Null}]
  /\ ops \in Seq(Operations) /\ op \in InProgress \union {Null}
  /\ runner \in {"idle", "accepted", "preparing", "running"} /\ memory \in Json \union {Null}
  /\ wire \in Seq(Message)
  /\ tab \in Tab \union {Null} /\ panel \in Panel \union {Null}
  /\ seen \in [state : ProjectStates, readOnly : BOOLEAN]
  /\ count \in Counts
  /\ meant \in Nat /\ asked \in Json /\ due \in Due \union {Null} /\ mark \in Counts \union {Null}
  /\ void \in [text : SUBSET Nat, prop : SUBSET Nat]

Init ==
  /\ repo = newRepository(
       [text |-> 0, json |-> [prop |-> 0, link |-> FALSE, done |-> FALSE],
        project |-> [state |-> "not-started", readOnly |-> FALSE]])
  /\ queue = <<>> /\ editing = Null /\ enabled = TRUE
  /\ pending = Null /\ flights = NoFlight
  /\ ops = <<>> /\ op = Null /\ runner = "idle" /\ memory = Null
  /\ wire = <<>> /\ tab = Null /\ panel = Null
  /\ seen = [state |-> "not-started", readOnly |-> FALSE]
  /\ count = [key |-> 0, change |-> 0, op |-> 0, run |-> 0]
  /\ meant = 0 /\ asked = tree.json /\ due = Null /\ mark = Null
  /\ void = [text |-> {}, prop |-> {}]

-----------------------------------------------------------------------------
(* The client's copy of the component in the property panel.               *)

hasEdits(p) == p.selected # p.copied

\* A "workflow" event: the copy follows only if nothing in it was changed.
Shown(json) ==
  IF panel = Null THEN Null
  ELSE [selected |-> json, copied |-> IF hasEdits(panel) THEN panel.copied ELSE json]

\* The whole copy is sent, and only when the panel is left.
Update(p) == [kind |-> "update", prop |-> p.copied.prop, done |-> p.copied.done]
Leaving(p) == IF p # Null /\ hasEdits(p) THEN <<Update(p)>> ELSE <<>>

Sent(names) ==
  \/ \E k \in DOMAIN wire : wire[k].kind = "op" /\ wire[k].name \in names
  \/ \E k \in DOMAIN ops : ops[k] \in names
  \/ op # Null /\ op.name \in names
Resetting == {"cleanProject", "revertProject"}

\* A clean shows a spinner over the screen.  Nothing but care keeps the user from
\* editing while a revert goes on, or while a run is prepared: the dispatcher
\* writes over what it has not read.
MayEdit ==
  /\ ~seen.readOnly
  /\ Careless \/ (~Sent(Resetting \union {"runProject"}) /\ runner = "idle")

OpenPanel ==
  /\ panel = Null /\ tab = Null /\ ~seen.readOnly /\ count.change < MaxChanges
  /\ Careless \/ ~Sent(Operations)
  /\ panel' = [selected |-> tree.json, copied |-> tree.json]
  /\ UNCHANGED <<repo, edits, saves, opvars, run, wire, tab, seen, count, history>>

ChangeProperty ==
  /\ panel # Null /\ tab = Null /\ MayEdit /\ count.change < MaxChanges
  /\ panel' = [panel EXCEPT !.copied.prop = count.change + 1]
  /\ count' = [count EXCEPT !.change = @ + 1]
  /\ UNCHANGED <<repo, edits, saves, opvars, run, wire, tab, seen, history>>

closeProperty ==
  /\ panel # Null /\ tab = Null
  /\ wire' = wire \o Leaving(panel) /\ panel' = Null
  /\ UNCHANGED <<repo, edits, saves, opvars, run, tab, seen, count, history>>

\* A link is drawn on the graph, whether or not the panel is open.
drawLink ==
  /\ MayEdit /\ tab = Null
  /\ ~tree.json.link /\ \A k \in DOMAIN wire : wire[k].kind # "link"
  /\ \A k \in DOMAIN queue : queue[k].kind # "link"
  /\ editing = Null
  /\ wire' = Append(wire, [kind |-> "link"])
  /\ UNCHANGED <<repo, edits, saves, opvars, run, tab, panel, seen, count, history>>

-----------------------------------------------------------------------------
(* The text editor, a dialog that hides the rest of the screen.            *)

Save(text) == [kind |-> "save", text |-> text]
Unsaved == IF tab.content = tab.doc THEN <<>> ELSE <<Save(tab.doc)>>

Settled == pending = Null /\ flights = NoFlight /\ \A k \in DOMAIN wire : wire[k].kind # "save"

\* openFile reads the file, without regard to a save that is pending.
onFile ==
  /\ tab = Null /\ ~seen.readOnly /\ count.key < MaxKeys
  /\ Careless \/ (Settled /\ ~Sent(Operations))
  /\ tab' = [doc |-> tree.text, content |-> tree.text, initial |-> tree.text, timer |-> FALSE]
  /\ UNCHANGED <<repo, edits, saves, opvars, run, wire, panel, seen, count, history>>

\* A careless user may take everything back by hand.
Type ==
  /\ tab # Null /\ ~seen.readOnly /\ count.key < MaxKeys
  /\ \E text \in {count.key + 1} \union (IF Careless THEN {tab.initial} ELSE {}) :
       /\ tab' = [tab EXCEPT !.doc = text, !.timer = TRUE]
       /\ meant' = text
  /\ count' = [count EXCEPT !.key = @ + 1]
  /\ UNCHANGED <<repo, edits, saves, opvars, run, wire, panel, seen, asked, due, mark,
                 void>>

autoSaveAll ==
  /\ tab # Null /\ tab.timer
  /\ wire' = wire \o Unsaved
  /\ tab' = [tab EXCEPT !.timer = FALSE]
  /\ UNCHANGED <<repo, edits, saves, opvars, run, panel, seen, count, history>>

\* confirmClose(), executeSaveAndClose(), closeTextEditor(): "auto-save has
\* already saved the file".
closeTab ==
  /\ tab # Null /\ (tab.doc = tab.initial \/ ~tab.timer \/ Careless)
  /\ tab' = Null
  /\ UNCHANGED <<repo, edits, saves, opvars, run, wire, panel, seen, count, history>>

\* "Keep changes and exit"
saveAllFiles ==
  /\ tab # Null /\ tab.doc # tab.initial
  /\ wire' = wire \o Unsaved /\ tab' = Null
  /\ UNCHANGED <<repo, edits, saves, opvars, run, panel, seen, count, history>>

\* The tab stays open with the button "Revert", and is closed by a discard.
revertAll ==
  /\ tab # Null /\ tab.doc # tab.initial
  /\ wire' = Append(wire, Save(tab.initial))
  /\ tab' \in {Null, [tab EXCEPT !.doc = tab.initial, !.timer = TRUE]}
  /\ meant' = tab.initial
  /\ UNCHANGED <<repo, edits, saves, opvars, run, panel, seen, count, asked, due, mark, void>>

-----------------------------------------------------------------------------
(* Operations as the client offers them.                                   *)

\* Nothing is on its way that a reset would not reach.
MayReset(o) ==
  /\ Settled /\ (panel # Null => ~hasEdits(panel))
  /\ ~Sent({"runProject"}) /\ runner = "idle"
  /\ o = "revertProject" => queue = <<>> /\ editing = Null /\ wire = <<>>

\* Only a run leaves the panel first.  A reset while a run is being prepared is
\* left to module ProjectController.
emitProjectOperation(o) ==
  /\ tab = Null /\ count.op < MaxOps
  /\ o \in allowedOperations[seen.state] /\ seen.state # "preparing"
  /\ o = "runProject" => ~seen.readOnly /\ count.run < MaxRuns
  /\ o \in Resetting => Careless \/ MayReset(o)
  /\ wire' = (IF o = "runProject" THEN wire \o Leaving(panel) ELSE wire)
             \o <<[kind |-> "op", name |-> o]>>
  /\ panel' = IF o = "runProject" THEN Null ELSE panel
  /\ mark' = IF o \in Resetting /\ ~Sent(Resetting) THEN count ELSE mark
  /\ count' = [count EXCEPT !.op = @ + 1]
  /\ UNCHANGED <<repo, edits, saves, opvars, run, tab, seen, meant, asked, due, void>>

\* The button that unlocks a project that is not running.
makeWritable ==
  /\ seen.readOnly /\ seen.state \in {"stopped", "finished", "failed"} /\ op = Null
  /\ repo' = write(repo, "project", [tree.project EXCEPT !.readOnly = FALSE])
  /\ seen' = repo'.tree.project
  /\ UNCHANGED <<edits, saves, opvars, run, wire, tab, panel, count, history>>

-----------------------------------------------------------------------------
(* The server: what it receives.                                           *)

\* mutant: the first of several texts is kept
Mut_onSaveFile(text) ==
  /\ pending' = IF pending = Null THEN [text |-> text, fired |-> FALSE] ELSE pending
  /\ flights' = [w \in DOMAIN flights |->
       IF flights[w] = Null THEN Null ELSE [flights[w] EXCEPT !.own = FALSE]]

\* The entry is replaced, and a flush in progress is not its flush any more.
onSaveFile(text) ==
  /\ pending' = [text |-> text, fired |-> FALSE]
  /\ flights' = [w \in DOMAIN flights |->
       IF flights[w] = Null THEN Null ELSE [flights[w] EXCEPT !.own = FALSE]]

ReceiveSave ==
  /\ wire # <<>> /\ Head(wire).kind = "save"
  /\ onSaveFile(Head(wire).text)
  /\ wire' = Tail(wire)
  /\ due' = IF due = Null THEN Null ELSE [due EXCEPT !.texts = @ \union {Head(wire).text}]
  /\ UNCHANGED <<repo, edits, opvars, run, tab, panel, seen, count, meant, asked, mark,
                 void>>

\* updateComponent() leaves the links to their own edits, but not the state.
Apply(json, e) ==
  IF e.kind = "link" THEN [json EXCEPT !.link = TRUE]
  ELSE [json EXCEPT !.prop = e.prop, !.done = e.done]

\* enqueueProjectOperation()
ReceiveEdit ==
  /\ wire # <<>> /\ Head(wire).kind \in {"update", "link"}
  /\ queue' = Append(queue, Head(wire)) /\ wire' = Tail(wire)
  /\ asked' = Apply(asked, Head(wire))
  /\ UNCHANGED <<repo, editing, enabled, saves, opvars, run, tab, panel, seen, count, meant,
                 due, mark, void>>

\* A repetition of the last one is ignored; a clean takes the place of all.
onProjectOperation ==
  LET o == Head(wire).name
      repeated == ops # <<>> /\ ops[Len(ops)] = o
  IN  /\ wire # <<>> /\ Head(wire).kind = "op"
      /\ wire' = Tail(wire)
      /\ ops' = IF repeated THEN ops ELSE IF o = "cleanProject" THEN <<o>> ELSE Append(ops, o)
      /\ UNCHANGED <<repo, edits, saves, op, run, tab, panel, seen, count, history>>

-----------------------------------------------------------------------------
(* The server: the queue of edits.                                         *)

BeginEdit ==
  /\ enabled /\ editing = Null /\ queue # <<>> /\ Head(queue) # Sentinel
  /\ queue' = Tail(queue)
  /\ editing' = [edit |-> Head(queue), read |-> tree.json, at |-> "write"]
  /\ UNCHANGED <<repo, enabled, saves, opvars, run, wire, tab, panel, seen, count, history>>

WriteEdit ==
  /\ editing # Null /\ editing.at = "write"
  /\ repo' = write(repo, "json", Apply(editing.read, editing.edit))
  /\ editing' = [editing EXCEPT !.at = "add"]
  /\ UNCHANGED <<queue, enabled, saves, opvars, run, wire, tab, panel, seen, count, history>>

\* sendWorkflow() at the end
EndEdit ==
  /\ editing # Null /\ editing.at = "add"
  /\ repo' = gitAdd(repo, "json")
  /\ editing' = Null /\ panel' = Shown(tree.json)
  /\ UNCHANGED <<queue, enabled, saves, opvars, run, wire, tab, seen, count, history>>

-----------------------------------------------------------------------------
(* The server: the debounced saves.                                        *)

\* flushPendingSave(): the text is written, and added later.
Flight(text) == [text |-> text, own |-> TRUE]

\* A flush takes less than the ten seconds of the next timer.
SaveTimer ==
  /\ pending # Null /\ ~pending.fired /\ flights.timer = Null
  /\ repo' = write(repo, "text", pending.text)
  /\ pending' = [pending EXCEPT !.fired = TRUE]
  /\ flights' = [flights EXCEPT !.timer = Flight(pending.text)]
  /\ UNCHANGED <<edits, opvars, run, wire, tab, panel, seen, count, history>>

\* The callbacks tell the editor what is saved.
EndFlush(w) ==
  /\ flights[w] # Null
  /\ repo' = gitAdd(repo, "text")
  /\ flights' = [flights EXCEPT ![w] = Null]
  /\ pending' = IF flights[w].own THEN Null ELSE pending
  /\ tab' = IF tab = Null THEN Null ELSE [tab EXCEPT !.content = flights[w].text]
  /\ UNCHANGED <<edits, opvars, run, wire, panel, seen, count, history>>

-----------------------------------------------------------------------------
(* The server: projectOperator(), one operation at a time.                 *)

At(where) == [op EXCEPT !.at = where]

\* What is not allowed in the recorded state is dropped.  Two runs at once are
\* left to module ProjectController.
TakeOperation ==
  LET o == Head(ops)
  IN  /\ op = Null /\ ops # <<>>
      /\ ops' = Tail(ops)
      /\ IF o \notin allowedOperations[tree.project.state]
         THEN UNCHANGED <<queue, op, due>>
         ELSE IF o = "runProject"
         THEN /\ runner = "idle"
              /\ op' = [name |-> o, at |-> "sentinel"]
              /\ queue' = Append(queue, Sentinel)
              /\ due' = [prop |-> asked.prop, link |-> asked.link,
                         texts |-> {IF pending = Null THEN tree.text ELSE pending.text}]
         ELSE /\ op' = [name |-> o, at |-> IF o \in Resetting THEN "ask" ELSE "go"]
              /\ UNCHANGED <<queue, due>>
      /\ UNCHANGED <<repo, editing, enabled, saves, run, wire, tab, panel, seen, count,
                     meant, asked, mark, void>>

FlushSaves ==
  IF pending = Null THEN UNCHANGED <<repo, saves>>
  ELSE /\ repo' = write(repo, "text", pending.text)
       /\ pending' = [pending EXCEPT !.fired = TRUE]
       /\ flights' = [flights EXCEPT !.run = Flight(pending.text)]

SentinelDone ==
  /\ enabled /\ editing = Null /\ queue # <<>> /\ Head(queue) = Sentinel
  /\ queue' = Tail(queue) /\ enabled' = FALSE /\ op' = At("flushing")
  /\ UNCHANGED <<editing, ops, run, wire, tab, panel, seen, count, history>>

\* mutant: a save that is pending is left to its timer
Mut_SentinelRuns == SentinelDone /\ UNCHANGED <<repo, saves>>

\* stopProjectEdits(): what was asked before is done, the queue is stopped and
\* the pending saves are flushed.
SentinelRuns == SentinelDone /\ FlushSaves

\* mutant: the queue is started only for a run that goes on
Mut_Refuse == UNCHANGED enabled

\* startProjectEdits() in the finally clause
Refuse == enabled' = TRUE

\* validateComponents() and gitCommit()
Validate ==
  /\ op # Null /\ op.at = "flushing" /\ flights.run = Null
  /\ IF tree.json.prop \in Invalid
     THEN Refuse /\ op' = Null /\ due' = Null
     ELSE op' = At("commit") /\ UNCHANGED <<enabled, due>>
  /\ UNCHANGED <<repo, queue, editing, saves, ops, run, wire, tab, panel, seen, count,
                 meant, asked, mark, void>>

CommitRun ==
  /\ op # Null /\ op.at = "commit"
  /\ repo' = gitCommit(repo)
  /\ enabled' = TRUE /\ op' = Null /\ due' = Null
  /\ runner' = "accepted" /\ count' = [count EXCEPT !.run = @ + 1]
  /\ UNCHANGED <<queue, editing, saves, ops, memory, wire, tab, panel, seen, meant, asked,
                 mark, void>>

\* askUnsavedFiles(): the user of "Save All" is taken at his word only after
\* the reset; "update" commits the selected files and asks again.
Ask ==
  /\ op # Null /\ op.at = "ask"
  /\ op' = At(IF askedAbout(repo) = {} THEN "clear" ELSE "asked")
  /\ UNCHANGED <<repo, edits, saves, ops, run, wire, tab, panel, seen, count, history>>

Answer ==
  /\ op # Null /\ op.at = "asked"
  /\ \E answer \in Answers :
       /\ repo' = IF answer = "update" THEN gitCommitFiles(repo, {"text"}) ELSE repo
       /\ op' = IF answer = "cancel" THEN Null ELSE At("clear")
  /\ UNCHANGED <<edits, saves, ops, run, wire, tab, panel, seen, count, history>>

\* mutant: what waits is done after the reset
Mut_clearProjectEdits == enabled' = FALSE /\ queue' = queue

clearProjectEdits == enabled' = FALSE /\ queue' = <<>>

\* A revert neither stops nor clears the edits.
BeginReset ==
  /\ op # Null /\ op.at = "clear"
  /\ op' = At("drain")
  /\ IF op.name = "cleanProject" THEN clearProjectEdits ELSE UNCHANGED <<queue, enabled>>
  /\ UNCHANGED <<repo, editing, saves, ops, run, wire, tab, panel, seen, count, history>>

\* cleanProject() or gitResetHEAD(), and the new workflow for the client.
Reset ==
  LET head == repo.head
  IN  /\ op # Null /\ op.at = "drain" /\ (op.name = "cleanProject" => editing = Null)
      /\ repo' = gitResetHEAD(repo)
      /\ enabled' = TRUE /\ op' = Null
      /\ panel' = Shown(head.json) /\ seen' = head.project
      /\ meant' = head.text /\ asked' = head.json
      /\ void' = [text |-> void.text \union ((1..mark.key) \ {head.text}),
                  prop |-> void.prop \union ((1..mark.change) \ {head.json.prop})]
      /\ UNCHANGED <<queue, editing, saves, ops, run, wire, tab, count, due, mark>>

\* setComponentStateR() writes what has another state.
onSaveProject ==
  LET recorded == writeAndAdd(repo, "project", [tree.project EXCEPT !.state = "not-started"])
      whole    == IF tree.json.done
                  THEN writeAndAdd(recorded, "json", [tree.json EXCEPT !.done = FALSE])
                  ELSE recorded
  IN  /\ op # Null /\ op = [name |-> "saveProject", at |-> "go"]
      /\ op' = Null
      /\ repo' = IF tree.project.readOnly THEN repo ELSE gitCommit(whole)
      /\ seen' = repo'.tree.project /\ panel' = Shown(repo'.tree.json)
      /\ UNCHANGED <<edits, saves, ops, run, wire, tab, count, history>>

-----------------------------------------------------------------------------
(* The server: runDispatcher(), beside the queues.                         *)

State(s) == [tree.project EXCEPT !.state = s]
Locked(r, ro) == write(r, "project", [r.tree.project EXCEPT !.readOnly = ro])

Prepare ==
  /\ runner = "accepted"
  /\ repo' = writeAndAdd(repo, "project", State("preparing"))
  /\ seen' = [seen EXCEPT !.state = "preparing"] /\ runner' = "preparing"
  /\ UNCHANGED <<edits, saves, opvars, memory, wire, tab, panel, count, history>>

PreparationFails ==
  /\ runner = "preparing"
  /\ repo' = writeAndAdd(repo, "project", State("not-started"))
  /\ seen' = [seen EXCEPT !.state = "not-started"] /\ runner' = "idle"
  /\ UNCHANGED <<edits, saves, opvars, memory, wire, tab, panel, count, history>>

\* The edits are accepted again since the commit; readOnly is for the client.
StartRun ==
  /\ runner = "preparing"
  /\ repo' = writeAndAdd(repo, "project", [state |-> "running", readOnly |-> TRUE])
  /\ seen' = repo'.tree.project
  /\ runner' = "running" /\ memory' = tree.json
  /\ UNCHANGED <<edits, saves, opvars, wire, tab, panel, count, history>>

\* The dispatcher writes the component as it knows it.
Progress ==
  /\ runner = "running" /\ ~memory.done
  /\ memory' = [memory EXCEPT !.done = TRUE]
  /\ repo' = write(repo, "json", memory')
  /\ panel' = Shown(memory')
  /\ UNCHANGED <<edits, saves, opvars, runner, wire, tab, seen, count, history>>

Conclude ==
  /\ runner = "running"
  /\ \E s \in {"finished", "failed"} :
       LET ended == writeAndAdd(repo, "project", State(s))
       IN  repo' = IF s = "finished" THEN Locked(ended, FALSE) ELSE ended
  /\ seen' = repo'.tree.project
  /\ runner' = "idle" /\ memory' = Null
  /\ UNCHANGED <<edits, saves, opvars, wire, tab, panel, count, history>>

onStopProject ==
  /\ op # Null /\ op = [name |-> "stopProject", at |-> "go"]
  /\ op' = Null
  /\ repo' = Locked(writeAndAdd(repo, "project", State("stopped")), TRUE)
  /\ seen' = repo'.tree.project /\ panel' = Shown(tree.json)
  /\ runner' = "idle" /\ memory' = Null
  /\ UNCHANGED <<edits, saves, ops, wire, tab, count, history>>

-----------------------------------------------------------------------------
User == \/ OpenPanel \/ ChangeProperty \/ closeProperty \/ drawLink
        \/ onFile \/ Type \/ closeTab \/ saveAllFiles \/ revertAll
        \/ \E o \in Operations : emitProjectOperation(o)
        \/ makeWritable
Receive == ReceiveSave \/ ReceiveEdit \/ onProjectOperation
EditQueue == BeginEdit \/ WriteEdit \/ EndEdit \/ SentinelRuns
Operator == \/ TakeOperation \/ Validate \/ CommitRun \/ Ask \/ Answer
            \/ BeginReset \/ Reset \/ onSaveProject \/ onStopProject
Runner == Prepare \/ PreparationFails \/ StartRun \/ Progress \/ Conclude

Next == \/ User \/ autoSaveAll \/ Receive \/ EditQueue \/ SaveTimer
        \/ \E w \in DOMAIN flights : EndFlush(w)
        \/ Operator \/ Runner

\* Timers fire, messages arrive, promises settle, and the user answers what he
\* is asked; he need not do anything else, and a run need not end.
Fairness ==
  /\ WF_vars(autoSaveAll) /\ WF_vars(Receive) /\ WF_vars(EditQueue) /\ WF_vars(SaveTimer)
  /\ WF_vars(EndFlush("timer")) /\ WF_vars(EndFlush("run"))
  /\ WF_vars(Operator) /\ WF_vars(Prepare) /\ WF_vars(StartRun \/ PreparationFails)

FairSpec == Init /\ [][Next]_vars /\ Fairness

-----------------------------------------------------------------------------
(* Every edit the server had when it took up a run is in the commit the    *)
(* run starts from (stopProjectEdits: "guarantees all pending writes are   *)
(* flushed"), the last text of every file too, and nothing invalid is      *)
(* run.                                                                    *)
RunTakesAll ==
  [][(runner = "idle" /\ runner' = "accepted") =>
       /\ repo'.head.json.prop = due.prop /\ repo'.head.json.link = due.link
       /\ repo'.head.json.prop \notin Invalid
       /\ repo'.head.text \in due.texts]_vars

(* What a clean or a revert has reset never comes back, although edits and *)
(* saves were waiting for their turn when the user asked for it            *)
(* (clearProjectEdits: "stale writes queued before the clean must not      *)
(* execute afterwards").                                                   *)
CleanForgets == tree.json.prop \notin void.prop /\ tree.text \notin void.text

(* Once the connection and the timers are quiet, the file holds the text   *)
(* as the user left it, and so does the index, however often the save was  *)
(* put off and whoever flushed it.                                         *)
Saved ==
  (wire = <<>> /\ Settled /\ (tab # Null => ~tab.timer))
    => /\ tree.text = meant
       /\ repo.index.text = meant

(* Operations do not block one another, whatever they meet: the queue of   *)
(* edits is always started again and worked off, every operation comes to  *)
(* an end and no save stays pending.                                       *)
Serves ==
  /\ []<>(op = Null)
  /\ []<>(enabled /\ queue = <<>> /\ editing = Null)
  /\ []<>(pending = Null)

=============================================================================
