------------------------ MODULE EditSessionProofs ------------------------
(* What a user does in the browser gets into the project: the edits and    *)
(* the saves that a run takes, what a reset forgets and what the file      *)
(* holds in the end, for a user who does not edit while a run or a reset   *)
(* is under way.                                                           *)
EXTENDS EditSession, SequenceTheorems, TLAPS

-----------------------------------------------------------------------------
(* The repository.                                                         *)

Repo == [tree : Files, index : Files, head : Files]

LEMMA FilesFacts ==
  ASSUME NEW f \in Files
  PROVE  /\ f = [text |-> f.text, json |-> f.json, project |-> f.project]
         /\ f.text \in Nat /\ f.json \in Json
         /\ f.project \in [state : ProjectStates, readOnly : BOOLEAN]
BY DEF Files

LEMMA WriteText ==
  ASSUME NEW r \in Repo, NEW c \in Nat
  PROVE  /\ write(r, "text", c) \in Repo
         /\ write(r, "text", c).tree.text = c
         /\ write(r, "text", c).tree.json = r.tree.json
         /\ write(r, "text", c).tree.project = r.tree.project
         /\ write(r, "text", c).index = r.index /\ write(r, "text", c).head = r.head
BY DEF Repo, Files, write

LEMMA WriteJson ==
  ASSUME NEW r \in Repo, NEW c \in Json
  PROVE  /\ write(r, "json", c) \in Repo
         /\ write(r, "json", c).tree.json = c
         /\ write(r, "json", c).tree.text = r.tree.text
         /\ write(r, "json", c).tree.project = r.tree.project
         /\ write(r, "json", c).index = r.index /\ write(r, "json", c).head = r.head
BY DEF Repo, Files, write

LEMMA WriteProject ==
  ASSUME NEW r \in Repo, NEW c \in [state : ProjectStates, readOnly : BOOLEAN]
  PROVE  /\ write(r, "project", c) \in Repo
         /\ write(r, "project", c).tree.project = c
         /\ write(r, "project", c).tree.text = r.tree.text
         /\ write(r, "project", c).tree.json = r.tree.json
         /\ write(r, "project", c).index = r.index /\ write(r, "project", c).head = r.head
BY DEF Repo, Files, write

LEMMA AddText ==
  ASSUME NEW r \in Repo
  PROVE  /\ gitAdd(r, "text") \in Repo
         /\ gitAdd(r, "text").tree = r.tree /\ gitAdd(r, "text").head = r.head
         /\ gitAdd(r, "text").index.text = r.tree.text
         /\ gitAdd(r, "text").index.json = r.index.json
BY DEF Repo, Files, gitAdd

LEMMA AddJson ==
  ASSUME NEW r \in Repo
  PROVE  /\ gitAdd(r, "json") \in Repo
         /\ gitAdd(r, "json").tree = r.tree /\ gitAdd(r, "json").head = r.head
         /\ gitAdd(r, "json").index.json = r.tree.json
         /\ gitAdd(r, "json").index.text = r.index.text
BY DEF Repo, Files, gitAdd

LEMMA AddProject ==
  ASSUME NEW r \in Repo
  PROVE  /\ gitAdd(r, "project") \in Repo
         /\ gitAdd(r, "project").tree = r.tree /\ gitAdd(r, "project").head = r.head
         /\ gitAdd(r, "project").index.json = r.index.json
         /\ gitAdd(r, "project").index.text = r.index.text
BY DEF Repo, Files, gitAdd

\* What a recording of the state of the project leaves alone.
SameContents(r, s) ==
  /\ s.tree.text = r.tree.text /\ s.tree.json = r.tree.json
  /\ s.index.text = r.index.text /\ s.index.json = r.index.json
  /\ s.head = r.head

LEMMA RecordProject ==
  ASSUME NEW r \in Repo, NEW c \in [state : ProjectStates, readOnly : BOOLEAN]
  PROVE  /\ writeAndAdd(r, "project", c) \in Repo
         /\ writeAndAdd(r, "project", c).tree.project = c
         /\ SameContents(r, writeAndAdd(r, "project", c))
BY WriteProject, AddProject DEF writeAndAdd, SameContents

LEMMA Lock ==
  ASSUME NEW r \in Repo, NEW b \in BOOLEAN
  PROVE  /\ Locked(r, b) \in Repo /\ SameContents(r, Locked(r, b))
         /\ Locked(r, b).tree.project \in [state : ProjectStates, readOnly : BOOLEAN]
<1>1. [r.tree.project EXCEPT !.readOnly = b] \in [state : ProjectStates, readOnly : BOOLEAN]
  BY DEF Repo, Files
<1> QED BY <1>1, WriteProject DEF Locked, SameContents

LEMMA Commit ==
  ASSUME NEW r \in Repo
  PROVE  /\ gitCommit(r) \in Repo
         /\ gitCommit(r).tree = r.tree /\ gitCommit(r).index = r.index
         /\ gitCommit(r).head = r.index
BY DEF Repo, gitCommit

LEMMA CommitText ==
  ASSUME NEW r \in Repo
  PROVE  LET s == gitCommitFiles(r, {"text"})
         IN  /\ s \in Repo /\ s.tree = r.tree
             /\ s.index.text = r.tree.text /\ s.index.json = r.index.json
             /\ s.head.text = r.tree.text /\ s.head.json = r.head.json
<1> DEFINE Taken(area) == [f \in DOMAIN area |-> IF f \in {"text"} THEN r.tree[f] ELSE area[f]]
<1>1. \A area \in Files :
        /\ Taken(area) \in Files
        /\ Taken(area).text = r.tree.text /\ Taken(area).json = area.json
  BY DEF Repo, Files
<1>2. gitCommitFiles(r, {"text"}) = [r EXCEPT !.index = Taken(r.index), !.head = Taken(r.head)]
  BY DEF gitCommitFiles
<1> HIDE DEF Taken
<1> QED BY <1>1, <1>2 DEF Repo

LEMMA ResetHead ==
  ASSUME NEW r \in Repo
  PROVE  /\ gitResetHEAD(r) \in Repo
         /\ gitResetHEAD(r).tree = r.head /\ gitResetHEAD(r).index = r.head
         /\ gitResetHEAD(r).head = r.head
BY DEF Repo, gitResetHEAD, newRepository

-----------------------------------------------------------------------------
(* Values.                                                                 *)

ProjectRecord == [state : ProjectStates, readOnly : BOOLEAN]

LEMMA TypeRepo ==
  ASSUME TypeOK
  PROVE  /\ repo \in Repo
         /\ tree.text \in Nat /\ tree.json \in Json /\ tree.project \in ProjectRecord
         /\ repo.index.text \in Nat /\ repo.index.json \in Json
         /\ repo.head.text \in Nat /\ repo.head.json \in Json /\ repo.head.project \in ProjectRecord
BY FilesFacts DEF TypeOK, Repo, tree, ProjectRecord

LEMMA JsonFacts ==
  /\ \A j \in Json : j.prop \in Nat /\ j.link \in BOOLEAN /\ j.done \in BOOLEAN
  /\ \A j \in Json, d \in BOOLEAN :
       /\ [j EXCEPT !.done = d] \in Json
       /\ [j EXCEPT !.done = d].prop = j.prop /\ [j EXCEPT !.done = d].link = j.link
BY DEF Json

LEMMA ApplyFacts ==
  ASSUME NEW json \in Json, NEW e \in EditMessage
  PROVE  /\ Apply(json, e) \in Json
         /\ e.kind \in {"update", "link"}
         /\ e.kind = "update" => e.prop \in Nat /\ e.done \in BOOLEAN
         /\ Apply(json, e).prop = IF e.kind = "update" THEN e.prop ELSE json.prop
         /\ Apply(json, e).link = (json.link \/ e.kind = "link")
<1>1. CASE e \in [kind : {"link"}]
  BY <1>1 DEF Apply, Json
<1>2. CASE e \in [kind : {"update"}, prop : Nat, done : BOOLEAN]
  BY <1>2 DEF Apply, Json
<1> QED BY <1>1, <1>2 DEF EditMessage

LEMMA PanelFacts ==
  /\ \A p \in Panel : p.selected \in Json /\ p.copied \in Json
  /\ \A s, c \in Json : [selected |-> s, copied |-> c] \in Panel
BY DEF Panel

LEMMA ShownFacts ==
  ASSUME NEW json \in Json, panel \in Panel \union {Null}
  PROVE  /\ Shown(json) \in Panel \union {Null}
         /\ Shown(json) = Null <=> panel = Null
         /\ panel # Null =>
              /\ Shown(json).selected = json
              /\ Shown(json).copied = json \/ Shown(json).copied = panel.copied
              /\ ~hasEdits(panel) => ~hasEdits(Shown(json)) /\ Shown(json).copied = json
BY PanelFacts, NullAssumption DEF Shown, hasEdits

LEMMA LeavingFacts ==
  ASSUME panel \in Panel \union {Null}
  PROVE  /\ panel = Null \/ ~hasEdits(panel) => Leaving(panel) = <<>>
         /\ panel # Null /\ hasEdits(panel) =>
              /\ Leaving(panel) = <<Update(panel)>> /\ Update(panel) \in Message
              /\ Update(panel).kind = "update" /\ Update(panel).prop = panel.copied.prop
BY PanelFacts, JsonFacts DEF Leaving, Update, Message, EditMessage

LEMMA MessageFacts ==
  /\ \A m \in Message :
       /\ m.kind \in {"update", "link", "save", "op"}
       /\ m.kind \in {"update", "link"} => m \in EditMessage
       /\ m.kind = "update" => m.prop \in Nat
       /\ m.kind = "save" => m.text \in Nat
       /\ m.kind = "op" => m.name \in Operations
  /\ EditMessage \subseteq Message
  /\ \A text \in Nat : Save(text) \in Message /\ Save(text).kind = "save" /\ Save(text).text = text
  /\ \A o \in Operations :
       [kind |-> "op", name |-> o] \in Message
  /\ [kind |-> "link"] \in EditMessage
<1>1. \A m \in [kind : {"update"}, prop : Nat, done : BOOLEAN] :
        m.kind = "update" /\ m.prop \in Nat /\ m \in EditMessage
  BY DEF EditMessage
<1>2. \A m \in [kind : {"link"}] : m.kind = "link" /\ m \in EditMessage
  BY DEF EditMessage
<1>3. \A m \in [kind : {"save"}, text : Nat] : m.kind = "save" /\ m.text \in Nat
  OBVIOUS
<1>4. \A m \in [kind : {"op"}, name : Operations] : m.kind = "op" /\ m.name \in Operations
  OBVIOUS
<1>5. \A m \in Message :
       /\ m.kind \in {"update", "link", "save", "op"}
       /\ m.kind \in {"update", "link"} => m \in EditMessage
       /\ m.kind = "update" => m.prop \in Nat
       /\ m.kind = "save" => m.text \in Nat
       /\ m.kind = "op" => m.name \in Operations
  BY <1>1, <1>2, <1>3, <1>4 DEF Message, EditMessage
<1>6. \A text \in Nat : Save(text) \in Message /\ Save(text).kind = "save" /\ Save(text).text = text
  BY DEF Message, Save
<1>7. \A o \in Operations : [kind |-> "op", name |-> o] \in Message
  BY DEF Message
<1>8. EditMessage \subseteq Message BY DEF Message
<1>9. [kind |-> "link"] \in EditMessage BY DEF EditMessage
<1> QED BY <1>5, <1>6, <1>7, <1>8, <1>9

LEMMA SentinelFacts ==
  /\ Sentinel \notin EditMessage /\ Sentinel.kind = "sentinel"
  /\ \A e \in EditMessage : e.kind # "sentinel"
BY ApplyFacts DEF Sentinel, EditMessage

LEMMA ResetGoesOn ==
  ASSUME NEW o \in InProgress, o.name \in Resetting, NEW at \in {"ask", "asked", "clear", "drain"}
  PROVE  /\ [o EXCEPT !.at = at] \in InProgress
         /\ [o EXCEPT !.at = at].name = o.name /\ [o EXCEPT !.at = at].at = at
BY DEF InProgress, Resetting

LEMMA OpFacts ==
  /\ \A o \in InProgress :
       /\ o.name \in Operations
       /\ o # Null
       /\ o.name = "runProject" <=> o.at \in {"sentinel", "flushing", "commit"}
       /\ o.name \in Resetting <=> o.at \in {"ask", "asked", "clear", "drain"}
       /\ o.name = "runProject" => o.at \in {"sentinel", "flushing", "commit"}
  /\ \A o \in InProgress, at \in {"sentinel", "flushing", "commit"} :
       o.name = "runProject" =>
         /\ [o EXCEPT !.at = at] \in InProgress
         /\ [o EXCEPT !.at = at].name = o.name /\ [o EXCEPT !.at = at].at = at
  /\ \A o \in InProgress, at \in {"ask", "asked", "clear", "drain"} :
       o.name \in Resetting =>
         /\ [o EXCEPT !.at = at] \in InProgress
         /\ [o EXCEPT !.at = at].name = o.name /\ [o EXCEPT !.at = at].at = at
  /\ [name |-> "runProject", at |-> "sentinel"] \in InProgress
  /\ \A n \in Resetting : [name |-> n, at |-> "ask"] \in InProgress
  /\ \A n \in {"stopProject", "saveProject"} : [name |-> n, at |-> "go"] \in InProgress
BY NullAssumption DEF InProgress, Operations, Resetting

-----------------------------------------------------------------------------
(* Sequences that get longer and shorter.                                  *)

LEMMA AppendFacts ==
  ASSUME NEW S, NEW s \in Seq(S), NEW e \in S
  PROVE  /\ Append(s, e) \in Seq(S)
         /\ s \o <<e>> = Append(s, e)
         /\ Len(Append(s, e)) = Len(s) + 1 /\ Len(s) \in Nat
         /\ DOMAIN s = 1..Len(s) /\ DOMAIN Append(s, e) = 1..(Len(s) + 1)
         /\ \A k \in DOMAIN s : Append(s, e)[k] = s[k]
         /\ Append(s, e)[Len(s) + 1] = e
OBVIOUS

LEMMA TailFacts ==
  ASSUME NEW S, NEW s \in Seq(S), s # <<>>
  PROVE  /\ Tail(s) \in Seq(S) /\ Head(s) \in S /\ Head(s) = s[1]
         /\ 1 \in DOMAIN s /\ Len(s) \in Nat \ {0}
         /\ Len(Tail(s)) = Len(s) - 1
         /\ DOMAIN s = 1..Len(s) /\ DOMAIN Tail(s) = 1..(Len(s) - 1)
         /\ \A k \in DOMAIN Tail(s) : k + 1 \in DOMAIN s /\ Tail(s)[k] = s[k + 1]
BY HeadTailProperties, EmptySeq, LenProperties

-----------------------------------------------------------------------------
(* Everything is of its kind.                                              *)

Doing(name) == op # Null /\ op.name = name

\* The sentinel of a run is the last in the queue of edits.
SentinelLast ==
  \A k \in DOMAIN queue : queue[k] = Sentinel =>
    k = Len(queue) /\ Doing("runProject") /\ op.at = "sentinel"

USE DEF edits, saves, opvars, run, history

\* A reset was asked for when there was no run and no text on its way.
ResetAlone ==
  Sent(Resetting) =>
    /\ tab = Null /\ Settled /\ runner = "idle"
    /\ mark # Null /\ mark.key = count.key /\ mark.change = count.change

\* The dispatcher knows the component while it runs.
Remembers == memory # Null <=> runner = "running"

LEMMA SentLater ==
  ASSUME TypeOK, NEW m \in Message
  PROVE  Append(wire, m) \in Seq(Message)
BY AppendFacts DEF TypeOK

LEMMA CountFacts ==
  \A c \in Counts :
    /\ c.key \in Nat /\ c.change \in Nat
    /\ [c EXCEPT !.key = @ + 1] \in Counts /\ [c EXCEPT !.change = @ + 1] \in Counts
    /\ [c EXCEPT !.op = @ + 1] \in Counts /\ [c EXCEPT !.run = @ + 1] \in Counts
    /\ [c EXCEPT !.key = @ + 1].key = c.key + 1 /\ [c EXCEPT !.key = @ + 1].change = c.change
    /\ [c EXCEPT !.change = @ + 1].key = c.key
    /\ [c EXCEPT !.change = @ + 1].change = c.change + 1
    /\ [c EXCEPT !.op = @ + 1].key = c.key /\ [c EXCEPT !.op = @ + 1].change = c.change
    /\ [c EXCEPT !.run = @ + 1].key = c.key /\ [c EXCEPT !.run = @ + 1].change = c.change
BY DEF Counts

LEMMA LeavingSeq ==
  ASSUME TypeOK
  PROVE  wire \o Leaving(panel) \in Seq(Message)
<1>1. CASE Leaving(panel) = <<>> BY <1>1, ConcatEmptySeq DEF TypeOK
<1>2. CASE Leaving(panel) # <<>>
  <2>1. Leaving(panel) = <<Update(panel)>> /\ Update(panel) \in Message
    BY <1>2, LeavingFacts DEF TypeOK
  <2> QED BY <2>1, AppendFacts DEF TypeOK
<1> QED BY <1>1, <1>2

LEMMA UnsavedFacts ==
  ASSUME TypeOK, tab # Null
  PROVE  /\ tab.content = tab.doc => Unsaved = <<>>
         /\ tab.content # tab.doc =>
              Unsaved = <<Save(tab.doc)>> /\ Save(tab.doc) \in Message
         /\ tab.doc \in Nat /\ tab.content \in Nat /\ tab.initial \in Nat
         /\ wire \o Unsaved \in Seq(Message)
<1>1. tab.doc \in Nat /\ tab.content \in Nat /\ tab.initial \in Nat
  BY DEF TypeOK, Tab
<1>2. Unsaved \in Seq(Message)
  BY <1>1, MessageFacts, EmptySeq DEF Unsaved
<1>3. wire \o Unsaved \in Seq(Message)
  BY <1>2, ConcatProperties DEF TypeOK
<1> QED BY <1>1, <1>3, MessageFacts DEF Unsaved

LEMMA TypeUser ==
  ASSUME TypeOK, User \/ autoSaveAll
  PROVE  TypeOK'
<1>1. CASE OpenPanel
  BY <1>1, TypeRepo, PanelFacts DEF OpenPanel, TypeOK
<1>2. CASE ChangeProperty
  <2>1. panel \in Panel /\ count.change + 1 \in Nat BY <1>2 DEF ChangeProperty, TypeOK, Counts
  <2>2. panel' \in Panel
    BY <1>2, <2>1 DEF ChangeProperty, Panel, Json
  <2>3. count' \in Counts BY <1>2, CountFacts DEF ChangeProperty, TypeOK
  <2> QED BY <1>2, <2>2, <2>3 DEF ChangeProperty, TypeOK
<1>3. CASE closeProperty
  BY <1>3, LeavingSeq DEF closeProperty, TypeOK
<1>4. CASE drawLink
  BY <1>4, SentLater, MessageFacts DEF drawLink, TypeOK
<1>5. CASE onFile
  <2>1. tab' \in Tab BY <1>5, TypeRepo DEF onFile, Tab
  <2> QED BY <1>5, <2>1 DEF onFile, TypeOK
<1>6. CASE Type
  <2>1. tab \in Tab /\ count.key + 1 \in Nat BY <1>6 DEF Type, TypeOK, Counts
  <2>2. PICK text \in {count.key + 1} \union (IF Careless THEN {tab.initial} ELSE {}) :
          tab' = [tab EXCEPT !.doc = text, !.timer = TRUE] /\ meant' = text
    BY <1>6 DEF Type
  <2>3. text \in Nat BY <2>1, <2>2 DEF Tab
  <2>4. tab' \in Tab BY <2>1, <2>2, <2>3 DEF Tab
  <2>5. count' \in Counts BY <1>6, CountFacts DEF Type, TypeOK
  <2> QED BY <1>6, <2>2, <2>3, <2>4, <2>5 DEF Type, TypeOK
<1>7. CASE autoSaveAll
  <2>1. tab' \in Tab BY <1>7 DEF autoSaveAll, TypeOK, Tab
  <2> QED BY <1>7, <2>1, UnsavedFacts DEF autoSaveAll, TypeOK
<1>8. CASE closeTab
  BY <1>8 DEF closeTab, TypeOK
<1>9. CASE saveAllFiles
  BY <1>9, UnsavedFacts DEF saveAllFiles, TypeOK
<1>10. CASE revertAll
  <2>1. tab' \in Tab \union {Null} BY <1>10 DEF revertAll, TypeOK, Tab
  <2> QED BY <1>10, <2>1, UnsavedFacts, SentLater, MessageFacts DEF revertAll, TypeOK
<1>11. ASSUME NEW o \in Operations, emitProjectOperation(o)
       PROVE  TypeOK'
  <2>1. wire' \in Seq(Message)
    <3>1. [kind |-> "op", name |-> o] \in Message BY MessageFacts
    <3>2. (IF o = "runProject" THEN wire \o Leaving(panel) ELSE wire) \in Seq(Message)
      BY LeavingSeq DEF TypeOK
    <3> QED BY <1>11, <3>1, <3>2, AppendFacts DEF emitProjectOperation
  <2>2. count' \in Counts BY <1>11, CountFacts DEF emitProjectOperation, TypeOK
  <2> QED BY <1>11, <2>1, <2>2 DEF emitProjectOperation, TypeOK
<1>12. CASE makeWritable
  <2>1. [tree.project EXCEPT !.readOnly = FALSE] \in ProjectRecord
    BY TypeRepo DEF ProjectRecord
  <2>2. repo' \in Repo /\ repo'.tree.project \in ProjectRecord
    BY <1>12, <2>1, TypeRepo, WriteProject DEF makeWritable, ProjectRecord
  <2> QED BY <1>12, <2>2 DEF makeWritable, TypeOK, Repo, ProjectRecord
<1> QED BY <1>1, <1>2, <1>3, <1>4, <1>5, <1>6, <1>7, <1>8, <1>9, <1>10, <1>11, <1>12 DEF User

\* A message that is received, an edit, a save.
LEMMA TypeReceive ==
  ASSUME TypeOK, Receive
  PROVE  TypeOK'
<1> DEFINE m == Head(wire)
<1>1. wire # <<>> /\ wire' = Tail(wire)
  BY DEF Receive, ReceiveSave, ReceiveEdit, onProjectOperation
<1>2. m \in Message /\ wire' \in Seq(Message)
  BY <1>1, TailFacts DEF TypeOK
<1>3. CASE ReceiveSave
  <2>1. m.text \in Nat BY <1>2, <1>3, MessageFacts DEF ReceiveSave
  <2>2. pending' \in Timer BY <1>3, <2>1 DEF ReceiveSave, onSaveFile, Timer
  <2>3. flights' \in [timer : Flushing \union {Null}, run : Flushing \union {Null}]
    BY <1>3 DEF ReceiveSave, onSaveFile, TypeOK, Flushing
  <2>4. due' \in Due \union {Null} BY <1>3, <2>1 DEF ReceiveSave, TypeOK, Due
  <2> QED BY <1>2, <1>3, <2>2, <2>3, <2>4 DEF ReceiveSave, TypeOK
<1>4. CASE ReceiveEdit
  <2>1. m \in EditMessage BY <1>2, <1>4, MessageFacts DEF ReceiveEdit
  <2>2. queue' \in Seq(EditMessage \union {Sentinel})
    BY <1>4, <2>1, AppendFacts DEF ReceiveEdit, TypeOK
  <2>3. asked' \in Json BY <1>4, <2>1, ApplyFacts DEF ReceiveEdit, TypeOK
  <2> QED BY <1>2, <1>4, <2>2, <2>3 DEF ReceiveEdit, TypeOK
<1>5. CASE onProjectOperation
  <2>1. m.name \in Operations BY <1>2, <1>5, MessageFacts DEF onProjectOperation
  <2>2. ops' \in Seq(Operations)
    BY <1>5, <2>1, AppendFacts DEF onProjectOperation, TypeOK
  <2> QED BY <1>2, <1>5, <2>2 DEF onProjectOperation, TypeOK
<1> QED BY <1>3, <1>4, <1>5 DEF Receive

LEMMA TypeFlushSaves ==
  ASSUME TypeOK, FlushSaves
  PROVE  /\ repo' \in Repo /\ pending' \in Timer \union {Null}
         /\ flights' \in [timer : Flushing \union {Null}, run : Flushing \union {Null}]
<1>1. CASE pending = Null BY <1>1, TypeRepo DEF FlushSaves, TypeOK
<1>2. CASE pending # Null
  <2>1. pending \in Timer /\ pending.text \in Nat BY <1>2 DEF TypeOK, Timer
  <2>2. pending' \in Timer BY <1>2, <2>1 DEF FlushSaves, Timer
  <2>3. Flight(pending.text) \in Flushing BY <2>1 DEF Flight, Flushing
  <2>4. flights' \in [timer : Flushing \union {Null}, run : Flushing \union {Null}]
    BY <1>2, <2>3 DEF FlushSaves, TypeOK
  <2>5. repo' \in Repo BY <1>2, <2>1, TypeRepo, WriteText DEF FlushSaves
  <2> QED BY <2>2, <2>4, <2>5
<1> QED BY <1>1, <1>2

LEMMA TypeQueues ==
  ASSUME TypeOK, SentinelLast, EditQueue \/ SaveTimer \/ \E w \in DOMAIN flights : EndFlush(w)
  PROVE  TypeOK'
<1>1. CASE BeginEdit
  <2>1. Head(queue) \in EditMessage /\ queue' \in Seq(EditMessage \union {Sentinel})
    BY <1>1, TailFacts DEF BeginEdit, TypeOK
  <2>2. editing' \in InHand BY <1>1, <2>1, TypeRepo DEF BeginEdit, InHand
  <2> QED BY <1>1, <2>1, <2>2 DEF BeginEdit, TypeOK
<1>2. CASE WriteEdit
  <2>1. editing \in InHand BY <1>2 DEF WriteEdit, TypeOK
  <2>2. editing' \in InHand BY <1>2, <2>1 DEF WriteEdit, InHand
  <2>3. Apply(editing.read, editing.edit) \in Json BY <2>1, ApplyFacts DEF InHand
  <2>4. repo' \in Repo BY <1>2, <2>3, TypeRepo, WriteJson DEF WriteEdit
  <2> QED BY <1>2, <2>2, <2>4 DEF WriteEdit, TypeOK, Repo
<1>3. CASE EndEdit
  <2>1. repo' \in Repo BY <1>3, TypeRepo, AddJson DEF EndEdit
  <2>2. panel' \in Panel \union {Null} BY <1>3, TypeRepo, ShownFacts DEF EndEdit, TypeOK
  <2> QED BY <1>3, <2>1, <2>2 DEF EndEdit, TypeOK, Repo
<1>4. CASE SentinelRuns
  <2>1. op' \in InProgress
    <3>1. op \in InProgress /\ op.name = "runProject"
      BY <1>4, TailFacts DEF SentinelLast, SentinelRuns, SentinelDone, TypeOK, Doing
    <3> QED BY <1>4, <3>1, OpFacts DEF SentinelRuns, SentinelDone, At
  <2> QED BY <1>4, <2>1, TypeFlushSaves, TailFacts DEF SentinelRuns, SentinelDone, TypeOK, Repo
<1>5. CASE SaveTimer
  <2>1. pending \in Timer /\ pending.text \in Nat BY <1>5 DEF SaveTimer, TypeOK, Timer
  <2>2. pending' \in Timer BY <1>5, <2>1 DEF SaveTimer, Timer
  <2>3. Flight(pending.text) \in Flushing BY <2>1 DEF Flight, Flushing
  <2>4. repo' \in Repo BY <1>5, <2>1, TypeRepo, WriteText DEF SaveTimer
  <2> QED BY <1>5, <2>2, <2>3, <2>4 DEF SaveTimer, TypeOK, Repo
<1>6. ASSUME NEW w \in DOMAIN flights, EndFlush(w)
      PROVE  TypeOK'
  <2>1. flights[w] \in Flushing BY <1>6 DEF EndFlush, TypeOK
  <2>2. tab' \in Tab \union {Null} BY <1>6, <2>1 DEF EndFlush, TypeOK, Tab, Flushing
  <2>3. flights' \in [timer : Flushing \union {Null}, run : Flushing \union {Null}]
    BY <1>6 DEF EndFlush, TypeOK
  <2>4. repo' \in Repo BY <1>6, TypeRepo, AddText DEF EndFlush
  <2> QED BY <1>6, <2>2, <2>3, <2>4 DEF EndFlush, TypeOK, Repo
<1> QED BY <1>1, <1>2, <1>3, <1>4, <1>5, <1>6 DEF EditQueue

\* Two values of a component that differ in its state at most.
Agree(a, b) == a.prop = b.prop /\ a.link = b.link

LEMMA SaveProject ==
  ASSUME TypeOK, onSaveProject
  PROVE  /\ repo' \in Repo /\ repo'.tree.json \in Json
         /\ repo'.tree.project \in ProjectRecord
         /\ repo'.tree.text = tree.text /\ repo'.index.text = repo.index.text
         /\ Agree(repo'.tree.json, tree.json)
         /\ \/ repo'.index.json = repo.index.json
            \/ repo'.index.json = repo'.tree.json
         /\ repo'.head = repo.head \/ repo'.head = repo'.index
<1> DEFINE recorded == writeAndAdd(repo, "project", [tree.project EXCEPT !.state = "not-started"])
           json     == [tree.json EXCEPT !.done = FALSE]
           whole    == IF tree.json.done THEN writeAndAdd(recorded, "json", json) ELSE recorded
<1>1. recorded \in Repo /\ SameContents(repo, recorded)
  BY TypeRepo, RecordProject DEF ProjectRecord, ProjectStates
<1>2. json \in Json /\ Agree(json, tree.json) BY TypeRepo, JsonFacts DEF Agree
<1>3. repo' = IF tree.project.readOnly THEN repo ELSE gitCommit(whole)
  BY DEF onSaveProject
<1> HIDE DEF recorded, json
<1>4. /\ whole \in Repo
      /\ whole.tree.text = tree.text /\ whole.index.text = repo.index.text
      /\ Agree(whole.tree.json, tree.json)
      /\ whole.index.json = repo.index.json \/ whole.index.json = whole.tree.json
  <2> DEFINE written == write(recorded, "json", json)
  <2>1. CASE tree.json.done
    <3>1. /\ written \in Repo /\ written.tree.json = json /\ written.tree.text = tree.text
          /\ written.index.text = repo.index.text
      BY <1>1, <1>2, WriteJson DEF SameContents, tree
    <3>2. whole = gitAdd(written, "json") BY <2>1 DEF writeAndAdd
    <3> QED BY <1>2, <3>1, <3>2, AddJson
  <2>2. CASE ~tree.json.done
    BY <1>1, <2>2 DEF SameContents, Agree, tree
  <2> QED BY <2>1, <2>2
<1> HIDE DEF whole
<1>5. CASE tree.project.readOnly BY <1>3, <1>5, TypeRepo DEF Agree, tree
<1>6. CASE ~tree.project.readOnly
  <2>1. /\ repo' \in Repo /\ repo'.tree = whole.tree /\ repo'.index = whole.index
        /\ repo'.head = whole.index
    BY <1>3, <1>4, <1>6, Commit
  <2>2. repo'.tree.json \in Json /\ repo'.tree.project \in ProjectRecord
    BY <2>1, FilesFacts DEF Repo, ProjectRecord
  <2> QED BY <1>4, <2>1, <2>2
<1> QED BY <1>5, <1>6

LEMMA TypeOperator ==
  ASSUME TypeOK, ResetAlone, Operator
  PROVE  TypeOK'
<1>1. CASE TakeOperation
  <2> DEFINE o == Head(ops)
  <2>1. ops' \in Seq(Operations) /\ o \in Operations
    BY <1>1, TailFacts DEF TakeOperation, TypeOK
  <2>2. CASE o \notin allowedOperations[tree.project.state]
    BY <1>1, <2>1, <2>2 DEF TakeOperation, TypeOK
  <2>3. CASE o \in allowedOperations[tree.project.state] /\ o = "runProject"
    <3>1. queue' \in Seq(EditMessage \union {Sentinel})
      <4>1. queue' = Append(queue, Sentinel) BY <1>1, <2>3 DEF TakeOperation
      <4>2. queue \in Seq(EditMessage \union {Sentinel}) BY DEF TypeOK
      <4> QED BY <4>1, <4>2, AppendFacts
    <3>2. op' \in InProgress BY <1>1, <2>3, OpFacts DEF TakeOperation
    <3>3. due' = [prop |-> asked.prop, link |-> asked.link,
                  texts |-> {IF pending = Null THEN tree.text ELSE pending.text}]
      BY <1>1, <2>3 DEF TakeOperation
    <3>4. (IF pending = Null THEN tree.text ELSE pending.text) \in Nat
      BY TypeRepo DEF TypeOK, Timer
    <3>5. due' \in Due
      <4>1. asked.prop \in Nat /\ asked.link \in BOOLEAN BY JsonFacts DEF TypeOK
      <4> QED BY <3>3, <3>4, <4>1 DEF Due
    <3> QED BY <1>1, <2>1, <3>1, <3>2, <3>5 DEF TakeOperation, TypeOK
  <2>4. CASE o \in allowedOperations[tree.project.state] /\ o # "runProject"
    <3>1. op' \in InProgress
      BY <1>1, <2>1, <2>4, OpFacts DEF TakeOperation, Operations, Resetting
    <3> QED BY <1>1, <2>1, <2>4, <3>1 DEF TakeOperation, TypeOK
  <2> QED BY <2>2, <2>3, <2>4
<1>2. CASE Validate
  <2>1. op \in InProgress /\ op.name = "runProject" BY <1>2, OpFacts DEF Validate, TypeOK
  <2>2. At("commit") \in InProgress BY <2>1, OpFacts DEF At
  <2>3. /\ op' \in InProgress \union {Null} /\ due' \in Due \union {Null} /\ enabled' \in BOOLEAN
    BY <1>2, <2>2 DEF Validate, Refuse, TypeOK
  <2> QED BY <1>2, <2>3 DEF Validate, TypeOK
<1>3. CASE CommitRun
  <2>1. repo' \in Repo /\ count' \in Counts
    BY <1>3, TypeRepo, Commit, CountFacts DEF CommitRun, TypeOK
  <2> QED BY <1>3, <2>1 DEF CommitRun, TypeOK, Repo
<1>4. CASE Ask
  <2>1. op \in InProgress /\ op.name \in Resetting BY <1>4, OpFacts DEF Ask, TypeOK
  <2>2. op' \in InProgress BY <1>4, <2>1, OpFacts DEF Ask, At
  <2> QED BY <1>4, <2>2 DEF Ask, TypeOK
<1>5. CASE Answer
  <2>1. op \in InProgress /\ op.name \in Resetting BY <1>5, OpFacts DEF Answer, TypeOK
  <2>2. op' \in InProgress \union {Null}
    <3>1. At("clear") \in InProgress BY <2>1, OpFacts DEF At
    <3> QED BY <1>5, <3>1 DEF Answer
  <2>3. repo' \in Repo BY <1>5, TypeRepo, CommitText DEF Answer
  <2> QED BY <1>5, <2>2, <2>3 DEF Answer, TypeOK, Repo
<1>6. CASE BeginReset
  <2>1. op \in InProgress /\ op.name \in Resetting BY <1>6, OpFacts DEF BeginReset, TypeOK
  <2>2. op' \in InProgress BY <1>6, <2>1, OpFacts DEF BeginReset, At
  <2>3. queue' \in Seq(EditMessage \union {Sentinel}) /\ enabled' \in BOOLEAN
    BY <1>6, EmptySeq DEF BeginReset, clearProjectEdits, TypeOK
  <2> QED BY <1>6, <2>2, <2>3 DEF BeginReset, TypeOK
<1>7. CASE Reset
  <2>1. op \in InProgress /\ op.name \in Resetting BY <1>7, OpFacts DEF Reset, TypeOK
  <2>2. mark # Null BY <2>1, OpFacts DEF ResetAlone, Sent
  <2>3. mark.key \in Nat /\ mark.change \in Nat BY <2>2, CountFacts DEF TypeOK
  <2>4. void' \in [text : SUBSET Nat, prop : SUBSET Nat]
    BY <1>7, <2>3 DEF Reset, TypeOK
  <2>5. panel' \in Panel \union {Null} BY <1>7, TypeRepo, ShownFacts DEF Reset, TypeOK
  <2>6. repo' \in Repo BY <1>7, TypeRepo, ResetHead DEF Reset
  <2> QED BY <1>7, <2>4, <2>5, <2>6, TypeRepo DEF Reset, TypeOK, Repo, ProjectRecord
<1>8. CASE onSaveProject
  <2>1. repo' \in Repo /\ repo'.tree.project \in ProjectRecord /\ repo'.tree.json \in Json
    BY <1>8, SaveProject
  <2>2. panel' \in Panel \union {Null} BY <1>8, <2>1, ShownFacts DEF onSaveProject, TypeOK
  <2> QED BY <1>8, <2>1, <2>2 DEF onSaveProject, TypeOK, Repo, ProjectRecord
<1>9. CASE onStopProject
  <2>1. State("stopped") \in ProjectRecord BY TypeRepo DEF State, ProjectRecord, ProjectStates
  <2>2. repo' \in Repo /\ repo'.tree.project \in ProjectRecord
    BY <1>9, <2>1, TypeRepo, RecordProject, Lock DEF onStopProject, ProjectRecord
  <2>3. panel' \in Panel \union {Null} BY <1>9, TypeRepo, ShownFacts DEF onStopProject, TypeOK
  <2> QED BY <1>9, <2>2, <2>3 DEF onStopProject, TypeOK, Repo, ProjectRecord
<1> QED BY <1>1, <1>2, <1>3, <1>4, <1>5, <1>6, <1>7, <1>8, <1>9 DEF Operator

LEMMA StateFacts ==
  ASSUME TypeOK, NEW s \in ProjectStates
  PROVE  /\ State(s) \in ProjectRecord
         /\ [seen EXCEPT !.state = s] \in ProjectRecord
BY TypeRepo DEF State, ProjectRecord, TypeOK

LEMMA TypeRunner ==
  ASSUME TypeOK, Remembers, Runner
  PROVE  TypeOK'
<1> DEFINE Named == {"preparing", "not-started", "running", "finished", "failed"}
<1>0. Named \subseteq ProjectStates BY DEF ProjectStates
<1>1. CASE Prepare
  <2>1. repo' \in Repo BY <1>0, <1>1, StateFacts, TypeRepo, RecordProject DEF Prepare, ProjectRecord
  <2>2. seen' \in ProjectRecord BY <1>0, <1>1, StateFacts DEF Prepare
  <2> QED BY <1>1, <2>1, <2>2 DEF Prepare, TypeOK, Repo, ProjectRecord
<1>2. CASE PreparationFails
  <2>1. repo' \in Repo
    BY <1>0, <1>2, StateFacts, TypeRepo, RecordProject DEF PreparationFails, ProjectRecord
  <2>2. seen' \in ProjectRecord BY <1>0, <1>2, StateFacts DEF PreparationFails
  <2> QED BY <1>2, <2>1, <2>2 DEF PreparationFails, TypeOK, Repo, ProjectRecord
<1>3. CASE StartRun
  <2>1. [state |-> "running", readOnly |-> TRUE] \in ProjectRecord BY <1>0 DEF ProjectRecord
  <2>2. repo' \in Repo /\ repo'.tree.project \in ProjectRecord
    BY <1>3, <2>1, TypeRepo, RecordProject DEF StartRun, ProjectRecord
  <2> QED BY <1>3, <2>2, TypeRepo DEF StartRun, TypeOK, Repo, ProjectRecord
<1>4. CASE Progress
  <2>1. memory \in Json BY <1>4 DEF Progress, TypeOK, Remembers
  <2>2. memory' \in Json BY <1>4, <2>1, JsonFacts DEF Progress
  <2>3. repo' \in Repo BY <1>4, <2>2, TypeRepo, WriteJson DEF Progress
  <2>4. panel' \in Panel \union {Null} BY <1>4, <2>2, ShownFacts DEF Progress, TypeOK
  <2> QED BY <1>4, <2>2, <2>3, <2>4 DEF Progress, TypeOK, Repo
<1>5. CASE Conclude
  <2>1. PICK s \in {"finished", "failed"} :
          LET ended == writeAndAdd(repo, "project", State(s))
          IN  repo' = IF s = "finished" THEN Locked(ended, FALSE) ELSE ended
    BY <1>5 DEF Conclude
  <2>2. writeAndAdd(repo, "project", State(s)) \in Repo
    BY <1>0, <2>1, StateFacts, TypeRepo, RecordProject DEF ProjectRecord
  <2>3. repo' \in Repo BY <2>1, <2>2, Lock
  <2>4. repo'.tree.project \in ProjectRecord BY <2>3, FilesFacts DEF Repo, ProjectRecord
  <2>5. /\ seen' = repo'.tree.project /\ runner' = "idle" /\ memory' = Null
        /\ UNCHANGED <<edits, saves, opvars, wire, tab, panel, count, history>>
    BY <1>5 DEF Conclude
  <2> QED BY <2>3, <2>4, <2>5 DEF TypeOK, Repo, ProjectRecord
<1> QED BY <1>1, <1>2, <1>3, <1>4, <1>5 DEF Runner

LEMMA TypeStays ==
  ASSUME TypeOK, UNCHANGED vars
  PROVE  TypeOK'
BY DEF TypeOK, vars

LEMMA TypeStep ==
  ASSUME TypeOK, SentinelLast, ResetAlone, Remembers, [Next]_vars
  PROVE  TypeOK'
BY TypeUser, TypeReceive, TypeQueues, TypeOperator, TypeRunner, TypeStays DEF Next

-----------------------------------------------------------------------------
(* The inductive invariant, for a user who takes care.                     *)

Blocking == Resetting \union {"runProject"}

IsEdit(k) == wire[k].kind \in {"update", "link"}
IsSave(k) == wire[k].kind = "save"
Asks(k, names) == wire[k].kind = "op" /\ wire[k].name \in names
Received(names) == (\E k \in DOMAIN ops : ops[k] \in names) \/ (op # Null /\ op.name \in names)

Busy == Sent(Blocking) \/ runner # "idle"
Taken == Received(Blocking) \/ runner # "idle"

\* Nobody has edited the component since a run or a reset was asked for, ...
Untouched ==
  /\ Busy => (panel # Null => ~hasEdits(panel))
  /\ Taken => \A k \in DOMAIN wire : ~IsEdit(k)
  /\ \A j, k \in DOMAIN wire : Asks(j, Blocking) /\ IsEdit(k) => k < j

\* ... and no reset since a run was.
RunsLast ==
  /\ Doing("runProject") => ~Sent(Resetting)
  /\ \A j, k \in DOMAIN ops : ops[j] = "runProject" /\ ops[k] \in Resetting => k < j
  /\ \A j \in DOMAIN ops, k \in DOMAIN wire : ops[j] = "runProject" => ~Asks(k, Resetting)
  /\ \A j, k \in DOMAIN wire : Asks(j, {"runProject"}) /\ Asks(k, Resetting) => k < j

\* A revert finds no edit, a clean has cleared those it found.
NoEdits == queue = <<>> /\ editing = Null
Emptied ==
  /\ Sent({"revertProject"}) => NoEdits /\ \A k \in DOMAIN wire : ~IsEdit(k)
  /\ Doing("cleanProject") /\ op.at = "drain" => queue = <<>>

\* A run is to take what was asked, and does so when the queue is empty.
Prepared ==
  /\ Doing("runProject") =>
       /\ runner = "idle"
       /\ due # Null /\ due.prop = asked.prop /\ due.link = asked.link
       /\ op.at # "sentinel" => NoEdits
       /\ op.at = "commit" => tree.json.prop \notin Invalid
  /\ runner # "idle" => NoEdits

Editing == editing # Null /\ editing.at = "write"

\* What was read, what is in the index and what the dispatcher knows.
Current ==
  /\ editing = Null \/ Editing => Agree(repo.index.json, tree.json)
  /\ Editing => Agree(editing.read, tree.json)
  /\ memory # Null => Agree(memory, tree.json)

\* The component will be what was asked, unless a clean comes before.
IsUpdate(k) == queue[k].kind = "update"
LastUpdate(k) == IsUpdate(k) /\ \A j \in DOMAIN queue : IsUpdate(j) => j <= k
PropAnswered ==
  IF \E k \in DOMAIN queue : IsUpdate(k)
  THEN \E k \in DOMAIN queue : LastUpdate(k) /\ queue[k].prop = asked.prop
  ELSE IF Editing /\ editing.edit.kind = "update" THEN editing.edit.prop = asked.prop
  ELSE tree.json.prop = asked.prop
LinkAnswered ==
  asked.link <=> \/ tree.json.link
                 \/ Editing /\ editing.edit.kind = "link"
                 \/ \E k \in DOMAIN queue : queue[k].kind = "link"
Answered == (Doing("cleanProject") /\ op.at = "drain") \/ (PropAnswered /\ LinkAnswered)

\* The text that is to be written last.
LastSave(k) == IsSave(k) /\ \A j \in DOMAIN wire : IsSave(j) => j <= k
Latest(text) ==
  IF \E k \in DOMAIN wire : IsSave(k)
  THEN \E k \in DOMAIN wire : LastSave(k) /\ wire[k].text = text
  ELSE text = IF pending = Null THEN tree.text ELSE pending.text

\* A text nobody but the editor knows.
Flights == {"timer", "run"}
Fresh ==
  /\ tab.doc # tab.initial /\ tab.doc # tab.content
  /\ \A k \in DOMAIN wire : IsSave(k) => wire[k].text # tab.doc
  /\ pending # Null => pending.text # tab.doc
  /\ \A w \in Flights : flights[w] # Null => flights[w].text # tab.doc

TextKept ==
  /\ tab = Null => Latest(meant)
  /\ tab # Null => tab.doc = meant /\ (Latest(meant) \/ (tab.timer /\ Fresh))

\* A flush that is still that of its save has written the last text received.
Flushed ==
  /\ pending = Null => repo.index.text = tree.text
  /\ \A w \in Flights : flights[w] # Null /\ flights[w].own =>
       flights[w].text = tree.text /\ (pending # Null => pending.text = tree.text)
  /\ flights.run # Null => Doing("runProject") /\ op.at = "flushing"

TextsTaken ==
  Doing("runProject") =>
    /\ pending # Null => pending.text \in due.texts
    /\ pending = Null \/ op.at # "sentinel" => tree.text \in due.texts
    /\ op.at # "sentinel" /\ flights.run = Null => repo.index.text \in due.texts

\* What was reset is nowhere any more.
TextLives(text) == text <= count.key /\ text \notin void.text
TextsLive ==
  /\ TextLives(tree.text) /\ TextLives(repo.index.text) /\ TextLives(repo.head.text)
  /\ \A k \in DOMAIN wire : IsSave(k) => TextLives(wire[k].text)
  /\ pending # Null => TextLives(pending.text)
  /\ \A w \in Flights : flights[w] # Null => TextLives(flights[w].text)
  /\ tab # Null => TextLives(tab.doc) /\ TextLives(tab.content) /\ TextLives(tab.initial)

PropLives(prop) == prop <= count.change /\ prop \notin void.prop
PropsLive ==
  /\ PropLives(tree.json.prop) /\ PropLives(repo.index.json.prop) /\ PropLives(repo.head.json.prop)
  /\ \A k \in DOMAIN wire : wire[k].kind = "update" => PropLives(wire[k].prop)
  /\ \A k \in DOMAIN queue : IsUpdate(k) => PropLives(queue[k].prop)
  /\ editing # Null => PropLives(editing.read.prop)
                       /\ (editing.edit.kind = "update" => PropLives(editing.edit.prop))
  /\ panel # Null => PropLives(panel.selected.prop) /\ PropLives(panel.copied.prop)
  /\ memory # Null => PropLives(memory.prop)

VoidPast == void.text \subseteq 1..count.key /\ void.prop \subseteq 1..count.change

Orders == Untouched /\ RunsLast /\ ResetAlone /\ Emptied
Edited == SentinelLast /\ Remembers /\ Prepared /\ Current /\ Answered
Saves  == TextKept /\ Flushed /\ TextsTaken
Lives  == TextsLive /\ PropsLive /\ VoidPast
SessionInv == TypeOK /\ Orders /\ Edited /\ Saves /\ Lives

-----------------------------------------------------------------------------
(* How the connection, the operations and the panel move.                  *)

OpMessage(o) == [kind |-> "op", name |-> o]

\* Why a message was sent.
Cause(m) ==
  \/ m.kind = "link" /\ drawLink
  \/ m = Update(panel) /\ m.kind = "update" /\ closeProperty
     /\ panel # Null /\ hasEdits(panel)
  \/ m.kind = "save" /\ tab # Null /\ (autoSaveAll \/ saveAllFiles \/ revertAll)
  \/ m = OpMessage(m.name) /\ m.kind = "op" /\ emitProjectOperation(m.name)

RunWithEdits ==
  /\ emitProjectOperation("runProject")
  /\ panel # Null /\ hasEdits(panel) /\ Update(panel) \in Message
  /\ wire' = Append(Append(wire, Update(panel)), OpMessage("runProject"))

LEMMA EmitWire ==
  ASSUME TypeOK, NEW o \in Operations, emitProjectOperation(o)
  PROVE  /\ OpMessage(o) \in Message /\ OpMessage(o).kind = "op" /\ OpMessage(o).name = o
         /\ wire' = Append(wire, OpMessage(o)) \/ (o = "runProject" /\ RunWithEdits)
<1>1. OpMessage(o) \in Message BY MessageFacts DEF OpMessage
<1>2. CASE o = "runProject" /\ panel # Null /\ hasEdits(panel)
  <2>1. Leaving(panel) = <<Update(panel)>> /\ Update(panel) \in Message
    BY <1>2, LeavingFacts DEF TypeOK
  <2>2. wire \o Leaving(panel) = Append(wire, Update(panel))
        /\ Append(wire, Update(panel)) \in Seq(Message)
    BY <2>1, AppendFacts DEF TypeOK
  <2>3. wire' = Append(wire, Update(panel)) \o <<OpMessage(o)>>
    BY <1>2, <2>2 DEF emitProjectOperation, OpMessage
  <2>4. wire' = Append(Append(wire, Update(panel)), OpMessage(o))
    BY <1>1, <2>2, <2>3, AppendFacts
  <2> QED BY <1>1, <1>2, <2>1, <2>4 DEF RunWithEdits, OpMessage
<1>3. CASE ~(o = "runProject" /\ panel # Null /\ hasEdits(panel))
  <2>1. o = "runProject" => wire \o Leaving(panel) = wire
    BY <1>3, LeavingFacts, ConcatEmptySeq DEF TypeOK
  <2>2. wire' = wire \o <<OpMessage(o)>>
    BY <2>1 DEF emitProjectOperation, OpMessage
  <2>3. wire' = Append(wire, OpMessage(o)) BY <1>1, <2>2, AppendFacts DEF TypeOK
  <2> QED BY <1>1, <2>3 DEF OpMessage
<1> QED BY <1>2, <1>3

LEMMA CloseWire ==
  ASSUME TypeOK, closeProperty
  PROVE  \/ UNCHANGED wire
         \/ /\ Update(panel) \in Message /\ Cause(Update(panel))
            /\ wire' = Append(wire, Update(panel))
<1>1. CASE hasEdits(panel)
  <2>1. Leaving(panel) = <<Update(panel)>> /\ Update(panel) \in Message
        /\ Update(panel).kind = "update"
    BY <1>1, LeavingFacts DEF TypeOK, closeProperty
  <2>2. wire' = Append(wire, Update(panel)) BY <2>1, AppendFacts DEF TypeOK, closeProperty
  <2>3. panel # Null BY DEF closeProperty
  <2> QED BY <1>1, <2>1, <2>2, <2>3 DEF Cause
<1>2. CASE ~hasEdits(panel)
  BY <1>2, LeavingFacts, ConcatEmptySeq DEF TypeOK, closeProperty
<1> QED BY <1>1, <1>2

LEMMA SaveWire ==
  ASSUME TypeOK, autoSaveAll \/ saveAllFiles
  PROVE  \/ UNCHANGED wire /\ tab.content = tab.doc
         \/ /\ Save(tab.doc) \in Message /\ Cause(Save(tab.doc)) /\ tab.content # tab.doc
            /\ wire' = Append(wire, Save(tab.doc))
<1>1. tab # Null /\ wire' = wire \o Unsaved BY DEF autoSaveAll, saveAllFiles
<1>2. CASE tab.content = tab.doc
  BY <1>1, <1>2, UnsavedFacts, ConcatEmptySeq DEF TypeOK
<1>3. CASE tab.content # tab.doc
  <2>1. Unsaved = <<Save(tab.doc)>> /\ Save(tab.doc) \in Message
        /\ Save(tab.doc).kind = "save"
    BY <1>1, <1>3, UnsavedFacts, MessageFacts
  <2>2. wire' = Append(wire, Save(tab.doc)) BY <1>1, <2>1, AppendFacts DEF TypeOK
  <2> QED BY <1>1, <1>3, <2>1, <2>2 DEF Cause
<1> QED BY <1>2, <1>3

\* Everything that happens on the connection.
LEMMA WireStep ==
  ASSUME TypeOK, [Next]_vars
  PROVE  \/ UNCHANGED wire
         \/ Receive /\ wire # <<>> /\ wire' = Tail(wire)
         \/ \E m \in Message : wire' = Append(wire, m) /\ Cause(m)
         \/ RunWithEdits
<1>1. CASE OpenPanel \/ ChangeProperty \/ onFile \/ Type \/ closeTab \/ makeWritable
  BY <1>1 DEF OpenPanel, ChangeProperty, onFile, Type, closeTab, makeWritable
<1>2. CASE closeProperty BY <1>2, CloseWire
<1>3. CASE drawLink
  <2>1. [kind |-> "link"] \in Message BY MessageFacts
  <2> QED BY <1>3, <2>1 DEF drawLink, Cause
<1>4. CASE autoSaveAll \/ saveAllFiles BY <1>4, SaveWire
<1>5. CASE revertAll
  <2>1. Save(tab.initial) \in Message /\ Save(tab.initial).kind = "save"
    BY <1>5, UnsavedFacts, MessageFacts DEF revertAll
  <2>2. tab # Null /\ wire' = Append(wire, Save(tab.initial)) BY <1>5 DEF revertAll
  <2> QED BY <1>5, <2>1, <2>2 DEF Cause
<1>6. ASSUME NEW o \in Operations, emitProjectOperation(o)
      PROVE  (\E m \in Message : wire' = Append(wire, m) /\ Cause(m)) \/ RunWithEdits
  <2>1. OpMessage(o) \in Message /\ OpMessage(o).kind = "op" /\ OpMessage(o).name = o
    BY <1>6, EmitWire
  <2>2. Cause(OpMessage(o)) BY <1>6, <2>1 DEF Cause
  <2> QED BY <1>6, <2>1, <2>2, EmitWire
<1>7. CASE Receive
  BY <1>7 DEF Receive, ReceiveSave, ReceiveEdit, onProjectOperation
<1>8. CASE EditQueue \/ SaveTimer \/ \E w \in DOMAIN flights : EndFlush(w)
  BY <1>8 DEF EditQueue, BeginEdit, WriteEdit, EndEdit, SentinelRuns, SentinelDone, SaveTimer,
              EndFlush
<1>9. CASE Operator
  BY <1>9 DEF Operator, TakeOperation, Validate, CommitRun, Ask, Answer, BeginReset, Reset,
              onSaveProject, onStopProject
<1>10. CASE Runner
  BY <1>10 DEF Runner, Prepare, PreparationFails, StartRun, Progress, Conclude
<1>11. CASE UNCHANGED vars BY <1>11 DEF vars
<1> QED BY <1>1, <1>2, <1>3, <1>4, <1>5, <1>6, <1>7, <1>8, <1>9, <1>10, <1>11 DEF Next, User

LEMMA WireAppend ==
  ASSUME TypeOK, NEW m \in Message, wire' = Append(wire, m)
  PROVE  /\ Len(wire) \in Nat /\ DOMAIN wire = 1..Len(wire)
         /\ DOMAIN wire' = 1..(Len(wire) + 1)
         /\ \A k \in DOMAIN wire : wire'[k] = wire[k]
         /\ wire'[Len(wire) + 1] = m
BY AppendFacts DEF TypeOK

LEMMA WireTwice ==
  ASSUME TypeOK, RunWithEdits
  PROVE  /\ Len(wire) \in Nat /\ DOMAIN wire = 1..Len(wire)
         /\ DOMAIN wire' = 1..(Len(wire) + 2)
         /\ \A k \in DOMAIN wire : wire'[k] = wire[k]
         /\ wire'[Len(wire) + 1] = Update(panel) /\ Update(panel).kind = "update"
         /\ Update(panel).prop = panel.copied.prop
         /\ wire'[Len(wire) + 2] = OpMessage("runProject")
<1> DEFINE w == Append(wire, Update(panel))
<1>1. /\ w \in Seq(Message) /\ Len(w) = Len(wire) + 1
      /\ DOMAIN w = 1..(Len(wire) + 1) /\ DOMAIN wire = 1..Len(wire) /\ Len(wire) \in Nat
      /\ \A k \in DOMAIN wire : w[k] = wire[k]
      /\ w[Len(wire) + 1] = Update(panel)
  BY AppendFacts DEF TypeOK, RunWithEdits
<1>2. OpMessage("runProject") \in Message BY MessageFacts DEF OpMessage, Operations
<1>3. wire' = Append(w, OpMessage("runProject")) BY DEF RunWithEdits
<1> HIDE DEF w
<1>4. /\ DOMAIN wire' = 1..(Len(w) + 1) /\ \A k \in DOMAIN w : wire'[k] = w[k]
      /\ wire'[Len(w) + 1] = OpMessage("runProject")
  BY <1>1, <1>2, <1>3, AppendFacts
<1>5. Update(panel).kind = "update" /\ Update(panel).prop = panel.copied.prop
  BY LeavingFacts DEF RunWithEdits, TypeOK
<1> QED BY <1>1, <1>4, <1>5

LEMMA WireTail ==
  ASSUME TypeOK, wire # <<>>, wire' = Tail(wire)
  PROVE  /\ Len(wire) \in Nat \ {0} /\ DOMAIN wire = 1..Len(wire)
         /\ Head(wire) = wire[1] /\ 1 \in DOMAIN wire /\ Head(wire) \in Message
         /\ DOMAIN wire' = 1..(Len(wire) - 1)
         /\ \A k \in DOMAIN wire' : k + 1 \in DOMAIN wire /\ wire'[k] = wire[k + 1]
BY TailFacts DEF TypeOK

\* The operation in hand goes on, comes to an end or is taken from its queue.
LEMMA OpStep ==
  ASSUME TypeOK, SentinelLast, [Next]_vars
  PROVE  \/ UNCHANGED op
         \/ op' = Null
         \/ op # Null /\ op' # Null /\ op'.name = op.name
         \/ /\ TakeOperation /\ op = Null /\ op' # Null /\ op'.name = Head(ops)
            /\ op'.name = "runProject" => op'.at = "sentinel" /\ runner = "idle"
            /\ op'.at \notin {"flushing", "commit", "drain"}
<1>1. CASE User \/ autoSaveAll \/ Receive \/ SaveTimer \/ Runner
           \/ \E w \in DOMAIN flights : EndFlush(w)
  BY <1>1 DEF User, OpenPanel, ChangeProperty, closeProperty, drawLink, onFile, Type, closeTab,
     saveAllFiles, revertAll, emitProjectOperation, makeWritable, autoSaveAll, Receive,
     ReceiveSave, ReceiveEdit, onProjectOperation, SaveTimer, EndFlush, Runner, Prepare,
     PreparationFails, StartRun, Progress, Conclude
<1>2. CASE BeginEdit \/ WriteEdit \/ EndEdit
  BY <1>2 DEF BeginEdit, WriteEdit, EndEdit
<1>3. CASE SentinelRuns
  <2>1. op \in InProgress /\ op.name = "runProject"
    BY <1>3, TailFacts DEF SentinelLast, SentinelRuns, SentinelDone, TypeOK, Doing
  <2> QED BY <1>3, <2>1, OpFacts DEF SentinelRuns, SentinelDone, At
<1>4. CASE TakeOperation
  <2>1. Head(ops) \in Operations /\ op = Null BY <1>4, TailFacts DEF TakeOperation, TypeOK
  <2>2. op' = Null
        \/ (Head(ops) = "runProject" /\ runner = "idle"
            /\ op' = [name |-> "runProject", at |-> "sentinel"])
        \/ (Head(ops) \in Resetting /\ op' = [name |-> Head(ops), at |-> "ask"])
        \/ (Head(ops) \in {"stopProject", "saveProject"} /\ op' = [name |-> Head(ops), at |-> "go"])
    BY <1>4, <2>1 DEF TakeOperation, Operations, Resetting
  <2>3. op' = Null \/ op' \in InProgress BY <2>2, OpFacts
  <2> QED BY <1>4, <2>1, <2>2, <2>3, OpFacts DEF Resetting
<1>5. CASE Validate
  <2>1. op \in InProgress /\ op.name = "runProject" BY <1>5, OpFacts DEF Validate, TypeOK
  <2>2. At("commit") \in InProgress /\ At("commit").name = op.name BY <2>1, OpFacts DEF At
  <2> QED BY <1>5, <2>1, <2>2, OpFacts DEF Validate
<1>6. CASE Ask \/ Answer \/ BeginReset
  <2>1. op \in InProgress /\ op.name \in Resetting
    BY <1>6, OpFacts DEF Ask, Answer, BeginReset, TypeOK
  <2>2. ASSUME NEW p \in {"ask", "asked", "clear", "drain"}
        PROVE  At(p) \in InProgress /\ At(p).name = op.name
    <3>1. [op EXCEPT !.at = p] \in InProgress /\ [op EXCEPT !.at = p].name = op.name
      BY <2>1, ResetGoesOn
    <3> QED BY <3>1 DEF At
  <2>3. op' = Null \/ \E p \in {"ask", "asked", "clear", "drain"} : op' = At(p)
    BY <1>6 DEF Ask, Answer, BeginReset
  <2> QED BY <2>1, <2>2, <2>3, OpFacts
<1>7. CASE CommitRun \/ Reset \/ onSaveProject \/ onStopProject
  BY <1>7 DEF CommitRun, Reset, onSaveProject, onStopProject
<1>8. CASE UNCHANGED vars BY <1>8 DEF vars
<1> QED BY <1>1, <1>2, <1>3, <1>4, <1>5, <1>6, <1>7, <1>8 DEF Next, EditQueue, Operator

LEMMA OpsStep ==
  ASSUME TypeOK, [Next]_vars
  PROVE  \/ UNCHANGED ops
         \/ TakeOperation /\ ops # <<>> /\ ops' = Tail(ops)
         \/ /\ onProjectOperation /\ wire # <<>> /\ wire' = Tail(wire)
            /\ Head(wire).kind = "op" /\ Head(wire).name \in Operations
            /\ \/ ops' = Append(ops, Head(wire).name)
               \/ Head(wire).name = "cleanProject" /\ ops' = <<Head(wire).name>>
<1>1. CASE User \/ autoSaveAll \/ EditQueue \/ SaveTimer \/ Runner
           \/ \E w \in DOMAIN flights : EndFlush(w)
  BY <1>1 DEF User, OpenPanel, ChangeProperty, closeProperty, drawLink, onFile, Type, closeTab,
     saveAllFiles, revertAll, emitProjectOperation, makeWritable, autoSaveAll, SaveTimer,
     EndFlush, Runner, Prepare, PreparationFails, StartRun, Progress, Conclude, EditQueue,
     BeginEdit, WriteEdit, EndEdit, SentinelRuns, SentinelDone
<1>2. CASE ReceiveSave \/ ReceiveEdit BY <1>2 DEF ReceiveSave, ReceiveEdit
<1>3. CASE onProjectOperation
  <2>1. Head(wire) \in Message BY <1>3, TailFacts DEF onProjectOperation, TypeOK
  <2> QED BY <1>3, <2>1, MessageFacts DEF onProjectOperation
<1>4. CASE TakeOperation BY <1>4 DEF TakeOperation
<1>5. CASE Validate \/ CommitRun \/ Ask \/ Answer \/ BeginReset \/ Reset \/ onSaveProject
           \/ onStopProject
  BY <1>5 DEF Validate, CommitRun, Ask, Answer, BeginReset, Reset, onSaveProject, onStopProject
<1>6. CASE UNCHANGED vars BY <1>6 DEF vars
<1> QED BY <1>1, <1>2, <1>3, <1>4, <1>5, <1>6 DEF Next, Receive, Operator

\* What the server has received of an operation came over the connection.
LEMMA ReceivedStep ==
  ASSUME TypeOK, SentinelLast, [Next]_vars, NEW names \in SUBSET Operations, Received(names)'
  PROVE  \/ Received(names)
         \/ /\ onProjectOperation /\ wire # <<>> /\ wire' = Tail(wire)
            /\ Asks(1, names) /\ 1 \in DOMAIN wire
<1>1. CASE op' # Null /\ op'.name \in names
  <2>1. CASE TakeOperation /\ op'.name = Head(ops)
    <3>1. 1 \in DOMAIN ops /\ Head(ops) = ops[1]
      BY <2>1, TailFacts DEF TakeOperation, TypeOK
    <3> QED BY <1>1, <2>1, <3>1 DEF Received
  <2>2. CASE ~(TakeOperation /\ op'.name = Head(ops))
    BY <1>1, <2>2, OpStep DEF Received
  <2> QED BY <2>1, <2>2
<1>2. ASSUME NEW k \in DOMAIN ops', ops'[k] \in names
      PROVE  \/ Received(names)
             \/ /\ onProjectOperation /\ wire # <<>> /\ wire' = Tail(wire)
                /\ Asks(1, names) /\ 1 \in DOMAIN wire
  <2>1. CASE UNCHANGED ops BY <1>2, <2>1 DEF Received
  <2>2. CASE ops # <<>> /\ ops' = Tail(ops)
    <3>1. k + 1 \in DOMAIN ops /\ ops'[k] = ops[k + 1] BY <1>2, <2>2, TailFacts DEF TypeOK
    <3> QED BY <1>2, <3>1 DEF Received
  <2>3. CASE /\ onProjectOperation /\ wire # <<>> /\ wire' = Tail(wire)
             /\ Head(wire).kind = "op" /\ Head(wire).name \in Operations
             /\ \/ ops' = Append(ops, Head(wire).name)
                \/ Head(wire).name = "cleanProject" /\ ops' = <<Head(wire).name>>
    <3>1. Head(wire) = wire[1] /\ 1 \in DOMAIN wire BY <2>3, TailFacts DEF TypeOK
    <3>2. CASE ops'[k] = Head(wire).name BY <1>2, <2>3, <3>1, <3>2 DEF Asks
    <3>3. CASE ops' = Append(ops, Head(wire).name) /\ k \in DOMAIN ops
      BY <1>2, <2>3, <3>3, AppendFacts DEF Received, TypeOK
    <3>4. ops' = Append(ops, Head(wire).name) /\ k \notin DOMAIN ops => ops'[k] = Head(wire).name
      BY <1>2, <2>3, AppendFacts DEF TypeOK
    <3>5. ops' = <<Head(wire).name>> => ops'[k] = Head(wire).name BY <1>2
    <3> QED BY <2>3, <3>2, <3>3, <3>4, <3>5
  <2> QED BY <2>1, <2>2, <2>3, OpsStep
<1> QED BY <1>1, <1>2 DEF Received

\* ... and what is on the connection was asked for by the client.
LEMMA SentStep ==
  ASSUME TypeOK, SentinelLast, [Next]_vars, NEW names \in SUBSET Operations, Sent(names)'
  PROVE  Sent(names) \/ \E o \in names : emitProjectOperation(o)
<1>0. Sent(names) <=> (Received(names) \/ \E k \in DOMAIN wire : Asks(k, names))
  BY DEF Sent, Received, Asks
<1>1. CASE Received(names)'
  BY <1>0, <1>1, ReceivedStep
<1>2. ASSUME NEW k \in DOMAIN wire', Asks(k, names)'
      PROVE  (\E j \in DOMAIN wire : Asks(j, names)) \/ \E o \in names : emitProjectOperation(o)
  <2>1. CASE UNCHANGED wire BY <1>2, <2>1 DEF Asks
  <2>2. CASE wire # <<>> /\ wire' = Tail(wire)
    BY <1>2, <2>2, WireTail DEF Asks
  <2>3. ASSUME NEW m \in Message, wire' = Append(wire, m), Cause(m)
        PROVE  (\E j \in DOMAIN wire : Asks(j, names)) \/ \E o \in names : emitProjectOperation(o)
    <3>1. CASE k \in DOMAIN wire BY <1>2, <2>3, <3>1, WireAppend DEF Asks
    <3>2. CASE k \notin DOMAIN wire
      <4>1. wire'[k] = m BY <1>2, <2>3, <3>2, WireAppend
      <4> QED BY <1>2, <2>3, <4>1 DEF Asks, Cause
    <3> QED BY <3>1, <3>2
  <2>4. CASE RunWithEdits
    <3>1. CASE k \in DOMAIN wire BY <1>2, <2>4, <3>1, WireTwice DEF Asks
    <3>2. CASE k = Len(wire) + 1 BY <1>2, <2>4, <3>2, WireTwice DEF Asks
    <3>3. CASE k = Len(wire) + 2
      BY <1>2, <2>4, <3>3, WireTwice DEF Asks, RunWithEdits, OpMessage
    <3>4. k \in DOMAIN wire \/ k = Len(wire) + 1 \/ k = Len(wire) + 2
      BY <1>2, <2>4, WireTwice
    <3> QED BY <3>1, <3>2, <3>3, <3>4
  <2> QED BY <2>1, <2>2, <2>3, <2>4, WireStep
<1>3. Sent(names)' <=> (Received(names)' \/ \E k \in DOMAIN wire' : Asks(k, names)')
  BY DEF Sent, Received, Asks
<1> QED BY <1>0, <1>1, <1>2, <1>3

LEMMA RunnerStep ==
  ASSUME TypeOK, [Next]_vars
  PROVE  /\ runner' # "idle" /\ runner = "idle" => CommitRun
         /\ \/ UNCHANGED <<runner, memory>>
            \/ CommitRun /\ runner' = "accepted" /\ UNCHANGED memory
            \/ Prepare /\ runner = "accepted" /\ runner' = "preparing" /\ UNCHANGED memory
            \/ PreparationFails /\ runner = "preparing" /\ runner' = "idle" /\ UNCHANGED memory
            \/ StartRun /\ runner = "preparing" /\ runner' = "running" /\ memory' = tree.json
            \/ /\ Progress /\ runner = "running" /\ runner' = "running"
               /\ memory' = [memory EXCEPT !.done = TRUE]
            \/ runner' = "idle" /\ memory' = Null
<1>1. CASE User \/ autoSaveAll \/ Receive \/ EditQueue \/ SaveTimer
           \/ \E w \in DOMAIN flights : EndFlush(w)
  BY <1>1 DEF User, OpenPanel, ChangeProperty, closeProperty, drawLink, onFile, Type, closeTab,
     saveAllFiles, revertAll, emitProjectOperation, makeWritable, autoSaveAll, SaveTimer,
     EndFlush, EditQueue, BeginEdit, WriteEdit, EndEdit, SentinelRuns, SentinelDone, Receive,
     ReceiveSave, ReceiveEdit, onProjectOperation
<1>2. CASE TakeOperation \/ Validate \/ Ask \/ Answer \/ BeginReset \/ Reset \/ onSaveProject
  BY <1>2 DEF TakeOperation, Validate, Ask, Answer, BeginReset, Reset, onSaveProject
<1>3. CASE CommitRun BY <1>3 DEF CommitRun
<1>4. CASE onStopProject BY <1>4 DEF onStopProject
<1>5. CASE Runner
  BY <1>5 DEF Runner, Prepare, PreparationFails, StartRun, Progress, Conclude
<1>6. CASE UNCHANGED vars BY <1>6 DEF vars
<1> QED BY <1>1, <1>2, <1>3, <1>4, <1>5, <1>6 DEF Next, Operator

\* A copy of the component gets its first edit from the user.
LEMMA PanelStep ==
  ASSUME TypeOK, Remembers, [Next]_vars
  PROVE  \/ UNCHANGED panel
         \/ panel' = Null
         \/ OpenPanel
         \/ ChangeProperty
         \/ \E json \in Json : panel' = Shown(json)
<1>1. CASE closeProperty \/ drawLink \/ onFile \/ Type \/ closeTab \/ saveAllFiles \/ revertAll
           \/ makeWritable \/ autoSaveAll \/ SaveTimer \/ Receive
           \/ \E w \in DOMAIN flights : EndFlush(w)
  BY <1>1 DEF closeProperty, drawLink, onFile, Type, closeTab, saveAllFiles, revertAll,
     makeWritable, autoSaveAll, SaveTimer, EndFlush, Receive, ReceiveSave, ReceiveEdit,
     onProjectOperation
<1>2. CASE OpenPanel \/ ChangeProperty BY <1>2
<1>3. ASSUME NEW o \in Operations, emitProjectOperation(o)
      PROVE  UNCHANGED panel \/ panel' = Null
  BY <1>3 DEF emitProjectOperation
<1>4. CASE EditQueue
  BY <1>4, TypeRepo DEF EditQueue, BeginEdit, WriteEdit, EndEdit, SentinelRuns, SentinelDone
<1>5. CASE Operator
  <2>1. CASE onSaveProject
    <3>1. repo'.tree.json \in Json BY <2>1, SaveProject
    <3> QED BY <2>1, <3>1 DEF onSaveProject
  <2>2. CASE Operator /\ ~onSaveProject
    BY <2>2, TypeRepo DEF Operator, TakeOperation, Validate, CommitRun, Ask, Answer, BeginReset,
       Reset, onStopProject
  <2> QED BY <1>5, <2>1, <2>2
<1>6. CASE Runner
  <2>1. CASE Progress
    <3>1. memory \in Json BY <2>1 DEF Progress, TypeOK, Remembers
    <3>2. memory' \in Json BY <2>1, <3>1, JsonFacts DEF Progress
    <3> QED BY <2>1, <3>2 DEF Progress
  <2>2. CASE Prepare \/ PreparationFails \/ StartRun \/ Conclude
    BY <2>2 DEF Prepare, PreparationFails, StartRun, Conclude
  <2> QED BY <1>6, <2>1, <2>2 DEF Runner
<1>7. CASE UNCHANGED vars BY <1>7 DEF vars
<1> QED BY <1>1, <1>2, <1>3, <1>4, <1>5, <1>6, <1>7 DEF Next, User

-----------------------------------------------------------------------------
(* The order in which runs, resets and edits are asked for.                *)

LEMMA CommitOfRun ==
  ASSUME TypeOK, (SentinelRuns /\ SentinelLast) \/ Validate \/ CommitRun
  PROVE  Doing("runProject") /\ Received(Blocking) /\ op.at # "drain"
<1>1. op \in InProgress /\ op.name = "runProject" /\ op.at \in {"sentinel", "flushing", "commit"}
  <2>1. CASE SentinelRuns /\ SentinelLast
    <3>1. 1 \in DOMAIN queue /\ queue[1] = Sentinel
      BY <2>1, TailFacts DEF SentinelRuns, SentinelDone, TypeOK
    <3> QED BY <2>1, <3>1, OpFacts DEF SentinelLast, Doing, TypeOK
  <2>2. CASE Validate \/ CommitRun
    BY <2>2, OpFacts DEF Validate, CommitRun, TypeOK
  <2> QED BY <2>1, <2>2
<1> QED BY <1>1, OpFacts DEF Doing, Received, Blocking

LEMMA BusyStep ==
  ASSUME TypeOK, SentinelLast, [Next]_vars, Busy'
  PROVE  Busy \/ \E o \in Blocking : emitProjectOperation(o)
<1>1. Blocking \in SUBSET Operations BY DEF Blocking, Resetting, Operations
<1>2. CASE Sent(Blocking)' BY <1>1, <1>2, SentStep DEF Busy
<1>3. CASE runner' # "idle"
  <2>1. runner # "idle" \/ CommitRun BY <1>3, RunnerStep
  <2>2. CommitRun => Sent(Blocking) BY CommitOfRun DEF Received, Sent
  <2> QED BY <2>1, <2>2 DEF Busy
<1>4. Busy' <=> (Sent(Blocking)' \/ runner' # "idle") BY DEF Busy
<1> QED BY <1>2, <1>3, <1>4

LEMMA TakenStep ==
  ASSUME TypeOK, SentinelLast, [Next]_vars, Taken'
  PROVE  \/ Taken
         \/ /\ onProjectOperation /\ wire # <<>> /\ wire' = Tail(wire)
            /\ Asks(1, Blocking) /\ 1 \in DOMAIN wire
<1>1. Blocking \in SUBSET Operations BY DEF Blocking, Resetting, Operations
<1>2. CASE Received(Blocking)' BY <1>1, <1>2, ReceivedStep DEF Taken
<1>3. CASE runner' # "idle"
  <2>1. runner # "idle" \/ CommitRun BY <1>3, RunnerStep
  <2> QED BY <2>1, CommitOfRun DEF Taken
<1>4. Taken' <=> (Received(Blocking)' \/ runner' # "idle") BY DEF Taken
<1> QED BY <1>2, <1>3, <1>4

LEMMA TakenBusy == Taken => Busy
BY DEF Taken, Busy, Received, Sent

LEMMA AskedBusy ==
  ASSUME NEW k \in DOMAIN wire, Asks(k, Blocking)
  PROVE  Busy
BY DEF Asks, Busy, Sent

\* Care keeps the user from editing while anything goes on.
LEMMA Care ==
  ASSUME ~Careless, MayEdit
  PROVE  ~Busy
BY DEF MayEdit, Busy, Blocking

\* The client sends an edit only when nothing was asked for.
LEMMA EditCause ==
  ASSUME ~Careless, Untouched, NEW m, Cause(m), m.kind \in {"update", "link"}
  PROVE  ~Busy
BY Care DEF Cause, drawLink, Untouched

LEMMA CleanPanel ==
  ASSUME ~Careless, TypeOK, SentinelLast, Remembers, Untouched, [Next]_vars, Busy'
  PROVE  panel' # Null => ~hasEdits(panel)'
<1>1. ASSUME NEW o \in Blocking, emitProjectOperation(o)
      PROVE  panel' # Null => ~hasEdits(panel)'
  <2>1. CASE o = "runProject" BY <1>1, <2>1 DEF emitProjectOperation
  <2>2. CASE o \in Resetting
    <3>1. panel # Null => ~hasEdits(panel) BY <1>1, <2>2 DEF emitProjectOperation, MayReset
    <3>2. panel' = panel BY <1>1, <2>2 DEF emitProjectOperation, Resetting
    <3> QED BY <3>1, <3>2 DEF hasEdits
  <2> QED BY <2>1, <2>2 DEF Blocking
<1>2. CASE Busy
  <2>1. panel # Null => ~hasEdits(panel) BY <1>2 DEF Untouched
  <2>2. ~ChangeProperty BY <1>2, Care DEF ChangeProperty
  <2>3. CASE UNCHANGED panel BY <2>1, <2>3 DEF hasEdits
  <2>4. CASE OpenPanel BY <2>4 DEF OpenPanel, hasEdits
  <2>5. ASSUME NEW json \in Json, panel' = Shown(json)
        PROVE  panel' # Null => ~hasEdits(panel)'
    BY <2>1, <2>5, ShownFacts DEF TypeOK, hasEdits
  <2> QED BY <2>2, <2>3, <2>4, <2>5, PanelStep
<1> QED BY <1>1, <1>2, BusyStep

LEMMA NoEditReceived ==
  ASSUME ~Careless, TypeOK, SentinelLast, Untouched, [Next]_vars, Taken'
  PROVE  \A k \in DOMAIN wire' : ~IsEdit(k)'
<1>1. CASE Taken
  <2>1. Busy /\ \A k \in DOMAIN wire : ~IsEdit(k) BY <1>1, TakenBusy DEF Untouched
  <2>2. CASE UNCHANGED wire BY <2>1, <2>2 DEF IsEdit
  <2>3. CASE wire # <<>> /\ wire' = Tail(wire) BY <2>1, <2>3, WireTail DEF IsEdit
  <2>4. ASSUME NEW m \in Message, wire' = Append(wire, m), Cause(m)
        PROVE  \A k \in DOMAIN wire' : ~IsEdit(k)'
    <3>1. m.kind \notin {"update", "link"} BY <2>1, <2>4, EditCause
    <3> QED BY <2>1, <2>4, <3>1, WireAppend DEF IsEdit
  <2>5. ~RunWithEdits BY <2>1 DEF Untouched, RunWithEdits
  <2> QED BY <2>2, <2>3, <2>4, <2>5, WireStep
<1>2. CASE wire # <<>> /\ wire' = Tail(wire) /\ Asks(1, Blocking) /\ 1 \in DOMAIN wire
  <2>1. \A k \in DOMAIN wire : IsEdit(k) => k < 1 BY <1>2 DEF Untouched
  <2> QED BY <1>2, <2>1, WireTail DEF IsEdit
<1> QED BY <1>1, <1>2, TakenStep

LEMMA EditsFirst ==
  ASSUME ~Careless, TypeOK, SentinelLast, Untouched, [Next]_vars,
         NEW j \in DOMAIN wire', NEW k \in DOMAIN wire', Asks(j, Blocking)', IsEdit(k)'
  PROVE  k < j
<1>0. \A i, l \in DOMAIN wire : Asks(i, Blocking) /\ IsEdit(l) => l < i BY DEF Untouched
<1>1. CASE UNCHANGED wire BY <1>0, <1>1 DEF Asks, IsEdit
<1>2. CASE wire # <<>> /\ wire' = Tail(wire)
  <2>1. j + 1 \in DOMAIN wire /\ k + 1 \in DOMAIN wire /\ j \in Nat /\ k \in Nat
        /\ wire'[j] = wire[j + 1] /\ wire'[k] = wire[k + 1]
    BY <1>2, WireTail
  <2>2. k + 1 < j + 1 BY <1>0, <2>1 DEF Asks, IsEdit
  <2> QED BY <2>1, <2>2
<1>3. ASSUME NEW m \in Message, wire' = Append(wire, m), Cause(m)
      PROVE  k < j
  <2>1. CASE m.kind \in {"update", "link"}
    <3>1. ~Busy BY <1>3, <2>1, EditCause
    <3>2. j \in DOMAIN wire BY <1>3, <2>1, WireAppend DEF Asks
    <3>3. Asks(j, Blocking) BY <1>3, <3>2, WireAppend DEF Asks
    <3> QED BY <3>1, <3>2, <3>3, AskedBusy
  <2>2. CASE m.kind \notin {"update", "link"}
    <3>1. k \in DOMAIN wire /\ IsEdit(k) BY <1>3, <2>2, WireAppend DEF IsEdit
    <3>2. CASE j \in DOMAIN wire BY <1>0, <1>3, <3>1, <3>2, WireAppend DEF Asks
    <3>3. CASE j \notin DOMAIN wire BY <1>3, <3>1, <3>3, WireAppend
    <3> QED BY <3>2, <3>3
  <2> QED BY <2>1, <2>2
<1>4. CASE RunWithEdits
  <2>1. ~Busy BY <1>4 DEF Untouched, RunWithEdits
  <2>2. j \notin DOMAIN wire
    <3>1. j \in DOMAIN wire => Asks(j, Blocking) BY <1>4, WireTwice DEF Asks
    <3> QED BY <2>1, <3>1, AskedBusy
  <2>3. j = Len(wire) + 2 BY <1>4, <2>2, WireTwice DEF Asks
  <2>4. k # Len(wire) + 2 BY <1>4, WireTwice DEF IsEdit, OpMessage
  <2> QED BY <1>4, <2>3, <2>4, WireTwice
<1> QED BY <1>1, <1>2, <1>3, <1>4, WireStep

LEMMA UntouchedStep ==
  ASSUME ~Careless, TypeOK, SentinelLast, Remembers, Untouched, [Next]_vars
  PROVE  Untouched'
<1>1. Busy' => (panel' # Null => ~hasEdits(panel)') BY CleanPanel
<1>2. Taken' => \A k \in DOMAIN wire' : ~IsEdit(k)' BY NoEditReceived
<1>3. \A j, k \in DOMAIN wire' : Asks(j, Blocking)' /\ IsEdit(k)' => k < j BY EditsFirst
<1> QED BY <1>1, <1>2, <1>3 DEF Untouched

LEMMA ResetCause ==
  ASSUME ~Careless, NEW o \in Resetting, emitProjectOperation(o)
  PROVE  /\ Settled /\ tab = Null /\ (panel # Null => ~hasEdits(panel)) /\ runner = "idle"
         /\ ~Sent({"runProject"}) /\ UNCHANGED <<op, ops>> /\ ~RunWithEdits
         /\ o = "revertProject" => NoEdits /\ wire = <<>>
         /\ UNCHANGED <<queue, editing, pending, flights, tab, runner>>
         /\ mark' = (IF ~Sent(Resetting) THEN count ELSE mark)
         /\ count' = [count EXCEPT !.op = @ + 1]
BY DEF emitProjectOperation, MayReset, NoEdits, RunWithEdits

LEMMA NoResetWithRun ==
  ASSUME ~Careless, TypeOK, SentinelLast, RunsLast, [Next]_vars, Doing("runProject")'
  PROVE  ~Sent(Resetting)'
<1>0. Resetting \in SUBSET Operations BY DEF Resetting, Operations
<1>1. CASE Doing("runProject")
  <2>1. ~Sent(Resetting) BY <1>1 DEF RunsLast
  <2>2. \A o \in Resetting : ~emitProjectOperation(o)
    BY <1>1, ResetCause DEF Doing, Sent
  <2> QED BY <1>0, <2>1, <2>2, SentStep
<1>2. CASE ~Doing("runProject")
  <2>1. TakeOperation /\ op = Null /\ Head(ops) = "runProject"
    BY <1>2, OpStep DEF Doing
  <2>2. /\ ops # <<>> /\ ops' = Tail(ops) /\ wire' = wire
    BY <2>1 DEF TakeOperation
  <2>3. /\ 1 \in DOMAIN ops /\ ops[1] = "runProject" /\ Len(ops) \in Nat
        /\ DOMAIN ops' = 1..(Len(ops) - 1)
        /\ \A k \in DOMAIN ops' : k + 1 \in DOMAIN ops /\ ops'[k] = ops[k + 1]
    BY <2>1, <2>2, TailFacts DEF TypeOK
  <2>4. \A k \in DOMAIN ops : ops[k] \in Resetting => k < 1 BY <2>3 DEF RunsLast
  <2>5. \A k \in DOMAIN ops' : ops'[k] \notin Resetting BY <2>3, <2>4
  <2>6. \A k \in DOMAIN wire' : ~Asks(k, Resetting)' BY <2>2, <2>3 DEF RunsLast, Asks
  <2>7. op'.name \notin Resetting BY DEF Doing, Resetting
  <2> QED BY <2>5, <2>6, <2>7 DEF Sent, Asks
<1> QED BY <1>1, <1>2

LEMMA RunsAfterResets ==
  ASSUME TypeOK, RunsLast, [Next]_vars,
         NEW j \in DOMAIN ops', NEW k \in DOMAIN ops', ops'[j] = "runProject", ops'[k] \in Resetting
  PROVE  k < j
<1>0. \A i, l \in DOMAIN ops : ops[i] = "runProject" /\ ops[l] \in Resetting => l < i
  BY DEF RunsLast
<1>1. CASE UNCHANGED ops BY <1>0, <1>1
<1>2. CASE ops # <<>> /\ ops' = Tail(ops)
  <2>1. j + 1 \in DOMAIN ops /\ k + 1 \in DOMAIN ops /\ j \in Nat /\ k \in Nat
        /\ ops'[j] = ops[j + 1] /\ ops'[k] = ops[k + 1]
    BY <1>2, TailFacts DEF TypeOK
  <2>2. k + 1 < j + 1 BY <1>0, <2>1
  <2> QED BY <2>1, <2>2
<1>3. CASE /\ wire # <<>> /\ wire' = Tail(wire)
           /\ Head(wire).kind = "op" /\ Head(wire).name \in Operations
           /\ \/ ops' = Append(ops, Head(wire).name)
              \/ Head(wire).name = "cleanProject" /\ ops' = <<Head(wire).name>>
  <2>1. 1 \in DOMAIN wire /\ wire[1] = Head(wire) BY <1>3, WireTail
  <2>2. CASE ops' = Append(ops, Head(wire).name)
    <3>1. /\ DOMAIN ops = 1..Len(ops) /\ Len(ops) \in Nat /\ DOMAIN ops' = 1..(Len(ops) + 1)
          /\ \A i \in DOMAIN ops : ops'[i] = ops[i]
          /\ ops'[Len(ops) + 1] = Head(wire).name
      BY <1>3, <2>2, AppendFacts DEF TypeOK
    <3>2. j # k BY DEF Resetting
    <3>3. CASE k = Len(ops) + 1
      <4>1. j \in DOMAIN ops /\ ops[j] = "runProject" BY <3>1, <3>2, <3>3
      <4>2. Asks(1, Resetting) BY <1>3, <2>1, <3>1, <3>3 DEF Asks
      <4> QED BY <2>1, <4>1, <4>2 DEF RunsLast
    <3>4. CASE j = Len(ops) + 1 BY <3>1, <3>2, <3>4
    <3>5. CASE k \in DOMAIN ops /\ j \in DOMAIN ops BY <1>0, <3>1, <3>5
    <3> QED BY <3>1, <3>3, <3>4, <3>5
  <2>3. CASE ops' = <<"cleanProject">> BY <2>3
  <2> QED BY <1>3, <2>2, <2>3
<1> QED BY <1>1, <1>2, <1>3, OpsStep

\* A reset that is on the connection after a step was asked for before, or is asked for.
LEMMA AskedReset ==
  ASSUME TypeOK, [Next]_vars, NEW k \in DOMAIN wire', Asks(k, Resetting)'
  PROVE  \/ UNCHANGED wire /\ k \in DOMAIN wire /\ Asks(k, Resetting)
         \/ wire # <<>> /\ wire' = Tail(wire) /\ k + 1 \in DOMAIN wire /\ Asks(k + 1, Resetting)
         \/ k \in DOMAIN wire /\ Asks(k, Resetting) /\ UNCHANGED ops
         \/ \E o \in Resetting : emitProjectOperation(o)
<1>1. CASE UNCHANGED wire BY <1>1 DEF Asks
<1>2. CASE wire # <<>> /\ wire' = Tail(wire) BY <1>2, WireTail DEF Asks
<1>3. ASSUME NEW m \in Message, wire' = Append(wire, m), Cause(m)
      PROVE  \/ k \in DOMAIN wire /\ Asks(k, Resetting) /\ UNCHANGED ops
             \/ \E o \in Resetting : emitProjectOperation(o)
  <2>1. UNCHANGED ops
    BY <1>3 DEF Cause, drawLink, closeProperty, autoSaveAll, saveAllFiles, revertAll,
                emitProjectOperation
  <2>2. CASE k \in DOMAIN wire BY <1>3, <2>1, <2>2, WireAppend DEF Asks
  <2>3. CASE k \notin DOMAIN wire
    <3>1. wire'[k] = m BY <1>3, <2>3, WireAppend
    <3> QED BY <1>3, <3>1 DEF Asks, Cause
  <2> QED BY <2>2, <2>3
<1>4. CASE RunWithEdits
  <2>1. UNCHANGED ops BY <1>4 DEF RunWithEdits, emitProjectOperation
  <2>2. k \in DOMAIN wire
    BY <1>4, WireTwice DEF Asks, OpMessage, Resetting
  <2> QED BY <1>4, <2>1, <2>2, WireTwice DEF Asks
<1> QED BY <1>1, <1>2, <1>3, <1>4, WireStep

LEMMA NoResetAfterRun ==
  ASSUME ~Careless, TypeOK, RunsLast, [Next]_vars,
         NEW j \in DOMAIN ops', NEW k \in DOMAIN wire', ops'[j] = "runProject"
  PROVE  ~Asks(k, Resetting)'
<1>0. \A i \in DOMAIN ops, l \in DOMAIN wire : ops[i] = "runProject" => ~Asks(l, Resetting)
  BY DEF RunsLast
<1> SUFFICES ASSUME Asks(k, Resetting)' PROVE FALSE OBVIOUS
<1>1. ASSUME NEW o \in Resetting, emitProjectOperation(o) PROVE FALSE
  BY <1>1, ResetCause DEF Sent
<1>2. CASE UNCHANGED ops BY <1>0, <1>1, <1>2, AskedReset
<1>3. CASE TakeOperation /\ ops # <<>> /\ ops' = Tail(ops)
  <2>1. j + 1 \in DOMAIN ops /\ ops[j + 1] = "runProject" BY <1>3, TailFacts DEF TypeOK
  <2> QED BY <1>0, <1>1, <2>1, AskedReset
<1>4. CASE /\ wire # <<>> /\ wire' = Tail(wire) /\ ~UNCHANGED ops
           /\ Head(wire).kind = "op" /\ Head(wire).name \in Operations
           /\ \/ ops' = Append(ops, Head(wire).name)
              \/ Head(wire).name = "cleanProject" /\ ops' = <<Head(wire).name>>
  <2>1. ~UNCHANGED wire
    <3>1. Len(Tail(wire)) = Len(wire) - 1 /\ Len(wire) \in Nat BY <1>4, TailFacts DEF TypeOK
    <3>2. Len(Tail(wire)) # Len(wire) BY <3>1
    <3>3. Tail(wire) # wire BY <3>2
    <3> QED BY <1>4, <3>3
  <2>2. k + 1 \in DOMAIN wire /\ Asks(k + 1, Resetting) /\ k \in Nat
    <3>1. k + 1 \in DOMAIN wire /\ Asks(k + 1, Resetting) BY <1>1, <1>4, <2>1, AskedReset
    <3> QED BY <1>4, <3>1, WireTail
  <2>3. CASE ops' = Append(ops, Head(wire).name)
    <3>1. /\ DOMAIN ops' = 1..(Len(ops) + 1) /\ DOMAIN ops = 1..Len(ops) /\ Len(ops) \in Nat
          /\ \A i \in DOMAIN ops : ops'[i] = ops[i]
          /\ ops'[Len(ops) + 1] = Head(wire).name
      BY <1>4, <2>3, AppendFacts DEF TypeOK
    <3>2. j \notin DOMAIN ops BY <1>0, <2>2, <3>1
    <3>3. Head(wire).name = "runProject" BY <3>1, <3>2
    <3>4. 1 \in DOMAIN wire /\ Asks(1, {"runProject"}) BY <1>4, <3>3, WireTail DEF Asks
    <3>5. k + 1 < 1 BY <2>2, <3>4 DEF RunsLast
    <3> QED BY <2>2, <3>5
  <2>4. CASE ops' = <<"cleanProject">> BY <2>4
  <2> QED BY <1>4, <2>3, <2>4
<1> QED BY <1>2, <1>3, <1>4, OpsStep

LEMMA ResetsBeforeRuns ==
  ASSUME ~Careless, TypeOK, RunsLast, [Next]_vars,
         NEW j \in DOMAIN wire', NEW k \in DOMAIN wire',
         Asks(j, {"runProject"})', Asks(k, Resetting)'
  PROVE  k < j
<1>0. \A i, l \in DOMAIN wire : Asks(i, {"runProject"}) /\ Asks(l, Resetting) => l < i
  BY DEF RunsLast
<1>1. CASE UNCHANGED wire BY <1>0, <1>1 DEF Asks
<1>2. CASE wire # <<>> /\ wire' = Tail(wire)
  <2>1. j + 1 \in DOMAIN wire /\ k + 1 \in DOMAIN wire /\ j \in Nat /\ k \in Nat
        /\ wire'[j] = wire[j + 1] /\ wire'[k] = wire[k + 1]
    BY <1>2, WireTail
  <2>2. k + 1 < j + 1 BY <1>0, <2>1 DEF Asks
  <2> QED BY <2>1, <2>2
<1>3. ASSUME NEW m \in Message, wire' = Append(wire, m), Cause(m)
      PROVE  k < j
  <2>1. CASE k \notin DOMAIN wire
    <3>1. wire'[k] = m BY <1>3, <2>1, WireAppend
    <3>2. ~Sent({"runProject"})
      <4>1. m.kind = "op" /\ m.name \in Resetting BY <3>1 DEF Asks
      <4> QED BY <1>3, <4>1, ResetCause DEF Cause
    <3>3. j \notin DOMAIN wire BY <1>3, <3>2, WireAppend DEF Sent, Asks
    <3>4. wire'[j] = m BY <1>3, <3>3, WireAppend
    <3> QED BY <3>1, <3>4 DEF Asks, Resetting
  <2>2. CASE k \in DOMAIN wire /\ j \in DOMAIN wire BY <1>0, <1>3, <2>2, WireAppend DEF Asks
  <2>3. CASE k \in DOMAIN wire /\ j \notin DOMAIN wire BY <1>3, <2>3, WireAppend
  <2> QED BY <2>1, <2>2, <2>3
<1>4. CASE RunWithEdits
  <2>1. k \in DOMAIN wire BY <1>4, WireTwice DEF Asks, OpMessage, Resetting
  <2>2. CASE j \in DOMAIN wire BY <1>0, <1>4, <2>1, <2>2, WireTwice DEF Asks
  <2>3. CASE j \notin DOMAIN wire BY <1>4, <2>1, <2>3, WireTwice
  <2> QED BY <2>2, <2>3
<1> QED BY <1>1, <1>2, <1>3, <1>4, WireStep

LEMMA RunsLastStep ==
  ASSUME ~Careless, TypeOK, SentinelLast, RunsLast, [Next]_vars
  PROVE  RunsLast'
<1>1. Doing("runProject")' => ~Sent(Resetting)' BY NoResetWithRun
<1>2. \A j, k \in DOMAIN ops' : ops'[j] = "runProject" /\ ops'[k] \in Resetting' => k < j
  BY RunsAfterResets DEF Resetting
<1>3. \A j \in DOMAIN ops', k \in DOMAIN wire' : ops'[j] = "runProject" => ~Asks(k, Resetting)'
  BY NoResetAfterRun
<1>4. \A j, k \in DOMAIN wire' : Asks(j, {"runProject"})' /\ Asks(k, Resetting)' => k < j
  BY ResetsBeforeRuns
<1> QED BY <1>1, <1>2, <1>3, <1>4 DEF RunsLast

\* What a reset needs is still there when the queue comes to it.
LEMMA ResetAloneStep ==
  ASSUME ~Careless, TypeOK, SentinelLast, Untouched, RunsLast, ResetAlone, [Next]_vars
  PROVE  ResetAlone'
<1> SUFFICES ASSUME Sent(Resetting)'
             PROVE  /\ tab' = Null /\ Settled' /\ runner' = "idle"
                    /\ mark' # Null /\ mark'.key = count'.key /\ mark'.change = count'.change
  BY DEF ResetAlone
<1>0. Resetting \in SUBSET Operations BY DEF Resetting, Operations
<1>1. CASE ~Sent(Resetting)
  <2>1. PICK o \in Resetting : emitProjectOperation(o) BY <1>0, <1>1, SentStep
  <2>2. /\ Settled /\ tab = Null /\ runner = "idle" /\ UNCHANGED <<pending, flights, tab, runner>>
        /\ mark' = count /\ count' = [count EXCEPT !.op = @ + 1]
    BY <1>1, <2>1, ResetCause
  <2>3. wire' = Append(wire, OpMessage(o)) /\ OpMessage(o) \in Message
        /\ OpMessage(o).kind = "op"
    BY <1>0, <2>1, EmitWire DEF Resetting
  <2>4. Settled' BY <2>2, <2>3, WireAppend DEF Settled
  <2>5. mark' # Null /\ mark'.key = count'.key /\ mark'.change = count'.change
    BY <2>2, CountFacts, NullAssumption DEF TypeOK
  <2> QED BY <2>2, <2>4, <2>5
<1>2. CASE Sent(Resetting)
  <2>1. /\ tab = Null /\ Settled /\ runner = "idle"
        /\ mark # Null /\ mark.key = count.key /\ mark.change = count.change
    BY <1>2 DEF ResetAlone
  <2>2. ~CommitRun BY <1>2, CommitOfRun DEF RunsLast
  <2>3. runner' = "idle" BY <2>1, <2>2, RunnerStep
  <2>4. tab' = Null /\ UNCHANGED <<pending, flights>>
    <3>1. Sent(Operations) BY <1>0, <1>2 DEF Sent
    <3>2. ~onFile BY <3>1 DEF onFile
    <3>3. ~SentinelRuns BY <1>2, CommitOfRun DEF RunsLast
    <3>4. ~ReceiveSave
      BY <2>1, WireTail DEF ReceiveSave, Settled
    <3>5. ~SaveTimer /\ \A w \in DOMAIN flights : ~EndFlush(w)
      BY <2>1 DEF SaveTimer, EndFlush, Settled, NoFlight
    <3>6. CASE User \/ autoSaveAll
      BY <2>1, <3>2, <3>6 DEF User, OpenPanel, ChangeProperty, closeProperty, drawLink, Type,
         closeTab, saveAllFiles, revertAll, emitProjectOperation, makeWritable, autoSaveAll
    <3>7. CASE Receive \/ EditQueue
      BY <2>1, <3>3, <3>4, <3>7 DEF Receive, ReceiveEdit, onProjectOperation, EditQueue,
         BeginEdit, WriteEdit, EndEdit
    <3>8. CASE Operator \/ Runner
      BY <2>1, <3>8 DEF Operator, TakeOperation, Validate, CommitRun, Ask, Answer, BeginReset,
         Reset, onSaveProject, onStopProject, Runner, Prepare, PreparationFails, StartRun,
         Progress, Conclude
    <3>9. CASE UNCHANGED vars BY <2>1, <3>9 DEF vars
    <3> QED BY <3>5, <3>6, <3>7, <3>8, <3>9 DEF Next
  <2>5. \A k \in DOMAIN wire' : wire'[k].kind # "save"
    <3>0. \A k \in DOMAIN wire : wire[k].kind # "save" BY <2>1 DEF Settled
    <3>1. CASE UNCHANGED wire BY <3>0, <3>1
    <3>2. CASE wire # <<>> /\ wire' = Tail(wire) BY <3>0, <3>2, WireTail
    <3>3. ASSUME NEW m \in Message, wire' = Append(wire, m), Cause(m)
          PROVE  \A k \in DOMAIN wire' : wire'[k].kind # "save"
      <4>1. m.kind # "save" BY <2>1, <3>3 DEF Cause
      <4> QED BY <3>0, <3>3, <4>1, WireAppend
    <3>4. CASE RunWithEdits BY <3>0, <3>4, WireTwice DEF OpMessage
    <3> QED BY <3>1, <3>2, <3>3, <3>4, WireStep
  <2>6. mark' # Null /\ mark'.key = count'.key /\ mark'.change = count'.change
    <3>1. ~ChangeProperty
      BY <1>2, Care DEF ChangeProperty, Busy, Sent, Blocking
    <3>2. ~Type BY <2>1 DEF Type
    <3>3. ASSUME NEW o \in Operations, emitProjectOperation(o)
          PROVE  UNCHANGED mark /\ count' = [count EXCEPT !.op = @ + 1]
      BY <1>2, <3>3 DEF emitProjectOperation
    <3>4. CASE UNCHANGED <<mark, count>> BY <2>1, <3>4
    <3>5. CASE User \/ autoSaveAll
      BY <2>1, <3>1, <3>2, <3>3, <3>5, CountFacts DEF TypeOK, User, OpenPanel, closeProperty,
         drawLink, onFile, closeTab, saveAllFiles, revertAll, makeWritable, autoSaveAll
    <3>6. CASE Receive \/ EditQueue \/ SaveTimer \/ \E w \in DOMAIN flights : EndFlush(w)
      BY <3>4, <3>6 DEF Receive, ReceiveSave, ReceiveEdit, onProjectOperation, EditQueue,
         BeginEdit, WriteEdit, EndEdit, SentinelRuns, SentinelDone, SaveTimer, EndFlush,
         FlushSaves
    <3>7. CASE Operator \/ Runner
      BY <2>2, <3>4, <3>7 DEF Operator, TakeOperation, Validate, Ask, Answer, BeginReset,
         Reset, onSaveProject, onStopProject, Runner, Prepare, PreparationFails, StartRun,
         Progress, Conclude
    <3>8. CASE UNCHANGED vars BY <3>4, <3>8 DEF vars
    <3> QED BY <3>5, <3>6, <3>7, <3>8 DEF Next
  <2>7. Settled' BY <2>1, <2>4, <2>5 DEF Settled
  <2> QED BY <2>3, <2>4, <2>6, <2>7
<1> QED BY <1>1, <1>2

-----------------------------------------------------------------------------
(* The queue of edits.                                                     *)

LEMMA QueueOfSentinel ==
  ASSUME TypeOK, SentinelLast, SentinelRuns
  PROVE  queue = <<Sentinel>> /\ queue' = <<>>
<1>1. 1 \in DOMAIN queue /\ queue[1] = Sentinel /\ queue' = Tail(queue) /\ queue # <<>>
  BY TailFacts DEF SentinelRuns, SentinelDone, TypeOK
<1>2. Len(queue) = 1 BY <1>1 DEF SentinelLast
<1>3. queue = <<Sentinel>>
  <2>1. <<Sentinel>> \in Seq(EditMessage \union {Sentinel}) OBVIOUS
  <2> QED BY <1>1, <1>2, <2>1, SeqEqual DEF TypeOK
<1>4. queue' = <<>>
  <2>1. Tail(queue) \in Seq(EditMessage \union {Sentinel}) /\ Len(Tail(queue)) = 0
    BY <1>1, <1>2, TailFacts DEF TypeOK
  <2> QED BY <1>1, <2>1, EmptySeq
<1> QED BY <1>3, <1>4

LEMMA QueueStep ==
  ASSUME TypeOK, SentinelLast, [Next]_vars
  PROVE  \/ UNCHANGED queue
         \/ /\ ReceiveEdit /\ Head(wire) \in EditMessage /\ queue' = Append(queue, Head(wire))
            /\ wire # <<>> /\ wire' = Tail(wire) /\ 1 \in DOMAIN wire /\ wire[1] = Head(wire)
            /\ IsEdit(1) /\ asked' = Apply(asked, Head(wire))
         \/ /\ TakeOperation /\ op = Null /\ queue' = Append(queue, Sentinel)
            /\ Doing("runProject")' /\ op'.at = "sentinel"
         \/ BeginEdit /\ queue # <<>> /\ queue' = Tail(queue) /\ Head(queue) \in EditMessage
         \/ SentinelRuns /\ queue = <<Sentinel>> /\ queue' = <<>>
         \/ BeginReset /\ op.name = "cleanProject" /\ queue' = <<>>
<1>1. CASE User \/ autoSaveAll \/ SaveTimer \/ Runner \/ \E w \in DOMAIN flights : EndFlush(w)
  BY <1>1 DEF User, OpenPanel, ChangeProperty, closeProperty, drawLink, onFile, Type, closeTab,
     saveAllFiles, revertAll, emitProjectOperation, makeWritable, autoSaveAll, SaveTimer,
     EndFlush, Runner, Prepare, PreparationFails, StartRun, Progress, Conclude
<1>2. CASE ReceiveSave \/ onProjectOperation BY <1>2 DEF ReceiveSave, onProjectOperation
<1>3. CASE ReceiveEdit
  <2>1. 1 \in DOMAIN wire /\ wire[1] = Head(wire) /\ Head(wire) \in Message
    BY <1>3, TailFacts DEF ReceiveEdit, TypeOK
  <2> QED BY <1>3, <2>1, MessageFacts DEF ReceiveEdit, IsEdit
<1>4. CASE BeginEdit BY <1>4, TailFacts DEF BeginEdit, TypeOK
<1>5. CASE WriteEdit \/ EndEdit BY <1>5 DEF WriteEdit, EndEdit
<1>6. CASE SentinelRuns BY <1>6, QueueOfSentinel
<1>7. CASE TakeOperation
  <2>1. UNCHANGED queue \/ (queue' = Append(queue, Sentinel)
          /\ op' = [name |-> "runProject", at |-> "sentinel"])
    BY <1>7 DEF TakeOperation
  <2> QED BY <1>7, <2>1, OpFacts DEF TakeOperation, Doing
<1>8. CASE Validate \/ CommitRun \/ Ask \/ Answer \/ Reset \/ onSaveProject \/ onStopProject
  BY <1>8 DEF Validate, CommitRun, Ask, Answer, Reset, onSaveProject, onStopProject
<1>9. CASE BeginReset BY <1>9 DEF BeginReset, clearProjectEdits
<1>10. CASE UNCHANGED vars BY <1>10 DEF vars
<1> QED BY <1>1, <1>2, <1>3, <1>4, <1>5, <1>6, <1>7, <1>8, <1>9, <1>10
        DEF Next, Receive, EditQueue, Operator

LEMMA EditingStep ==
  ASSUME [Next]_vars
  PROVE  \/ UNCHANGED editing
         \/ BeginEdit /\ queue # <<>>
         \/ WriteEdit /\ editing # Null
         \/ EndEdit /\ editing # Null /\ editing' = Null
<1>1. CASE User \/ autoSaveAll \/ SaveTimer \/ Runner \/ Receive
           \/ \E w \in DOMAIN flights : EndFlush(w)
  BY <1>1 DEF User, OpenPanel, ChangeProperty, closeProperty, drawLink, onFile, Type, closeTab,
     saveAllFiles, revertAll, emitProjectOperation, makeWritable, autoSaveAll, SaveTimer,
     EndFlush, Runner, Prepare, PreparationFails, StartRun, Progress, Conclude, Receive,
     ReceiveSave, ReceiveEdit, onProjectOperation
<1>2. CASE EditQueue
  BY <1>2 DEF EditQueue, BeginEdit, WriteEdit, EndEdit, SentinelRuns, SentinelDone
<1>3. CASE Operator
  BY <1>3 DEF Operator, TakeOperation, Validate, CommitRun, Ask, Answer, BeginReset, Reset,
     onSaveProject, onStopProject
<1>4. CASE UNCHANGED vars BY <1>4 DEF vars
<1> QED BY <1>1, <1>2, <1>3, <1>4 DEF Next

LEMMA NoEditsStep ==
  ASSUME TypeOK, SentinelLast, [Next]_vars, NoEdits, ~Doing("runProject")' \/ Doing("runProject"),
         \A k \in DOMAIN wire : ~IsEdit(k)
  PROVE  NoEdits'
BY QueueStep, EditingStep DEF NoEdits, Doing

LEMMA AtNew ==
  ASSUME TypeOK, BeginReset
  PROVE  op' # Null /\ op'.at = "drain" /\ op'.name = op.name /\ op' # op
<1>1. op \in InProgress /\ op.name \in Resetting BY OpFacts DEF BeginReset, TypeOK
<1>2. op' = [op EXCEPT !.at = "drain"] /\ op.at = "clear" BY DEF BeginReset, At
<1>3. op' \in InProgress /\ op'.name = op.name /\ op'.at = "drain" BY <1>1, <1>2, ResetGoesOn
<1> QED BY <1>2, <1>3, OpFacts

\* Where an operation gets to.
LEMMA AtStep ==
  ASSUME TypeOK, SentinelLast, [Next]_vars, op' # Null, op' # op
  PROVE  \/ TakeOperation /\ op = Null /\ op'.at \in {"sentinel", "ask", "go"}
         \/ SentinelRuns /\ op'.at = "flushing" /\ Doing("runProject")' /\ op.at = "sentinel"
         \/ Validate /\ op'.at = "commit" /\ Doing("runProject")' /\ op.at = "flushing"
         \/ (Ask \/ Answer) /\ op'.at \in {"asked", "clear"} /\ op'.name = op.name
         \/ BeginReset /\ op'.at = "drain" /\ op'.name = op.name
<1>1. CASE User \/ autoSaveAll \/ Receive \/ SaveTimer \/ Runner
           \/ \E w \in DOMAIN flights : EndFlush(w)
  BY <1>1 DEF User, OpenPanel, ChangeProperty, closeProperty, drawLink, onFile, Type, closeTab,
     saveAllFiles, revertAll, emitProjectOperation, makeWritable, autoSaveAll, Receive,
     ReceiveSave, ReceiveEdit, onProjectOperation, SaveTimer, EndFlush, Runner, Prepare,
     PreparationFails, StartRun, Progress, Conclude
<1>2. CASE BeginEdit \/ WriteEdit \/ EndEdit
  BY <1>2 DEF BeginEdit, WriteEdit, EndEdit
<1>3. CASE SentinelRuns
  <2>1. op \in InProgress /\ op.name = "runProject" /\ op.at = "sentinel"
    BY <1>3, TailFacts DEF SentinelLast, SentinelRuns, SentinelDone, TypeOK, Doing
  <2> QED BY <1>3, <2>1, OpFacts DEF SentinelRuns, SentinelDone, At, Doing
<1>4. CASE TakeOperation
  BY <1>4 DEF TakeOperation
<1>5. CASE Validate
  <2>1. op \in InProgress /\ op.name = "runProject" BY <1>5, OpFacts DEF Validate, TypeOK
  <2>2. op' = At("commit") /\ op.at = "flushing" BY <1>5 DEF Validate
  <2>3. At("commit").at = "commit" /\ At("commit").name = "runProject"
    BY <2>1, OpFacts DEF At
  <2> QED BY <1>5, <2>2, <2>3 DEF Doing
<1>6. CASE Ask \/ Answer \/ BeginReset
  <2>1. op \in InProgress /\ op.name \in Resetting
    BY <1>6, OpFacts DEF Ask, Answer, BeginReset, TypeOK
  <2>2. ASSUME NEW p \in {"ask", "asked", "clear", "drain"}
        PROVE  At(p).at = p /\ At(p).name = op.name
    <3>1. [op EXCEPT !.at = p].at = p /\ [op EXCEPT !.at = p].name = op.name
      BY <2>1, ResetGoesOn
    <3> QED BY <3>1 DEF At
  <2>3. CASE Ask \/ Answer
    <3>1. op' = At("clear") \/ op' = At("asked") BY <2>3 DEF Ask, Answer
    <3> QED BY <2>2, <2>3, <3>1
  <2>4. CASE BeginReset BY <2>2, <2>4 DEF BeginReset
  <2> QED BY <1>6, <2>3, <2>4
<1>7. CASE CommitRun \/ Reset \/ onSaveProject \/ onStopProject
  BY <1>7 DEF CommitRun, Reset, onSaveProject, onStopProject
<1>8. CASE UNCHANGED vars BY <1>8 DEF vars
<1> QED BY <1>1, <1>2, <1>3, <1>4, <1>5, <1>6, <1>7, <1>8 DEF Next, EditQueue, Operator

\* Only its sentinel lets a run go on.
LEMMA SentinelWaits ==
  ASSUME TypeOK, SentinelLast, [Next]_vars, Doing("runProject"), op.at = "sentinel"
  PROVE  UNCHANGED op \/ SentinelRuns
<1>1. CASE op' = Null
  <2>1. ~(Validate \/ CommitRun \/ Answer \/ Reset \/ onSaveProject \/ onStopProject)
    <3>1. ~(Validate \/ CommitRun) BY DEF Validate, CommitRun
    <3>2. ~(Answer \/ Reset) BY DEF Answer, Reset
    <3>3. ~(onSaveProject \/ onStopProject)
      <4>1. onSaveProject => op = [name |-> "saveProject", at |-> "go"] BY DEF onSaveProject
      <4>2. onStopProject => op = [name |-> "stopProject", at |-> "go"] BY DEF onStopProject
      <4> QED BY <4>1, <4>2
    <3> QED BY <3>1, <3>2, <3>3
  <2>2. CASE User \/ autoSaveAll \/ Receive \/ SaveTimer \/ Runner
             \/ \E w \in DOMAIN flights : EndFlush(w)
    BY <2>2 DEF User, OpenPanel, ChangeProperty, closeProperty, drawLink, onFile, Type,
       closeTab, saveAllFiles, revertAll, emitProjectOperation, makeWritable, autoSaveAll,
       Receive, ReceiveSave, ReceiveEdit, onProjectOperation, SaveTimer, EndFlush, Runner,
       Prepare, PreparationFails, StartRun, Progress, Conclude
  <2>3. CASE EditQueue
    BY <2>3 DEF EditQueue, BeginEdit, WriteEdit, EndEdit
  <2>4. CASE TakeOperation \/ Ask \/ BeginReset
    BY <2>4 DEF TakeOperation, Ask, BeginReset, Doing
  <2>5. CASE UNCHANGED vars BY <2>5 DEF vars
  <2> QED BY <2>1, <2>2, <2>3, <2>4, <2>5 DEF Next, Operator
<1>2. CASE op' # Null
  BY <1>2, AtStep DEF Validate, Ask, Answer, BeginReset, Doing
<1> QED BY <1>1, <1>2

LEMMA SentinelLastStep ==
  ASSUME ~Careless, TypeOK, SentinelLast, Untouched, [Next]_vars
  PROVE  SentinelLast'
<1> SUFFICES ASSUME NEW k \in DOMAIN queue', queue'[k] = Sentinel
             PROVE  k = Len(queue') /\ Doing("runProject")' /\ op'.at = "sentinel"
  BY DEF SentinelLast, Sentinel
<1>1. ASSUME NEW j \in DOMAIN queue, queue[j] = Sentinel
      PROVE  /\ j = Len(queue) /\ Doing("runProject") /\ op.at = "sentinel"
             /\ UNCHANGED op \/ SentinelRuns
             /\ ~BeginReset /\ Taken
  <2>1. j = Len(queue) /\ Doing("runProject") /\ op.at = "sentinel" BY <1>1 DEF SentinelLast
  <2>2. ~BeginReset BY <2>1 DEF BeginReset
  <2>3. Taken BY <2>1 DEF Taken, Received, Doing, Blocking
  <2> QED BY <2>1, <2>2, <2>3, SentinelWaits
<1>2. CASE UNCHANGED queue
  <2>1. ~SentinelRuns
    <3>1. ASSUME SentinelRuns PROVE Len(Tail(queue)) # Len(queue) /\ queue' = Tail(queue)
      BY <3>1, TailFacts DEF SentinelRuns, SentinelDone, TypeOK
    <3> QED BY <1>2, <3>1
  <2> QED BY <1>1, <1>2, <2>1 DEF Doing
<1>3. CASE IsEdit(1) /\ 1 \in DOMAIN wire /\ queue' = Append(queue, Head(wire))
           /\ Head(wire) \in EditMessage
  <2>1. k \in DOMAIN queue /\ queue[k] = Sentinel
    BY <1>3, AppendFacts, SentinelFacts DEF TypeOK
  <2>2. Taken BY <1>1, <2>1
  <2> QED BY <1>3, <2>2 DEF Untouched
<1>4. CASE /\ op = Null /\ queue' = Append(queue, Sentinel)
           /\ Doing("runProject")' /\ op'.at = "sentinel"
  <2>1. \A j \in DOMAIN queue : queue[j] # Sentinel BY <1>1, <1>4 DEF Doing
  <2> QED BY <1>4, <2>1, AppendFacts DEF TypeOK
<1>5. CASE BeginEdit /\ queue # <<>> /\ queue' = Tail(queue)
  <2>1. /\ k + 1 \in DOMAIN queue /\ queue[k + 1] = Sentinel /\ Len(queue') = Len(queue) - 1
        /\ Len(queue) \in Nat /\ k \in Nat
    BY <1>5, TailFacts DEF TypeOK
  <2>2. op' = op BY <1>5 DEF BeginEdit
  <2> QED BY <1>1, <2>1, <2>2 DEF Doing
<1>6. CASE queue' = <<>> BY <1>6
<1> QED BY <1>2, <1>3, <1>4, <1>5, <1>6, QueueStep

LEMMA RemembersStep ==
  ASSUME TypeOK, Remembers, Prepared, [Next]_vars
  PROVE  Remembers'
<1>1. tree.json \in Json /\ tree.json # Null BY TypeRepo, NullAssumption
<1>2. runner = "running" => memory \in Json BY DEF TypeOK, Remembers
<1>3. runner = "running" => [memory EXCEPT !.done = TRUE] \in Json BY <1>2, JsonFacts
<1>4. \A j \in Json : j # Null BY NullAssumption
<1>5. CASE UNCHANGED <<runner, memory>> BY <1>5 DEF Remembers
<1>6. CASE runner' = "running" /\ memory' = tree.json BY <1>1, <1>6 DEF Remembers
<1>7. CASE /\ runner = "running" /\ runner' = "running"
           /\ memory' = [memory EXCEPT !.done = TRUE]
  BY <1>3, <1>4, <1>7 DEF Remembers
<1>8. CASE runner # "running" /\ runner' # "running" /\ UNCHANGED memory
  BY <1>8 DEF Remembers
<1>9. CASE runner' = "idle" /\ memory' = Null BY <1>9 DEF Remembers
<1>10. CommitRun => runner # "running" BY CommitOfRun DEF Prepared
<1> QED BY <1>5, <1>6, <1>7, <1>8, <1>9, <1>10, RunnerStep

\* Neither a revert nor a clean that gets to the files finds an edit.
LEMMA EmptiedStep ==
  ASSUME ~Careless, TypeOK, SentinelLast, Untouched, RunsLast, Emptied, [Next]_vars
  PROVE  Emptied'
<1>0. {"revertProject"} \in SUBSET Operations BY DEF Operations
<1>1. ASSUME Sent({"revertProject"})'
      PROVE  NoEdits' /\ \A k \in DOMAIN wire' : ~IsEdit(k)'
  <2>1. ~Doing("runProject")'
    <3>1. Sent(Resetting)' BY <1>1 DEF Sent, Resetting
    <3> QED BY <3>1, RunsLastStep DEF RunsLast
  <2>2. CASE Sent({"revertProject"})
    <3>1. NoEdits /\ \A k \in DOMAIN wire : ~IsEdit(k) BY <2>2 DEF Emptied
    <3>2. Busy BY <2>2 DEF Busy, Sent, Blocking, Resetting
    <3>3. NoEdits' BY <2>1, <3>1, NoEditsStep
    <3>4. CASE UNCHANGED wire BY <3>1, <3>3, <3>4 DEF IsEdit
    <3>5. CASE wire # <<>> /\ wire' = Tail(wire) BY <3>1, <3>3, <3>5, WireTail DEF IsEdit
    <3>6. ASSUME NEW m \in Message, wire' = Append(wire, m), Cause(m)
          PROVE  \A k \in DOMAIN wire' : ~IsEdit(k)'
      <4>1. m.kind \notin {"update", "link"} BY <3>2, <3>6, EditCause
      <4> QED BY <3>1, <3>6, <4>1, WireAppend DEF IsEdit
    <3>7. ~RunWithEdits BY <3>2 DEF Untouched, RunWithEdits
    <3> QED BY <3>3, <3>4, <3>5, <3>6, <3>7, WireStep
  <2>3. CASE ~Sent({"revertProject"})
    <3>1. emitProjectOperation("revertProject") BY <1>0, <1>1, <2>3, SentStep
    <3>2. NoEdits /\ wire = <<>> /\ UNCHANGED <<queue, editing>> /\ ~RunWithEdits
      BY <3>1, ResetCause DEF Resetting
    <3>3. /\ wire' = Append(wire, OpMessage("revertProject"))
          /\ OpMessage("revertProject") \in Message /\ OpMessage("revertProject").kind = "op"
      BY <3>1, <3>2, EmitWire DEF Operations
    <3> QED BY <3>2, <3>3, WireAppend DEF NoEdits, IsEdit
  <2> QED BY <2>2, <2>3
<1>2. ASSUME Doing("cleanProject")', op'.at = "drain"
      PROVE  queue' = <<>>
  <2>1. CASE op' = op
    <3>1. queue = <<>> /\ Taken
      BY <1>2, <2>1 DEF Emptied, Doing, Taken, Received, Blocking, Resetting
    <3>2. \A k \in DOMAIN wire : ~IsEdit(k) BY <3>1 DEF Untouched
    <3> QED BY <1>2, <2>1, <3>1, <3>2, QueueStep DEF Doing
  <2>2. CASE op' # op
    <3>1. BeginReset /\ op.name = "cleanProject" BY <1>2, <2>2, AtStep DEF Doing
    <3> QED BY <3>1 DEF BeginReset, clearProjectEdits
  <2> QED BY <2>1, <2>2
<1> QED BY <1>1, <1>2 DEF Emptied

\* What is asked and what is due change with what is received, run and reset.
LEMMA HistoryStep ==
  ASSUME [Next]_vars
  PROVE  /\ UNCHANGED asked \/ ReceiveEdit \/ (Reset /\ asked' = repo.head.json)
         /\ UNCHANGED meant \/ Type \/ revertAll \/ (Reset /\ meant' = repo.head.text)
         /\ UNCHANGED void \/ Reset
         /\ \/ UNCHANGED due
            \/ ReceiveSave \/ TakeOperation \/ CommitRun
            \/ Validate /\ op' = Null
<1>1. CASE User \/ autoSaveAll \/ SaveTimer \/ Runner \/ \E w \in DOMAIN flights : EndFlush(w)
  BY <1>1 DEF User, OpenPanel, ChangeProperty, closeProperty, drawLink, onFile, Type, closeTab,
     saveAllFiles, revertAll, emitProjectOperation, makeWritable, autoSaveAll, SaveTimer,
     EndFlush, Runner, Prepare, PreparationFails, StartRun, Progress, Conclude
<1>2. CASE Receive BY <1>2 DEF Receive, ReceiveSave, ReceiveEdit, onProjectOperation
<1>3. CASE BeginEdit \/ WriteEdit \/ EndEdit BY <1>3 DEF BeginEdit, WriteEdit, EndEdit
<1>4. CASE SentinelRuns BY <1>4 DEF SentinelRuns, SentinelDone
<1>5. CASE TakeOperation \/ CommitRun \/ Ask \/ Answer \/ BeginReset \/ onSaveProject
           \/ onStopProject
  BY <1>5 DEF TakeOperation, CommitRun, Ask, Answer, BeginReset, onSaveProject, onStopProject
<1>6. CASE Validate BY <1>6 DEF Validate, Refuse
<1>7. CASE Reset BY <1>7 DEF Reset
<1>8. CASE UNCHANGED vars BY <1>8 DEF vars
<1> QED BY <1>1, <1>2, <1>3, <1>4, <1>5, <1>6, <1>7, <1>8 DEF Next, EditQueue, Operator

-----------------------------------------------------------------------------
(* What is in the files: the component.                                    *)

LEMMA WriteEditJson ==
  ASSUME TypeOK, WriteEdit
  PROVE  /\ editing \in InHand /\ editing.at = "write"
         /\ editing' \in InHand /\ editing'.at = "add" /\ editing'.edit = editing.edit
         /\ editing'.read = editing.read /\ editing' # Null
         /\ repo'.tree.json = Apply(editing.read, editing.edit)
         /\ repo'.index = repo.index /\ repo'.head = repo.head /\ repo'.tree.text = tree.text
<1>1. editing \in InHand /\ editing.read \in Json /\ editing.edit \in EditMessage
  BY DEF WriteEdit, TypeOK, InHand
<1>2. /\ editing' \in InHand /\ editing'.at = "add" /\ editing'.edit = editing.edit
      /\ editing'.read = editing.read
  BY <1>1 DEF WriteEdit, InHand
<1>3. Apply(editing.read, editing.edit) \in Json BY <1>1, ApplyFacts
<1> QED BY <1>1, <1>2, <1>3, TypeRepo, WriteJson, NullAssumption DEF WriteEdit, tree

LEMMA BeginEditJson ==
  ASSUME TypeOK, BeginEdit
  PROVE  /\ editing = Null /\ editing' # Null /\ editing' \in InHand
         /\ editing'.at = "write" /\ editing'.read = tree.json
         /\ editing'.edit = Head(queue) /\ UNCHANGED repo
<1>1. Head(queue) \in EditMessage BY TailFacts DEF BeginEdit, TypeOK
<1>2. editing' = [edit |-> Head(queue), read |-> tree.json, at |-> "write"] BY DEF BeginEdit
<1>3. editing' \in InHand BY <1>1, <1>2, TypeRepo DEF InHand
<1> QED BY <1>2, <1>3, NullAssumption DEF BeginEdit

\* The dispatcher writes what it knows.
LEMMA ProgressJson ==
  ASSUME TypeOK, Remembers, Progress
  PROVE  /\ memory \in Json /\ memory' \in Json /\ Agree(memory', memory)
         /\ repo'.tree.json = memory' /\ repo'.tree.text = tree.text
         /\ repo'.index = repo.index /\ repo'.head = repo.head
<1>1. memory \in Json BY DEF Progress, TypeOK, Remembers
<1>2. memory' \in Json /\ Agree(memory', memory) BY <1>1, JsonFacts DEF Progress, Agree
<1> QED BY <1>1, <1>2, TypeRepo, WriteJson DEF Progress, tree

LEMMA ResetContents ==
  ASSUME TypeOK, Reset
  PROVE  repo'.tree = repo.head /\ repo'.index = repo.head /\ repo'.head = repo.head
BY TypeRepo, ResetHead DEF Reset

LEMMA RecordContents ==
  ASSUME TypeOK, Prepare \/ PreparationFails \/ StartRun \/ Conclude \/ onStopProject
                 \/ makeWritable
  PROVE  SameContents(repo, repo')
<1> DEFINE Named == {"preparing", "not-started", "running", "finished", "failed", "stopped"}
<1>0. Named \subseteq ProjectStates BY DEF ProjectStates
<1>1. \A s \in Named : State(s) \in ProjectRecord BY <1>0, StateFacts
<1>2. \A s \in Named : writeAndAdd(repo, "project", State(s)) \in Repo
                       /\ SameContents(repo, writeAndAdd(repo, "project", State(s)))
  BY <1>1, TypeRepo, RecordProject DEF ProjectRecord
<1>3. \A r, s, t : SameContents(r, s) /\ SameContents(s, t) => SameContents(r, t)
  BY DEF SameContents
<1>4. \A s \in Named, b \in BOOLEAN :
        SameContents(repo, Locked(writeAndAdd(repo, "project", State(s)), b))
  BY <1>2, <1>3, Lock
<1>5. CASE Prepare \/ PreparationFails BY <1>2, <1>5 DEF Prepare, PreparationFails
<1>6. CASE StartRun
  <2>1. [state |-> "running", readOnly |-> TRUE] \in ProjectRecord BY <1>0 DEF ProjectRecord
  <2> QED BY <1>6, <2>1, TypeRepo, RecordProject DEF StartRun, ProjectRecord
<1>7. CASE Conclude
  <2>1. PICK s \in {"finished", "failed"} :
          LET ended == writeAndAdd(repo, "project", State(s))
          IN  repo' = IF s = "finished" THEN Locked(ended, FALSE) ELSE ended
    BY <1>7 DEF Conclude
  <2> QED BY <1>2, <1>4, <2>1
<1>8. CASE onStopProject BY <1>4, <1>8 DEF onStopProject
<1>9. CASE makeWritable
  <2>1. [tree.project EXCEPT !.readOnly = FALSE] \in ProjectRecord
    BY TypeRepo DEF ProjectRecord
  <2> QED BY <1>9, <2>1, TypeRepo, WriteProject DEF makeWritable, ProjectRecord, SameContents
<1> QED BY <1>5, <1>6, <1>7, <1>8, <1>9

\* Who writes or adds the component.
JsonKept == repo'.tree.json = tree.json /\ repo'.index.json = repo.index.json

LEMMA FlushKeepsJson ==
  ASSUME TypeOK, FlushSaves
  PROVE  /\ JsonKept /\ repo'.index = repo.index /\ repo'.head = repo.head
         /\ repo'.tree.text = IF pending = Null THEN tree.text ELSE pending.text
<1>1. CASE pending = Null BY <1>1 DEF FlushSaves, JsonKept, tree
<1>2. CASE pending # Null
  <2>1. pending.text \in Nat BY <1>2 DEF TypeOK, Timer
  <2> QED BY <1>2, <2>1, TypeRepo, WriteText DEF FlushSaves, JsonKept, tree
<1> QED BY <1>1, <1>2

LEMMA JsonStep ==
  ASSUME TypeOK, SentinelLast, [Next]_vars
  PROVE  JsonKept \/ WriteEdit \/ EndEdit \/ Reset \/ onSaveProject \/ Progress
<1>1. CASE UNCHANGED repo BY <1>1 DEF JsonKept, tree
<1>2. CASE makeWritable \/ Prepare \/ PreparationFails \/ StartRun \/ Conclude \/ onStopProject
  BY <1>2, RecordContents DEF SameContents, JsonKept, tree
<1>3. CASE SentinelRuns BY <1>3, FlushKeepsJson DEF SentinelRuns
<1>4. CASE SaveTimer
  <2>1. pending.text \in Nat BY <1>4 DEF SaveTimer, TypeOK, Timer
  <2> QED BY <1>4, <2>1, TypeRepo, WriteText DEF SaveTimer, JsonKept, tree
<1>5. ASSUME NEW w \in DOMAIN flights, EndFlush(w)
      PROVE  JsonKept
  BY <1>5, TypeRepo, AddText DEF EndFlush, JsonKept, tree
<1>6. CASE CommitRun BY <1>6, TypeRepo, Commit DEF CommitRun, JsonKept, tree
<1>7. CASE Answer BY <1>1, <1>7, TypeRepo, CommitText DEF Answer, JsonKept, tree
<1>8. CASE autoSaveAll \/ OpenPanel \/ ChangeProperty \/ closeProperty \/ drawLink \/ onFile
           \/ Type \/ closeTab \/ saveAllFiles \/ revertAll
           \/ \E o \in Operations : emitProjectOperation(o)
  BY <1>1, <1>8 DEF OpenPanel, ChangeProperty, closeProperty, drawLink, onFile, Type, closeTab,
     saveAllFiles, revertAll, emitProjectOperation, autoSaveAll
<1>9. CASE Receive \/ BeginEdit
  BY <1>1, <1>9 DEF Receive, ReceiveSave, ReceiveEdit, onProjectOperation, BeginEdit
<1>10. CASE TakeOperation \/ Validate \/ Ask \/ BeginReset
  BY <1>1, <1>10 DEF TakeOperation, Validate, Ask, BeginReset
<1>11. CASE UNCHANGED vars BY <1>1, <1>11 DEF vars
<1> QED BY <1>2, <1>3, <1>4, <1>5, <1>6, <1>7, <1>8, <1>9, <1>10, <1>11
        DEF Next, User, EditQueue, Operator, Runner

LEMMA PreparedStep ==
  ASSUME ~Careless, TypeOK, SentinelLast, Untouched, Prepared, [Next]_vars
  PROVE  Prepared'
<1>1. ASSUME Doing("runProject")'
      PROVE  /\ runner' = "idle"
             /\ due' # Null /\ due'.prop = asked'.prop /\ due'.link = asked'.link
             /\ op'.at # "sentinel" => NoEdits'
             /\ op'.at = "commit" => repo'.tree.json.prop \notin Invalid
  <2>1. CASE TakeOperation
    <3>1. op = Null BY <2>1 DEF TakeOperation
    <3>2. /\ Head(ops) = "runProject" /\ runner = "idle" /\ op'.at = "sentinel"
      BY <1>1, <2>1, <3>1, OpStep DEF Doing
    <3>3. UNCHANGED <<runner, asked>> BY <2>1 DEF TakeOperation
    <3>4. due' = [prop |-> asked.prop, link |-> asked.link,
                  texts |-> {IF pending = Null THEN tree.text ELSE pending.text}]
      BY <1>1, <2>1, <3>1, <3>2 DEF TakeOperation, Doing
    <3>5. due' # Null
      <4>1. (IF pending = Null THEN tree.text ELSE pending.text) \in Nat
        BY TypeRepo DEF TypeOK, Timer
      <4>2. asked.prop \in Nat /\ asked.link \in BOOLEAN BY JsonFacts DEF TypeOK
      <4>3. due' \in Due BY <3>4, <4>1, <4>2 DEF Due
      <4> QED BY <4>3, NullAssumption
    <3> QED BY <3>2, <3>3, <3>4, <3>5
  <2>2. CASE ~TakeOperation
    <3>1. Doing("runProject") BY <1>1, <2>2, OpStep DEF Doing
    <3>2. /\ runner = "idle" /\ Taken
          /\ due # Null /\ due.prop = asked.prop /\ due.link = asked.link
          /\ op.at # "sentinel" => NoEdits
          /\ op.at = "commit" => tree.json.prop \notin Invalid
      BY <3>1 DEF Prepared, Taken, Received, Doing, Blocking
    <3>3. \A k \in DOMAIN wire : ~IsEdit(k) BY <3>2 DEF Untouched
    <3>4. ~CommitRun /\ ~Reset
      <4>1. ~Doing("runProject")' \/ ~(CommitRun \/ Reset) BY DEF CommitRun, Reset, Doing
      <4> QED BY <1>1, <4>1
    <3>5. runner' = "idle" BY <3>2, <3>4, RunnerStep
    <3>6. UNCHANGED asked
      <4>1. ~ReceiveEdit BY <3>3, WireTail DEF ReceiveEdit, IsEdit
      <4> QED BY <3>4, <4>1, HistoryStep
    <3>7. due' # Null /\ due'.prop = due.prop /\ due'.link = due.link
      <4>1. CASE UNCHANGED due BY <3>2, <4>1
      <4>2. CASE ReceiveSave
        <5>1. due \in Due BY <3>2 DEF TypeOK
        <5>2. Head(wire).text \in Nat BY <4>2, WireTail, MessageFacts DEF ReceiveSave
        <5>3. due' = [due EXCEPT !.texts = @ \union {Head(wire).text}]
          BY <3>2, <4>2 DEF ReceiveSave
        <5>4. due' \in Due /\ due'.prop = due.prop /\ due'.link = due.link
          BY <5>1, <5>2, <5>3 DEF Due
        <5> QED BY <5>4, NullAssumption
      <4> QED BY <1>1, <2>2, <3>4, <4>1, <4>2, HistoryStep DEF Doing
    <3>8. op'.at # "sentinel" => NoEdits'
      <4>1. CASE op' = op /\ op.at # "sentinel" BY <3>1, <3>2, <3>3, <4>1, NoEditsStep
      <4>2. CASE SentinelRuns
        <5>1. queue' = <<>> BY <4>2, QueueOfSentinel
        <5>2. editing' = Null BY <4>2 DEF SentinelRuns, SentinelDone
        <5> QED BY <5>1, <5>2 DEF NoEdits
      <4>3. CASE Validate BY <3>1, <3>2, <3>3, <4>3, NoEditsStep DEF Validate
      <4>4. op' = op \/ SentinelRuns \/ Validate
        BY <1>1, <2>2, <3>1, AtStep, OpFacts DEF Doing, Ask, Answer, BeginReset, TypeOK
      <4> QED BY <4>1, <4>2, <4>3, <4>4
    <3>9. op'.at = "commit" => repo'.tree.json.prop \notin Invalid
      <4>1. CASE Validate /\ op'.at = "commit"
        <5>1. tree.json.prop \notin Invalid BY <1>1, <4>1 DEF Validate, Doing
        <5>2. UNCHANGED repo BY <4>1 DEF Validate
        <5> QED BY <5>1, <5>2 DEF tree
      <4>2. CASE op' = op /\ op.at = "commit"
        <5>1. NoEdits /\ tree.json.prop \notin Invalid BY <3>2, <4>2
        <5>2. ~(WriteEdit \/ EndEdit) BY <5>1 DEF WriteEdit, EndEdit, NoEdits
        <5>3. ~onSaveProject
          <6>1. onSaveProject => op' = Null BY DEF onSaveProject
          <6> QED BY <1>1, <6>1 DEF Doing
        <5>4. ~Progress BY <3>2 DEF Progress
        <5>5. JsonKept BY <3>4, <5>2, <5>3, <5>4, JsonStep
        <5> QED BY <5>1, <5>5 DEF JsonKept
      <4>3. op'.at = "commit" => Validate \/ op' = op BY <1>1, AtStep DEF Doing
      <4> QED BY <4>1, <4>2, <4>3
    <3> QED BY <3>2, <3>5, <3>6, <3>7, <3>8, <3>9
  <2> QED BY <2>1, <2>2
<1>2. ASSUME runner' # "idle" PROVE NoEdits'
  <2>1. Taken /\ (runner # "idle" \/ CommitRun)
    BY <1>2, RunnerStep, CommitOfRun DEF Taken
  <2>2. \A k \in DOMAIN wire : ~IsEdit(k) BY <2>1 DEF Untouched
  <2>3. NoEdits
    <3>1. CommitRun => op.at # "sentinel" BY DEF CommitRun
    <3> QED BY <2>1, <3>1, CommitOfRun DEF Prepared
  <2>4. ~Doing("runProject")' \/ Doing("runProject") BY <1>1, <1>2
  <2> QED BY <2>2, <2>3, <2>4, NoEditsStep
<1> QED BY <1>1, <1>2 DEF Prepared, tree

LEMMA AgreeFacts ==
  /\ \A a : Agree(a, a)
  /\ \A a, b : Agree(a, b) => Agree(b, a)
  /\ \A a, b, c : Agree(a, b) /\ Agree(b, c) => Agree(a, c)
BY DEF Agree

LEMMA NoRunWhileEdited ==
  ASSUME Remembers, Prepared, queue # <<>> \/ editing # Null
  PROVE  memory = Null /\ runner = "idle"
BY DEF Remembers, Prepared, NoEdits

\* A reset finds no edit and no run.
LEMMA ResetFinds ==
  ASSUME TypeOK, ResetAlone, Emptied, Remembers, Reset
  PROVE  queue = <<>> /\ editing = Null /\ memory = Null /\ Sent(Resetting)
<1>1. op \in InProgress /\ op.name \in Resetting BY OpFacts DEF Reset, TypeOK
<1>2. Sent(Resetting) BY <1>1, OpFacts DEF Sent
<1>3. memory = Null BY <1>2 DEF ResetAlone, Remembers
<1>4. CASE op.name = "cleanProject"
  BY <1>1, <1>2, <1>3, <1>4, OpFacts DEF Emptied, Reset, Doing
<1>5. CASE op.name = "revertProject"
  <2>1. Sent({"revertProject"}) BY <1>1, <1>5, OpFacts DEF Sent
  <2> QED BY <1>2, <1>3, <2>1 DEF Emptied, NoEdits
<1> QED BY <1>1, <1>4, <1>5 DEF Resetting

LEMMA CurrentStep ==
  ASSUME ~Careless, TypeOK, SentinelLast, ResetAlone, Emptied, Remembers, Prepared, Current,
         [Next]_vars
  PROVE  Current'
<1>1. CASE WriteEdit
  <2>1. editing' # Null /\ editing'.at = "add" BY <1>1, WriteEditJson
  <2>2. memory' = Null BY <1>1, NoRunWhileEdited DEF WriteEdit
  <2> QED BY <2>1, <2>2 DEF Current, Editing
<1>2. CASE EndEdit
  <2>1. repo'.tree = repo.tree /\ repo'.index.json = tree.json
    BY <1>2, TypeRepo, AddJson DEF EndEdit, tree
  <2>2. memory' = Null /\ editing' = Null BY <1>2, NoRunWhileEdited DEF EndEdit
  <2> QED BY <2>1, <2>2, AgreeFacts DEF Current, Editing, tree
<1>3. CASE Reset
  <2>1. editing' = Null /\ memory' = Null BY <1>3, ResetFinds DEF Reset
  <2> QED BY <1>3, <2>1, ResetContents, AgreeFacts DEF Current, Editing, tree
<1>4. CASE onSaveProject
  <2>1. UNCHANGED <<editing, memory>> BY <1>4 DEF onSaveProject
  <2> QED BY <1>4, <2>1, SaveProject, AgreeFacts DEF Current, Editing, tree
<1>5. CASE Progress
  <2>1. editing = Null /\ UNCHANGED editing BY <1>5 DEF Progress, Prepared, NoEdits
  <2>2. Agree(memory, tree.json) /\ Agree(repo.index.json, tree.json)
    BY <1>5, <2>1 DEF Current, Remembers, Progress
  <2> QED BY <1>5, <2>1, <2>2, ProgressJson, AgreeFacts DEF Current, Editing, tree
<1>6. CASE JsonKept /\ ~WriteEdit /\ ~EndEdit /\ ~Progress
  <2>1. CASE BeginEdit
    <3>1. editing = Null /\ editing'.read = tree.json /\ UNCHANGED memory
      BY <2>1, BeginEditJson DEF BeginEdit
    <3> QED BY <1>6, <3>1, AgreeFacts DEF Current, Editing, JsonKept, tree
  <2>2. CASE ~BeginEdit
    <3>1. UNCHANGED editing BY <1>6, <2>2, EditingStep
    <3>2. UNCHANGED memory \/ memory' = tree.json \/ memory' = Null BY <1>6, RunnerStep
    <3> QED BY <1>6, <3>1, <3>2, AgreeFacts DEF Current, Editing, JsonKept, tree
  <2> QED BY <2>1, <2>2
<1> QED BY <1>1, <1>2, <1>3, <1>4, <1>5, <1>6, JsonStep

Draining == Doing("cleanProject") /\ op.at = "drain"

LEMMA DrainStep ==
  ASSUME TypeOK, SentinelLast, [Next]_vars, Draining
  PROVE  UNCHANGED op \/ Reset
<1>0. op # Null /\ op.name = "cleanProject" /\ op.at = "drain" BY DEF Draining, Doing
<1>1. CASE op' # Null
  BY <1>0, <1>1, AtStep DEF Draining, Doing, Validate, Ask, Answer, BeginReset
<1>2. CASE op' = Null
  <2>1. ~(Validate \/ CommitRun) BY <1>0 DEF Validate, CommitRun
  <2>2. ~Answer BY <1>0 DEF Answer
  <2>3. ~(onSaveProject \/ onStopProject)
    <3>1. onSaveProject => op = [name |-> "saveProject", at |-> "go"] BY DEF onSaveProject
    <3>2. onStopProject => op = [name |-> "stopProject", at |-> "go"] BY DEF onStopProject
    <3> QED BY <1>0, <3>1, <3>2
  <2>4. CASE User \/ autoSaveAll \/ Receive \/ SaveTimer \/ Runner
             \/ \E w \in DOMAIN flights : EndFlush(w)
    BY <2>4 DEF User, OpenPanel, ChangeProperty, closeProperty, drawLink, onFile, Type,
       closeTab, saveAllFiles, revertAll, emitProjectOperation, makeWritable, autoSaveAll,
       Receive, ReceiveSave, ReceiveEdit, onProjectOperation, SaveTimer, EndFlush, Runner,
       Prepare, PreparationFails, StartRun, Progress, Conclude
  <2>5. CASE BeginEdit \/ WriteEdit \/ EndEdit BY <2>5 DEF BeginEdit, WriteEdit, EndEdit
  <2>6. ~SentinelRuns BY <1>0, CommitOfRun DEF Doing
  <2>7. CASE TakeOperation \/ Ask \/ BeginReset BY <1>0, <2>7 DEF TakeOperation, Ask, BeginReset
  <2>8. CASE UNCHANGED vars BY <2>8 DEF vars
  <2> QED BY <2>1, <2>2, <2>3, <2>4, <2>5, <2>6, <2>7, <2>8 DEF Next, EditQueue, Operator
<1> QED BY <1>1, <1>2

Answering == PropAnswered /\ LinkAnswered

LEMMA AnswersKept ==
  ASSUME Answering, UNCHANGED <<queue, editing, asked>>, Agree(repo'.tree.json, tree.json)
  PROVE  Answering'
BY DEF Answering, PropAnswered, LinkAnswered, LastUpdate, IsUpdate, Editing, Agree, tree

LEMMA AnswersReceived ==
  ASSUME TypeOK, Answering, NEW e \in EditMessage, queue' = Append(queue, e),
         asked' = Apply(asked, e), UNCHANGED <<editing, repo>>
  PROVE  Answering'
<1>1. /\ Len(queue) \in Nat /\ DOMAIN queue = 1..Len(queue) /\ DOMAIN queue' = 1..(Len(queue) + 1)
      /\ \A k \in DOMAIN queue : queue'[k] = queue[k]
      /\ queue'[Len(queue) + 1] = e
  BY AppendFacts DEF TypeOK
<1>2. /\ e.kind \in {"update", "link"}
      /\ asked'.prop = IF e.kind = "update" THEN e.prop ELSE asked.prop
      /\ asked'.link = (asked.link \/ e.kind = "link")
  BY ApplyFacts DEF TypeOK
<1>3. UNCHANGED tree.json BY DEF tree
<1>4. PropAnswered'
  <2>1. CASE e.kind = "update"
    BY <1>1, <1>2, <2>1 DEF PropAnswered, LastUpdate, IsUpdate
  <2>2. CASE e.kind = "link"
    <3>1. \A k \in DOMAIN queue' : IsUpdate(k)' <=> k \in DOMAIN queue /\ IsUpdate(k)
      BY <1>1, <2>2 DEF IsUpdate
    <3>2. asked'.prop = asked.prop BY <1>2, <2>2
    <3>3. \A k \in DOMAIN queue : LastUpdate(k) => LastUpdate(k)'
      BY <1>1, <3>1 DEF LastUpdate
    <3>4. CASE \E k \in DOMAIN queue : IsUpdate(k)
      BY <1>1, <3>1, <3>2, <3>3, <3>4 DEF Answering, PropAnswered
    <3>5. CASE ~\E k \in DOMAIN queue : IsUpdate(k)
      BY <1>3, <3>1, <3>2, <3>5 DEF Answering, PropAnswered, Editing
    <3> QED BY <3>4, <3>5
  <2> QED BY <1>2, <2>1, <2>2
<1>5. LinkAnswered'
  <2>1. (\E k \in DOMAIN queue' : queue'[k].kind = "link")
        <=> (\E k \in DOMAIN queue : queue[k].kind = "link") \/ e.kind = "link"
    BY <1>1
  <2> QED BY <1>2, <1>3, <2>1 DEF Answering, LinkAnswered, Editing
<1> QED BY <1>4, <1>5 DEF Answering

LEMMA AnswersSentinel ==
  ASSUME TypeOK, Answering, queue' = Append(queue, Sentinel),
         UNCHANGED <<editing, repo, asked>>
  PROVE  Answering'
<1>1. /\ Len(queue) \in Nat /\ DOMAIN queue = 1..Len(queue) /\ DOMAIN queue' = 1..(Len(queue) + 1)
      /\ \A k \in DOMAIN queue : queue'[k] = queue[k]
      /\ queue'[Len(queue) + 1] = Sentinel
  BY AppendFacts DEF TypeOK
<1>2. \A k \in DOMAIN queue' : IsUpdate(k)' <=> k \in DOMAIN queue /\ IsUpdate(k)
  BY <1>1 DEF IsUpdate, Sentinel
<1>3. \A k \in DOMAIN queue : LastUpdate(k) => LastUpdate(k)'
  BY <1>1, <1>2 DEF LastUpdate
<1>4. PropAnswered'
  <2>1. CASE \E k \in DOMAIN queue : IsUpdate(k)
    BY <1>1, <1>2, <1>3, <2>1 DEF Answering, PropAnswered
  <2>2. CASE ~\E k \in DOMAIN queue : IsUpdate(k)
    BY <1>2, <2>2 DEF Answering, PropAnswered, Editing, tree
  <2> QED BY <2>1, <2>2
<1>5. (\E k \in DOMAIN queue' : queue'[k].kind = "link")
      <=> (\E k \in DOMAIN queue : queue[k].kind = "link")
  BY <1>1, SentinelFacts
<1>6. LinkAnswered' BY <1>5 DEF Answering, LinkAnswered, Editing, tree
<1> QED BY <1>4, <1>6 DEF Answering

\* The first edit of the queue is taken in hand; none was in hand.
LEMMA AnswersTaken ==
  ASSUME TypeOK, Answering, BeginEdit
  PROVE  Answering'
<1>1. /\ editing = Null /\ editing' # Null /\ editing'.at = "write"
      /\ editing'.edit = Head(queue) /\ UNCHANGED <<repo, asked>>
  BY BeginEditJson DEF BeginEdit
<1>2. /\ Len(queue) \in Nat \ {0} /\ DOMAIN queue = 1..Len(queue)
      /\ DOMAIN queue' = 1..(Len(queue) - 1) /\ Head(queue) = queue[1] /\ 1 \in DOMAIN queue
      /\ \A k \in DOMAIN queue' : k + 1 \in DOMAIN queue /\ queue'[k] = queue[k + 1]
  BY TailFacts DEF BeginEdit, TypeOK
<1>3. \A k \in DOMAIN queue : k # 1 => k - 1 \in DOMAIN queue' /\ queue'[k - 1] = queue[k]
  BY <1>2
<1>4. \A k \in DOMAIN queue : k # 1 /\ LastUpdate(k) => LastUpdate(k - 1)'
  BY <1>2, <1>3 DEF LastUpdate, IsUpdate
<1>5. PropAnswered'
  <2>1. CASE \E k \in DOMAIN queue' : IsUpdate(k)'
    <3>1. PICK j \in DOMAIN queue' : IsUpdate(j)' BY <2>1
    <3>2. j + 1 \in DOMAIN queue /\ IsUpdate(j + 1) BY <1>2, <3>1 DEF IsUpdate
    <3>3. PICK k \in DOMAIN queue : LastUpdate(k) /\ queue[k].prop = asked.prop
      BY <3>2 DEF Answering, PropAnswered
    <3>4. k # 1 BY <1>2, <3>1, <3>2, <3>3 DEF LastUpdate
    <3> QED BY <1>1, <1>3, <1>4, <2>1, <3>3, <3>4 DEF PropAnswered
  <2>2. CASE ~\E k \in DOMAIN queue' : IsUpdate(k)'
    <3>1. \A k \in DOMAIN queue : IsUpdate(k) => k = 1 BY <1>3, <2>2 DEF IsUpdate
    <3>2. CASE IsUpdate(1)
      <4>1. queue[1].prop = asked.prop BY <1>2, <3>1, <3>2 DEF Answering, PropAnswered, LastUpdate
      <4> QED BY <1>1, <1>2, <2>2, <3>2, <4>1 DEF PropAnswered, Editing, IsUpdate
    <3>3. CASE ~IsUpdate(1)
      <4>1. tree.json.prop = asked.prop
        BY <1>1, <1>2, <3>1, <3>3 DEF Answering, PropAnswered, Editing
      <4>2. ~(editing'.edit.kind = "update") BY <1>1, <1>2, <3>3 DEF IsUpdate
      <4> QED BY <1>1, <2>2, <4>1, <4>2 DEF PropAnswered, tree
    <3> QED BY <3>2, <3>3
  <2> QED BY <2>1, <2>2
<1>6. LinkAnswered'
  <2>1. (\E k \in DOMAIN queue : queue[k].kind = "link")
        <=> queue[1].kind = "link" \/ \E k \in DOMAIN queue' : queue'[k].kind = "link"
    BY <1>2, <1>3
  <2> QED BY <1>1, <1>2, <2>1 DEF Answering, LinkAnswered, Editing, tree
<1> QED BY <1>5, <1>6 DEF Answering

LEMMA AnswersWritten ==
  ASSUME TypeOK, Current, Answering, WriteEdit
  PROVE  Answering'
<1>1. /\ editing # Null /\ editing.at = "write" /\ editing' # Null /\ editing'.at = "add"
      /\ repo'.tree.json = Apply(editing.read, editing.edit)
      /\ editing.read \in Json /\ editing.edit \in EditMessage
      /\ UNCHANGED <<queue, asked>>
  BY WriteEditJson DEF WriteEdit, InHand
<1>2. Agree(editing.read, tree.json) BY <1>1 DEF Current, Editing
<1>3. /\ repo'.tree.json.prop = IF editing.edit.kind = "update" THEN editing.edit.prop
                                ELSE tree.json.prop
      /\ repo'.tree.json.link = (tree.json.link \/ editing.edit.kind = "link")
  BY <1>1, <1>2, ApplyFacts DEF Agree
<1>4. Editing /\ ~Editing' BY <1>1 DEF Editing
<1>5. PropAnswered'
  BY <1>1, <1>3, <1>4 DEF Answering, PropAnswered, LastUpdate, IsUpdate, tree
<1>6. LinkAnswered' BY <1>1, <1>3, <1>4 DEF Answering, LinkAnswered, tree
<1> QED BY <1>5, <1>6 DEF Answering

LEMMA AnsweredStep ==
  ASSUME ~Careless, TypeOK, SentinelLast, Untouched, ResetAlone, Emptied, Remembers, Prepared,
         Current, Answered, [Next]_vars
  PROVE  Answered'
<1>0. /\ Answered <=> Draining \/ Answering
      /\ Answered' <=> Draining' \/ Answering'
  BY DEF Answered, Draining, Answering
<1>1. CASE Reset
  <2>1. queue' = <<>> /\ editing' = Null
    BY <1>1, ResetFinds DEF Reset
  <2>2. repo'.tree.json = asked'
    BY <1>1, ResetContents DEF Reset
  <2>3. asked' \in Json BY <1>1, TypeRepo DEF Reset
  <2> QED BY <1>0, <2>1, <2>2, <2>3, JsonFacts
          DEF Answering, PropAnswered, LinkAnswered, Editing, IsUpdate, tree
<1>2. CASE Draining /\ ~Reset
  BY <1>0, <1>2, DrainStep DEF Draining, Doing
<1>3. CASE Answering /\ ~Draining /\ ~Reset
  <2>1. CASE ReceiveEdit
    <3>1. /\ Head(wire) \in EditMessage /\ queue' = Append(queue, Head(wire))
          /\ asked' = Apply(asked, Head(wire)) /\ UNCHANGED <<editing, repo>>
      <4>1. Head(wire) \in Message BY <2>1, TailFacts DEF ReceiveEdit, TypeOK
      <4> QED BY <2>1, <4>1, MessageFacts DEF ReceiveEdit
    <3> QED BY <1>0, <1>3, <3>1, AnswersReceived
  <2>2. CASE BeginEdit BY <1>0, <1>3, <2>2, AnswersTaken
  <2>3. CASE WriteEdit BY <1>0, <1>3, <2>3, AnswersWritten
  <2>4. CASE EndEdit
    <3>1. ~Editing /\ ~Editing' /\ UNCHANGED <<queue, asked>>
      BY <2>4 DEF EndEdit, Editing
    <3>2. repo'.tree = repo.tree BY <2>4, TypeRepo, AddJson DEF EndEdit
    <3> QED BY <1>0, <1>3, <3>1, <3>2
            DEF Answering, PropAnswered, LinkAnswered, LastUpdate, IsUpdate, tree
  <2>5. CASE SentinelRuns
    <3>1. queue = <<Sentinel>> /\ queue' = <<>> /\ editing = Null /\ UNCHANGED <<editing, asked>>
      BY <2>5, QueueOfSentinel DEF SentinelRuns, SentinelDone
    <3>2. repo'.tree.json = tree.json BY <2>5, FlushKeepsJson DEF SentinelRuns, JsonKept
    <3>3. /\ ~\E k \in DOMAIN queue : IsUpdate(k)
          /\ ~\E k \in DOMAIN queue' : IsUpdate(k)'
          /\ ~\E k \in DOMAIN queue : queue[k].kind = "link"
          /\ ~\E k \in DOMAIN queue' : queue'[k].kind = "link"
      BY <3>1 DEF IsUpdate, Sentinel
    <3> QED BY <1>0, <1>3, <3>1, <3>2, <3>3
            DEF Answering, PropAnswered, LinkAnswered, Editing, tree
  <2>6. CASE BeginReset
    <3>1. CASE op.name = "cleanProject"
      <4>1. op' # Null /\ op'.at = "drain" /\ op'.name = op.name BY <2>6, AtNew
      <4> QED BY <1>0, <3>1, <4>1 DEF Draining, Doing
    <3>2. CASE op.name # "cleanProject"
      <4>1. UNCHANGED <<queue, editing, asked, repo>> BY <2>6, <3>2 DEF BeginReset
      <4> QED BY <1>0, <1>3, <4>1, AnswersKept, AgreeFacts DEF tree
    <3> QED BY <3>1, <3>2
  <2>7. CASE TakeOperation
    <3>1. UNCHANGED <<editing, repo, asked>> BY <2>7 DEF TakeOperation
    <3>2. UNCHANGED queue \/ queue' = Append(queue, Sentinel) BY <2>7 DEF TakeOperation
    <3>3. Answering'
      BY <1>3, <3>1, <3>2, AnswersKept, AnswersSentinel, AgreeFacts DEF tree
    <3> QED BY <1>0, <3>3
  <2>8. CASE ~(ReceiveEdit \/ BeginEdit \/ WriteEdit \/ EndEdit \/ SentinelRuns \/ BeginReset
               \/ TakeOperation)
    <3>1. UNCHANGED <<queue, editing, asked>>
      BY <1>3, <2>8, QueueStep, EditingStep, HistoryStep
    <3>2. CASE JsonKept
      <4>1. Agree(repo'.tree.json, tree.json) BY <3>2, AgreeFacts DEF JsonKept
      <4> QED BY <1>0, <1>3, <3>1, <4>1, AnswersKept
    <3>3. CASE onSaveProject BY <1>0, <1>3, <3>1, <3>3, SaveProject, AnswersKept
    <3>4. CASE Progress
      <4>1. Agree(memory, tree.json)
        <5>1. memory # Null BY <3>4 DEF Progress, Remembers
        <5> QED BY <5>1 DEF Current
      <4>2. Agree(repo'.tree.json, tree.json) BY <3>4, <4>1, ProgressJson, AgreeFacts
      <4> QED BY <1>0, <1>3, <3>1, <4>2, AnswersKept
    <3> QED BY <1>3, <2>8, <3>2, <3>3, <3>4, JsonStep
  <2> QED BY <2>1, <2>2, <2>3, <2>4, <2>5, <2>6, <2>7, <2>8
<1> QED BY <1>0, <1>1, <1>2, <1>3

-----------------------------------------------------------------------------
(* What is in the files: the text.                                         *)

TextsKept ==
  /\ repo'.tree.text = tree.text /\ repo'.index.text = repo.index.text
  /\ UNCHANGED <<pending, flights>>

LEMMA TimerText ==
  ASSUME TypeOK, SaveTimer
  PROVE  /\ pending # Null /\ pending' # Null /\ pending'.text = pending.text
         /\ pending.text \in Nat
         /\ flights'.timer = [text |-> pending.text, own |-> TRUE] /\ flights'.timer # Null
         /\ flights'.run = flights.run
         /\ repo'.tree.text = pending.text /\ repo'.index = repo.index /\ repo'.head = repo.head
         /\ JsonKept
<1>1. pending \in Timer /\ pending.text \in Nat BY DEF SaveTimer, TypeOK, Timer
<1>2. pending' \in Timer /\ pending'.text = pending.text BY <1>1 DEF SaveTimer, Timer
<1>3. /\ flights'.timer = [text |-> pending.text, own |-> TRUE] /\ flights'.run = flights.run
  BY DEF SaveTimer, Flight, TypeOK
<1>4. flights'.timer \in Flushing BY <1>1, <1>3 DEF Flushing
<1> QED BY <1>1, <1>2, <1>3, <1>4, TypeRepo, WriteText, NullAssumption
        DEF SaveTimer, JsonKept, tree

LEMMA FlushText ==
  ASSUME TypeOK, FlushSaves
  PROVE  /\ pending = Null => UNCHANGED <<repo, pending, flights>>
         /\ pending # Null =>
              /\ pending' # Null /\ pending'.text = pending.text /\ repo'.tree.text = pending.text
              /\ flights'.run = [text |-> pending.text, own |-> TRUE] /\ flights'.run # Null
              /\ flights'.timer = flights.timer
         /\ repo'.index = repo.index /\ repo'.head = repo.head
<1>1. CASE pending = Null BY <1>1 DEF FlushSaves
<1>2. CASE pending # Null
  <2>1. pending \in Timer /\ pending.text \in Nat BY <1>2 DEF TypeOK, Timer
  <2>2. pending' \in Timer /\ pending'.text = pending.text BY <1>2, <2>1 DEF FlushSaves, Timer
  <2>3. /\ flights'.run = [text |-> pending.text, own |-> TRUE]
        /\ flights'.timer = flights.timer
    BY <1>2 DEF FlushSaves, Flight, TypeOK
  <2>4. flights'.run \in Flushing BY <2>1, <2>3 DEF Flushing
  <2>5. pending' # Null /\ flights'.run # Null BY <2>2, <2>4, NullAssumption
  <2>6. repo' = write(repo, "text", pending.text) BY <1>2 DEF FlushSaves
  <2>7. repo'.tree.text = pending.text /\ repo'.index = repo.index /\ repo'.head = repo.head
    BY <2>1, <2>6, TypeRepo, WriteText
  <2> QED BY <1>2, <2>2, <2>3, <2>5, <2>7
<1> QED BY <1>1, <1>2

LEMMA EndFlushText ==
  ASSUME TypeOK, NEW w \in DOMAIN flights, EndFlush(w)
  PROVE  /\ w \in Flights /\ DOMAIN flights = Flights /\ flights[w] # Null
         /\ flights'[w] = Null /\ \A v \in Flights : v # w => flights'[v] = flights[v]
         /\ repo'.tree = repo.tree /\ repo'.index.text = tree.text /\ repo'.head = repo.head
         /\ pending' = IF flights[w].own THEN Null ELSE pending
         /\ tab = Null => tab' = Null
         /\ tab # Null =>
              /\ tab' # Null /\ tab'.doc = tab.doc /\ tab'.initial = tab.initial
              /\ tab'.timer = tab.timer /\ tab'.content = flights[w].text
<1>1. DOMAIN flights = Flights /\ w \in Flights BY DEF TypeOK, Flights
<1>2. flights' = [flights EXCEPT ![w] = Null] /\ flights[w] # Null BY DEF EndFlush
<1>3. flights'[w] = Null /\ \A v \in Flights : v # w => flights'[v] = flights[v]
  BY <1>1, <1>2
<1>4. ASSUME tab # Null
      PROVE  /\ tab' # Null /\ tab'.doc = tab.doc /\ tab'.initial = tab.initial
             /\ tab'.timer = tab.timer /\ tab'.content = flights[w].text
  <2>1. flights[w].text \in Nat BY <1>2 DEF TypeOK, Flushing
  <2>2. tab \in Tab BY <1>4 DEF TypeOK
  <2>3. tab' = [tab EXCEPT !.content = flights[w].text] BY <1>4 DEF EndFlush
  <2>4. tab' \in Tab BY <2>1, <2>2, <2>3 DEF Tab
  <2>5. tab'.doc = tab.doc /\ tab'.initial = tab.initial /\ tab'.timer = tab.timer
        /\ tab'.content = flights[w].text
    BY <2>2, <2>3 DEF Tab
  <2> QED BY <2>4, <2>5, NullAssumption
<1> QED BY <1>1, <1>2, <1>3, <1>4, TypeRepo, AddText DEF EndFlush, tree

LEMMA ReceiveText ==
  ASSUME TypeOK, ReceiveSave
  PROVE  /\ wire # <<>> /\ wire' = Tail(wire) /\ 1 \in DOMAIN wire /\ IsSave(1)
         /\ wire[1].text \in Nat
         /\ pending' # Null /\ pending'.text = wire[1].text
         /\ DOMAIN flights = Flights
         /\ \A w \in Flights :
              /\ flights'[w] = Null <=> flights[w] = Null
              /\ flights[w] # Null =>
                   flights'[w].text = flights[w].text /\ flights'[w].own = FALSE
         /\ UNCHANGED <<repo, tab, op>>
<1>1. 1 \in DOMAIN wire /\ wire[1] = Head(wire) /\ Head(wire) \in Message
  BY WireTail DEF ReceiveSave
<1>2. IsSave(1) /\ wire[1].text \in Nat BY <1>1, MessageFacts DEF ReceiveSave, IsSave
<1>3. pending' = [text |-> wire[1].text, fired |-> FALSE] BY <1>1 DEF ReceiveSave, onSaveFile
<1>4. pending' \in Timer BY <1>2, <1>3 DEF Timer
<1>5. DOMAIN flights = Flights BY DEF TypeOK, Flights
<1>6. ASSUME NEW w \in Flights
      PROVE  /\ flights'[w] = Null <=> flights[w] = Null
             /\ flights[w] # Null =>
                  flights'[w].text = flights[w].text /\ flights'[w].own = FALSE
  <2>1. flights'[w] = IF flights[w] = Null THEN Null ELSE [flights[w] EXCEPT !.own = FALSE]
    BY <1>5 DEF ReceiveSave, onSaveFile
  <2>2. flights[w] # Null => flights[w] \in Flushing BY DEF TypeOK, Flights
  <2>3. flights[w] # Null =>
          /\ [flights[w] EXCEPT !.own = FALSE] \in Flushing
          /\ [flights[w] EXCEPT !.own = FALSE].text = flights[w].text
          /\ [flights[w] EXCEPT !.own = FALSE].own = FALSE
    BY <2>2 DEF Flushing
  <2> QED BY <2>1, <2>3, NullAssumption
<1> QED BY <1>1, <1>2, <1>3, <1>4, <1>5, <1>6, NullAssumption DEF ReceiveSave

LEMMA AnswerText ==
  ASSUME TypeOK, Answer
  PROVE  /\ repo'.tree.text = tree.text /\ repo'.tree.json = tree.json
         /\ repo'.index.json = repo.index.json /\ repo'.head.json = repo.head.json
         /\ \/ repo'.index.text = repo.index.text /\ repo'.head.text = repo.head.text
            \/ repo'.index.text = tree.text /\ repo'.head.text = tree.text
         /\ UNCHANGED <<pending, flights, wire, tab, panel, queue, editing, memory, runner>>
BY TypeRepo, CommitText DEF Answer, tree

LEMMA TextStep ==
  ASSUME TypeOK, SentinelLast, Remembers, [Next]_vars
  PROVE  \/ TextsKept
         \/ ReceiveSave \/ SaveTimer \/ SentinelRuns \/ Reset \/ Answer
         \/ \E w \in DOMAIN flights : EndFlush(w)
<1>1. CASE UNCHANGED <<repo, pending, flights>> BY <1>1 DEF TextsKept, tree
<1>2. CASE makeWritable \/ Prepare \/ PreparationFails \/ StartRun \/ Conclude \/ onStopProject
  <2>1. UNCHANGED <<pending, flights>>
    BY <1>2 DEF makeWritable, Prepare, PreparationFails, StartRun, Conclude, onStopProject
  <2> QED BY <1>2, <2>1, RecordContents DEF SameContents, TextsKept, tree
<1>3. CASE onSaveProject
  BY <1>3, SaveProject DEF onSaveProject, TextsKept
<1>4. CASE CommitRun BY <1>4, TypeRepo, Commit DEF CommitRun, TextsKept, tree
<1>5. CASE WriteEdit BY <1>5, WriteEditJson DEF WriteEdit, TextsKept
<1>6. CASE EndEdit BY <1>6, TypeRepo, AddJson DEF EndEdit, TextsKept, tree
<1>7. CASE Progress BY <1>7, ProgressJson DEF Progress, TextsKept
<1>8. CASE autoSaveAll \/ OpenPanel \/ ChangeProperty \/ closeProperty \/ drawLink \/ onFile
           \/ Type \/ closeTab \/ saveAllFiles \/ revertAll
           \/ \E o \in Operations : emitProjectOperation(o)
  BY <1>1, <1>8 DEF OpenPanel, ChangeProperty, closeProperty, drawLink, onFile, Type, closeTab,
     saveAllFiles, revertAll, emitProjectOperation, autoSaveAll
<1>9. CASE ReceiveEdit \/ onProjectOperation \/ BeginEdit
  BY <1>1, <1>9 DEF ReceiveEdit, onProjectOperation, BeginEdit
<1>10. CASE TakeOperation \/ Validate \/ Ask \/ BeginReset
  BY <1>1, <1>10 DEF TakeOperation, Validate, Ask, BeginReset
<1>11. CASE UNCHANGED vars BY <1>1, <1>11 DEF vars
<1> QED BY <1>2, <1>3, <1>4, <1>5, <1>6, <1>7, <1>8, <1>9, <1>10, <1>11
        DEF Next, User, Receive, EditQueue, Operator, Runner

LEMMA TabStep ==
  ASSUME [Next]_vars
  PROVE  \/ UNCHANGED tab
         \/ onFile \/ Type \/ autoSaveAll \/ closeTab \/ saveAllFiles \/ revertAll
         \/ \E w \in DOMAIN flights : EndFlush(w)
<1>1. CASE User
  BY <1>1 DEF User, OpenPanel, ChangeProperty, closeProperty, drawLink, emitProjectOperation,
     makeWritable
<1>2. CASE Receive \/ EditQueue \/ SaveTimer
  BY <1>2 DEF Receive, ReceiveSave, ReceiveEdit, onProjectOperation, EditQueue, BeginEdit,
     WriteEdit, EndEdit, SentinelRuns, SentinelDone, SaveTimer
<1>3. CASE Operator \/ Runner
  BY <1>3 DEF Operator, TakeOperation, Validate, CommitRun, Ask, Answer, BeginReset, Reset,
     onSaveProject, onStopProject, Runner, Prepare, PreparationFails, StartRun, Progress,
     Conclude
<1>4. CASE UNCHANGED vars BY <1>4 DEF vars
<1> QED BY <1>1, <1>2, <1>3, <1>4 DEF Next

\* A run is validated when its saves are written and added.
LEMMA FlushingWaits ==
  ASSUME TypeOK, SentinelLast, [Next]_vars, Doing("runProject"), op.at = "flushing"
  PROVE  UNCHANGED op \/ (Validate /\ flights.run = Null)
<1>0. op # Null /\ op.name = "runProject" BY DEF Doing
<1>1. CASE op' # Null
  BY <1>0, <1>1, AtStep DEF Validate, Ask, Answer, BeginReset
<1>2. CASE op' = Null
  <2>1. ~CommitRun BY DEF CommitRun
  <2>2. ~(Answer \/ Reset) BY DEF Answer, Reset
  <2>3. ~(onSaveProject \/ onStopProject)
    <3>1. onSaveProject => op = [name |-> "saveProject", at |-> "go"] BY DEF onSaveProject
    <3>2. onStopProject => op = [name |-> "stopProject", at |-> "go"] BY DEF onStopProject
    <3> QED BY <3>1, <3>2
  <2>4. CASE User \/ autoSaveAll \/ Receive \/ SaveTimer \/ Runner
             \/ \E w \in DOMAIN flights : EndFlush(w)
    BY <2>4 DEF User, OpenPanel, ChangeProperty, closeProperty, drawLink, onFile, Type,
       closeTab, saveAllFiles, revertAll, emitProjectOperation, makeWritable, autoSaveAll,
       Receive, ReceiveSave, ReceiveEdit, onProjectOperation, SaveTimer, EndFlush, Runner,
       Prepare, PreparationFails, StartRun, Progress, Conclude
  <2>5. CASE BeginEdit \/ WriteEdit \/ EndEdit BY <2>5 DEF BeginEdit, WriteEdit, EndEdit
  <2>6. ~SentinelRuns
    <3>1. SentinelRuns => 1 \in DOMAIN queue /\ queue[1] = Sentinel
      BY TailFacts DEF SentinelRuns, SentinelDone, TypeOK
    <3> QED BY <3>1 DEF SentinelLast
  <2>7. CASE TakeOperation \/ Ask \/ BeginReset BY <1>0, <2>7 DEF TakeOperation, Ask, BeginReset
  <2>8. CASE Validate BY <2>8 DEF Validate
  <2>9. CASE UNCHANGED vars BY <2>9 DEF vars
  <2> QED BY <2>1, <2>2, <2>3, <2>4, <2>5, <2>6, <2>7, <2>8, <2>9 DEF Next, EditQueue, Operator
<1> QED BY <1>1, <1>2


LEMMA SentinelText ==
  ASSUME TypeOK, SentinelLast, SentinelRuns
  PROVE  /\ Doing("runProject") /\ op.at = "sentinel"
         /\ Doing("runProject")' /\ op'.at = "flushing"
         /\ FlushSaves /\ UNCHANGED <<wire, tab, ops>>
<1>1. Doing("runProject") /\ op.at = "sentinel"
  BY TailFacts DEF SentinelLast, SentinelRuns, SentinelDone, TypeOK
<1>2. op \in InProgress /\ op.name = "runProject" BY <1>1 DEF Doing, TypeOK
<1>3. op' = [op EXCEPT !.at = "flushing"] BY DEF SentinelRuns, SentinelDone, At
<1>4. op' \in InProgress /\ op'.name = "runProject" /\ op'.at = "flushing"
  BY <1>2, <1>3, OpFacts
<1> QED BY <1>1, <1>4, OpFacts DEF Doing, SentinelRuns, SentinelDone

LEMMA ResetText ==
  ASSUME TypeOK, ResetAlone, Reset
  PROVE  /\ pending = Null /\ flights.timer = Null /\ flights.run = Null /\ tab = Null
         /\ \A k \in DOMAIN wire : ~IsSave(k)
         /\ mark # Null /\ mark.key = count.key /\ mark.change = count.change
         /\ UNCHANGED <<pending, flights, tab, wire, count>>
         /\ repo'.tree = repo.head /\ repo'.index = repo.head /\ repo'.head = repo.head
<1>1. op # Null /\ op \in InProgress /\ op.at = "drain" BY DEF Reset, TypeOK
<1>2. Sent(Resetting) BY <1>1, OpFacts DEF Sent
<1>3. Settled /\ tab = Null BY <1>2 DEF ResetAlone
<1>4. flights.timer = Null /\ flights.run = Null BY <1>3 DEF Settled, NoFlight
<1> QED BY <1>2, <1>3, <1>4, ResetContents DEF ResetAlone, Settled, IsSave, Reset

\* Whoever ends a flush has written what was received last, or knows that he has not.
LEMMA FlushedStep ==
  ASSUME TypeOK, SentinelLast, Remembers, ResetAlone, Flushed, [Next]_vars
  PROVE  Flushed'
<1>0. /\ pending = Null => repo.index.text = tree.text
      /\ \A w \in Flights : flights[w] # Null /\ flights[w].own =>
           flights[w].text = tree.text /\ (pending # Null => pending.text = tree.text)
      /\ flights.run # Null => Doing("runProject") /\ op.at = "flushing"
  BY DEF Flushed
<1>1. (flights'.run # Null => flights.run # Null \/ SentinelRuns)
      => (flights'.run # Null => Doing("runProject")' /\ op'.at = "flushing")
  BY <1>0, FlushingWaits, SentinelText DEF Doing
<1>2. CASE TextsKept
  BY <1>0, <1>1, <1>2 DEF TextsKept, Flushed, tree
<1>3. CASE ReceiveSave
  <2>1. flights'.run # Null => flights.run # Null BY <1>3, ReceiveText DEF Flights
  <2>2. \A w \in Flights : flights'[w] # Null => flights'[w].own = FALSE
    BY <1>3, ReceiveText
  <2> QED BY <1>1, <1>3, <2>1, <2>2, ReceiveText DEF Flushed
<1>4. CASE SaveTimer
  <2>1. flights'.run # Null => flights.run # Null BY <1>4, TimerText
  <2>2. ASSUME NEW w \in Flights, flights'[w] # Null, flights'[w].own
        PROVE  flights'[w].text = repo'.tree.text /\ pending'.text = repo'.tree.text
    <3>1. CASE w = "timer" BY <1>4, <3>1, TimerText
    <3>2. CASE w = "run"
      <4>1. flights.run # Null /\ flights.run.own /\ flights'.run = flights.run /\ pending # Null
        BY <1>4, <2>2, <3>2, TimerText
      <4>2. flights.run.text = tree.text /\ pending.text = tree.text
        BY <1>0, <4>1 DEF Flights
      <4> QED BY <1>4, <3>2, <4>1, <4>2, TimerText
    <3> QED BY <3>1, <3>2 DEF Flights
  <2>3. pending' # Null BY <1>4, TimerText
  <2> QED BY <1>1, <2>1, <2>2, <2>3 DEF Flushed, tree
<1>5. CASE SentinelRuns
  <2>0. FlushSaves BY <1>5, SentinelText
  <2>1. CASE pending = Null
    <3>1. UNCHANGED <<repo, pending, flights>> BY <2>0, <2>1, FlushText
    <3> QED BY <1>0, <1>1, <1>5, <3>1 DEF Flushed, tree
  <2>2. CASE pending # Null
    <3>1. ASSUME NEW w \in Flights, flights'[w] # Null, flights'[w].own
          PROVE  flights'[w].text = repo'.tree.text /\ pending'.text = repo'.tree.text
      <4>1. CASE w = "run" BY <2>0, <2>2, <4>1, FlushText
      <4>2. CASE w = "timer"
        <5>1. flights.timer # Null /\ flights.timer.own /\ flights'.timer = flights.timer
          BY <2>0, <2>2, <3>1, <4>2, FlushText
        <5>2. flights.timer.text = tree.text /\ pending.text = tree.text
          BY <1>0, <2>2, <5>1 DEF Flights
        <5> QED BY <2>0, <2>2, <4>2, <5>1, <5>2, FlushText
      <4> QED BY <4>1, <4>2 DEF Flights
    <3>2. pending' # Null BY <2>0, <2>2, FlushText
    <3> QED BY <1>1, <1>5, <3>1, <3>2 DEF Flushed, tree
  <2> QED BY <2>1, <2>2
<1>6. CASE Reset
  <2>1. flights'.timer = Null /\ flights'.run = Null BY <1>6, ResetText
  <2>2. repo'.index.text = repo'.tree.text BY <1>6, ResetText
  <2> QED BY <2>1, <2>2 DEF Flushed, Flights, tree
<1>7. CASE Answer
  <2>1. UNCHANGED <<pending, flights>> /\ repo'.tree.text = tree.text
        /\ (repo'.index.text = repo.index.text \/ repo'.index.text = tree.text)
    BY <1>7, AnswerText
  <2> QED BY <1>0, <1>1, <2>1 DEF Flushed, tree
<1>8. ASSUME NEW w \in DOMAIN flights, EndFlush(w)
      PROVE  Flushed'
  <2>1. /\ w \in Flights /\ flights'[w] = Null
        /\ \A v \in Flights : v # w => flights'[v] = flights[v]
        /\ repo'.tree = repo.tree /\ repo'.index.text = tree.text
        /\ pending' = IF flights[w].own THEN Null ELSE pending
    BY <1>8, EndFlushText
  <2>2. flights'.run # Null => flights.run # Null BY <2>1 DEF Flights
  <2>3. ASSUME NEW v \in Flights, flights'[v] # Null, flights'[v].own
        PROVE  flights'[v].text = repo'.tree.text
               /\ (pending' # Null => pending'.text = repo'.tree.text)
    <3>1. flights[v] # Null /\ flights[v].own /\ flights'[v] = flights[v] BY <2>1, <2>3
    <3>2. flights[v].text = tree.text /\ (pending # Null => pending.text = tree.text)
      BY <1>0, <3>1
    <3> QED BY <2>1, <3>1, <3>2 DEF tree
  <2> QED BY <1>1, <2>1, <2>2, <2>3 DEF Flushed, tree
<1> QED BY <1>2, <1>3, <1>4, <1>5, <1>6, <1>7, <1>8, TextStep

LEMMA TextsTakenStep ==
  ASSUME TypeOK, SentinelLast, Remembers, Prepared, Flushed, TextsTaken, [Next]_vars
  PROVE  TextsTaken'
<1> SUFFICES ASSUME Doing("runProject")'
             PROVE  /\ pending' # Null => pending'.text \in due'.texts
                    /\ pending' = Null \/ op'.at # "sentinel" => repo'.tree.text \in due'.texts
                    /\ op'.at # "sentinel" /\ flights'.run = Null
                         => repo'.index.text \in due'.texts
  BY DEF TextsTaken, tree
<1>1. CASE TakeOperation
  <2>1. op = Null BY <1>1 DEF TakeOperation
  <2>2. Head(ops) = "runProject" /\ op'.at = "sentinel" BY <1>1, <2>1, OpStep DEF Doing
  <2>3. due' = [prop |-> asked.prop, link |-> asked.link,
                texts |-> {IF pending = Null THEN tree.text ELSE pending.text}]
    BY <1>1, <2>2 DEF TakeOperation, Doing
  <2>4. UNCHANGED <<repo, pending, flights>> BY <1>1 DEF TakeOperation
  <2> QED BY <2>2, <2>3, <2>4 DEF tree
<1>2. CASE ~TakeOperation
  <2>1. Doing("runProject") BY <1>2, OpStep DEF Doing
  <2>2. /\ pending # Null => pending.text \in due.texts
        /\ pending = Null \/ op.at # "sentinel" => tree.text \in due.texts
        /\ op.at # "sentinel" /\ flights.run = Null => repo.index.text \in due.texts
    BY <2>1 DEF TextsTaken
  <2>3. due # Null /\ due \in Due BY <2>1 DEF Prepared, TypeOK
  <2>4. ~(CommitRun \/ Reset)
    <3>1. CommitRun \/ Reset => op' = Null BY DEF CommitRun, Reset
    <3> QED BY <3>1 DEF Doing
  <2>5. ~Answer
    <3>1. Answer => op.at = "asked" BY DEF Answer
    <3> QED BY <2>1, <3>1, OpFacts DEF Doing, TypeOK
  <2>6. CASE ReceiveSave
    <3>1. due' = [due EXCEPT !.texts = @ \union {wire[1].text}]
      BY <2>3, <2>6, ReceiveText, WireTail DEF ReceiveSave
    <3>2. due'.texts = due.texts \union {wire[1].text} BY <2>3, <3>1 DEF Due
    <3>3. flights'.run = Null <=> flights.run = Null BY <2>6, ReceiveText DEF Flights
    <3> QED BY <2>2, <2>6, <3>2, <3>3, ReceiveText DEF tree
  <2>7. CASE SentinelRuns
    <3>0. FlushSaves /\ op.at = "sentinel" /\ op'.at = "flushing" /\ UNCHANGED due
      BY <2>7, SentinelText DEF SentinelRuns, SentinelDone
    <3>1. CASE pending = Null
      <4>1. UNCHANGED <<repo, pending, flights>> BY <3>0, <3>1, FlushText
      <4>2. tree.text \in due.texts /\ repo.index.text = tree.text
        BY <2>2, <3>1 DEF Flushed
      <4> QED BY <3>0, <3>1, <4>1, <4>2 DEF tree
    <3>2. CASE pending # Null BY <2>2, <3>0, <3>2, FlushText
    <3> QED BY <3>1, <3>2
  <2>8. CASE ~ReceiveSave /\ ~SentinelRuns
    <3>1. UNCHANGED due BY <1>2, <2>4, <2>8, HistoryStep DEF Doing
    <3>2. op'.at = "sentinel" <=> op.at = "sentinel"
      BY <1>2, <2>1, <2>8, AtStep, SentinelWaits, OpFacts DEF Doing, Ask, Answer, BeginReset
    <3>3. CASE TextsKept BY <2>2, <3>1, <3>2, <3>3 DEF TextsKept
    <3>4. CASE SaveTimer BY <2>2, <3>1, <3>2, <3>4, TimerText
    <3>5. ASSUME NEW w \in DOMAIN flights, EndFlush(w)
          PROVE  /\ pending' # Null => pending'.text \in due'.texts
                 /\ pending' = Null \/ op'.at # "sentinel" => repo'.tree.text \in due'.texts
                 /\ op'.at # "sentinel" /\ flights'.run = Null
                      => repo'.index.text \in due'.texts
      <4>1. /\ w \in Flights /\ flights[w] # Null
            /\ repo'.tree = repo.tree /\ repo'.index.text = tree.text
            /\ pending' = IF flights[w].own THEN Null ELSE pending
        BY <3>5, EndFlushText
      <4>2. CASE flights[w].own
        <5>1. pending # Null => pending.text = tree.text BY <4>1, <4>2 DEF Flushed
        <5>2. tree.text \in due.texts BY <2>2, <5>1
        <5> QED BY <3>1, <4>1, <4>2, <5>2 DEF tree
      <4>3. CASE ~flights[w].own
        BY <2>2, <3>1, <3>2, <4>1, <4>3 DEF tree
      <4> QED BY <4>2, <4>3
    <3> QED BY <2>4, <2>5, <2>8, <3>3, <3>4, <3>5, TextStep
  <2> QED BY <2>6, <2>7, <2>8
<1> QED BY <1>1, <1>2

-----------------------------------------------------------------------------
(* The saves on the connection.                                            *)

\* What is on the connection moves to the front by d, saves first to last.
SavesMoved(d) ==
  /\ \A k \in DOMAIN wire' : IsSave(k)' => k + d \in DOMAIN wire /\ wire'[k] = wire[k + d]
  /\ \A j \in DOMAIN wire : IsSave(j) => j - d \in DOMAIN wire' /\ wire'[j - d] = wire[j]

SavesKept == \E d \in {0, 1} : SavesMoved(d)

LEMMA WireNumbers ==
  ASSUME TypeOK, wire' \in Seq(Message)
  PROVE  /\ \A k \in DOMAIN wire : k \in Nat /\ k - 0 = k /\ k + 0 = k
         /\ \A k \in DOMAIN wire' : k \in Nat /\ k - 0 = k /\ k + 0 = k
BY DEF TypeOK

LEMMA SavesStay ==
  ASSUME TypeOK, wire' \in Seq(Message), [Next]_vars,
         ~ReceiveSave, ~autoSaveAll, ~saveAllFiles, ~revertAll
  PROVE  SavesKept
<1>0. /\ \A k \in DOMAIN wire : k \in Nat /\ k - 0 = k /\ k + 0 = k
      /\ \A k \in DOMAIN wire' : k \in Nat /\ k - 0 = k /\ k + 0 = k
  BY WireNumbers
<1>1. CASE UNCHANGED wire
  <2>1. SavesMoved(0) BY <1>0, <1>1 DEF SavesMoved
  <2> QED BY <2>1 DEF SavesKept
<1>2. CASE Receive /\ wire # <<>> /\ wire' = Tail(wire)
  <2>1. /\ Len(wire) \in Nat \ {0} /\ DOMAIN wire = 1..Len(wire)
        /\ Head(wire) = wire[1]
        /\ DOMAIN wire' = 1..(Len(wire) - 1)
        /\ \A k \in DOMAIN wire' : k + 1 \in DOMAIN wire /\ wire'[k] = wire[k + 1]
    BY <1>2, WireTail
  <2>2. ~IsSave(1)
    BY <1>2, <2>1 DEF Receive, ReceiveEdit, onProjectOperation, IsSave
  <2>3. ASSUME NEW j \in DOMAIN wire, IsSave(j)
        PROVE  j - 1 \in DOMAIN wire' /\ wire'[j - 1] = wire[j]
    <3>1. j # 1 BY <2>2, <2>3
    <3>2. j - 1 \in DOMAIN wire' /\ (j - 1) + 1 = j BY <2>1, <3>1
    <3> QED BY <2>1, <3>2
  <2>4. SavesMoved(1) BY <2>1, <2>3 DEF SavesMoved
  <2> QED BY <2>4 DEF SavesKept
<1>3. ASSUME NEW m \in Message, wire' = Append(wire, m), Cause(m)
      PROVE  SavesKept
  <2>1. m.kind # "save" BY <1>3 DEF Cause
  <2>2. \A k \in DOMAIN wire' : k \notin DOMAIN wire => wire'[k] = m
    BY <1>3, WireAppend
  <2>3. \A k \in DOMAIN wire' : IsSave(k)' => k \in DOMAIN wire
    BY <2>1, <2>2 DEF IsSave
  <2>4. SavesMoved(0) BY <1>0, <1>3, <2>3, WireAppend DEF SavesMoved
  <2> QED BY <2>4 DEF SavesKept
<1>4. CASE RunWithEdits
  <2>1. \A k \in DOMAIN wire' : IsSave(k)' => k \in DOMAIN wire
    <3>1. ASSUME NEW k \in DOMAIN wire', k \notin DOMAIN wire
          PROVE  wire'[k].kind # "save"
      <4>1. k = Len(wire) + 1 \/ k = Len(wire) + 2 BY <1>4, <3>1, WireTwice
      <4> QED BY <1>4, <4>1, WireTwice DEF OpMessage
    <3> QED BY <3>1 DEF IsSave
  <2>2. SavesMoved(0) BY <1>0, <1>4, <2>1, WireTwice DEF SavesMoved
  <2> QED BY <2>2 DEF SavesKept
<1> QED BY <1>1, <1>2, <1>3, <1>4, WireStep

Waiting == IF pending = Null THEN tree.text ELSE pending.text

LEMMA LatestKept ==
  ASSUME TypeOK, wire' \in Seq(Message), SavesKept, Waiting' = Waiting
  PROVE  \A text \in Nat : Latest(text) => Latest(text)'
<1>1. PICK d \in {0, 1} : SavesMoved(d) BY DEF SavesKept
<1>2. /\ \A k \in DOMAIN wire' : IsSave(k)' => k + d \in DOMAIN wire /\ wire'[k] = wire[k + d]
      /\ \A j \in DOMAIN wire : IsSave(j) => j - d \in DOMAIN wire' /\ wire'[j - d] = wire[j]
  BY <1>1 DEF SavesMoved
<1>3. (\A k \in DOMAIN wire : k \in Nat) /\ (\A k \in DOMAIN wire' : k \in Nat)
  BY WireNumbers
<1> TAKE text \in Nat
<1> HAVE Latest(text)
<1>4. CASE \E k \in DOMAIN wire : IsSave(k)
  <2>1. PICK k \in DOMAIN wire : LastSave(k) /\ wire[k].text = text
    BY <1>4 DEF Latest
  <2>2. k - d \in DOMAIN wire' /\ wire'[k - d] = wire[k] /\ IsSave(k - d)'
    BY <1>2, <2>1 DEF LastSave, IsSave
  <2>3. ASSUME NEW j \in DOMAIN wire', IsSave(j)'
        PROVE  j <= k - d
    <3>1. j + d \in DOMAIN wire /\ IsSave(j + d) BY <1>2, <2>3 DEF IsSave
    <3>2. j + d <= k BY <2>1, <3>1 DEF LastSave
    <3> QED BY <1>3, <3>2
  <2>4. LastSave(k - d)' BY <2>2, <2>3 DEF LastSave
  <2> QED BY <2>1, <2>2, <2>4 DEF Latest
<1>5. CASE ~\E k \in DOMAIN wire : IsSave(k)
  <2>1. ~\E k \in DOMAIN wire' : IsSave(k)' BY <1>2, <1>5 DEF IsSave
  <2>2. text = Waiting BY <1>5 DEF Latest, Waiting
  <2> QED BY <2>1, <2>2 DEF Latest, Waiting
<1> QED BY <1>4, <1>5

\* A save that is sent is the last one.
LEMMA LatestSent ==
  ASSUME TypeOK, NEW text \in Nat, wire' = Append(wire, Save(text))
  PROVE  /\ Latest(text)'
         /\ \A k \in DOMAIN wire' : \/ k \in DOMAIN wire /\ wire'[k] = wire[k]
                                    \/ wire'[k] = Save(text)
<1>1. Save(text) \in Message /\ Save(text).kind = "save" /\ Save(text).text = text
  BY MessageFacts
<1>2. /\ Len(wire) \in Nat /\ DOMAIN wire = 1..Len(wire) /\ DOMAIN wire' = 1..(Len(wire) + 1)
      /\ \A k \in DOMAIN wire : wire'[k] = wire[k]
      /\ wire'[Len(wire) + 1] = Save(text)
  BY <1>1, WireAppend
<1>3. PICK n \in Nat : n = Len(wire) + 1 BY <1>2
<1>4. n \in DOMAIN wire' /\ wire'[n] = Save(text) /\ \A j \in DOMAIN wire' : j <= n
  BY <1>2, <1>3
<1>5. LastSave(n)' BY <1>1, <1>4 DEF LastSave, IsSave
<1>6. Latest(text)' BY <1>1, <1>4, <1>5 DEF Latest, LastSave
<1> QED BY <1>2, <1>6

LEMMA LatestReceived ==
  ASSUME TypeOK, ReceiveSave
  PROVE  \A text \in Nat : Latest(text) => Latest(text)'
<1>0. /\ Len(wire) \in Nat \ {0} /\ DOMAIN wire = 1..Len(wire) /\ 1 \in DOMAIN wire
      /\ DOMAIN wire' = 1..(Len(wire) - 1) /\ IsSave(1)
      /\ \A k \in DOMAIN wire' : k + 1 \in DOMAIN wire /\ wire'[k] = wire[k + 1]
      /\ pending' # Null /\ pending'.text = wire[1].text
  BY ReceiveText, WireTail
<1> TAKE text \in Nat
<1> HAVE Latest(text)
<1>1. PICK k \in DOMAIN wire : LastSave(k) /\ wire[k].text = text
  BY <1>0 DEF Latest
<1>2. CASE k = 1
  <2>1. \A j \in DOMAIN wire' : ~IsSave(j)'
    <3>1. ASSUME NEW j \in DOMAIN wire', IsSave(j)' PROVE FALSE
      <4>1. j + 1 \in DOMAIN wire /\ IsSave(j + 1) BY <1>0, <3>1 DEF IsSave
      <4>2. j + 1 <= 1 BY <1>1, <1>2, <4>1 DEF LastSave
      <4> QED BY <1>0, <4>2
    <3> QED BY <3>1
  <2> QED BY <1>0, <1>1, <1>2, <2>1 DEF Latest
<1>3. CASE k # 1
  <2>1. k - 1 \in DOMAIN wire' /\ (k - 1) + 1 = k BY <1>0, <1>3
  <2>2. wire'[k - 1] = wire[k] BY <1>0, <2>1
  <2>3. ASSUME NEW j \in DOMAIN wire', IsSave(j)'
        PROVE  j <= k - 1
    <3>1. j + 1 \in DOMAIN wire /\ IsSave(j + 1) BY <1>0, <2>3 DEF IsSave
    <3>2. j + 1 <= k BY <1>1, <3>1 DEF LastSave
    <3> QED BY <1>0, <3>2
  <2>4. LastSave(k - 1)' BY <1>1, <2>1, <2>2, <2>3 DEF LastSave, IsSave
  <2> QED BY <1>1, <2>1, <2>2, <2>4 DEF Latest, LastSave
<1> QED BY <1>2, <1>3

\* A text that only the editor knows stays with it.
LEMMA FreshKept ==
  ASSUME TypeOK, wire' \in Seq(Message), tab # Null, tab' # Null, Fresh, SavesKept,
         tab'.doc = tab.doc, tab'.initial = tab.initial, tab'.content # tab'.doc,
         pending' # Null => pending'.text # tab.doc,
         \A w \in Flights : flights'[w] # Null => flights'[w].text # tab.doc
  PROVE  Fresh'
<1>1. PICK d \in {0, 1} : SavesMoved(d) BY DEF SavesKept
<1>2. \A k \in DOMAIN wire' : IsSave(k)' => wire'[k].text # tab.doc
  BY <1>1 DEF SavesMoved, IsSave, Fresh
<1> QED BY <1>2 DEF Fresh

\* Who leaves the text of the editor alone.
Quiet ==
  /\ UNCHANGED meant
  /\ tab = Null <=> tab' = Null
  /\ tab # Null => /\ tab'.doc = tab.doc /\ tab'.initial = tab.initial /\ tab'.timer = tab.timer

LEMMA TextKeptQuiet ==
  ASSUME TypeOK, wire' \in Seq(Message), TextKept, Quiet, SavesKept, Waiting' = Waiting,
         tab # Null /\ Fresh =>
           /\ tab'.content # tab.doc
           /\ pending' # Null => pending'.text # tab.doc
           /\ \A w \in Flights : flights'[w] # Null => flights'[w].text # tab.doc
  PROVE  TextKept'
<1>1. meant \in Nat BY DEF TypeOK
<1>2. Latest(meant) => Latest(meant)' BY <1>1, LatestKept DEF Quiet
<1>3. tab # Null /\ Fresh => Fresh' BY FreshKept DEF Quiet
<1> QED BY <1>2, <1>3 DEF TextKept, Quiet

LEMMA TypedTab ==
  ASSUME NEW t \in Tab, NEW text \in Nat
  PROVE  /\ [t EXCEPT !.doc = text, !.timer = TRUE] \in Tab
         /\ [t EXCEPT !.doc = text, !.timer = TRUE].doc = text
         /\ [t EXCEPT !.doc = text, !.timer = TRUE].timer
         /\ [t EXCEPT !.doc = text, !.timer = TRUE].initial = t.initial
         /\ [t EXCEPT !.doc = text, !.timer = TRUE].content = t.content
BY DEF Tab

LEMMA TypedText ==
  ASSUME ~Careless, TypeOK, TextsLive, Type
  PROVE  TextKept'
<1>1. tab # Null /\ tab \in Tab /\ count.key \in Nat BY DEF Type, TypeOK, Counts
<1>2. /\ tab' = [tab EXCEPT !.doc = count.key + 1, !.timer = TRUE] /\ meant' = count.key + 1
      /\ UNCHANGED <<repo, wire, pending, flights>>
  BY DEF Type
<1>3. /\ tab' \in Tab /\ tab'.doc = count.key + 1 /\ tab'.timer
      /\ tab'.initial = tab.initial /\ tab'.content = tab.content
  <2>1. PICK text \in Nat : text = count.key + 1 BY <1>1
  <2>2. tab' = [tab EXCEPT !.doc = text, !.timer = TRUE] BY <1>2, <2>1
  <2> QED BY <1>1, <2>1, <2>2, TypedTab
<1>4. tab.initial <= count.key /\ tab.content <= count.key
  BY <1>1 DEF TextsLive, TextLives
<1>5. \A text \in Nat : text <= count.key => text # count.key + 1 BY <1>1
<1>6. tab.initial \in Nat /\ tab.content \in Nat BY <1>1 DEF Tab
<1>7. ASSUME NEW k \in DOMAIN wire, IsSave(k) PROVE wire[k].text # count.key + 1
  <2>1. wire[k].text <= count.key BY <1>7 DEF TextsLive, TextLives
  <2>2. wire[k] \in Message BY DEF TypeOK
  <2> QED BY <1>5, <1>7, <2>1, <2>2, MessageFacts DEF IsSave
<1>8. pending # Null => pending.text # count.key + 1
  BY <1>5 DEF TextsLive, TextLives, TypeOK, Timer
<1>9. ASSUME NEW w \in Flights, flights[w] # Null PROVE flights[w].text # count.key + 1
  <2>1. flights[w].text <= count.key BY <1>9 DEF TextsLive, TextLives
  <2>2. flights[w] \in Flushing BY <1>9 DEF TypeOK, Flights
  <2> QED BY <1>5, <2>1, <2>2 DEF Flushing
<1>10. tab'.doc # tab'.initial /\ tab'.doc # tab'.content BY <1>3, <1>4, <1>5, <1>6
<1>11. Fresh' BY <1>2, <1>3, <1>7, <1>8, <1>9, <1>10 DEF Fresh, IsSave
<1>12. tab' # Null BY <1>3, NullAssumption
<1> QED BY <1>2, <1>3, <1>11, <1>12 DEF TextKept

LEMMA SentText ==
  ASSUME TypeOK, TextKept, autoSaveAll \/ saveAllFiles
  PROVE  TextKept'
<1>1. tab # Null /\ tab \in Tab /\ UNCHANGED <<repo, pending, flights, meant>>
  BY DEF autoSaveAll, saveAllFiles, TypeOK
<1>2. tab.doc = meant /\ meant \in Nat BY <1>1 DEF TextKept, TypeOK
<1>3. Latest(meant)'
  <2>1. CASE UNCHANGED wire /\ tab.content = tab.doc
    <3>1. Latest(meant) BY <1>1, <2>1 DEF TextKept, Fresh
    <3> QED BY <1>1, <2>1, <3>1 DEF Latest, LastSave, IsSave, tree
  <2>2. CASE wire' = Append(wire, Save(tab.doc))
    <3>1. wire' = Append(wire, Save(meant)) BY <1>2, <2>2
    <3>2. \A text \in Nat : wire' = Append(wire, Save(text)) => Latest(text)' BY LatestSent
    <3> QED BY <1>1, <1>2, <3>1, <3>2
  <2> QED BY <2>1, <2>2, SaveWire
<1>4. tab' # Null => tab'.doc = tab.doc
  <2>1. CASE saveAllFiles BY <2>1 DEF saveAllFiles
  <2>2. CASE autoSaveAll BY <1>1, <2>2 DEF autoSaveAll, Tab
  <2> QED BY <2>1, <2>2
<1> QED BY <1>1, <1>2, <1>3, <1>4 DEF TextKept

LEMMA RevertedText ==
  ASSUME TypeOK, revertAll
  PROVE  TextKept'
<1>1. tab # Null /\ tab \in Tab /\ tab.initial \in Nat BY DEF revertAll, TypeOK, Tab
<1>2. wire' = Append(wire, Save(tab.initial)) /\ meant' = tab.initial BY DEF revertAll
<1>3. PICK text \in Nat : text = tab.initial BY <1>1
<1>4. Latest(text)' BY <1>2, <1>3, LatestSent
<1>5. Latest(meant)' BY <1>2, <1>3, <1>4
<1>6. tab' # Null => tab'.doc = tab.initial BY <1>1 DEF revertAll, Tab
<1> QED BY <1>2, <1>5, <1>6 DEF TextKept

LEMMA OpenedText ==
  ASSUME ~Careless, TypeOK, TextKept, onFile
  PROVE  TextKept'
<1>1. /\ tab = Null /\ Settled /\ UNCHANGED <<repo, pending, wire, meant>>
      /\ tab' = [doc |-> tree.text, content |-> tree.text, initial |-> tree.text,
                 timer |-> FALSE]
  BY DEF onFile
<1>2. pending = Null /\ \A k \in DOMAIN wire : ~IsSave(k) BY <1>1 DEF Settled, IsSave
<1>3. Latest(meant) BY <1>1 DEF TextKept
<1>4. meant = tree.text BY <1>2, <1>3 DEF Latest
<1>5. Latest(meant)' BY <1>1, <1>3 DEF Latest, LastSave, IsSave, tree
<1> QED BY <1>1, <1>4, <1>5 DEF TextKept

LEMMA ClosedText ==
  ASSUME ~Careless, TypeOK, TextKept, closeTab
  PROVE  TextKept'
<1>1. /\ tab # Null /\ (tab.doc = tab.initial \/ ~tab.timer) /\ tab' = Null
      /\ UNCHANGED <<repo, pending, wire, meant>>
  BY DEF closeTab
<1>2. Latest(meant) BY <1>1 DEF TextKept, Fresh
<1> QED BY <1>1, <1>2 DEF TextKept, Latest, LastSave, IsSave, tree

\* The last text that the user left is the last one that will be written.
LEMMA TextKeptStep ==
  ASSUME ~Careless, TypeOK, TypeOK', SentinelLast, Remembers, ResetAlone, Flushed, TextsLive,
         TextKept, [Next]_vars
  PROVE  TextKept'
<1>0. wire' \in Seq(Message) BY DEF TypeOK
<1>1. CASE Type BY <1>1, TypedText
<1>2. CASE autoSaveAll \/ saveAllFiles BY <1>2, SentText
<1>3. CASE revertAll BY <1>3, RevertedText
<1>4. CASE onFile BY <1>4, OpenedText
<1>5. CASE closeTab BY <1>5, ClosedText
<1>6. CASE Reset
  <2>1. /\ pending' = Null /\ tab' = Null /\ repo'.tree = repo.head
        /\ \A k \in DOMAIN wire' : ~IsSave(k)'
    BY <1>6, ResetText DEF IsSave
  <2>2. meant' = repo.head.text BY <1>6 DEF Reset
  <2>3. Latest(meant)' BY <2>1, <2>2 DEF Latest, tree
  <2> QED BY <2>1, <2>3 DEF TextKept
<1>7. CASE ReceiveSave
  <2>1. UNCHANGED <<tab, meant>> /\ meant \in Nat BY <1>7 DEF ReceiveSave, TypeOK
  <2>2. Latest(meant) => Latest(meant)' BY <1>7, <2>1, LatestReceived
  <2>3. tab # Null /\ Fresh => Fresh'
    <3>1. SUFFICES ASSUME tab # Null, Fresh PROVE Fresh' OBVIOUS
    <3>2. \A k \in DOMAIN wire' : IsSave(k)' => wire'[k].text # tab.doc
      <4>1. \A k \in DOMAIN wire' : k + 1 \in DOMAIN wire /\ wire'[k] = wire[k + 1]
        BY <1>7, ReceiveText, WireTail
      <4> QED BY <3>1, <4>1 DEF Fresh, IsSave
    <3>3. pending'.text # tab.doc BY <1>7, <3>1, ReceiveText DEF Fresh
    <3>4. \A w \in Flights : flights'[w] # Null => flights'[w].text # tab.doc
      BY <1>7, <3>1, ReceiveText DEF Fresh
    <3> QED BY <2>1, <3>1, <3>2, <3>3, <3>4 DEF Fresh
  <2> QED BY <2>1, <2>2, <2>3 DEF TextKept
<1>8. ASSUME NEW w \in DOMAIN flights, EndFlush(w)
      PROVE  TextKept'
  <2>1. /\ w \in Flights /\ flights[w] # Null /\ flights'[w] = Null
        /\ \A v \in Flights : v # w => flights'[v] = flights[v]
        /\ repo'.tree = repo.tree
        /\ pending' = IF flights[w].own THEN Null ELSE pending
        /\ tab = Null => tab' = Null
        /\ tab # Null =>
             /\ tab' # Null /\ tab'.doc = tab.doc /\ tab'.initial = tab.initial
             /\ tab'.timer = tab.timer /\ tab'.content = flights[w].text
    BY <1>8, EndFlushText
  <2>2. UNCHANGED <<wire, meant>> BY <1>8 DEF EndFlush
  <2>3. SavesKept
    <3>1. SavesMoved(0) BY <1>0, <2>2, WireNumbers DEF SavesMoved
    <3> QED BY <3>1 DEF SavesKept
  <2>4. Waiting' = Waiting
    <3>1. flights[w].own /\ pending # Null => pending.text = tree.text BY <2>1 DEF Flushed
    <3> QED BY <2>1, <3>1 DEF Waiting, tree
  <2>5. Quiet BY <2>1, <2>2 DEF Quiet
  <2>6. tab # Null /\ Fresh =>
          /\ tab'.content # tab.doc
          /\ pending' # Null => pending'.text # tab.doc
          /\ \A v \in Flights : flights'[v] # Null => flights'[v].text # tab.doc
    BY <2>1 DEF Fresh
  <2> QED BY <1>0, <2>3, <2>4, <2>5, <2>6, TextKeptQuiet
<1>9. CASE /\ ~Type /\ ~autoSaveAll /\ ~saveAllFiles /\ ~revertAll /\ ~onFile /\ ~closeTab
           /\ ~Reset /\ ~ReceiveSave /\ ~\E w \in DOMAIN flights : EndFlush(w)
  <2>1. UNCHANGED <<tab, meant>> BY <1>9, TabStep, HistoryStep
  <2>2. Quiet BY <2>1 DEF Quiet
  <2>3. SavesKept BY <1>0, <1>9, SavesStay
  <2>4. CASE TextsKept
    <3>1. UNCHANGED <<pending, flights>> /\ Waiting' = Waiting
      BY <2>4 DEF TextsKept, Waiting, tree
    <3>2. tab # Null /\ Fresh =>
            /\ tab'.content # tab.doc
            /\ pending' # Null => pending'.text # tab.doc
            /\ \A v \in Flights : flights'[v] # Null => flights'[v].text # tab.doc
      BY <2>1, <3>1 DEF Fresh
    <3> QED BY <1>0, <2>2, <2>3, <3>1, <3>2, TextKeptQuiet
  <2>5. CASE Answer
    <3>1. UNCHANGED <<pending, flights>> /\ Waiting' = Waiting
      BY <2>5, AnswerText DEF Waiting, tree
    <3>2. tab # Null /\ Fresh =>
            /\ tab'.content # tab.doc
            /\ pending' # Null => pending'.text # tab.doc
            /\ \A v \in Flights : flights'[v] # Null => flights'[v].text # tab.doc
      BY <2>1, <3>1 DEF Fresh
    <3> QED BY <1>0, <2>2, <2>3, <3>1, <3>2, TextKeptQuiet
  <2>6. CASE SaveTimer
    <3>1. Waiting' = Waiting BY <2>6, TimerText DEF Waiting
    <3>2. tab # Null /\ Fresh =>
            /\ tab'.content # tab.doc
            /\ pending' # Null => pending'.text # tab.doc
            /\ \A v \in Flights : flights'[v] # Null => flights'[v].text # tab.doc
      BY <2>1, <2>6, TimerText DEF Fresh, Flights
    <3> QED BY <1>0, <2>2, <2>3, <3>1, <3>2, TextKeptQuiet
  <2>7. CASE SentinelRuns
    <3>0. FlushSaves BY <2>7, SentinelText
    <3>1. Waiting' = Waiting BY <3>0, FlushText DEF Waiting, tree
    <3>2. tab # Null /\ Fresh =>
            /\ tab'.content # tab.doc
            /\ pending' # Null => pending'.text # tab.doc
            /\ \A v \in Flights : flights'[v] # Null => flights'[v].text # tab.doc
      BY <2>1, <3>0, FlushText DEF Fresh, Flights
    <3> QED BY <1>0, <2>2, <2>3, <3>1, <3>2, TextKeptQuiet
  <2> QED BY <1>9, <2>4, <2>5, <2>6, <2>7, TextStep
<1> QED BY <1>1, <1>2, <1>3, <1>4, <1>5, <1>6, <1>7, <1>8, <1>9

-----------------------------------------------------------------------------
(* What was reset is nowhere any more.                                     *)

Grown ==
  /\ count.key \in Nat /\ count.change \in Nat
  /\ count'.key \in Nat /\ count'.change \in Nat
  /\ count.key <= count'.key /\ count.change <= count'.change

LEMMA CountStep ==
  ASSUME TypeOK, [Next]_vars
  PROVE  Grown
<1>0. count \in Counts BY DEF TypeOK
<1>1. CASE UNCHANGED count
  <2>1. count.key \in Nat /\ count.change \in Nat BY <1>0, CountFacts
  <2>2. count'.key = count.key /\ count'.change = count.change BY <1>1
  <2>3. \A n \in Nat : n <= n OBVIOUS
  <2> QED BY <2>1, <2>2, <2>3 DEF Grown
<1>2. CASE \/ count' = [count EXCEPT !.key = @ + 1] \/ count' = [count EXCEPT !.change = @ + 1]
           \/ count' = [count EXCEPT !.op = @ + 1] \/ count' = [count EXCEPT !.run = @ + 1]
  <2>1. /\ count.key \in Nat /\ count.change \in Nat
        /\ count'.key \in {count.key, count.key + 1}
        /\ count'.change \in {count.change, count.change + 1}
    BY <1>0, <1>2, CountFacts
  <2>2. \A n \in Nat : n <= n /\ n <= n + 1 /\ n + 1 \in Nat OBVIOUS
  <2> QED BY <2>1, <2>2 DEF Grown
<1>3. CASE User \/ autoSaveAll
  <2>1. \/ UNCHANGED count
        \/ count' = [count EXCEPT !.key = @ + 1] \/ count' = [count EXCEPT !.change = @ + 1]
        \/ count' = [count EXCEPT !.op = @ + 1]
    BY <1>3 DEF User, OpenPanel, ChangeProperty, closeProperty, drawLink, onFile, Type, closeTab,
       saveAllFiles, revertAll, emitProjectOperation, makeWritable, autoSaveAll
  <2> QED BY <1>1, <1>2, <2>1
<1>4. CASE Receive \/ EditQueue \/ SaveTimer \/ Runner \/ \E w \in DOMAIN flights : EndFlush(w)
  BY <1>1, <1>4 DEF Receive, ReceiveSave, ReceiveEdit, onProjectOperation, EditQueue, BeginEdit,
     WriteEdit, EndEdit, SentinelRuns, SentinelDone, SaveTimer, Runner, Prepare,
     PreparationFails, StartRun, Progress, Conclude, EndFlush
<1>5. CASE CommitRun BY <1>2, <1>5 DEF CommitRun
<1>6. CASE Operator /\ ~CommitRun
  BY <1>1, <1>6 DEF Operator, TakeOperation, Validate, Ask, Answer, BeginReset, Reset,
     onSaveProject, onStopProject
<1>7. CASE UNCHANGED vars BY <1>1, <1>7 DEF vars
<1> QED BY <1>1, <1>2, <1>3, <1>4, <1>5, <1>6, <1>7 DEF Next

\* After a step the text, the value of the property is not one that was reset.
TextStays(text) == text <= count'.key /\ text \notin void'.text
PropStays(prop) == prop <= count'.change /\ prop \notin void'.prop

LEMMA LivesOn ==
  ASSUME TypeOK, [Next]_vars, ~Reset
  PROVE  /\ \A text \in Nat : TextLives(text) => TextStays(text)
         /\ \A prop \in Nat : PropLives(prop) => PropStays(prop)
<1>1. UNCHANGED void BY HistoryStep
<1>2. \A n \in Nat : /\ n <= count.key => n <= count'.key
                     /\ n <= count.change => n <= count'.change
  BY CountStep DEF Grown
<1> QED BY <1>1, <1>2 DEF TextLives, PropLives, TextStays, PropStays

\* HEAD is what was in the index, or the text that was selected.
LEMMA HeadStep ==
  ASSUME TypeOK, SentinelLast, [Next]_vars
  PROVE  \/ repo'.head = repo.head
         \/ CommitRun /\ repo'.head = repo.index
         \/ Answer \/ onSaveProject
<1>1. CASE UNCHANGED repo BY <1>1
<1>2. CASE makeWritable \/ Prepare \/ PreparationFails \/ StartRun \/ Conclude \/ onStopProject
  BY <1>2, RecordContents DEF SameContents
<1>3. CASE SentinelRuns BY <1>3, FlushKeepsJson DEF SentinelRuns
<1>4. CASE SaveTimer BY <1>4, TimerText
<1>5. ASSUME NEW w \in DOMAIN flights, EndFlush(w)
      PROVE  repo'.head = repo.head
  BY <1>5, EndFlushText
<1>6. CASE CommitRun BY <1>6, TypeRepo, Commit DEF CommitRun
<1>7. CASE WriteEdit BY <1>7, WriteEditJson
<1>8. CASE EndEdit BY <1>8, TypeRepo, AddJson DEF EndEdit
<1>9. CASE Progress
  <2>1. repo' = write(repo, "json", memory') BY <1>9 DEF Progress
  <2> QED BY <2>1, TypeRepo DEF write, Repo
<1>10. CASE Reset BY <1>10, ResetContents
<1>11. CASE autoSaveAll \/ OpenPanel \/ ChangeProperty \/ closeProperty \/ drawLink \/ onFile
           \/ Type \/ closeTab \/ saveAllFiles \/ revertAll
           \/ \E o \in Operations : emitProjectOperation(o)
  BY <1>1, <1>11 DEF OpenPanel, ChangeProperty, closeProperty, drawLink, onFile, Type, closeTab,
     saveAllFiles, revertAll, emitProjectOperation, autoSaveAll
<1>12. CASE Receive \/ BeginEdit
  BY <1>1, <1>12 DEF Receive, ReceiveSave, ReceiveEdit, onProjectOperation, BeginEdit
<1>13. CASE TakeOperation \/ Validate \/ Ask \/ BeginReset
  BY <1>1, <1>13 DEF TakeOperation, Validate, Ask, BeginReset
<1>14. CASE UNCHANGED vars BY <1>1, <1>14 DEF vars
<1> QED BY <1>2, <1>3, <1>4, <1>5, <1>6, <1>7, <1>8, <1>9, <1>10, <1>11, <1>12, <1>13, <1>14
        DEF Next, User, EditQueue, Operator, Runner

\* The texts in the files come from the files, the saves and the index.
LEMMA TextsWritten ==
  ASSUME TypeOK, SentinelLast, Remembers, ResetAlone, TextsLive, [Next]_vars, ~Reset
  PROVE  /\ TextLives(repo'.tree.text) /\ TextLives(repo'.index.text)
         /\ TextLives(repo'.head.text)
         /\ pending' # Null => TextLives(pending'.text)
         /\ \A w \in Flights : flights'[w] # Null => TextLives(flights'[w].text)
<1>0. /\ TextLives(tree.text) /\ TextLives(repo.index.text) /\ TextLives(repo.head.text)
      /\ pending # Null => TextLives(pending.text)
      /\ \A w \in Flights : flights[w] # Null => TextLives(flights[w].text)
  BY DEF TextsLive
<1>1. /\ TextLives(repo'.tree.text) /\ TextLives(repo'.index.text)
      /\ pending' # Null => TextLives(pending'.text)
      /\ \A w \in Flights : flights'[w] # Null => TextLives(flights'[w].text)
  <2>1. CASE TextsKept
    <3>1. repo'.tree.text = tree.text /\ repo'.index.text = repo.index.text
          /\ pending' = pending /\ flights' = flights
      BY <2>1 DEF TextsKept
    <3> QED BY <1>0, <3>1
  <2>2. CASE ReceiveSave
    <3>1. TextLives(wire[1].text) BY <2>2, ReceiveText DEF TextsLive
    <3>2. repo'.tree.text = tree.text /\ repo'.index.text = repo.index.text
      BY <2>2, ReceiveText DEF tree
    <3> QED BY <1>0, <2>2, <3>1, <3>2, ReceiveText
  <2>3. CASE SaveTimer BY <1>0, <2>3, TimerText DEF Flights
  <2>4. CASE SentinelRuns
    <3>0. FlushSaves BY <2>4, SentinelText
    <3> QED BY <1>0, <3>0, FlushText DEF Flights, tree
  <2>5. CASE Answer
    <3>1. pending' = pending /\ flights' = flights /\ repo'.tree.text = tree.text
          /\ (repo'.index.text = repo.index.text \/ repo'.index.text = tree.text)
      BY <2>5, AnswerText
    <3> QED BY <1>0, <3>1
  <2>6. ASSUME NEW w \in DOMAIN flights, EndFlush(w)
        PROVE  /\ TextLives(repo'.tree.text) /\ TextLives(repo'.index.text)
               /\ pending' # Null => TextLives(pending'.text)
               /\ \A v \in Flights : flights'[v] # Null => TextLives(flights'[v].text)
    <3>1. repo'.tree.text = tree.text BY <2>6, EndFlushText DEF tree
    <3>2. repo'.index.text = tree.text /\ (pending' = Null \/ pending' = pending)
          /\ \A v \in Flights : flights'[v] = Null \/ flights'[v] = flights[v]
      BY <2>6, EndFlushText
    <3> QED BY <1>0, <3>1, <3>2
  <2> QED BY <2>1, <2>2, <2>3, <2>4, <2>5, <2>6, TextStep
<1>2. TextLives(repo'.head.text)
  <2>1. CASE Answer BY <1>0, <2>1, AnswerText
  <2>2. CASE onSaveProject
    <3>1. repo'.head = repo.head \/ repo'.head = repo'.index BY <2>2, SaveProject
    <3> QED BY <1>0, <1>1, <3>1
  <2>3. CASE CommitRun /\ repo'.head = repo.index BY <1>0, <2>3
  <2>4. CASE repo'.head = repo.head BY <1>0, <2>4
  <2> QED BY <2>1, <2>2, <2>3, <2>4, HeadStep
<1> QED BY <1>1, <1>2

LEMMA SavesLive ==
  ASSUME ~Careless, TypeOK, TypeOK', TextsLive, [Next]_vars,
         NEW k \in DOMAIN wire', IsSave(k)'
  PROVE  TextLives(wire'[k].text)
<1>0. \A j \in DOMAIN wire : IsSave(j) => TextLives(wire[j].text) BY DEF TextsLive
<1>1. CASE SavesKept
  <2>1. PICK d \in {0, 1} : SavesMoved(d) BY <1>1 DEF SavesKept
  <2>2. k + d \in DOMAIN wire /\ wire'[k] = wire[k + d] BY <2>1 DEF SavesMoved
  <2>3. IsSave(k + d) BY <2>2 DEF IsSave
  <2> QED BY <1>0, <2>2, <2>3
<1>2. CASE ReceiveSave
  <2>1. k + 1 \in DOMAIN wire /\ wire'[k] = wire[k + 1] BY <1>2, ReceiveText, WireTail
  <2>2. IsSave(k + 1) BY <2>1 DEF IsSave
  <2> QED BY <1>0, <2>1, <2>2
<1>3. CASE autoSaveAll \/ saveAllFiles \/ revertAll
  <2>1. tab # Null BY <1>3 DEF autoSaveAll, saveAllFiles, revertAll
  <2>2. TextLives(tab.doc) /\ TextLives(tab.initial) BY <2>1 DEF TextsLive
  <2>3. tab.doc \in Nat /\ tab.initial \in Nat BY <2>1 DEF TypeOK, Tab
  <2>4. ASSUME NEW text \in Nat, wire' = Append(wire, Save(text)), TextLives(text)
        PROVE  TextLives(wire'[k].text)
    <3>1. (k \in DOMAIN wire /\ wire'[k] = wire[k]) \/ wire'[k] = Save(text)
      BY <2>4, LatestSent
    <3>2. CASE k \in DOMAIN wire /\ wire'[k] = wire[k] BY <1>0, <3>2 DEF IsSave
    <3>3. CASE wire'[k] = Save(text)
      <4>1. Save(text).text = text BY MessageFacts
      <4> QED BY <2>4, <3>3, <4>1
    <3> QED BY <3>1, <3>2, <3>3
  <2>5. CASE UNCHANGED wire BY <1>0, <2>5 DEF IsSave
  <2>6. CASE wire' = Append(wire, Save(tab.doc)) BY <2>2, <2>3, <2>4, <2>6
  <2>7. CASE wire' = Append(wire, Save(tab.initial)) BY <2>2, <2>3, <2>4, <2>7
  <2> QED BY <1>3, <2>5, <2>6, <2>7, SaveWire DEF revertAll
<1> QED BY <1>1, <1>2, <1>3, SavesStay DEF TypeOK

\* What the editor shows was in the file, has been typed or is being saved.
LEMMA TabLives ==
  ASSUME ~Careless, TypeOK, TextsLive, VoidPast, [Next]_vars, ~Reset, tab' # Null
  PROVE  TextStays(tab'.doc) /\ TextStays(tab'.content) /\ TextStays(tab'.initial)
<1>0. tab # Null =>
        /\ tab \in Tab /\ tab.doc \in Nat /\ tab.content \in Nat /\ tab.initial \in Nat
        /\ TextStays(tab.doc) /\ TextStays(tab.content) /\ TextStays(tab.initial)
  BY LivesOn DEF TextsLive, TypeOK, Tab
<1>1. CASE UNCHANGED tab BY <1>0, <1>1
<1>2. CASE onFile
  <2>1. tab'.doc = tree.text /\ tab'.content = tree.text /\ tab'.initial = tree.text
    BY <1>2 DEF onFile
  <2>2. TextStays(tree.text) BY TypeRepo, LivesOn DEF TextsLive
  <2> QED BY <2>1, <2>2
<1>3. CASE Type
  <2>1. tab # Null /\ tab' = [tab EXCEPT !.doc = count.key + 1, !.timer = TRUE]
    BY <1>3 DEF Type
  <2>2. PICK text \in Nat : text = count.key + 1 BY CountStep DEF Grown
  <2>3. tab' = [tab EXCEPT !.doc = text, !.timer = TRUE] BY <2>1, <2>2
  <2>4. tab'.doc = text /\ tab'.initial = tab.initial /\ tab'.content = tab.content
    <3>1. tab \in Tab BY <1>0, <2>1
    <3> QED BY <2>2, <2>3, <3>1, TypedTab
  <2>5. count'.key = text /\ UNCHANGED void
    BY <1>3, <2>2, CountFacts DEF Type, TypeOK
  <2>6. text \notin void.text
    <3>1. text \notin 1..count.key BY <2>2, CountStep DEF Grown
    <3> QED BY <3>1 DEF VoidPast
  <2>7. text <= text BY <2>2
  <2> QED BY <1>0, <2>1, <2>4, <2>5, <2>6, <2>7 DEF TextStays
<1>4. CASE autoSaveAll
  <2>1. tab # Null /\ tab' = [tab EXCEPT !.timer = FALSE] BY <1>4 DEF autoSaveAll
  <2>2. tab'.doc = tab.doc /\ tab'.initial = tab.initial /\ tab'.content = tab.content
    BY <1>0, <2>1 DEF Tab
  <2> QED BY <1>0, <2>1, <2>2
<1>5. CASE revertAll
  <2>1. tab # Null /\ tab' = [tab EXCEPT !.doc = tab.initial, !.timer = TRUE]
    BY <1>5 DEF revertAll
  <2>2. tab'.doc = tab.initial /\ tab'.initial = tab.initial /\ tab'.content = tab.content
    BY <1>0, <2>1, TypedTab
  <2> QED BY <1>0, <2>1, <2>2
<1>6. CASE closeTab \/ saveAllFiles BY <1>6 DEF closeTab, saveAllFiles
<1>7. ASSUME NEW w \in DOMAIN flights, EndFlush(w)
      PROVE  TextStays(tab'.doc) /\ TextStays(tab'.content) /\ TextStays(tab'.initial)
  <2>1. /\ w \in Flights /\ flights[w] # Null /\ tab # Null
        /\ tab'.doc = tab.doc /\ tab'.initial = tab.initial /\ tab'.content = flights[w].text
    BY <1>7, EndFlushText
  <2>2. flights[w].text \in Nat BY <2>1 DEF TypeOK, Flights, Flushing
  <2>3. TextStays(flights[w].text) BY <2>1, <2>2, LivesOn DEF TextsLive
  <2> QED BY <1>0, <2>1, <2>3
<1> QED BY <1>1, <1>2, <1>3, <1>4, <1>5, <1>6, <1>7, TabStep

LEMMA TextsLiveStep ==
  ASSUME ~Careless, TypeOK, TypeOK', SentinelLast, Remembers, ResetAlone, VoidPast, TextsLive,
         [Next]_vars
  PROVE  TextsLive'
<1>1. CASE ~Reset
  <2>0. \A text \in Nat : TextLives(text) => TextStays(text) BY <1>1, LivesOn
  <2>1. /\ TextStays(repo'.tree.text) /\ TextStays(repo'.index.text)
        /\ TextStays(repo'.head.text)
    <3>1. repo'.tree.text \in Nat /\ repo'.index.text \in Nat /\ repo'.head.text \in Nat
      BY DEF TypeOK, Files
    <3> QED BY <1>1, <2>0, <3>1, TextsWritten
  <2>2. pending' # Null => TextStays(pending'.text)
    <3>1. pending' # Null => pending'.text \in Nat BY DEF TypeOK, Timer
    <3> QED BY <1>1, <2>0, <3>1, TextsWritten
  <2>3. \A w \in Flights : flights'[w] # Null => TextStays(flights'[w].text)
    <3>1. \A w \in Flights : flights'[w] # Null => flights'[w].text \in Nat
      BY DEF TypeOK, Flights, Flushing
    <3> QED BY <1>1, <2>0, <3>1, TextsWritten
  <2>4. \A k \in DOMAIN wire' : IsSave(k)' => TextStays(wire'[k].text)
    <3>1. \A k \in DOMAIN wire' : wire'[k] \in Message BY DEF TypeOK
    <3>2. \A k \in DOMAIN wire' : IsSave(k)' => wire'[k].text \in Nat
      BY <3>1, MessageFacts DEF IsSave
    <3> QED BY <2>0, <3>2, SavesLive
  <2>5. tab' # Null =>
          TextStays(tab'.doc) /\ TextStays(tab'.content) /\ TextStays(tab'.initial)
    BY <1>1, TabLives
  <2> QED BY <2>1, <2>2, <2>3, <2>4, <2>5 DEF TextsLive, TextLives, TextStays, tree
<1>2. CASE Reset
  <2>1. /\ pending' = Null /\ flights'.timer = Null /\ flights'.run = Null /\ tab' = Null
        /\ UNCHANGED <<wire, count>> /\ \A k \in DOMAIN wire : ~IsSave(k)
        /\ mark.key = count.key
        /\ repo'.tree = repo.head /\ repo'.index = repo.head /\ repo'.head = repo.head
    BY <1>2, ResetText
  <2>2. void'.text = void.text \union ((1..mark.key) \ {repo.head.text})
    BY <1>2 DEF Reset
  <2>3. TextStays(repo.head.text)
    BY <2>1, <2>2 DEF TextsLive, TextLives, TextStays
  <2> QED BY <2>1, <2>3 DEF TextsLive, TextLives, TextStays, Flights, IsSave, tree
<1> QED BY <1>1, <1>2

LEMMA VoidPastStep ==
  ASSUME TypeOK, ResetAlone, VoidPast, [Next]_vars
  PROVE  VoidPast'
<1>1. CASE Reset
  <2>1. mark.key = count.key /\ mark.change = count.change /\ UNCHANGED count
    BY <1>1, ResetText
  <2>2. void' = [text |-> void.text \union ((1..mark.key) \ {repo.head.text}),
                 prop |-> void.prop \union ((1..mark.change) \ {repo.head.json.prop})]
    BY <1>1 DEF Reset
  <2> QED BY <2>1, <2>2 DEF VoidPast
<1>2. CASE ~Reset
  <2>1. UNCHANGED void BY <1>2, HistoryStep
  <2>2. 1..count.key \subseteq 1..count'.key /\ 1..count.change \subseteq 1..count'.change
    BY CountStep DEF Grown
  <2> QED BY <2>1, <2>2 DEF VoidPast
<1> QED BY <1>1, <1>2

\* What the panel is shown.
LEMMA PanelShown ==
  ASSUME TypeOK, Remembers, [Next]_vars, ~Reset
  PROVE  \/ UNCHANGED panel
         \/ panel' = Null
         \/ OpenPanel
         \/ ChangeProperty
         \/ \E json \in Json : /\ panel' = Shown(json)
                               /\ \/ json.prop = tree.json.prop
                                  \/ memory # Null /\ json.prop = memory.prop
<1>1. CASE User \/ autoSaveAll
  BY <1>1 DEF User, closeProperty, drawLink, onFile, Type, closeTab, saveAllFiles, revertAll,
     emitProjectOperation, makeWritable, autoSaveAll
<1>2. CASE Receive \/ SaveTimer \/ BeginEdit \/ WriteEdit \/ SentinelRuns
           \/ \E w \in DOMAIN flights : EndFlush(w)
  BY <1>2 DEF Receive, ReceiveSave, ReceiveEdit, onProjectOperation, BeginEdit, WriteEdit,
     SentinelRuns, SentinelDone, SaveTimer, EndFlush
<1>3. CASE EndEdit \/ onStopProject
  BY <1>3, TypeRepo DEF EndEdit, onStopProject
<1>4. CASE TakeOperation \/ Validate \/ CommitRun \/ Ask \/ Answer \/ BeginReset
  BY <1>4 DEF TakeOperation, Validate, CommitRun, Ask, Answer, BeginReset
<1>5. CASE onSaveProject
  <2>1. panel' = Shown(repo'.tree.json) BY <1>5 DEF onSaveProject
  <2>2. repo'.tree.json \in Json /\ repo'.tree.json.prop = tree.json.prop
    BY <1>5, SaveProject DEF Agree
  <2> QED BY <2>1, <2>2
<1>6. CASE Prepare \/ PreparationFails \/ StartRun \/ Conclude
  BY <1>6 DEF Prepare, PreparationFails, StartRun, Conclude
<1>7. CASE Progress
  <2>1. panel' = Shown(memory') BY <1>7 DEF Progress
  <2>2. memory' \in Json /\ memory'.prop = memory.prop /\ memory # Null
    BY <1>7, ProgressJson, NullAssumption DEF Agree
  <2> QED BY <2>1, <2>2
<1>8. CASE UNCHANGED vars BY <1>8 DEF vars
<1> QED BY <1>1, <1>2, <1>3, <1>4, <1>5, <1>6, <1>7, <1>8 DEF Next, EditQueue, Operator, Runner

LEMMA JsonLives ==
  ASSUME TypeOK, SentinelLast, Remembers, PropsLive, [Next]_vars, ~Reset
  PROVE  /\ PropLives(repo'.tree.json.prop) /\ PropLives(repo'.index.json.prop)
         /\ PropLives(repo'.head.json.prop)
<1>0. /\ PropLives(tree.json.prop) /\ PropLives(repo.index.json.prop)
      /\ PropLives(repo.head.json.prop) /\ (memory # Null => PropLives(memory.prop))
  BY DEF PropsLive
<1>1. PropLives(repo'.tree.json.prop) /\ PropLives(repo'.index.json.prop)
  <2>1. CASE JsonKept
    <3>1. repo'.tree.json = tree.json /\ repo'.index.json = repo.index.json
      BY <2>1 DEF JsonKept
    <3> QED BY <1>0, <3>1
  <2>2. CASE WriteEdit
    <3>1. /\ editing \in InHand /\ editing # Null /\ repo'.index = repo.index
          /\ repo'.tree.json = Apply(editing.read, editing.edit)
      BY <2>2, WriteEditJson DEF WriteEdit
    <3>2. editing.read \in Json /\ editing.edit \in EditMessage BY <3>1 DEF InHand
    <3>3. repo'.tree.json.prop = IF editing.edit.kind = "update" THEN editing.edit.prop
                                 ELSE editing.read.prop
      BY <3>1, <3>2, ApplyFacts
    <3> QED BY <1>0, <3>1, <3>3 DEF PropsLive
  <2>3. CASE EndEdit
    <3>1. repo'.tree = repo.tree /\ repo'.index.json = tree.json
      BY <2>3, TypeRepo, AddJson DEF EndEdit, tree
    <3>2. repo'.tree.json = tree.json BY <3>1 DEF tree
    <3> QED BY <1>0, <3>1, <3>2
  <2>4. CASE onSaveProject
    <3>1. /\ repo'.tree.json.prop = tree.json.prop
          /\ repo'.index.json = repo.index.json \/ repo'.index.json = repo'.tree.json
      BY <2>4, SaveProject DEF Agree
    <3> QED BY <1>0, <3>1
  <2>5. CASE Progress
    <3>1. /\ repo'.tree.json.prop = memory.prop /\ repo'.index = repo.index /\ memory # Null
      BY <2>5, ProgressJson, NullAssumption DEF Agree
    <3> QED BY <1>0, <3>1
  <2> QED BY <2>1, <2>2, <2>3, <2>4, <2>5, JsonStep
<1>2. PropLives(repo'.head.json.prop)
  <2>1. CASE Answer
    <3>1. repo'.head.json = repo.head.json BY <2>1, AnswerText
    <3> QED BY <1>0, <3>1
  <2>2. CASE onSaveProject
    <3>1. repo'.head = repo.head \/ repo'.head = repo'.index BY <2>2, SaveProject
    <3> QED BY <1>0, <1>1, <3>1
  <2>3. CASE CommitRun /\ repo'.head = repo.index BY <1>0, <2>3
  <2>4. CASE repo'.head = repo.head BY <1>0, <2>4
  <2> QED BY <2>1, <2>2, <2>3, <2>4, HeadStep
<1> QED BY <1>1, <1>2

LEMMA WireLives ==
  ASSUME TypeOK, PropsLive, [Next]_vars, NEW k \in DOMAIN wire', wire'[k].kind = "update"
  PROVE  PropLives(wire'[k].prop)
<1>0. /\ \A j \in DOMAIN wire : wire[j].kind = "update" => PropLives(wire[j].prop)
      /\ panel # Null => PropLives(panel.copied.prop)
  BY DEF PropsLive
<1>1. CASE UNCHANGED wire BY <1>0, <1>1
<1>2. CASE wire # <<>> /\ wire' = Tail(wire)
  <2>1. k + 1 \in DOMAIN wire /\ wire'[k] = wire[k + 1] BY <1>2, WireTail
  <2> QED BY <1>0, <2>1
<1>3. ASSUME NEW m \in Message, wire' = Append(wire, m), Cause(m)
      PROVE  PropLives(wire'[k].prop)
  <2>1. CASE k \in DOMAIN wire BY <1>0, <1>3, <2>1, WireAppend
  <2>2. CASE k \notin DOMAIN wire
    <3>1. wire'[k] = m BY <1>3, <2>2, WireAppend
    <3>2. m = Update(panel) /\ panel # Null BY <1>3, <3>1 DEF Cause
    <3>3. wire'[k].prop = panel.copied.prop BY <3>1, <3>2 DEF Update
    <3> QED BY <1>0, <3>2, <3>3
  <2> QED BY <2>1, <2>2
<1>4. CASE RunWithEdits
  <2>1. CASE k \in DOMAIN wire BY <1>0, <1>4, <2>1, WireTwice
  <2>2. CASE k = Len(wire) + 1
    <3>1. wire'[k].prop = panel.copied.prop /\ panel # Null
      BY <1>4, <2>2, WireTwice DEF RunWithEdits
    <3> QED BY <1>0, <3>1
  <2>3. k # Len(wire) + 2 BY <1>4, WireTwice DEF OpMessage
  <2> QED BY <1>4, <2>1, <2>2, <2>3, WireTwice
<1> QED BY <1>1, <1>2, <1>3, <1>4, WireStep

LEMMA QueueLives ==
  ASSUME TypeOK, SentinelLast, PropsLive, [Next]_vars, NEW k \in DOMAIN queue', IsUpdate(k)'
  PROVE  PropLives(queue'[k].prop)
<1>0. /\ \A j \in DOMAIN queue : IsUpdate(j) => PropLives(queue[j].prop)
      /\ \A j \in DOMAIN wire : wire[j].kind = "update" => PropLives(wire[j].prop)
  BY DEF PropsLive
<1>1. CASE UNCHANGED queue BY <1>0, <1>1 DEF IsUpdate
<1>2. CASE ReceiveEdit /\ Head(wire) \in EditMessage /\ queue' = Append(queue, Head(wire))
           /\ 1 \in DOMAIN wire /\ wire[1] = Head(wire)
  <2>1. /\ \A j \in DOMAIN queue : queue'[j] = queue[j]
        /\ \A j \in DOMAIN queue' : j \in DOMAIN queue \/ queue'[j] = wire[1]
    BY <1>2, AppendFacts DEF TypeOK
  <2> QED BY <1>0, <1>2, <2>1 DEF IsUpdate
<1>3. CASE queue' = Append(queue, Sentinel)
  <2>1. /\ \A j \in DOMAIN queue : queue'[j] = queue[j]
        /\ \A j \in DOMAIN queue' : j \in DOMAIN queue \/ queue'[j] = Sentinel
    BY <1>3, AppendFacts DEF TypeOK
  <2> QED BY <1>0, <2>1, SentinelFacts DEF IsUpdate
<1>4. CASE queue # <<>> /\ queue' = Tail(queue)
  <2>1. k + 1 \in DOMAIN queue /\ queue'[k] = queue[k + 1] BY <1>4, TailFacts DEF TypeOK
  <2> QED BY <1>0, <2>1 DEF IsUpdate
<1>5. CASE queue' = <<>> BY <1>5
<1> QED BY <1>1, <1>2, <1>3, <1>4, <1>5, QueueStep

LEMMA EditingLives ==
  ASSUME TypeOK, PropsLive, [Next]_vars, editing' # Null
  PROVE  PropLives(editing'.read.prop)
         /\ (editing'.edit.kind = "update" => PropLives(editing'.edit.prop))
<1>0. editing # Null => PropLives(editing.read.prop)
                        /\ (editing.edit.kind = "update" => PropLives(editing.edit.prop))
  BY DEF PropsLive
<1>1. CASE UNCHANGED editing BY <1>0, <1>1
<1>2. CASE BeginEdit
  <2>1. editing'.read = tree.json /\ editing'.edit = Head(queue) BY <1>2, BeginEditJson
  <2>2. 1 \in DOMAIN queue /\ Head(queue) = queue[1] BY <1>2, TailFacts DEF BeginEdit, TypeOK
  <2> QED BY <2>1, <2>2 DEF PropsLive, IsUpdate
<1>3. CASE WriteEdit /\ editing # Null
  <2>1. editing'.read = editing.read /\ editing'.edit = editing.edit BY <1>3, WriteEditJson
  <2> QED BY <1>0, <1>3, <2>1
<1> QED BY <1>1, <1>2, <1>3, EditingStep

LEMMA MemoryLives ==
  ASSUME TypeOK, Remembers, PropsLive, [Next]_vars, memory' # Null
  PROVE  PropLives(memory'.prop)
<1>0. PropLives(tree.json.prop) /\ (memory # Null => PropLives(memory.prop)) BY DEF PropsLive
<1>1. CASE UNCHANGED memory BY <1>0, <1>1
<1>2. CASE memory' = tree.json BY <1>0, <1>2
<1>3. CASE Progress
  <2>1. memory # Null /\ memory'.prop = memory.prop
    BY <1>3, ProgressJson, NullAssumption DEF Agree
  <2> QED BY <1>0, <2>1
<1> QED BY <1>1, <1>2, <1>3, RunnerStep

LEMMA PanelLives ==
  ASSUME ~Careless, TypeOK, Remembers, VoidPast, PropsLive, [Next]_vars, ~Reset, panel' # Null
  PROVE  PropStays(panel'.selected.prop) /\ PropStays(panel'.copied.prop)
<1>0. /\ \A prop \in Nat : PropLives(prop) => PropStays(prop)
      /\ PropStays(tree.json.prop) /\ tree.json \in Json
  BY LivesOn, TypeRepo, JsonFacts DEF PropsLive
<1>1. panel # Null =>
        /\ panel \in Panel /\ panel.selected \in Json /\ panel.copied \in Json
        /\ PropStays(panel.selected.prop) /\ PropStays(panel.copied.prop)
  BY <1>0, PanelFacts, JsonFacts DEF PropsLive, TypeOK
<1>2. CASE UNCHANGED panel BY <1>1, <1>2
<1>3. CASE OpenPanel
  <2>1. panel'.selected = tree.json /\ panel'.copied = tree.json BY <1>3 DEF OpenPanel
  <2> QED BY <1>0, <2>1
<1>4. CASE ChangeProperty
  <2>1. panel # Null /\ panel' = [panel EXCEPT !.copied.prop = count.change + 1]
    BY <1>4 DEF ChangeProperty
  <2>2. PICK prop \in Nat : prop = count.change + 1 BY CountStep DEF Grown
  <2>3. panel' = [panel EXCEPT !.copied.prop = prop] BY <2>1, <2>2
  <2>4. panel \in Panel /\ panel.copied \in Json BY <1>1, <2>1
  <2>5. panel'.selected = panel.selected /\ panel'.copied.prop = prop
    BY <2>3, <2>4 DEF Panel, Json
  <2>6. count'.change = prop /\ UNCHANGED void
    BY <1>4, <2>2, CountFacts DEF ChangeProperty, TypeOK
  <2>7. prop \notin void.prop
    <3>1. prop \notin 1..count.change BY <2>2, CountStep DEF Grown
    <3> QED BY <3>1 DEF VoidPast
  <2>8. prop <= prop BY <2>2
  <2> QED BY <1>1, <2>1, <2>5, <2>6, <2>7, <2>8 DEF PropStays
<1>5. ASSUME NEW json \in Json, panel' = Shown(json),
             json.prop = tree.json.prop \/ (memory # Null /\ json.prop = memory.prop)
      PROVE  PropStays(panel'.selected.prop) /\ PropStays(panel'.copied.prop)
  <2>1. /\ panel # Null /\ panel'.selected = json
        /\ panel'.copied = json \/ panel'.copied = panel.copied
    BY <1>5, ShownFacts DEF TypeOK
  <2>2. PropStays(json.prop)
    <3>1. memory # Null => PropStays(memory.prop)
      BY <1>0, JsonFacts DEF PropsLive, TypeOK
    <3> QED BY <1>0, <1>5, <3>1
  <2> QED BY <1>1, <2>1, <2>2
<1> QED BY <1>2, <1>3, <1>4, <1>5, PanelShown

LEMMA PropsLiveStep ==
  ASSUME ~Careless, TypeOK, TypeOK', SentinelLast, Remembers, ResetAlone, Untouched, Emptied,
         VoidPast, PropsLive, [Next]_vars
  PROVE  PropsLive'
<1>1. CASE ~Reset
  <2>0. \A prop \in Nat : PropLives(prop) => PropStays(prop) BY <1>1, LivesOn
  <2>1. /\ PropStays(repo'.tree.json.prop) /\ PropStays(repo'.index.json.prop)
        /\ PropStays(repo'.head.json.prop)
    <3>1. /\ repo'.tree.json \in Json /\ repo'.index.json \in Json /\ repo'.head.json \in Json
      BY DEF TypeOK, Files
    <3> QED BY <1>1, <2>0, <3>1, JsonLives, JsonFacts
  <2>2. \A k \in DOMAIN wire' : wire'[k].kind = "update" => PropStays(wire'[k].prop)
    <3>1. \A k \in DOMAIN wire' : wire'[k] \in Message BY DEF TypeOK
    <3> QED BY <2>0, <3>1, MessageFacts, WireLives
  <2>3. \A k \in DOMAIN queue' : IsUpdate(k)' => PropStays(queue'[k].prop)
    <3>1. \A k \in DOMAIN queue' : queue'[k] \in EditMessage \union {Sentinel} BY DEF TypeOK
    <3>2. \A k \in DOMAIN queue' : IsUpdate(k)' => queue'[k].prop \in Nat
      BY <3>1, SentinelFacts, MessageFacts DEF IsUpdate
    <3> QED BY <2>0, <3>2, QueueLives
  <2>4. editing' # Null =>
          PropStays(editing'.read.prop)
          /\ (editing'.edit.kind = "update" => PropStays(editing'.edit.prop))
    <3>1. editing' # Null => editing'.read \in Json /\ editing'.edit \in EditMessage
      BY DEF TypeOK, InHand
    <3> QED BY <2>0, <3>1, EditingLives, JsonFacts, MessageFacts
  <2>5. panel' # Null => PropStays(panel'.selected.prop) /\ PropStays(panel'.copied.prop)
    BY <1>1, PanelLives
  <2>6. memory' # Null => PropStays(memory'.prop)
    <3>1. memory' # Null => memory' \in Json BY DEF TypeOK
    <3> QED BY <2>0, <3>1, MemoryLives, JsonFacts
  <2> QED BY <2>1, <2>2, <2>3, <2>4, <2>5, <2>6 DEF PropsLive, PropLives, PropStays, tree
<1>2. CASE Reset
  <2>1. /\ mark.change = count.change /\ UNCHANGED <<wire, count>>
        /\ repo'.tree = repo.head /\ repo'.index = repo.head /\ repo'.head = repo.head
    BY <1>2, ResetText
  <2>2. queue' = <<>> /\ editing' = Null /\ memory' = Null
    BY <1>2, ResetFinds DEF Reset
  <2>3. op # Null /\ op.name \in Resetting
    BY <1>2, OpFacts DEF Reset, TypeOK
  <2>4. Busy /\ Taken BY <2>3 DEF Busy, Taken, Received, Sent, Blocking
  <2>5. \A k \in DOMAIN wire : ~IsEdit(k) BY <2>4 DEF Untouched
  <2>6. panel' # Null => panel'.selected = repo.head.json /\ panel'.copied = repo.head.json
    <3>1. panel' = Shown(repo.head.json) BY <1>2 DEF Reset
    <3>2. panel # Null => ~hasEdits(panel) BY <2>4 DEF Untouched
    <3> QED BY <3>1, <3>2, ShownFacts, TypeRepo DEF TypeOK
  <2>7. void'.prop = void.prop \union ((1..mark.change) \ {repo.head.json.prop})
    BY <1>2 DEF Reset
  <2>8. PropStays(repo.head.json.prop)
    BY <2>1, <2>7 DEF PropsLive, PropLives, PropStays
  <2>9. \A k \in DOMAIN wire' : wire'[k].kind # "update"
    BY <2>1, <2>5 DEF IsEdit
  <2>10. \A k \in DOMAIN queue' : FALSE BY <2>2
  <2> QED BY <2>1, <2>2, <2>6, <2>8, <2>9, <2>10 DEF PropsLive, PropLives, PropStays, tree
<1> QED BY <1>1, <1>2

-----------------------------------------------------------------------------
(* The theorems.                                                           *)

LEMMA SessionInit ==
  ASSUME Init
  PROVE  SessionInv
<1> DEFINE json == [prop |-> 0, link |-> FALSE, done |-> FALSE]
           files == [text |-> 0, json |-> json,
                     project |-> [state |-> "not-started", readOnly |-> FALSE]]
<1>1. repo = [tree |-> files, index |-> files, head |-> files] BY DEF Init, newRepository
<1>2. json \in Json BY DEF Json
<1>3. files \in Files BY <1>2 DEF Files, ProjectStates
<1>4. tree = files /\ repo.index = files /\ repo.head = files BY <1>1 DEF tree
<1>5. files.text = 0 /\ files.json = json OBVIOUS
<1>6. asked = json
  <2>1. asked = tree.json BY DEF Init
  <2> QED BY <1>4, <1>5, <2>1
<1>7. TypeOK
  <2>1. repo \in [tree : Files, index : Files, head : Files] BY <1>1, <1>3
  <2>3. seen \in [state : ProjectStates, readOnly : BOOLEAN] BY DEF Init, ProjectStates
  <2>4. count \in Counts BY DEF Init, Counts
  <2>5. void \in [text : SUBSET Nat, prop : SUBSET Nat] BY DEF Init
  <2>6. flights \in [timer : Flushing \union {Null}, run : Flushing \union {Null}]
    BY DEF Init, NoFlight
  <2> QED BY <1>2, <1>6, <2>1, <2>3, <2>4, <2>5, <2>6 DEF Init, TypeOK
<1>8. tree.text = 0 /\ repo.index.text = 0 /\ repo.head.text = 0
      /\ tree.json = json /\ repo.index.json = json /\ repo.head.json = json /\ asked = json
  BY <1>4, <1>5, <1>6
<1>9. queue = <<>> /\ wire = <<>> /\ ops = <<>> /\ op = Null /\ runner = "idle"
      /\ editing = Null /\ memory = Null /\ panel = Null /\ tab = Null /\ pending = Null
      /\ flights.timer = Null /\ flights.run = Null
      /\ void = [text |-> {}, prop |-> {}] /\ meant = 0
      /\ count.key = 0 /\ count.change = 0
  BY DEF Init, NoFlight
<1>10. Orders
  BY <1>9 DEF Orders, Untouched, RunsLast, ResetAlone, Emptied, Busy, Taken, Sent, Received,
     Asks, IsEdit, Doing
<1>11. Edited
  <2>1. json.prop = 0 /\ json.link = FALSE OBVIOUS
  <2>2. Answered
    BY <1>8, <1>9, <2>1 DEF Answered, PropAnswered, LinkAnswered, Editing, IsUpdate
  <2>3. Current BY <1>8, <1>9 DEF Current, Agree, Editing
  <2> QED BY <1>9, <2>2, <2>3 DEF Edited, SentinelLast, Remembers, Prepared, NoEdits, Doing
<1>12. Saves
  BY <1>8, <1>9 DEF Saves, TextKept, Latest, Flushed, TextsTaken, Flights, Doing
<1>13. Lives
  BY <1>8, <1>9 DEF Lives, TextsLive, TextLives, PropsLive, PropLives, VoidPast, Flights
<1> QED BY <1>7, <1>10, <1>11, <1>12, <1>13 DEF SessionInv

LEMMA SessionStep ==
  ASSUME ~Careless, SessionInv, [Next]_vars
  PROVE  SessionInv'
<1>0. /\ TypeOK /\ Untouched /\ RunsLast /\ ResetAlone /\ Emptied
      /\ SentinelLast /\ Remembers /\ Prepared /\ Current /\ Answered
      /\ TextKept /\ Flushed /\ TextsTaken /\ TextsLive /\ PropsLive /\ VoidPast
  BY DEF SessionInv, Orders, Edited, Saves, Lives
<1>1. TypeOK' BY <1>0, TypeStep
<1>2. Orders'
  BY <1>0, UntouchedStep, RunsLastStep, ResetAloneStep, EmptiedStep DEF Orders
<1>3. Edited'
  BY <1>0, SentinelLastStep, RemembersStep, PreparedStep, CurrentStep, AnsweredStep DEF Edited
<1>4. Saves' BY <1>0, <1>1, TextKeptStep, FlushedStep, TextsTakenStep DEF Saves
<1>5. Lives' BY <1>0, <1>1, TextsLiveStep, PropsLiveStep, VoidPastStep DEF Lives
<1> QED BY <1>1, <1>2, <1>3, <1>4, <1>5 DEF SessionInv

(* Everything keeps to its kind, whatever the user, the queues, the timers *)
(* and a run do beside one another: an operation in hand is always at one  *)
(* of its own places (projectOperator), and a reset knows when it was      *)
(* asked for.                                                              *)
THEOREM TypeCorrect ==
  ASSUME ~Careless
  PROVE  FairSpec => []TypeOK
<1>1. Init => SessionInv BY SessionInit
<1>2. SessionInv /\ [Next]_vars => SessionInv' BY SessionStep
<1>3. SessionInv => TypeOK BY DEF SessionInv
<1> QED BY <1>1, <1>2, <1>3, PTL DEF FairSpec

(* How edits, saves, runs and resets stay out of one another's way: the    *)
(* order in which they were asked for is kept on the connection and in the *)
(* queues of the server; what a run takes is what was asked of the edits   *)
(* and received of the saves; the last save that is under way holds what   *)
(* the user sees; and no place that is written from holds what was reset.  *)
THEOREM SessionInvariant ==
  ASSUME ~Careless
  PROVE  FairSpec => []SessionInv
<1>1. Init => SessionInv BY SessionInit
<1>2. SessionInv /\ [Next]_vars => SessionInv' BY SessionStep
<1> QED BY <1>1, <1>2, PTL DEF FairSpec

(* What a clean or a revert has reset never comes back, although edits and *)
(* saves were waiting for their turn when the user asked for it            *)
(* (clearProjectEdits, gitResetHEAD).                                      *)
THEOREM ResetForgets ==
  ASSUME ~Careless
  PROVE  FairSpec => []CleanForgets
<1>1. SessionInv => CleanForgets
  BY DEF SessionInv, Lives, TextsLive, PropsLive, TextLives, PropLives, CleanForgets
<1> QED BY <1>1, SessionInvariant, PTL

(* Once the connection and the timers are quiet, the file and the index    *)
(* hold the text as the user left it, however often the save was put off   *)
(* and whoever flushed it (onSaveFile, flushPendingSave).                  *)
THEOREM TextSaved ==
  ASSUME ~Careless
  PROVE  FairSpec => []Saved
<1>1. SessionInv => Saved
  <2> SUFFICES ASSUME SessionInv, wire = <<>>, Settled, tab # Null => ~tab.timer
               PROVE  tree.text = meant /\ repo.index.text = meant
    BY DEF Saved
  <2>1. pending = Null BY DEF Settled
  <2>2. Latest(meant) BY DEF SessionInv, Saves, TextKept
  <2>3. tree.text = meant BY <2>1, <2>2 DEF Latest
  <2>4. repo.index.text = tree.text BY <2>1 DEF SessionInv, Saves, Flushed
  <2> QED BY <2>3, <2>4
<1> QED BY <1>1, SessionInvariant, PTL

LEMMA CommitTakesAll ==
  ASSUME SessionInv, [Next]_vars, runner = "idle", runner' = "accepted"
  PROVE  /\ repo'.head.json.prop = due.prop /\ repo'.head.json.link = due.link
         /\ repo'.head.json.prop \notin Invalid
         /\ repo'.head.text \in due.texts
<1>0. TypeOK /\ Prepared /\ Current /\ Answered /\ Flushed /\ TextsTaken
  BY DEF SessionInv, Edited, Saves
<1>1. CommitRun BY <1>0, RunnerStep
<1>2. Doing("runProject") /\ op.at = "commit" BY <1>0, <1>1, CommitOfRun DEF CommitRun
<1>3. repo'.head = repo.index BY <1>0, <1>1, TypeRepo, Commit DEF CommitRun
<1>4. /\ due # Null /\ due.prop = asked.prop /\ due.link = asked.link /\ NoEdits
      /\ tree.json.prop \notin Invalid
  BY <1>0, <1>2 DEF Prepared
<1>5. PropAnswered /\ LinkAnswered BY <1>0, <1>2 DEF Answered, Doing
<1>6. tree.json.prop = asked.prop
  BY <1>4, <1>5 DEF PropAnswered, NoEdits, Editing
<1>7. tree.json.link = asked.link
  <2>1. asked.link <=> tree.json.link BY <1>4, <1>5 DEF LinkAnswered, NoEdits, Editing
  <2>2. asked.link \in BOOLEAN /\ tree.json.link \in BOOLEAN
    BY <1>0, TypeRepo, JsonFacts DEF TypeOK
  <2> QED BY <2>1, <2>2
<1>8. Agree(repo.index.json, tree.json) BY <1>0, <1>4 DEF Current, NoEdits
<1>9. repo.index.text \in due.texts
  <2>1. flights.run = Null BY <1>0, <1>2 DEF Flushed
  <2> QED BY <1>0, <1>2, <2>1 DEF TextsTaken
<1> QED BY <1>3, <1>4, <1>6, <1>7, <1>8, <1>9 DEF Agree

(* Every edit that the server had received when it took up a run is in the *)
(* commit the run starts from, the last text of the file too, and nothing  *)
(* that fails validation is run (stopProjectEdits, validateComponents,     *)
(* gitCommit).                                                             *)
THEOREM RunStartsFromAll ==
  ASSUME ~Careless
  PROVE  FairSpec => RunTakesAll
<1>1. SessionInv /\ [Next]_vars =>
        [(runner = "idle" /\ runner' = "accepted") =>
           /\ repo'.head.json.prop = due.prop /\ repo'.head.json.link = due.link
           /\ repo'.head.json.prop \notin Invalid
           /\ repo'.head.text \in due.texts]_vars
  BY CommitTakesAll
<1>2. Init => SessionInv BY SessionInit
<1>3. SessionInv /\ [Next]_vars => SessionInv' BY SessionStep
<1> QED BY <1>1, <1>2, <1>3, PTL DEF FairSpec, RunTakesAll

=============================================================================
