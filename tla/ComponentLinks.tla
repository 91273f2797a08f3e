--------------------------- MODULE ComponentLinks ---------------------------
(***************************************************************************)
(* The component files of a project and the edits of its user:             *)
(* core/componentLinks.js, core/componentFiles.js, the parts of            *)
(* core/componentOperations.js and core/updateComponent.js that touch      *)
(* links.  Every link is recorded at both of its ends, each in the file of *)
(* its component: next and else there, previous here; the dst of an        *)
(* outputFile there, the src of an inputFile here.  A link between a       *)
(* component and a child is src or dst in the child, forwardTo or origin   *)
(* in the parent.                                                          *)
(*                                                                         *)
(* The edits of a project are done one after the other                     *)
(* (handlers/workflowEditor.js), so an edit is one action.  Where it       *)
(* rewrites a file several times at once, the action has every outcome of  *)
(* that race; where it throws, what it has written by then stays.          *)
(***************************************************************************)
EXTENDS Integers, FiniteSets, Functions

CONSTANTS
  ID,          \* IDs of components
  Root,        \* the one of the root workflow
  Name,        \* names of files
  Creatable,   \* types of components the user creates
  InitialJson, \* component files at the beginning
  MaxEdits,    \* bound: edits
  MaxFiles,    \* bound: inputFiles or outputFiles of a component
  Careless     \* does the user make the edits that break links?

Types == {"workflow", "task", "if", "source", "viewer"}
UploadOnDemand == "UPLOAD_ONDEMAND"

ASSUME RootAssumption == Root \in DOMAIN InitialJson /\ DOMAIN InitialJson \subseteq ID
ASSUME TypeAssumption == Creatable \subseteq Types
ASSUME BoundAssumption == {MaxEdits, MaxFiles} \subseteq Nat /\ Careless \in BOOLEAN

VARIABLES
  json,  \* the component files, by ID: the domain is componentPath
  place, \* place[c]: the component whose directory holds the one of c
  edits  \* edits made, for the bound only

vars == <<json, place, edits>>

None == "none"
Links == [name : Name \union {UploadOnDemand}, node : ID, file : Name \union {UploadOnDemand}]
Json == [type : Types, parent : ID \union {None},
         next : SUBSET ID, else : SUBSET ID, previous : SUBSET ID,
         inputFiles : SUBSET (Name \union {UploadOnDemand}),
         outputFiles : SUBSET (Name \union {UploadOnDemand}),
         src : SUBSET Links, dst : SUBSET Links,
         forwardTo : SUBSET Links, origin : SUBSET Links]

\* A componentPath and the files agree on which components there are.
TypeOK ==
  /\ DOMAIN json \subseteq ID /\ DOMAIN place = DOMAIN json
  /\ \A c \in DOMAIN json : json[c] \in Json
  /\ edits \in 0..MaxEdits
  /\ \A c \in DOMAIN json \ {Root} : place[c] \in DOMAIN json

Component == DOMAIN json
L(n, c, f) == [name |-> n, node |-> c, file |-> f]

\* componentFactory(), without what the type adds that has no links
New(t, p) ==
  [type |-> t, parent |-> p, next |-> {}, else |-> {}, previous |-> {},
   inputFiles |-> {}, outputFiles |-> IF t = "source" THEN {UploadOnDemand} ELSE {},
   src |-> {}, dst |-> {}, forwardTo |-> {}, origin |-> {}]

Init ==
  /\ json = InitialJson
  /\ place = [c \in DOMAIN InitialJson |-> InitialJson[c].parent]
  /\ edits = 0

\* The components whose directories are in the one of c: the least set that holds
\* c and every component whose directory is in the one of a component it holds.
getDescendantsIDs(c) ==
  {d \in Component : \A D \in SUBSET Component :
     c \in D /\ {e \in Component \ {Root} : place[e] \in D} \subseteq D => d \in D}

\* The components c names as the other end of a link without being its child.
Counterparts(c) ==
  json[c].previous \union json[c].next \union json[c].else
  \union {l.node : l \in json[c].src} \union {l.node : l \in json[c].dst}

-----------------------------------------------------------------------------
(* Links.                                                                  *)

\* The client draws links between components of one workflow.
Siblings(s, d) == s # d /\ {s, d} \subseteq Component \ {Root} /\ place[s] = place[d]
HasLinks(c) == json[c].type \notin {"viewer", "source"}

\* mutant: the whole list goes
Mut_Without(list, c) == {}

Without(list, c) == list \ {c}

\* An else link that is there already becomes a next link too.
addLink(s, d, isElse) ==
  /\ Siblings(s, d) /\ HasLinks(s) /\ HasLinks(d)
  /\ isElse => json[s].type = "if"
  /\ Careless \/ (d \notin json[s].next \union json[s].else /\ s \notin json[d].next \union json[d].else)
  /\ json' = IF isElse /\ d \notin json[s].else
             THEN [json EXCEPT ![s].else = @ \union {d}, ![d].previous = @ \union {s}]
             ELSE [json EXCEPT ![s].next = @ \union {d}, ![d].previous = @ \union {s}]
  /\ UNCHANGED place

\* previous is dropped even if a link of the other kind remains.
removeLink(s, d, isElse) ==
  /\ {s, d} \subseteq Component /\ d \in IF isElse THEN json[s].else ELSE json[s].next
  /\ json' = IF isElse
             THEN [json EXCEPT ![s].else = Without(@, d), ![d].previous = Without(@, s)]
             ELSE [json EXCEPT ![s].next = Without(@, d), ![d].previous = Without(@, s)]
  /\ UNCHANGED place

\* A component before and after c is read and written twice, and the second
\* write may carry what the first one has removed.  Nothing is written to the
\* file of c itself when a counterpart is missing; those before it are cleared.
removeAllLink(c) ==
  LET before == json[c].previous
      after == json[c].next \union json[c].else
  IN  /\ c \in Component /\ before \union after # {}
      /\ \E asSource \in SUBSET (before \intersect Component),
            asTarget \in SUBSET (after \intersect Component) :
           LET complete == before \union after \subseteq Component IN
           /\ complete => asSource \union asTarget = before \union after
                          /\ before \ after \subseteq asSource /\ after \ before \subseteq asTarget
           /\ json' = [d \in Component |->
                CASE d = c /\ complete ->
                       [json[c] EXCEPT !.previous = {}, !.next = {}, !.else = {}]
                  [] OTHER ->
                       [json[d] EXCEPT !.next = IF d \in asSource THEN Without(@, c) ELSE @,
                                       !.else = IF d \in asSource THEN Without(@, c) ELSE @,
                                       !.previous = IF d \in asTarget THEN Without(@, c) ELSE @]]
      /\ UNCHANGED place

-----------------------------------------------------------------------------
(* Links of files.  A link goes from an outputFile to the inputFile of a   *)
(* sibling or to an outputFile of the parent, or from an inputFile of the  *)
(* parent to the inputFile of a child.                                     *)

addFileLinkBetweenSiblings(s, o, d, i) ==
  json' = [json EXCEPT ![s].dst = @ \union {L(o, d, i)},
                       ![d].src = @ \union {L(i, s, o)}, ![d].inputFiles = @ \union {i}]

addFileLinkToParent(s, o, p, i) ==
  json' = [json EXCEPT ![s].dst = @ \union {L(o, p, i)}, ![p].origin = @ \union {L(i, s, o)}]

addFileLinkFromParent(p, o, d, i) ==
  json' = [json EXCEPT ![p].forwardTo = @ \union {L(o, d, i)},
                       ![d].src = @ \union {L(i, p, o)}, ![d].inputFiles = @ \union {i}]

addFileLink(s, o, d, i) ==
  /\ s # d /\ {s, d} \subseteq Component
  /\ CASE json[s].parent = d ->
            o \in json[s].outputFiles /\ i \in json[d].outputFiles /\ addFileLinkToParent(s, o, d, i)
       [] json[d].parent = s ->
            o \in json[s].inputFiles /\ i \in json[d].inputFiles /\ addFileLinkFromParent(s, o, d, i)
       [] OTHER ->
            /\ Siblings(s, d) /\ o \in json[s].outputFiles /\ i \in json[d].inputFiles
            /\ addFileLinkBetweenSiblings(s, o, d, i)
  /\ UNCHANGED place

\* What d records of the links of c in which c has the names of links.
AtOtherEnd(c, links, d) == {L(l.file, c, l.name) : l \in {m \in links : m.node = d}}

removeFileLinkBetweenSiblings(entries, c, links, d) == entries \ AtOtherEnd(c, links, d)

\* The files after the removal of links, which c records as src.
WithoutSources(c, links) ==
  [d \in Component |->
     IF d = c THEN [json[c] EXCEPT !.src = @ \ links]
     ELSE IF d = json[c].parent THEN [json[d] EXCEPT !.forwardTo = @ \ AtOtherEnd(c, links, d)]
     ELSE [json[d] EXCEPT !.dst = removeFileLinkBetweenSiblings(@, c, links, d)]]

\* The files after the removal of links, which c records as dst.
WithoutTargets(c, links) ==
  [d \in Component |->
     IF d = c THEN [json[c] EXCEPT !.dst = @ \ links]
     ELSE IF d = json[c].parent THEN [json[d] EXCEPT !.origin = @ \ AtOtherEnd(c, links, d)]
     ELSE [json[d] EXCEPT !.src = removeFileLinkBetweenSiblings(@, c, links, d)]]

removeFileLink(c, l) ==
  /\ c \in Component /\ l \in json[c].src /\ l.node \in Component
  /\ json' = WithoutSources(c, {l})
  /\ UNCHANGED place

\* The links l of which a nonempty part is gone when each is removed by a
\* read and a write of the same file at the same time.
LostUpdates(links) == (SUBSET links) \ {{}}

\* The links of an inputFile are all taken for links between siblings, and are
\* removed at the same time.  A link from the parent throws, unless the parent
\* happens to have an outputFile of that name, which has no such link.
removeAllFileLink(c, i) ==
  LET links == {l \in json[c].src : l.name = i}
      good == {l \in links : l.node \in Component /\ l.file \in json[l.node].outputFiles}
  IN  /\ links # {}
      /\ Careless \/ \E l \in links : links = {l} /\ l.node # json[c].parent
      /\ IF good = {} THEN UNCHANGED json ELSE
         \E here \in LostUpdates(good), there \in LostUpdates(good) :
           /\ {l.node : l \in there} = {l.node : l \in good}
           /\ json' = [d \in Component |->
                [json[d] EXCEPT !.src = IF d = c THEN @ \ here ELSE @,
                                !.dst = @ \ {L(l.file, c, l.name) : l \in {m \in there : m.node = d}}]]
      /\ UNCHANGED place

\* The links of children to an outputFile of c, removed at the same time.
removeAllFileLinkFromChildren(c, o) ==
  LET links == {l \in json[c].origin : l.name = o}
      good == {l \in links : l.node \in Component /\ l.file \in json[l.node].outputFiles}
  IN  /\ links # {}
      /\ Careless \/ \E l \in links : links = {l}
      /\ IF good = {} THEN UNCHANGED json ELSE
         \E here \in LostUpdates(good), there \in LostUpdates(good) :
           /\ {l.node : l \in there} = {l.node : l \in good}
           /\ json' = [d \in Component |->
                [json[d] EXCEPT !.origin = IF d = c THEN @ \ here ELSE @,
                                !.dst = @ \ {L(l.file, c, l.name) : l \in {m \in there : m.node = d}}]]
      /\ UNCHANGED place

-----------------------------------------------------------------------------
(* Files of a component.  The client refuses a name the component has.     *)

addInputFile(c, n) ==
  /\ c # Root /\ n \notin json[c].inputFiles /\ Cardinality(json[c].inputFiles) < MaxFiles
  /\ json' = [json EXCEPT ![c].inputFiles = @ \union {n}]
  /\ UNCHANGED place

addOutputFile(c, n) ==
  /\ c # Root /\ n \notin json[c].outputFiles /\ Cardinality(json[c].outputFiles) < MaxFiles
  /\ json' = [json EXCEPT ![c].outputFiles = @ \union {n}]
  /\ UNCHANGED place

\* The links are removed one after the other.  The children an inputFile is
\* forwarded to are not told.
removeInputFile(c, n) ==
  LET links == {l \in json[c].src : l.name = n}
  IN  /\ n \in json[c].inputFiles /\ {l.node : l \in links} \subseteq Component
      /\ Careless \/ {l \in json[c].forwardTo : l.name = n} = {}
      /\ json' = [WithoutSources(c, links) EXCEPT ![c].inputFiles = @ \ {n},
                               ![c].forwardTo = {l \in @ : l.name # n}]
      /\ UNCHANGED place

removeOutputFile(c, n) ==
  LET links == {l \in json[c].dst : l.name = n}
  IN  /\ n \in json[c].outputFiles /\ {l.node : l \in links} \subseteq Component
      /\ Careless \/ {l \in json[c].origin : l.name = n} = {}
      /\ json' = [WithoutTargets(c, links) EXCEPT ![c].outputFiles = @ \ {n},
                               ![c].origin = {l \in @ : l.name # n}]
      /\ UNCHANGED place

Renamed(names, old, new) == (names \ {old}) \union {new}
OwnRenamed(links, old, new) == {IF l.name = old THEN [l EXCEPT !.name = new] ELSE l : l \in links}
OtherRenamed(links, c, old, new) ==
  {IF l.node = c /\ l.file = old THEN [l EXCEPT !.file = new] ELSE l : l \in links}

\* mutant: the outputFiles linked to this one keep its old name
Mut_renameInputFile(c, old, new) ==
  /\ old \in json[c].inputFiles /\ new \notin json[c].inputFiles
  /\ {l.node : l \in {m \in json[c].src : m.name = old}} \subseteq Component
  /\ Careless \/ {l \in json[c].forwardTo : l.name = old} = {}
  /\ json' = [json EXCEPT ![c].inputFiles = Renamed(@, old, new), ![c].src = OwnRenamed(@, old, new)]
  /\ UNCHANGED place

\* The sources of the file are told its new name, the children it is forwarded
\* to are not.
renameInputFile(c, old, new) ==
  LET sources == {l.node : l \in {m \in json[c].src : m.name = old}}
  IN  /\ old \in json[c].inputFiles /\ new \notin json[c].inputFiles /\ sources \subseteq Component
      /\ Careless \/ {l \in json[c].forwardTo : l.name = old} = {}
      /\ json' = [d \in Component |->
           IF d = c
           THEN [json[c] EXCEPT !.inputFiles = Renamed(@, old, new), !.src = OwnRenamed(@, old, new),
                                !.forwardTo = OwnRenamed(@, old, new)]
           ELSE IF d \in sources
           THEN [json[d] EXCEPT !.dst = OtherRenamed(@, c, old, new),
                                !.forwardTo = OtherRenamed(@, c, old, new)]
           ELSE json[d]]
      /\ UNCHANGED place

\* The same for an outputFile and the children it comes from.
renameOutputFile(c, old, new) ==
  LET targets == {l.node : l \in {m \in json[c].dst : m.name = old}}
  IN  /\ old \in json[c].outputFiles /\ new \notin json[c].outputFiles /\ targets \subseteq Component
      /\ Careless \/ {l \in json[c].origin : l.name = old} = {}
      /\ json' = [d \in Component |->
           IF d = c
           THEN [json[c] EXCEPT !.outputFiles = Renamed(@, old, new), !.dst = OwnRenamed(@, old, new),
                                !.origin = OwnRenamed(@, old, new)]
           ELSE IF d \in targets
           THEN [json[d] EXCEPT !.src = OtherRenamed(@, c, old, new),
                                !.origin = OtherRenamed(@, c, old, new)]
           ELSE json[d]]
      /\ UNCHANGED place

\* updateComponent() leaves links alone, but a source that is to be uploaded on
\* demand has its outputFile renamed.
updateComponent(c) ==
  /\ json[c].type = "source" /\ Cardinality(json[c].outputFiles) = 1
  /\ \E old \in json[c].outputFiles : renameOutputFile(c, old, UploadOnDemand)

-----------------------------------------------------------------------------
(* Components.                                                             *)

\* removeAllLinkFromComponent() of every component of C: the others forget it,
\* it is not written itself, and a parent keeps forwardTo and origin.
removeAllLinkFromComponent(C) ==
  LET named(links) == {l.node : l \in links}
      after(d) == {c \in C : d \in json[c].previous}
      before(d) == {c \in C : d \in json[c].next \union json[c].else}
      filesFrom(d) == {c \in C : d \in named(json[c].src)}
      filesTo(d) == {c \in C : d \in named(json[c].dst)}
  IN  [d \in Component |-> [json[d] EXCEPT
        !.next = @ \ after(d), !.else = @ \ after(d), !.previous = @ \ before(d),
        !.dst = {l \in @ : l.node \notin filesFrom(d)},
        !.src = {l \in @ : l.node \notin filesTo(d)}]]

LinkedToParent(c) == json[c].parent \in Counterparts(c)
LinkedToChildren(c) == json[c].forwardTo \union json[c].origin # {}

createNewComponent(p, t, c) ==
  /\ p \in Component /\ json[p].type = "workflow" /\ c \in ID \ Component
  /\ json' = [d \in Component \union {c} |-> IF d = c THEN New(t, p) ELSE json[d]]
  /\ place' = [d \in Component \union {c} |-> IF d = c THEN p ELSE place[d]]

\* A counterpart that does not exist makes it throw, after some components
\* inside c have been unlinked.
removeComponent(c) ==
  LET gone == getDescendantsIDs(c)
  IN  /\ c \in Component \ {Root}
      /\ Careless \/ ~LinkedToParent(c)
      /\ IF \A d \in gone : Counterparts(d) \subseteq Component
         THEN /\ json' = Restrict(removeAllLinkFromComponent(gone), Component \ gone)
              /\ place' = Restrict(place, Component \ gone)
         ELSE /\ \E C \in SUBSET {d \in gone : Counterparts(d) \subseteq Component} :
                   (C # {} => c \in C) /\ json' = removeAllLinkFromComponent(C)
              /\ UNCHANGED place

\* What a container of c may be a target of a paste.
MayHold(p, c) == json[p].type = "workflow" /\ p \notin getDescendantsIDs(c) /\ c # Root

\* pasteComponent() of a copy: every component inside gets a new ID and loses
\* its links, but not forwardTo and origin, which name the old ones.
pasteCopy(c, p, newID) ==
  /\ {c, p} \subseteq Component /\ MayHold(p, c)
  /\ DOMAIN newID = getDescendantsIDs(c) /\ Range(newID) \subseteq ID \ Component /\ IsInjective(newID)
  /\ Careless \/ \A d \in getDescendantsIDs(c) : ~LinkedToChildren(d)
  /\ LET old == AntiFunction(newID)
         copy(d) == [json[old[d]] EXCEPT !.next = {}, !.else = {}, !.previous = {}, !.src = {}, !.dst = {},
                       !.parent = IF old[d] = c THEN p ELSE newID[@]]
     IN  /\ json' = [d \in Component \union Range(newID) |->
                       IF d \in Component THEN json[d] ELSE copy(d)]
         /\ place' = [d \in Component \union Range(newID) |->
                       IF d \in Component THEN place[d]
                       ELSE IF old[d] = c THEN p ELSE newID[place[old[d]]]]

\* pasteComponent() of a component that was cut: the file of c is read before
\* its counterparts forget it and written afterwards, so c keeps its links.  If
\* a counterpart is missing, the directory has moved and nothing else happens.
\* A directory cannot be moved to where it is.
pasteCut(c, p) ==
  /\ {c, p} \subseteq Component /\ MayHold(p, c) /\ p # place[c]
  /\ Careless \/ Counterparts(c) = {}
  /\ place' = [place EXCEPT ![c] = p]
  /\ json' = IF Counterparts(c) \subseteq Component
             THEN [removeAllLinkFromComponent({c}) EXCEPT ![c] = [json[c] EXCEPT !.parent = p]]
             ELSE json

-----------------------------------------------------------------------------

Edit ==
  \/ \E s, d \in Component :
       \/ \E isElse \in BOOLEAN : addLink(s, d, isElse) \/ removeLink(s, d, isElse)
       \/ \E o, i \in json[s].inputFiles \union json[s].outputFiles
                      \union json[d].inputFiles \union json[d].outputFiles : addFileLink(s, o, d, i)
       \/ pasteCut(s, d)
       \/ \E newID \in [getDescendantsIDs(s) -> ID \ Component] : pasteCopy(s, d, newID)
  \/ \E c \in Component :
       \/ removeAllLink(c)
       \/ \E l \in json[c].src : removeFileLink(c, l)
       \/ \E n \in json[c].inputFiles : removeAllFileLink(c, n) \/ removeInputFile(c, n)
       \/ \E n \in json[c].outputFiles : removeAllFileLinkFromChildren(c, n) \/ removeOutputFile(c, n)
       \/ \E n \in Name : addInputFile(c, n) \/ addOutputFile(c, n)
       \/ \E old \in json[c].inputFiles, new \in Name : renameInputFile(c, old, new)
       \/ \E old \in json[c].outputFiles, new \in Name : renameOutputFile(c, old, new)
       \/ updateComponent(c)
       \/ removeComponent(c)
       \/ \E t \in Creatable, new \in ID \ Component : createNewComponent(c, t, new)

Next == edits < MaxEdits /\ edits' = edits + 1 /\ Edit

Spec == Init /\ [][Next]_vars

-----------------------------------------------------------------------------
(* Properties.                                                             *)

\* A component follows those that are to be followed by it and no others: the
\* dispatcher waits for previous and starts next (addLink, removeAllLink).
LinksAgree ==
  \A c \in Component :
    /\ json[c].next \union json[c].else \union json[c].previous \subseteq Component
    /\ \A d \in json[c].next \union json[c].else : c \in json[d].previous
    /\ \A d \in json[c].previous : c \in json[d].next \union json[d].else

\* Both ends of a file link name each other and files that exist: the
\* dispatcher looks for a file by src and delivers it by dst.
FilesAgree ==
  \A c \in Component :
    /\ \A l \in json[c].src :
         /\ l.name \in json[c].inputFiles /\ l.node \in Component
         /\ IF l.node = json[c].parent
            THEN L(l.file, c, l.name) \in json[l.node].forwardTo /\ l.file \in json[l.node].inputFiles
            ELSE L(l.file, c, l.name) \in json[l.node].dst /\ l.file \in json[l.node].outputFiles
    /\ \A l \in json[c].dst :
         /\ l.name \in json[c].outputFiles /\ l.node \in Component
         /\ IF l.node = json[c].parent
            THEN L(l.file, c, l.name) \in json[l.node].origin /\ l.file \in json[l.node].outputFiles
            ELSE L(l.file, c, l.name) \in json[l.node].src /\ l.file \in json[l.node].inputFiles
    /\ \A l \in json[c].forwardTo : l.node \in Component /\ L(l.file, c, l.name) \in json[l.node].src
    /\ \A l \in json[c].origin : l.node \in Component /\ L(l.file, c, l.name) \in json[l.node].dst

\* A component belongs to the workflow in whose directory it lies, and its links
\* do not leave that workflow: a workflow is dispatched from its own directory.
OwnWorkflow ==
  \A c \in Component \ {Root} :
    /\ json[c].parent = place[c]
    /\ \A d \in Counterparts(c) : d # place[c] => d \in Component /\ place[d] = place[c]

\* Whoever reads a link at one end finds the same link at the other, and in the
\* same workflow, after any sequence of edits.
BothEnds == LinksAgree /\ FilesAgree /\ OwnWorkflow

\* Every edit is an edit of the graph the user sees (WorkflowGraph).
Arrows == UNION {
  {<<"link", c, d>> : d \in json[c].next \union json[c].else}
    \union {<<"file", l.node, c>> : l \in json[c].src}
    \union {<<"file", c, l.node>> : l \in {m \in json[c].dst : m.node = json[c].parent}} : c \in Component}
Graph == INSTANCE WorkflowGraph WITH nodes <- Component, arrows <- Arrows
EditsGraph == Graph!Spec

=============================================================================
